----------------------------- MODULE MCSession -----------------------------
(* Instances of the circle page for TLC.                                    *)
EXTENDS Session, TLC

MCTabs == {"tab1", "tab2"}
MCAccounts == {"alice", "bob"}
=============================================================================
