------------------------------ MODULE MCFactory ------------------------------
(* Instances of the factory and the reputation contract for TLC.  The limits *)
(* of the code (256 members, 100..1036800 ledgers, i128) are scaled down;    *)
(* the inputs lie on both sides of each.                                     *)
EXTENDS Deployment

MCSigners == {"deployer", "alice"}
\* The documented admin of the reputation contract, and the one deploy.ts sets.
MCAdmins == {"factory", "deployer"}
\* Contract addresses are tuples, like the circles' own.
MCReputationContract == <<"reputation">>
MCUsdcToken == <<"usdc">>
MCCreator == {"alice"}
MCMember == {"m1", "m2", "m3", "d1", "d2"}
MCSeedMembers == <<"d1", "d2">>
MCCircle == MCCreator \X (0..1) \X (0..1)
MCManagedCallers == {<<"alice", 0, 0>>, <<"alice", 1, 0>>}
MCMemberLists == {<<"m1">>, <<"m1", "m2">>, <<"m1", "m1">>,
                  <<"m1", "m2", "m3", "m4", "m5">>}
MCAmounts == {-1, 0, 50, 51, 60000}
MCDeadlines == {1, 2, 3}

\* What programs pass to the SDK: right, out of range, of a wrong type, with a
\* fraction, with an address whose checksum is wrong.
MCAccount(m) == Text([kind |-> "account", who |-> m])
MCAlice == MCAccount("alice")
MCTwo == List(<<MCAccount("m1"), MCAccount("m2")>>)
MCCreateParams ==
  {[creator |-> MCAlice, members |-> ms, roundAmountStroops |-> amount,
    roundDeadlineLedgers |-> deadline] :
     ms \in {MCTwo, List(<<>>), Text(<<>>), List(<<MCAccount("m1"), MCAccount("m1")>>),
             List(<<MCAccount("m1"), Text([kind |-> "miskeyed", who |-> "m2"])>>),
             List(<<MCAccount("m1"), Text([kind |-> "lowercase", who |-> "m2"])>>)},
     amount \in {BigInt(50), BigInt(-5), BigInt(100001), Number(50), Fraction(7),
                 Number(20001), Text(50)},
     deadline \in {Number(2), Number(1), Number(-1), Number(1001), Fraction(2),
                   BigInt(2)}}

\* What is typed into the form.
MCEntry(k, m) == [kind |-> k, who |-> m]
MCEntries == {MCEntry("blank", ""), MCEntry("account", "m1"), MCEntry("account", "m2"),
              MCEntry("account", "alice"), MCEntry("lowercase", "m1"),
              MCEntry("contract", "m1"), MCEntry("miskeyed", "m1")}
MCAmountText(n, t) == [notation |-> n, tenths |-> t]
MCAmountTexts == {MCAmountText("empty", 0), MCAmountText("plain", -10),
  MCAmountText("plain", 0), MCAmountText("plain", 500),
  MCAmountText("plain", 510), MCAmountText("leading-point", 50),
  MCAmountText("exponent", 10), MCAmountText("exponent", 5)}
MCDayText(n, t) == [notation |-> n, mantissa |-> t]
MCDayTexts == {MCDayText("point", 1), MCDayText("plain", 0),
  MCDayText("plain", 1), MCDayText("plain", 2), MCDayText("plain", 3),
  MCDayText("exponent", 1)}

\* What deploy may find: everything right, and one thing wrong at a time.
MCEnv == [network |-> "testnet", passphrase |-> "test passphrase", cli |-> TRUE,
          rust |-> TRUE, target |-> "installed", identity |-> TRUE, rpcOk |-> TRUE,
          xlm |-> 2, usdc |-> "given"]
MCEnvironments ==
  {MCEnv, [MCEnv EXCEPT !.usdc = "unset"], [MCEnv EXCEPT !.usdc = "empty"],
   [MCEnv EXCEPT !.passphrase = "public passphrase"], [MCEnv EXCEPT !.rpcOk = FALSE],
   [MCEnv EXCEPT !.rust = FALSE], [MCEnv EXCEPT !.target = "unknown"],
   [MCEnv EXCEPT !.network = "mainnet"]}
=============================================================================
