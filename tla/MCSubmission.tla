---------------------------- MODULE MCSubmission ----------------------------
(* Instances of the write path for TLC.                                     *)
EXTENDS Submission
=============================================================================
