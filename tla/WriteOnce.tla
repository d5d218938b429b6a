----------------------------- MODULE WriteOnce -----------------------------
(***************************************************************************)
(* What the SDK promises of a write, without envelopes, RPC or polling: the *)
(* caller makes attempts, the chain settles each attempt at most once, the  *)
(* caller learns nothing but the truth, and an attempt is only followed by  *)
(* another when the caller knows that it did not and will not take effect.  *)
(***************************************************************************)
EXTENDS Naturals

CONSTANTS
  Writes,        \* the writes an application wants made
  MaxCalls       \* bound: attempts at one write

VARIABLES
  attempts,      \* the number of attempts made at each write
  fate,          \* what the chain did with each attempt
  known          \* what the caller knows of each attempt

onceVars == <<attempts, fate, known>>

Attempt == Writes \X (1..MaxCalls)
Fates == {"open", "success", "failed", "never"}
Ineffective == {"failed", "never"}

OnceTypeOK ==
  /\ attempts \in [Writes -> 0..MaxCalls]
  /\ fate \in [Attempt -> Fates]
  /\ known \in [Attempt -> Fates]

OnceInit ==
  /\ attempts = [w \in Writes |-> 0]
  /\ fate = [a \in Attempt |-> "open"]
  /\ known = [a \in Attempt |-> "open"]

\* A further attempt needs the certainty that the one before had no effect.
Try(w) ==
  /\ attempts[w] < MaxCalls
  /\ attempts[w] = 0 \/ known[<<w, attempts[w]>>] \in Ineffective
  /\ attempts' = [attempts EXCEPT ![w] = @ + 1]
  /\ UNCHANGED <<fate, known>>

\* The chain includes the attempt; it takes effect or fails.
Include(a, f) ==
  /\ a[2] \in 1..attempts[a[1]]
  /\ fate[a] = "open"
  /\ f \in {"success", "failed"}
  /\ fate' = [fate EXCEPT ![a] = f]
  /\ UNCHANGED <<attempts, known>>

\* The caller learns the fate of its attempt.
Learn(a) ==
  /\ a[2] \in 1..attempts[a[1]]
  /\ fate[a] # "open"
  /\ known' = [known EXCEPT ![a] = fate[a]]
  /\ UNCHANGED <<attempts, fate>>

\* The caller learns that the attempt will never be included, which settles it.
Forget(a) ==
  /\ a[2] \in 1..attempts[a[1]]
  /\ fate[a] = "open"
  /\ fate' = [fate EXCEPT ![a] = "never"]
  /\ known' = [known EXCEPT ![a] = "never"]
  /\ UNCHANGED attempts

OnceNext ==
  \/ \E w \in Writes : Try(w)
  \/ \E a \in Attempt :
       Learn(a) \/ Forget(a) \/ \E f \in {"success", "failed"} : Include(a, f)

OnceSpec == OnceInit /\ [][OnceNext]_onceVars

\* No write takes effect twice.
AtMostOnce ==
  \A a, b \in Attempt :
    a[1] = b[1] /\ fate[a] = "success" /\ fate[b] = "success" => a = b
=============================================================================
