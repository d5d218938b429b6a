----------------------------- MODULE Reputation -----------------------------
(***************************************************************************)
(* The reputation contract (contracts/reputation/src/lib.rs): one score per *)
(* wallet, moved only by the circles its admin has put on the allowlist and *)
(* not revoked.  As in module Circle an invocation that fails is a          *)
(* stuttering step.                                                         *)
(***************************************************************************)
EXTENDS Integers, Sequences, SequencesExt, FiniteSets, FiniteSetsExt

CONSTANTS
  Signers,     \* the addresses whose require_auth an invocation can satisfy
  Circle,      \* the circle contracts that may be registered
  Member,      \* the wallets whose score is kept
  MaxScore     \* the largest score the stored type holds (u32::MAX)

ASSUME ReputationAssumption ==
  /\ MaxScore \in Nat \ {0}
  /\ "none" \notin Signers
  /\ IsFiniteSet(Circle)

VARIABLES
  admin,              \* DataKey::Admin, "none" before initialize
  AuthorizedCallers,  \* DataKey::AuthorizedCallers, in registration order
  RevokedCallers,     \* DataKey::RevokedCallers
  score,              \* DataKey::Score, 0 where the key is absent
  awards,             \* history: the points each circle has awarded
  log                 \* the events published so far

repVars == <<admin, AuthorizedCallers, RevokedCallers, score, awards, log>>

Event == [name : {"caller_added", "caller_removed"}, circle : Circle]
           \cup [name : {"score_updated"}, member : Member, total : 1..MaxScore]

RepTypeOK ==
  /\ AuthorizedCallers \in Seq(Circle)
  /\ RevokedCallers \in Seq(Circle)
  /\ score \in [Member -> 0..MaxScore]
  /\ awards \in [Circle -> [Member -> Nat]]
  /\ log \in Seq(Event)

RepInit ==
  /\ admin = "none"
  /\ AuthorizedCallers = <<>>
  /\ RevokedCallers = <<>>
  /\ score = [m \in Member |-> 0]
  /\ awards = [c \in Circle |-> [m \in Member |-> 0]]
  /\ log = <<>>

-----------------------------------------------------------------------------
(* The entry points.                                                       *)

require_auth(a) == a \in Signers

\* initialize, past the signature of the admin-to-be.
RepSetup(a) ==
  /\ admin = "none"
  /\ admin' = a
  /\ AuthorizedCallers' = <<>> /\ RevokedCallers' = <<>>
  /\ UNCHANGED <<score, awards, log>>

RepInitialize(a) == require_auth(a) /\ RepSetup(a)

\* The caller is the stored admin; its signature, or the fact that it is the
\* invoking contract, is the caller's affair.
require_admin(caller) == admin # "none" /\ caller = admin

\* Registration after the admin check: refused for a revoked circle, without
\* effect or event for a registered one.
AddCaller(c) ==
  /\ ~Contains(RevokedCallers, c)
  /\ IF Contains(AuthorizedCallers, c)
       THEN UNCHANGED repVars
       ELSE /\ AuthorizedCallers' = Append(AuthorizedCallers, c)
            /\ log' = Append(log, [name |-> "caller_added", circle |-> c])
            /\ UNCHANGED <<admin, RevokedCallers, score, awards>>

add_authorized_caller(caller, c) ==
  /\ require_auth(caller) /\ require_admin(caller)
  /\ AddCaller(c)

\* The loop that keeps every entry of a list but those of a set.
Remaining(s, C) ==
  LET kept[i \in 0..Len(s)] ==
        IF i = 0 THEN <<>>
        ELSE IF s[i] \in C THEN kept[i - 1] ELSE Append(kept[i - 1], s[i])
  IN  kept

Without(s, C) == Remaining(s, C)[Len(s)]

\* A slip of remove_authorized_caller: the address is not tombstoned.
remove_authorized_caller_NoTombstone(caller, c) ==
  LET remaining == Without(AuthorizedCallers, {c})
  IN  /\ require_auth(caller) /\ require_admin(caller)
      /\ Len(remaining) # Len(AuthorizedCallers)
      /\ AuthorizedCallers' = remaining
      /\ log' = Append(log, [name |-> "caller_removed", circle |-> c])
      /\ UNCHANGED <<admin, RevokedCallers, score, awards>>

remove_authorized_caller(caller, c) ==
  LET remaining == Without(AuthorizedCallers, {c})
  IN  /\ require_auth(caller) /\ require_admin(caller)
      /\ Len(remaining) # Len(AuthorizedCallers)
      /\ AuthorizedCallers' = remaining
      /\ RevokedCallers' = Append(RevokedCallers, c)
      /\ log' = Append(log, [name |-> "caller_removed", circle |-> c])
      /\ UNCHANGED <<admin, score, awards>>

\* The codes increment returns, in the order of its checks; 0 is success.
IncrementCode(c, m) ==
  IF admin = "none"                          THEN 4   \* NotInitialized
  ELSE IF Contains(RevokedCallers, c)        THEN 1   \* UnauthorizedCaller
  ELSE IF ~Contains(AuthorizedCallers, c)    THEN 1   \* UnauthorizedCaller
  ELSE IF score[m] = MaxScore                THEN 6   \* ScoreOverflow
  ELSE 0

\* A slip of increment: the stored score is not read back.
increment_Restarts(c, m) ==
  /\ IncrementCode(c, m) = 0
  /\ score' = [score EXCEPT ![m] = 1]
  /\ awards' = [awards EXCEPT ![c][m] = @ + 1]
  /\ log' = Append(log, [name |-> "score_updated", member |-> m, total |-> 1])
  /\ UNCHANGED <<admin, AuthorizedCallers, RevokedCallers>>

\* Called by the circle c itself, which the host lets sign for its own address.
increment(c, m) ==
  /\ IncrementCode(c, m) = 0
  /\ score' = [score EXCEPT ![m] = @ + 1]
  /\ awards' = [awards EXCEPT ![c][m] = @ + 1]
  /\ log' = Append(log, [name |-> "score_updated", member |-> m,
                         total |-> score[m] + 1])
  /\ UNCHANGED <<admin, AuthorizedCallers, RevokedCallers>>

ManageCallers ==
  \E a \in Signers, c \in Circle :
    add_authorized_caller(a, c) \/ remove_authorized_caller(a, c)

RepNext ==
  \/ \E a \in Signers : RepInitialize(a)
  \/ ManageCallers
  \/ \E c \in Circle, m \in Member : increment(c, m)

RepSpec == RepInit /\ [][RepNext]_repVars

-----------------------------------------------------------------------------
(* Properties.                                                             *)

\* The documented allowlist invariants: no address is listed twice, in either
\* list, and none is in both, whatever the admin does.
CallerListsAreClean ==
  /\ IsInjective(AuthorizedCallers) /\ IsInjective(RevokedCallers)
  /\ Range(AuthorizedCallers) \cap Range(RevokedCallers) = {}

\* What an event does to the allowlist and the scores an indexer keeps.
ReplayStep(state, e) ==
  CASE e.name = "caller_added" ->
         [state EXCEPT !.callers = Append(@, e.circle)]
    [] e.name = "caller_removed" ->
         [state EXCEPT !.callers = Without(@, {e.circle})]
    [] e.name = "score_updated" ->
         [state EXCEPT !.score[e.member] = e.total]

\* What all circles together have awarded to one member.
PointsOf(aw, m) == MapThenSumSet(LAMBDA c : aw[c][m], Circle)

\* What the events make of an empty allowlist and scores of zero.
Replayed(events) ==
  FoldLeft(ReplayStep,
           [callers |-> <<>>, score |-> [m \in Member |-> 0]], events)

\* The scores are the points the circles have awarded, summed over all of
\* them: no point appears without an award and none is lost, also at the limit
\* of the stored type.  And replaying the events reproduces the allowlist and
\* the scores: what an indexer that only sees events ends up with.
ScoresAreAwards ==
  /\ \A m \in Member : score[m] = PointsOf(awards, m)
  /\ Replayed(log) = [callers |-> AuthorizedCallers, score |-> score]

\* One circle's standing and points, as the circle sees them.
StandingOf(c) ==
  IF Contains(RevokedCallers, c) THEN "revoked"
  ELSE IF Contains(AuthorizedCallers, c) THEN "authorized" ELSE "unregistered"

View(c) == INSTANCE CallerRegistration
             WITH standing <- StandingOf(c), points <- awards[c]

\* Every circle finds the reputation contract to be the one module Circle
\* assumes: registered at most once, revoked for good, points only in between.
ServesEveryCircle ==
  /\ \A c \in Circle : View(c)!Init
  /\ [][\A c \in Circle :
          View(c)!Next \/ UNCHANGED <<StandingOf(c), awards[c]>>]_repVars
=============================================================================
