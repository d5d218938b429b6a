------------------------------ MODULE Session ------------------------------
(***************************************************************************)
(* The circle page of the web application in a browser with several tabs    *)
(* (app/src/app/circles/[address]/CircleDetailClient.tsx, lib/stellar.ts,   *)
(* lib/actionLease.ts, lib/walletIdentity.ts, lib/deploymentState.ts and    *)
(* lib/indexerUpdates.ts): one action of a member, from the click through   *)
(* simulation, signature, submission and confirmation to the refresh after  *)
(* it, while the wallet changes its account, another tab does the same,     *)
(* refreshes overlap and tabs are closed.                                   *)
(*                                                                         *)
(* JavaScript runs each tab to the next await; a step here is such a run.   *)
(* localStorage is shared without a lock, so reading the lease and writing  *)
(* it are two steps.  What the snapshot says of the circle, and how old it  *)
(* is, is left out: the gates allow the action or refuse it.                *)
(***************************************************************************)
EXTENDS Messages

CONSTANTS
  Tabs,
  Accounts,
  MaxAttempts,       \* bound: clicks that get as far as a simulation
  MaxSwitches        \* bound: changes of the wallet's account or network

None == "none"

ASSUME SessionAssumption ==
  /\ MaxAttempts \in Nat /\ MaxSwitches \in Nat
  /\ Accounts # {} /\ None \notin Tabs /\ None \notin Accounts

VARIABLES
  account,      \* the account selected in the wallet
  switches,     \* how often it, or the network, was changed
  lease,        \* localStorage: account |-> the tab in its lease, or None
  page,         \* tab |-> the state of the page and of its modules
  op,           \* tab |-> the action in progress (doAction's locals)
  sent,         \* attempts whose envelope was sent: it may be applied
  attempts,     \* attempts made by all tabs
  loophole      \* history: accounts whose lease raced, expired or was dropped

sessionVars == <<account, switches, lease, page, op, sent, attempts, loophole>>

Attempt == 1..MaxAttempts

Page ==
  [address : Accounts \cup {None},      \* walletAddress, once it is resolved
   pending : BOOLEAN,                   \* a wallet event is not yet delivered
   verified : BOOLEAN,                  \* deploymentVerified()
   refreshing : BOOLEAN,                \* isManualRefreshing
   fetching : BOOLEAN,                  \* a manual refresh that is not aborted
   retry : BOOLEAN,                     \* retryAction
   told : SUBSET Claims,                \* error: what it claims of the transaction
   last : 0..MaxAttempts]               \* history: what the tab's last action attempted

Phases == {"idle", "lease", "simulate", "sign", "send", "poll", "refresh"}

Op ==
  [phase : Phases,
   signer : Accounts \cup {None},       \* walletAddress when the action began
   same : BOOLEAN,                      \* walletRevision has not changed since
   aborted : BOOLEAN]                   \* txAbortRef's signal

SessionTypeOK ==
  /\ account \in Accounts /\ switches \in 0..MaxSwitches
  /\ lease \in [Accounts -> Tabs \cup {None}]
  /\ page \in [Tabs -> Page] /\ op \in [Tabs -> Op]
  /\ sent \in SUBSET Attempt
  /\ attempts \in 0..MaxAttempts
  /\ loophole \in SUBSET Accounts

\* A page that has just been loaded.
NewPage == [address |-> None, pending |-> FALSE, verified |-> FALSE,
            refreshing |-> FALSE, fetching |-> FALSE, retry |-> FALSE,
            told |-> {}, last |-> 0]
NoOp == [phase |-> "idle", signer |-> None, same |-> FALSE, aborted |-> FALSE]

SessionInit ==
  /\ account = (CHOOSE a \in Accounts : TRUE)     \* whichever: it may change
  /\ switches = 0
  /\ lease = [a \in Accounts |-> None]
  /\ page = [t \in Tabs |-> NewPage]
  /\ op = [t \in Tabs |-> NoOp]
  /\ attempts = 0 /\ sent = {} /\ loophole = {}

-----------------------------------------------------------------------------
(* The wallet and the deployment facts.                                    *)

\* The user selects another account, or the same on another network; every tab
\* will hear of it.
SwitchAccount(a) ==
  /\ switches < MaxSwitches
  /\ account' = a /\ switches' = switches + 1
  /\ page' = [t \in Tabs |-> [page[t] EXCEPT !.pending = TRUE]]
  /\ UNCHANGED <<lease, op, sent, attempts, loophole>>

\* invalidateWalletIdentity and the page's resolve(): the revision counts up,
\* the deployment facts are dropped, the action and the refreshes in flight are
\* aborted, and the page starts over without an address.
WalletEvent(t) ==
  /\ page[t].pending /\ op[t].phase # "lease"
  /\ page' = [page EXCEPT ![t] =
       [NewPage EXCEPT !.last = page[t].last]]
  /\ op' = [op EXCEPT ![t] =
       IF @.phase = "idle" THEN @
       ELSE [@ EXCEPT !.same = FALSE, !.aborted = TRUE]]
  /\ UNCHANGED <<account, switches, lease, sent, attempts, loophole>>

\* getWalletAddress answers with an address, and the deployment is verified
\* with it.
WalletResolved(t) ==
  /\ page[t].address = None /\ op[t].phase # "lease"
  /\ page' = [page EXCEPT ![t].address = account, ![t].verified = TRUE]
  /\ UNCHANGED <<account, switches, lease, op, sent, attempts, loophole>>

\* The deployment facts are dropped, because a new verification begins, finds a
\* mismatch, or the last one is five minutes old; or it ends well again.
VerifyDeployment(t, verified) ==
  /\ page[t].address # None /\ page[t].verified # verified
  /\ page' = [page EXCEPT ![t].verified = verified]
  /\ UNCHANGED <<account, switches, lease, op, sent, attempts, loophole>>

-----------------------------------------------------------------------------
(* doAction, up to the simulation.                                         *)

\* A slip of tryAcquireLease: the lease is not read.
LeaseFree_Slip(a) == TRUE

\* readLease finds no lease that is still valid.
LeaseFree(a) == lease[a] = None

\* What doAction checks before it reads the lease.  A button is enabled only
\* while no manual refresh is in flight (dataReadiness); the offer to retry is
\* a closure of the render that made it and goes by that render's readiness.
MayAct(t, retry) ==
  /\ op[t].phase = "idle"                          \* submittingRef
  /\ page[t].verified /\ page[t].address # None
  /\ IF retry THEN page[t].retry ELSE ~page[t].refreshing

\* A click, on the button or on the offer to retry, finds no lease.
Click(t, retry) ==
  /\ MayAct(t, retry) /\ LeaseFree(page[t].address)
  /\ attempts + Cardinality({u \in Tabs : op[u].phase = "lease"}) < MaxAttempts
  /\ op' = [op EXCEPT ![t] = [phase |-> "lease", signer |-> page[t].address,
                              same |-> TRUE, aborted |-> FALSE]]
  /\ UNCHANGED <<account, switches, lease, page, sent, attempts, loophole>>

\* finally: the tab removes the lease, whoever wrote it.
Release(t) ==
  /\ lease' = [lease EXCEPT ![op[t].signer] = None]
  /\ loophole' = loophole \cup
       (IF lease[op[t].signer] \in {t, None} THEN {} ELSE {op[t].signer})
  /\ op' = [op EXCEPT ![t] = NoOp]

\* The lease is written, and the action goes on to the simulation, or ends at
\* the gate; what the gate says of a snapshot that is too old reads like a
\* failed fetch, and a retry is offered.
WriteLease(t) ==
  /\ op[t].phase = "lease"
  /\ \/ /\ attempts' = attempts + 1
        /\ page' = [page EXCEPT ![t].retry = FALSE, ![t].told = {},
                                    ![t].last = attempts + 1]
        /\ op' = [op EXCEPT ![t].phase = "simulate"]
        /\ lease' = [lease EXCEPT ![op[t].signer] = t]
        /\ loophole' = loophole \cup
             {a \in {op[t].signer} : \E u \in Tabs \ {t} :
                op[u].phase = "lease" /\ op[u].signer = a}
     \/ \E retryable \in BOOLEAN :
        /\ page' = [page EXCEPT ![t].retry = retryable, ![t].told = {},
                                    ![t].last = 0]
        /\ Release(t)
        /\ UNCHANGED attempts
  /\ UNCHANGED <<account, switches, sent>>

\* A lease reaches its LEASE_TTL_MS, whether or not its tab is still at it.
LeaseExpires(a) ==
  /\ lease[a] # None
  /\ lease' = [lease EXCEPT ![a] = None]
  /\ loophole' = loophole \cup
       {b \in {a} : \E t \in Tabs : op[t].signer = b /\ lease[b] = t}
  /\ UNCHANGED <<account, switches, page, op, sent, attempts>>

-----------------------------------------------------------------------------
(* invokeContract: its result, and its steps.                              *)

\* A slip of Fail: a retry is also offered for an envelope with a hash.
Fail_Slip(t, hash, code) ==
  /\ page' = [page EXCEPT
       ![t].retry = ~op[t].aborted /\ isRetryableError(USER_MESSAGES(code)),
       ![t].told = IF op[t].aborted THEN {} ELSE USER_MESSAGES(code) \cap Claims]
  /\ Release(t)

\* The action ends with a failure.  The page shows the sentence of its code; if
\* there is no hash, nothing was submitted, and if the sentence reads like a
\* network error, a retry is offered.  An aborted action ends silently.
Fail(t, hash, code) ==
  /\ page' = [page EXCEPT
       ![t].retry = ~op[t].aborted /\ ~hash /\ isRetryableError(USER_MESSAGES(code)),
       ![t].told = IF op[t].aborted THEN {} ELSE USER_MESSAGES(code) \cap Claims]
  /\ Release(t)

\* A slip of SameIdentity: the page's own record of the wallet will do.
SameIdentity_Slip(t) ==
  /\ op[t].same /\ page[t].address = op[t].signer
  /\ page[t].verified /\ ~op[t].aborted

\* assertIdentity: the wallet is asked for its address; since the action began
\* it has not changed, the deployment is verified, and nobody has aborted.
SameIdentity(t) ==
  /\ op[t].same /\ account = op[t].signer
  /\ page[t].verified /\ ~op[t].aborted

\* getAccount, the simulation and the assembly end, and the identity is asked
\* for; then the wallet prompts for the signature.
Simulate(t) ==
  /\ op[t].phase = "simulate"
  /\ \/ /\ SameIdentity(t)
        /\ op' = [op EXCEPT ![t].phase = "sign"]
        /\ UNCHANGED <<page, lease, loophole>>
     \/ \E code \in simulationErrors : Fail(t, FALSE, code)
  /\ UNCHANGED <<account, switches, sent, attempts>>

\* The user has signed: the identity is asked for again, and the envelope sent.
\* Or the user rejects, the wallet fails or returns another transaction, or the
\* identity is another one.
SignAndSend(t) ==
  /\ op[t].phase = "sign"
  /\ \/ /\ SameIdentity(t)
        /\ sent' = sent \cup {page[t].last}
        /\ op' = [op EXCEPT ![t].phase = "send"]
        /\ UNCHANGED <<page, lease, loophole>>
     \/ /\ \E code \in signatureErrors : Fail(t, FALSE, code)
        /\ UNCHANGED sent
  /\ UNCHANGED <<account, switches, attempts>>

\* sendTransaction is refused, or has no answer within 15 seconds, or answers.
SendAnswer(t) ==
  /\ op[t].phase = "send"
  /\ \/ \* ERROR, or no answer: the outcome is unknown.
        \E code \in submissionErrors : Fail(t, TRUE, code)
     \/ \* PENDING, DUPLICATE or TRY_AGAIN_LATER.
        /\ op' = [op EXCEPT ![t].phase = "poll"]
        /\ UNCHANGED <<page, lease, loophole>>
  /\ UNCHANGED <<account, switches, sent, attempts>>

\* A slip of PollEnds: an attempt that is not found is polled again, uncounted.
PollEnds_Slip(t) == op[t].aborted

\* The poll finds a failed transaction, was aborted, or has made its last of
\* TX_POLL_ATTEMPTS attempts.
PollEnds(t) == TRUE

PollFails(t) ==
  /\ op[t].phase = "poll"
  /\ PollEnds(t)
  /\ \E code \in confirmationErrors : Fail(t, TRUE, code)
  /\ UNCHANGED <<account, switches, sent, attempts>>

\* The poll finds that a ledger has applied the envelope.  postActionRefresh takes over the controller of
\* refreshes, and a manual refresh in flight is aborted.
PollSucceeds(t) ==
  /\ op[t].phase = "poll"
  /\ IF op[t].aborted
       THEN Fail(t, TRUE, "UNKNOWN")
       ELSE /\ page' = [page EXCEPT ![t].fetching = FALSE]
            /\ op' = [op EXCEPT ![t].phase = "refresh"]
            /\ UNCHANGED <<lease, loophole>>
  /\ UNCHANGED <<account, switches, sent, attempts>>

-----------------------------------------------------------------------------
(* Refreshes.                                                              *)

\* postActionRefresh ends, with new data or without; so does an aborted one.
PostRefreshEnds(t) ==
  /\ op[t].phase = "refresh"
  /\ UNCHANGED page
  /\ Release(t)
  /\ UNCHANGED <<account, switches, sent, attempts>>

\* handleManualRefresh, by the user or because the indexer has caught up with a
\* confirmed action.
ManualRefresh(t) ==
  /\ ~page[t].refreshing /\ op[t].phase # "lease"
  /\ page' = [page EXCEPT ![t].refreshing = TRUE, ![t].fetching = TRUE]
  /\ UNCHANGED <<account, switches, lease, op, sent, attempts, loophole>>

\* It ends, with new data or with an error message; one that was aborted
\* returns without a trace.
ManualRefreshEnds(t) ==
  /\ page[t].fetching /\ op[t].phase # "lease"
  /\ page' = [page EXCEPT ![t].refreshing = FALSE, ![t].fetching = FALSE]
  /\ UNCHANGED <<account, switches, lease, op, sent, attempts, loophole>>

\* The tab is closed or reloaded.  Nothing removes its lease.
CloseTab(t) ==
  /\ op[t].phase # "lease"
  /\ page' = [page EXCEPT ![t] = NewPage]
  /\ op' = [op EXCEPT ![t] = NoOp]
  /\ UNCHANGED <<account, switches, lease, sent, attempts, loophole>>

-----------------------------------------------------------------------------
\* The steps of an action that need neither the user, nor another tab, nor that
\* the network ever applies an envelope.
Proceed(t) ==
  \/ WriteLease(t) \/ Simulate(t) \/ SendAnswer(t) \/ PollFails(t)
  \/ PostRefreshEnds(t)

SessionNext ==
  \/ \E a \in Accounts : SwitchAccount(a) \/ LeaseExpires(a)
  \/ \E t \in Tabs :
       \/ WalletEvent(t) \/ WalletResolved(t) \/ SignAndSend(t) \/ PollSucceeds(t)
       \/ Proceed(t)
       \/ ManualRefresh(t) \/ ManualRefreshEnds(t) \/ CloseTab(t)
       \/ \E b \in BOOLEAN : VerifyDeployment(t, b) \/ Click(t, b)

\* Requests are answered or time out, so an action goes on; the user owes
\* nothing, not even an answer to the wallet's prompt.
SessionFairness == \A t \in Tabs : WF_sessionVars(Proceed(t))

SessionSpec == SessionInit /\ [][SessionNext]_sessionVars
FairSessionSpec == SessionSpec /\ SessionFairness

-----------------------------------------------------------------------------
(* Properties.                                                             *)

\* An envelope leaves the page only under the account for which the user
\* reviewed the action, while the page still shows that account and the wallet
\* still has it selected, and before any event, abort or lapse of the
\* verification: whatever happens during the simulation, the prompt and the
\* requests for the address, an action reviewed as one account is not sent
\* after the wallet has been to another.
SendIsReviewed ==
  [][\A t \in Tabs :
       op[t].phase = "sign" /\ op'[t].phase = "send" =>
         /\ page[t].verified
         /\ page[t].address = op[t].signer /\ account = op[t].signer]_sessionVars

\* A retry is offered only when the page's last attempt left nothing behind
\* that could still be applied, or was: neither a lost answer nor a timeout of
\* the confirmation leads to a second submission by one click.  And the page
\* says that no funds were moved only of an attempt that was not sent, and that
\* it was rejected on-chain only of one that was, whatever words the wallet,
\* the browser and the network fail with.
FailureIsHonest ==
  \A t \in Tabs :
    page[t].last # 0 =>
      /\ page[t].retry \/ "no funds were moved" \in page[t].told
           => page[t].last \notin sent
      /\ "rejected on-chain" \in page[t].told => page[t].last \in sent

\* Two tabs take the same action for one account at the same time only through
\* the holes the lease has: both read it before either wrote it, it expired
\* under an action that took too long (or whose tab was closed), or a tab
\* removed the lease of another.
SameActionOnce ==
  \A t, u \in Tabs :
    /\ t # u /\ op[t].signer = op[u].signer /\ op[t].signer \notin loophole
    /\ op[t].phase \notin {"idle", "lease"}
    => op[u].phase \in {"idle", "lease"}

\* An action ends, or waits for the user's signature, whatever the network
\* does.
ActionEnds ==
  \A t \in Tabs : op[t].phase \notin {"idle", "sign"}
                    ~> op[t].phase \in {"idle", "sign"}

=============================================================================
