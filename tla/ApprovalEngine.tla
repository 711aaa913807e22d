--------------------------- MODULE ApprovalEngine ---------------------------
(***************************************************************************)
(* The approval engine of apps/api/src/modules/platform-approval-engine:   *)
(* requestApproval, decideStep and cancelApproval (and the use cases of    *)
(* the same names), run concurrently as PostgreSQL transactions.           *)
(*                                                                         *)
(* Transactions run at READ COMMITTED: a plain read sees what has been     *)
(* committed and the transaction's own writes; an UPDATE takes the row's   *)
(* lock, waits for the transaction that holds it and evaluates its WHERE   *)
(* on the version it finds then; writes and staged events appear at COMMIT.*)
(* The uncommitted writes and the locks of a transaction are a function of *)
(* how far it has come (DecidedStep, skip, RequestLocked), so that "tx" is *)
(* the only state a transaction adds.                                      *)
(***************************************************************************)
EXTENDS Naturals, Sequences, FiniteSets

CONSTANTS
    Requests,      \* ids of approval requests
    SubjectOf,     \* the (subjectType, subjectId) each request would be for
    NSteps,        \* steps of the policy
    Users,
    Requester,     \* requestedByUserId of every request
    Approvers,     \* who may decide step i: assignee, active delegate or role
    Cancellers,    \* requester and administrators
    Transactions   \* transactions that may run at the same time

ASSUME NStepsAssumption == NSteps \in Nat \ {0}
Steps == 0 .. NSteps - 1
ASSUME UsersAssumption ==
    /\ Requests # {} /\ Users # {}
    /\ Approvers \in [Steps -> SUBSET Users]
    /\ Cancellers \subseteq Users

VARIABLES
    request,    \* approval_requests: status and current_step_index
    stepStatus, \* approval_steps.status by request and step_index
    completed,  \* outcomes of the staged approval.request.completed events
    decided,    \* staged approval.step.decided events
    tx          \* the running transactions

vars == <<request, stepStatus, completed, decided, tx>>

-----------------------------------------------------------------------------

Outcome == {"approved", "rejected", "cancelled"}
StepStatus == {"pending", "approved", "rejected", "skipped"}
Request == [status : {"none", "pending"} \cup Outcome, current : Steps]

\* pc is the next statement of the transaction.
Tx == [pc : {"idle", "insert", "step", "pending", "skip", "request", "commit"},
       r : Requests, i : Steps, outcome : Outcome,
       user : Users,
       last : BOOLEAN,            \* anyPendingStep found none
       skip : SUBSET Steps]       \* steps set to skipped, uncommitted

Idle == [pc |-> "idle", r |-> CHOOSE r \in Requests : TRUE, i |-> 0,
         outcome |-> "cancelled", user |-> CHOOSE u \in Users : TRUE,
         last |-> FALSE, skip |-> {}]

TypeOK ==
    /\ request \in [Requests -> Request]
    /\ stepStatus \in [Requests -> [Steps -> StepStatus]]
    /\ completed \in [Requests -> Seq(Outcome)]
    /\ decided \in [Requests -> SUBSET (Steps \X {"approved", "rejected"} \X Users)]
    /\ tx \in [Transactions -> Tx]

Init ==
    /\ request = [r \in Requests |-> [status |-> "none", current |-> 0]]
    /\ stepStatus = [r \in Requests |-> [i \in Steps |-> "pending"]]
    /\ completed = [r \in Requests |-> <<>>]
    /\ decided = [r \in Requests |-> {}]
    /\ tx = [t \in Transactions |-> Idle]

-----------------------------------------------------------------------------
(***************************************************************************)
(* Uncommitted writes and the row locks they hold.                         *)
(***************************************************************************)

IsDecision(t) == tx[t].outcome # "cancelled"

\* The step a decision has updated and not committed.
DecidedStep(t) ==
    IF IsDecision(t) /\ tx[t].pc \in {"pending", "skip", "request", "commit"}
      THEN {tx[t].i} ELSE {}

StepLocked(r, i, t) ==
    \E u \in Transactions \ {t} : tx[u].r = r /\ i \in DecidedStep(u) \cup tx[u].skip

RequestLocked(r, t) ==
    \E u \in Transactions \ {t} : tx[u].pc = "commit" /\ tx[u].r = r

\* The steps that are still pending as transaction t reads them.
PendingFor(t) == {i \in Steps : /\ stepStatus[tx[t].r][i] = "pending"
                                /\ i \notin DecidedStep(t)}

Goto(t, pc) == tx' = [tx EXCEPT ![t].pc = pc]

\* An exception anywhere in the transaction, a deadlock or a lost connection:
\* PostgreSQL discards every write and releases every lock.
Rollback(t) ==
    /\ tx[t].pc # "idle"
    /\ tx' = [tx EXCEPT ![t] = Idle]
    /\ UNCHANGED <<request, stepStatus, completed, decided>>

-----------------------------------------------------------------------------
(***************************************************************************)
(* requestApproval: look for a request of the subject, insert if none.     *)
(***************************************************************************)

LookUpSubject(t, r) ==
    /\ tx[t].pc = "idle"
    /\ request[r].status = "none"
    /\ \A s \in Requests : SubjectOf[s] = SubjectOf[r] => request[s].status = "none"
    /\ tx' = [tx EXCEPT ![t] = [Idle EXCEPT !.pc = "insert", !.r = r]]
    /\ UNCHANGED <<request, stepStatus, completed, decided>>

\* Inserts the request and its steps and commits; no unique index covers the
\* subject, so nothing makes a second insert fail.  Ids are fresh.
InsertRequest(t) ==
    /\ tx[t].pc = "insert"
    /\ request[tx[t].r].status = "none"
    /\ request' = [request EXCEPT ![tx[t].r].status = "pending"]
    /\ tx' = [tx EXCEPT ![t] = Idle]
    /\ UNCHANGED <<stepStatus, completed, decided>>

-----------------------------------------------------------------------------
(***************************************************************************)
(* decideStep and cancelApproval.                                          *)
(***************************************************************************)

\* The reads and checks of decideStep.  Of what they read only the statuses
\* and the current step change, and every UPDATE below reads those again.
BeginDecision(t, r, i, u, outcome) ==
    /\ tx[t].pc = "idle"
    /\ outcome \in {"approved", "rejected"}
    /\ request[r].status = "pending"
    /\ u # Requester
    /\ i = request[r].current
    /\ stepStatus[r][i] = "pending"
    /\ u \in Approvers[i]
    /\ tx' = [tx EXCEPT ![t] = [Idle EXCEPT !.pc = "step", !.r = r, !.i = i,
                                             !.user = u, !.outcome = outcome]]
    /\ UNCHANGED <<request, stepStatus, completed, decided>>

StepUpdatable_Unguarded(r, i) == TRUE

\* The WHERE of updateStepIfPending.
StepUpdatable(r, i) == stepStatus[r][i] = "pending"

\* updateStepIfPending; when it matches no row the transaction throws, which is
\* Rollback.
UpdateStep(t) ==
    /\ tx[t].pc = "step"
    /\ ~StepLocked(tx[t].r, tx[t].i, t)
    /\ StepUpdatable(tx[t].r, tx[t].i)
    /\ Goto(t, IF tx[t].outcome = "approved" THEN "pending" ELSE "skip")
    /\ UNCHANGED <<request, stepStatus, completed, decided>>

NonePendingFor_TwoStepPolicies(t) == tx[t].i >= 1 \/ PendingFor(t) = {}
NonePendingFor_Committed(t) == \A i \in Steps : stepStatus[tx[t].r][i] # "pending"

NonePendingFor(t) == PendingFor(t) = {}

\* anyPendingStep decides whether this approval is the last one.
ReadPendingSteps(t) ==
    /\ tx[t].pc = "pending"
    /\ tx' = [tx EXCEPT ![t].pc = "request", ![t].last = NonePendingFor(t)]
    /\ UNCHANGED <<request, stepStatus, completed, decided>>

\* cancelApproval reads the request first ...
BeginCancel(t, r, u) ==
    /\ tx[t].pc = "idle"
    /\ request[r].status = "pending"
    /\ u \in Cancellers
    /\ tx' = [tx EXCEPT ![t] = [Idle EXCEPT !.pc = "skip", !.r = r, !.user = u]]
    /\ UNCHANGED <<request, stepStatus, completed, decided>>

Skippable_CurrentOnly(t) == PendingFor(t) \cap {request[tx[t].r].current}

\* The rows skipPendingSteps updates.
Skippable(t) == PendingFor(t)

\* ... and, like a rejection, sets what is still pending to skipped.
SkipPendingSteps(t) ==
    /\ tx[t].pc = "skip"
    /\ \A i \in PendingFor(t) : ~StepLocked(tx[t].r, i, t)
    /\ tx' = [tx EXCEPT ![t].pc = "request", ![t].skip = Skippable(t)]
    /\ UNCHANGED <<request, stepStatus, completed, decided>>

RequestUpdatable_Unguarded(r) == TRUE

\* The WHERE of updateRequestIfPending.
RequestUpdatable(r) == request[r].status = "pending"

\* updateRequestIfPending: the final status, or the advance to the next step.
UpdateRequest(t) ==
    /\ tx[t].pc = "request"
    /\ ~RequestLocked(tx[t].r, t)
    /\ RequestUpdatable(tx[t].r)
    /\ Goto(t, "commit")
    /\ UNCHANGED <<request, stepStatus, completed, decided>>

Finishes(t) == tx[t].outcome # "approved" \/ tx[t].last

RequestPatch(t) ==
    IF Finishes(t) THEN [request[tx[t].r] EXCEPT !.status = tx[t].outcome]
                   ELSE [request[tx[t].r] EXCEPT !.current = tx[t].i + 1]

\* COMMIT publishes the writes and the staged events together.
Commit(t) ==
    LET r == tx[t].r IN
    /\ tx[t].pc = "commit"
    /\ request' = [request EXCEPT ![r] = RequestPatch(t)]
    /\ stepStatus' = [stepStatus EXCEPT ![r] =
                        [i \in Steps |-> CASE i \in DecidedStep(t) -> tx[t].outcome
                                           [] i \in tx[t].skip -> "skipped"
                                           [] OTHER -> @[i]]]
    /\ completed' = [completed EXCEPT ![r] =
                        IF Finishes(t) THEN Append(@, tx[t].outcome) ELSE @]
    /\ decided' = [decided EXCEPT ![r] =
                        @ \cup {<<i, tx[t].outcome, tx[t].user>> : i \in DecidedStep(t)}]
    /\ tx' = [tx EXCEPT ![t] = Idle]

Next ==
    \E t \in Transactions :
        \/ \E r \in Requests : LookUpSubject(t, r)
        \/ InsertRequest(t)
        \/ \E r \in Requests, i \in Steps, u \in Users, outcome \in Outcome :
               BeginDecision(t, r, i, u, outcome)
        \/ \E r \in Requests, u \in Users : BeginCancel(t, r, u)
        \/ UpdateStep(t) \/ ReadPendingSteps(t) \/ SkipPendingSteps(t)
        \/ UpdateRequest(t) \/ Commit(t)
        \/ Rollback(t)

Spec == Init /\ [][Next]_vars

-----------------------------------------------------------------------------
(***************************************************************************)
(* Properties.                                                             *)
(***************************************************************************)

\* A request and its steps tell the same story however decisions and
\* cancellations interleave: the steps before the current one are approved;
\* from there on they are pending while the request is, all approved when it
\* is approved, the current one rejected and the rest skipped when it is
\* rejected, all skipped when it is cancelled.
StepsMatchRequest ==
    \A r \in Requests :
        LET current == request[r].current
            steps(s) == {i \in Steps : stepStatus[r][i] = s}
            before == {i \in Steps : i < current}
            after == {i \in Steps : i > current}
        IN  CASE request[r].status \in {"none", "pending"} ->
                     steps("approved") = before /\ steps("pending") = {current} \cup after
              [] request[r].status = "approved" -> steps("approved") = Steps
              [] request[r].status = "rejected" ->
                     /\ steps("approved") = before
                     /\ steps("rejected") = {current}
                     /\ steps("skipped") = after
              [] request[r].status = "cancelled" ->
                     steps("approved") = before /\ steps("skipped") = {current} \cup after

\* Consumers see one completion per request and it carries the final status:
\* no decision and cancellation that raced were both announced.
CompletionAnnouncedOnce ==
    \A r \in Requests :
        completed[r] = IF request[r].status \in Outcome
                         THEN <<request[r].status>> ELSE <<>>

\* The decided events say what the steps say, once per step: their idempotency
\* key "request:step:approval.step.decided" never stands for two decisions.
DecisionsAnnouncedOnce ==
    \A r \in Requests :
        /\ \A e, f \in decided[r] : e[1] = f[1] => e = f
        /\ {<<e[1], e[2]>> : e \in decided[r]} =
              {<<i, stepStatus[r][i]>> :
                  i \in {j \in Steps : stepStatus[r][j] \in {"approved", "rejected"}}}

\* The engine implements its promise: step-by-step approval by all steps, one
\* final outcome, announced in the step that makes it final.
Decision == INSTANCE ApprovalDecision WITH
    status    <- [r \in Requests |-> request[r].status],
    approvals <- [r \in Requests |->
                     Cardinality({i \in Steps : stepStatus[r][i] = "approved"})],
    announced <- completed
ImplementsDecision == Decision!DecisionSpec

\* What the comment in requestApproval says: an existing request of the subject
\* is reused, so a subject has one.
OneRequestPerSubject ==
    \A r, s \in Requests :
        /\ request[r].status # "none"
        /\ request[s].status # "none"
        /\ SubjectOf[r] = SubjectOf[s]
        => r = s
=============================================================================
