--------------------------- MODULE LeaveApproval ---------------------------
(***************************************************************************)
(* A leave request and its approval: the use cases of modules/leave that   *)
(* create, update and cancel leave requests against one yearly balance,    *)
(* the approval engine (by the actions it promises, ApprovalDecision), and *)
(* integration/leave-approval, whose event handlers link the two.          *)
(*                                                                         *)
(* Nothing spans the two sides but events of the outbox, which may be      *)
(* delivered late, in any order and more than once, to several handlers at *)
(* a time; a handler may die between any two of its statements.  A use     *)
(* case reads the leave outside the transaction that writes it, so read    *)
(* and write are two steps; a transaction takes its locks at its first     *)
(* write and is one step from there to its commit.                         *)
(*                                                                         *)
(* When the employee is terminated, a subscriber of the leave module       *)
(* cancels the pending leaves by itself: one statement each, by id alone,  *)
(* and without any event (LeaveEmployeeLifecycleSubscriber).               *)
(***************************************************************************)
EXTENDS ApprovalDecision, FiniteSets

CONSTANTS
    Leaves,            \* leave requests of one employee, leave type and year
    SubjectOf,         \* the leave each approval request would be for
    Units,             \* total_units a request may ask for
    Totals,            \* what the balance may be set to (opening + accrued ...)
    ApprovalRules,     \* what administrators set leave_types.requires_approval
                       \* to; the type is paid
    Overlap,           \* pairs of leaves whose dates overlap
    Handlers,          \* event deliveries that may run at the same time
    Calls,             \* use case calls that may run at the same time
    Terminations,      \* deliveries of employee.terminated that may be handled
                       \* at the same time
    MaxFailures,       \* bound on handler failures
    LateWrites,        \* may a leave change between a read and the write?
    EarlyEvents        \* may an approval be decided, or its cancellation be
                       \* delivered, before the leave is linked to it?

ASSUME LeavesAssumption ==
    /\ IsFiniteSet(Leaves) /\ Requests # {}
    /\ SubjectOf \in [Requests -> Leaves]
    /\ Overlap \subseteq Leaves \X Leaves
    /\ Units \subseteq Nat \ {0}
    /\ Totals \subseteq Nat
ASSUME ModeAssumption ==
    /\ ApprovalRules \subseteq BOOLEAN
    /\ {LateWrites, EarlyEvents} \subseteq BOOLEAN
    /\ MaxFailures \in Nat

VARIABLES
    leave,        \* leave_requests: status and total_units
    total, used,  \* the leave_balances row
    link,         \* the rows of leave_approval_links
    requested,    \* leaves with a staged leave.approval.requested event
    cancelled,    \* leaves with a staged leave.cancellation.requested event
    outcomes,     \* staged approved, rejected and cancelled events per leave
    silenced,     \* leaves a termination cancelled, for which none is staged
    delivered,    \* events a handler has returned from
    processed,    \* consumer_idempotency
    handler,      \* the running event handlers
    subscriber,   \* per termination, the leaves it has read and not yet cancelled
    call,         \* the running use cases
    failures      \* handler failures so far

eventVars == <<requested, cancelled, outcomes, silenced>>
deliveryVars == <<delivered, processed, failures, subscriber>>
leaveVars == <<leave, used>>
vars == <<decisionVars, leaveVars, total, link, eventVars, deliveryVars, handler, call>>

-----------------------------------------------------------------------------

Status == {"none", "pending", "approved", "rejected", "cancelled"}
Leave == [status : Status, units : Units \cup {0}]
NoLeave == [status |-> "none", units |-> 0]
Link == [leave : Leaves, request : Requests, status : Status \ {"none"}]

Event == [type : {"requested", "cancelled"}, leave : Leaves]
            \cup [type : {"completed"}, request : Requests]
Staged == {[type |-> "requested", leave |-> l] : l \in requested}
            \cup {[type |-> "cancelled", leave |-> l] : l \in cancelled}
            \cup {[type |-> "completed", request |-> r] :
                     r \in {s \in Requests : announced[s] # <<>>}}

AnyLeave == CHOOSE l \in Leaves : TRUE
AnyRequest == CHOOSE r \in Requests : TRUE
IdleHandler == [pc |-> "idle", event |-> [type |-> "requested", leave |-> AnyLeave],
                leave |-> AnyLeave, request |-> AnyRequest, seen |-> NoLeave]
IdleCall == [pc |-> "idle", leave |-> AnyLeave, seen |-> NoLeave, units |-> 0]

Handler == [pc : {"idle", "link", "lookup", "insert", "createLink", "cancel",
                  "linkCancelled", "read", "apply", "mark"},
            event : Event, leave : Leaves, request : Requests, seen : Leave]
Call == [pc : {"idle", "create", "update", "cancel"},
         leave : Leaves, seen : Leave, units : Units \cup {0}]

TypeOK ==
    /\ status \in [Requests -> {"none", "pending"} \cup Outcome]
    /\ approvals \in [Requests -> 0 .. NSteps]
    /\ announced \in [Requests -> Seq(Outcome)]
    /\ leave \in [Leaves -> Leave]
    /\ total \in Totals /\ used \in Nat
    /\ link \subseteq Link
    /\ requested \subseteq Leaves /\ cancelled \subseteq Leaves
    /\ outcomes \in [Leaves -> Seq(Outcome)]
    /\ silenced \subseteq Leaves
    /\ processed \subseteq delivered /\ delivered \subseteq Staged
    /\ handler \in [Handlers -> Handler]
    /\ call \in [Calls -> Call]
    /\ subscriber \in [Terminations -> SUBSET Leaves]
    /\ failures \in 0 .. MaxFailures

Init ==
    /\ DecisionInit
    /\ leave = [l \in Leaves |-> NoLeave]
    /\ total \in Totals /\ used = 0
    /\ link = {}
    /\ requested = {} /\ cancelled = {}
    /\ outcomes = [l \in Leaves |-> <<>>] /\ silenced = {}
    /\ delivered = {} /\ processed = {} /\ failures = 0
    /\ handler = [h \in Handlers |-> IdleHandler]
    /\ call = [c \in Calls |-> IdleCall]
    /\ subscriber = [t \in Terminations |-> {}]

-----------------------------------------------------------------------------
(***************************************************************************)
(* Rows and what the statements read of them.                              *)
(***************************************************************************)

LinksOf(l) == {k \in link : k.leave = l}
LinksTo(r) == {k \in link : k.request = r}

SetLink(l, s) ==
    link' = {IF k.leave = l THEN [k EXCEPT !.status = s] ELSE k : k \in link}

\* The units of some leaves one by one, and how many they are.
DaysOf(ls) == UNION {{l} \X (1 .. leave[l].units) : l \in ls}
UnitsOf(ls) == Cardinality(DaysOf(ls))
With(s) == {l \in Leaves : leave[l].status = s}

Taken_IgnoresPending(l) == used

\* What is used of the balance and what the other pending requests reserve.
Taken(l) == used + UnitsOf(With("pending") \ {l})

\* Unless LateWrites, whoever has read a leave writes it before the next one
\* reads it.
Undisturbed(l) ==
    \/ LateWrites
    \/ /\ \A c \in Calls : ~(call[c].pc # "idle" /\ call[c].leave = l)
       /\ \A h \in Handlers : ~(handler[h].pc = "apply" /\ handler[h].leave = l)
       /\ \A t \in Terminations : l \notin subscriber[t]

Announce(l, outcome) == outcomes' = [outcomes EXCEPT ![l] = Append(@, outcome)]

-----------------------------------------------------------------------------
(***************************************************************************)
(* Use cases.                                                              *)
(***************************************************************************)

EndCall(c) == call' = [call EXCEPT ![c] = IdleCall]

BeginCall(c, pc, l, u) ==
    /\ call[c].pc = "idle"
    /\ call' = [call EXCEPT ![c] = [pc |-> pc, leave |-> l, seen |-> leave[l],
                                    units |-> u]]
    /\ UNCHANGED <<decisionVars, leaveVars, total, link, eventVars, deliveryVars, handler>>

OverlapsOther(l) ==
    \E m \in With("pending") \cup With("approved") :
        <<l, m>> \in Overlap \/ <<m, l>> \in Overlap

\* CreateLeaveRequestUseCase: the overlap check, without a lock ...
BeginCreate(c, l, u) ==
    /\ leave[l] = NoLeave
    /\ \A d \in Calls : ~(call[d].pc = "create" /\ call[d].leave = l)
    /\ ~OverlapsOther(l)
    /\ BeginCall(c, "create", l, u)

\* ... then, with the balance locked, the quota check and the insert.  A leave
\* of a type without approval is approved at once.
InsertLeave(c) ==
    LET l == call[c].leave
        u == call[c].units
    IN  /\ call[c].pc = "create"
        /\ Taken(l) + u <= total
        /\ \E requiresApproval \in ApprovalRules :
             IF requiresApproval
               THEN /\ leave' = [leave EXCEPT ![l] = [status |-> "pending", units |-> u]]
                    /\ requested' = requested \cup {l}
                    /\ UNCHANGED <<used, outcomes>>
               ELSE /\ leave' = [leave EXCEPT ![l] = [status |-> "approved", units |-> u]]
                    /\ used' = used + u
                    /\ Announce(l, "approved")
                    /\ UNCHANGED requested
        /\ EndCall(c)
        /\ UNCHANGED <<decisionVars, total, link, cancelled, silenced, deliveryVars, handler>>

\* UpdateLeaveRequestUseCase reads the leave and checks its status ...
BeginUpdate(c, l, u) ==
    /\ leave[l].status = "pending"
    /\ Undisturbed(l)
    /\ BeginCall(c, "update", l, u)

\* ... and writes it by id alone once the quota check has passed.
UpdateLeave(c) ==
    LET l == call[c].leave IN
    /\ call[c].pc = "update"
    /\ Taken(l) + call[c].units <= total
    /\ leave' = [leave EXCEPT ![l].units = call[c].units]
    /\ EndCall(c)
    /\ UNCHANGED <<decisionVars, used, total, link, eventVars, deliveryVars, handler>>

\* CancelLeaveRequestUseCase reads the leave; only a cancelled one is refused.
BeginCancel(c, l) ==
    /\ leave[l].status \in {"pending", "approved", "rejected"}
    /\ Undisturbed(l)
    /\ BeginCall(c, "cancel", l, 0)

\* The WHERE of its updateStatusWithGuard.
Cancellable(c) == leave[call[c].leave].status = call[c].seen.status

Refund_AnyStatus(seen) == seen.units

\* decrementUsedBalance gives back the units as they were read.
Refund(seen) == IF seen.status = "approved" THEN seen.units ELSE 0

\* GREATEST(0, used - units)
Less(n, m) == IF m <= n THEN n - m ELSE 0

CancelLeave(c) ==
    LET l == call[c].leave
        seen == call[c].seen
    IN  /\ call[c].pc = "cancel"
        /\ Cancellable(c)
        /\ leave' = [leave EXCEPT ![l].status = "cancelled"]
        /\ used' = Less(used, Refund(seen))
        /\ cancelled' = IF seen.status = "pending" THEN cancelled \cup {l} ELSE cancelled
        /\ Announce(l, "cancelled")
        /\ EndCall(c)
        /\ UNCHANGED <<decisionVars, total, link, requested, silenced, deliveryVars, handler>>

\* A check failed, the guarded update matched no row, or the instance died.
Refuse(c) ==
    /\ call[c].pc # "idle"
    /\ EndCall(c)
    /\ UNCHANGED <<decisionVars, leaveVars, total, link, eventVars, deliveryVars, handler>>

\* The balance is also kept by hand; nothing in the API writes these columns.
AdjustBalance ==
    /\ total' \in Totals \ {total}
    /\ UNCHANGED <<decisionVars, leaveVars, link, eventVars, deliveryVars, handler, call>>

-----------------------------------------------------------------------------
(***************************************************************************)
(* The approval engine.                                                    *)
(***************************************************************************)

\* An approver or administrator decides; see ApprovalEngine for how.
Decide(r) ==
    /\ EarlyEvents \/ LinksTo(r) # {}
    /\ ApproveStep(r) \/ ApproveLastStep(r) \/ Reject(r) \/ Cancel(r)
    /\ UNCHANGED <<leaveVars, total, link, eventVars, deliveryVars, handler, call>>

RequestsFor(l) == {r \in Requests : SubjectOf[r] = l /\ status[r] # "none"}

-----------------------------------------------------------------------------
(***************************************************************************)
(* The integration's event handlers.                                       *)
(***************************************************************************)

GotoPc(h, pc) == handler' = [handler EXCEPT ![h].pc = pc]

\* The handler returns, so the outbox marks the event published.
Return(h) ==
    /\ delivered' = delivered \cup {handler[h].event}
    /\ handler' = [handler EXCEPT ![h] = IdleHandler]

EventLeave(e) == IF e.type = "completed" THEN SubjectOf[e.request] ELSE e.leave

\* isProcessed ends the handling of an event that has a mark.
Deliver(h, e) ==
    /\ handler[h].pc = "idle"
    /\ e \in Staged \ processed
    /\ e.type = "cancelled" => EarlyEvents \/ LinksOf(e.leave) # {}
    /\ handler' = [handler EXCEPT ![h] = [IdleHandler EXCEPT
                      !.pc = "link", !.event = e, !.leave = EventLeave(e)]]
    /\ UNCHANGED <<decisionVars, leaveVars, total, link, eventVars, deliveryVars, call>>

\* leave.approval.requested: a leave that is linked needs nothing more.
RequestedFindsLink(h) ==
    /\ handler[h].pc = "link" /\ handler[h].event.type = "requested"
    /\ GotoPc(h, IF LinksOf(handler[h].leave) # {} THEN "mark" ELSE "lookup")
    /\ UNCHANGED <<decisionVars, leaveVars, total, link, eventVars, deliveryVars, call>>

\* The engine reuses a request of the same subject, whatever its status.
LookUpSubject(h) ==
    LET rs == RequestsFor(handler[h].leave) IN
    /\ handler[h].pc = "lookup"
    /\ \/ /\ rs = {}
          /\ GotoPc(h, "insert")
       \/ \E r \in rs :
             handler' = [handler EXCEPT ![h].pc = "createLink", ![h].request = r]
    /\ UNCHANGED <<decisionVars, leaveVars, total, link, eventVars, deliveryVars, call>>

InsertRequest(h) ==
    /\ handler[h].pc = "insert"
    /\ \E r \in Requests :
          /\ SubjectOf[r] = handler[h].leave
          /\ Create(r)
          /\ handler' = [handler EXCEPT ![h].pc = "createLink", ![h].request = r]
    /\ UNCHANGED <<leaveVars, total, link, eventVars, deliveryVars, call>>

LinkInsertable_NoUniqueIndex(k) == TRUE

\* UNIQUE(leave_request_id), UNIQUE(approval_request_id)
LinkInsertable(k) == LinksOf(k.leave) = {} /\ LinksTo(k.request) = {}

CreateLink(h) ==
    LET k == [leave |-> handler[h].leave, request |-> handler[h].request,
              status |-> "pending"]
    IN  /\ handler[h].pc = "createLink"
        /\ LinkInsertable(k)
        /\ link' = link \cup {k}
        /\ GotoPc(h, "mark")
        /\ UNCHANGED <<decisionVars, leaveVars, total, eventVars, deliveryVars, call>>

\* leave.cancellation.requested: without a link the event is dropped.
CancelledFindsLink(h) ==
    /\ handler[h].pc = "link" /\ handler[h].event.type = "cancelled"
    /\ IF LinksOf(handler[h].leave) = {}
         THEN Return(h)
         ELSE /\ \E k \in LinksOf(handler[h].leave) :
                    handler' = [handler EXCEPT ![h].pc = "cancel", ![h].request = k.request]
              /\ UNCHANGED delivered
    /\ UNCHANGED <<decisionVars, leaveVars, total, link, eventVars, processed, failures,
                   subscriber, call>>

\* cancelApproval throws unless the request is pending.
CancelApproval(h) ==
    /\ handler[h].pc = "cancel"
    /\ Cancel(handler[h].request)
    /\ GotoPc(h, "linkCancelled")
    /\ UNCHANGED <<leaveVars, total, link, eventVars, deliveryVars, call>>

LinkCancelled(h) ==
    /\ handler[h].pc = "linkCancelled"
    /\ SetLink(handler[h].leave, "cancelled")
    /\ GotoPc(h, "mark")
    /\ UNCHANGED <<decisionVars, leaveVars, total, eventVars, deliveryVars, call>>

\* approval.request.completed: an approval no leave is linked to is ignored.
CompletedFindsLink(h) ==
    /\ handler[h].pc = "link" /\ handler[h].event.type = "completed"
    /\ IF LinksTo(handler[h].event.request) = {}
         THEN Return(h)
         ELSE GotoPc(h, "read") /\ UNCHANGED delivered
    /\ UNCHANGED <<decisionVars, leaveVars, total, link, eventVars, processed, failures,
                   subscriber, call>>

\* LeaveDecisionHandler opens its transaction and reads the leave ...
ReadLeave(h) ==
    /\ handler[h].pc = "read"
    /\ Undisturbed(handler[h].leave)
    /\ handler' = [handler EXCEPT ![h].pc = "apply", ![h].seen = leave[handler[h].leave]]
    /\ UNCHANGED <<decisionVars, leaveVars, total, link, eventVars, deliveryVars, call>>

Applicable_NotTerminal(h) == handler[h].seen.status = "pending"

\* ... applies the decision if the leave was not terminal and its guarded
\* update finds the status it read ...
Applicable(h) == /\ handler[h].seen.status = "pending"
                 /\ leave[handler[h].leave].status = handler[h].seen.status

\* incrementUsedBalance has a WHERE of its own.
Affordable(units) == used + units <= total

EngineOutcome(h) == status[handler[h].event.request]

EffectiveOutcome(h) ==
    IF EngineOutcome(h) = "approved" /\ ~Affordable(handler[h].seen.units)
      THEN "rejected" ELSE EngineOutcome(h)

ApplyDecision(h) ==
    LET l == handler[h].leave
        outcome == EffectiveOutcome(h)
    IN  /\ handler[h].pc = "apply"
        /\ Applicable(h)
        /\ leave' = [leave EXCEPT ![l].status = outcome]
        /\ used' = IF outcome = "approved" THEN used + handler[h].seen.units ELSE used
        /\ SetLink(l, outcome)
        /\ Announce(l, outcome)
        /\ GotoPc(h, "mark")
        /\ UNCHANGED <<decisionVars, total, requested, cancelled, silenced, deliveryVars, call>>

\* ... and otherwise leaves the leave as it is; a cancellation still reaches
\* the link of a leave that is cancelled already.
IgnoreDecision(h) ==
    /\ handler[h].pc = "apply"
    /\ ~Applicable(h)
    /\ IF EngineOutcome(h) = "cancelled" /\ handler[h].seen.status = "cancelled"
         THEN SetLink(handler[h].leave, "cancelled") ELSE UNCHANGED link
    /\ GotoPc(h, "mark")
    /\ UNCHANGED <<decisionVars, leaveVars, total, eventVars, deliveryVars, call>>

MarkProcessed(h) ==
    /\ handler[h].pc = "mark"
    /\ processed' = processed \cup {handler[h].event}
    /\ Return(h)
    /\ UNCHANGED <<decisionVars, leaveVars, total, link, eventVars, failures, subscriber, call>>

Abort_Marks(h) ==
    /\ processed' = processed \cup {handler[h].event}
    /\ Return(h)
    /\ UNCHANGED <<decisionVars, leaveVars, total, link, eventVars, subscriber, call>>

Abort(h) ==
    /\ handler' = [handler EXCEPT ![h] = IdleHandler]
    /\ UNCHANGED <<decisionVars, leaveVars, total, link, eventVars, delivered,
                   processed, subscriber, call>>

\* An exception the data causes: the event stays unpublished and is retried.
Throw(h) ==
    /\ \/ handler[h].pc = "cancel" /\ status[handler[h].request] # "pending"
       \/ /\ handler[h].pc = "createLink"
          /\ LinksOf(handler[h].leave) \cup LinksTo(handler[h].request) # {}
    /\ Abort(h)
    /\ UNCHANGED failures

\* A statement fails or the instance dies.
Fail(h) ==
    /\ handler[h].pc # "idle"
    /\ failures < MaxFailures
    /\ failures' = failures + 1
    /\ Abort(h)

-----------------------------------------------------------------------------
(***************************************************************************)
(* The leave module's own subscriber to employee.terminated.               *)
(***************************************************************************)

\* It reads the employee's pending leaves once ...  Its mark (isProcessed) ends
\* the redelivery of one event; a rehired employee is terminated by another.
ReadPending(t) ==
    /\ subscriber[t] = {}
    /\ \A l \in With("pending") : Undisturbed(l)
    /\ subscriber' = [subscriber EXCEPT ![t] = With("pending")]
    /\ UNCHANGED <<decisionVars, leaveVars, total, link, eventVars, delivered, processed,
                   failures, handler, call>>

\* ... and cancels one after another by id, whatever has become of it since:
\* no event, no cancellation of the approval, no change of link or balance.
CancelPending(t, l) ==
    /\ l \in subscriber[t]
    /\ leave' = [leave EXCEPT ![l].status = "cancelled"]
    /\ silenced' = IF leave[l].status = "cancelled" THEN silenced ELSE silenced \cup {l}
    /\ subscriber' = [subscriber EXCEPT ![t] = @ \ {l}]
    /\ UNCHANGED <<decisionVars, used, total, link, requested, cancelled, outcomes,
                   delivered, processed, failures, handler, call>>

\* An exception, which is caught and forgotten, or a crash: the leaves that are
\* left stay pending unless the event happens to be delivered again.
AbandonTermination(t) ==
    /\ subscriber[t] # {}
    /\ subscriber' = [subscriber EXCEPT ![t] = {}]
    /\ UNCHANGED <<decisionVars, leaveVars, total, link, eventVars, delivered, processed,
                   failures, handler, call>>

-----------------------------------------------------------------------------

HandlerStep(h) ==
    \/ RequestedFindsLink(h) \/ LookUpSubject(h) \/ InsertRequest(h) \/ CreateLink(h)
    \/ CancelledFindsLink(h) \/ CancelApproval(h) \/ LinkCancelled(h)
    \/ CompletedFindsLink(h) \/ ReadLeave(h) \/ ApplyDecision(h) \/ IgnoreDecision(h)
    \/ MarkProcessed(h) \/ Throw(h)

CallStep(c) ==
    \/ \E l \in Leaves, u \in Units : BeginCreate(c, l, u) \/ BeginUpdate(c, l, u)
    \/ \E l \in Leaves : BeginCancel(c, l)
    \/ InsertLeave(c) \/ UpdateLeave(c) \/ CancelLeave(c) \/ Refuse(c)

SubscriberStep(t) ==
    \/ ReadPending(t) \/ AbandonTermination(t)
    \/ \E l \in Leaves : CancelPending(t, l)

Next ==
    \/ \E c \in Calls : CallStep(c)
    \/ \E t \in Terminations : SubscriberStep(t)
    \/ AdjustBalance
    \/ \E r \in Requests : Decide(r)
    \/ \E h \in Handlers :
          \/ \E e \in Staged : Deliver(h, e)
          \/ HandlerStep(h)
          \/ Fail(h)

Spec == Init /\ [][Next]_vars

\* The outbox delivers an event until a handler returns (EventOutbox,
\* EveryEventSettles; MaxFailures stays below its attempts), and a handler
\* that runs goes on.  Nobody is assumed to decide, cancel or create anything.
Fairness ==
    /\ \A h \in Handlers : WF_vars(HandlerStep(h))
    /\ \A e \in Event : SF_vars(\E h \in Handlers :
                                   e \notin delivered /\ Deliver(h, e))

FairSpec == Spec /\ Fairness

-----------------------------------------------------------------------------
(***************************************************************************)
(* Properties of every environment.                                        *)
(***************************************************************************)

\* Other modules learn of a leave's fate from its events: however decisions,
\* cancellations, terminations, redeliveries and crashes interleave, they are
\* told once that it is approved or rejected, once that somebody cancelled it,
\* and what they were told last is what the row says.  The one exception is the
\* leave that a termination cancelled: nobody is told, then or later, and what
\* they were told before is at most one decision, which no longer holds; nor
\* does a late decision or cancellation ever move such a leave again.
OutcomesMatchStatus ==
    /\ \A l \in Leaves :
        CASE leave[l].status \in {"none", "pending"} -> outcomes[l] = <<>>
          [] leave[l].status \in {"approved", "rejected"} ->
                 outcomes[l] = <<leave[l].status>>
          [] leave[l].status = "cancelled" /\ l \notin silenced ->
                 outcomes[l] \in {<<"cancelled">>, <<"approved", "cancelled">>,
                                  <<"rejected", "cancelled">>}
          [] leave[l].status = "cancelled" /\ l \in silenced ->
                 outcomes[l] \in {<<>>, <<"approved">>, <<"rejected">>}
    /\ \A l \in silenced : leave[l].status = "cancelled"

\* No leave that needs approval is approved but by the engine: its one link
\* says so and leads to an approval request all steps of which are approved.  A link that says
\* rejected or cancelled belongs to a leave that is, or was and is cancelled.
LinksMatchLeaves ==
    /\ \A l \in Leaves :
          l \in requested /\ leave[l].status = "approved" =>
              \E r \in Requests :
                  /\ LinksOf(l) = {[leave |-> l, request |-> r, status |-> "approved"]}
                  /\ status[r] = "approved" /\ approvals[r] = NSteps
    /\ \A k \in link :
          /\ k.status = "rejected" => leave[k.leave].status \in {"rejected", "cancelled"}
          /\ k.status = "cancelled" => leave[k.leave].status = "cancelled"

-----------------------------------------------------------------------------
(***************************************************************************)
(* Properties that need reads and writes of a leave not to overlap         *)
(* (~LateWrites): update writes by id alone, and cancel and approval move  *)
(* the units that they read.                                               *)
(***************************************************************************)

\* Every approval consumes its units once and every cancellation of an
\* approved leave gives exactly these back: used_amount is what the approved
\* leaves add up to.
BalanceMatchesApprovals == used = UnitsOf(With("approved"))

\* Pending requests reserve: with what is used they never exceed a balance
\* that stays as it is, although each was checked alone.
QuotaHolds ==
    Totals = {total} => used + UnitsOf(With("pending")) <= total

-----------------------------------------------------------------------------
(***************************************************************************)
(* Properties that need the leave to be linked before its approval is      *)
(* decided and before its cancellation is delivered (~EarlyEvents).        *)
(***************************************************************************)

\* A decision of the engine is not lost on its way: the leave it is about
\* leaves "pending", although handlers fail and events come twice.
DecisionReachesLeave ==
    \A r \in Requests :
        (status[r] \in Outcome) ~> (leave[SubjectOf[r]].status # "pending")

\* The approval of a leave that somebody cancelled does not stay open: what the
\* leave is linked to is closed, by the cancellation or by a decision before it,
\* although handlers fail and events come twice.  (Not so the approval of a
\* leave that a termination cancelled: nothing tells the engine, so it waits
\* for approvers until one decides it.  Nor a duplicate that two deliveries
\* inserted, see OneRequestPerSubject in ApprovalEngine: no leave is linked to it.)
CancellationReachesEngine ==
    \A l \in Leaves :
        (l \in requested /\ leave[l].status = "cancelled" /\ l \notin silenced) ~>
            (\E k \in LinksOf(l) : status[k.request] # "pending")

-----------------------------------------------------------------------------
(***************************************************************************)
(* What the code's comments promise.                                       *)
(***************************************************************************)

\* The overlap check prevents double-booking (create-leave-request).
NoDoubleBooking ==
    \A l, m \in With("pending") \cup With("approved") : <<l, m>> \notin Overlap

\* Only draft and pending requests can be updated (update-leave-request).
OnlyPendingIsUpdated ==
    [][\A l \in Leaves :
          leave'[l].units # leave[l].units => leave[l].status \in {"none", "pending"}]_vars
=============================================================================
