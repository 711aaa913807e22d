------------------------ MODULE LeaveApprovalProofs ------------------------
(***************************************************************************)
(* Theorems about LeaveApproval, for any number of leaves, approval        *)
(* requests, deliveries, use case calls and failures: TypeOK,              *)
(* OutcomesMatchStatus and LinksMatchLeaves in every environment;          *)
(* BalanceMatchesApprovals, QuotaHolds and OnlyPendingIsUpdated when reads *)
(* and writes of one leave do not overlap (~LateWrites).                   *)
(*                                                                         *)
(* A handler's steps are far apart, so what it relies on must be what      *)
(* nobody takes back: a staged event stays staged, a link stays linked to  *)
(* the same request, a cancelled leave stays cancelled, and an approval    *)
(* request that is final stays as it is.  HandlerSound says which of these *)
(* a handler has met at which step.  A termination relies on nothing: it   *)
(* writes the leaves it has read, and they only have to be there still.    *)
(* Last, that the integration uses the engine as ApprovalDecision allows.  *)
(***************************************************************************)
EXTENDS LeaveApproval, FiniteSetTheorems, SequenceTheorems, TLAPS

Linked(l, r) == \E k \in link : k.leave = l /\ k.request = r

EngineSound(r) ==
    /\ announced[r] = IF status[r] \in Outcome THEN <<status[r]>> ELSE <<>>
    /\ status[r] = "approved" => approvals[r] = NSteps
    /\ status[r] # "none" => SubjectOf[r] \in requested

LeaveSound(l) ==
    /\ l \in requested => leave[l].status # "none"
    /\ l \in cancelled => leave[l].status = "cancelled"
    /\ \A j, k \in LinksOf(l) : j = k

LinksSound == \A k \in link : k.leave = SubjectOf[k.request]

\* What a use case that is between its read and its write may rely on.
CallSound(c) ==
    LET l == call[c].leave IN
    /\ call[c].pc = "create" =>
          /\ leave[l].status = "none"
          /\ \A d \in Calls : call[d].pc = "create" /\ call[d].leave = l => d = c
    /\ call[c].pc = "update" => call[c].seen.status = "pending"
    /\ call[c].pc = "cancel" => call[c].seen.status \in {"pending", "approved", "rejected"}

\* What an event handler may rely on.
HandlerSound(h) ==
    LET pc == handler[h].pc
        e == handler[h].event
        l == handler[h].leave
    IN  /\ pc # "idle" => e \in Staged /\ l = EventLeave(e)
        /\ pc \in {"lookup", "insert", "createLink"} => e.type = "requested"
        /\ pc = "createLink" =>
              SubjectOf[handler[h].request] = l /\ status[handler[h].request] # "none"
        /\ pc \in {"cancel", "linkCancelled"} => e.type = "cancelled"
        /\ pc \in {"read", "apply"} => e.type = "completed" /\ Linked(l, e.request)
        /\ pc = "apply" /\ handler[h].seen.status = "cancelled" =>
              leave[l].status = "cancelled"

\* What a termination has read has been created.
SubscriberSound(t) == \A l \in subscriber[t] : leave[l].status # "none"

LeaveInv ==
    /\ TypeOK
    /\ OutcomesMatchStatus
    /\ LinksMatchLeaves
    /\ \A r \in Requests : EngineSound(r)
    /\ \A l \in Leaves : LeaveSound(l)
    /\ LinksSound
    /\ \A c \in Calls : CallSound(c)
    /\ \A h \in Handlers : HandlerSound(h)
    /\ \A t \in Terminations : SubscriberSound(t)

rowVars == <<decisionVars, leaveVars, total, link, eventVars>>

-----------------------------------------------------------------------------
(***************************************************************************)
(* Types.                                                                  *)
(***************************************************************************)

LEMMA IdleIsTyped ==
    /\ AnyLeave \in Leaves /\ AnyRequest \in Requests
    /\ NoLeave \in Leave
    /\ IdleHandler \in Handler /\ IdleCall \in Call
<1>1. AnyRequest \in Requests /\ AnyLeave \in Leaves
  BY LeavesAssumption DEF AnyRequest, AnyLeave
<1>2. NoLeave \in Leave
  BY DEF NoLeave, Leave, Status
<1>3. IdleCall \in Call
  BY <1>1, <1>2 DEF IdleCall, Call
<1>4. [type |-> "requested", leave |-> AnyLeave] \in Event
  BY <1>1 DEF Event
<1>5. IdleHandler \in Handler
  BY <1>1, <1>2, <1>4 DEF IdleHandler, Handler
<1> QED
  BY <1>1, <1>2, <1>3, <1>5

LEMMA StagedIsEvent ==
    ASSUME TypeOK, NEW e \in Staged
    PROVE  /\ e \in Event
           /\ EventLeave(e) \in Leaves
           /\ e.type = "requested" => e.leave \in requested
           /\ e.type = "cancelled" => e.leave \in cancelled
           /\ e.type = "completed" => e.request \in Requests /\ announced[e.request] # <<>>
           /\ e.type \in {"requested", "cancelled"} => EventLeave(e) = e.leave
           /\ e.type = "completed" => EventLeave(e) = SubjectOf[e.request]
<1>1. CASE \E l \in requested : e = [type |-> "requested", leave |-> l]
  BY <1>1 DEF Event, EventLeave, TypeOK
<1>2. CASE \E l \in cancelled : e = [type |-> "cancelled", leave |-> l]
  BY <1>2 DEF Event, EventLeave, TypeOK
<1>3. CASE \E r \in Requests : e = [type |-> "completed", request |-> r] /\ announced[r] # <<>>
  BY <1>3, LeavesAssumption DEF Event, EventLeave
<1> QED
  BY <1>1, <1>2, <1>3 DEF Staged

LEMMA HandlerTypes ==
    ASSUME TypeOK, NEW h \in Handlers
    PROVE  /\ handler[h] \in Handler
           /\ handler[h].leave \in Leaves /\ handler[h].request \in Requests
           /\ handler[h].seen \in Leave
           /\ handler[h].event \in Event
           /\ \A pc \in {"idle", "link", "lookup", "insert", "createLink", "cancel",
                         "linkCancelled", "read", "apply", "mark"} :
                 [handler[h] EXCEPT !.pc = pc] \in Handler
BY DEF TypeOK, Handler

LEMMA LeaveTypes ==
    ASSUME TypeOK, NEW l \in Leaves
    PROVE  leave[l] \in Leave /\ leave[l].status \in Status /\ leave[l].units \in Units \cup {0}
BY DEF TypeOK, Leave

LEMMA CallTypes ==
    ASSUME TypeOK, NEW c \in Calls
    PROVE  /\ call[c] \in Call /\ call[c].leave \in Leaves /\ call[c].seen \in Leave
           /\ call[c].units \in Units \cup {0}
BY DEF TypeOK, Call

LEMMA UnitsAreNat == Units \cup {0} \subseteq Nat
BY LeavesAssumption

-----------------------------------------------------------------------------
(***************************************************************************)
(* What nobody takes back.                                                 *)
(***************************************************************************)

Lasts ==
    /\ Staged \subseteq Staged'
    /\ \A r \in Requests : status[r] # "none" => status'[r] # "none"
    /\ \A k \in link : \E j \in link' : j.leave = k.leave /\ j.request = k.request
    /\ \A l \in Leaves : leave[l].status = "cancelled" => leave'[l].status = "cancelled"
    /\ \A l \in Leaves : leave[l].status # "none" => leave'[l].status # "none"

LEMMA StagedGrows ==
    ASSUME requested \subseteq requested', cancelled \subseteq cancelled',
           \A r \in Requests : announced[r] # <<>> => announced'[r] # <<>>
    PROVE  Staged \subseteq Staged'
BY DEF Staged

LEMMA RowsLast ==
    ASSUME UNCHANGED rowVars
    PROVE  Lasts
BY DEF Lasts, Staged, rowVars, decisionVars, leaveVars, eventVars

\* A handler that does not move stays sound.
LEMMA OthersStaySound ==
    ASSUME LeaveInv, Lasts, NEW h \in Handlers, handler'[h] = handler[h]
    PROVE  HandlerSound(h)'
<1>1. HandlerSound(h) /\ handler[h].leave \in Leaves /\ handler[h].request \in Requests
  BY HandlerTypes DEF LeaveInv
<1>2. \A l, r : Linked(l, r) => \E j \in link' : j.leave = l /\ j.request = r
  BY DEF Linked, Lasts
<1>3. handler[h].pc \in {"read", "apply"} => \E j \in link' : j.leave = handler[h].leave /\ j.request = handler[h].event.request
  BY <1>1, <1>2 DEF HandlerSound
<1> QED
  BY <1>1, <1>3 DEF HandlerSound, Lasts, Linked, EventLeave

LEMMA SubscribersStaySound ==
    ASSUME LeaveInv, Lasts, UNCHANGED subscriber
    PROVE  \A t \in Terminations : SubscriberSound(t)'
<1> TAKE t \in Terminations
<1>1. SubscriberSound(t) /\ subscriber[t] \subseteq Leaves
  BY DEF LeaveInv, TypeOK
<1> QED
  BY <1>1 DEF SubscriberSound, Lasts

-----------------------------------------------------------------------------
(***************************************************************************)
(* Handlers' steps that change no row.                                     *)
(***************************************************************************)

\* What only rows and calls are about stays as it is.
LEMMA RowsKeep ==
    ASSUME LeaveInv, UNCHANGED <<rowVars, call>>
    PROVE  /\ OutcomesMatchStatus' /\ LinksMatchLeaves' /\ LinksSound'
           /\ \A r \in Requests : EngineSound(r)'
           /\ \A l \in Leaves : LeaveSound(l)'
           /\ \A c \in Calls : CallSound(c)'
<1> USE DEF LeaveInv, rowVars, decisionVars, leaveVars, eventVars
<1>1. OutcomesMatchStatus'
  BY DEF OutcomesMatchStatus
<1>2. LinksMatchLeaves'
  BY DEF LinksMatchLeaves, LinksOf
<1>3. LinksSound' /\ \A r \in Requests : EngineSound(r)'
  BY DEF LinksSound, EngineSound
<1>4. \A l \in Leaves : LeaveSound(l)'
  BY DEF LeaveSound, LinksOf
<1>5. \A c \in Calls : CallSound(c)'
  BY DEF CallSound
<1> QED
  BY <1>1, <1>2, <1>3, <1>4, <1>5

LEMMA DeliveriesTyped ==
    ASSUME LeaveInv, UNCHANGED <<rowVars, subscriber, call>>, handler' \in [Handlers -> Handler],
           processed' \subseteq delivered', delivered' \subseteq Staged,
           failures' \in 0 .. MaxFailures
    PROVE  TypeOK'
<1>1. Staged \subseteq Staged'
  BY RowsLast DEF Lasts
<1> QED
  BY <1>1 DEF LeaveInv, TypeOK, rowVars, decisionVars, leaveVars, eventVars

LEMMA QuietStep ==
    ASSUME LeaveInv, UNCHANGED <<rowVars, subscriber, call>>, NEW h \in Handlers,
           handler' = [handler EXCEPT ![h] = handler'[h]], handler'[h] \in Handler,
           HandlerSound(h)',
           processed' \subseteq delivered', delivered' \subseteq Staged,
           failures' \in 0 .. MaxFailures
    PROVE  LeaveInv'
<1>1. handler' \in [Handlers -> Handler] /\ \A g \in Handlers \ {h} : handler'[g] = handler[g]
  BY DEF LeaveInv, TypeOK
<1>2. TypeOK'
  BY <1>1, DeliveriesTyped
<1>3. \A g \in Handlers : HandlerSound(g)'
  BY <1>1, RowsLast, OthersStaySound
<1>4. \A t \in Terminations : SubscriberSound(t)'
  BY RowsLast, SubscribersStaySound
<1> QED
  BY <1>2, <1>3, <1>4, RowsKeep DEF LeaveInv

\* Such a step that does not end its delivery.
LEMMA GoesOn ==
    ASSUME LeaveInv, UNCHANGED <<rowVars, deliveryVars, call>>, NEW h \in Handlers,
           handler' = [handler EXCEPT ![h] = handler'[h]], handler'[h] \in Handler,
           HandlerSound(h)'
    PROVE  LeaveInv'
BY QuietStep DEF LeaveInv, TypeOK, deliveryVars

LEMMA IdleIsSound ==
    ASSUME LeaveInv, NEW h \in Handlers, handler' = [handler EXCEPT ![h] = IdleHandler]
    PROVE  /\ handler' = [handler EXCEPT ![h] = handler'[h]] /\ handler'[h] \in Handler
           /\ HandlerSound(h)'
<1>1. handler'[h] = IdleHandler
  BY DEF LeaveInv, TypeOK
<1> QED
  BY <1>1, IdleIsTyped DEF HandlerSound, IdleHandler, LeaveInv, TypeOK

LEMMA DeliverStep ==
    ASSUME LeaveInv, NEW h \in Handlers, NEW e \in Staged, Deliver(h, e)
    PROVE  LeaveInv'
<1>1. UNCHANGED <<rowVars, deliveryVars, call>>
  BY DEF Deliver, rowVars
<1>2. handler'[h] = [IdleHandler EXCEPT !.pc = "link", !.event = e, !.leave = EventLeave(e)]
  BY DEF Deliver, LeaveInv, TypeOK
<1>3. handler'[h] \in Handler
  BY <1>2, StagedIsEvent, IdleIsTyped DEF LeaveInv, Handler, IdleHandler
<1>4. e \in Staged'
  BY <1>1, RowsLast DEF Lasts
<1>5. handler'[h].pc = "link" /\ handler'[h].event = e /\ handler'[h].leave = EventLeave(e)
  BY <1>2 DEF IdleHandler
<1>6. HandlerSound(h)'
  BY <1>4, <1>5 DEF HandlerSound, EventLeave
<1>7. handler' = [handler EXCEPT ![h] = handler'[h]]
  BY <1>2 DEF Deliver
<1> QED
  BY <1>1, <1>3, <1>6, <1>7, GoesOn

\* A handler that goes to its next statement with no more than what it had.
LEMMA NextStatement ==
    ASSUME LeaveInv, NEW h \in Handlers, handler[h].pc # "idle",
           NEW pc \in {"link", "lookup", "insert", "createLink", "cancel", "linkCancelled",
                       "read", "apply", "mark"},
           GotoPc(h, pc)
    PROVE  /\ handler' = [handler EXCEPT ![h] = handler'[h]] /\ handler'[h] \in Handler
           /\ handler'[h].pc = pc /\ handler'[h].event = handler[h].event
           /\ handler'[h].leave = handler[h].leave
           /\ handler'[h].request = handler[h].request /\ handler'[h].seen = handler[h].seen
           /\ \A g \in Handlers \ {h} : handler'[g] = handler[g]
<1>1. handler'[h] = [handler[h] EXCEPT !.pc = pc] /\ \A g \in Handlers \ {h} : handler'[g] = handler[g]
  BY DEF GotoPc, LeaveInv, TypeOK
<1>2. [handler[h] EXCEPT !.pc = pc] \in Handler
  BY HandlerTypes DEF LeaveInv
<1>3. handler' = [handler EXCEPT ![h] = handler'[h]]
  BY <1>1 DEF GotoPc
<1>4. handler[h] \in Handler
  BY HandlerTypes DEF LeaveInv
<1> QED
  BY <1>1, <1>2, <1>3, <1>4 DEF Handler

LEMMA RequestedFindsLinkStep ==
    ASSUME LeaveInv, NEW h \in Handlers, RequestedFindsLink(h)
    PROVE  LeaveInv'
<1>1. UNCHANGED <<rowVars, deliveryVars, call>>
  BY DEF RequestedFindsLink, rowVars
<1>2. PICK pc \in {"mark", "lookup"} : GotoPc(h, pc)
  BY DEF RequestedFindsLink
<1>3. HandlerSound(h) /\ handler[h].pc = "link" /\ handler[h].event.type = "requested"
  BY DEF RequestedFindsLink, LeaveInv
<1>4. Lasts
  BY <1>1, RowsLast
<1>5. HandlerSound(h)'
  BY <1>2, <1>3, <1>4, NextStatement DEF HandlerSound, Lasts, EventLeave
<1> QED
  BY <1>1, <1>2, <1>3, <1>5, NextStatement, GoesOn

LEMMA LookUpSubjectStep ==
    ASSUME LeaveInv, NEW h \in Handlers, LookUpSubject(h)
    PROVE  LeaveInv'
<1>1. UNCHANGED <<rowVars, deliveryVars, call>>
  BY DEF LookUpSubject, rowVars
<1>2. HandlerSound(h) /\ handler[h].pc = "lookup"
  BY DEF LookUpSubject, LeaveInv
<1>3. Lasts
  BY <1>1, RowsLast
<1>4. CASE GotoPc(h, "insert")
  <2>1. HandlerSound(h)'
    BY <1>2, <1>3, <1>4, NextStatement DEF HandlerSound, Lasts, EventLeave
  <2> QED
    BY <1>1, <1>2, <1>4, <2>1, NextStatement, GoesOn
<1>5. CASE \E r \in RequestsFor(handler[h].leave) :
              handler' = [handler EXCEPT ![h].pc = "createLink", ![h].request = r]
  <2>0. handler[h] \in Handler
    BY HandlerTypes DEF LeaveInv
  <2>1. PICK r \in Requests :
            /\ SubjectOf[r] = handler[h].leave /\ status[r] # "none"
            /\ handler' = [handler EXCEPT ![h].pc = "createLink", ![h].request = r]
    BY <1>5 DEF RequestsFor
  <2>2. handler'[h] = [handler[h] EXCEPT !.pc = "createLink", !.request = r]
    BY <2>1 DEF LeaveInv, TypeOK
  <2>3. handler'[h] \in Handler /\ handler'[h].pc = "createLink" /\ handler'[h].request = r
        /\ handler'[h].event = handler[h].event /\ handler'[h].leave = handler[h].leave
    BY <2>0, <2>2 DEF Handler
  <2>4. handler' = [handler EXCEPT ![h] = handler'[h]]
    BY <2>1, <2>2
  <2>5. HandlerSound(h)'
    BY <1>2, <1>3, <2>1, <2>3 DEF HandlerSound, Lasts, EventLeave
  <2> QED
    BY <1>1, <2>3, <2>4, <2>5, GoesOn
<1> QED
  BY <1>4, <1>5 DEF LookUpSubject

\* The handler returns: its event counts as delivered.
LEMMA ReturnStep ==
    ASSUME LeaveInv, NEW h \in Handlers, handler[h].pc # "idle", Return(h),
           UNCHANGED <<rowVars, failures, subscriber, call>>,
           processed' \subseteq processed \cup {handler[h].event}
    PROVE  LeaveInv'
<1>1. handler[h].event \in Staged
  BY DEF LeaveInv, HandlerSound
<1>2. processed' \subseteq delivered' /\ delivered' \subseteq Staged /\ failures' \in 0 .. MaxFailures
  BY <1>1 DEF Return, LeaveInv, TypeOK
<1>3. handler' = [handler EXCEPT ![h] = IdleHandler]
  BY DEF Return
<1> QED
  BY <1>2, <1>3, IdleIsSound, QuietStep

LEMMA CancelledFindsLinkStep ==
    ASSUME LeaveInv, NEW h \in Handlers, CancelledFindsLink(h)
    PROVE  LeaveInv'
<1>1. UNCHANGED <<rowVars, processed, failures, subscriber, call>>
  BY DEF CancelledFindsLink, rowVars
<1>2. HandlerSound(h) /\ handler[h].pc = "link" /\ handler[h].event.type = "cancelled"
  BY DEF CancelledFindsLink, LeaveInv
<1>3. CASE Return(h)
  BY <1>1, <1>2, <1>3, ReturnStep
<1>4. CASE UNCHANGED delivered /\ \E k \in LinksOf(handler[h].leave) :
              handler' = [handler EXCEPT ![h].pc = "cancel", ![h].request = k.request]
  <2>0. handler[h] \in Handler
    BY HandlerTypes DEF LeaveInv
  <2>1. PICK r \in Requests : handler' = [handler EXCEPT ![h].pc = "cancel", ![h].request = r]
    BY <1>4 DEF LinksOf, LeaveInv, TypeOK, Link
  <2>2. handler'[h] = [handler[h] EXCEPT !.pc = "cancel", !.request = r]
    BY <2>1 DEF LeaveInv, TypeOK
  <2>3. handler'[h] \in Handler /\ handler'[h].pc = "cancel"
        /\ handler'[h].event = handler[h].event /\ handler'[h].leave = handler[h].leave
    BY <2>0, <2>2 DEF Handler
  <2>4. handler' = [handler EXCEPT ![h] = handler'[h]]
    BY <2>1, <2>2
  <2>5. HandlerSound(h)'
    BY <1>1, <1>2, <2>3, RowsLast DEF HandlerSound, Lasts, EventLeave
  <2> QED
    BY <1>1, <1>4, <2>3, <2>4, <2>5, GoesOn DEF deliveryVars
<1> QED
  BY <1>3, <1>4 DEF CancelledFindsLink

LEMMA CompletedFindsLinkStep ==
    ASSUME LeaveInv, NEW h \in Handlers, CompletedFindsLink(h)
    PROVE  LeaveInv'
<1>1. UNCHANGED <<rowVars, processed, failures, subscriber, call>>
  BY DEF CompletedFindsLink, rowVars
<1>2. HandlerSound(h) /\ handler[h].pc = "link" /\ handler[h].event.type = "completed"
  BY DEF CompletedFindsLink, LeaveInv
<1>3. CASE Return(h)
  BY <1>1, <1>2, <1>3, ReturnStep
<1>4. CASE LinksTo(handler[h].event.request) # {} /\ GotoPc(h, "read") /\ UNCHANGED delivered
  <2>1. PICK k \in link : k.request = handler[h].event.request
    BY <1>4 DEF LinksTo
  <2>2. k.leave = handler[h].leave
    BY <1>2, <2>1 DEF LeaveInv, LinksSound, HandlerSound, EventLeave
  <2>3. Lasts
    BY <1>1, RowsLast
  <2>4. \E j \in link' : j.leave = handler[h].leave /\ j.request = handler[h].event.request
    BY <2>1, <2>2, <2>3 DEF Lasts
  <2>5. HandlerSound(h)'
    BY <1>2, <1>4, <2>3, <2>4, NextStatement DEF HandlerSound, Lasts, EventLeave, Linked
  <2> QED
    BY <1>1, <1>2, <1>4, <2>5, NextStatement, GoesOn DEF deliveryVars
<1> QED
  BY <1>3, <1>4 DEF CompletedFindsLink

LEMMA ReadLeaveStep ==
    ASSUME LeaveInv, NEW h \in Handlers, ReadLeave(h)
    PROVE  LeaveInv'
<1>0. handler[h] \in Handler
  BY HandlerTypes DEF LeaveInv
<1>1. UNCHANGED <<rowVars, deliveryVars, call>>
  BY DEF ReadLeave, rowVars
<1>2. HandlerSound(h) /\ handler[h].pc = "read"
  BY DEF ReadLeave, LeaveInv
<1>3. handler'[h] = [handler[h] EXCEPT !.pc = "apply", !.seen = leave[handler[h].leave]]
  BY DEF ReadLeave, LeaveInv, TypeOK
<1>4. leave[handler[h].leave] \in Leave
  BY HandlerTypes, LeaveTypes DEF LeaveInv
<1>5. handler'[h] \in Handler /\ handler'[h].pc = "apply" /\ handler'[h].seen = leave[handler[h].leave]
      /\ handler'[h].event = handler[h].event /\ handler'[h].leave = handler[h].leave
  BY <1>0, <1>3, <1>4 DEF Handler
<1>6. handler' = [handler EXCEPT ![h] = handler'[h]]
  BY <1>3 DEF ReadLeave
<1>7. UNCHANGED <<link, leave>> /\ Lasts
  BY <1>1, RowsLast DEF rowVars, leaveVars
<1>8. HandlerSound(h)'
  BY <1>2, <1>5, <1>7 DEF HandlerSound, Lasts, EventLeave, Linked
<1> QED
  BY <1>1, <1>5, <1>6, <1>8, GoesOn

LEMMA EndOfDelivery ==
    ASSUME LeaveInv, NEW h \in Handlers, MarkProcessed(h) \/ Throw(h) \/ Fail(h)
    PROVE  LeaveInv'
<1>1. CASE MarkProcessed(h)
  BY <1>1, ReturnStep DEF MarkProcessed, rowVars
<1>2. CASE Throw(h) \/ Fail(h)
  <2>1. UNCHANGED <<rowVars, delivered, processed, subscriber, call>> /\ handler' = [handler EXCEPT ![h] = IdleHandler]
    BY <1>2 DEF Throw, Fail, Abort, rowVars
  <2>2. failures' \in 0 .. MaxFailures
    BY <1>2, ModeAssumption DEF Throw, Fail, LeaveInv, TypeOK
  <2>3. processed' \subseteq delivered' /\ delivered' \subseteq Staged
    BY <2>1 DEF LeaveInv, TypeOK
  <2> QED
    BY <2>1, <2>2, <2>3, IdleIsSound, QuietStep
<1> QED
  BY <1>1, <1>2

-----------------------------------------------------------------------------
(***************************************************************************)
(* The engine's steps.                                                     *)
(***************************************************************************)

EngineMoves(r) ==
    \/ Create(r) /\ SubjectOf[r] \in requested
    \/ ApproveStep(r) \/ ApproveLastStep(r) \/ Reject(r) \/ Cancel(r)

\* One request moves, and not from a final status.
LEMMA EngineMove ==
    ASSUME LeaveInv, NEW r \in Requests, EngineMoves(r)
    PROVE  /\ status' \in [Requests -> {"none", "pending"} \cup Outcome]
           /\ approvals' \in [Requests -> 0 .. NSteps]
           /\ announced' \in [Requests -> Seq(Outcome)]
           /\ status[r] \in {"none", "pending"} /\ status'[r] # "none"
           /\ \A s \in Requests \ {r} : /\ status'[s] = status[s] /\ approvals'[s] = approvals[s]
                                        /\ announced'[s] = announced[s]
           /\ announced'[r] = IF status'[r] \in Outcome THEN <<status'[r]>> ELSE <<>>
           /\ status'[r] = "approved" => approvals'[r] = NSteps
           /\ SubjectOf[r] \in requested
<1>1. /\ status \in [Requests -> {"none", "pending"} \cup Outcome]
      /\ approvals \in [Requests -> 0 .. NSteps]
      /\ announced \in [Requests -> Seq(Outcome)]
      /\ EngineSound(r)
  BY DEF LeaveInv, TypeOK
<1>2. approvals[r] \in 0 .. NSteps /\ NSteps \in Nat
  BY <1>1, NStepsAssumption
<1>3. status[r] \in {"none", "pending"} => announced[r] = <<>>
  BY <1>1 DEF EngineSound, Outcome
<1>4. CASE Create(r) /\ SubjectOf[r] \in requested
  BY <1>1, <1>3, <1>4 DEF Create, Outcome
<1>5. CASE ApproveStep(r)
  BY <1>1, <1>2, <1>3, <1>5 DEF ApproveStep, EngineSound, Outcome
<1>6. ASSUME NEW o \in Outcome, Complete(r, o), status[r] = "pending"
      PROVE  /\ status' \in [Requests -> {"none", "pending"} \cup Outcome]
             /\ announced' \in [Requests -> Seq(Outcome)]
             /\ status'[r] = o
             /\ \A s \in Requests \ {r} : status'[s] = status[s] /\ announced'[s] = announced[s]
             /\ announced'[r] = <<o>>
  BY <1>1, <1>3, <1>6 DEF Complete, Outcome
<1>7. CASE ApproveLastStep(r)
  <2>1. Complete(r, "approved") /\ status[r] = "pending" /\ "approved" \in Outcome
    BY <1>7 DEF ApproveLastStep, Outcome
  <2>2. approvals' = [approvals EXCEPT ![r] = @ + 1] /\ approvals[r] + 1 = NSteps
    BY <1>7 DEF ApproveLastStep
  <2>3. approvals' \in [Requests -> 0 .. NSteps] /\ approvals'[r] = NSteps
        /\ \A s \in Requests \ {r} : approvals'[s] = approvals[s]
    BY <1>1, <1>2, <2>2
  <2> QED
    BY <1>1, <1>6, <2>1, <2>3 DEF EngineSound
<1>8. ASSUME NEW o \in {"rejected", "cancelled"}, Complete(r, o), status[r] = "pending",
             UNCHANGED approvals
      PROVE  /\ status' \in [Requests -> {"none", "pending"} \cup Outcome]
             /\ approvals' \in [Requests -> 0 .. NSteps]
             /\ announced' \in [Requests -> Seq(Outcome)]
             /\ status[r] \in {"none", "pending"} /\ status'[r] # "none"
             /\ \A s \in Requests \ {r} : /\ status'[s] = status[s] /\ approvals'[s] = approvals[s]
                                          /\ announced'[s] = announced[s]
             /\ announced'[r] = IF status'[r] \in Outcome THEN <<status'[r]>> ELSE <<>>
             /\ status'[r] = "approved" => approvals'[r] = NSteps
             /\ SubjectOf[r] \in requested
  <2>1. o \in Outcome /\ o # "approved" /\ o # "none"
    BY DEF Outcome
  <2> QED
    BY <1>1, <1>6, <1>8, <2>1 DEF EngineSound
<1>9. CASE Reject(r)
  BY <1>8, <1>9 DEF Reject
<1>10. CASE Cancel(r)
  BY <1>8, <1>10 DEF Cancel
<1> QED
  BY <1>4, <1>5, <1>7, <1>9, <1>10 DEF EngineMoves

LEMMA EngineLasts ==
    ASSUME LeaveInv, NEW r \in Requests, EngineMoves(r),
           UNCHANGED <<leaveVars, total, link, eventVars>>
    PROVE  Lasts
<1>1. \A s \in Requests : status[s] # "none" => status'[s] # "none"
  BY EngineMove
<1>2. \A s \in Requests : announced[s] # <<>> => announced'[s] # <<>>
  <2>1. announced[r] = <<>>
    BY EngineMove DEF LeaveInv, EngineSound, Outcome
  <2> QED
    BY <2>1, EngineMove
<1>3. Staged \subseteq Staged'
  BY <1>2, StagedGrows DEF eventVars
<1> QED
  BY <1>1, <1>3 DEF Lasts, leaveVars

\* Rows, calls and deliveries after a step of the engine; the handlers are up
\* to whoever cites this.
LEMMA EngineStep ==
    ASSUME LeaveInv, NEW r \in Requests, EngineMoves(r),
           UNCHANGED <<leaveVars, total, link, eventVars, deliveryVars, call>>,
           handler' \in [Handlers -> Handler],
           \A h \in Handlers : HandlerSound(h)'
    PROVE  LeaveInv'
<1>1. Lasts
  BY EngineLasts
<1>2. TypeOK'
  BY <1>1, EngineMove DEF LeaveInv, TypeOK, leaveVars, eventVars, deliveryVars, Lasts
<1>3. \A s \in Requests : EngineSound(s)'
  BY EngineMove DEF LeaveInv, EngineSound, eventVars
<1>4. OutcomesMatchStatus' /\ LinksSound' /\ \A c \in Calls : CallSound(c)'
  BY DEF LeaveInv, OutcomesMatchStatus, LinksSound, CallSound, leaveVars, eventVars
<1>5. \A l \in Leaves : LeaveSound(l)'
  BY DEF LeaveInv, LeaveSound, LinksOf, leaveVars, eventVars
<1>6. LinksMatchLeaves'
  <2>1. \A s \in Requests : status[s] = "approved" => status'[s] = "approved" /\ approvals'[s] = approvals[s]
    BY EngineMove
  <2>2. UNCHANGED <<leave, link, requested>>
    BY DEF leaveVars, eventVars
  <2> QED
    BY <2>1, <2>2 DEF LeaveInv, LinksMatchLeaves, LinksOf
<1>7. \A t \in Terminations : SubscriberSound(t)'
  BY <1>1, SubscribersStaySound DEF deliveryVars
<1> QED
  BY <1>2, <1>3, <1>4, <1>5, <1>6, <1>7 DEF LeaveInv

LEMMA DecideStep ==
    ASSUME LeaveInv, NEW r \in Requests, Decide(r)
    PROVE  LeaveInv'
<1>1. EngineMoves(r) /\ UNCHANGED <<leaveVars, total, link, eventVars, deliveryVars, handler, call>>
  BY DEF Decide, EngineMoves
<1>2. \A h \in Handlers : HandlerSound(h)'
  BY <1>1, EngineLasts, OthersStaySound
<1> QED
  BY <1>1, <1>2, EngineStep DEF LeaveInv, TypeOK

LEMMA InsertRequestStep ==
    ASSUME LeaveInv, NEW h \in Handlers, InsertRequest(h)
    PROVE  LeaveInv'
<1>1. PICK r \in Requests :
          /\ SubjectOf[r] = handler[h].leave /\ Create(r)
          /\ handler' = [handler EXCEPT ![h].pc = "createLink", ![h].request = r]
  BY DEF InsertRequest
<1>2. HandlerSound(h) /\ handler[h].pc = "insert"
      /\ UNCHANGED <<leaveVars, total, link, eventVars, deliveryVars, call>>
  BY DEF InsertRequest, LeaveInv
<1>3. handler[h].event \in Staged /\ handler[h].event.type = "requested"
      /\ handler[h].leave = EventLeave(handler[h].event)
  BY <1>2 DEF HandlerSound
<1>4. SubjectOf[r] \in requested
  BY <1>1, <1>3, StagedIsEvent DEF LeaveInv
<1>5. EngineMoves(r)
  BY <1>1, <1>4 DEF EngineMoves
<1>6. Lasts
  BY <1>2, <1>5, EngineLasts
<1>7. handler'[h] = [handler[h] EXCEPT !.pc = "createLink", !.request = r]
      /\ \A g \in Handlers \ {h} : handler'[g] = handler[g]
  BY <1>1 DEF LeaveInv, TypeOK
<1>8. handler[h] \in Handler
  BY HandlerTypes DEF LeaveInv
<1>9. handler'[h] \in Handler /\ handler'[h].pc = "createLink" /\ handler'[h].request = r
      /\ handler'[h].event = handler[h].event /\ handler'[h].leave = handler[h].leave
  BY <1>7, <1>8 DEF Handler
<1>10. handler' \in [Handlers -> Handler]
  BY <1>1, <1>7, <1>9 DEF LeaveInv, TypeOK
<1>11. HandlerSound(h)'
  <2>1. status'[r] # "none"
    BY <1>5, EngineMove
  <2>2. handler[h].event \in Staged'
    BY <1>3, <1>6 DEF Lasts
  <2> QED
    BY <1>1, <1>3, <1>9, <2>1, <2>2 DEF HandlerSound, EventLeave
<1>12. \A g \in Handlers : HandlerSound(g)'
  BY <1>6, <1>7, <1>11, OthersStaySound
<1> QED
  BY <1>2, <1>5, <1>10, <1>12, EngineStep

LEMMA CancelApprovalStep ==
    ASSUME LeaveInv, NEW h \in Handlers, CancelApproval(h)
    PROVE  LeaveInv'
<1>1. /\ handler[h].pc = "cancel" /\ GotoPc(h, "linkCancelled")
      /\ EngineMoves(handler[h].request) /\ handler[h].request \in Requests
      /\ UNCHANGED <<leaveVars, total, link, eventVars, deliveryVars, call>>
  BY HandlerTypes DEF CancelApproval, EngineMoves, LeaveInv
<1>2. Lasts
  BY <1>1, EngineLasts
<1>3. HandlerSound(h)'
  BY <1>1, <1>2, NextStatement DEF LeaveInv, HandlerSound, Lasts, EventLeave
<1>4. handler' \in [Handlers -> Handler] /\ \A g \in Handlers \ {h} : handler'[g] = handler[g]
  BY <1>1, NextStatement DEF LeaveInv, TypeOK
<1>5. \A g \in Handlers : HandlerSound(g)'
  BY <1>2, <1>3, <1>4, OthersStaySound
<1> QED
  BY <1>1, <1>4, <1>5, EngineStep

-----------------------------------------------------------------------------
(***************************************************************************)
(* Links.                                                                  *)
(***************************************************************************)

\* What SetLink leaves of the links.
LEMMA SetLinkMoves ==
    ASSUME LeaveInv, NEW l \in Leaves, NEW s \in Status \ {"none"}, SetLink(l, s)
    PROVE  /\ link' \subseteq Link /\ LinksSound'
           /\ \A k \in link : \E j \in link' : j.leave = k.leave /\ j.request = k.request
           /\ \A m \in Leaves \ {l} : LinksOf(m)' = LinksOf(m)
           /\ \A j, k \in LinksOf(l)' : j = k
           /\ \A k \in link' : k.leave = l => k.status = s
           /\ \A k \in link' : k.leave # l => k \in link
           /\ \A k \in LinksOf(l) :
                 LinksOf(l)' = {[leave |-> l, request |-> k.request, status |-> s]}
<1> DEFINE set(k) == IF k.leave = l THEN [k EXCEPT !.status = s] ELSE k
<1>1. link' = {set(k) : k \in link} /\ link \subseteq Link
  BY DEF SetLink, LeaveInv, TypeOK
<1>2. ASSUME NEW k \in link
      PROVE  /\ set(k) \in Link /\ set(k).leave = k.leave /\ set(k).request = k.request
             /\ k.leave = l => set(k) = [leave |-> l, request |-> k.request, status |-> s]
             /\ k.leave # l => set(k) = k
  BY <1>1 DEF Link
<1>3. LinksSound'
  BY <1>1, <1>2 DEF LeaveInv, LinksSound
<1>4. \A j, k \in LinksOf(l) : j = k
  BY DEF LeaveInv, LeaveSound
<1>5. \A m \in Leaves \ {l} : LinksOf(m)' = LinksOf(m)
  BY <1>1, <1>2 DEF LinksOf
<1>6. LinksOf(l)' = {set(k) : k \in LinksOf(l)}
  BY <1>1, <1>2 DEF LinksOf
<1>7. \A k \in LinksOf(l) : LinksOf(l)' = {[leave |-> l, request |-> k.request, status |-> s]}
  <2> TAKE k \in LinksOf(l)
  <2>1. LinksOf(l) = {k} /\ k \in link /\ k.leave = l
    BY <1>4 DEF LinksOf
  <2>2. LinksOf(l)' = {set(k)}
    BY <1>6, <2>1
  <2> QED
    BY <1>2, <2>1, <2>2
<1>8. \A j, k \in LinksOf(l)' : j = k
  BY <1>4, <1>6
<1>9. \A k \in link' : /\ k.leave = l => k.status = s
                       /\ k.leave # l => k \in link
  <2> TAKE k \in link'
  <2>1. PICK j \in link : k = set(j)
    BY <1>1
  <2>2. /\ set(j).leave = j.leave
        /\ j.leave = l => set(j) = [leave |-> l, request |-> j.request, status |-> s]
        /\ j.leave # l => set(j) = j
    BY <1>2
  <2> HIDE DEF set
  <2>3. k.leave = l => k.status = s
    BY <2>1, <2>2
  <2> QED
    BY <2>1, <2>2, <2>3
<1>10. \A k \in link : \E j \in link' : j.leave = k.leave /\ j.request = k.request
  <2> TAKE k \in link
  <2>1. set(k) \in link'
    BY <1>1
  <2> QED
    BY <1>2, <2>1
<1> HIDE DEF set
<1>11. link' \subseteq Link
  BY <1>1, <1>2
<1> QED
  BY <1>3, <1>5, <1>7, <1>8, <1>9, <1>10, <1>11

\* A step that changes links only, and leaves those of no leave ambiguous.
LEMMA LinkStep ==
    ASSUME LeaveInv, NEW h \in Handlers, handler[h].pc # "idle", GotoPc(h, "mark"),
           UNCHANGED <<decisionVars, leaveVars, total, eventVars, deliveryVars, call>>,
           link' \subseteq Link, LinksSound', LinksMatchLeaves',
           \A l \in Leaves : \A j, k \in LinksOf(l)' : j = k,
           \A k \in link : \E j \in link' : j.leave = k.leave /\ j.request = k.request
    PROVE  LeaveInv'
<1>1. Lasts
  BY StagedGrows DEF Lasts, decisionVars, leaveVars, eventVars
<1>2. handler' \in [Handlers -> Handler] /\ \A g \in Handlers \ {h} : handler'[g] = handler[g]
  BY NextStatement DEF LeaveInv, TypeOK
<1>3. HandlerSound(h)'
  BY <1>1, NextStatement DEF LeaveInv, HandlerSound, Lasts, EventLeave
<1>4. \A g \in Handlers : HandlerSound(g)'
  BY <1>1, <1>2, <1>3, OthersStaySound
<1>5. TypeOK'
  BY <1>1, <1>2 DEF LeaveInv, TypeOK, decisionVars, leaveVars, eventVars, deliveryVars, Lasts
<1>6. OutcomesMatchStatus' /\ \A r \in Requests : EngineSound(r)'
  BY DEF LeaveInv, OutcomesMatchStatus, EngineSound, decisionVars, leaveVars, eventVars
<1>7. \A l \in Leaves : LeaveSound(l)'
  BY DEF LeaveInv, LeaveSound, leaveVars, eventVars
<1>8. \A c \in Calls : CallSound(c)'
  BY DEF LeaveInv, CallSound, leaveVars
<1>9. \A t \in Terminations : SubscriberSound(t)'
  BY <1>1, SubscribersStaySound DEF deliveryVars
<1> QED
  BY <1>4, <1>5, <1>6, <1>7, <1>8, <1>9 DEF LeaveInv

LEMMA CreateLinkStep ==
    ASSUME LeaveInv, NEW h \in Handlers, CreateLink(h)
    PROVE  LeaveInv'
<1> DEFINE k == [leave |-> handler[h].leave, request |-> handler[h].request,
                 status |-> "pending"]
<1>1. /\ handler[h].pc = "createLink" /\ GotoPc(h, "mark")
      /\ LinksOf(handler[h].leave) = {}
      /\ link' = link \cup {k}
      /\ UNCHANGED <<decisionVars, leaveVars, total, eventVars, deliveryVars, call>>
  BY DEF CreateLink, LinkInsertable
<1>2. k \in Link /\ k.leave = SubjectOf[k.request]
  BY <1>1, HandlerTypes DEF LeaveInv, Link, Status, HandlerSound
<1>3. link' \subseteq Link /\ LinksSound'
  BY <1>1, <1>2 DEF LeaveInv, TypeOK, LinksSound
<1>4. \A l \in Leaves : l # handler[h].leave => LinksOf(l)' = LinksOf(l)
  BY <1>1 DEF LinksOf
<1>5. LinksOf(handler[h].leave)' = {k}
  <2>1. handler'[h].leave = handler[h].leave
    BY <1>1, NextStatement
  <2> QED
    BY <1>1, <2>1 DEF LinksOf
<1>6. \A l \in Leaves : LinksOf(l) = {} \/ LinksOf(l)' = LinksOf(l)
  BY <1>1, <1>4
<1>7. \A l \in Leaves : \A i, j \in LinksOf(l)' : i = j
  BY <1>1, <1>4 DEF LeaveInv, LeaveSound, LinksOf
<1>8. LinksMatchLeaves'
  <2>1. \A j \in link' : j.status \in {"rejected", "cancelled"} => j \in link
    BY <1>1
  <2>2. UNCHANGED <<leave, requested, status, approvals>>
    BY <1>1 DEF leaveVars, eventVars, decisionVars
  <2>3. \A l \in Leaves : l \in requested' /\ leave'[l].status = "approved" =>
            \E r \in Requests :
                /\ LinksOf(l)' = {[leave |-> l, request |-> r, status |-> "approved"]}
                /\ status'[r] = "approved" /\ approvals'[r] = NSteps
    <3> SUFFICES ASSUME NEW l \in Leaves, l \in requested', leave'[l].status = "approved"
                 PROVE  \E r \in Requests :
                            /\ LinksOf(l)' = {[leave |-> l, request |-> r, status |-> "approved"]}
                            /\ status'[r] = "approved" /\ approvals'[r] = NSteps
      OBVIOUS
    <3>1. PICK r \in Requests :
              /\ LinksOf(l) = {[leave |-> l, request |-> r, status |-> "approved"]}
              /\ status[r] = "approved" /\ approvals[r] = NSteps
      BY <2>2 DEF LeaveInv, LinksMatchLeaves
    <3> QED
      BY <1>6, <2>2, <3>1
  <2> QED
    BY <2>1, <2>2, <2>3 DEF LeaveInv, LinksMatchLeaves
<1>9. \A i \in link : \E j \in link' : j.leave = i.leave /\ j.request = i.request
  BY <1>1
<1> QED
  BY <1>1, <1>3, <1>7, <1>8, <1>9, LinkStep

\* The link of a cancelled leave may say so.
LEMMA LinkOfCancelled ==
    ASSUME LeaveInv, NEW h \in Handlers, handler[h].pc # "idle", GotoPc(h, "mark"),
           UNCHANGED <<decisionVars, leaveVars, total, eventVars, deliveryVars, call>>,
           leave[handler[h].leave].status = "cancelled", SetLink(handler[h].leave, "cancelled")
    PROVE  LeaveInv'
<1>1. PICK l \in Leaves : l = handler[h].leave
  BY HandlerTypes DEF LeaveInv
<1>2. SetLink(l, "cancelled") /\ "cancelled" \in Status \ {"none"}
  BY <1>1 DEF SetLink, Status
<1>3. \A m \in Leaves : \A i, j \in LinksOf(m)' : i = j
  BY <1>2, SetLinkMoves DEF LeaveInv, LeaveSound
<1>4. LinksMatchLeaves'
  <2>1. UNCHANGED <<leave, requested, status, approvals>>
    BY DEF leaveVars, eventVars, decisionVars
  <2>2. \A m \in Leaves : leave[m].status = "approved" => LinksOf(m)' = LinksOf(m)
    BY <1>1, <1>2, SetLinkMoves
  <2>3. \A k \in link' : k \in link \/ (k.leave = l /\ k.status = "cancelled")
    <3>1. /\ \A k \in link' : k.leave = l => k.status = "cancelled"
          /\ \A k \in link' : k.leave # l => k \in link
      BY <1>2, SetLinkMoves
    <3> QED
      BY <3>1
  <2> QED
    BY <1>1, <2>1, <2>2, <2>3 DEF LeaveInv, LinksMatchLeaves
<1> QED
  BY <1>2, <1>3, <1>4, SetLinkMoves, LinkStep

LEMMA LinkCancelledStep ==
    ASSUME LeaveInv, NEW h \in Handlers, LinkCancelled(h)
    PROVE  LeaveInv'
<1>1. /\ handler[h].pc = "linkCancelled" /\ GotoPc(h, "mark")
      /\ SetLink(handler[h].leave, "cancelled")
      /\ UNCHANGED <<decisionVars, leaveVars, total, eventVars, deliveryVars, call>>
  BY DEF LinkCancelled
<1>2. handler[h].event \in Staged /\ handler[h].event.type = "cancelled"
      /\ handler[h].leave = EventLeave(handler[h].event)
  BY <1>1 DEF LeaveInv, HandlerSound
<1>3. handler[h].leave \in cancelled /\ handler[h].leave \in Leaves
  BY <1>2, StagedIsEvent DEF LeaveInv
<1>4. leave[handler[h].leave].status = "cancelled"
  BY <1>3 DEF LeaveInv, LeaveSound
<1> QED
  BY <1>1, <1>4, LinkOfCancelled

LEMMA IgnoreDecisionStep ==
    ASSUME LeaveInv, NEW h \in Handlers, IgnoreDecision(h)
    PROVE  LeaveInv'
<1>1. /\ handler[h].pc = "apply" /\ GotoPc(h, "mark")
      /\ UNCHANGED <<decisionVars, leaveVars, total, eventVars, deliveryVars, call>>
  BY DEF IgnoreDecision
<1>2. CASE handler[h].seen.status = "cancelled" /\ SetLink(handler[h].leave, "cancelled")
  BY <1>1, <1>2, LinkOfCancelled DEF LeaveInv, HandlerSound
<1>3. CASE UNCHANGED link
  <2>1. UNCHANGED <<rowVars, deliveryVars, call>> /\ Lasts
    BY <1>1, <1>3, RowsLast DEF rowVars
  <2>2. HandlerSound(h)'
    BY <1>1, <2>1, NextStatement DEF LeaveInv, HandlerSound, Lasts, EventLeave
  <2> QED
    BY <1>1, <2>1, <2>2, NextStatement, GoesOn
<1> QED
  BY <1>2, <1>3 DEF IgnoreDecision

-----------------------------------------------------------------------------
(***************************************************************************)
(* A decision that changes its leave.                                      *)
(***************************************************************************)

\* The engine's outcome may be turned into a rejection, but into nothing else.
LEMMA OutcomesAreFinal ==
    ASSUME LeaveInv, NEW h \in Handlers, handler[h].pc = "apply"
    PROVE  /\ handler[h].event.request \in Requests
           /\ EngineOutcome(h) \in Outcome /\ EffectiveOutcome(h) \in Outcome
           /\ EffectiveOutcome(h) = "approved" => EngineOutcome(h) = "approved"
           /\ \E k \in LinksOf(handler[h].leave) : k.request = handler[h].event.request
<1>1. HandlerSound(h)
  BY DEF LeaveInv
<1>2. handler[h].event \in Staged /\ handler[h].event.type = "completed"
  BY <1>1 DEF HandlerSound
<1>3. handler[h].event.request \in Requests /\ announced[handler[h].event.request] # <<>>
  BY <1>2, StagedIsEvent DEF LeaveInv
<1>4. status[handler[h].event.request] \in Outcome
  BY <1>3 DEF LeaveInv, EngineSound
<1>5. \E k \in LinksOf(handler[h].leave) : k.request = handler[h].event.request
  BY <1>1 DEF HandlerSound, Linked, LinksOf
<1> QED
  BY <1>3, <1>4, <1>5 DEF EngineOutcome, EffectiveOutcome, Outcome

\* A leave's outcomes tell its status if those of the one leave that moved do.
LEMMA OutcomesMatchOfOne ==
    ASSUME LeaveInv, NEW l \in Leaves, NEW v \in Leave, leave'[l] = v,
           \A m \in Leaves \ {l} : leave'[m] = leave[m] /\ outcomes'[m] = outcomes[m],
           silenced' = silenced, l \notin silenced,
           v.status \in {"none", "pending"} => outcomes'[l] = <<>>,
           v.status \in {"approved", "rejected"} => outcomes'[l] = <<v.status>>,
           v.status = "cancelled" =>
              outcomes'[l] \in {<<"cancelled">>, <<"approved", "cancelled">>,
                                <<"rejected", "cancelled">>}
    PROVE  OutcomesMatchStatus'
<1>1. v.status \in Status /\ \A m \in silenced : leave'[m].status = "cancelled"
  BY DEF Leave, LeaveInv, TypeOK, OutcomesMatchStatus
<1>2. CASE v.status \in {"none", "pending"}
  BY <1>1, <1>2 DEF LeaveInv, OutcomesMatchStatus
<1>3. CASE v.status \in {"approved", "rejected"}
  BY <1>1, <1>3 DEF LeaveInv, OutcomesMatchStatus
<1>4. CASE v.status = "cancelled"
  BY <1>1, <1>4 DEF LeaveInv, OutcomesMatchStatus
<1> QED
  BY <1>1, <1>2, <1>3, <1>4 DEF Status

LEMMA ApplyDecisionStep ==
    ASSUME LeaveInv, NEW h \in Handlers, ApplyDecision(h)
    PROVE  LeaveInv'
<1>1. PICK l \in Leaves, o \in Outcome : l = handler[h].leave /\ o = EffectiveOutcome(h)
  BY HandlerTypes, OutcomesAreFinal DEF LeaveInv, ApplyDecision
<1>2. /\ handler[h].pc = "apply" /\ GotoPc(h, "mark")
      /\ leave[l].status = "pending"
      /\ leave' = [leave EXCEPT ![l].status = o]
      /\ used' = IF o = "approved" THEN used + handler[h].seen.units ELSE used
      /\ SetLink(l, o)
      /\ outcomes' = [outcomes EXCEPT ![l] = Append(@, o)]
      /\ UNCHANGED <<decisionVars, total, requested, cancelled, silenced, deliveryVars, call>>
  BY <1>1 DEF ApplyDecision, Applicable, SetLink, Announce
<1>3. leave'[l] = [leave[l] EXCEPT !.status = o] /\ \A m \in Leaves \ {l} : leave'[m] = leave[m]
  BY <1>2 DEF LeaveInv, TypeOK
<1>4. leave[l] \in Leave /\ o \in Status \ {"none"}
  BY LeaveTypes DEF LeaveInv, Outcome, Status
<1>5. leave'[l] \in Leave /\ leave'[l].status = o
  BY <1>3, <1>4 DEF Leave
<1>6. Lasts
  <2>1. \A k \in link : \E j \in link' : j.leave = k.leave /\ j.request = k.request
    BY <1>2, <1>4, SetLinkMoves
  <2>2. Staged \subseteq Staged'
    BY <1>2, StagedGrows DEF decisionVars
  <2>3. \A m \in Leaves : leave[m].status = "cancelled" => leave'[m].status = "cancelled"
    BY <1>2, <1>3
  <2>4. \A m \in Leaves : leave[m].status # "none" => leave'[m].status # "none"
    BY <1>3, <1>4, <1>5
  <2>5. status' = status
    BY <1>2 DEF decisionVars
  <2> QED
    BY <2>1, <2>2, <2>3, <2>4, <2>5 DEF Lasts
<1>7. handler' \in [Handlers -> Handler] /\ \A g \in Handlers \ {h} : handler'[g] = handler[g]
  BY <1>2, NextStatement DEF LeaveInv, TypeOK
<1>8. \A g \in Handlers : HandlerSound(g)'
  <2>1. HandlerSound(h)'
    BY <1>2, <1>6, NextStatement DEF LeaveInv, HandlerSound, Lasts, EventLeave
  <2> QED
    BY <1>6, <1>7, <2>1, OthersStaySound
<1>9. TypeOK'
  <2>1. leave' \in [Leaves -> Leave]
    BY <1>2, <1>3, <1>5 DEF LeaveInv, TypeOK
  <2>2. outcomes' \in [Leaves -> Seq(Outcome)]
    BY <1>2 DEF LeaveInv, TypeOK
  <2>3. used' \in Nat
    <3>1. used \in Nat /\ handler[h].seen.units \in Nat
      BY HandlerTypes, UnitsAreNat DEF LeaveInv, TypeOK, Leave
    <3> QED
      BY <1>2, <3>1
  <2>4. link' \subseteq Link
    BY <1>2, <1>4, SetLinkMoves
  <2> QED
    BY <1>2, <1>6, <1>7, <2>1, <2>2, <2>3, <2>4 DEF LeaveInv, TypeOK, decisionVars, deliveryVars, Lasts
<1>10. OutcomesMatchStatus'
  <2>1. outcomes[l] = <<>>
    BY <1>2 DEF LeaveInv, OutcomesMatchStatus
  <2>2. outcomes'[l] = <<o>> /\ \A m \in Leaves \ {l} : outcomes'[m] = outcomes[m]
    BY <1>2, <2>1 DEF LeaveInv, TypeOK
  <2>3. o \in {"approved", "rejected", "cancelled"}
    BY DEF Outcome
  <2>4. l \notin silenced /\ silenced' = silenced
    BY <1>2 DEF LeaveInv, OutcomesMatchStatus
  <2>5. PICK v \in Leave : leave'[l] = v /\ v.status = o
    BY <1>5
  <2> QED
    BY <1>3, <2>2, <2>3, <2>4, <2>5, OutcomesMatchOfOne
<1>11. LinksMatchLeaves'
  <2>1. \A m \in Leaves : m \in requested' /\ leave'[m].status = "approved" =>
            \E r \in Requests :
                /\ LinksOf(m)' = {[leave |-> m, request |-> r, status |-> "approved"]}
                /\ status'[r] = "approved" /\ approvals'[r] = NSteps
    <3> SUFFICES ASSUME NEW m \in Leaves, m \in requested', leave'[m].status = "approved"
                 PROVE  \E r \in Requests :
                            /\ LinksOf(m)' = {[leave |-> m, request |-> r, status |-> "approved"]}
                            /\ status'[r] = "approved" /\ approvals'[r] = NSteps
      OBVIOUS
    <3>1. CASE m = l
      <4>1. o = "approved"
        BY <1>5, <3>1
      <4>2. PICK r \in Requests : /\ r = handler[h].event.request
                                  /\ status[r] = "approved"
                                  /\ \E k \in LinksOf(l) : k.request = r
        BY <1>1, <1>2, <4>1, OutcomesAreFinal DEF EngineOutcome
      <4>3. LinksOf(l)' = {[leave |-> l, request |-> r, status |-> "approved"]}
        BY <1>2, <1>4, <4>1, <4>2, SetLinkMoves
      <4>4. status'[r] = "approved" /\ approvals'[r] = NSteps
        BY <1>2, <4>2 DEF LeaveInv, EngineSound, decisionVars
      <4> QED
        BY <3>1, <4>3, <4>4
    <3>2. CASE m # l
      <4>1. leave[m].status = "approved" /\ m \in requested
        BY <1>2, <1>3, <3>2
      <4>2. LinksOf(m)' = LinksOf(m)
        BY <1>2, <1>4, <3>2, SetLinkMoves
      <4> QED
        BY <1>2, <4>1, <4>2 DEF LeaveInv, LinksMatchLeaves, decisionVars
    <3> QED
      BY <3>1, <3>2
  <2>2. ASSUME NEW k \in link'
        PROVE  /\ k.status = "rejected" => leave'[k.leave].status \in {"rejected", "cancelled"}
               /\ k.status = "cancelled" => leave'[k.leave].status = "cancelled"
    <3>1. k.leave = l => k.status = o
      BY <1>2, <1>4, SetLinkMoves
    <3>2. k.leave # l => k \in link /\ k.leave \in Leaves
      BY <1>2, <1>4, SetLinkMoves DEF LeaveInv, TypeOK, Link
    <3> QED
      BY <1>3, <1>5, <3>1, <3>2 DEF LeaveInv, LinksMatchLeaves
  <2> QED
    BY <2>1, <2>2 DEF LinksMatchLeaves
<1>12. \A r \in Requests : EngineSound(r)'
  BY <1>2 DEF LeaveInv, EngineSound, decisionVars
<1>13. \A m \in Leaves : LeaveSound(m)'
  <2> TAKE m \in Leaves
  <2>1. \A j, k \in LinksOf(m)' : j = k
    BY <1>2, <1>4, SetLinkMoves DEF LeaveInv, LeaveSound
  <2>2. m \in requested => leave'[m].status # "none"
    BY <1>3, <1>4, <1>5 DEF LeaveInv, LeaveSound
  <2>3. m \in cancelled => leave'[m].status = "cancelled"
    BY <1>6 DEF LeaveInv, LeaveSound, Lasts
  <2> QED
    BY <1>2, <2>1, <2>2, <2>3 DEF LeaveSound
<1>14. LinksSound'
  BY <1>2, <1>4, SetLinkMoves
<1>15. \A c \in Calls : CallSound(c)'
  <2> TAKE c \in Calls
  <2>1. call[c].leave \in Leaves
    BY CallTypes DEF LeaveInv
  <2>2. \A m \in Leaves : leave[m].status = "none" => leave'[m].status = "none"
    BY <1>2, <1>3
  <2> QED
    BY <1>2, <2>1, <2>2 DEF LeaveInv, CallSound
<1>16. \A t \in Terminations : SubscriberSound(t)'
  BY <1>2, <1>6, SubscribersStaySound DEF deliveryVars
<1> QED
  BY <1>8, <1>9, <1>10, <1>11, <1>12, <1>13, <1>14, <1>15, <1>16 DEF LeaveInv

-----------------------------------------------------------------------------
(***************************************************************************)
(* Use cases.                                                              *)
(***************************************************************************)

LEMMA CallMoves ==
    ASSUME TypeOK, NEW c \in Calls, NEW v \in Call, call' = [call EXCEPT ![c] = v]
    PROVE  /\ call' \in [Calls -> Call] /\ call'[c] = v
           /\ \A d \in Calls \ {c} : call'[d] = call[d]
BY DEF TypeOK

\* A call begins, or ends having changed nothing.
LEMMA CallStepKeepsRows ==
    ASSUME LeaveInv, UNCHANGED <<rowVars, deliveryVars, handler>>,
           call' \in [Calls -> Call], \A c \in Calls : CallSound(c)'
    PROVE  LeaveInv'
<1> USE DEF rowVars, decisionVars, leaveVars, eventVars, deliveryVars
<1>1. \A h \in Handlers : HandlerSound(h)'
  BY RowsLast, OthersStaySound
<1>2. TypeOK'
  BY RowsLast DEF LeaveInv, TypeOK, Lasts
<1>3. OutcomesMatchStatus' /\ LinksSound' /\ \A r \in Requests : EngineSound(r)'
  BY DEF LeaveInv, OutcomesMatchStatus, LinksSound, EngineSound
<1>4. LinksMatchLeaves' /\ \A l \in Leaves : LeaveSound(l)'
  BY DEF LeaveInv, LinksMatchLeaves, LeaveSound, LinksOf
<1>5. \A t \in Terminations : SubscriberSound(t)'
  BY RowsLast, SubscribersStaySound
<1> QED
  BY <1>1, <1>2, <1>3, <1>4, <1>5 DEF LeaveInv

LEMMA BeginStep ==
    ASSUME LeaveInv, NEW c \in Calls, NEW l \in Leaves, NEW u \in Units \cup {0},
           NEW pc \in {"create", "update", "cancel"}, BeginCall(c, pc, l, u),
           pc = "create" => /\ leave[l].status = "none"
                            /\ \A d \in Calls : ~(call[d].pc = "create" /\ call[d].leave = l),
           pc = "update" => leave[l].status = "pending",
           pc = "cancel" => leave[l].status \in {"pending", "approved", "rejected"}
    PROVE  LeaveInv'
<1>1. PICK v : v = [pc |-> pc, leave |-> l, seen |-> leave[l], units |-> u]
  OBVIOUS
<1>2. v \in Call /\ call' = [call EXCEPT ![c] = v]
      /\ UNCHANGED <<rowVars, deliveryVars, handler>>
  BY <1>1, LeaveTypes DEF LeaveInv, BeginCall, Call, rowVars
<1>3. /\ call' \in [Calls -> Call] /\ call'[c] = v
      /\ \A d \in Calls \ {c} : call'[d] = call[d]
  BY <1>2, CallMoves DEF LeaveInv
<1>4. leave' = leave
  BY <1>2 DEF rowVars, leaveVars
<1>5. \A d \in Calls : CallSound(d)'
  <2> TAKE d \in Calls
  <2>1. CASE d = c
    BY <1>1, <1>3, <1>4, <2>1 DEF CallSound
  <2>2. CASE d # c
    <3>1. CallSound(d) /\ call'[d] = call[d]
      BY <1>3, <2>2 DEF LeaveInv
    <3> QED
      BY <1>1, <1>3, <1>4, <3>1 DEF CallSound
  <2> QED
    BY <2>1, <2>2
<1> QED
  BY <1>2, <1>3, <1>5, CallStepKeepsRows

LEMMA BeginSteps ==
    ASSUME LeaveInv, NEW c \in Calls, NEW l \in Leaves,
           BeginCancel(c, l) \/ \E u \in Units : BeginCreate(c, l, u) \/ BeginUpdate(c, l, u)
    PROVE  LeaveInv'
<1>1. CASE BeginCancel(c, l)
  BY <1>1, BeginStep DEF BeginCancel
<1>2. ASSUME NEW u \in Units, BeginCreate(c, l, u) PROVE LeaveInv'
  BY <1>2, BeginStep DEF BeginCreate, NoLeave
<1>3. ASSUME NEW u \in Units, BeginUpdate(c, l, u) PROVE LeaveInv'
  BY <1>3, BeginStep DEF BeginUpdate
<1> QED
  BY <1>1, <1>2, <1>3

LEMMA EndCallMoves ==
    ASSUME TypeOK, NEW c \in Calls, EndCall(c)
    PROVE  /\ call' \in [Calls -> Call] /\ call'[c].pc = "idle"
           /\ \A d \in Calls \ {c} : call'[d] = call[d]
<1>1. PICK v \in Call : v = IdleCall
  BY IdleIsTyped
<1> QED
  BY <1>1, CallMoves DEF EndCall, IdleCall

LEMMA RefuseStep ==
    ASSUME LeaveInv, NEW c \in Calls, Refuse(c)
    PROVE  LeaveInv'
<1>1. /\ call' \in [Calls -> Call] /\ call'[c].pc = "idle"
      /\ \A d \in Calls \ {c} : call'[d] = call[d]
  BY EndCallMoves DEF LeaveInv, Refuse
<1>2. UNCHANGED <<rowVars, deliveryVars, handler>> /\ leave' = leave
  BY DEF Refuse, rowVars, leaveVars
<1>3. \A d \in Calls : CallSound(d)'
  BY <1>1, <1>2 DEF LeaveInv, CallSound
<1> QED
  BY <1>1, <1>2, <1>3, CallStepKeepsRows

LEMMA AdjustBalanceStep ==
    ASSUME LeaveInv, AdjustBalance
    PROVE  LeaveInv'
<1> USE DEF AdjustBalance, decisionVars, leaveVars, eventVars, deliveryVars
<1>1. Lasts
  BY DEF Lasts, Staged
<1>2. \A h \in Handlers : HandlerSound(h)'
  BY <1>1, OthersStaySound
<1>3. TypeOK'
  BY <1>1 DEF LeaveInv, TypeOK, Lasts
<1>4. OutcomesMatchStatus' /\ LinksSound' /\ \A r \in Requests : EngineSound(r)'
  BY DEF LeaveInv, OutcomesMatchStatus, LinksSound, EngineSound
<1>5. LinksMatchLeaves' /\ \A l \in Leaves : LeaveSound(l)'
  BY DEF LeaveInv, LinksMatchLeaves, LeaveSound, LinksOf
<1>6. \A c \in Calls : CallSound(c)'
  BY DEF LeaveInv, CallSound
<1>7. \A t \in Terminations : SubscriberSound(t)'
  BY <1>1, SubscribersStaySound
<1> QED
  BY <1>2, <1>3, <1>4, <1>5, <1>6, <1>7 DEF LeaveInv

\* A call ends having written the row of its leave.
LEMMA WriteStep ==
    ASSUME LeaveInv, NEW c \in Calls, EndCall(c), NEW l \in Leaves, l = call[c].leave,
           NEW v \in Leave, leave' = [leave EXCEPT ![l] = v],
           UNCHANGED <<decisionVars, total, link, silenced, deliveryVars, handler>>,
           used' \in Nat, outcomes' \in [Leaves -> Seq(Outcome)], OutcomesMatchStatus',
           requested \subseteq requested', requested' \subseteq requested \cup {l},
           cancelled \subseteq cancelled', cancelled' \subseteq cancelled \cup {l},
           l \in requested' => v.status # "none",
           l \in cancelled' => v.status = "cancelled",
           l \in requested' /\ v.status = "approved" =>
               l \in requested /\ leave[l].status = "approved",
           leave[l].status = "cancelled" => v.status = "cancelled",
           leave[l].status = "rejected" => v.status \in {"rejected", "cancelled"},
           leave[l].status # "none" => v.status # "none",
           call[c].pc = "create" \/ (leave[l].status = "none" => v.status = "none")
    PROVE  LeaveInv'
<1>1. leave'[l] = v /\ \A m \in Leaves \ {l} : leave'[m] = leave[m]
  BY DEF LeaveInv, TypeOK
<1>2. Lasts
  <2>1. Staged \subseteq Staged'
    BY StagedGrows DEF decisionVars
  <2>2. \A m \in Leaves : /\ leave[m].status = "cancelled" => leave'[m].status = "cancelled"
                          /\ leave[m].status # "none" => leave'[m].status # "none"
    BY <1>1
  <2> QED
    BY <2>1, <2>2 DEF Lasts, decisionVars
<1>3. \A h \in Handlers : HandlerSound(h)'
  BY <1>2, OthersStaySound
<1>4. /\ call' \in [Calls -> Call] /\ call'[c].pc = "idle"
      /\ \A d \in Calls \ {c} : call'[d] = call[d]
  BY EndCallMoves DEF LeaveInv
<1>5. TypeOK'
  <2>1. leave' \in [Leaves -> Leave]
    BY DEF LeaveInv, TypeOK
  <2> QED
    BY <1>2, <1>4, <2>1 DEF LeaveInv, TypeOK, decisionVars, deliveryVars, Lasts
<1>6. LinksSound' /\ \A r \in Requests : EngineSound(r)'
  BY DEF LeaveInv, LinksSound, EngineSound, decisionVars
<1>7. LinksMatchLeaves'
  <2>1. \A m \in Leaves : m \in requested' /\ leave'[m].status = "approved" =>
            m \in requested /\ leave[m].status = "approved"
    BY <1>1
  <2>2. \A m \in Leaves : LinksOf(m)' = LinksOf(m)
    BY DEF LinksOf
  <2>3. \A k \in link : k.leave \in Leaves
    BY DEF LeaveInv, TypeOK, Link
  <2> QED
    BY <1>1, <2>1, <2>2, <2>3 DEF LeaveInv, LinksMatchLeaves, decisionVars
<1>8. \A m \in Leaves : LeaveSound(m)'
  BY <1>1 DEF LeaveInv, LeaveSound, LinksOf
<1>9. \A d \in Calls : CallSound(d)'
  <2> TAKE d \in Calls
  <2>1. CASE d = c
    BY <1>4, <2>1 DEF CallSound
  <2>2. CASE d # c
    <3>1. CallSound(d) /\ CallSound(c) /\ call'[d] = call[d] /\ call[d].leave \in Leaves
      BY <1>4, <2>2, CallTypes DEF LeaveInv
    <3>2. call[d].pc = "create" => leave'[call[d].leave].status = "none"
      BY <1>1, <2>2, <3>1 DEF CallSound
    <3>3. \A e \in Calls : call'[e].pc = "create" => e # c /\ call'[e] = call[e]
      BY <1>4
    <3> QED
      BY <3>1, <3>2, <3>3 DEF CallSound
  <2> QED
    BY <2>1, <2>2
<1>10. \A t \in Terminations : SubscriberSound(t)'
  BY <1>2, SubscribersStaySound DEF deliveryVars
<1> QED
  BY <1>3, <1>5, <1>6, <1>7, <1>8, <1>9, <1>10 DEF LeaveInv

\* What becomes of the outcomes when one leave is told of one more.
LEMMA OutcomesMove ==
    ASSUME LeaveInv, NEW l \in Leaves, NEW o \in Outcome, Announce(l, o)
    PROVE  /\ outcomes' \in [Leaves -> Seq(Outcome)]
           /\ outcomes'[l] = Append(outcomes[l], o)
           /\ \A m \in Leaves \ {l} : outcomes'[m] = outcomes[m]
BY DEF LeaveInv, TypeOK, Announce

LEMMA AppendSecond ==
    ASSUME NEW a, NEW b
    PROVE  Append(<<a>>, b) = <<a, b>>
<1>1. <<a>> \in Seq({a, b}) /\ Len(<<a>>) = 1
  OBVIOUS
<1>2. /\ Len(Append(<<a>>, b)) = 2 /\ Append(<<a>>, b) \in Seq({a, b})
      /\ \A i \in 1 .. 2 : Append(<<a>>, b)[i] = <<a, b>>[i]
  BY <1>1
<1>3. <<a, b>> \in Seq({a, b}) /\ Len(<<a, b>>) = 2
  OBVIOUS
<1> QED
  BY <1>2, <1>3, SeqEqual

LEMMA InsertLeaveStep ==
    ASSUME LeaveInv, NEW c \in Calls, InsertLeave(c)
    PROVE  LeaveInv'
<1>1. PICK l \in Leaves, u \in Units \cup {0} : l = call[c].leave /\ u = call[c].units
  BY CallTypes DEF LeaveInv
<1>2. /\ call[c].pc = "create" /\ EndCall(c)
      /\ UNCHANGED <<decisionVars, total, link, cancelled, silenced, deliveryVars, handler>>
  BY DEF InsertLeave
<1>3. /\ leave[l].status = "none" /\ l \notin requested /\ l \notin cancelled
      /\ outcomes[l] = <<>> /\ l \notin silenced
  BY <1>1, <1>2 DEF LeaveInv, CallSound, LeaveSound, OutcomesMatchStatus
<1>4. CASE /\ leave' = [leave EXCEPT ![l] = [status |-> "pending", units |-> u]]
           /\ requested' = requested \cup {l}
           /\ UNCHANGED <<used, outcomes>>
  <2>1. PICK v \in Leave : v = [status |-> "pending", units |-> u]
    BY DEF Leave, Status
  <2>2. leave'[l] = v /\ \A m \in Leaves \ {l} : leave'[m] = leave[m]
    BY <1>4, <2>1 DEF LeaveInv, TypeOK
  <2>3. OutcomesMatchStatus'
    BY <1>2, <1>3, <1>4, <2>1, <2>2, OutcomesMatchOfOne
  <2>4. used' \in Nat /\ outcomes' \in [Leaves -> Seq(Outcome)]
    BY <1>4 DEF LeaveInv, TypeOK
  <2> QED
    BY <1>1, <1>2, <1>3, <1>4, <2>1, <2>3, <2>4, WriteStep
<1>5. CASE /\ leave' = [leave EXCEPT ![l] = [status |-> "approved", units |-> u]]
           /\ used' = used + u
           /\ Announce(l, "approved")
           /\ UNCHANGED requested
  <2>1. PICK v \in Leave : v = [status |-> "approved", units |-> u]
    BY DEF Leave, Status
  <2>2. leave'[l] = v /\ \A m \in Leaves \ {l} : leave'[m] = leave[m]
    BY <1>5, <2>1 DEF LeaveInv, TypeOK
  <2>3. /\ outcomes' \in [Leaves -> Seq(Outcome)] /\ outcomes'[l] = <<"approved">>
        /\ \A m \in Leaves \ {l} : outcomes'[m] = outcomes[m]
    BY <1>3, <1>5, OutcomesMove DEF Outcome
  <2>4. OutcomesMatchStatus'
    BY <1>2, <1>3, <2>1, <2>2, <2>3, OutcomesMatchOfOne
  <2>5. used' \in Nat
    BY <1>5, UnitsAreNat DEF LeaveInv, TypeOK
  <2> QED
    BY <1>1, <1>2, <1>3, <1>5, <2>1, <2>3, <2>4, <2>5, WriteStep
<1> QED
  BY <1>1, <1>4, <1>5 DEF InsertLeave, Announce

LEMMA UpdateLeaveStep ==
    ASSUME LeaveInv, NEW c \in Calls, UpdateLeave(c)
    PROVE  LeaveInv'
<1>1. PICK l \in Leaves, u \in Units \cup {0} : l = call[c].leave /\ u = call[c].units
  BY CallTypes DEF LeaveInv
<1>2. /\ leave' = [leave EXCEPT ![l].units = u] /\ EndCall(c)
      /\ UNCHANGED <<decisionVars, used, total, link, eventVars, deliveryVars, handler>>
  BY <1>1 DEF UpdateLeave
<1>3. PICK v : v = [leave[l] EXCEPT !.units = u]
  OBVIOUS
<1>4. leave[l] \in Leave
  BY LeaveTypes DEF LeaveInv
<1>5. v \in Leave /\ v.status = leave[l].status
  BY <1>3, <1>4 DEF Leave
<1>6. leave' = [leave EXCEPT ![l] = v]
  BY <1>2, <1>3
<1>7. leave'[l] = v /\ \A m \in Leaves \ {l} : leave'[m] = leave[m]
  BY <1>6 DEF LeaveInv, TypeOK
<1>8. OutcomesMatchStatus'
  <2>1. \A m \in Leaves : leave'[m].status = leave[m].status
    BY <1>5, <1>7
  <2>2. UNCHANGED <<outcomes, silenced>> /\ silenced \subseteq Leaves
    BY <1>2 DEF eventVars, LeaveInv, TypeOK
  <2>3. OutcomesMatchStatus
    BY DEF LeaveInv
  <2> QED
    BY <2>1, <2>2, <2>3 DEF OutcomesMatchStatus
<1>9. UNCHANGED <<used, outcomes, requested, cancelled, silenced>>
  BY <1>2 DEF eventVars
<1>10. used' \in Nat /\ outcomes' \in [Leaves -> Seq(Outcome)]
  BY <1>9 DEF LeaveInv, TypeOK
<1>11. (l \in requested => v.status # "none") /\ (l \in cancelled => v.status = "cancelled")
  BY <1>5 DEF LeaveInv, LeaveSound
<1>12. EndCall(c) /\ UNCHANGED <<decisionVars, total, link, silenced, deliveryVars, handler>>
  BY <1>2, <1>9
<1> QED
  BY <1>1, <1>5, <1>6, <1>8, <1>9, <1>10, <1>11, <1>12, WriteStep

LEMMA CancelLeaveStep ==
    ASSUME LeaveInv, NEW c \in Calls, CancelLeave(c)
    PROVE  LeaveInv'
<1>1. PICK l \in Leaves : l = call[c].leave
  BY CallTypes DEF LeaveInv
<1>2. /\ leave' = [leave EXCEPT ![l].status = "cancelled"] /\ EndCall(c)
      /\ leave[l].status = call[c].seen.status
      /\ used' = Less(used, Refund(call[c].seen))
      /\ cancelled' \in {cancelled, cancelled \cup {l}}
      /\ Announce(l, "cancelled")
      /\ UNCHANGED <<decisionVars, total, link, requested, silenced, deliveryVars, handler>>
  BY <1>1 DEF CancelLeave, Cancellable
<1>3. leave[l].status \in {"pending", "approved", "rejected"} /\ l \notin silenced
  BY <1>2 DEF LeaveInv, CallSound, CancelLeave, OutcomesMatchStatus
<1>4. PICK v : v = [leave[l] EXCEPT !.status = "cancelled"]
  OBVIOUS
<1>5. leave[l] \in Leave
  BY LeaveTypes DEF LeaveInv
<1>6. v \in Leave /\ v.status = "cancelled"
  BY <1>4, <1>5 DEF Leave, Status
<1>7. leave' = [leave EXCEPT ![l] = v]
  BY <1>2, <1>4
<1>8. leave'[l] = v /\ \A m \in Leaves \ {l} : leave'[m] = leave[m]
  BY <1>7 DEF LeaveInv, TypeOK
<1>9. /\ outcomes' \in [Leaves -> Seq(Outcome)]
      /\ outcomes'[l] = Append(outcomes[l], "cancelled")
      /\ \A m \in Leaves \ {l} : outcomes'[m] = outcomes[m]
  BY <1>2, OutcomesMove DEF Outcome
<1>10. outcomes'[l] \in {<<"cancelled">>, <<"approved", "cancelled">>, <<"rejected", "cancelled">>}
  <2>1. outcomes[l] \in {<<>>, <<"approved">>, <<"rejected">>}
    BY <1>3 DEF LeaveInv, OutcomesMatchStatus
  <2>2. CASE outcomes[l] = <<>>
    BY <1>9, <2>2
  <2>3. CASE outcomes[l] = <<"approved">>
    BY <1>9, <2>3, AppendSecond
  <2>4. CASE outcomes[l] = <<"rejected">>
    BY <1>9, <2>4, AppendSecond
  <2> QED
    BY <2>1, <2>2, <2>3, <2>4
<1>11. OutcomesMatchStatus'
  BY <1>2, <1>3, <1>6, <1>8, <1>9, <1>10, OutcomesMatchOfOne
<1>12. used' \in Nat
  <2>1. call[c].seen.units \in Nat /\ used \in Nat
    BY CallTypes, UnitsAreNat DEF LeaveInv, TypeOK, Leave
  <2> QED
    BY <1>2, <2>1 DEF Less, Refund
<1>13. cancelled \subseteq cancelled' /\ cancelled' \subseteq cancelled \cup {l}
  BY <1>2
<1>14. requested' = requested
  BY <1>2
<1>15. EndCall(c) /\ UNCHANGED <<decisionVars, total, link, silenced, deliveryVars, handler>>
  BY <1>2
<1> QED
  BY <1>1, <1>3, <1>6, <1>7, <1>9, <1>11, <1>12, <1>13, <1>14, <1>15, WriteStep

-----------------------------------------------------------------------------
(***************************************************************************)
(* Terminations.                                                           *)
(***************************************************************************)

\* A termination that reads, or gives up, touches nothing else.
LEMMA TerminationKeepsRows ==
    ASSUME LeaveInv, UNCHANGED <<rowVars, delivered, processed, failures, handler, call>>,
           subscriber' \in [Terminations -> SUBSET Leaves],
           \A t \in Terminations : SubscriberSound(t)'
    PROVE  LeaveInv'
<1>1. \A h \in Handlers : HandlerSound(h)'
  BY RowsLast, OthersStaySound
<1>2. TypeOK'
  BY RowsLast DEF LeaveInv, TypeOK, Lasts, rowVars, decisionVars, leaveVars, eventVars
<1> QED
  BY <1>1, <1>2, RowsKeep DEF LeaveInv

LEMMA ReadPendingStep ==
    ASSUME LeaveInv, NEW t \in Terminations, ReadPending(t) \/ AbandonTermination(t)
    PROVE  LeaveInv'
<1>1. PICK ls \in SUBSET Leaves :
         /\ subscriber' = [subscriber EXCEPT ![t] = ls]
         /\ \A l \in ls : leave[l].status # "none"
  <2>1. With("pending") \subseteq Leaves /\ \A l \in With("pending") : leave[l].status # "none"
    BY DEF With
  <2> QED
    BY <2>1 DEF ReadPending, AbandonTermination
<1>2. UNCHANGED <<rowVars, delivered, processed, failures, handler, call>> /\ leave' = leave
  BY DEF ReadPending, AbandonTermination, rowVars, leaveVars
<1>3. subscriber' \in [Terminations -> SUBSET Leaves]
      /\ \A u \in Terminations : subscriber'[u] = IF u = t THEN ls ELSE subscriber[u]
  BY <1>1 DEF LeaveInv, TypeOK
<1>4. \A u \in Terminations : SubscriberSound(u)'
  BY <1>1, <1>2, <1>3 DEF LeaveInv, SubscriberSound
<1> QED
  BY <1>2, <1>3, <1>4, TerminationKeepsRows

\* A leave is cancelled whatever it is by now; what was told of it stays told.
LEMMA SilenceMatches ==
    ASSUME LeaveInv, NEW l \in Leaves, leave[l].status # "none",
           leave'[l].status = "cancelled", outcomes' = outcomes,
           \A m \in Leaves \ {l} : leave'[m] = leave[m],
           silenced' = IF leave[l].status = "cancelled" THEN silenced ELSE silenced \cup {l}
    PROVE  OutcomesMatchStatus'
<1>1. leave[l].status \in Status
  BY LeaveTypes DEF LeaveInv
<1>2. silenced \subseteq Leaves /\ \A m \in silenced' : leave'[m].status = "cancelled"
  BY DEF LeaveInv, TypeOK, OutcomesMatchStatus
<1>3. CASE leave[l].status = "cancelled"
  BY <1>2, <1>3 DEF LeaveInv, OutcomesMatchStatus
<1>4. CASE leave[l].status \in {"pending", "approved", "rejected"}
  <2>1. outcomes'[l] \in {<<>>, <<"approved">>, <<"rejected">>} /\ l \in silenced'
    BY <1>4 DEF LeaveInv, OutcomesMatchStatus
  <2>2. \A m \in Leaves \ {l} : m \in silenced' <=> m \in silenced
    BY <1>4
  <2> QED
    BY <1>2, <2>1, <2>2 DEF LeaveInv, OutcomesMatchStatus
<1> QED
  BY <1>1, <1>3, <1>4 DEF Status

LEMMA CancelPendingStep ==
    ASSUME LeaveInv, NEW t \in Terminations, NEW l \in Leaves, CancelPending(t, l)
    PROVE  LeaveInv'
<1>1. /\ l \in subscriber[t]
      /\ leave' = [leave EXCEPT ![l].status = "cancelled"]
      /\ silenced' = IF leave[l].status = "cancelled" THEN silenced ELSE silenced \cup {l}
      /\ subscriber' = [subscriber EXCEPT ![t] = @ \ {l}]
      /\ UNCHANGED <<decisionVars, used, total, link, requested, cancelled, outcomes,
                     delivered, processed, failures, handler, call>>
  BY DEF CancelPending
<1>2. leave[l].status # "none"
  BY <1>1 DEF LeaveInv, SubscriberSound
<1>3. leave[l] \in Leave /\ leave'[l] = [leave[l] EXCEPT !.status = "cancelled"]
      /\ \A m \in Leaves \ {l} : leave'[m] = leave[m]
  BY <1>1, LeaveTypes DEF LeaveInv, TypeOK
<1>4. leave'[l] \in Leave /\ leave'[l].status = "cancelled"
  BY <1>3 DEF Leave, Status
<1>5. OutcomesMatchStatus'
  BY <1>1, <1>2, <1>3, <1>4, SilenceMatches
<1>6. Lasts
  <2>1. Staged \subseteq Staged'
    BY <1>1, StagedGrows DEF decisionVars
  <2> QED
    BY <1>1, <1>3, <1>4, <2>1 DEF Lasts, decisionVars
<1>7. \A h \in Handlers : HandlerSound(h)'
  BY <1>1, <1>6, OthersStaySound
<1>8. subscriber' \in [Terminations -> SUBSET Leaves]
      /\ \A u \in Terminations : subscriber'[u] \subseteq subscriber[u]
  BY <1>1 DEF LeaveInv, TypeOK
<1>9. \A u \in Terminations : SubscriberSound(u)'
  <2> TAKE u \in Terminations
  <2>1. SubscriberSound(u) /\ subscriber[u] \subseteq Leaves
    BY DEF LeaveInv, TypeOK
  <2> QED
    BY <1>6, <1>8, <2>1 DEF SubscriberSound, Lasts
<1>10. TypeOK'
  <2>1. leave' \in [Leaves -> Leave]
    BY <1>1, <1>4 DEF LeaveInv, TypeOK
  <2>2. silenced' \subseteq Leaves
    BY <1>1 DEF LeaveInv, TypeOK
  <2> QED
    BY <1>1, <1>6, <1>8, <2>1, <2>2 DEF LeaveInv, TypeOK, decisionVars, Lasts
<1>11. LinksSound' /\ \A r \in Requests : EngineSound(r)'
  BY <1>1 DEF LeaveInv, LinksSound, EngineSound, decisionVars
<1>12. LinksMatchLeaves'
  <2>1. \A m \in Leaves : leave'[m].status = "approved" => leave[m].status = "approved"
    BY <1>3, <1>4
  <2>2. \A m \in Leaves : LinksOf(m)' = LinksOf(m)
    BY <1>1 DEF LinksOf
  <2>3. \A k \in link : k.leave \in Leaves
    BY DEF LeaveInv, TypeOK, Link
  <2> QED
    BY <1>1, <1>3, <1>4, <2>1, <2>2, <2>3 DEF LeaveInv, LinksMatchLeaves, decisionVars
<1>13. \A m \in Leaves : LeaveSound(m)'
  BY <1>1, <1>3, <1>4 DEF LeaveInv, LeaveSound, LinksOf
<1>14. \A c \in Calls : CallSound(c)'
  <2> TAKE c \in Calls
  <2>1. CallSound(c) /\ call[c].leave \in Leaves
    BY CallTypes DEF LeaveInv
  <2>2. \A m \in Leaves : leave[m].status = "none" => leave'[m].status = "none"
    BY <1>2, <1>3
  <2> QED
    BY <1>1, <2>1, <2>2 DEF CallSound
<1> QED
  BY <1>5, <1>7, <1>9, <1>10, <1>11, <1>12, <1>13, <1>14 DEF LeaveInv

-----------------------------------------------------------------------------
(***************************************************************************)
(* The invariant and what follows from it.                                 *)
(***************************************************************************)

LEMMA LeaveInvInit == Init => LeaveInv
<1> SUFFICES ASSUME Init PROVE LeaveInv
  OBVIOUS
<1> USE DEF Init, DecisionInit
<1>1. TypeOK
  BY IdleIsTyped, NStepsAssumption, ModeAssumption DEF TypeOK
<1>2. OutcomesMatchStatus /\ LinksMatchLeaves /\ LinksSound
  BY DEF OutcomesMatchStatus, LinksMatchLeaves, LinksSound, NoLeave
<1>3. \A r \in Requests : EngineSound(r)
  BY DEF EngineSound, Outcome
<1>4. \A l \in Leaves : LeaveSound(l)
  BY DEF LeaveSound, LinksOf
<1>5. \A c \in Calls : CallSound(c)
  BY DEF CallSound, IdleCall
<1>6. \A h \in Handlers : HandlerSound(h)
  BY DEF HandlerSound, IdleHandler
<1>7. \A t \in Terminations : SubscriberSound(t)
  BY DEF SubscriberSound
<1> QED
  BY <1>1, <1>2, <1>3, <1>4, <1>5, <1>6, <1>7 DEF LeaveInv

LEMMA LeaveInvStep == LeaveInv /\ [Next]_vars => LeaveInv'
<1> SUFFICES ASSUME LeaveInv, [Next]_vars PROVE LeaveInv'
  OBVIOUS
<1>1. ASSUME NEW c \in Calls, CallStep(c) PROVE LeaveInv'
  BY <1>1, BeginSteps, InsertLeaveStep, UpdateLeaveStep, CancelLeaveStep, RefuseStep DEF CallStep
<1>2. ASSUME NEW r \in Requests, Decide(r) PROVE LeaveInv'
  BY <1>2, DecideStep
<1>3. ASSUME NEW h \in Handlers, HandlerStep(h) PROVE LeaveInv'
  BY <1>3, RequestedFindsLinkStep, LookUpSubjectStep, InsertRequestStep, CreateLinkStep,
     CancelledFindsLinkStep, CancelApprovalStep, LinkCancelledStep, CompletedFindsLinkStep,
     ReadLeaveStep, ApplyDecisionStep, IgnoreDecisionStep, EndOfDelivery DEF HandlerStep
<1>4. ASSUME UNCHANGED vars PROVE LeaveInv'
  BY <1>4, CallStepKeepsRows DEF LeaveInv, TypeOK, CallSound, vars, rowVars, leaveVars
<1>5. ASSUME NEW t \in Terminations, SubscriberStep(t) PROVE LeaveInv'
  BY <1>5, ReadPendingStep, CancelPendingStep DEF SubscriberStep
<1> QED
  BY <1>1, <1>2, <1>3, <1>4, <1>5, AdjustBalanceStep, DeliverStep, EndOfDelivery DEF Next

\* The inductive invariant, whatever is redelivered, reordered or fails.
THEOREM LeaveInvariant == Spec => []LeaveInv
BY LeaveInvInit, LeaveInvStep, PTL DEF Spec

\* TypeOK: every reachable state is of its types.
THEOREM LeaveTypeCorrect == Spec => []TypeOK
BY LeaveInvariant, PTL DEF LeaveInv

\* OutcomesMatchStatus: however decisions, cancellations, terminations,
\* redeliveries and crashes interleave, a leave's events tell once what its row
\* says, unless a termination cancelled it, which nothing tells and nothing undoes.
THEOREM EventsTellTheStatus == Spec => []OutcomesMatchStatus
BY LeaveInvariant, PTL DEF LeaveInv

\* LinksMatchLeaves: only an approval all steps of which are approved approves
\* a leave that asked for one, and links say what has become of their leaves.
THEOREM LinksTellTheStatus == Spec => []LinksMatchLeaves
BY LeaveInvariant, PTL DEF LeaveInv

-----------------------------------------------------------------------------
(***************************************************************************)
(* Sums of units: UnitsOf counts the pairs <<l, n>>, n <= leave[l].units.  *)
(***************************************************************************)

Days(f, ls) == UNION {{l} \X (1 .. f[l].units) : l \in ls}

LEMMA DaysOfOne ==
    ASSUME NEW l, NEW n \in Nat
    PROVE  IsFiniteSet({l} \X (1 .. n)) /\ Cardinality({l} \X (1 .. n)) = n
<1>1. IsFiniteSet({l}) /\ Cardinality({l}) = 1
  BY FS_Singleton
<1>2. IsFiniteSet(1 .. n) /\ Cardinality(1 .. n) = n
  BY FS_Interval
<1>3. /\ IsFiniteSet({l} \X (1 .. n))
      /\ Cardinality({l} \X (1 .. n)) = Cardinality({l}) * Cardinality(1 .. n)
  BY <1>1, <1>2, FS_Product
<1> QED
  BY <1>1, <1>2, <1>3

LEMMA DaysAreFinite ==
    ASSUME NEW f, \A l \in Leaves : f[l].units \in Nat, NEW ls \in SUBSET Leaves
    PROVE  IsFiniteSet(Days(f, ls)) /\ Cardinality(Days(f, ls)) \in Nat
<1> DEFINE Box == [l \in ls |-> {l} \X (1 .. f[l].units)]
           Boxes == {{l} \X (1 .. f[l].units) : l \in ls}
<1>1. IsFiniteSet(ls)
  BY LeavesAssumption, FS_Subset
<1>2. Box \in Surjection(ls, Boxes)
  BY DEF Surjection
<1>3. IsFiniteSet(Boxes)
  BY <1>1, <1>2, FS_Surjection
<1>4. \A T \in Boxes : IsFiniteSet(T)
  <2> TAKE T \in Boxes
  <2>1. PICK l \in ls : T = {l} \X (1 .. f[l].units)
    OBVIOUS
  <2> QED
    BY <2>1, DaysOfOne
<1>5. IsFiniteSet(UNION Boxes)
  BY <1>3, <1>4, FS_UNION
<1> QED
  BY <1>5, FS_CardinalityType DEF Days

LEMMA DaysAdd ==
    ASSUME NEW f, \A l \in Leaves : f[l].units \in Nat, NEW ls \in SUBSET Leaves,
           NEW l \in ls
    PROVE  Cardinality(Days(f, ls)) = Cardinality(Days(f, ls \ {l})) + f[l].units
<1> DEFINE rest == Days(f, ls \ {l})
           box == {l} \X (1 .. f[l].units)
<1>1. IsFiniteSet(rest) /\ Cardinality(rest) \in Nat
  BY DaysAreFinite
<1>2. IsFiniteSet(box) /\ Cardinality(box) = f[l].units
  BY DaysOfOne
<1>3. Days(f, ls) = rest \cup box
  BY DEF Days
<1>4. rest \cap box = {}
  BY DEF Days
<1>5. Cardinality({}) = 0
  BY FS_EmptySet
<1> HIDE DEF rest, box
<1>6. Cardinality(rest \cup box) = Cardinality(rest) + Cardinality(box) - Cardinality(rest \cap box)
  BY <1>1, <1>2, FS_Union
<1>7. Cardinality(Days(f, ls)) = Cardinality(rest) + f[l].units
  <2>1. Cardinality(Days(f, ls)) = Cardinality(rest) + Cardinality(box) - 0
    BY <1>3, <1>4, <1>5, <1>6
  <2>2. f[l].units \in Nat
    OBVIOUS
  <2> QED
    BY <1>1, <1>2, <2>1, <2>2
<1> QED
  BY <1>7 DEF rest

LEMMA DaysSame ==
    ASSUME NEW f, NEW g, NEW ls, \A l \in ls : f[l] = g[l]
    PROVE  Days(f, ls) = Days(g, ls)
BY DEF Days

\* What the leaves of one status add up to before and after the row of one
\* leave is written.
LEMMA SumsMove ==
    ASSUME TypeOK, NEW l \in Leaves, NEW v \in Leave, leave' = [leave EXCEPT ![l] = v],
           NEW s \in Status
    PROVE  /\ UnitsOf(With(s) \ {l}) \in Nat
           /\ UnitsOf(With(s)) = UnitsOf(With(s) \ {l})
                 + (IF leave[l].status = s THEN leave[l].units ELSE 0)
           /\ UnitsOf(With(s))' = UnitsOf(With(s) \ {l})
                 + (IF v.status = s THEN v.units ELSE 0)
<1>a. PICK f, g : f = leave /\ g = leave'
  OBVIOUS
<1>b. PICK ls, ms : ls = With(s) /\ ms = With(s)'
  OBVIOUS
<1>1. leave'[l] = v /\ \A m \in Leaves \ {l} : leave'[m] = leave[m]
  BY DEF TypeOK
<1>2. \A m \in Leaves : f[m].units \in Nat
  BY <1>a, LeaveTypes, UnitsAreNat
<1>3. v.units \in Nat
  BY UnitsAreNat DEF Leave
<1>4. \A m \in Leaves : g[m].units \in Nat
  BY <1>a, <1>1, <1>2, <1>3
<1>5. ls \in SUBSET Leaves /\ ms \in SUBSET Leaves /\ ls \ {l} \in SUBSET Leaves
  BY <1>b DEF With
<1>6. Cardinality(Days(f, ls \ {l})) \in Nat
  BY <1>2, <1>5, DaysAreFinite
<1>7. Days(g, ls \ {l}) = Days(f, ls \ {l})
  <2>1. \A m \in ls \ {l} : f[m] = g[m]
    BY <1>a, <1>1, <1>5
  <2> QED
    BY <2>1, DaysSame
<1>8. Cardinality(Days(f, ls)) = Cardinality(Days(f, ls \ {l}))
         + (IF leave[l].status = s THEN leave[l].units ELSE 0)
  <2>1. CASE leave[l].status = s
    <3>1. l \in ls
      BY <1>b, <2>1 DEF With
    <3> QED
      BY <1>a, <1>2, <1>5, <2>1, <3>1, DaysAdd
  <2>2. CASE leave[l].status # s
    <3>1. ls \ {l} = ls
      BY <1>b, <2>2 DEF With
    <3> QED
      BY <1>6, <2>2, <3>1
  <2> QED
    BY <2>1, <2>2
<1>9. Cardinality(Days(g, ms)) = Cardinality(Days(g, ls \ {l}))
         + (IF v.status = s THEN v.units ELSE 0)
  <2>1. CASE v.status = s
    <3>1. l \in ms /\ ms \ {l} = ls \ {l}
      BY <1>b, <1>1, <2>1 DEF With
    <3>2. g[l] = v
      BY <1>a, <1>1
    <3>3. Cardinality(Days(g, ms)) = Cardinality(Days(g, ms \ {l})) + g[l].units
      BY <1>4, <1>5, <3>1, DaysAdd
    <3> QED
      BY <2>1, <3>1, <3>2, <3>3
  <2>2. CASE v.status # s
    <3>1. ms = ls \ {l}
      BY <1>b, <1>1, <2>2 DEF With
    <3> QED
      BY <1>6, <1>7, <2>2, <3>1
  <2> QED
    BY <2>1, <2>2
<1>10. UnitsOf(With(s)) = Cardinality(Days(f, ls))
       /\ UnitsOf(With(s) \ {l}) = Cardinality(Days(f, ls \ {l}))
  BY <1>a, <1>b DEF UnitsOf, DaysOf, Days
<1>11. UnitsOf(With(s))' = Cardinality(Days(g, ms))
  BY <1>a, <1>b DEF UnitsOf, DaysOf, Days
<1> QED
  BY <1>6, <1>7, <1>8, <1>9, <1>10, <1>11

-----------------------------------------------------------------------------
(***************************************************************************)
(* Without LateWrites: whoever has read a leave is alone with it until it  *)
(* writes, so what it has seen is what the row still says.                 *)
(***************************************************************************)

Alone(l) ==
    /\ \A c, d \in Calls :
          call[c].pc # "idle" /\ call[c].leave = l /\ call[d].pc # "idle" /\ call[d].leave = l
             => c = d
    /\ \A c \in Calls, h \in Handlers :
          ~(call[c].pc # "idle" /\ call[c].leave = l
            /\ handler[h].pc = "apply" /\ handler[h].leave = l)
    /\ \A g, h \in Handlers :
          handler[g].pc = "apply" /\ handler[g].leave = l
          /\ handler[h].pc = "apply" /\ handler[h].leave = l
             => g = h
    /\ \A t \in Terminations : l \in subscriber[t] =>
          /\ \A c \in Calls : ~(call[c].pc # "idle" /\ call[c].leave = l)
          /\ \A h \in Handlers : ~(handler[h].pc = "apply" /\ handler[h].leave = l)
          /\ \A u \in Terminations : l \in subscriber[u] => u = t

SeenIsCurrent ==
    /\ \A c \in Calls : call[c].pc \in {"update", "cancel"} =>
                            call[c].seen = leave[call[c].leave]
    /\ \A h \in Handlers : handler[h].pc = "apply" =>
                               handler[h].seen = leave[handler[h].leave]
    /\ \A t \in Terminations : \A l \in subscriber[t] : leave[l].status = "pending"

CalmInv ==
    /\ SeenIsCurrent
    /\ \A l \in Leaves : Alone(l)
    /\ BalanceMatchesApprovals
    /\ QuotaHolds

\* Who else reads a leave: nobody, once it is written.
LEMMA ReadersStay ==
    ASSUME TypeOK, SeenIsCurrent, \A l \in Leaves : Alone(l),
           \A c \in Calls : call'[c] = call[c] \/ call'[c].pc = "idle",
           \A h \in Handlers : handler'[h] = handler[h] \/ handler'[h].pc # "apply",
           \A t \in Terminations : subscriber'[t] \subseteq subscriber[t],
           \A l \in Leaves :
              \/ leave'[l] = leave[l]
              \/ /\ \A c \in Calls : ~(call'[c].pc # "idle" /\ call'[c].leave = l)
                 /\ \A h \in Handlers : ~(handler'[h].pc = "apply" /\ handler'[h].leave = l)
                 /\ \A t \in Terminations : l \notin subscriber'[t]
    PROVE  SeenIsCurrent' /\ \A l \in Leaves : Alone(l)'
<1>1. SeenIsCurrent'
  <2>1. ASSUME NEW c \in Calls, call'[c].pc \in {"update", "cancel"}
        PROVE  call'[c].seen = leave'[call'[c].leave]
    <3>1. call'[c] = call[c] /\ call[c].pc \in {"update", "cancel"}
      BY <2>1
    <3>2. call[c].leave \in Leaves
      BY CallTypes
    <3>3. leave'[call[c].leave] = leave[call[c].leave]
      BY <2>1, <3>1, <3>2
    <3> QED
      BY <3>1, <3>3 DEF SeenIsCurrent
  <2>2. ASSUME NEW h \in Handlers, handler'[h].pc = "apply"
        PROVE  handler'[h].seen = leave'[handler'[h].leave]
    <3>1. handler'[h] = handler[h] /\ handler[h].pc = "apply"
      BY <2>2
    <3>2. handler[h].leave \in Leaves
      BY HandlerTypes
    <3>3. leave'[handler[h].leave] = leave[handler[h].leave]
      BY <2>2, <3>1, <3>2
    <3> QED
      BY <3>1, <3>3 DEF SeenIsCurrent
  <2>3. ASSUME NEW t \in Terminations, NEW l \in subscriber'[t]
        PROVE  leave'[l].status = "pending"
    <3>1. l \in subscriber[t] /\ l \in Leaves
      BY DEF TypeOK
    <3> QED
      BY <3>1 DEF SeenIsCurrent
  <2> QED
    BY <2>1, <2>2, <2>3 DEF SeenIsCurrent
<1>2. ASSUME NEW l \in Leaves PROVE Alone(l)'
  <2>1. Alone(l)
    OBVIOUS
  <2>2. \A c \in Calls : call'[c].pc # "idle" => call'[c] = call[c]
    OBVIOUS
  <2>3. \A h \in Handlers : handler'[h].pc = "apply" => handler'[h] = handler[h]
    OBVIOUS
  <2>4. ASSUME NEW c \in Calls, NEW d \in Calls, call'[c].pc # "idle", call'[c].leave = l,
               call'[d].pc # "idle", call'[d].leave = l
        PROVE  c = d
    BY <2>1, <2>2, <2>4 DEF Alone
  <2>5. ASSUME NEW c \in Calls, NEW h \in Handlers, call'[c].pc # "idle", call'[c].leave = l,
               handler'[h].pc = "apply", handler'[h].leave = l
        PROVE  FALSE
    BY <2>1, <2>2, <2>3, <2>5 DEF Alone
  <2>6. ASSUME NEW g \in Handlers, NEW h \in Handlers, handler'[g].pc = "apply",
               handler'[g].leave = l, handler'[h].pc = "apply", handler'[h].leave = l
        PROVE  g = h
    BY <2>1, <2>3, <2>6 DEF Alone
  <2>7. ASSUME NEW t \in Terminations, l \in subscriber'[t]
        PROVE  /\ \A c \in Calls : ~(call'[c].pc # "idle" /\ call'[c].leave = l)
               /\ \A h \in Handlers : ~(handler'[h].pc = "apply" /\ handler'[h].leave = l)
               /\ \A u \in Terminations : l \in subscriber'[u] => u = t
    <3>1. l \in subscriber[t]
      BY <2>7
    <3>2. /\ \A c \in Calls : ~(call[c].pc # "idle" /\ call[c].leave = l)
          /\ \A h \in Handlers : ~(handler[h].pc = "apply" /\ handler[h].leave = l)
          /\ \A u \in Terminations : l \in subscriber[u] => u = t
      BY <2>1, <3>1 DEF Alone
    <3> QED
      BY <2>2, <2>3, <3>2
  <2> QED
    BY <2>4, <2>5, <2>6, <2>7 DEF Alone
<1> QED
  BY <1>1, <1>2

\* What nobody writes stays what it adds up to.
LEMMA SumsStay ==
    ASSUME UNCHANGED <<leave, used, total>>, BalanceMatchesApprovals, QuotaHolds
    PROVE  BalanceMatchesApprovals' /\ QuotaHolds'
BY DEF BalanceMatchesApprovals, QuotaHolds, UnitsOf, DaysOf, With

\* A step of a use case or handler that neither begins to read nor writes.
LEMMA QuietStaysCalm ==
    ASSUME TypeOK, CalmInv, UNCHANGED <<leave, used, total>>,
           \A t \in Terminations : subscriber'[t] \subseteq subscriber[t],
           \A c \in Calls : call'[c] = call[c] \/ call'[c].pc = "idle",
           \A h \in Handlers : handler'[h] = handler[h] \/ handler'[h].pc # "apply"
    PROVE  CalmInv'
BY ReadersStay, SumsStay DEF CalmInv

LEMMA BeginStaysCalm ==
    ASSUME ~LateWrites, LeaveInv, CalmInv, NEW c \in Calls, NEW l \in Leaves,
           NEW u \in Units \cup {0}, NEW pc \in {"create", "update", "cancel"},
           BeginCall(c, pc, l, u),
           \A d \in Calls : ~(call[d].pc # "idle" /\ call[d].leave = l),
           \A h \in Handlers : ~(handler[h].pc = "apply" /\ handler[h].leave = l),
           \A t \in Terminations : l \notin subscriber[t]
    PROVE  CalmInv'
<1>1. /\ call'[c] = [pc |-> pc, leave |-> l, seen |-> leave[l], units |-> u]
      /\ \A d \in Calls \ {c} : call'[d] = call[d]
      /\ UNCHANGED <<leave, used, total, handler, subscriber>>
  BY DEF BeginCall, LeaveInv, TypeOK, leaveVars, deliveryVars
<1>2. SeenIsCurrent'
  BY <1>1 DEF CalmInv, SeenIsCurrent
<1>3. ASSUME NEW m \in Leaves PROVE Alone(m)'
  <2>1. CASE m = l
    BY <1>1, <2>1 DEF CalmInv, Alone
  <2>2. CASE m # l
    <3>1. \A d \in Calls : call'[d].pc # "idle" /\ call'[d].leave = m => call'[d] = call[d]
      BY <1>1, <2>2
    <3> QED
      BY <1>1, <3>1 DEF CalmInv, Alone
  <2> QED
    BY <2>1, <2>2
<1> QED
  BY <1>1, <1>2, <1>3, SumsStay DEF CalmInv

\* Nobody updates, cancels or decides a leave that is not there yet.
LEMMA NobodyReadsNone ==
    ASSUME LeaveInv, CalmInv, NEW l \in Leaves, leave[l].status = "none"
    PROVE  /\ \A d \in Calls : ~(call[d].pc \in {"update", "cancel"} /\ call[d].leave = l)
           /\ \A h \in Handlers : ~(handler[h].pc = "apply" /\ handler[h].leave = l)
           /\ \A t \in Terminations : l \notin subscriber[t]
<1>1. ASSUME NEW d \in Calls, call[d].pc \in {"update", "cancel"}, call[d].leave = l
      PROVE  FALSE
  BY <1>1 DEF LeaveInv, CallSound, CalmInv, SeenIsCurrent
<1>2. ASSUME NEW h \in Handlers, handler[h].pc = "apply", handler[h].leave = l
      PROVE  FALSE
  <2>1. HandlerSound(h)
    BY DEF LeaveInv
  <2>2. PICK r \in Requests : r = handler[h].event.request /\ SubjectOf[r] = l
                              /\ announced[r] # <<>>
    BY <1>2, <2>1, StagedIsEvent DEF HandlerSound, LeaveInv
  <2>3. status[r] # "none"
    BY <2>2 DEF LeaveInv, EngineSound, Outcome
  <2>4. l \in requested
    BY <2>2, <2>3 DEF LeaveInv, EngineSound
  <2> QED
    BY <2>4 DEF LeaveInv, LeaveSound
<1>3. \A t \in Terminations : l \notin subscriber[t]
  BY DEF LeaveInv, SubscriberSound
<1> QED
  BY <1>1, <1>2, <1>3

LEMMA BeginsStayCalm ==
    ASSUME ~LateWrites, LeaveInv, CalmInv, NEW c \in Calls, NEW l \in Leaves,
           BeginCancel(c, l) \/ \E u \in Units : BeginCreate(c, l, u) \/ BeginUpdate(c, l, u)
    PROVE  CalmInv'
<1>1. CASE BeginCancel(c, l)
  BY <1>1, BeginStaysCalm DEF BeginCancel, Undisturbed
<1>2. ASSUME NEW u \in Units, BeginCreate(c, l, u) PROVE CalmInv'
  <2>1. leave[l].status = "none" /\ BeginCall(c, "create", l, u)
        /\ \A d \in Calls : ~(call[d].pc = "create" /\ call[d].leave = l)
    BY <1>2 DEF BeginCreate, NoLeave
  <2>2. \A d \in Calls : call[d].pc \in {"idle", "create", "update", "cancel"}
    BY CallTypes DEF LeaveInv, Call
  <2> QED
    BY <2>1, <2>2, NobodyReadsNone, BeginStaysCalm
<1>3. ASSUME NEW u \in Units, BeginUpdate(c, l, u) PROVE CalmInv'
  BY <1>3, BeginStaysCalm DEF BeginUpdate, Undisturbed
<1> QED
  BY <1>1, <1>2, <1>3

LEMMA ReadStaysCalm ==
    ASSUME ~LateWrites, LeaveInv, CalmInv, NEW h \in Handlers, ReadLeave(h)
    PROVE  CalmInv'
<1>1. PICK l \in Leaves : l = handler[h].leave
  BY HandlerTypes DEF LeaveInv
<1>2. /\ handler'[h].pc = "apply" /\ handler'[h].leave = l /\ handler'[h].seen = leave[l]
      /\ \A g \in Handlers \ {h} : handler'[g] = handler[g]
      /\ UNCHANGED <<leave, used, total, call, subscriber>>
  BY <1>1, HandlerTypes DEF ReadLeave, LeaveInv, TypeOK, Handler, leaveVars, deliveryVars
<1>3. /\ \A c \in Calls : ~(call[c].pc # "idle" /\ call[c].leave = l)
      /\ \A g \in Handlers : ~(handler[g].pc = "apply" /\ handler[g].leave = l)
      /\ \A t \in Terminations : l \notin subscriber[t]
  BY <1>1 DEF ReadLeave, Undisturbed
<1>4. SeenIsCurrent'
  BY <1>2 DEF CalmInv, SeenIsCurrent
<1>5. ASSUME NEW m \in Leaves PROVE Alone(m)'
  <2>1. CASE m = l
    BY <1>2, <1>3, <2>1 DEF CalmInv, Alone
  <2>2. CASE m # l
    <3>1. \A g \in Handlers : handler'[g].pc = "apply" /\ handler'[g].leave = m => handler'[g] = handler[g]
      BY <1>2, <2>2
    <3> QED
      BY <1>2, <3>1 DEF CalmInv, Alone
  <2> QED
    BY <2>1, <2>2
<1> QED
  BY <1>2, <1>4, <1>5, SumsStay DEF CalmInv

-----------------------------------------------------------------------------
(***************************************************************************)
(* The steps that write a leave.                                           *)
(***************************************************************************)

\* A use case writes the leave it is alone with, and ends.
LEMMA CallWritesAlone ==
    ASSUME LeaveInv, CalmInv, NEW c \in Calls, EndCall(c), call[c].pc # "idle",
           NEW l \in Leaves, l = call[c].leave, NEW v, leave' = [leave EXCEPT ![l] = v],
           handler' = handler, subscriber' = subscriber
    PROVE  SeenIsCurrent' /\ \A m \in Leaves : Alone(m)'
<1>1. call'[c].pc = "idle" /\ \A d \in Calls \ {c} : call'[d] = call[d]
  BY EndCallMoves DEF LeaveInv
<1>2. \A m \in Leaves \ {l} : leave'[m] = leave[m]
  BY DEF LeaveInv, TypeOK
<1>3. \A d \in Calls : ~(call'[d].pc # "idle" /\ call'[d].leave = l)
  BY <1>1 DEF CalmInv, Alone
<1>4. \A h \in Handlers : ~(handler'[h].pc = "apply" /\ handler'[h].leave = l)
  BY DEF CalmInv, Alone
<1>5. \A d \in Calls : call'[d] = call[d] \/ call'[d].pc = "idle"
  BY <1>1
<1>6. \A t \in Terminations : l \notin subscriber'[t]
  BY DEF CalmInv, Alone
<1> QED
  BY <1>2, <1>3, <1>4, <1>5, <1>6, ReadersStay DEF LeaveInv, CalmInv

LEMMA SumsOfTwo ==
    ASSUME TypeOK, NEW l \in Leaves, NEW v \in Leave, leave' = [leave EXCEPT ![l] = v]
    PROVE  \E a, p \in Nat :
              /\ p = UnitsOf(With("pending") \ {l})
              /\ UnitsOf(With("approved")) = a + (IF leave[l].status = "approved" THEN leave[l].units ELSE 0)
              /\ UnitsOf(With("approved"))' = a + (IF v.status = "approved" THEN v.units ELSE 0)
              /\ UnitsOf(With("pending")) = p + (IF leave[l].status = "pending" THEN leave[l].units ELSE 0)
              /\ UnitsOf(With("pending"))' = p + (IF v.status = "pending" THEN v.units ELSE 0)
<1>1. "pending" \in Status /\ "approved" \in Status
  BY DEF Status
<1> UnitsOf(With("approved") \ {l}) \in Nat /\ UnitsOf(With("pending") \ {l}) \in Nat
  BY <1>1, SumsMove
<1> WITNESS UnitsOf(With("approved") \ {l}) \in Nat, UnitsOf(With("pending") \ {l}) \in Nat
<1> QED
  BY <1>1, SumsMove

LEMMA InsertStaysCalm ==
    ASSUME LeaveInv, CalmInv, NEW c \in Calls, InsertLeave(c)
    PROVE  CalmInv'
<1>1. PICK l \in Leaves, u \in Nat : l = call[c].leave /\ u = call[c].units /\ u \in Units \cup {0}
  BY CallTypes, UnitsAreNat DEF LeaveInv
<1>2. /\ call[c].pc = "create" /\ EndCall(c)
      /\ used + UnitsOf(With("pending") \ {l}) + u <= total
      /\ total' = total /\ handler' = handler /\ subscriber' = subscriber
  BY <1>1 DEF InsertLeave, Taken, deliveryVars
<1>3. PICK v \in Leave :
        /\ leave' = [leave EXCEPT ![l] = v] /\ v.units = u
        /\ \/ v.status = "pending" /\ used' = used
           \/ v.status = "approved" /\ used' = used + u
  <2>1. \A s \in Status : [status |-> s, units |-> u] \in Leave
    BY <1>1 DEF Leave
  <2> QED
    BY <1>1, <2>1 DEF InsertLeave, Status
<1>4. leave[l].status = "none"
  BY <1>1, <1>2 DEF LeaveInv, CallSound
<1>5. SeenIsCurrent' /\ \A m \in Leaves : Alone(m)'
  BY <1>1, <1>2, <1>3, CallWritesAlone
<1>6. used \in Nat /\ total \in Nat /\ used = UnitsOf(With("approved"))
  BY LeavesAssumption DEF LeaveInv, TypeOK, CalmInv, BalanceMatchesApprovals
<1>7. PICK a, p \in Nat :
         /\ p = UnitsOf(With("pending") \ {l})
         /\ UnitsOf(With("approved")) = a
         /\ UnitsOf(With("approved"))' = a + (IF v.status = "approved" THEN u ELSE 0)
         /\ UnitsOf(With("pending"))' = p + (IF v.status = "pending" THEN u ELSE 0)
  <2>1. PICK a, p \in Nat :
              /\ p = UnitsOf(With("pending") \ {l})
              /\ UnitsOf(With("approved")) = a + (IF leave[l].status = "approved" THEN leave[l].units ELSE 0)
              /\ UnitsOf(With("approved"))' = a + (IF v.status = "approved" THEN v.units ELSE 0)
              /\ UnitsOf(With("pending")) = p + (IF leave[l].status = "pending" THEN leave[l].units ELSE 0)
              /\ UnitsOf(With("pending"))' = p + (IF v.status = "pending" THEN v.units ELSE 0)
    BY <1>3, SumsOfTwo DEF LeaveInv
  <2> QED
    BY <1>3, <1>4, <2>1
<1>8. BalanceMatchesApprovals'
  BY <1>1, <1>3, <1>6, <1>7 DEF BalanceMatchesApprovals
<1>9. QuotaHolds'
  <2>1. used' + UnitsOf(With("pending"))' <= total
    BY <1>1, <1>2, <1>3, <1>6, <1>7
  <2> QED
    BY <1>2, <2>1 DEF QuotaHolds
<1> QED
  BY <1>5, <1>8, <1>9 DEF CalmInv

LEMMA UpdateStaysCalm ==
    ASSUME LeaveInv, CalmInv, NEW c \in Calls, UpdateLeave(c)
    PROVE  CalmInv'
<1>1. PICK l \in Leaves, u \in Nat : l = call[c].leave /\ u = call[c].units /\ u \in Units \cup {0}
  BY CallTypes, UnitsAreNat DEF LeaveInv
<1>2. /\ call[c].pc = "update" /\ EndCall(c)
      /\ used + UnitsOf(With("pending") \ {l}) + u <= total
      /\ leave' = [leave EXCEPT ![l].units = u]
      /\ total' = total /\ used' = used /\ handler' = handler /\ subscriber' = subscriber
  BY <1>1 DEF UpdateLeave, Taken, deliveryVars
<1>3. PICK v : v = [leave[l] EXCEPT !.units = u]
  OBVIOUS
<1>4. v \in Leave /\ v.status = leave[l].status /\ v.units = u
  <2>1. leave[l] \in Leave
    BY LeaveTypes DEF LeaveInv
  <2> QED
    BY <1>1, <1>3, <2>1 DEF Leave
<1>5. leave' = [leave EXCEPT ![l] = v]
  BY <1>2, <1>3
<1>6. leave[l].status = "pending"
  <2>1. call[c].seen.status = "pending" /\ call[c].seen = leave[l]
    BY <1>1, <1>2 DEF LeaveInv, CallSound, CalmInv, SeenIsCurrent
  <2> QED
    BY <2>1
<1>7. SeenIsCurrent' /\ \A m \in Leaves : Alone(m)'
  <2>1. /\ call[c].pc # "idle" /\ EndCall(c) /\ l = call[c].leave
        /\ handler' = handler /\ subscriber' = subscriber
    BY <1>1, <1>2
  <2> QED
    BY <1>5, <2>1, CallWritesAlone
<1>8. used \in Nat /\ total \in Nat /\ used = UnitsOf(With("approved"))
  BY LeavesAssumption DEF LeaveInv, TypeOK, CalmInv, BalanceMatchesApprovals
<1>9. PICK a, p \in Nat :
              /\ p = UnitsOf(With("pending") \ {l})
              /\ UnitsOf(With("approved")) = a + (IF leave[l].status = "approved" THEN leave[l].units ELSE 0)
              /\ UnitsOf(With("approved"))' = a + (IF v.status = "approved" THEN v.units ELSE 0)
              /\ UnitsOf(With("pending")) = p + (IF leave[l].status = "pending" THEN leave[l].units ELSE 0)
              /\ UnitsOf(With("pending"))' = p + (IF v.status = "pending" THEN v.units ELSE 0)
  BY <1>4, <1>5, SumsOfTwo DEF LeaveInv
<1>10. BalanceMatchesApprovals'
  BY <1>2, <1>4, <1>6, <1>8, <1>9 DEF BalanceMatchesApprovals
<1>11. QuotaHolds'
  <2>1. used' + UnitsOf(With("pending"))' <= total
    BY <1>2, <1>4, <1>6, <1>8, <1>9
  <2> QED
    BY <1>2, <2>1 DEF QuotaHolds
<1> QED
  BY <1>7, <1>10, <1>11 DEF CalmInv

LEMMA CancelStaysCalm ==
    ASSUME LeaveInv, CalmInv, NEW c \in Calls, CancelLeave(c)
    PROVE  CalmInv'
<1>1. PICK l \in Leaves : l = call[c].leave
  BY CallTypes DEF LeaveInv
<1>2. /\ call[c].pc = "cancel" /\ EndCall(c)
      /\ leave' = [leave EXCEPT ![l].status = "cancelled"]
      /\ used' = Less(used, Refund(call[c].seen))
      /\ total' = total /\ handler' = handler /\ subscriber' = subscriber
  BY <1>1 DEF CancelLeave, deliveryVars
<1>3. PICK v : v = [leave[l] EXCEPT !.status = "cancelled"]
  OBVIOUS
<1>4. leave[l] \in Leave /\ leave[l].units \in Nat
  BY LeaveTypes, UnitsAreNat DEF LeaveInv
<1>5. v \in Leave /\ v.status = "cancelled"
  BY <1>3, <1>4 DEF Leave, Status
<1>6. leave' = [leave EXCEPT ![l] = v]
  BY <1>2, <1>3
<1>7. call[c].seen = leave[l]
  BY <1>1, <1>2 DEF CalmInv, SeenIsCurrent
<1>8. SeenIsCurrent' /\ \A m \in Leaves : Alone(m)'
  BY <1>1, <1>2, <1>6, CallWritesAlone
<1>9. used \in Nat /\ total \in Nat /\ used = UnitsOf(With("approved"))
  BY LeavesAssumption DEF LeaveInv, TypeOK, CalmInv, BalanceMatchesApprovals
<1>10. PICK a, p \in Nat :
              /\ p = UnitsOf(With("pending") \ {l})
              /\ UnitsOf(With("approved")) = a + (IF leave[l].status = "approved" THEN leave[l].units ELSE 0)
              /\ UnitsOf(With("approved"))' = a + (IF v.status = "approved" THEN v.units ELSE 0)
              /\ UnitsOf(With("pending")) = p + (IF leave[l].status = "pending" THEN leave[l].units ELSE 0)
              /\ UnitsOf(With("pending"))' = p + (IF v.status = "pending" THEN v.units ELSE 0)
  BY <1>5, <1>6, SumsOfTwo DEF LeaveInv
<1>11. used' = a
  BY <1>2, <1>4, <1>7, <1>9, <1>10 DEF Less, Refund
<1>12. BalanceMatchesApprovals'
  BY <1>5, <1>10, <1>11 DEF BalanceMatchesApprovals
<1>13. QuotaHolds'
  <2>1. used' <= used /\ UnitsOf(With("pending"))' <= UnitsOf(With("pending"))
        /\ UnitsOf(With("pending"))' \in Nat /\ UnitsOf(With("pending")) \in Nat
    BY <1>4, <1>5, <1>9, <1>10, <1>11
  <2> QED
    BY <1>2, <1>9, <1>11, <2>1 DEF QuotaHolds, CalmInv
<1> QED
  BY <1>8, <1>12, <1>13 DEF CalmInv

LEMMA ApplyStaysCalm ==
    ASSUME LeaveInv, CalmInv, NEW h \in Handlers, ApplyDecision(h)
    PROVE  CalmInv'
<1>1. PICK l \in Leaves, o \in Outcome : l = handler[h].leave /\ o = EffectiveOutcome(h)
  BY HandlerTypes, OutcomesAreFinal DEF LeaveInv, ApplyDecision
<1>2. /\ handler[h].pc = "apply" /\ GotoPc(h, "mark")
      /\ leave[l].status = "pending"
      /\ leave' = [leave EXCEPT ![l].status = o]
      /\ used' = IF o = "approved" THEN used + handler[h].seen.units ELSE used
      /\ total' = total /\ call' = call /\ subscriber' = subscriber
  BY <1>1 DEF ApplyDecision, Applicable, deliveryVars
<1>3. PICK v : v = [leave[l] EXCEPT !.status = o]
  OBVIOUS
<1>4. leave[l] \in Leave /\ leave[l].units \in Nat
  BY LeaveTypes, UnitsAreNat DEF LeaveInv
<1>5. v \in Leave /\ v.status = o /\ v.units = leave[l].units
  BY <1>3, <1>4 DEF Leave, Status, Outcome
<1>6. leave' = [leave EXCEPT ![l] = v]
  BY <1>2, <1>3
<1>7. handler[h].seen = leave[l]
  BY <1>1, <1>2 DEF CalmInv, SeenIsCurrent
<1>8. SeenIsCurrent' /\ \A m \in Leaves : Alone(m)'
  <2>1. handler'[h].pc = "mark" /\ \A g \in Handlers \ {h} : handler'[g] = handler[g]
    BY <1>2 DEF GotoPc, LeaveInv, TypeOK, Handler
  <2>2. \A m \in Leaves \ {l} : leave'[m] = leave[m]
    BY <1>6 DEF LeaveInv, TypeOK
  <2>3. \A c \in Calls : ~(call'[c].pc # "idle" /\ call'[c].leave = l)
    BY <1>1, <1>2 DEF CalmInv, Alone
  <2>4. \A g \in Handlers : ~(handler'[g].pc = "apply" /\ handler'[g].leave = l)
    BY <1>1, <1>2, <2>1 DEF CalmInv, Alone
  <2>5. \A g \in Handlers : handler'[g] = handler[g] \/ handler'[g].pc # "apply"
    BY <2>1
  <2>6. \A t \in Terminations : l \notin subscriber'[t]
    BY <1>1, <1>2 DEF CalmInv, Alone
  <2> QED
    BY <1>2, <2>2, <2>3, <2>4, <2>5, <2>6, ReadersStay DEF LeaveInv, CalmInv
<1>9. used \in Nat /\ total \in Nat /\ used = UnitsOf(With("approved"))
  BY LeavesAssumption DEF LeaveInv, TypeOK, CalmInv, BalanceMatchesApprovals
<1>10. PICK a, p \in Nat :
              /\ p = UnitsOf(With("pending") \ {l})
              /\ UnitsOf(With("approved")) = a + (IF leave[l].status = "approved" THEN leave[l].units ELSE 0)
              /\ UnitsOf(With("approved"))' = a + (IF v.status = "approved" THEN v.units ELSE 0)
              /\ UnitsOf(With("pending")) = p + (IF leave[l].status = "pending" THEN leave[l].units ELSE 0)
              /\ UnitsOf(With("pending"))' = p + (IF v.status = "pending" THEN v.units ELSE 0)
  BY <1>5, <1>6, SumsOfTwo DEF LeaveInv
<1>11. used = a
  BY <1>2, <1>9, <1>10
<1>12. used' = a + (IF o = "approved" THEN leave[l].units ELSE 0)
  BY <1>2, <1>4, <1>7, <1>11
<1>13. BalanceMatchesApprovals'
  BY <1>5, <1>10, <1>12 DEF BalanceMatchesApprovals
<1>14. QuotaHolds'
  <2>1. UnitsOf(With("pending")) = p + leave[l].units
    BY <1>2, <1>10
  <2>2. UnitsOf(With("pending"))' = p
    BY <1>5, <1>10 DEF Outcome
  <2>3. used' + UnitsOf(With("pending"))' <= used + UnitsOf(With("pending"))
    BY <1>4, <1>11, <1>12, <2>1, <2>2
  <2> QED
    BY <1>2, <1>4, <1>9, <1>11, <1>12, <2>1, <2>2, <2>3 DEF QuotaHolds, CalmInv
<1> QED
  BY <1>8, <1>13, <1>14 DEF CalmInv

\* A termination cancels a leave it is alone with: it is pending still, so
\* nothing was consumed for it.
LEMMA TerminationStaysCalm ==
    ASSUME LeaveInv, CalmInv, NEW t \in Terminations, NEW l \in Leaves, CancelPending(t, l)
    PROVE  CalmInv'
<1>1. /\ l \in subscriber[t]
      /\ leave' = [leave EXCEPT ![l].status = "cancelled"]
      /\ subscriber' = [subscriber EXCEPT ![t] = @ \ {l}]
      /\ UNCHANGED <<used, total, handler, call>>
  BY DEF CancelPending
<1>2. leave[l].status = "pending"
  BY <1>1 DEF CalmInv, SeenIsCurrent
<1>3. PICK v : v = [leave[l] EXCEPT !.status = "cancelled"]
  OBVIOUS
<1>4. leave[l] \in Leave /\ leave[l].units \in Nat
  BY LeaveTypes, UnitsAreNat DEF LeaveInv
<1>5. v \in Leave /\ v.status = "cancelled"
  BY <1>3, <1>4 DEF Leave, Status
<1>6. leave' = [leave EXCEPT ![l] = v]
  BY <1>1, <1>3
<1>7. SeenIsCurrent' /\ \A m \in Leaves : Alone(m)'
  <2>1. /\ subscriber'[t] = subscriber[t] \ {l}
        /\ \A u \in Terminations \ {t} : subscriber'[u] = subscriber[u]
    BY <1>1 DEF LeaveInv, TypeOK
  <2>2. \A m \in Leaves \ {l} : leave'[m] = leave[m]
    BY <1>6 DEF LeaveInv, TypeOK
  <2>3. /\ \A c \in Calls : ~(call[c].pc # "idle" /\ call[c].leave = l)
        /\ \A h \in Handlers : ~(handler[h].pc = "apply" /\ handler[h].leave = l)
        /\ \A u \in Terminations : l \in subscriber[u] => u = t
    BY <1>1 DEF CalmInv, Alone
  <2>4. \A u \in Terminations : l \notin subscriber'[u]
    BY <2>1, <2>3
  <2>5. \A u \in Terminations : subscriber'[u] \subseteq subscriber[u]
    BY <2>1
  <2> QED
    BY <1>1, <2>2, <2>3, <2>4, <2>5, ReadersStay DEF LeaveInv, CalmInv
<1>8. used \in Nat /\ total \in Nat /\ used = UnitsOf(With("approved"))
  BY LeavesAssumption DEF LeaveInv, TypeOK, CalmInv, BalanceMatchesApprovals
<1>9. PICK a, p \in Nat :
              /\ p = UnitsOf(With("pending") \ {l})
              /\ UnitsOf(With("approved")) = a + (IF leave[l].status = "approved" THEN leave[l].units ELSE 0)
              /\ UnitsOf(With("approved"))' = a + (IF v.status = "approved" THEN v.units ELSE 0)
              /\ UnitsOf(With("pending")) = p + (IF leave[l].status = "pending" THEN leave[l].units ELSE 0)
              /\ UnitsOf(With("pending"))' = p + (IF v.status = "pending" THEN v.units ELSE 0)
  BY <1>5, <1>6, SumsOfTwo DEF LeaveInv
<1>10. BalanceMatchesApprovals'
  BY <1>1, <1>2, <1>5, <1>8, <1>9 DEF BalanceMatchesApprovals
<1>11. QuotaHolds'
  <2>1. used' + UnitsOf(With("pending"))' <= used + UnitsOf(With("pending"))
    BY <1>1, <1>2, <1>4, <1>5, <1>8, <1>9
  <2>2. UnitsOf(With("pending")) \in Nat /\ UnitsOf(With("pending"))' \in Nat
    BY <1>2, <1>4, <1>5, <1>9
  <2> QED
    BY <1>1, <1>8, <2>1, <2>2 DEF QuotaHolds, CalmInv
<1> QED
  BY <1>7, <1>10, <1>11 DEF CalmInv

-----------------------------------------------------------------------------
(***************************************************************************)
(* All other steps.                                                        *)
(***************************************************************************)

LEMMA CallEndsCalm ==
    ASSUME LeaveInv, CalmInv, NEW c \in Calls, Refuse(c)
    PROVE  CalmInv'
<1>1. \A d \in Calls : call'[d] = call[d] \/ call'[d].pc = "idle"
  BY EndCallMoves DEF LeaveInv, Refuse
<1>2. UNCHANGED <<leave, used, total, handler, subscriber>>
  BY DEF Refuse, leaveVars, deliveryVars
<1> QED
  BY <1>1, <1>2, QuietStaysCalm DEF LeaveInv

LEMMA EngineStaysCalm ==
    ASSUME LeaveInv, CalmInv, NEW r \in Requests, Decide(r)
    PROVE  CalmInv'
BY QuietStaysCalm DEF LeaveInv, Decide, leaveVars, deliveryVars

LEMMA BalanceStaysCalm ==
    ASSUME LeaveInv, CalmInv, AdjustBalance
    PROVE  CalmInv'
<1>1. SeenIsCurrent' /\ \A l \in Leaves : Alone(l)'
  BY DEF AdjustBalance, leaveVars, deliveryVars, CalmInv, SeenIsCurrent, Alone
<1>2. BalanceMatchesApprovals'
  BY DEF AdjustBalance, leaveVars, CalmInv, BalanceMatchesApprovals, UnitsOf, DaysOf, With
<1>3. Totals # {total'}
  BY DEF AdjustBalance, LeaveInv, TypeOK
<1> QED
  BY <1>1, <1>2, <1>3 DEF CalmInv, QuotaHolds

\* A handler's statement that does not write the leave.
LEMMA StatementStaysCalm ==
    ASSUME LeaveInv, CalmInv, NEW h \in Handlers, UNCHANGED <<leave, used, total, call, subscriber>>,
           NEW v, handler' = [handler EXCEPT ![h] = v], v.pc # "apply"
    PROVE  CalmInv'
<1>1. \A g \in Handlers : handler'[g] = handler[g] \/ handler'[g].pc # "apply"
  BY DEF LeaveInv, TypeOK
<1> QED
  BY <1>1, QuietStaysCalm DEF LeaveInv

LEMMA GotoStaysCalm ==
    ASSUME LeaveInv, CalmInv, NEW h \in Handlers, UNCHANGED <<leave, used, total, call, subscriber>>,
           NEW pc \in {"mark", "lookup", "insert", "linkCancelled", "read"}, GotoPc(h, pc)
    PROVE  CalmInv'
<1>1. handler'[h].pc = pc /\ \A g \in Handlers \ {h} : handler'[g] = handler[g]
  BY DEF GotoPc, LeaveInv, TypeOK, Handler
<1>2. \A g \in Handlers : handler'[g] = handler[g] \/ handler'[g].pc # "apply"
  BY <1>1
<1> QED
  BY <1>2, QuietStaysCalm DEF LeaveInv

LEMMA RequestStaysCalm ==
    ASSUME LeaveInv, CalmInv, NEW h \in Handlers, UNCHANGED <<leave, used, total, call, subscriber>>,
           NEW pc \in {"createLink", "cancel"}, NEW r \in Requests,
           handler' = [handler EXCEPT ![h].pc = pc, ![h].request = r]
    PROVE  CalmInv'
<1>1. handler'[h].pc = pc /\ \A g \in Handlers \ {h} : handler'[g] = handler[g]
  BY DEF LeaveInv, TypeOK, Handler
<1>2. \A g \in Handlers : handler'[g] = handler[g] \/ handler'[g].pc # "apply"
  BY <1>1
<1> QED
  BY <1>2, QuietStaysCalm DEF LeaveInv

LEMMA IdleStaysCalm ==
    ASSUME LeaveInv, CalmInv, NEW h \in Handlers, UNCHANGED <<leave, used, total, call, subscriber>>,
           handler' = [handler EXCEPT ![h] = IdleHandler]
    PROVE  CalmInv'
<1>1. PICK v : v = IdleHandler
  OBVIOUS
<1>2. v.pc # "apply"
  BY <1>1 DEF IdleHandler
<1> QED
  BY <1>1, <1>2, StatementStaysCalm

LEMMA HandlerStaysCalm ==
    ASSUME ~LateWrites, LeaveInv, CalmInv, NEW h \in Handlers, HandlerStep(h)
    PROVE  CalmInv'
<1> USE DEF leaveVars, deliveryVars
<1>1. CASE RequestedFindsLink(h)
  BY <1>1, GotoStaysCalm DEF RequestedFindsLink
<1>2. CASE LookUpSubject(h)
  <2>1. UNCHANGED <<leave, used, total, call, subscriber>>
    BY <1>2 DEF LookUpSubject
  <2>2. CASE GotoPc(h, "insert")
    BY <2>1, <2>2, GotoStaysCalm
  <2>3. ASSUME NEW r \in Requests, handler' = [handler EXCEPT ![h].pc = "createLink", ![h].request = r]
        PROVE CalmInv'
    BY <2>1, <2>3, RequestStaysCalm
  <2> QED
    BY <1>2, <2>2, <2>3 DEF LookUpSubject, RequestsFor
<1>3. CASE InsertRequest(h)
  BY <1>3, RequestStaysCalm DEF InsertRequest
<1>4. CASE CreateLink(h)
  BY <1>4, GotoStaysCalm DEF CreateLink
<1>5. CASE CancelledFindsLink(h)
  <2>1. UNCHANGED <<leave, used, total, call, subscriber>>
    BY <1>5 DEF CancelledFindsLink
  <2>2. CASE Return(h)
    BY <2>1, <2>2, IdleStaysCalm DEF Return
  <2>3. ASSUME NEW k \in link, handler' = [handler EXCEPT ![h].pc = "cancel", ![h].request = k.request]
        PROVE CalmInv'
    <3>1. k.request \in Requests
      BY DEF LeaveInv, TypeOK, Link
    <3> QED
      BY <2>1, <2>3, <3>1, RequestStaysCalm
  <2> QED
    BY <1>5, <2>2, <2>3 DEF CancelledFindsLink, LinksOf
<1>6. CASE CancelApproval(h)
  BY <1>6, GotoStaysCalm DEF CancelApproval
<1>7. CASE LinkCancelled(h)
  BY <1>7, GotoStaysCalm DEF LinkCancelled
<1>8. CASE CompletedFindsLink(h)
  <2>1. UNCHANGED <<leave, used, total, call, subscriber>>
    BY <1>8 DEF CompletedFindsLink
  <2>2. Return(h) \/ GotoPc(h, "read")
    BY <1>8 DEF CompletedFindsLink
  <2> QED
    BY <2>1, <2>2, IdleStaysCalm, GotoStaysCalm DEF Return
<1>9. CASE IgnoreDecision(h)
  BY <1>9, GotoStaysCalm DEF IgnoreDecision
<1>10. CASE MarkProcessed(h)
  BY <1>10, IdleStaysCalm DEF MarkProcessed, Return
<1>11. CASE Throw(h)
  BY <1>11, IdleStaysCalm DEF Throw, Abort
<1> QED
  BY <1>1, <1>2, <1>3, <1>4, <1>5, <1>6, <1>7, <1>8, <1>9, <1>10, <1>11, ReadStaysCalm,
     ApplyStaysCalm DEF HandlerStep

LEMMA DeliveriesStayCalm ==
    ASSUME LeaveInv, CalmInv, NEW h \in Handlers,
           Fail(h) \/ \E e \in Staged : Deliver(h, e)
    PROVE  CalmInv'
<1>1. CASE Fail(h)
  BY <1>1, IdleStaysCalm DEF Fail, Abort, leaveVars, deliveryVars
<1>2. ASSUME NEW e \in Staged, Deliver(h, e) PROVE CalmInv'
  <2>1. UNCHANGED <<leave, used, total, call, subscriber>>
    BY <1>2 DEF Deliver, leaveVars, deliveryVars
  <2>2. PICK v : v = [IdleHandler EXCEPT !.pc = "link", !.event = e, !.leave = EventLeave(e)]
    OBVIOUS
  <2>3. v.pc = "link"
    BY <2>2 DEF IdleHandler
  <2>4. handler' = [handler EXCEPT ![h] = v]
    BY <1>2, <2>2 DEF Deliver
  <2> QED
    BY <2>1, <2>3, <2>4, StatementStaysCalm
<1> QED
  BY <1>1, <1>2

\* A termination reads what nobody else has read, or gives up.
LEMMA ReadPendingStaysCalm ==
    ASSUME ~LateWrites, LeaveInv, CalmInv, NEW t \in Terminations, ReadPending(t)
    PROVE  CalmInv'
<1>1. /\ subscriber'[t] = With("pending")
      /\ \A u \in Terminations \ {t} : subscriber'[u] = subscriber[u]
      /\ UNCHANGED <<leave, used, total, handler, call>>
  BY DEF ReadPending, LeaveInv, TypeOK, leaveVars
<1>2. \A l \in With("pending") :
         /\ l \in Leaves /\ leave[l].status = "pending"
         /\ \A c \in Calls : ~(call[c].pc # "idle" /\ call[c].leave = l)
         /\ \A h \in Handlers : ~(handler[h].pc = "apply" /\ handler[h].leave = l)
         /\ \A u \in Terminations : l \notin subscriber[u]
  BY DEF ReadPending, Undisturbed, With
<1>3. SeenIsCurrent'
  <2>1. \A u \in Terminations : \A l \in subscriber'[u] : leave'[l].status = "pending"
    BY <1>1, <1>2 DEF CalmInv, SeenIsCurrent
  <2> QED
    BY <1>1, <2>1 DEF CalmInv, SeenIsCurrent
<1>4. ASSUME NEW l \in Leaves PROVE Alone(l)'
  <2>1. Alone(l)
    BY DEF CalmInv
  <2>2. CASE l \in With("pending")
    BY <1>1, <1>2, <2>1, <2>2 DEF Alone
  <2>3. CASE l \notin With("pending")
    <3>1. \A u \in Terminations : l \in subscriber'[u] => l \in subscriber[u]
      BY <1>1, <2>3
    <3> QED
      BY <1>1, <2>1, <3>1 DEF Alone
  <2> QED
    BY <2>2, <2>3
<1> QED
  BY <1>1, <1>3, <1>4, SumsStay DEF CalmInv

LEMMA TerminationsStayCalm ==
    ASSUME ~LateWrites, LeaveInv, CalmInv, NEW t \in Terminations, SubscriberStep(t)
    PROVE  CalmInv'
<1>1. CASE AbandonTermination(t)
  <2>1. UNCHANGED <<leave, used, total, handler, call>>
        /\ \A u \in Terminations : subscriber'[u] \subseteq subscriber[u]
    BY <1>1 DEF AbandonTermination, LeaveInv, TypeOK, leaveVars
  <2> QED
    BY <2>1, QuietStaysCalm DEF LeaveInv
<1> QED
  BY <1>1, ReadPendingStaysCalm, TerminationStaysCalm DEF SubscriberStep

LEMMA CalmStep ==
    ASSUME ~LateWrites
    PROVE  LeaveInv /\ CalmInv /\ [Next]_vars => CalmInv'
<1> SUFFICES ASSUME LeaveInv, CalmInv, [Next]_vars PROVE CalmInv'
  OBVIOUS
<1>1. ASSUME NEW c \in Calls, CallStep(c) PROVE CalmInv'
  BY <1>1, BeginsStayCalm, InsertStaysCalm, UpdateStaysCalm, CancelStaysCalm, CallEndsCalm
     DEF CallStep
<1>2. ASSUME UNCHANGED vars PROVE CalmInv'
  BY <1>2, QuietStaysCalm DEF LeaveInv, vars, leaveVars, deliveryVars
<1> QED
  BY <1>1, <1>2, BalanceStaysCalm, EngineStaysCalm, HandlerStaysCalm, DeliveriesStayCalm,
     TerminationsStayCalm DEF Next

LEMMA CalmInit == Init => CalmInv
<1> SUFFICES ASSUME Init PROVE CalmInv
  OBVIOUS
<1>1. SeenIsCurrent /\ \A l \in Leaves : Alone(l)
  BY DEF Init, SeenIsCurrent, Alone, IdleCall, IdleHandler
<1>2. With("approved") = {} /\ With("pending") = {}
  BY DEF Init, With, NoLeave
<1>3. UnitsOf({}) = 0
  BY FS_EmptySet DEF UnitsOf, DaysOf
<1>4. total \in Nat /\ used = 0
  BY LeavesAssumption DEF Init
<1> QED
  BY <1>1, <1>2, <1>3, <1>4 DEF CalmInv, BalanceMatchesApprovals, QuotaHolds

\* When reads and writes of one leave do not overlap: the second inductive
\* invariant, which needs the first.
THEOREM CalmInvariant ==
    ASSUME ~LateWrites
    PROVE  Spec => []CalmInv
BY CalmInit, CalmStep, LeaveInvariant, PTL DEF Spec

\* BalanceMatchesApprovals: used_amount is what the approved leaves add up to,
\* after any number of approvals, cancellations, redeliveries and crashes.
THEOREM BalanceIsTheApprovals ==
    ASSUME ~LateWrites
    PROVE  Spec => []BalanceMatchesApprovals
BY CalmInvariant, PTL DEF CalmInv

\* QuotaHolds: what is used and what pending requests ask for fit the balance.
THEOREM QuotaIsKept ==
    ASSUME ~LateWrites
    PROVE  Spec => []QuotaHolds
BY CalmInvariant, PTL DEF CalmInv

\* OnlyPendingIsUpdated: the days of a leave do not change after its decision.
THEOREM UpdatesArePending ==
    ASSUME ~LateWrites
    PROVE  Spec => OnlyPendingIsUpdated
<1> DEFINE Updates == \A l \in Leaves :
              leave'[l].units # leave[l].units => leave[l].status \in {"none", "pending"}
<1>1. ASSUME LeaveInv, CalmInv, [Next]_vars PROVE [Updates]_vars
  <2>1. ASSUME NEW l \in Leaves, leave' = leave PROVE leave'[l].units = leave[l].units
    BY <2>1
  <2>2. ASSUME NEW c \in Calls, CallStep(c) PROVE Updates
    <3>1. PICK m \in Leaves : m = call[c].leave
      BY <1>1, CallTypes DEF LeaveInv
    <3>2. CASE InsertLeave(c)
      <4>1. leave[m].status = "none"
        BY <1>1, <3>1, <3>2 DEF LeaveInv, CallSound, InsertLeave
      <4>2. \A l \in Leaves \ {m} : leave'[l] = leave[l]
        BY <1>1, <3>1, <3>2 DEF LeaveInv, TypeOK, InsertLeave
      <4> QED
        BY <4>1, <4>2
    <3>3. CASE UpdateLeave(c)
      <4>1. call[c].seen.status = "pending" /\ call[c].seen = leave[m]
        BY <1>1, <3>1, <3>3 DEF LeaveInv, CallSound, CalmInv, SeenIsCurrent, UpdateLeave
      <4>2. \A l \in Leaves \ {m} : leave'[l] = leave[l]
        BY <1>1, <3>1, <3>3 DEF LeaveInv, TypeOK, UpdateLeave
      <4> QED
        BY <4>1, <4>2
    <3>4. CASE CancelLeave(c)
      BY <1>1, <3>4 DEF LeaveInv, TypeOK, Leave, CancelLeave
    <3>5. CASE leave' = leave
      BY <2>1, <3>5
    <3> QED
      BY <2>2, <3>2, <3>3, <3>4, <3>5 DEF CallStep, BeginCreate, BeginUpdate, BeginCancel,
         BeginCall, Refuse, leaveVars
  <2>3. ASSUME NEW h \in Handlers, HandlerStep(h) PROVE Updates
    <3>1. CASE ApplyDecision(h)
      BY <1>1, <3>1 DEF LeaveInv, TypeOK, Leave, ApplyDecision
    <3>2. CASE leave' = leave
      BY <2>1, <3>2
    <3> QED
      BY <2>3, <3>1, <3>2 DEF HandlerStep, RequestedFindsLink, LookUpSubject, InsertRequest,
         CreateLink, CancelledFindsLink, CancelApproval, LinkCancelled, CompletedFindsLink,
         ReadLeave, IgnoreDecision, MarkProcessed, Throw, Abort, leaveVars
  <2>4. ASSUME AdjustBalance \/ (\E r \in Requests : Decide(r))
               \/ (\E h \in Handlers : Fail(h) \/ \E e \in Staged : Deliver(h, e))
        PROVE  Updates
    <3>1. leave' = leave
      BY <2>4 DEF AdjustBalance, Decide, Fail, Abort, Deliver, leaveVars
    <3> QED
      BY <2>1, <3>1
  <2>5. ASSUME NEW t \in Terminations, SubscriberStep(t) PROVE Updates
    <3>1. CASE \E l \in Leaves : CancelPending(t, l)
      BY <1>1, <3>1 DEF LeaveInv, TypeOK, Leave, CancelPending
    <3>2. CASE leave' = leave
      BY <2>1, <3>2
    <3> QED
      BY <2>5, <3>1, <3>2 DEF SubscriberStep, ReadPending, AbandonTermination, leaveVars
  <2> QED
    BY <1>1, <2>2, <2>3, <2>4, <2>5 DEF Next
<1> QED
  BY <1>1, LeaveInvariant, CalmInvariant, PTL DEF Spec, OnlyPendingIsUpdated
-----------------------------------------------------------------------------
(***************************************************************************)
(* The engine, as the integration uses it.                                 *)
(***************************************************************************)

\* The listeners go through what ApprovalDecision allows: whatever handlers
\* are repeated, fail or are overtaken, the requests they create and cancel go
\* the way the engine promises, completed once and final after that.
THEOREM LeaveKeepsEngineContract == Spec => DecisionSpec
<1>1. Init => DecisionInit
  BY DEF Init
<1>2. LeaveInv /\ [Next]_vars => [DecisionNext]_decisionVars
  <2> SUFFICES ASSUME LeaveInv, [Next]_vars PROVE [DecisionNext]_decisionVars
    OBVIOUS
  <2>1. CASE UNCHANGED vars
    BY <2>1 DEF vars
  <2>2. ASSUME NEW c \in Calls, CallStep(c) PROVE UNCHANGED decisionVars
    BY <2>2 DEF CallStep, BeginCreate, BeginUpdate, BeginCancel, BeginCall, InsertLeave,
       UpdateLeave, CancelLeave, Refuse
  <2>3. CASE AdjustBalance
    BY <2>3 DEF AdjustBalance
  <2>4. ASSUME NEW r \in Requests, Decide(r) PROVE DecisionNext
    BY <2>4 DEF Decide, DecisionNext
  <2>5. ASSUME NEW h \in Handlers, HandlerStep(h) PROVE [DecisionNext]_decisionVars
    <3>1. CASE InsertRequest(h)
      BY <3>1 DEF InsertRequest, DecisionNext
    <3>2. CASE CancelApproval(h)
      <4>1. handler[h].request \in Requests
        BY HandlerTypes DEF LeaveInv
      <4> QED
        BY <3>2, <4>1 DEF CancelApproval, DecisionNext
    <3>3. CASE RequestedFindsLink(h) \/ LookUpSubject(h) \/ CreateLink(h)
      BY <3>3 DEF RequestedFindsLink, LookUpSubject, CreateLink
    <3>4. CASE CancelledFindsLink(h) \/ LinkCancelled(h) \/ CompletedFindsLink(h)
      BY <3>4 DEF CancelledFindsLink, LinkCancelled, CompletedFindsLink
    <3>5. CASE ReadLeave(h) \/ ApplyDecision(h) \/ IgnoreDecision(h)
      BY <3>5 DEF ReadLeave, ApplyDecision, IgnoreDecision
    <3>6. CASE MarkProcessed(h) \/ Throw(h)
      BY <3>6 DEF MarkProcessed, Throw, Abort
    <3> QED
      BY <2>5, <3>1, <3>2, <3>3, <3>4, <3>5, <3>6 DEF HandlerStep
  <2>6. ASSUME NEW h \in Handlers, NEW e \in Staged, Deliver(h, e)
        PROVE  UNCHANGED decisionVars
    BY <2>6 DEF Deliver
  <2>7. ASSUME NEW h \in Handlers, Fail(h) PROVE UNCHANGED decisionVars
    BY <2>7 DEF Fail, Abort
  <2>8. ASSUME NEW t \in Terminations, SubscriberStep(t) PROVE UNCHANGED decisionVars
    BY <2>8 DEF SubscriberStep, ReadPending, CancelPending, AbandonTermination
  <2> QED
    BY <2>1, <2>2, <2>3, <2>4, <2>5, <2>6, <2>7, <2>8 DEF Next
<1> QED
  BY <1>1, <1>2, LeaveInvariant, PTL DEF Spec, DecisionSpec
=============================================================================
