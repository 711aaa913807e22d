---------------------------- MODULE PayrollRuns ----------------------------
(***************************************************************************)
(* A payroll run from its draft to its posting: the use cases of           *)
(* modules/payroll (generate, request approval, approve, reject, post,     *)
(* update, enter a payslip by hand, publish a payslip), the approval       *)
(* engine (by the actions it promises, ApprovalDecision), and              *)
(* integration/payroll-approval, which asks the engine for a decision and  *)
(* applies it.                                                             *)
(*                                                                         *)
(* A use case that locks the run (SELECT ... FOR UPDATE, or a first UPDATE *)
(* guarded by the status) and repeats its checks under the lock is one     *)
(* step: what it reads before can only make it refuse.  Two do not:        *)
(* updating a run writes by id alone after a read, and publishing checks   *)
(* the run without a lock; they are two steps each.                        *)
(***************************************************************************)
EXTENDS ApprovalDecision, FiniteSets

CONSTANTS
    Runs,            \* payroll_runs, each as CreatePayrollRun leaves it
    Employees,       \* who may get a payslip
    Users,           \* who requests, decides, posts
    Periods,         \* payroll_periods a run may be in
    RunOf,           \* the run each approval request would be for
    MaxGenerations,  \* bound on calculations of one run
    MaxCycles        \* bound on requests for approval of one run

ASSUME RunOfAssumption == RunOf \in [Requests -> Runs]
ASSUME PayrollBoundsAssumption == {MaxGenerations, MaxCycles} \subseteq Nat

VARIABLES
    run,         \* payroll_runs
    history,     \* payroll_run_approval_history, oldest first
    payslip,     \* payslips, by run and employee
    snapshot,    \* the calculation whose inputs payroll_input_snapshots hold
    locked,      \* runs whose input snapshots are locked
    generated,   \* calculations of each run so far
    processed,   \* staged payroll.processed events
    asking,      \* those whose handler found no approval request to reuse
    requester,   \* requestedByUserId of each approval request
    decider,     \* decidedByUserId of its completed event
    applied,     \* completed events the listener has marked processed
    updating,    \* runs a running update has read as a draft
    publishing,  \* payslips a running publication has found publishable
    payouts      \* payslip.published events staged for each payslip

figureVars == <<payslip, snapshot, locked, generated>>
askVars == <<processed, asking, requester>>
callVars == <<updating, publishing, payouts>>
payrollVars == <<run, history, figureVars, askVars, decider, applied, callVars, decisionVars>>

NoUser == "nobody"
ByHand == 0     \* the source of a payslip that was entered, not calculated
Final == {"approved", "posted"}

Run == [status : {"draft", "pending_approval"} \cup Final, period : Periods,
        approvedBy : Users \cup {NoUser}, postedBy : Users \cup {NoUser},
        hash : 0 .. MaxGenerations]
Entry == [action : {"REQUESTED", "APPROVED", "REJECTED", "POSTED"}, user : Users]
Payslip == [status : {"none", "draft", "published"}, confirmed : BOOLEAN,
            source : 0 .. MaxGenerations]
NoPayslip == [status |-> "none", confirmed |-> FALSE, source |-> ByHand]
Provisional(source) == [status |-> "draft", confirmed |-> FALSE, source |-> source]

PayrollTypeOK ==
    /\ run \in [Runs -> Run]
    /\ history \in [Runs -> Seq(Entry)]
    /\ payslip \in [Runs -> [Employees -> Payslip]]
    /\ snapshot \in [Runs -> [Employees -> 0 .. MaxGenerations]]
    /\ locked \subseteq Runs
    /\ generated \in [Runs -> 0 .. MaxGenerations]
    /\ asking \subseteq processed
    /\ processed \subseteq [run : Runs, user : Users, number : 1 .. MaxGenerations]
    /\ requester \in [Requests -> Users \cup {NoUser}]
    /\ decider \in [Requests -> Users \cup {NoUser}]
    /\ applied \subseteq Requests
    /\ updating \subseteq Runs
    /\ publishing \subseteq Runs \X Employees
    /\ payouts \in [Runs -> [Employees -> Nat]]

PayrollInit ==
    /\ DecisionInit
    /\ \E p \in [Runs -> Periods] :
         run = [r \in Runs |-> [status |-> "draft", period |-> p[r], hash |-> 0,
                                approvedBy |-> NoUser, postedBy |-> NoUser]]
    /\ history = [r \in Runs |-> <<>>]
    /\ payslip = [r \in Runs |-> [e \in Employees |-> NoPayslip]]
    /\ snapshot = [r \in Runs |-> [e \in Employees |-> 0]]
    /\ locked = {}
    /\ generated = [r \in Runs |-> 0]
    /\ processed = {} /\ asking = {}
    /\ requester = [q \in Requests |-> NoUser]
    /\ decider = [q \in Requests |-> NoUser]
    /\ applied = {}
    /\ updating = {} /\ publishing = {}
    /\ payouts = [r \in Runs |-> [e \in Employees |-> 0]]

-----------------------------------------------------------------------------
(***************************************************************************)
(* The approval history and what is read from it.                          *)
(***************************************************************************)

\* The entries after the last rejection.
CurrentCycle(h) ==
    {i \in 1 .. Len(h) : \A j \in i .. Len(h) : h[j].action # "REJECTED"}

Requesters(h) ==
    {h[i].user : i \in {j \in CurrentCycle(h) : h[j].action = "REQUESTED"}}

Approvers(h) ==
    {h[i].user : i \in {j \in CurrentCycle(h) : h[j].action = "APPROVED"}}

\* A cycle starts with a request.
WellFormed(h) ==
    /\ CurrentCycle(h) # {}
    /\ \E i \in CurrentCycle(h) :
          /\ \A j \in CurrentCycle(h) : i <= j
          /\ h[i].action = "REQUESTED"

\* assertValidApprovalCycleForApprove
MayApprove(h, u) ==
    /\ WellFormed(h)
    /\ h[Len(h)].action = "REQUESTED"
    /\ u \notin Requesters(h)

\* assertValidApprovalCycleForPost
MayPost(r, u) ==
    LET h == history[r] IN
    /\ WellFormed(h)
    /\ u \notin Requesters(h)
    /\ run[r].approvedBy \notin Requesters(h)
    /\ Approvers(h) \cap Requesters(h) = {}

Record(r, action, u) ==
    history' = [history EXCEPT ![r] = Append(@, [action |-> action, user |-> u])]

RequestsMade(r) == Cardinality({i \in DOMAIN history[r] : history[r][i].action = "REQUESTED"})

Confirmed(p) == p.confirmed

\* assertPayrollRunNotProvisional: there are payslips and every one is confirmed.
NotProvisional(r) ==
    LET issued == {e \in Employees : payslip[r][e].status # "none"}
    IN  issued # {} /\ \A e \in issued : Confirmed(payslip[r][e])

-----------------------------------------------------------------------------
(***************************************************************************)
(* Figures.                                                                *)
(***************************************************************************)

Recalculated_KeepsOthers(r, paid, n) ==
    [e \in Employees |-> IF e \in paid THEN Provisional(n) ELSE payslip[r][e]]

\* Payslips of earlier calculations and by hand are deleted first.
Recalculated(r, paid, n) ==
    [e \in Employees |-> IF e \in paid THEN Provisional(n) ELSE NoPayslip]

\* GeneratePayrollRunUseCase: the transaction takes a draft to processing, and
\* from there to pending_approval in its last statements.  Whoever has a salary
\* gets a provisional payslip.  Without an active calculation version the run
\* keeps the version and hash it has.
Generate(r, u) ==
    LET n == generated[r] + 1 IN
    /\ run[r].status = "draft"
    /\ r \notin locked
    /\ n <= MaxGenerations /\ RequestsMade(r) < MaxCycles
    /\ generated' = [generated EXCEPT ![r] = n]
    /\ \E paid \in SUBSET Employees :
          /\ payslip' = [payslip EXCEPT ![r] = Recalculated(r, paid, n)]
          /\ snapshot' = [snapshot EXCEPT ![r] =
                            [e \in Employees |-> IF e \in paid THEN n ELSE 0]]
    /\ \E hash \in {run[r].hash, n} :
          run' = [run EXCEPT ![r].status = "pending_approval", ![r].hash = hash]
    /\ Record(r, "REQUESTED", u)
    /\ processed' = processed \cup {[run |-> r, user |-> u, number |-> n]}
    /\ UNCHANGED <<locked, asking, requester, decider, applied, callVars, decisionVars>>

EnterPayslip_AnyRun(r, e) ==
    /\ payslip[r][e].status \in {"none", "draft"}
    /\ payslip' = [payslip EXCEPT ![r][e] = Provisional(ByHand)]
    /\ UNCHANGED <<run, history, snapshot, locked, generated, askVars, decider, applied,
                   callVars, decisionVars>>

\* upsertByEmployeeId, by UpsertPayrollUseCase and CalculateFinalSettlement: the
\* payslip is written, or written over, as a provisional one.
EnterPayslip(r, e) ==
    /\ run[r].status = "draft"
    /\ payslip[r][e].status \in {"none", "draft"}
    /\ payslip' = [payslip EXCEPT ![r][e] = Provisional(ByHand)]
    /\ UNCHANGED <<run, history, snapshot, locked, generated, askVars, decider, applied,
                   callVars, decisionVars>>

\* HR or Finance complete a draft payslip; no code does.
ConfirmPayslip(r, e) ==
    /\ payslip[r][e].status = "draft" /\ ~payslip[r][e].confirmed
    /\ payslip' = [payslip EXCEPT ![r][e].confirmed = TRUE]
    /\ UNCHANGED <<run, history, snapshot, locked, generated, askVars, decider, applied,
                   callVars, decisionVars>>

\* UpdatePayrollRunUseCase reads a draft ...
BeginUpdate(r) ==
    /\ run[r].status = "draft"
    /\ updating' = updating \cup {r}
    /\ UNCHANGED <<run, history, figureVars, askVars, decider, applied, publishing, payouts,
                   decisionVars>>

\* ... and writes it by id alone, its status excepted.  (Another update of the
\* run that has read it too may still be running.)
UpdateRun(r) ==
    /\ r \in updating
    /\ \E p \in Periods : run' = [run EXCEPT ![r].period = p]
    /\ updating' \in {updating, updating \ {r}}
    /\ UNCHANGED <<history, figureVars, askVars, decider, applied, publishing, payouts,
                   decisionVars>>

-----------------------------------------------------------------------------
(***************************************************************************)
(* Requests, decisions and posting through the API.                        *)
(***************************************************************************)

\* RequestPayrollApprovalUseCase; it stages no event.
RequestApproval(r, u) ==
    /\ run[r].status = "draft"
    /\ RequestsMade(r) < MaxCycles
    /\ run' = [run EXCEPT ![r].status = "pending_approval"]
    /\ Record(r, "REQUESTED", u)
    /\ UNCHANGED <<figureVars, askVars, decider, applied, callVars, decisionVars>>

Approve(r, u) ==
    /\ run[r].status = "pending_approval"
    /\ run' = [run EXCEPT ![r].status = "approved", ![r].approvedBy = u]
    /\ Record(r, "APPROVED", u)

SendBack(r, u) ==
    /\ run[r].status = "pending_approval"
    /\ run' = [run EXCEPT ![r].status = "draft", ![r].approvedBy = NoUser]
    /\ Record(r, "REJECTED", u)

\* ApprovePayrollRunUseCase
ApproveRun(r, u) ==
    /\ MayApprove(history[r], u) /\ NotProvisional(r)
    /\ Approve(r, u)
    /\ UNCHANGED <<figureVars, askVars, decider, applied, callVars, decisionVars>>

\* RejectPayrollRunUseCase; the engine is not told.
RejectRun(r, u) ==
    /\ SendBack(r, u)
    /\ UNCHANGED <<figureVars, askVars, decider, applied, callVars, decisionVars>>

\* PostPayrollRunUseCase
PostRun(r, u) ==
    /\ run[r].status = "approved"
    /\ run[r].hash # 0
    /\ MayPost(r, u)
    /\ NotProvisional(r)
    /\ run' = [run EXCEPT ![r].status = "posted", ![r].postedBy = u]
    /\ locked' = locked \cup {r}
    /\ Record(r, "POSTED", u)
    /\ UNCHANGED <<payslip, snapshot, generated, askVars, decider, applied, callVars,
                   decisionVars>>

-----------------------------------------------------------------------------
(***************************************************************************)
(* The approval engine and its integration.                                *)
(***************************************************************************)

RequestsForRun(r) == {q \in Requests : RunOf[q] = r /\ status[q] # "none"}

\* payroll.processed: the engine reuses a request of the run whatever its
\* status, so only a handler that finds none goes on to insert one.
LookUpRequest(e) ==
    /\ e \in processed
    /\ RequestsForRun(e.run) = {}
    /\ asking' = asking \cup {e}
    /\ UNCHANGED <<run, history, figureVars, processed, requester, decider, applied, callVars,
                   decisionVars>>

\* (A second delivery that has not found one may still be about to insert.)
InsertApprovalRequest(e, q) ==
    /\ e \in asking
    /\ RunOf[q] = e.run
    /\ Create(q)
    /\ requester' = [requester EXCEPT ![q] = e.user]
    /\ asking' \in {asking, asking \ {e}}
    /\ UNCHANGED <<run, history, figureVars, processed, decider, applied, callVars>>

\* The engine refuses the requester as the decider; cancelling is theirs too.
Decide(q, u) ==
    /\ \/ u # requester[q] /\ (ApproveStep(q) \/ ApproveLastStep(q) \/ Reject(q))
       \/ Cancel(q)
    /\ decider' = [decider EXCEPT ![q] = u]
    /\ UNCHANGED <<run, history, figureVars, askVars, applied, callVars>>

FitsCycle_TrustsEngine(q) ==
    WellFormed(history[RunOf[q]]) /\ requester[q] # decider[q]

\* PayrollDecisionHandler.validateCycleAndSoD
FitsCycle(q) ==
    LET h == history[RunOf[q]] IN
    /\ MayApprove(h, decider[q])
    /\ requester[q] = h[Len(h)].user
    /\ requester[q] # decider[q]

\* What handleApproval and handleRejection do with a decision.
Applicable(q) ==
    IF status[q] = "approved"
      THEN /\ run[RunOf[q]].status = "pending_approval"
           /\ FitsCycle(q) /\ NotProvisional(RunOf[q])
      ELSE run[RunOf[q]].status = "pending_approval"

\* The listener's handler returns without an error whether or not the decision
\* applied; the event is delivered again unless the mark was written.
MarkApplied(q) ==
    /\ applied' \in {applied, applied \cup {q}}
    /\ UNCHANGED <<figureVars, askVars, decider, callVars, decisionVars>>

ApplyDecision(q) ==
    /\ announced[q] # <<>> /\ q \notin applied
    /\ Applicable(q)
    /\ IF status[q] = "approved"
         THEN Approve(RunOf[q], decider[q])
         ELSE SendBack(RunOf[q], decider[q])
    /\ MarkApplied(q)

IgnoreDecision(q) ==
    /\ announced[q] # <<>> /\ q \notin applied
    /\ ~Applicable(q)
    /\ UNCHANGED <<run, history>>
    /\ MarkApplied(q)

-----------------------------------------------------------------------------
(***************************************************************************)
(* Publishing payslips.                                                    *)
(***************************************************************************)

Publishable(r, e) ==
    /\ payslip[r][e].status = "draft"
    /\ Confirmed(payslip[r][e])
    /\ run[r].status \in Final

\* PublishPayslipUseCase: the checks, repeated in the transaction ...
BeginPublish(r, e) ==
    /\ Publishable(r, e)
    /\ publishing' = publishing \cup {<<r, e>>}
    /\ UNCHANGED <<run, history, figureVars, askVars, decider, applied, updating, payouts,
                   decisionVars>>

StillDraft_Unguarded(r, e) == TRUE

\* The WHERE of payslipsRepo.update.
StillDraft(r, e) == payslip[r][e].status = "draft"

\* ... and then the update, with the metadata that was read.
Publish(r, e) ==
    /\ <<r, e>> \in publishing
    /\ StillDraft(r, e)
    /\ payslip' = [payslip EXCEPT ![r][e] =
                    [@ EXCEPT !.status = "published", !.confirmed = TRUE]]
    /\ payouts' = [payouts EXCEPT ![r][e] = @ + 1]
    /\ publishing' \in {publishing, publishing \ {<<r, e>>}}
    /\ UNCHANGED <<run, history, snapshot, locked, generated, askVars, decider, applied,
                   updating, decisionVars>>

\* The row is not a draft any more, or the instance died.
EndCall ==
    /\ \/ /\ updating' \in {updating \ {r} : r \in updating}
          /\ UNCHANGED <<publishing, asking>>
       \/ /\ publishing' \in {publishing \ {p} : p \in publishing}
          /\ UNCHANGED <<updating, asking>>
       \/ /\ asking' \in {asking \ {e} : e \in asking}
          /\ UNCHANGED <<updating, publishing>>
    /\ UNCHANGED <<run, history, figureVars, processed, requester, decider, applied, payouts,
                   decisionVars>>

-----------------------------------------------------------------------------

PayrollNext ==
    \/ \E r \in Runs, u \in Users :
         \/ Generate(r, u) \/ RequestApproval(r, u)
         \/ ApproveRun(r, u) \/ RejectRun(r, u) \/ PostRun(r, u)
    \/ \E r \in Runs, e \in Employees :
         \/ EnterPayslip(r, e) \/ ConfirmPayslip(r, e)
         \/ BeginPublish(r, e) \/ Publish(r, e)
    \/ \E r \in Runs : BeginUpdate(r) \/ UpdateRun(r)
    \/ \E e \in processed : LookUpRequest(e)
    \/ \E e \in asking, q \in Requests : InsertApprovalRequest(e, q)
    \/ \E q \in Requests, u \in Users : Decide(q, u)
    \/ \E q \in Requests : ApplyDecision(q) \/ IgnoreDecision(q)
    \/ EndCall

PayrollSpec == PayrollInit /\ [][PayrollNext]_payrollVars

-----------------------------------------------------------------------------
(***************************************************************************)
(* Properties.                                                             *)
(***************************************************************************)

\* However a run came to be approved, through the API or by a decision of the
\* engine that may be late, repeated or of an earlier cycle, neither who
\* approved it nor who posted it requested the approval of its current cycle.
SegregationOfDuties ==
    \A r \in Runs : run[r].status \in Final =>
        /\ run[r].approvedBy \in Users \ Requesters(history[r])
        /\ run[r].status = "posted" => run[r].postedBy \in Users \ Requesters(history[r])

\* A posted run has its inputs locked, and they are the inputs of the very
\* calculation its payslips come from, those entered by hand excepted.
PostedIsTraceable ==
    \A r \in Runs : run[r].status = "posted" =>
        /\ r \in locked /\ run[r].hash # 0
        /\ \A e \in Employees :
              payslip[r][e].source \in {ByHand, snapshot[r][e]}

\* A payslip is published to its employee at most once, only when complete, and
\* its run has been approved and stays so.
PublishedOnce ==
    \A r \in Runs, e \in Employees :
        /\ payouts[r][e] = IF payslip[r][e].status = "published" THEN 1 ELSE 0
        /\ payslip[r][e].status = "published" =>
              payslip[r][e].confirmed /\ run[r].status \in Final

Figures(r) == [e \in Employees |-> [payslip[r][e] EXCEPT !.status = "draft"]]

\* No step changes what an approver has approved: the figures, the inputs kept
\* for them, the approval itself.  Its period can still be moved, by an update
\* that read the run while it was a draft.
Frozen(r) ==
    run[r].status \in Final =>
        /\ run'[r].status \in Final
        /\ run[r].status = "posted" => run'[r].status = "posted"
        /\ run'[r].approvedBy = run[r].approvedBy
        /\ Figures(r)' = Figures(r) /\ snapshot'[r] = snapshot[r]
        /\ run'[r].period = run[r].period \/ r \in updating

\* Whatever updates, recalculations, late decisions and publications are under
\* way, each run that is approved is frozen in that sense.
ApprovedIsFrozen == [][\A r \in Runs : Frozen(r)]_payrollVars
=============================================================================
