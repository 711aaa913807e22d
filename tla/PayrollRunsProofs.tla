--------------------------- MODULE PayrollRunsProofs ---------------------------
(***************************************************************************)
(* Theorems about PayrollRuns, for any number of runs, employees, users,   *)
(* approval requests and steps of their policy, and any interleaving of    *)
(* decisions with the use cases: SegregationOfDuties, ApprovedIsFrozen,    *)
(* PostedIsTraceable and PublishedOnce.                                    *)
(*                                                                         *)
(* Two facts make the first two inductive: a decision that was announced   *)
(* is somebody's, and the payslips of an approved run are all complete, so *)
(* that nobody can complete one any more.  The other two are said of       *)
(* payslips about to be published as well as of published ones             *)
(* (PayslipInv), since the publication locks nothing between the two.      *)
(* Last, that payroll uses the engine as ApprovalDecision allows.          *)
(***************************************************************************)
EXTENDS PayrollRuns, TLAPS

DecisionsAreSomebodys ==
    /\ announced = [q \in Requests |-> announced[q]]
    /\ \A q \in Requests : announced[q] # <<>> => decider[q] \in Users

Separated(r) ==
    run[r].status \in Final =>
        /\ run[r].approvedBy \in Users \ Requesters(history[r])
        /\ run[r].status = "posted" => run[r].postedBy \in Users \ Requesters(history[r])

FiguresComplete(r) == run[r].status \in Final => NotProvisional(r)

RunInv(r) == Separated(r) /\ FiguresComplete(r)

PayrollInv ==
    /\ PayrollTypeOK
    /\ DecisionsAreSomebodys
    /\ \A r \in Runs : RunInv(r)

\* What a step has to show of every run.
RunStep(r) == RunInv(r)' /\ Frozen(r)

-----------------------------------------------------------------------------
(***************************************************************************)
(* Types.                                                                  *)
(***************************************************************************)

LEMMA InitTypeOK == PayrollInit => PayrollTypeOK
<1> SUFFICES ASSUME PayrollInit PROVE PayrollTypeOK
  OBVIOUS
<1>1. MaxGenerations \in Nat
  BY PayrollBoundsAssumption
<1>2. run \in [Runs -> Run]
  BY <1>1 DEF PayrollInit, Run, Final
<1>3. history \in [Runs -> Seq(Entry)]
  BY DEF PayrollInit
<1>4. NoPayslip \in Payslip
  BY <1>1 DEF NoPayslip, Payslip, ByHand
<1>5. /\ payslip \in [Runs -> [Employees -> Payslip]]
      /\ snapshot \in [Runs -> [Employees -> 0 .. MaxGenerations]]
      /\ payouts \in [Runs -> [Employees -> Nat]]
      /\ generated \in [Runs -> 0 .. MaxGenerations]
  BY <1>1, <1>4 DEF PayrollInit
<1> QED
  BY <1>2, <1>3, <1>5 DEF PayrollInit, PayrollTypeOK

LEMMA Entries ==
    ASSUME PayrollTypeOK, NEW r \in Runs, NEW action \in {"REQUESTED", "APPROVED", "REJECTED", "POSTED"},
           NEW u \in Users, Record(r, action, u)
    PROVE  /\ history' \in [Runs -> Seq(Entry)]
           /\ history'[r] = Append(history[r], [action |-> action, user |-> u])
           /\ \A s \in Runs \ {r} : history'[s] = history[s]
<1>1. [action |-> action, user |-> u] \in Entry /\ history[r] \in Seq(Entry)
  BY DEF Entry, PayrollTypeOK
<1>2. Append(history[r], [action |-> action, user |-> u]) \in Seq(Entry)
  BY <1>1
<1> QED
  BY <1>2 DEF Record, PayrollTypeOK

LEMMA ProvisionalType == \A n \in 0 .. MaxGenerations : Provisional(n) \in Payslip
BY DEF Provisional, Payslip

LEMMA GenerateTypes ==
    ASSUME PayrollTypeOK, NEW r \in Runs, NEW u \in Users, Generate(r, u)
    PROVE  PayrollTypeOK'
<1> DEFINE n == generated[r] + 1
<1>1. MaxGenerations \in Nat /\ n \in 1 .. MaxGenerations
  BY PayrollBoundsAssumption DEF PayrollTypeOK, Generate
<1>2. history' \in [Runs -> Seq(Entry)]
  BY Entries DEF Generate
<1>3. run' \in [Runs -> Run]
  <2>1. PICK hash \in {run[r].hash, n} :
          run' = [run EXCEPT ![r].status = "pending_approval", ![r].hash = hash]
    BY DEF Generate
  <2>2. run[r] \in Run /\ hash \in 0 .. MaxGenerations
    BY <1>1, <2>1 DEF PayrollTypeOK, Run
  <2> QED
    BY <2>1, <2>2 DEF PayrollTypeOK, Run
<1>4. PICK paid \in SUBSET Employees :
        /\ payslip' = [payslip EXCEPT ![r] = Recalculated(r, paid, n)]
        /\ snapshot' = [snapshot EXCEPT ![r] = [e \in Employees |-> IF e \in paid THEN n ELSE 0]]
  BY DEF Generate
<1>5. NoPayslip \in Payslip /\ Provisional(n) \in Payslip
  BY <1>1, ProvisionalType DEF NoPayslip, Payslip, ByHand
<1>6. Recalculated(r, paid, n) \in [Employees -> Payslip]
  BY <1>5 DEF Recalculated
<1>7. /\ payslip' \in [Runs -> [Employees -> Payslip]]
      /\ snapshot' \in [Runs -> [Employees -> 0 .. MaxGenerations]]
  BY <1>1, <1>4, <1>6 DEF PayrollTypeOK
<1>8. /\ generated' \in [Runs -> 0 .. MaxGenerations]
      /\ processed' \subseteq [run : Runs, user : Users, number : 1 .. MaxGenerations]
      /\ asking' \subseteq processed'
  BY <1>1 DEF Generate, PayrollTypeOK
<1> QED
  BY <1>2, <1>3, <1>7, <1>8 DEF Generate, PayrollTypeOK, callVars

LEMMA PayslipTypes ==
    ASSUME PayrollTypeOK, NEW r \in Runs, NEW e \in Employees,
           \/ EnterPayslip(r, e) \/ ConfirmPayslip(r, e)
           \/ BeginPublish(r, e) \/ Publish(r, e)
    PROVE  PayrollTypeOK'
<1>1. payslip[r][e] \in Payslip /\ payouts[r][e] \in Nat
  BY DEF PayrollTypeOK
<1>2. CASE EnterPayslip(r, e)
  <2>1. Provisional(ByHand) \in Payslip
    BY ProvisionalType, PayrollBoundsAssumption DEF ByHand
  <2>2. payslip' \in [Runs -> [Employees -> Payslip]]
    BY <1>2, <2>1 DEF EnterPayslip, PayrollTypeOK
  <2> QED
    BY <1>2, <2>2 DEF EnterPayslip, PayrollTypeOK, askVars, callVars
<1>3. CASE ConfirmPayslip(r, e)
  <2>1. [payslip[r][e] EXCEPT !.confirmed = TRUE] \in Payslip
    BY <1>1 DEF Payslip
  <2>2. payslip' \in [Runs -> [Employees -> Payslip]]
    BY <1>3, <2>1 DEF ConfirmPayslip, PayrollTypeOK
  <2> QED
    BY <1>3, <2>2 DEF ConfirmPayslip, PayrollTypeOK, askVars, callVars
<1>4. CASE BeginPublish(r, e)
  <2>1. publishing' \subseteq Runs \X Employees
    BY <1>4 DEF BeginPublish, PayrollTypeOK
  <2> QED
    BY <1>4, <2>1 DEF BeginPublish, PayrollTypeOK, askVars, figureVars
<1>5. CASE Publish(r, e)
  <2>1. [payslip[r][e] EXCEPT !.status = "published", !.confirmed = TRUE] \in Payslip
    BY <1>1 DEF Payslip
  <2>2. payslip' \in [Runs -> [Employees -> Payslip]]
    BY <1>5, <2>1 DEF Publish, PayrollTypeOK
  <2>3. payouts' \in [Runs -> [Employees -> Nat]]
    BY <1>1, <1>5 DEF Publish, PayrollTypeOK
  <2>4. publishing' \subseteq Runs \X Employees
    BY <1>5 DEF Publish, PayrollTypeOK
  <2> QED
    BY <1>5, <2>2, <2>3, <2>4 DEF Publish, PayrollTypeOK, askVars
<1> QED
  BY <1>2, <1>3, <1>4, <1>5

LEMMA StatusTypes ==
    ASSUME PayrollTypeOK, NEW r \in Runs, NEW u \in Users
    PROVE  /\ RequestApproval(r, u) => PayrollTypeOK'
           /\ PostRun(r, u) => PayrollTypeOK'
           /\ Approve(r, u) \/ SendBack(r, u) =>
                 run' \in [Runs -> Run] /\ history' \in [Runs -> Seq(Entry)]
<1>1. run[r] \in Run
  BY DEF PayrollTypeOK
<1>2. ASSUME RequestApproval(r, u) PROVE PayrollTypeOK'
  <2>1. history' \in [Runs -> Seq(Entry)]
    BY <1>2, Entries DEF RequestApproval
  <2>2. run' \in [Runs -> Run]
    BY <1>1, <1>2 DEF RequestApproval, PayrollTypeOK, Run
  <2> QED
    BY <1>2, <2>1, <2>2 DEF RequestApproval, PayrollTypeOK, askVars, callVars, figureVars
<1>3. ASSUME PostRun(r, u) PROVE PayrollTypeOK'
  <2>1. history' \in [Runs -> Seq(Entry)]
    BY <1>3, Entries DEF PostRun
  <2>2. run' \in [Runs -> Run]
    BY <1>1, <1>3 DEF PostRun, PayrollTypeOK, Run, Final
  <2> QED
    BY <1>3, <2>1, <2>2 DEF PostRun, PayrollTypeOK, askVars, callVars
<1>4. ASSUME Approve(r, u)
      PROVE  run' \in [Runs -> Run] /\ history' \in [Runs -> Seq(Entry)]
  <2>1. history' \in [Runs -> Seq(Entry)]
    BY <1>4, Entries DEF Approve
  <2> QED
    BY <1>1, <1>4, <2>1 DEF Approve, PayrollTypeOK, Run, Final
<1>5. ASSUME SendBack(r, u)
      PROVE  run' \in [Runs -> Run] /\ history' \in [Runs -> Seq(Entry)]
  <2>1. history' \in [Runs -> Seq(Entry)]
    BY <1>5, Entries DEF SendBack
  <2> QED
    BY <1>1, <1>5, <2>1 DEF SendBack, PayrollTypeOK, Run
<1> QED
  BY <1>2, <1>3, <1>4, <1>5

LEMMA DecisionTypes ==
    ASSUME PayrollTypeOK, DecisionsAreSomebodys, NEW q \in Requests,
           ApplyDecision(q) \/ IgnoreDecision(q)
    PROVE  PayrollTypeOK'
<1>1. RunOf[q] \in Runs
  BY RunOfAssumption
<1>2. decider[q] \in Users
  BY DEF DecisionsAreSomebodys, ApplyDecision, IgnoreDecision
<1>3. run' \in [Runs -> Run] /\ history' \in [Runs -> Seq(Entry)]
  <2>1. CASE ApplyDecision(q)
    BY <1>1, <1>2, <2>1, StatusTypes DEF ApplyDecision
  <2>2. CASE IgnoreDecision(q)
    BY <2>2 DEF IgnoreDecision, PayrollTypeOK
  <2> QED
    BY <2>1, <2>2
<1>4. MarkApplied(q)
  BY DEF ApplyDecision, IgnoreDecision
<1>5. applied' \subseteq Requests
  BY <1>4 DEF MarkApplied, PayrollTypeOK
<1> QED
  BY <1>3, <1>4, <1>5 DEF MarkApplied, PayrollTypeOK, askVars, callVars, figureVars

LEMMA StepTypeOK ==
    ASSUME PayrollTypeOK, DecisionsAreSomebodys, PayrollNext
    PROVE  PayrollTypeOK'
<1>1. ASSUME NEW r \in Runs, NEW u \in Users, ApproveRun(r, u) \/ RejectRun(r, u)
      PROVE  PayrollTypeOK'
  <2>1. run' \in [Runs -> Run] /\ history' \in [Runs -> Seq(Entry)]
    BY <1>1, StatusTypes DEF ApproveRun, RejectRun
  <2> QED
    BY <1>1, <2>1 DEF ApproveRun, RejectRun, PayrollTypeOK, askVars, callVars, figureVars
<1>2. ASSUME NEW r \in Runs, BeginUpdate(r)
      PROVE  PayrollTypeOK'
  BY <1>2 DEF BeginUpdate, PayrollTypeOK, askVars, figureVars
<1>3. ASSUME NEW r \in Runs, UpdateRun(r)
      PROVE  PayrollTypeOK'
  <2>1. run' \in [Runs -> Run]
    <3>1. PICK p \in Periods : run' = [run EXCEPT ![r].period = p]
      BY <1>3 DEF UpdateRun
    <3>2. run[r] \in Run
      BY DEF PayrollTypeOK
    <3>3. [run[r] EXCEPT !.period = p] \in Run
      BY <3>2 DEF Run
    <3> QED
      BY <3>1, <3>3 DEF PayrollTypeOK
  <2>2. updating' \subseteq Runs
    BY <1>3 DEF UpdateRun, PayrollTypeOK
  <2> QED
    BY <1>3, <2>1, <2>2 DEF UpdateRun, PayrollTypeOK, askVars, figureVars
<1>4. ASSUME NEW e \in processed, LookUpRequest(e)
      PROVE  PayrollTypeOK'
  BY <1>4 DEF LookUpRequest, PayrollTypeOK, callVars, figureVars
<1>5. ASSUME NEW e \in asking, NEW q \in Requests, InsertApprovalRequest(e, q)
      PROVE  PayrollTypeOK'
  <2>1. e.user \in Users
    BY DEF PayrollTypeOK
  <2>2. requester' \in [Requests -> Users \cup {NoUser}] /\ asking' \subseteq processed
    BY <1>5, <2>1 DEF InsertApprovalRequest, PayrollTypeOK
  <2> QED
    BY <1>5, <2>2 DEF InsertApprovalRequest, PayrollTypeOK, callVars, figureVars
<1>6. ASSUME NEW q \in Requests, NEW u \in Users, Decide(q, u)
      PROVE  PayrollTypeOK'
  BY <1>6 DEF Decide, PayrollTypeOK, askVars, callVars, figureVars
<1>7. ASSUME EndCall
      PROVE  PayrollTypeOK'
  BY <1>7 DEF EndCall, PayrollTypeOK, figureVars
<1> QED
  BY <1>1, <1>2, <1>3, <1>4, <1>5, <1>6, <1>7, GenerateTypes, PayslipTypes, StatusTypes,
     DecisionTypes DEF PayrollNext

-----------------------------------------------------------------------------
(***************************************************************************)
(* Decisions, and the approval history.                                    *)
(***************************************************************************)

LEMMA StepDecisions ==
    ASSUME PayrollTypeOK, DecisionsAreSomebodys, PayrollNext
    PROVE  DecisionsAreSomebodys'
<1>1. CASE UNCHANGED <<announced, decider>>
  BY <1>1 DEF DecisionsAreSomebodys
<1>2. ASSUME NEW q \in Requests, NEW u \in Users, Decide(q, u)
      PROVE  DecisionsAreSomebodys'
  <2>1. /\ decider' = [decider EXCEPT ![q] = u]
        /\ \/ UNCHANGED announced
           \/ \E outcome \in Outcome : announced' = [announced EXCEPT ![q] = Append(@, outcome)]
    BY <1>2 DEF Decide, ApproveStep, ApproveLastStep, Reject, Cancel, Complete, Outcome
  <2>2. /\ announced' = [p \in Requests |-> announced'[p]]
        /\ \A p \in Requests \ {q} : announced'[p] = announced[p]
    BY <2>1 DEF DecisionsAreSomebodys
  <2>3. decider'[q] = u /\ \A p \in Requests \ {q} : decider'[p] = decider[p]
    BY <2>1 DEF PayrollTypeOK
  <2> QED
    BY <2>2, <2>3 DEF DecisionsAreSomebodys
<1>3. ASSUME NEW e \in asking, NEW q \in Requests, InsertApprovalRequest(e, q)
      PROVE  UNCHANGED <<announced, decider>>
  BY <1>3 DEF InsertApprovalRequest, Create
<1>4. ASSUME NEW r \in Runs, NEW u \in Users,
             \/ Generate(r, u) \/ RequestApproval(r, u)
             \/ ApproveRun(r, u) \/ RejectRun(r, u) \/ PostRun(r, u)
      PROVE  UNCHANGED <<announced, decider>>
  BY <1>4 DEF Generate, RequestApproval, ApproveRun, RejectRun, PostRun, decisionVars
<1>5. ASSUME NEW r \in Runs, NEW e \in Employees,
             \/ EnterPayslip(r, e) \/ ConfirmPayslip(r, e)
             \/ BeginPublish(r, e) \/ Publish(r, e)
      PROVE  UNCHANGED <<announced, decider>>
  BY <1>5 DEF EnterPayslip, ConfirmPayslip, BeginPublish, Publish, decisionVars
<1>6. ASSUME NEW r \in Runs, BeginUpdate(r) \/ UpdateRun(r)
      PROVE  UNCHANGED <<announced, decider>>
  BY <1>6 DEF BeginUpdate, UpdateRun, decisionVars
<1>7. ASSUME NEW q \in Requests, ApplyDecision(q) \/ IgnoreDecision(q)
      PROVE  UNCHANGED <<announced, decider>>
  BY <1>7 DEF ApplyDecision, IgnoreDecision, MarkApplied, decisionVars
<1>8. ASSUME \/ \E e \in processed : LookUpRequest(e)
             \/ EndCall
      PROVE  UNCHANGED <<announced, decider>>
  BY <1>8 DEF LookUpRequest, EndCall, decisionVars
<1> QED
  BY <1>1, <1>2, <1>3, <1>4, <1>5, <1>6, <1>7, <1>8 DEF PayrollNext

\* An approval or a posting adds nobody to those who requested.
LEMMA RequestersStay ==
    ASSUME NEW h \in Seq(Entry), NEW e \in Entry, e.action \in {"APPROVED", "POSTED"}
    PROVE  Requesters(Append(h, e)) = Requesters(h)
<1> DEFINE k == Append(h, e)
           n == Len(h)
<1>1. /\ n \in Nat /\ Len(k) = n + 1
      /\ k[n + 1] = e
      /\ \A i \in 1 .. n : k[i] = h[i]
  OBVIOUS
<1> HIDE DEF k, n
<1>2. \A i \in 1 .. n : i \in CurrentCycle(k) <=> i \in CurrentCycle(h)
  <2> TAKE i \in 1 .. n
  <2>1. (\A j \in i .. n + 1 : k[j].action # "REJECTED")
          <=> (\A j \in i .. n : h[j].action # "REJECTED")
    BY <1>1
  <2> QED
    BY <1>1, <2>1 DEF CurrentCycle, n
<1>3. /\ CurrentCycle(k) \subseteq 1 .. n + 1
      /\ CurrentCycle(h) \subseteq 1 .. n
  BY <1>1 DEF CurrentCycle, n
<1>4. {j \in CurrentCycle(k) : k[j].action = "REQUESTED"}
        = {j \in CurrentCycle(h) : h[j].action = "REQUESTED"}
  <2>1. \A j \in 1 .. n + 1 : j \in 1 .. n \/ j = n + 1
    BY <1>1
  <2> QED
    BY <1>1, <1>2, <1>3, <2>1
<1> QED
  BY <1>1, <1>3, <1>4 DEF Requesters, k

-----------------------------------------------------------------------------
(***************************************************************************)
(* What each step does to a run.                                           *)
(***************************************************************************)

Kept(s) == /\ run'[s] = run[s] /\ history'[s] = history[s]
           /\ payslip'[s] = payslip[s] /\ snapshot'[s] = snapshot[s]

LEMMA KeptRun ==
    ASSUME NEW s \in Runs, RunInv(s), Kept(s)
    PROVE  RunStep(s)
<1>1. Separated(s)'
  BY DEF Kept, RunInv, Separated, Requesters, CurrentCycle
<1>2. FiguresComplete(s)'
  BY DEF Kept, RunInv, FiguresComplete, NotProvisional, Confirmed
<1>3. Frozen(s)
  BY DEF Kept, Frozen, Figures
<1> QED
  BY <1>1, <1>2, <1>3 DEF RunStep, RunInv

LEMMA OpenRun ==
    ASSUME NEW s \in Runs, run[s].status \notin Final, run'[s].status \notin Final
    PROVE  RunStep(s)
BY DEF RunStep, RunInv, Separated, FiguresComplete, Frozen, Final

LEMMA GenerateRuns ==
    ASSUME PayrollInv, NEW r \in Runs, NEW u \in Users, Generate(r, u), NEW s \in Runs
    PROVE  RunStep(s)
<1> USE DEF PayrollInv, PayrollTypeOK
<1>1. CASE s = r
  <2>1. PICK hash : run' = [run EXCEPT ![r].status = "pending_approval", ![r].hash = hash]
    BY DEF Generate
  <2>2. run \in [Runs -> Run]
    OBVIOUS
  <2>3. run'[r].status = "pending_approval"
    BY <2>1, <2>2 DEF Run
  <2> QED
    BY <1>1, <2>3, OpenRun DEF Generate, Final
<1>2. CASE s # r
  BY <1>2, KeptRun DEF Generate, Record, Kept
<1> QED
  BY <1>1, <1>2

LEMMA UpdateRuns ==
    ASSUME PayrollInv, NEW r \in Runs, UpdateRun(r), NEW s \in Runs
    PROVE  RunStep(s)
<1>1. PICK p \in Periods : run' = [run EXCEPT ![r].period = p]
  BY DEF UpdateRun
<1>2. /\ run \in [Runs -> Run] /\ r \in updating /\ RunInv(s)
      /\ UNCHANGED <<history, payslip, snapshot>>
  BY DEF PayrollInv, PayrollTypeOK, UpdateRun, figureVars
<1>3. /\ run'[s].status = run[s].status
      /\ run'[s].approvedBy = run[s].approvedBy
      /\ run'[s].postedBy = run[s].postedBy
      /\ s # r => run'[s].period = run[s].period
  BY <1>1, <1>2 DEF Run
<1>4. Separated(s)'
  BY <1>2, <1>3 DEF RunInv, Separated, Requesters, CurrentCycle
<1>5. FiguresComplete(s)'
  BY <1>2, <1>3 DEF RunInv, FiguresComplete, NotProvisional, Confirmed
<1>6. Frozen(s)
  BY <1>2, <1>3 DEF Frozen, Figures
<1> QED
  BY <1>4, <1>5, <1>6 DEF RunStep, RunInv

\* Whoever approves, through the API or the engine: it suffices that the checks
\* of either say that this is not a requester of the cycle and that nothing is
\* provisional.
LEMMA ApprovalRuns ==
    ASSUME PayrollInv, NEW r \in Runs, NEW u \in Users \ Requesters(history[r]),
           NotProvisional(r), Approve(r, u), UNCHANGED figureVars, NEW s \in Runs
    PROVE  RunStep(s)
<1>1. CASE s = r
  <2>1. /\ run'[r].status = "approved" /\ run'[r].approvedBy = u
        /\ run[r].status = "pending_approval"
    BY DEF Approve, PayrollInv, PayrollTypeOK, Run
  <2>2. history'[r] = Append(history[r], [action |-> "APPROVED", user |-> u])
    BY Entries DEF Approve, PayrollInv
  <2>3. history[r] \in Seq(Entry) /\ [action |-> "APPROVED", user |-> u] \in Entry
    BY DEF PayrollInv, PayrollTypeOK, Entry
  <2>4. Requesters(history'[r]) = Requesters(history[r])
    BY <2>2, <2>3, RequestersStay
  <2>5. Separated(r)'
    BY <2>1, <2>4 DEF Separated, Requesters, CurrentCycle
  <2>6. FiguresComplete(r)'
    BY DEF figureVars, FiguresComplete, NotProvisional, Confirmed
  <2>7. Frozen(r)
    BY <2>1 DEF Frozen, Final
  <2> QED
    BY <1>1, <2>5, <2>6, <2>7 DEF RunStep, RunInv
<1>2. CASE s # r
  BY <1>2, KeptRun DEF Approve, Record, Kept, figureVars, PayrollInv, PayrollTypeOK
<1> QED
  BY <1>1, <1>2

LEMMA SendBackRuns ==
    ASSUME PayrollInv, NEW r \in Runs, NEW u, SendBack(r, u), UNCHANGED figureVars,
           NEW s \in Runs
    PROVE  RunStep(s)
<1> USE DEF PayrollInv, PayrollTypeOK
<1>1. CASE s = r
  BY <1>1, OpenRun DEF SendBack, Run, Final
<1>2. CASE s # r
  BY <1>2, KeptRun DEF SendBack, Record, Kept, figureVars
<1> QED
  BY <1>1, <1>2

LEMMA PostRuns ==
    ASSUME PayrollInv, NEW r \in Runs, NEW u \in Users, PostRun(r, u), NEW s \in Runs
    PROVE  RunStep(s)
<1>1. CASE s = r
  <2>1. /\ run[r].status = "approved"
        /\ run'[r].status = "posted" /\ run'[r].postedBy = u
        /\ run'[r].approvedBy = run[r].approvedBy
        /\ run'[r].period = run[r].period
        /\ UNCHANGED <<payslip, snapshot>>
        /\ u \notin Requesters(history[r])
    BY DEF PostRun, MayPost, PayrollInv, PayrollTypeOK, Run
  <2>2. history'[r] = Append(history[r], [action |-> "POSTED", user |-> u])
    BY Entries DEF PostRun, PayrollInv
  <2>3. history[r] \in Seq(Entry) /\ [action |-> "POSTED", user |-> u] \in Entry
    BY DEF PayrollInv, PayrollTypeOK, Entry
  <2>4. Requesters(history'[r]) = Requesters(history[r])
    BY <2>2, <2>3, RequestersStay
  <2>5. Separated(r)'
    BY <2>1, <2>4 DEF PayrollInv, RunInv, Separated, Final, Requesters, CurrentCycle
  <2>6. FiguresComplete(r)'
    BY <2>1 DEF PayrollInv, RunInv, FiguresComplete, Final, NotProvisional, Confirmed
  <2>7. Frozen(r)
    BY <2>1 DEF Frozen, Final, Figures
  <2> QED
    BY <1>1, <2>5, <2>6, <2>7 DEF RunStep, RunInv
<1>2. CASE s # r
  BY <1>2, KeptRun DEF PostRun, Record, Kept, PayrollInv, PayrollTypeOK
<1> QED
  BY <1>1, <1>2

\* Payslips are entered for drafts only, and a complete one is not completed.
LEMMA DraftPayslipRuns ==
    ASSUME PayrollInv, NEW r \in Runs, NEW e \in Employees,
           EnterPayslip(r, e) \/ ConfirmPayslip(r, e), NEW s \in Runs
    PROVE  RunStep(s)
<1>1. /\ UNCHANGED <<run, history, snapshot>>
      /\ \A t \in Runs \ {r} : payslip'[t] = payslip[t]
  BY DEF EnterPayslip, ConfirmPayslip, PayrollInv, PayrollTypeOK
<1>2. run[r].status \notin Final
  <2>1. CASE EnterPayslip(r, e)
    BY <2>1 DEF EnterPayslip, Final
  <2>2. CASE ConfirmPayslip(r, e)
    <3>1. payslip[r][e].status # "none" /\ ~Confirmed(payslip[r][e])
      BY <2>2 DEF ConfirmPayslip, Confirmed
    <3>2. ~NotProvisional(r)
      BY <3>1 DEF NotProvisional
    <3> QED
      BY <3>2 DEF PayrollInv, RunInv, FiguresComplete
  <2> QED
    BY <2>1, <2>2
<1>3. CASE s = r
  BY <1>1, <1>2, <1>3, OpenRun
<1>4. CASE s # r
  BY <1>1, <1>4, KeptRun DEF Kept, PayrollInv
<1> QED
  BY <1>3, <1>4

LEMMA PublishRuns ==
    ASSUME PayrollInv, NEW r \in Runs, NEW e \in Employees, Publish(r, e), NEW s \in Runs
    PROVE  RunStep(s)
<1>1. /\ UNCHANGED <<run, history, snapshot>>
      /\ payslip' = [payslip EXCEPT ![r][e] =
                       [payslip[r][e] EXCEPT !.status = "published", !.confirmed = TRUE]]
      /\ payslip[r][e].status = "draft"
  BY DEF Publish, StillDraft
<1>2. payslip \in [Runs -> [Employees -> Payslip]] /\ RunInv(s)
  BY DEF PayrollInv, PayrollTypeOK
<1>3. /\ \A t \in Runs \ {r} : payslip'[t] = payslip[t]
      /\ \A d \in Employees \ {e} : payslip'[r][d] = payslip[r][d]
      /\ payslip'[r][e] = [payslip[r][e] EXCEPT !.status = "published", !.confirmed = TRUE]
  BY <1>1, <1>2
<1>4. CASE s = r
  <2>1. Separated(s)'
    BY <1>1, <1>2 DEF RunInv, Separated, Requesters, CurrentCycle
  <2>2. payslip'[r][e].status = "published" /\ payslip'[r][e].confirmed = TRUE
    BY <1>2, <1>3 DEF Payslip
  <2>3. \A d \in Employees : payslip'[r][d].status # "none" <=> payslip[r][d].status # "none"
    BY <1>1, <1>3, <2>2
  <2>4. NotProvisional(r) => NotProvisional(r)'
    <3> SUFFICES ASSUME NotProvisional(r)
                 PROVE  NotProvisional(r)'
      OBVIOUS
    <3>1. \A d \in Employees : payslip[r][d].status # "none" => payslip'[r][d].confirmed
      <4> TAKE d \in Employees
      <4>1. CASE d = e
        BY <2>2, <4>1
      <4>2. CASE d # e
        BY <1>3, <4>2 DEF NotProvisional, Confirmed
      <4> QED
        BY <4>1, <4>2
    <3> QED
      BY <2>3, <3>1 DEF NotProvisional, Confirmed
  <2>5. FiguresComplete(s)'
    BY <1>1, <1>2, <1>4, <2>4 DEF RunInv, FiguresComplete
  <2>6. ASSUME run[r].status \in Final
        PROVE  Figures(r)' = Figures(r)
    <3>1. payslip[r][e].confirmed = TRUE
      BY <1>1, <1>2, <1>4, <2>6 DEF RunInv, FiguresComplete, NotProvisional, Confirmed, Payslip
    <3>2. [payslip'[r][e] EXCEPT !.status = "draft"] = [payslip[r][e] EXCEPT !.status = "draft"]
      BY <1>2, <1>3, <3>1 DEF Payslip
    <3> QED
      BY <1>3, <3>2 DEF Figures
  <2>7. Frozen(s)
    BY <1>1, <1>4, <2>6 DEF Frozen
  <2> QED
    BY <2>1, <2>5, <2>7 DEF RunStep, RunInv
<1>5. CASE s # r
  BY <1>1, <1>2, <1>3, <1>5, KeptRun DEF Kept
<1> QED
  BY <1>4, <1>5

LEMMA DecisionRuns ==
    ASSUME PayrollInv, NEW q \in Requests, ApplyDecision(q), NEW s \in Runs
    PROVE  RunStep(s)
<1>1. RunOf[q] \in Runs
  BY RunOfAssumption
<1>2. decider[q] \in Users /\ UNCHANGED figureVars
  BY DEF PayrollInv, DecisionsAreSomebodys, ApplyDecision, MarkApplied
<1>3. CASE status[q] = "approved"
  <2>1. Approve(RunOf[q], decider[q]) /\ FitsCycle(q) /\ NotProvisional(RunOf[q])
    BY <1>3 DEF ApplyDecision, Applicable
  <2>2. decider[q] \notin Requesters(history[RunOf[q]])
    BY <2>1 DEF FitsCycle, MayApprove
  <2> QED
    BY <1>1, <1>2, <2>1, <2>2, ApprovalRuns
<1>4. CASE status[q] # "approved"
  BY <1>1, <1>2, <1>4, SendBackRuns DEF ApplyDecision
<1> QED
  BY <1>3, <1>4

LEMMA StepRuns ==
    ASSUME PayrollInv, [PayrollNext]_payrollVars, NEW s \in Runs
    PROVE  RunStep(s)
<1>1. CASE UNCHANGED <<run, history, payslip, snapshot>>
  BY <1>1, KeptRun DEF Kept, PayrollInv
<1>2. CASE UNCHANGED payrollVars
  BY <1>1, <1>2 DEF payrollVars, figureVars
<1>3. ASSUME NEW r \in Runs, NEW u \in Users, RequestApproval(r, u)
      PROVE  RunStep(s)
  <2> USE DEF PayrollInv, PayrollTypeOK
  <2>1. CASE s = r
    BY <1>3, <2>1, OpenRun DEF RequestApproval, Run, Final
  <2>2. CASE s # r
    BY <1>3, <2>2, KeptRun DEF RequestApproval, Record, Kept, figureVars
  <2> QED
    BY <2>1, <2>2
<1>4. ASSUME NEW r \in Runs, NEW u \in Users, ApproveRun(r, u)
      PROVE  RunStep(s)
  <2>1. Approve(r, u) /\ MayApprove(history[r], u) /\ NotProvisional(r) /\ UNCHANGED figureVars
    BY <1>4 DEF ApproveRun
  <2> QED
    BY <2>1, ApprovalRuns DEF MayApprove
<1>5. ASSUME NEW r \in Runs, NEW u \in Users, RejectRun(r, u)
      PROVE  RunStep(s)
  BY <1>5, SendBackRuns DEF RejectRun
<1>6. ASSUME \/ \E r \in Runs : BeginUpdate(r)
             \/ \E r \in Runs, e \in Employees : BeginPublish(r, e)
             \/ \E e \in processed : LookUpRequest(e)
             \/ \E e \in asking, q \in Requests : InsertApprovalRequest(e, q)
             \/ \E q \in Requests, u \in Users : Decide(q, u)
             \/ \E q \in Requests : IgnoreDecision(q)
             \/ EndCall
      PROVE  RunStep(s)
  <2>1. UNCHANGED <<run, history, payslip, snapshot>>
    BY <1>6 DEF BeginUpdate, BeginPublish, LookUpRequest, InsertApprovalRequest, Decide,
                IgnoreDecision, MarkApplied, EndCall, figureVars
  <2> QED
    BY <1>1, <2>1
<1> QED
  BY <1>2, <1>3, <1>4, <1>5, <1>6, GenerateRuns, UpdateRuns, PostRuns, DraftPayslipRuns,
     PublishRuns, DecisionRuns DEF PayrollNext

-----------------------------------------------------------------------------
(***************************************************************************)
(* The theorems.                                                           *)
(***************************************************************************)

LEMMA InitPayrollInv == PayrollInit => PayrollInv
<1> SUFFICES ASSUME PayrollInit PROVE PayrollInv
  OBVIOUS
<1>1. DecisionsAreSomebodys
  BY DEF PayrollInit, DecisionInit, DecisionsAreSomebodys
<1>2. \A r \in Runs : run[r].status \notin Final
  BY DEF PayrollInit, Final
<1>3. \A r \in Runs : RunInv(r)
  BY <1>2 DEF RunInv, Separated, FiguresComplete
<1> QED
  BY <1>1, <1>3, InitTypeOK DEF PayrollInv

LEMMA StepPayrollInv == PayrollInv /\ [PayrollNext]_payrollVars => PayrollInv'
<1> SUFFICES ASSUME PayrollInv, [PayrollNext]_payrollVars PROVE PayrollInv'
  OBVIOUS
<1>1. \A r \in Runs : RunInv(r)'
  BY StepRuns DEF RunStep
<1>2. PayrollTypeOK' /\ DecisionsAreSomebodys'
  <2>1. CASE PayrollNext
    BY <2>1, StepTypeOK, StepDecisions DEF PayrollInv
  <2>2. CASE UNCHANGED payrollVars
    BY <2>2 DEF PayrollInv, PayrollTypeOK, DecisionsAreSomebodys, payrollVars, figureVars,
                askVars, callVars, decisionVars
  <2> QED
    BY <2>1, <2>2
<1> QED
  BY <1>1, <1>2 DEF PayrollInv

\* The inductive invariant: whose decision the engine announced, who approved
\* and posted each run, and that what they approved was complete.
THEOREM PayrollInvariant == PayrollSpec => []PayrollInv
BY InitPayrollInv, StepPayrollInv, PTL DEF PayrollSpec

\* Through the API or by a decision of the engine that is late, repeated or of
\* another cycle, nobody approves or posts a payroll run they requested.
THEOREM DutiesAreSegregated == PayrollSpec => []SegregationOfDuties
<1>1. PayrollInv => SegregationOfDuties
  BY DEF PayrollInv, RunInv, Separated, SegregationOfDuties
<1> QED
  BY <1>1, PayrollInvariant, PTL

\* What was approved is what is posted and published: no recalculation, manual
\* entry, late decision or publication changes an approved run's figures.
THEOREM ApprovalsAreFrozen == PayrollSpec => ApprovedIsFrozen
<1>1. PayrollInv /\ [PayrollNext]_payrollVars => [\A r \in Runs : Frozen(r)]_payrollVars
  BY StepRuns DEF RunStep
<1> QED
  BY <1>1, PayrollInvariant, PTL DEF PayrollSpec, ApprovedIsFrozen

-----------------------------------------------------------------------------
(***************************************************************************)
(* Payslips: where their figures come from, and to whom they went.         *)
(***************************************************************************)

\* A posting locks the inputs of a calculated run.
Traced(r) == run[r].status = "posted" => r \in locked /\ run[r].hash # 0

\* A payslip goes out when it is published; one that is, or is about to be, is
\* complete and of an approved run.
PayslipSound(r, e) ==
    /\ payslip[r][e].source \in {ByHand, snapshot[r][e]}
    /\ payouts[r][e] = IF payslip[r][e].status = "published" THEN 1 ELSE 0
    /\ payslip[r][e].status = "published" \/ <<r, e>> \in publishing =>
          payslip[r][e].confirmed /\ run[r].status \in Final

PayslipInv == \A r \in Runs : Traced(r) /\ \A e \in Employees : PayslipSound(r, e)

\* A run that is approved stays so.
LEMMA ApprovedStays ==
    ASSUME PayrollInv, [PayrollNext]_payrollVars, NEW s \in Runs
    PROVE  run[s].status \in Final => run'[s].status \in Final
BY StepRuns DEF RunStep, Frozen

LEMMA PayslipStays ==
    ASSUME NEW s \in Runs, NEW d \in Employees, PayslipSound(s, d),
           run[s].status \in Final => run'[s].status \in Final,
           payslip'[s][d] = payslip[s][d], snapshot'[s][d] = snapshot[s][d],
           payouts'[s][d] = payouts[s][d],
           <<s, d>> \in publishing' => <<s, d>> \in publishing
    PROVE  PayslipSound(s, d)'
BY DEF PayslipSound

\* GeneratePayrollRunUseCase writes payslips over while none has gone out.
LEMMA GeneratePayslips ==
    ASSUME PayrollInv, PayslipInv, NEW r \in Runs, NEW u \in Users, Generate(r, u),
           NEW s \in Runs, NEW d \in Employees
    PROVE  PayslipSound(s, d)'
<1> DEFINE n == generated[r] + 1
<1>1. /\ PayslipSound(s, d)
      /\ run[s].status \in Final => run'[s].status \in Final
      /\ run[r].status = "draft"
      /\ UNCHANGED <<publishing, payouts>>
  BY ApprovedStays DEF PayslipInv, Generate, callVars, PayrollNext
<1>2. PICK paid \in SUBSET Employees :
        /\ payslip' = [payslip EXCEPT ![r] = Recalculated(r, paid, n)]
        /\ snapshot' = [snapshot EXCEPT ![r] = [e \in Employees |-> IF e \in paid THEN n ELSE 0]]
  BY DEF Generate
<1>3. /\ payslip \in [Runs -> [Employees -> Payslip]]
      /\ snapshot \in [Runs -> [Employees -> 0 .. MaxGenerations]]
  BY DEF PayrollInv, PayrollTypeOK
<1>4. CASE s = r
  <2>1. /\ payslip[r][d].status # "published" /\ <<r, d>> \notin publishing
        /\ payouts[r][d] = 0
    BY <1>1, <1>4 DEF PayslipSound, Final
  <2>2. /\ payslip'[r][d] = IF d \in paid THEN Provisional(n) ELSE NoPayslip
        /\ snapshot'[r][d] = IF d \in paid THEN n ELSE 0
    BY <1>2, <1>3 DEF Recalculated
  <2>3. payslip'[r][d].status # "published" /\ payslip'[r][d].source \in {ByHand, snapshot'[r][d]}
    BY <2>2 DEF Provisional, NoPayslip
  <2> QED
    BY <1>1, <1>4, <2>1, <2>3 DEF PayslipSound
<1>5. CASE s # r
  <2>1. payslip'[s] = payslip[s] /\ snapshot'[s] = snapshot[s]
    BY <1>2, <1>3, <1>5
  <2> QED
    BY <1>1, <2>1, PayslipStays
<1> QED
  BY <1>4, <1>5

\* A payslip entered by hand, completed, or being published.
LEMMA PayslipSteps ==
    ASSUME PayrollInv, PayslipInv, NEW r \in Runs, NEW e \in Employees,
           \/ EnterPayslip(r, e) \/ ConfirmPayslip(r, e)
           \/ BeginPublish(r, e) \/ Publish(r, e),
           NEW s \in Runs, NEW d \in Employees
    PROVE  PayslipSound(s, d)'
<1>1. /\ PayslipSound(s, d) /\ PayslipSound(r, e)
      /\ payslip \in [Runs -> [Employees -> Payslip]]
      /\ payouts \in [Runs -> [Employees -> Nat]]
  BY DEF PayslipInv, PayrollInv, PayrollTypeOK
<1>2. UNCHANGED <<run, snapshot>>
  BY DEF EnterPayslip, ConfirmPayslip, BeginPublish, Publish, figureVars
<1>3. CASE s # r \/ d # e
  <2>1. payslip'[s][d] = payslip[s][d]
    BY <1>1, <1>3 DEF EnterPayslip, ConfirmPayslip, BeginPublish, Publish, figureVars
  <2>2. payouts'[s][d] = payouts[s][d]
    BY <1>1, <1>3 DEF EnterPayslip, ConfirmPayslip, BeginPublish, Publish, callVars
  <2>3. <<s, d>> \in publishing' => <<s, d>> \in publishing
    BY <1>3 DEF EnterPayslip, ConfirmPayslip, BeginPublish, Publish, callVars
  <2> QED
    BY <1>1, <1>2, <2>1, <2>2, <2>3, PayslipStays
<1>4. CASE s = r /\ d = e
  <2>1. CASE EnterPayslip(r, e)
    <3>1. /\ payslip'[r][e] = Provisional(ByHand) /\ run[r].status = "draft"
          /\ payslip[r][e].status \in {"none", "draft"}
          /\ UNCHANGED <<publishing, payouts>>
      BY <1>1, <2>1 DEF EnterPayslip, callVars
    <3>2. payslip'[r][e].source = ByHand /\ payslip'[r][e].status = "draft"
      BY <3>1 DEF Provisional
    <3> QED
      BY <1>1, <1>4, <3>1, <3>2 DEF PayslipSound, Final
  <2>2. CASE ConfirmPayslip(r, e)
    <3>1. /\ payslip'[r][e] = [payslip[r][e] EXCEPT !.confirmed = TRUE]
          /\ UNCHANGED <<publishing, payouts>>
      BY <1>1, <2>2 DEF ConfirmPayslip, callVars
    <3>2. /\ payslip'[r][e].source = payslip[r][e].source
          /\ payslip'[r][e].status = payslip[r][e].status
          /\ payslip'[r][e].confirmed = TRUE
      BY <1>1, <3>1 DEF Payslip
    <3> QED
      BY <1>1, <1>2, <1>4, <3>1, <3>2 DEF PayslipSound
  <2>3. CASE BeginPublish(r, e)
    <3>1. /\ payslip[r][e].confirmed /\ run[r].status \in Final
          /\ UNCHANGED <<payslip, payouts>>
      BY <2>3 DEF BeginPublish, Publishable, Confirmed, figureVars
    <3> QED
      BY <1>1, <1>2, <1>4, <3>1 DEF PayslipSound
  <2>4. CASE Publish(r, e)
    <3>1. /\ payslip[r][e].status = "draft" /\ <<r, e>> \in publishing
          /\ payslip'[r][e] = [payslip[r][e] EXCEPT !.status = "published", !.confirmed = TRUE]
          /\ payouts'[r][e] = payouts[r][e] + 1
      BY <1>1, <2>4 DEF Publish, StillDraft
    <3>2. /\ payslip'[r][e].source = payslip[r][e].source
          /\ payslip'[r][e].status = "published" /\ payslip'[r][e].confirmed = TRUE
      BY <1>1, <3>1 DEF Payslip
    <3>3. payouts[r][e] = 0 /\ run[r].status \in Final
      BY <1>1, <3>1 DEF PayslipSound
    <3> QED
      BY <1>1, <1>2, <1>4, <3>1, <3>2, <3>3 DEF PayslipSound
  <2> QED
    BY <2>1, <2>2, <2>3, <2>4
<1> QED
  BY <1>3, <1>4

\* What else happens to runs, requests and decisions leaves payslips alone.
LEMMA OtherSteps ==
    ASSUME PayrollInv, PayslipInv, [PayrollNext]_payrollVars,
           UNCHANGED <<payslip, snapshot, payouts>>, publishing' \subseteq publishing,
           NEW s \in Runs, NEW d \in Employees
    PROVE  PayslipSound(s, d)'
<1>1. PayslipSound(s, d) /\ (run[s].status \in Final => run'[s].status \in Final)
  BY ApprovedStays DEF PayslipInv
<1> QED
  BY <1>1, PayslipStays

LEMMA StepPayslips ==
    ASSUME PayrollInv, PayslipInv, [PayrollNext]_payrollVars, NEW s \in Runs, NEW d \in Employees
    PROVE  PayslipSound(s, d)'
<1>1. ASSUME UNCHANGED <<payslip, snapshot, payouts>>, publishing' \subseteq publishing
      PROVE  PayslipSound(s, d)'
  BY <1>1, OtherSteps
<1>2. CASE UNCHANGED payrollVars
  BY <1>1, <1>2 DEF payrollVars, figureVars, callVars
<1>3. ASSUME \/ \E r \in Runs, u \in Users : RequestApproval(r, u) \/ ApproveRun(r, u)
                                               \/ RejectRun(r, u) \/ PostRun(r, u)
             \/ \E r \in Runs : BeginUpdate(r) \/ UpdateRun(r)
             \/ \E e \in processed : LookUpRequest(e)
             \/ \E e \in asking, q \in Requests : InsertApprovalRequest(e, q)
             \/ \E q \in Requests, u \in Users : Decide(q, u)
             \/ \E q \in Requests : ApplyDecision(q) \/ IgnoreDecision(q)
      PROVE  PayslipSound(s, d)'
  <2>1. UNCHANGED <<payslip, snapshot, payouts>> /\ UNCHANGED publishing
    BY <1>3 DEF RequestApproval, ApproveRun, RejectRun, PostRun, BeginUpdate, UpdateRun,
                LookUpRequest, InsertApprovalRequest, Decide, ApplyDecision, IgnoreDecision,
                MarkApplied, figureVars, callVars
  <2> QED
    BY <1>1, <2>1
<1>4. CASE EndCall
  <2>1. UNCHANGED <<payslip, snapshot, payouts>> /\ publishing' \subseteq publishing
    BY <1>4 DEF EndCall, figureVars
  <2> QED
    BY <1>1, <2>1
<1> QED
  BY <1>2, <1>3, <1>4, GeneratePayslips, PayslipSteps DEF PayrollNext

\* The hash is written with the calculation, the lock with the posting.
LEMMA StepTraced ==
    ASSUME PayrollInv, PayslipInv, [PayrollNext]_payrollVars, NEW s \in Runs
    PROVE  Traced(s)'
<1>1. run \in [Runs -> Run] /\ Traced(s)
  BY DEF PayrollInv, PayrollTypeOK, PayslipInv
<1>2. ASSUME run'[s].status = "posted" => run[s].status = "posted",
             run'[s].status = "posted" => run'[s].hash = run[s].hash,
             locked \subseteq locked'
      PROVE  Traced(s)'
  BY <1>1, <1>2 DEF Traced
<1>3. ASSUME NEW r \in Runs, NEW u \in Users, PostRun(r, u)
      PROVE  Traced(s)'
  <2>1. /\ run' = [run EXCEPT ![r].status = "posted", ![r].postedBy = u]
        /\ locked' = locked \cup {r} /\ run[r].hash # 0
    BY <1>3 DEF PostRun
  <2>2. CASE s = r
    BY <1>1, <2>1, <2>2 DEF Traced, Run
  <2>3. CASE s # r
    BY <1>1, <2>1, <2>3 DEF Traced
  <2> QED
    BY <2>2, <2>3
<1>4. ASSUME NEW r \in Runs, NEW u, Approve(r, u) \/ SendBack(r, u), locked' = locked
      PROVE  Traced(s)'
  <2>1. /\ run'[s].status = "posted" => run[s].status = "posted"
        /\ run'[s].status = "posted" => run'[s].hash = run[s].hash
    BY <1>1, <1>4 DEF Approve, SendBack, Run
  <2> QED
    BY <1>2, <1>4, <2>1
<1>5. ASSUME NEW r \in Runs, NEW u \in Users, Generate(r, u) \/ RequestApproval(r, u)
      PROVE  Traced(s)'
  <2>1. PICK hash : run' = [run EXCEPT ![r].status = "pending_approval", ![r].hash = hash]
    <3>1. CASE Generate(r, u)
      BY <3>1 DEF Generate
    <3>2. CASE RequestApproval(r, u)
      <4>1. run' = [run EXCEPT ![r].status = "pending_approval", ![r].hash = run[r].hash]
        BY <1>1, <3>2 DEF RequestApproval, Run
      <4> QED
        BY <4>1
    <3> QED
      BY <1>5, <3>1, <3>2
  <2>2. locked' = locked
    BY <1>5 DEF Generate, RequestApproval, figureVars
  <2>3. /\ run'[s].status = "posted" => run[s].status = "posted"
        /\ run'[s].status = "posted" => run'[s].hash = run[s].hash
    BY <1>1, <2>1 DEF Run
  <2> QED
    BY <1>2, <2>2, <2>3
<1>6. ASSUME NEW r \in Runs, UpdateRun(r)
      PROVE  Traced(s)'
  <2>1. PICK p \in Periods : run' = [run EXCEPT ![r].period = p]
    BY <1>6 DEF UpdateRun
  <2>2. locked' = locked
    BY <1>6 DEF UpdateRun, figureVars
  <2>3. /\ run'[s].status = "posted" => run[s].status = "posted"
        /\ run'[s].status = "posted" => run'[s].hash = run[s].hash
    BY <1>1, <2>1 DEF Run
  <2> QED
    BY <1>2, <2>2, <2>3
<1>7. ASSUME NEW q \in Requests, ApplyDecision(q)
      PROVE  Traced(s)'
  <2>1. Approve(RunOf[q], decider[q]) \/ SendBack(RunOf[q], decider[q])
    BY <1>7 DEF ApplyDecision
  <2>2. RunOf[q] \in Runs /\ locked' = locked
    BY <1>7, RunOfAssumption DEF ApplyDecision, MarkApplied, figureVars
  <2> QED
    BY <1>4, <2>1, <2>2
<1>8. ASSUME NEW r \in Runs, NEW u \in Users, ApproveRun(r, u) \/ RejectRun(r, u)
      PROVE  Traced(s)'
  <2>1. (Approve(r, u) \/ SendBack(r, u)) /\ locked' = locked
    BY <1>8 DEF ApproveRun, RejectRun, figureVars
  <2> QED
    BY <1>4, <2>1
<1>9. ASSUME UNCHANGED <<run, locked>>
      PROVE  Traced(s)'
  BY <1>1, <1>9 DEF Traced
<1>10. ASSUME \/ \E r \in Runs : BeginUpdate(r)
              \/ \E r \in Runs, e \in Employees : \/ EnterPayslip(r, e) \/ ConfirmPayslip(r, e)
                                                  \/ BeginPublish(r, e) \/ Publish(r, e)
              \/ \E e \in processed : LookUpRequest(e)
              \/ \E e \in asking, q \in Requests : InsertApprovalRequest(e, q)
              \/ \E q \in Requests, u \in Users : Decide(q, u)
              \/ \E q \in Requests : IgnoreDecision(q)
              \/ EndCall
              \/ UNCHANGED payrollVars
       PROVE  Traced(s)'
  <2>1. UNCHANGED <<run, locked>>
    BY <1>10 DEF BeginUpdate, EnterPayslip, ConfirmPayslip, BeginPublish, Publish, LookUpRequest,
                 InsertApprovalRequest, Decide, IgnoreDecision, MarkApplied, EndCall, figureVars,
                 payrollVars
  <2> QED
    BY <1>9, <2>1
<1> QED
  BY <1>3, <1>5, <1>6, <1>7, <1>8, <1>10 DEF PayrollNext

\* Which inputs each payslip comes from and whether it has gone out, whatever
\* calculations, updates and publications are under way.
THEOREM PayslipInvariant == PayrollSpec => []PayslipInv
<1>1. PayrollInit => PayslipInv
  <2> SUFFICES ASSUME PayrollInit, NEW r \in Runs
               PROVE  Traced(r) /\ \A e \in Employees : PayslipSound(r, e)
    BY DEF PayslipInv
  <2>1. run[r].status = "draft" /\ publishing = {}
    BY DEF PayrollInit
  <2>2. \A e \in Employees : /\ payslip[r][e] = NoPayslip
                             /\ payouts[r][e] = 0
    BY DEF PayrollInit
  <2> QED
    BY <2>1, <2>2 DEF Traced, PayslipSound, NoPayslip
<1>2. PayrollInv /\ PayslipInv /\ [PayrollNext]_payrollVars => PayslipInv'
  BY StepPayslips, StepTraced DEF PayslipInv
<1> QED
  BY <1>1, <1>2, PayrollInvariant, PTL DEF PayrollSpec

\* The payslips of a posted run come from the inputs that its posting locked.
THEOREM PostingsAreTraceable == PayrollSpec => []PostedIsTraceable
<1>1. PayslipInv => PostedIsTraceable
  BY DEF PayslipInv, Traced, PayslipSound, PostedIsTraceable
<1> QED
  BY <1>1, PayslipInvariant, PTL

\* However often its publication is started, a payslip goes to its employee
\* once, complete and with its run approved.
THEOREM PayslipsGoOutOnce == PayrollSpec => []PublishedOnce
<1>1. PayslipInv => PublishedOnce
  BY DEF PayslipInv, PayslipSound, PublishedOnce
<1> QED
  BY <1>1, PayslipInvariant, PTL
-----------------------------------------------------------------------------
(***************************************************************************)
(* The engine, as payroll uses it.                                         *)
(***************************************************************************)

\* Only a handler that inserts a request and whoever decides it move the
\* engine, within what ApprovalDecision allows; no use case of payroll does.
THEOREM PayrollKeepsEngineContract == PayrollSpec => DecisionSpec
<1>1. PayrollInit => DecisionInit
  BY DEF PayrollInit
<1>2. [PayrollNext]_payrollVars => [DecisionNext]_decisionVars
  <2> SUFFICES ASSUME [PayrollNext]_payrollVars PROVE [DecisionNext]_decisionVars
    OBVIOUS
  <2>1. CASE UNCHANGED payrollVars
    BY <2>1 DEF payrollVars
  <2>2. ASSUME NEW r \in Runs, NEW u \in Users,
               \/ Generate(r, u) \/ RequestApproval(r, u)
               \/ ApproveRun(r, u) \/ RejectRun(r, u) \/ PostRun(r, u)
        PROVE  UNCHANGED decisionVars
    BY <2>2 DEF Generate, RequestApproval, ApproveRun, RejectRun, PostRun
  <2>3. ASSUME NEW r \in Runs, NEW e \in Employees,
               \/ EnterPayslip(r, e) \/ ConfirmPayslip(r, e)
               \/ BeginPublish(r, e) \/ Publish(r, e)
        PROVE  UNCHANGED decisionVars
    BY <2>3 DEF EnterPayslip, ConfirmPayslip, BeginPublish, Publish
  <2>4. ASSUME NEW r \in Runs, BeginUpdate(r) \/ UpdateRun(r) PROVE UNCHANGED decisionVars
    BY <2>4 DEF BeginUpdate, UpdateRun
  <2>5. ASSUME NEW e \in processed, LookUpRequest(e) PROVE UNCHANGED decisionVars
    BY <2>5 DEF LookUpRequest
  <2>6. ASSUME NEW e \in asking, NEW q \in Requests, InsertApprovalRequest(e, q)
        PROVE  DecisionNext
    BY <2>6 DEF InsertApprovalRequest, DecisionNext
  <2>7. ASSUME NEW q \in Requests, NEW u \in Users, Decide(q, u) PROVE DecisionNext
    BY <2>7 DEF Decide, DecisionNext
  <2>8. ASSUME NEW q \in Requests, ApplyDecision(q) \/ IgnoreDecision(q)
        PROVE  UNCHANGED decisionVars
    BY <2>8 DEF ApplyDecision, IgnoreDecision, MarkApplied
  <2>9. CASE EndCall
    BY <2>9 DEF EndCall
  <2> QED
    BY <2>1, <2>2, <2>3, <2>4, <2>5, <2>6, <2>7, <2>8, <2>9 DEF PayrollNext
<1> QED
  BY <1>1, <1>2, PTL DEF PayrollSpec, DecisionSpec
=============================================================================
