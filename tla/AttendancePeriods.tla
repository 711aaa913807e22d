------------------------- MODULE AttendancePeriods -------------------------
(***************************************************************************)
(* One attendance period: its status and snapshots (PeriodLockService),    *)
(* the days in it (clock events, batch save, override, exception, leave),  *)
(* the verification of its employees and the adjustments after it closed.  *)
(*                                                                         *)
(* Everybody reads the period's status first and writes later; the writes  *)
(* do not look again.  An employee stands for one of his days.  A period   *)
(* without a row is open: whoever needs the row inserts it so.  Nothing in *)
(* the source ever writes payroll_processing or payroll_posted.            *)
(***************************************************************************)
EXTENDS Naturals, FiniteSets

CONSTANTS
    Employees,
    Corrections,  \* what an override may say of a day
    Adjustments,  \* rows of attendance_adjustments
    Clerks,       \* calls of the period's endpoints that run at a time
    Editors,      \* calls that write a day
    Nobody,       \* holder of a lock that is free
    MaxVersions   \* bound on snapshots

ASSUME AttendanceAssumption ==
    /\ Nobody \notin Editors
    /\ Corrections \cap {"none", "absent", "present", "leave", "worked"} = {}
    /\ MaxVersions \in Nat

VARIABLES
    status,        \* attendance_period_locks.status
    snapshot,      \* the latest timesheet_snapshots: their version and figures
    snapshotted,   \* employees with a snapshot, of any version
    verification,  \* attendance_period_employee_verification
    adjustment,    \* attendance_adjustments
    punches,       \* attendances: the clock events of a day
    summary,       \* attendance_daily_summaries
    override,      \* attendance_summary_overrides
    exception,     \* attendance_exceptions: the missing punch
    dayLock,       \* the advisory lock of a day
    leave,         \* the leave request for the day
    clerk, editor, \* the running calls
    stray,         \* what was written past the status its writer had read
    misled         \* employees whose leave was reconciled with a day it had not read

periodVars == <<status, snapshot, snapshotted>>
dayVars == <<punches, summary, override, exception>>
attendanceVars == <<periodVars, verification, adjustment, dayVars, dayLock, leave,
                    clerk, editor, stray, misled>>

Statuses == {"open", "in_review", "locked", "payroll_processing", "payroll_posted", "closed"}
Editable == {"open", "in_review"}

Moves == {"review", "approve", "lock", "unlock", "close", "reopen"}
From == [review |-> {"open"}, approve |-> {"in_review"}, lock |-> {"open", "in_review"},
         unlock |-> {"locked"}, close |-> {"locked", "payroll_posted"},
         reopen |-> {"locked", "closed"}]
To == [review |-> "in_review", approve |-> "locked", lock |-> "locked",
       unlock |-> "open", close |-> "closed", reopen |-> "open"]
Snapshotting == {"approve", "lock", "close"}

BothPunches == {"check_in", "check_out"}
Summary == [status : {"none", "absent", "present", "leave"} \cup Corrections,
            minutes : {"none", "worked"} \cup Corrections, leave : BOOLEAN]
NoSummary == [status |-> "none", minutes |-> "none", leave |-> FALSE]

\* What payroll is told of a day, the override or else the summary: whether it
\* is a working day, and its minutes.
NoFigures == <<"none", "none">>
WorkingDay(said) == IF said \in {"absent", "leave"} THEN "off" ELSE "working"
Figures(e) ==
    IF override[e] # "none" THEN <<"working", override[e]>>
    ELSE IF summary[e].status = "none" THEN NoFigures
    ELSE <<WorkingDay(summary[e].status), summary[e].minutes>>
AllFigures == [e \in Employees |-> Figures(e)]

IdleClerk == [op |-> "none", pc |-> "idle", seen |-> "open", figures |-> <<>>, of |-> "none",
              dirty |-> {}]
IdleEditor == [op |-> "none", pc |-> "idle", of |-> "none", seen |-> "open", add |-> {},
               read |-> {}, to |-> "none", day |-> NoSummary]

AdjustmentStatus == {"none", "requested", "approved", "rejected", "applied"}
NextStatus == [none |-> {}, requested |-> {"approved", "rejected"}, approved |-> {"applied"},
               rejected |-> {}, applied |-> {}]

AttendanceTypeOK ==
    /\ status \in Statuses
    /\ snapshot.version \in 0..MaxVersions /\ DOMAIN snapshot.figures = Employees
    /\ snapshotted \subseteq Employees
    /\ verification \in [Employees -> {"untracked", "draft", "done"}]
    /\ \A a \in Adjustments :
          /\ adjustment[a].status \in AdjustmentStatus
          /\ adjustment[a].of \in Employees \cup {"none"} /\ adjustment[a].approved \in BOOLEAN
    /\ punches \in [Employees -> SUBSET BothPunches]
    /\ summary \in [Employees -> Summary]
    /\ override \in [Employees -> Corrections \cup {"none"}]
    /\ exception \in [Employees -> {"none", "pending", "resolved"}]
    /\ dayLock \in [Employees -> Editors \cup {Nobody}]
    /\ leave \in [Employees -> {"none", "approved", "cancelled"}]
    /\ \A c \in Clerks : DOMAIN clerk[c] = DOMAIN IdleClerk
    /\ \A d \in Editors : DOMAIN editor[d] = DOMAIN IdleEditor
    /\ stray \subseteq {"figures", "draft"} \X Employees
    /\ misled \subseteq Employees

AttendanceInit ==
    /\ status = "open"
    /\ snapshot = [version |-> 0, figures |-> [e \in Employees |-> NoFigures]]
    /\ snapshotted = {}
    /\ verification = [e \in Employees |-> "untracked"]
    /\ adjustment = [a \in Adjustments |-> [status |-> "none", of |-> "none", approved |-> FALSE]]
    /\ punches = [e \in Employees |-> {}]
    /\ summary = [e \in Employees |-> NoSummary]
    /\ override = [e \in Employees |-> "none"]
    /\ exception = [e \in Employees |-> "none"]
    /\ dayLock = [e \in Employees |-> Nobody]
    /\ leave = [e \in Employees |-> "none"]
    /\ clerk = [c \in Clerks |-> IdleClerk]
    /\ editor = [d \in Editors |-> IdleEditor]
    /\ stray = {} /\ misled = {}

-----------------------------------------------------------------------------
(***************************************************************************)
(* Writes that may pass a lock.                                            *)
(***************************************************************************)

\* The calls that have read what is about to be written.
HasRead(c, what) ==
    \/ what = "figures" /\ clerk[c].pc = "move" /\ clerk[c].op \in Snapshotting
    \/ what = "draft" /\ clerk[c].op = "close" /\ clerk[c].pc \in {"read", "move"}

\* A writer that read an editable period, or did not have to, writes of e;
\* others is what else changes of the calls.
WritesPast(excused, what, e, others) ==
    /\ stray' = IF excused /\ status \notin Editable THEN stray \cup {<<what, e>>} ELSE stray
    /\ clerk' = [c \in Clerks |->
                   IF excused /\ HasRead(c, what)
                     THEN [others[c] EXCEPT !.dirty = @ \cup {<<what, e>>}]
                     ELSE others[c]]

-----------------------------------------------------------------------------
(***************************************************************************)
(* The period: assertCan on a read of its own, then one transaction, whose *)
(* reads of the days are not part of it.                                   *)
(***************************************************************************)

FinishClerk(c) == [clerk EXCEPT ![c] = IdleClerk]
ClerkGoesOn(c, pc) == [clerk EXCEPT ![c].pc = pc]

MayMove(op) == status \in From[op]

BeginMove(c, op) ==
    /\ clerk[c] = IdleClerk
    /\ MayMove(op)
    /\ clerk' = [clerk EXCEPT ![c] =
                   [IdleClerk EXCEPT !.op = op,
                                     !.pc = IF op = "close" THEN "exceptions"
                                            ELSE IF op \in Snapshotting THEN "read"
                                            ELSE "move"]]
    /\ UNCHANGED <<periodVars, verification, adjustment, dayVars, dayLock, leave, editor,
                   stray, misled>>

\* Mutant: only the exceptions are validated.
ValidateClose_Mut(c) ==
    /\ clerk[c].pc = "exceptions"
    /\ clerk' = IF \A e \in Employees : exception[e] # "pending"
                  THEN ClerkGoesOn(c, "read") ELSE FinishClerk(c)
    /\ UNCHANGED <<periodVars, verification, adjustment, dayVars, dayLock, leave, editor,
                   stray, misled>>

\* The two close validators, in the order they are registered in.
ValidateClose(c) ==
    /\ \/ /\ clerk[c].pc = "exceptions"
          /\ clerk' = IF \A e \in Employees : exception[e] # "pending"
                        THEN ClerkGoesOn(c, "verified") ELSE FinishClerk(c)
       \/ /\ clerk[c].pc = "verified"
          /\ clerk' = IF \A e \in Employees : verification[e] # "draft"
                        THEN ClerkGoesOn(c, "read") ELSE FinishClerk(c)
    /\ UNCHANGED <<periodVars, verification, adjustment, dayVars, dayLock, leave, editor,
                   stray, misled>>

\* Mutant: the snapshot is taken of the summaries, without the overrides.
ReadTruth_Mut(c) ==
    /\ clerk[c].op \in Snapshotting /\ clerk[c].pc = "read"
    /\ clerk' = [clerk EXCEPT ![c].pc = "move",
                   ![c].figures = [e \in Employees |->
                      IF summary[e].status = "none" THEN NoFigures
                        ELSE <<WorkingDay(summary[e].status), summary[e].minutes>>]]
    /\ UNCHANGED <<periodVars, verification, adjustment, dayVars, dayLock, leave, editor,
                   stray, misled>>

ReadTruth(c) ==
    /\ clerk[c].op \in Snapshotting /\ clerk[c].pc = "read"
    /\ clerk' = [clerk EXCEPT ![c].pc = "move", ![c].figures = AllFigures]
    /\ UNCHANGED <<periodVars, verification, adjustment, dayVars, dayLock, leave, editor,
                   stray, misled>>

\* Snapshots are inserted for the employees with a summary, if there is one.
InsertSnapshots(figures) ==
    LET present == {e \in Employees : figures[e] # NoFigures} IN
    IF present = {}
      THEN UNCHANGED <<snapshot, snapshotted>>
      ELSE /\ snapshot.version < MaxVersions
           /\ snapshot' = [version |-> snapshot.version + 1, figures |-> figures]
           /\ snapshotted' = snapshotted \cup present

Move(c) ==
    LET op == clerk[c].op IN
    /\ op \in Moves /\ clerk[c].pc = "move"
    /\ status' = To[op]
    /\ IF op \in Snapshotting THEN InsertSnapshots(clerk[c].figures)
                              ELSE UNCHANGED <<snapshot, snapshotted>>
    /\ stray' = clerk[c].dirty
    /\ clerk' = FinishClerk(c)
    /\ UNCHANGED <<verification, adjustment, dayVars, dayLock, leave, editor, misled>>

\* verifyEmployee: the row is inserted as a draft if it is missing, then marked.
BeginVerify(c, e, op) ==
    /\ clerk[c] = IdleClerk
    /\ op \in {"verify", "unverify"}
    /\ status \in Editable
    /\ op = "unverify" => verification[e] # "untracked"
    /\ clerk' = [clerk EXCEPT ![c] = [IdleClerk EXCEPT !.op = op, !.seen = status, !.of = e,
                                        !.pc = IF op = "verify" THEN "ensure" ELSE "write"]]
    /\ UNCHANGED <<periodVars, verification, adjustment, dayVars, dayLock, leave, editor,
                   stray, misled>>

EnsureVerification(c) ==
    LET e == clerk[c].of
        inserts == verification[e] = "untracked" IN
    /\ clerk[c].pc = "ensure"
    /\ verification' = IF inserts THEN [verification EXCEPT ![e] = "draft"] ELSE verification
    /\ WritesPast(inserts /\ clerk[c].seen \in Editable, "draft", e, ClerkGoesOn(c, "write"))
    /\ UNCHANGED <<periodVars, adjustment, dayVars, dayLock, leave, editor, misled>>

WriteVerification(c) ==
    LET e == clerk[c].of
        done == clerk[c].op = "verify" IN
    /\ clerk[c].op \in {"verify", "unverify"} /\ clerk[c].pc = "write"
    /\ verification' = [verification EXCEPT ![e] = IF done THEN "done" ELSE "draft"]
    /\ WritesPast(~done /\ clerk[c].seen \in Editable, "draft", e, FinishClerk(c))
    /\ UNCHANGED <<periodVars, adjustment, dayVars, dayLock, leave, editor, misled>>

\* A statement or the instance fails; a transaction leaves nothing.
GiveUp(c) ==
    /\ clerk[c] # IdleClerk
    /\ clerk' = FinishClerk(c)
    /\ UNCHANGED <<periodVars, verification, adjustment, dayVars, dayLock, leave, editor,
                   stray, misled>>

-----------------------------------------------------------------------------
(***************************************************************************)
(* Adjustments of a closed period.                                         *)
(***************************************************************************)

\* Mutant: without the employee's snapshot.
BeginAdjustment_Mut(c, a, e) ==
    /\ clerk[c] = IdleClerk
    /\ adjustment[a].status = "none"
    /\ status = "closed"
    /\ clerk' = [clerk EXCEPT ![c] = [IdleClerk EXCEPT !.op = "adjust", !.of = <<a, e>>,
                                        !.seen = "none", !.pc = "requested"]]
    /\ UNCHANGED <<periodVars, verification, adjustment, dayVars, dayLock, leave, editor,
                   stray, misled>>

BeginAdjustment(c, a, e) ==
    /\ clerk[c] = IdleClerk
    /\ adjustment[a].status = "none"
    /\ status = "closed" /\ e \in snapshotted
    /\ clerk' = [clerk EXCEPT ![c] = [IdleClerk EXCEPT !.op = "adjust", !.of = <<a, e>>,
                                        !.seen = "none", !.pc = "requested"]]
    /\ UNCHANGED <<periodVars, verification, adjustment, dayVars, dayLock, leave, editor,
                   stray, misled>>

MayDecide(a, to) == to \in NextStatus[adjustment[a].status]

BeginAdjustmentDecision(c, a, to) ==
    /\ clerk[c] = IdleClerk
    /\ MayDecide(a, to)
    /\ clerk' = [clerk EXCEPT ![c] =
                   [IdleClerk EXCEPT !.op = "adjust", !.of = <<a, adjustment[a].of>>,
                                     !.seen = adjustment[a].status, !.pc = to]]
    /\ UNCHANGED <<periodVars, verification, adjustment, dayVars, dayLock, leave, editor,
                   stray, misled>>

\* updateAdjustment writes by id, the insert a row nobody knows yet.
WriteAdjustment(c) ==
    LET a == clerk[c].of[1]
        to == clerk[c].pc IN
    /\ clerk[c].op = "adjust"
    /\ clerk[c].seen = "none" => adjustment[a].status = "none"
    /\ adjustment' = [adjustment EXCEPT ![a].status = to, ![a].of = clerk[c].of[2],
                                        ![a].approved = @ \/ to = "approved"]
    /\ clerk' = FinishClerk(c)
    /\ UNCHANGED <<periodVars, verification, dayVars, dayLock, leave, editor, stray, misled>>

-----------------------------------------------------------------------------
(***************************************************************************)
(* The days.                                                               *)
(***************************************************************************)

Begin(d, call) == editor[d] = IdleEditor /\ editor' = [editor EXCEPT ![d] = call]
Finish(d) == editor' = [editor EXCEPT ![d] = IdleEditor]
GoOn(d, pc) == editor' = [editor EXCEPT ![d].pc = pc]
Checked(d) == editor[d].seen \in Editable

\* createClockEvent, batchSave and overrideAttendanceSummary look at the period.
BeginEdit(d, e) ==
    /\ status \in Editable
    /\ \/ \E op \in {"clock", "save"} :
             Begin(d, [IdleEditor EXCEPT !.op = op, !.of = e, !.seen = status,
                                         !.pc = "lock"])
       \/ \E v \in Corrections :
             Begin(d, [IdleEditor EXCEPT !.op = "correct", !.of = e, !.seen = status,
                                         !.pc = "punches", !.to = v])
    /\ UNCHANGED <<periodVars, verification, adjustment, dayVars, dayLock, leave, clerk,
                   stray, misled>>

\* Resolving an exception does not.
BeginResolve(d, e) ==
    /\ exception[e] # "none"
    /\ Begin(d, [IdleEditor EXCEPT !.op = "resolve", !.of = e, !.pc = "lock"])
    /\ UNCHANGED <<periodVars, verification, adjustment, dayVars, dayLock, leave, clerk,
                   stray, misled>>

\* The transaction of a day takes its lock, writes its events and reads them back.
LockDay(d) ==
    LET e == editor[d].of IN
    /\ editor[d].pc = "lock" /\ dayLock[e] = Nobody
    /\ dayLock' = [dayLock EXCEPT ![e] = d]
    /\ \E add \in SUBSET BothPunches :
          /\ CASE editor[d].op = "clock" -> Cardinality(add) = 1
               [] editor[d].op = "save" -> add = BothPunches
               [] OTHER -> add = {}
          /\ editor' = [editor EXCEPT ![d].pc = "commit", ![d].add = add,
                                      ![d].read = punches[e] \cup add]
    /\ UNCHANGED <<periodVars, verification, adjustment, dayVars, leave, clerk, stray, misled>>

Missing(p) == p # {} /\ p # BothPunches

\* Mutant: the whole summary is replaced, the leave it refers to included.
Recomputed_Mut(day, p) ==
    [status |-> IF p = {} THEN "absent" ELSE "present",
     minutes |-> IF p = BothPunches THEN "worked" ELSE "none", leave |-> FALSE]

\* compute: what the status and the minutes are for these events.
Recomputed(day, p) ==
    [day EXCEPT !.status = IF p = {} THEN "absent" ELSE "present",
                !.minutes = IF p = BothPunches THEN "worked" ELSE "none"]

\* replaceExceptionsForEmployeeDay: a pending one is deleted, what is detected
\* is pending again whatever it was before.
Redetected(before, p) ==
    IF Missing(p) THEN "pending" ELSE IF before = "pending" THEN "none" ELSE before

\* The summary and the exceptions follow from the events that were read.
CommitDay(d) ==
    LET e == editor[d].of
        before == IF editor[d].op = "resolve" THEN "resolved" ELSE exception[e] IN
    /\ editor[d].pc = "commit"
    /\ punches' = [punches EXCEPT ![e] = @ \cup editor[d].add]
    /\ summary' = [summary EXCEPT ![e] = Recomputed(@, editor[d].read)]
    /\ exception' = [exception EXCEPT ![e] = Redetected(before, editor[d].read)]
    /\ dayLock' = [dayLock EXCEPT ![e] = Nobody]
    /\ Finish(d)
    /\ WritesPast(editor[d].op = "resolve" \/ Checked(d), "figures", e, clerk)
    /\ UNCHANGED <<periodVars, verification, adjustment, override, leave, misled>>

\* The override deletes an event and inserts it, or not, for each time it is
\* given, writes the summary, then its own row: statements on their own, none of
\* which takes the lock of the day.
WritePunch(d, p) ==
    LET e == editor[d].of IN
    /\ editor[d].pc = "punches"
    /\ \E left \in {punches[e] \cup {p}, punches[e] \ {p}} :
          punches' = [punches EXCEPT ![e] = left]
    /\ UNCHANGED <<periodVars, verification, adjustment, summary, override, exception, dayLock,
                   leave, clerk, editor, stray, misled>>

WriteSummary(d) ==
    LET e == editor[d].of IN
    /\ editor[d].pc = "punches"
    /\ summary' = [summary EXCEPT ![e].status = editor[d].to, ![e].minutes = editor[d].to]
    /\ GoOn(d, "override")
    /\ WritesPast(Checked(d), "figures", e, clerk)
    /\ UNCHANGED <<periodVars, verification, adjustment, punches, override, exception, dayLock,
                   leave, misled>>

WriteOverride(d) ==
    LET e == editor[d].of IN
    /\ editor[d].pc = "override"
    /\ override' = [override EXCEPT ![e] = editor[d].to]
    /\ Finish(d)
    /\ WritesPast(Checked(d), "figures", e, clerk)
    /\ UNCHANGED <<periodVars, verification, adjustment, punches, summary, exception, dayLock,
                   leave, misled>>

\* A punch from the web or the app: neither the period nor the summary is looked at.
Punch(e, p) ==
    /\ p \notin punches[e]
    /\ punches' = [punches EXCEPT ![e] = @ \cup {p}]
    /\ UNCHANGED <<periodVars, verification, adjustment, summary, override, exception, dayLock,
                   leave, clerk, editor, stray, misled>>

-----------------------------------------------------------------------------
(***************************************************************************)
(* Leave: the decision and the cancellation commit, then each reconciles   *)
(* the day, with a read and a write.                                       *)
(***************************************************************************)

Reconciling(e) == {d \in Editors : editor[d].op \in {"grant", "withdraw"} /\ editor[d].of = e}

DecideLeave(d, e, op) ==
    /\ leave[e] = IF op = "grant" THEN "none" ELSE "approved"
    /\ leave' = [leave EXCEPT ![e] = IF op = "grant" THEN "approved" ELSE "cancelled"]
    /\ Begin(d, [IdleEditor EXCEPT !.op = op, !.of = e, !.pc = "read"])
    /\ misled' = IF Reconciling(e) # {} THEN misled \cup {e} ELSE misled
    /\ UNCHANGED <<periodVars, verification, adjustment, dayVars, dayLock, clerk, stray>>

\* reconcileCanceledLeave finds the days that carry the leave.
ReadDay(d) ==
    LET e == editor[d].of IN
    /\ editor[d].pc = "read"
    /\ IF editor[d].op = "grant" \/ summary[e].leave
         THEN editor' = [editor EXCEPT ![d].pc = "write", ![d].day = summary[e]]
         ELSE Finish(d)
    /\ UNCHANGED <<periodVars, verification, adjustment, dayVars, dayLock, leave, clerk,
                   stray, misled>>

\* A day that was worked keeps the status it was read with.
LeaveStatus(op, day) ==
    IF day.minutes # "none" THEN day.status
    ELSE IF op = "grant" THEN "leave" ELSE "absent"

WriteDay(d) ==
    LET e == editor[d].of
        op == editor[d].op IN
    /\ editor[d].pc = "write"
    /\ summary' = [summary EXCEPT ![e].status = LeaveStatus(op, editor[d].day),
                                  ![e].leave = (op = "grant")]
    /\ misled' = IF summary[e] # editor[d].day THEN misled \cup {e} ELSE misled
    /\ Finish(d)
    /\ WritesPast(TRUE, "figures", e, clerk)
    /\ UNCHANGED <<periodVars, verification, adjustment, punches, override, exception, dayLock,
                   leave>>

\* A statement or the instance fails; the transaction of a day leaves nothing.
Fail(d) ==
    LET e == editor[d].of IN
    /\ editor[d] # IdleEditor
    /\ misled' = IF d \in Reconciling(e) THEN misled \cup {e} ELSE misled
    /\ dayLock' = [x \in Employees |-> IF dayLock[x] = d THEN Nobody ELSE dayLock[x]]
    /\ Finish(d)
    /\ UNCHANGED <<periodVars, verification, adjustment, dayVars, leave, clerk, stray>>

-----------------------------------------------------------------------------

StatusNext(c) ==
    \/ \E op \in Moves : BeginMove(c, op)
    \/ ValidateClose(c) \/ ReadTruth(c) \/ Move(c) \/ GiveUp(c)

VerificationNext(c) ==
    \/ \E e \in Employees, op \in {"verify", "unverify"} : BeginVerify(c, e, op)
    \/ EnsureVerification(c) \/ WriteVerification(c)

AdjustmentNext(c) ==
    \/ \E a \in Adjustments, e \in Employees : BeginAdjustment(c, a, e)
    \/ \E a \in Adjustments, to \in AdjustmentStatus : BeginAdjustmentDecision(c, a, to)
    \/ WriteAdjustment(c)

EditNext(d) ==
    \/ \E e \in Employees : BeginEdit(d, e) \/ BeginResolve(d, e)
    \/ LockDay(d) \/ CommitDay(d)
    \/ \E p \in BothPunches : WritePunch(d, p)
    \/ WriteSummary(d) \/ WriteOverride(d)
    \/ Fail(d)

LeaveNext(d) ==
    \/ \E e \in Employees, op \in {"grant", "withdraw"} : DecideLeave(d, e, op)
    \/ ReadDay(d) \/ WriteDay(d) \/ Fail(d)

AttendanceNext ==
    \/ \E c \in Clerks : StatusNext(c) \/ VerificationNext(c) \/ AdjustmentNext(c)
    \/ \E d \in Editors : EditNext(d) \/ LeaveNext(d)
    \/ \E e \in Employees, p \in BothPunches : Punch(e, p)

AttendanceSpec == AttendanceInit /\ [][AttendanceNext]_attendanceVars

-----------------------------------------------------------------------------
(***************************************************************************)
(* Properties.                                                             *)
(***************************************************************************)

\* While a period is locked or closed its latest snapshot says of every day what
\* payroll is told of it, unless the day was written by an editor that had seen
\* the period open, or by one that does not look.
SnapshotIsTruth ==
    status \in {"locked", "closed"} =>
        \A e \in Employees :
            <<"figures", e>> \in stray \/ snapshot.figures[e] = Figures(e)

\* Every employee who is tracked in a closed period is verified, unless somebody
\* who saw it open, or whom the validation had passed, took that back.
ClosedIsVerified ==
    status = "closed" =>
        \A e \in Employees : <<"draft", e>> \in stray \/ verification[e] # "draft"

\* An adjustment is of an employee whose figures were published, and is applied
\* only if somebody approved it, even if it was rejected at the same time.
AdjustmentsAreFounded ==
    \A a \in Adjustments : adjustment[a].status # "none" =>
        /\ adjustment[a].of \in snapshotted
        /\ adjustment[a].status = "applied" => adjustment[a].approved

\* In the end a day carries a leave exactly if it was approved and not cancelled,
\* and does not say "leave" otherwise, unless its reconciliation failed, was
\* overtaken by the other one, or wrote a day that had changed since it was read.
LeaveShows ==
    \A e \in Employees \ misled : Reconciling(e) = {} =>
        /\ summary[e].leave <=> leave[e] = "approved"
        /\ summary[e].status = "leave" => summary[e].leave

\* What payroll reads of a closed period is what was published for it.
PayrollSeesTheSnapshot ==
    status = "closed" => snapshot.figures = AllFigures
=============================================================================
