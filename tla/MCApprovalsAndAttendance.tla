--------------------- MODULE MCApprovalsAndAttendance ---------------------
\* Two components that share no row, and four scenes of the second: `scene'
\* chooses, at the start, who is at work, so that states add up instead of
\* multiplying.  "engine" is ApprovalEngine.  Of AttendancePeriods, "closing"
\* has two clerks on the status and an editor of the day, "verifying" two clerks
\* on the status and the verification, "decisions" two clerks on the adjustments
\* while one is on the status and an editor saves a day or decides a leave,
\* "days" two editors and the punches, with the period open.
EXTENDS MCApprovalEngine, AttendancePeriods

CONSTANT LoneEditor   \* the one at work in the scenes that have only one

ASSUME LoneEditorAssumption == LoneEditor \in Editors

VARIABLE scene

Scenes == {"engine", "closing", "verifying", "decisions", "days"}

Symmetry == Permutations(Clerks)

Closing ==
    \/ \E c \in Clerks : StatusNext(c)
    \/ /\ \/ \E e \in Employees : BeginEdit(LoneEditor, e) \/ BeginResolve(LoneEditor, e)
          \/ LockDay(LoneEditor) \/ CommitDay(LoneEditor)
          \/ WriteSummary(LoneEditor) \/ WriteOverride(LoneEditor)
       /\ editor'[LoneEditor].op # "save"

Verifying == \E c \in Clerks : StatusNext(c) \/ VerificationNext(c)

OneMove(c) ==
    /\ \A other \in Clerks \ {c} : clerk[other].op \notin Moves
    /\ StatusNext(c)

Decisions ==
    \/ \E c \in Clerks : OneMove(c) \/ AdjustmentNext(c)
    \/ /\ EditNext(LoneEditor) \/ LeaveNext(LoneEditor)
       /\ editor'[LoneEditor].op \in {"none", "save", "grant", "withdraw"}

Days ==
    \/ \E d \in Editors : EditNext(d) \/ LeaveNext(d)
    \/ \E e \in Employees, p \in BothPunches : Punch(e, p)

TypesOK ==
    /\ scene \in Scenes
    /\ IF scene = "engine" THEN TypeOK ELSE AttendanceTypeOK

SceneInit == scene \in Scenes /\ Init /\ AttendanceInit

SceneNext ==
    /\ UNCHANGED scene
    /\ \/ scene = "engine" /\ Next /\ UNCHANGED attendanceVars
       \/ /\ \/ scene = "closing" /\ Closing
             \/ scene = "verifying" /\ Verifying
             \/ scene = "decisions" /\ Decisions
             \/ scene = "days" /\ Days
          /\ UNCHANGED vars

SceneSpec == SceneInit /\ [][SceneNext]_<<scene, vars, attendanceVars>>
=============================================================================
