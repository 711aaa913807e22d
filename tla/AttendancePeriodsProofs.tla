----------------------- MODULE AttendancePeriodsProofs -----------------------
(***************************************************************************)
(* Theorems about AttendancePeriods, for any number of employees,          *)
(* adjustments, clerks, editors and snapshots: its types, SnapshotIsTruth, *)
(* ClosedIsVerified, AdjustmentsAreFounded and LeaveShows.                 *)
(*                                                                         *)
(* Every call reads first and writes later, so each property needs to say  *)
(* of the calls on their way what it says of the rows: what a clerk has    *)
(* read is still so or he is known to be out of date.  The four properties *)
(* rest on the types alone, and not on each other.  The last section puts  *)
(* the periods next to the approval engine, as MCApprovalsAndAttendance    *)
(* does.                                                                   *)
(***************************************************************************)
EXTENDS MCApprovalsAndAttendance, ApprovalEngineProofs, TLAPS

Figure == {"none", "off", "working"} \X ({"none", "worked"} \cup Corrections)
Writes == {"figures", "draft"} \X Employees

Clerk == [op : Moves \cup {"none", "verify", "unverify", "adjust"},
          pc : {"idle", "exceptions", "verified", "read", "move", "ensure", "write"}
                  \cup AdjustmentStatus,
          seen : Statuses \cup AdjustmentStatus,
          figures : [Employees -> Figure] \cup {<<>>},
          of : Employees \cup {"none"} \cup (Adjustments \X (Employees \cup {"none"})),
          dirty : SUBSET Writes]

Editor == [op : {"none", "clock", "save", "correct", "resolve", "grant", "withdraw"},
           pc : {"idle", "lock", "commit", "punches", "override", "read", "write"},
           of : Employees \cup {"none"}, seen : Statuses,
           add : SUBSET BothPunches, read : SUBSET BothPunches,
           to : Corrections \cup {"none"}, day : Summary]

Adjustment == [status : AdjustmentStatus, of : Employees \cup {"none"}, approved : BOOLEAN]

\* A day with minutes has a status.
Solid(day) == day.minutes # "none" => day.status # "none"

\* What a clerk's call is about, at each of its steps.
ClerkSound(k) ==
    /\ k.op \in Snapshotting /\ k.pc = "move" => k.figures \in [Employees -> Figure]
    /\ k.op \in {"verify", "unverify"} \/ k.pc = "ensure" =>
          k.of \in Employees /\ k.seen \in Editable
    /\ k.op = "adjust" =>
          k.of \in Adjustments \X (Employees \cup {"none"}) /\ k.pc \in AdjustmentStatus

\* What an editor's call is about, at each of its steps.
EditorSound(d) ==
    /\ d.pc # "idle" => d.of \in Employees
    /\ d.pc = "idle" => d.op = "none"
    /\ d.pc \in {"lock", "commit"} => d.op \in {"clock", "save", "resolve"}
    /\ d.pc \in {"punches", "override"} => d.op = "correct" /\ d.to \in Corrections
    /\ d.pc \in {"read", "write"} => d.op \in {"grant", "withdraw"}
    /\ d.op \in {"clock", "save", "correct"} => d.seen \in Editable
    /\ Solid(d.day)

RowsTyped ==
    /\ status \in Statuses
    /\ snapshot \in [version : 0..MaxVersions, figures : [Employees -> Figure]]
    /\ snapshotted \subseteq Employees
    /\ verification \in [Employees -> {"untracked", "draft", "done"}]
    /\ adjustment \in [Adjustments -> Adjustment]
    /\ punches \in [Employees -> SUBSET BothPunches]
    /\ override \in [Employees -> Corrections \cup {"none"}]
    /\ exception \in [Employees -> {"none", "pending", "resolved"}]
    /\ dayLock \in [Employees -> Editors \cup {Nobody}]
    /\ leave \in [Employees -> {"none", "approved", "cancelled"}]
    /\ stray \subseteq Writes
    /\ misled \subseteq Employees

DaysTyped ==
    /\ summary \in [Employees -> Summary]
    /\ \A e \in Employees : Solid(summary[e])

ClerksTyped == clerk \in [Clerks -> Clerk] /\ \A c \in Clerks : ClerkSound(clerk[c])
EditorsTyped == editor \in [Editors -> Editor] /\ \A d \in Editors : EditorSound(editor[d])

TypeInv == RowsTyped /\ DaysTyped /\ ClerksTyped /\ EditorsTyped

\* What a clerk has read for his snapshot is what the days say, or somebody has
\* written since; a day that says something never says nothing again.
ReadOfDays(k) ==
    k.op \in Snapshotting /\ k.pc = "move" =>
        \A e \in Employees :
            /\ <<"figures", e>> \in k.dirty \/ k.figures[e] = Figures(e)
            /\ k.figures[e] # NoFigures => Figures(e) # NoFigures

SnapshotInv ==
    /\ SnapshotIsTruth
    /\ \A e \in Employees : snapshot.figures[e] # NoFigures => Figures(e) # NoFigures
    /\ \A c \in Clerks : ReadOfDays(clerk[c])

\* Who closes has found nobody's verification a draft, or somebody has taken his
\* back since.
ReadOfVerifications(k) ==
    k.op = "close" /\ k.pc \in {"read", "move"} =>
        \A e \in Employees : <<"draft", e>> \in k.dirty \/ verification[e] # "draft"

VerifiedInv == ClosedIsVerified /\ \A c \in Clerks : ReadOfVerifications(clerk[c])

\* An adjustment on its way is of somebody with a snapshot, and to be applied
\* only if it has been approved.
ReadOfAdjustment(k) ==
    k.op = "adjust" =>
        /\ k.of[2] \in snapshotted
        /\ k.pc = "applied" => adjustment[k.of[1]].approved

AdjustmentInv ==
    /\ AdjustmentsAreFounded
    /\ \A a \in Adjustments : adjustment[a].status = "approved" => adjustment[a].approved
    /\ \A c \in Clerks : ReadOfAdjustment(clerk[c])

\* One reconciliation of the day at a time, and it is the one of the leave's fate.
LeaveSound(e) ==
    /\ \A d, f \in Reconciling(e) : d = f
    /\ \A d \in Reconciling(e) :
          leave[e] = IF editor[d].op = "grant" THEN "approved" ELSE "cancelled"
    /\ Reconciling(e) = {} => (summary[e].leave <=> leave[e] = "approved")
    /\ summary[e].status = "leave" => summary[e].leave /\ summary[e].minutes = "none"

LeaveInv == \A e \in Employees \ misled : LeaveSound(e)

-----------------------------------------------------------------------------
(***************************************************************************)
(* Types.                                                                  *)
(***************************************************************************)

LEMMA IdleSound ==
    /\ IdleClerk \in Clerk /\ ClerkSound(IdleClerk)
    /\ IdleEditor \in Editor /\ EditorSound(IdleEditor)
<1>1. NoSummary \in Summary /\ Solid(NoSummary)
  BY DEF NoSummary, Summary, Solid
<1>2. "open" \in Statuses
  BY DEF Statuses
<1>3. IdleClerk \in Clerk
  BY <1>2 DEF IdleClerk, Clerk
<1>4. IdleEditor \in Editor
  BY <1>1, <1>2 DEF IdleEditor, Editor
<1>5. ClerkSound(IdleClerk)
  BY DEF ClerkSound, IdleClerk, Snapshotting
<1>6. EditorSound(IdleEditor)
  BY <1>1 DEF EditorSound, IdleEditor
<1> QED
  BY <1>3, <1>4, <1>5, <1>6

LEMMA ClerkMoves ==
    ASSUME ClerksTyped, NEW c \in Clerks, NEW k \in Clerk, ClerkSound(k),
           clerk' = [clerk EXCEPT ![c] = k]
    PROVE  /\ ClerksTyped' /\ clerk'[c] = k
           /\ \A b \in Clerks \ {c} : clerk'[b] = clerk[b]
BY DEF ClerksTyped

LEMMA EditorMoves ==
    ASSUME EditorsTyped, NEW d \in Editors, NEW k \in Editor, EditorSound(k),
           editor' = [editor EXCEPT ![d] = k]
    PROVE  /\ EditorsTyped' /\ editor'[d] = k
           /\ \A b \in Editors \ {d} : editor'[b] = editor[b]
BY DEF EditorsTyped

LEMMA ClerkFinishes ==
    ASSUME ClerksTyped, NEW c \in Clerks, clerk' = FinishClerk(c)
    PROVE  /\ ClerksTyped' /\ clerk'[c] = IdleClerk
           /\ \A b \in Clerks \ {c} : clerk'[b] = clerk[b]
<1>1. PICK k : k = IdleClerk
  OBVIOUS
<1> QED
  BY <1>1, IdleSound, ClerkMoves DEF FinishClerk

LEMMA EditorFinishes ==
    ASSUME EditorsTyped, NEW d \in Editors, Finish(d)
    PROVE  /\ EditorsTyped' /\ editor'[d] = IdleEditor
           /\ \A b \in Editors \ {d} : editor'[b] = editor[b]
<1>1. PICK k : k = IdleEditor
  OBVIOUS
<1> QED
  BY <1>1, IdleSound, EditorMoves DEF Finish

\* A clerk goes on to a step that asks nothing new of him.
LEMMA ClerkGoes ==
    ASSUME ClerksTyped, NEW c \in Clerks, clerk[c].op # "adjust",
           NEW pc \in {"verified", "read", "write"}
    PROVE  /\ ClerkGoesOn(c, pc) \in [Clerks -> Clerk]
           /\ \A b \in Clerks : ClerkSound(ClerkGoesOn(c, pc)[b])
           /\ ClerkGoesOn(c, pc)[c].op = clerk[c].op /\ ClerkGoesOn(c, pc)[c].pc = pc
           /\ ClerkGoesOn(c, pc)[c].dirty = clerk[c].dirty
           /\ \A b \in Clerks \ {c} : ClerkGoesOn(c, pc)[b] = clerk[b]
<1>1. PICK k : k = [clerk[c] EXCEPT !.pc = pc]
  OBVIOUS
<1>2. clerk[c] \in Clerk /\ ClerkSound(clerk[c])
  BY DEF ClerksTyped
<1>3. k \in Clerk /\ k.op = clerk[c].op /\ k.pc = pc /\ k.dirty = clerk[c].dirty
      /\ k.of = clerk[c].of /\ k.seen = clerk[c].seen
  BY <1>1, <1>2 DEF Clerk
<1>4. ClerkSound(k)
  BY <1>2, <1>3 DEF ClerkSound
<1>5. ClerkGoesOn(c, pc) = [clerk EXCEPT ![c] = k]
  BY <1>1 DEF ClerkGoesOn
<1> QED
  BY <1>3, <1>4, <1>5 DEF ClerksTyped

\* What a write that may pass a lock does to the clerks and to what is stray.
SameCall(j, k) ==
    j.op = k.op /\ j.pc = k.pc /\ j.seen = k.seen /\ j.figures = k.figures /\ j.of = k.of

LEMMA PastIsMarked ==
    ASSUME NEW excused, NEW what \in {"figures", "draft"}, NEW e \in Employees,
           NEW others \in [Clerks -> Clerk], \A c \in Clerks : ClerkSound(others[c]),
           stray \subseteq Writes,
           WritesPast(excused, what, e, others)
    PROVE  /\ ClerksTyped'
           /\ stray \subseteq stray' /\ stray' \subseteq Writes
           /\ excused /\ status \notin Editable => <<what, e>> \in stray'
           /\ \A c \in Clerks : /\ SameCall(clerk'[c], others[c])
                                /\ others[c].dirty \subseteq clerk'[c].dirty
                                /\ excused /\ HasRead(c, what) => <<what, e>> \in clerk'[c].dirty
<1>1. <<what, e>> \in Writes
  BY DEF Writes
<1>2. ASSUME NEW c \in Clerks
      PROVE  /\ clerk'[c] \in Clerk /\ SameCall(clerk'[c], others[c])
             /\ others[c].dirty \subseteq clerk'[c].dirty
             /\ excused /\ HasRead(c, what) => <<what, e>> \in clerk'[c].dirty
  <2>1. others[c] \in Clerk
    BY <1>2
  <2>2. CASE excused /\ HasRead(c, what)
    <3>1. clerk'[c] = [others[c] EXCEPT !.dirty = @ \cup {<<what, e>>}]
      BY <1>2, <2>2 DEF WritesPast
    <3> QED
      BY <1>1, <2>1, <3>1 DEF Clerk, SameCall
  <2>3. CASE ~(excused /\ HasRead(c, what))
    <3>1. clerk'[c] = others[c]
      BY <1>2, <2>3 DEF WritesPast
    <3> QED
      BY <2>1, <2>3, <3>1 DEF SameCall
  <2> QED
    BY <2>2, <2>3
<1>3. clerk' = [c \in Clerks |-> clerk'[c]]
  BY DEF WritesPast
<1>4. ClerksTyped'
  BY <1>2, <1>3 DEF ClerksTyped, ClerkSound, SameCall
<1>5. /\ stray \subseteq stray' /\ stray' \subseteq Writes
      /\ excused /\ status \notin Editable => <<what, e>> \in stray'
  BY <1>1 DEF WritesPast
<1> QED
  BY <1>2, <1>4, <1>5

LEMMA FiguresTyped ==
    ASSUME TypeInv, NEW e \in Employees
    PROVE  Figures(e) \in Figure
<1>1. summary[e] \in Summary /\ override[e] \in Corrections \cup {"none"}
  BY DEF TypeInv, DaysTyped, RowsTyped
<1> QED
  BY <1>1 DEF Figures, Figure, NoFigures, WorkingDay, Summary

-----------------------------------------------------------------------------
(***************************************************************************)
(* The clerks' steps keep the types.                                       *)
(***************************************************************************)

LEMMA TypeInit == AttendanceInit => TypeInv
<1> SUFFICES ASSUME AttendanceInit PROVE TypeInv
  OBVIOUS
<1> USE DEF AttendanceInit
<1>1. NoSummary \in Summary /\ Solid(NoSummary)
  BY DEF NoSummary, Summary, Solid
<1>2. DaysTyped
  BY <1>1 DEF DaysTyped
<1>3. NoFigures \in Figure
  BY DEF NoFigures, Figure
<1>4. RowsTyped
  BY <1>3, AttendanceAssumption DEF RowsTyped, Statuses, Adjustment, AdjustmentStatus
<1>5. ClerksTyped /\ EditorsTyped
  BY IdleSound DEF ClerksTyped, EditorsTyped
<1> QED
  BY <1>2, <1>4, <1>5 DEF TypeInv

LEMMA BeginMoveTyped ==
    ASSUME TypeInv, NEW c \in Clerks, NEW op \in Moves, BeginMove(c, op)
    PROVE  TypeInv' /\ clerk'[c].op = op /\ (op \in Snapshotting => clerk'[c].pc # "move")
           /\ (op = "close" => clerk'[c].pc = "exceptions")
           /\ \A b \in Clerks \ {c} : clerk'[b] = clerk[b]
<1>1. PICK k : k = [IdleClerk EXCEPT !.op = op,
                                     !.pc = IF op = "close" THEN "exceptions"
                                            ELSE IF op \in Snapshotting THEN "read"
                                            ELSE "move"]
  OBVIOUS
<1>2. /\ k.op = op /\ k \in Clerk
      /\ op \in Snapshotting => k.pc # "move"
      /\ op = "close" => k.pc = "exceptions"
      /\ k.pc \in {"exceptions", "read", "move"}
  <2>1. PICK pc \in {"exceptions", "read", "move"} :
              /\ pc = IF op = "close" THEN "exceptions"
                      ELSE IF op \in Snapshotting THEN "read" ELSE "move"
              /\ op \in Snapshotting => pc # "move"
              /\ op = "close" => pc = "exceptions"
    OBVIOUS
  <2>2. k = [IdleClerk EXCEPT !.op = op, !.pc = pc]
    BY <1>1, <2>1
  <2>3. k.op = op /\ k.pc = pc
    BY <2>2 DEF IdleClerk
  <2>4. k \in Clerk
    BY <2>2, IdleSound DEF Clerk
  <2> QED
    BY <2>1, <2>3, <2>4
<1>3. ClerkSound(k)
  BY <1>2 DEF ClerkSound, Moves
<1>4. clerk' = [clerk EXCEPT ![c] = k]
  BY <1>1 DEF BeginMove
<1>5. /\ ClerksTyped' /\ clerk'[c] = k
      /\ \A b \in Clerks \ {c} : clerk'[b] = clerk[b]
  BY <1>2, <1>3, <1>4, ClerkMoves DEF TypeInv
<1> QED
  BY <1>2, <1>5 DEF BeginMove, TypeInv, RowsTyped, DaysTyped, EditorsTyped, periodVars, dayVars

LEMMA ValidateCloseTyped ==
    ASSUME TypeInv, NEW c \in Clerks, ValidateClose(c)
    PROVE  /\ TypeInv' /\ clerk'[c].pc # "move" /\ clerk'[c].op # "adjust"
           /\ clerk'[c].pc = "read" => \A e \in Employees : verification[e] # "draft"
           /\ \A b \in Clerks \ {c} : clerk'[b] = clerk[b]
<1>1. ClerkSound(clerk[c]) /\ clerk[c].pc \in {"exceptions", "verified"}
  BY DEF ValidateClose, TypeInv, ClerksTyped
<1>2. clerk[c].op # "adjust"
  BY <1>1 DEF ClerkSound, AdjustmentStatus
<1>3. CASE clerk' = FinishClerk(c)
  <2>1. /\ ClerksTyped' /\ clerk'[c] = IdleClerk
        /\ \A b \in Clerks \ {c} : clerk'[b] = clerk[b]
    BY <1>3, ClerkFinishes DEF TypeInv
  <2> QED
    BY <2>1 DEF ValidateClose, TypeInv, RowsTyped, DaysTyped, EditorsTyped, periodVars,
       dayVars, IdleClerk
<1>4. ASSUME NEW pc \in {"verified", "read"}, clerk' = ClerkGoesOn(c, pc)
      PROVE  /\ TypeInv' /\ clerk'[c].pc = pc /\ clerk'[c].op # "adjust"
             /\ \A b \in Clerks \ {c} : clerk'[b] = clerk[b]
  <2>1. /\ ClerksTyped' /\ clerk'[c].pc = pc /\ clerk'[c].op # "adjust"
        /\ \A b \in Clerks \ {c} : clerk'[b] = clerk[b]
    BY <1>2, <1>4, ClerkGoes DEF TypeInv, ClerksTyped
  <2> QED
    BY <2>1 DEF ValidateClose, TypeInv, RowsTyped, DaysTyped, EditorsTyped, periodVars, dayVars
<1> QED
  BY <1>3, <1>4 DEF ValidateClose, IdleClerk

LEMMA ReadTruthTyped ==
    ASSUME TypeInv, NEW c \in Clerks, ReadTruth(c)
    PROVE  /\ TypeInv' /\ clerk'[c].op = clerk[c].op /\ clerk'[c].dirty = clerk[c].dirty
           /\ clerk'[c].figures = AllFigures
           /\ \A b \in Clerks \ {c} : clerk'[b] = clerk[b]
<1>1. PICK k : k = [clerk[c] EXCEPT !.pc = "move", !.figures = AllFigures]
  OBVIOUS
<1>2. clerk[c] \in Clerk /\ ClerkSound(clerk[c])
  BY DEF TypeInv, ClerksTyped
<1>3. AllFigures \in [Employees -> Figure]
  BY FiguresTyped DEF AllFigures
<1>4. /\ k \in Clerk /\ k.op = clerk[c].op /\ k.pc = "move" /\ k.figures = AllFigures
      /\ k.dirty = clerk[c].dirty /\ k.of = clerk[c].of /\ k.seen = clerk[c].seen
  BY <1>1, <1>2, <1>3 DEF Clerk
<1>5. ClerkSound(k)
  BY <1>2, <1>3, <1>4 DEF ClerkSound, ReadTruth, Snapshotting
<1>6. clerk' = [clerk EXCEPT ![c] = k]
  BY <1>1 DEF ReadTruth
<1>7. /\ ClerksTyped' /\ clerk'[c] = k
      /\ \A b \in Clerks \ {c} : clerk'[b] = clerk[b]
  BY <1>4, <1>5, <1>6, ClerkMoves DEF TypeInv
<1> QED
  BY <1>4, <1>7 DEF ReadTruth, TypeInv, RowsTyped, DaysTyped, EditorsTyped, periodVars, dayVars

LEMMA MoveTyped ==
    ASSUME TypeInv, NEW c \in Clerks, Move(c)
    PROVE  /\ TypeInv' /\ clerk'[c] = IdleClerk
           /\ \A b \in Clerks \ {c} : clerk'[b] = clerk[b]
<1>1. /\ ClerksTyped' /\ clerk'[c] = IdleClerk
      /\ \A b \in Clerks \ {c} : clerk'[b] = clerk[b]
  BY ClerkFinishes DEF TypeInv, Move
<1>2. clerk[c] \in Clerk /\ ClerkSound(clerk[c])
  BY DEF TypeInv, ClerksTyped
<1>3. status' \in Statuses
  BY DEF Move, Moves, To, Statuses
<1>4. stray' \subseteq Writes
  BY <1>2 DEF Move, Clerk
<1>5. snapshot' \in [version : 0..MaxVersions, figures : [Employees -> Figure]]
      /\ snapshotted' \subseteq Employees
  <2>1. CASE UNCHANGED <<snapshot, snapshotted>>
    BY <2>1 DEF TypeInv, RowsTyped
  <2>2. CASE clerk[c].op \in Snapshotting /\ InsertSnapshots(clerk[c].figures)
    <3>1. clerk[c].figures \in [Employees -> Figure]
      BY <1>2, <2>2 DEF ClerkSound, Move
    <3> QED
      BY <2>1, <2>2, <3>1, AttendanceAssumption DEF InsertSnapshots, TypeInv, RowsTyped
  <2> QED
    BY <2>1, <2>2 DEF Move
<1> QED
  BY <1>1, <1>3, <1>4, <1>5 DEF Move, TypeInv, RowsTyped, DaysTyped, EditorsTyped, dayVars

LEMMA GiveUpTyped ==
    ASSUME TypeInv, NEW c \in Clerks, GiveUp(c)
    PROVE  /\ TypeInv' /\ clerk'[c] = IdleClerk
           /\ \A b \in Clerks \ {c} : clerk'[b] = clerk[b]
<1>1. /\ ClerksTyped' /\ clerk'[c] = IdleClerk
      /\ \A b \in Clerks \ {c} : clerk'[b] = clerk[b]
  BY ClerkFinishes DEF TypeInv, GiveUp
<1> QED
  BY <1>1 DEF GiveUp, TypeInv, RowsTyped, DaysTyped, EditorsTyped, periodVars, dayVars

LEMMA BeginVerifyTyped ==
    ASSUME TypeInv, NEW c \in Clerks, NEW e \in Employees, NEW op, BeginVerify(c, e, op)
    PROVE  /\ TypeInv' /\ clerk'[c].op \in {"verify", "unverify"}
           /\ \A b \in Clerks \ {c} : clerk'[b] = clerk[b]
<1>1. PICK k : k = [IdleClerk EXCEPT !.op = op, !.seen = status, !.of = e,
                                     !.pc = IF op = "verify" THEN "ensure" ELSE "write"]
  OBVIOUS
<1>2. /\ k \in Clerk /\ k.op = op /\ op \in {"verify", "unverify"} /\ k.seen = status /\ k.of = e
      /\ status \in Editable
  BY <1>1, IdleSound DEF BeginVerify, IdleClerk, Clerk, TypeInv, RowsTyped
<1>3. ClerkSound(k)
  BY <1>2 DEF ClerkSound, Snapshotting
<1>4. clerk' = [clerk EXCEPT ![c] = k]
  BY <1>1 DEF BeginVerify
<1>5. /\ ClerksTyped' /\ clerk'[c] = k
      /\ \A b \in Clerks \ {c} : clerk'[b] = clerk[b]
  BY <1>2, <1>3, <1>4, ClerkMoves DEF TypeInv
<1> QED
  BY <1>2, <1>5 DEF BeginVerify, TypeInv, RowsTyped, DaysTyped, EditorsTyped, periodVars, dayVars

\* The two writes of a verification: what becomes of it, and whom it passes.
LEMMA VerificationWritten ==
    ASSUME TypeInv, NEW c \in Clerks, EnsureVerification(c) \/ WriteVerification(c)
    PROVE  /\ TypeInv'
           /\ \E e \in Employees :
                 /\ \A x \in Employees \ {e} : verification'[x] = verification[x]
                 /\ \/ verification'[e] # "draft" \/ verification'[e] = verification[e]
                    \/ /\ status \notin Editable => <<"draft", e>> \in stray'
                       /\ \A b \in Clerks : HasRead(b, "draft") => <<"draft", e>> \in clerk'[b].dirty
           /\ stray \subseteq stray'
           /\ clerk[c].op \in {"verify", "unverify"} \/ clerk[c].pc = "ensure"
           /\ clerk'[c].op \in {"none", clerk[c].op} /\ clerk'[c].pc \in {"idle", "write"}
           /\ \A b \in Clerks \ {c} : /\ SameCall(clerk'[b], clerk[b])
                                      /\ clerk[b].dirty \subseteq clerk'[b].dirty
<1>1. clerk[c].op \in {"verify", "unverify"} \/ clerk[c].pc = "ensure"
  BY DEF EnsureVerification, WriteVerification
<1>2. clerk[c] \in Clerk /\ clerk[c].of \in Employees /\ clerk[c].seen \in Editable
      /\ clerk[c].op # "adjust"
  BY <1>1 DEF TypeInv, ClerksTyped, ClerkSound, AdjustmentStatus
<1>3. PICK e \in Employees : e = clerk[c].of
  BY <1>2
<1>4. PICK others \in [Clerks -> Clerk], past \in BOOLEAN :
        /\ WritesPast(past, "draft", e, others)
        /\ \A b \in Clerks : ClerkSound(others[b])
        /\ \A b \in Clerks \ {c} : others[b] = clerk[b]
        /\ others[c].op \in {"none", clerk[c].op} /\ others[c].pc \in {"idle", "write"}
        /\ verification' \in [Employees -> {"untracked", "draft", "done"}]
        /\ \A x \in Employees \ {e} : verification'[x] = verification[x]
        /\ verification'[e] # "draft" \/ verification'[e] = verification[e] \/ past
  <2>1. CASE EnsureVerification(c)
    <3>1. PICK others : others = ClerkGoesOn(c, "write")
      OBVIOUS
    <3>2. PICK past \in BOOLEAN : past = (verification[e] = "untracked")
      OBVIOUS
    <3>3. WritesPast(past, "draft", e, others)
      BY <1>2, <1>3, <2>1, <3>1, <3>2 DEF EnsureVerification, WritesPast
    <3>4. /\ others \in [Clerks -> Clerk] /\ \A b \in Clerks : ClerkSound(others[b])
          /\ \A b \in Clerks \ {c} : others[b] = clerk[b]
          /\ others[c].op = clerk[c].op /\ others[c].pc = "write"
      BY <1>2, <3>1, ClerkGoes DEF TypeInv
    <3> QED
      BY <1>3, <2>1, <3>2, <3>3, <3>4 DEF EnsureVerification, TypeInv, RowsTyped
  <2>2. CASE WriteVerification(c)
    <3>1. PICK others : others = FinishClerk(c)
      OBVIOUS
    <3>2. PICK past \in BOOLEAN : past = (clerk[c].op # "verify")
      OBVIOUS
    <3>3. WritesPast(past, "draft", e, others)
      BY <1>2, <1>3, <2>2, <3>1, <3>2 DEF WriteVerification, WritesPast
    <3>4. /\ others \in [Clerks -> Clerk] /\ \A b \in Clerks : ClerkSound(others[b])
          /\ \A b \in Clerks \ {c} : others[b] = clerk[b]
          /\ others[c].op = "none" /\ others[c].pc = "idle"
      BY <3>1, IdleSound DEF FinishClerk, TypeInv, ClerksTyped, IdleClerk
    <3> QED
      BY <1>3, <2>2, <3>2, <3>3, <3>4 DEF WriteVerification, TypeInv, RowsTyped
  <2> QED
    BY <2>1, <2>2
<1>5. /\ ClerksTyped' /\ stray \subseteq stray' /\ stray' \subseteq Writes
      /\ past /\ status \notin Editable => <<"draft", e>> \in stray'
      /\ \A b \in Clerks : /\ SameCall(clerk'[b], others[b])
                           /\ others[b].dirty \subseteq clerk'[b].dirty
                           /\ past /\ HasRead(b, "draft") => <<"draft", e>> \in clerk'[b].dirty
  BY <1>4, PastIsMarked DEF TypeInv, RowsTyped
<1>6. TypeInv'
  BY <1>4, <1>5 DEF EnsureVerification, WriteVerification, TypeInv, RowsTyped, DaysTyped,
     EditorsTyped, periodVars, dayVars
<1>7. /\ clerk'[c].op \in {"none", clerk[c].op} /\ clerk'[c].pc \in {"idle", "write"}
      /\ \A b \in Clerks \ {c} : /\ SameCall(clerk'[b], clerk[b])
                                 /\ clerk[b].dirty \subseteq clerk'[b].dirty
  BY <1>4, <1>5 DEF SameCall
<1> QED
  BY <1>1, <1>4, <1>5, <1>6, <1>7

LEMMA BeginAdjustmentTyped ==
    ASSUME TypeInv, NEW c \in Clerks, NEW a \in Adjustments, NEW e \in Employees,
           BeginAdjustment(c, a, e)
    PROVE  /\ TypeInv' /\ clerk'[c].op = "adjust" /\ clerk'[c].of = <<a, e>>
           /\ clerk'[c].pc = "requested"
           /\ \A b \in Clerks \ {c} : clerk'[b] = clerk[b]
<1>1. PICK k : k = [IdleClerk EXCEPT !.op = "adjust", !.of = <<a, e>>, !.seen = "none",
                                     !.pc = "requested"]
  OBVIOUS
<1>2. k \in Clerk /\ k.op = "adjust" /\ k.of = <<a, e>> /\ k.pc = "requested"
  BY <1>1, IdleSound DEF IdleClerk, Clerk, AdjustmentStatus
<1>3. ClerkSound(k)
  BY <1>2 DEF ClerkSound, Snapshotting, AdjustmentStatus
<1>4. clerk' = [clerk EXCEPT ![c] = k]
  BY <1>1 DEF BeginAdjustment
<1>5. /\ ClerksTyped' /\ clerk'[c] = k
      /\ \A b \in Clerks \ {c} : clerk'[b] = clerk[b]
  BY <1>2, <1>3, <1>4, ClerkMoves DEF TypeInv
<1> QED
  BY <1>2, <1>5 DEF BeginAdjustment, TypeInv, RowsTyped, DaysTyped, EditorsTyped, periodVars,
     dayVars

LEMMA BeginDecisionTyped ==
    ASSUME TypeInv, NEW c \in Clerks, NEW a \in Adjustments, NEW to \in AdjustmentStatus,
           BeginAdjustmentDecision(c, a, to)
    PROVE  /\ TypeInv' /\ clerk'[c].op = "adjust" /\ clerk'[c].pc = to
           /\ clerk'[c].of = <<a, adjustment[a].of>>
           /\ \A b \in Clerks \ {c} : clerk'[b] = clerk[b]
<1>1. PICK k : k = [IdleClerk EXCEPT !.op = "adjust", !.of = <<a, adjustment[a].of>>,
                                     !.seen = adjustment[a].status, !.pc = to]
  OBVIOUS
<1>2. adjustment[a] \in Adjustment
  BY DEF TypeInv, RowsTyped
<1>3. k \in Clerk /\ k.op = "adjust" /\ k.of = <<a, adjustment[a].of>> /\ k.pc = to
  BY <1>1, <1>2, IdleSound DEF IdleClerk, Clerk, Adjustment
<1>4. ClerkSound(k)
  BY <1>2, <1>3 DEF ClerkSound, Snapshotting, AdjustmentStatus, Adjustment
<1>5. clerk' = [clerk EXCEPT ![c] = k]
  BY <1>1 DEF BeginAdjustmentDecision
<1>6. /\ ClerksTyped' /\ clerk'[c] = k
      /\ \A b \in Clerks \ {c} : clerk'[b] = clerk[b]
  BY <1>3, <1>4, <1>5, ClerkMoves DEF TypeInv
<1> QED
  BY <1>3, <1>6 DEF BeginAdjustmentDecision, TypeInv, RowsTyped, DaysTyped, EditorsTyped,
     periodVars, dayVars

LEMMA WriteAdjustmentTyped ==
    ASSUME TypeInv, NEW c \in Clerks, WriteAdjustment(c)
    PROVE  /\ TypeInv' /\ clerk'[c] = IdleClerk
           /\ \A b \in Clerks \ {c} : clerk'[b] = clerk[b]
           /\ \E a \in Adjustments, e \in Employees \cup {"none"} :
                 /\ clerk[c].of = <<a, e>> /\ adjustment'[a].of = e
                 /\ adjustment'[a].status = clerk[c].pc
                 /\ adjustment'[a].approved = (adjustment[a].approved \/ clerk[c].pc = "approved")
                 /\ \A x \in Adjustments \ {a} : adjustment'[x] = adjustment[x]
<1>1. /\ ClerksTyped' /\ clerk'[c] = IdleClerk
      /\ \A b \in Clerks \ {c} : clerk'[b] = clerk[b]
  BY ClerkFinishes DEF TypeInv, WriteAdjustment
<1>2. clerk[c].of \in Adjustments \X (Employees \cup {"none"}) /\ clerk[c].pc \in AdjustmentStatus
  BY DEF WriteAdjustment, TypeInv, ClerksTyped, ClerkSound
<1>3. PICK a \in Adjustments, e \in Employees \cup {"none"} : clerk[c].of = <<a, e>>
  BY <1>2
<1>4. PICK j : j = [adjustment[a] EXCEPT !.status = clerk[c].pc, !.of = e,
                                         !.approved = @ \/ clerk[c].pc = "approved"]
  OBVIOUS
<1>5. adjustment' = [adjustment EXCEPT ![a] = j]
  <2>1. clerk[c].of[1] = a /\ clerk[c].of[2] = e
    BY <1>3
  <2>2. adjustment' = [adjustment EXCEPT ![a].status = clerk[c].pc, ![a].of = e,
                                         ![a].approved = @ \/ clerk[c].pc = "approved"]
    BY <2>1 DEF WriteAdjustment
  <2> QED
    BY <1>4, <2>2
<1>6. adjustment[a] \in Adjustment
  BY DEF TypeInv, RowsTyped
<1>7. j \in Adjustment /\ j.status = clerk[c].pc /\ j.of = e
      /\ j.approved = (adjustment[a].approved \/ clerk[c].pc = "approved")
  BY <1>2, <1>4, <1>6 DEF Adjustment
<1>8. adjustment' \in [Adjustments -> Adjustment] /\ adjustment'[a] = j
      /\ \A x \in Adjustments \ {a} : adjustment'[x] = adjustment[x]
  BY <1>5, <1>7 DEF TypeInv, RowsTyped
<1>9. TypeInv'
  BY <1>1, <1>8 DEF WriteAdjustment, TypeInv, RowsTyped, DaysTyped, EditorsTyped, periodVars,
     dayVars
<1> QED
  BY <1>1, <1>3, <1>7, <1>8, <1>9

-----------------------------------------------------------------------------
(***************************************************************************)
(* The editors' steps keep the types.                                      *)
(***************************************************************************)

LEMMA BeginEditTyped ==
    ASSUME TypeInv, NEW d \in Editors, NEW e \in Employees, BeginEdit(d, e) \/ BeginResolve(d, e)
    PROVE  /\ TypeInv' /\ clerk' = clerk
           /\ editor[d] = IdleEditor /\ editor'[d].op \notin {"grant", "withdraw"}
           /\ \A b \in Editors \ {d} : editor'[b] = editor[b]
<1> USE IdleSound
<1>1. PICK k \in Editor : /\ EditorSound(k) /\ k.op \notin {"grant", "withdraw"}
                          /\ Begin(d, k)
  <2>1. CASE BeginResolve(d, e)
    <3>1. PICK k : k = [IdleEditor EXCEPT !.op = "resolve", !.of = e, !.pc = "lock"]
      OBVIOUS
    <3>2. k \in Editor /\ EditorSound(k) /\ k.op = "resolve"
      BY <3>1 DEF IdleEditor, Editor, EditorSound
    <3> QED
      BY <2>1, <3>1, <3>2 DEF BeginResolve
  <2>2. ASSUME NEW op \in {"clock", "save"}, status \in Editable,
               Begin(d, [IdleEditor EXCEPT !.op = op, !.of = e, !.seen = status, !.pc = "lock"])
        PROVE  \E k \in Editor : /\ EditorSound(k) /\ k.op \notin {"grant", "withdraw"}
                                 /\ Begin(d, k)
    <3>1. PICK k : k = [IdleEditor EXCEPT !.op = op, !.of = e, !.seen = status, !.pc = "lock"]
      OBVIOUS
    <3>2. k \in Editor /\ k.op = op /\ k.of = e /\ k.seen = status /\ k.pc = "lock"
          /\ k.day = IdleEditor.day
      BY <2>2, <3>1 DEF IdleEditor, Editor, TypeInv, RowsTyped
    <3>3. EditorSound(k)
      BY <2>2, <3>2 DEF EditorSound
    <3> QED
      BY <2>2, <3>1, <3>2, <3>3
  <2>3. ASSUME NEW v \in Corrections, status \in Editable,
               Begin(d, [IdleEditor EXCEPT !.op = "correct", !.of = e, !.seen = status,
                                           !.pc = "punches", !.to = v])
        PROVE  \E k \in Editor : /\ EditorSound(k) /\ k.op \notin {"grant", "withdraw"}
                                 /\ Begin(d, k)
    <3>1. PICK k : k = [IdleEditor EXCEPT !.op = "correct", !.of = e, !.seen = status,
                                          !.pc = "punches", !.to = v]
      OBVIOUS
    <3>2. k \in Editor /\ k.op = "correct" /\ k.of = e /\ k.seen = status
          /\ k.pc = "punches" /\ k.to = v /\ k.day = IdleEditor.day
      BY <2>3, <3>1 DEF IdleEditor, Editor, TypeInv, RowsTyped
    <3>3. EditorSound(k)
      BY <2>3, <3>2 DEF EditorSound
    <3> QED
      BY <2>3, <3>1, <3>2, <3>3
  <2> QED
    BY <2>1, <2>2, <2>3 DEF BeginEdit
<1>2. editor[d] = IdleEditor /\ editor' = [editor EXCEPT ![d] = k]
  BY <1>1 DEF Begin
<1>3. EditorsTyped' /\ editor'[d] = k /\ \A b \in Editors \ {d} : editor'[b] = editor[b]
  BY <1>1, <1>2, EditorMoves DEF TypeInv
<1> QED
  BY <1>1, <1>2, <1>3 DEF BeginEdit, BeginResolve, TypeInv, RowsTyped, DaysTyped, ClerksTyped,
     periodVars, dayVars

LEMMA LockDayTyped ==
    ASSUME TypeInv, NEW d \in Editors, LockDay(d)
    PROVE  /\ TypeInv' /\ clerk' = clerk
           /\ editor[d].op \notin {"grant", "withdraw"} /\ editor'[d].op = editor[d].op
           /\ \A b \in Editors \ {d} : editor'[b] = editor[b]
<1>1. editor[d] \in Editor /\ EditorSound(editor[d]) /\ editor[d].pc = "lock"
  BY DEF TypeInv, EditorsTyped, LockDay
<1>2. PICK e \in Employees : e = editor[d].of
  BY <1>1 DEF EditorSound
<1>3. PICK add \in SUBSET BothPunches :
        editor' = [editor EXCEPT ![d].pc = "commit", ![d].add = add,
                                 ![d].read = punches[e] \cup add]
  BY <1>2 DEF LockDay
<1>4. PICK k : k = [editor[d] EXCEPT !.pc = "commit", !.add = add, !.read = punches[e] \cup add]
  OBVIOUS
<1>5. punches[e] \cup add \in SUBSET BothPunches
  BY DEF TypeInv, RowsTyped
<1>6. /\ k \in Editor /\ k.pc = "commit" /\ k.op = editor[d].op /\ k.of = editor[d].of
      /\ k.seen = editor[d].seen /\ k.day = editor[d].day
  BY <1>1, <1>4, <1>5 DEF Editor
<1>7. EditorSound(k) /\ k.op \notin {"grant", "withdraw"}
  BY <1>1, <1>6 DEF EditorSound
<1>8. editor' = [editor EXCEPT ![d] = k]
  BY <1>3, <1>4
<1>9. EditorsTyped' /\ editor'[d] = k /\ \A b \in Editors \ {d} : editor'[b] = editor[b]
  BY <1>6, <1>7, <1>8, EditorMoves DEF TypeInv
<1>10. dayLock' \in [Employees -> Editors \cup {Nobody}]
  BY <1>2 DEF LockDay, TypeInv, RowsTyped
<1> QED
  BY <1>6, <1>7, <1>9, <1>10 DEF LockDay, TypeInv, RowsTyped, DaysTyped, ClerksTyped,
     periodVars, dayVars

LEMMA PunchesTyped ==
    ASSUME TypeInv,
           \/ \E d \in Editors, p \in BothPunches : WritePunch(d, p)
           \/ \E e \in Employees, p \in BothPunches : Punch(e, p)
    PROVE  TypeInv' /\ clerk' = clerk /\ editor' = editor
<1>1. UNCHANGED <<periodVars, verification, adjustment, summary, override, exception, dayLock,
                  leave, clerk, editor, stray, misled>>
  BY DEF WritePunch, Punch
<1>2. punches' \in [Employees -> SUBSET BothPunches]
  <2>1. ASSUME NEW e \in Employees, NEW left \in SUBSET BothPunches,
               punches' = [punches EXCEPT ![e] = left]
        PROVE  punches' \in [Employees -> SUBSET BothPunches]
    BY <2>1 DEF TypeInv, RowsTyped
  <2>2. \A e \in Employees : punches[e] \in SUBSET BothPunches
    BY DEF TypeInv, RowsTyped
  <2>3. ASSUME NEW d \in Editors, NEW p \in BothPunches, WritePunch(d, p)
        PROVE  punches' \in [Employees -> SUBSET BothPunches]
    <3>1. editor[d].of \in Employees
      BY <2>3 DEF WritePunch, TypeInv, EditorsTyped, EditorSound
    <3>2. PICK left \in {punches[editor[d].of] \cup {p}, punches[editor[d].of] \ {p}} :
             punches' = [punches EXCEPT ![editor[d].of] = left]
      BY <2>3 DEF WritePunch
    <3> QED
      BY <2>1, <2>2, <3>1, <3>2
  <2>4. ASSUME NEW e \in Employees, NEW p \in BothPunches, Punch(e, p)
        PROVE  punches' \in [Employees -> SUBSET BothPunches]
    <3>1. punches' = [punches EXCEPT ![e] = punches[e] \cup {p}]
      BY <2>4 DEF Punch
    <3>2. punches[e] \cup {p} \in SUBSET BothPunches
      BY <2>2
    <3> QED
      BY <2>1, <3>1, <3>2
  <2> QED
    BY <2>3, <2>4
<1> QED
  BY <1>1, <1>2 DEF TypeInv, RowsTyped, DaysTyped, ClerksTyped, EditorsTyped, periodVars

\* What every write of a day's figures does to the calls that have read them.
FiguresWritten(e) ==
    /\ UNCHANGED <<periodVars, verification, adjustment>>
    /\ \A x \in Employees \ {e} : Figures(x)' = Figures(x)
    /\ Figures(e)' # NoFigures
    /\ stray \subseteq stray'
    /\ status \notin Editable => <<"figures", e>> \in stray'
    /\ \A c \in Clerks : /\ SameCall(clerk'[c], clerk[c])
                         /\ clerk[c].dirty \subseteq clerk'[c].dirty
                         /\ HasRead(c, "figures") => <<"figures", e>> \in clerk'[c].dirty

LEMMA FiguresAreMarked ==
    ASSUME TypeInv, NEW e \in Employees, NEW x, x, WritesPast(x, "figures", e, clerk),
           UNCHANGED <<periodVars, verification, adjustment>>,
           \A f \in Employees \ {e} : summary'[f] = summary[f] /\ override'[f] = override[f],
           override'[e] # "none" \/ summary'[e].status # "none"
    PROVE  FiguresWritten(e) /\ ClerksTyped' /\ stray' \subseteq Writes
<1>1. PICK others : others = clerk
  OBVIOUS
<1>2. others \in [Clerks -> Clerk] /\ \A c \in Clerks : ClerkSound(others[c])
  BY <1>1 DEF TypeInv, ClerksTyped
<1>3. WritesPast(x, "figures", e, others)
  BY <1>1
<1>4. /\ ClerksTyped' /\ stray \subseteq stray' /\ stray' \subseteq Writes
      /\ x /\ status \notin Editable => <<"figures", e>> \in stray'
      /\ \A c \in Clerks : /\ SameCall(clerk'[c], others[c])
                           /\ others[c].dirty \subseteq clerk'[c].dirty
                           /\ x /\ HasRead(c, "figures") => <<"figures", e>> \in clerk'[c].dirty
  BY <1>2, <1>3, PastIsMarked DEF TypeInv, RowsTyped
<1>5. \A f \in Employees \ {e} : Figures(f)' = Figures(f)
  BY DEF Figures
<1>6. Figures(e)' # NoFigures
  BY DEF Figures, NoFigures, WorkingDay
<1> QED
  BY <1>1, <1>4, <1>5, <1>6 DEF FiguresWritten

LEMMA RecomputedIsSolid ==
    ASSUME NEW day \in Summary, NEW p \in SUBSET BothPunches
    PROVE  /\ Recomputed(day, p) \in Summary /\ Solid(Recomputed(day, p))
           /\ Recomputed(day, p).status \in {"absent", "present"}
           /\ Recomputed(day, p).leave = day.leave
<1>1. PICK s \in {"absent", "present"} : s = IF p = {} THEN "absent" ELSE "present"
  OBVIOUS
<1>2. PICK m \in {"worked", "none"} : m = IF p = BothPunches THEN "worked" ELSE "none"
  OBVIOUS
<1>3. Recomputed(day, p) = [day EXCEPT !.status = s, !.minutes = m]
  BY <1>1, <1>2 DEF Recomputed
<1> QED
  BY <1>3 DEF Summary, Solid

\* One day of one employee is written.
LEMMA SummaryMoves ==
    ASSUME TypeInv, NEW e \in Employees, NEW day \in Summary, Solid(day),
           summary' = [summary EXCEPT ![e] = day]
    PROVE  /\ DaysTyped' /\ summary'[e] = day
           /\ \A x \in Employees \ {e} : summary'[x] = summary[x]
BY DEF TypeInv, DaysTyped

LEMMA CommitDayTyped ==
    ASSUME TypeInv, NEW d \in Editors, CommitDay(d)
    PROVE  /\ TypeInv' /\ editor'[d] = IdleEditor
           /\ \A b \in Editors \ {d} : editor'[b] = editor[b]
           /\ editor[d].op \notin {"grant", "withdraw"}
           /\ \E e \in Employees :
                 /\ FiguresWritten(e)
                 /\ summary'[e].leave = summary[e].leave /\ summary'[e].status # "leave"
                 /\ \A x \in Employees \ {e} : summary'[x] = summary[x]
<1>1. editor[d] \in Editor /\ EditorSound(editor[d]) /\ editor[d].pc = "commit"
  BY DEF TypeInv, EditorsTyped, CommitDay
<1>2. PICK e \in Employees : e = editor[d].of
  BY <1>1 DEF EditorSound
<1>3. EditorsTyped' /\ editor'[d] = IdleEditor /\ \A b \in Editors \ {d} : editor'[b] = editor[b]
  BY EditorFinishes DEF CommitDay, TypeInv
<1>4. editor[d].op = "resolve" \/ Checked(d)
  BY <1>1 DEF EditorSound, Checked
<1>5. summary[e] \in Summary /\ editor[d].read \in SUBSET BothPunches /\ editor[d].add \in SUBSET BothPunches
  BY <1>1 DEF TypeInv, DaysTyped, Editor
<1>6. PICK day \in Summary : /\ day = Recomputed(summary[e], editor[d].read) /\ Solid(day)
                             /\ day.status \in {"absent", "present"} /\ day.leave = summary[e].leave
  BY <1>5, RecomputedIsSolid
<1>7. summary' = [summary EXCEPT ![e] = day]
  BY <1>2, <1>6 DEF CommitDay
<1>8. DaysTyped' /\ summary'[e] = day /\ \A x \in Employees \ {e} : summary'[x] = summary[x]
  BY <1>6, <1>7, SummaryMoves
<1>9. punches' \in [Employees -> SUBSET BothPunches]
  BY <1>2, <1>5 DEF CommitDay, TypeInv, RowsTyped
<1>10. exception' \in [Employees -> {"none", "pending", "resolved"}]
  BY <1>2 DEF CommitDay, Redetected, TypeInv, RowsTyped
<1>11. dayLock' \in [Employees -> Editors \cup {Nobody}]
  BY <1>2 DEF CommitDay, TypeInv, RowsTyped
<1>12. FiguresWritten(e) /\ ClerksTyped' /\ stray' \subseteq Writes
  BY <1>2, <1>4, <1>6, <1>8, FiguresAreMarked DEF CommitDay
<1>13. TypeInv'
  BY <1>3, <1>8, <1>9, <1>10, <1>11, <1>12 DEF CommitDay, TypeInv, RowsTyped, periodVars
<1> QED
  BY <1>1, <1>3, <1>6, <1>8, <1>12, <1>13 DEF EditorSound

LEMMA WriteSummaryTyped ==
    ASSUME TypeInv, NEW d \in Editors, WriteSummary(d)
    PROVE  /\ TypeInv' /\ editor'[d].op = editor[d].op
           /\ \A b \in Editors \ {d} : editor'[b] = editor[b]
           /\ editor[d].op \notin {"grant", "withdraw"}
           /\ \E e \in Employees :
                 /\ FiguresWritten(e)
                 /\ summary'[e].leave = summary[e].leave /\ summary'[e].status # "leave"
                 /\ \A x \in Employees \ {e} : summary'[x] = summary[x]
<1>1. editor[d] \in Editor /\ EditorSound(editor[d]) /\ editor[d].pc = "punches"
  BY DEF TypeInv, EditorsTyped, WriteSummary
<1>2. PICK e \in Employees, v \in Corrections : e = editor[d].of /\ v = editor[d].to
  BY <1>1 DEF EditorSound
<1>3. editor[d].op = "correct" /\ Checked(d)
  BY <1>1 DEF EditorSound, Checked
<1>4. PICK k : k = [editor[d] EXCEPT !.pc = "override"]
  OBVIOUS
<1>5. k \in Editor /\ k.pc = "override" /\ k.op = editor[d].op /\ k.of = editor[d].of
      /\ k.seen = editor[d].seen /\ k.to = editor[d].to /\ k.day = editor[d].day
  BY <1>1, <1>4 DEF Editor
<1>6. EditorSound(k)
  BY <1>1, <1>3, <1>5 DEF EditorSound
<1>7. editor' = [editor EXCEPT ![d] = k]
  BY <1>4 DEF WriteSummary, GoOn
<1>8. EditorsTyped' /\ editor'[d] = k /\ \A b \in Editors \ {d} : editor'[b] = editor[b]
  BY <1>5, <1>6, <1>7, EditorMoves DEF TypeInv
<1>9. summary[e] \in Summary /\ v \notin {"none", "leave"}
  BY AttendanceAssumption DEF TypeInv, DaysTyped
<1>10. PICK day : day = [summary[e] EXCEPT !.status = v, !.minutes = v]
  OBVIOUS
<1>11. day \in Summary /\ Solid(day) /\ day.status = v /\ day.leave = summary[e].leave
  BY <1>9, <1>10 DEF Summary, Solid
<1>12. summary' = [summary EXCEPT ![e] = day]
  BY <1>2, <1>10 DEF WriteSummary
<1>13. DaysTyped' /\ summary'[e] = day /\ \A x \in Employees \ {e} : summary'[x] = summary[x]
  BY <1>11, <1>12, SummaryMoves
<1>14. FiguresWritten(e) /\ ClerksTyped' /\ stray' \subseteq Writes
  BY <1>2, <1>3, <1>9, <1>11, <1>13, FiguresAreMarked DEF WriteSummary
<1>15. TypeInv'
  BY <1>8, <1>13, <1>14 DEF WriteSummary, TypeInv, RowsTyped, periodVars
<1> QED
  BY <1>3, <1>5, <1>8, <1>9, <1>11, <1>13, <1>14, <1>15

LEMMA WriteOverrideTyped ==
    ASSUME TypeInv, NEW d \in Editors, WriteOverride(d)
    PROVE  /\ TypeInv' /\ editor'[d] = IdleEditor /\ summary' = summary
           /\ \A b \in Editors \ {d} : editor'[b] = editor[b]
           /\ editor[d].op \notin {"grant", "withdraw"}
           /\ \E e \in Employees : FiguresWritten(e)
<1>1. editor[d] \in Editor /\ EditorSound(editor[d]) /\ editor[d].pc = "override"
  BY DEF TypeInv, EditorsTyped, WriteOverride
<1>2. PICK e \in Employees, v \in Corrections : e = editor[d].of /\ v = editor[d].to
  BY <1>1 DEF EditorSound
<1>3. editor[d].op = "correct" /\ Checked(d) /\ v # "none"
  BY <1>1, AttendanceAssumption DEF EditorSound, Checked
<1>4. EditorsTyped' /\ editor'[d] = IdleEditor /\ \A b \in Editors \ {d} : editor'[b] = editor[b]
  BY EditorFinishes DEF WriteOverride, TypeInv
<1>5. /\ override' \in [Employees -> Corrections \cup {"none"}] /\ override'[e] = v
      /\ \A x \in Employees \ {e} : override'[x] = override[x]
  BY <1>2 DEF WriteOverride, TypeInv, RowsTyped
<1>6. FiguresWritten(e) /\ ClerksTyped' /\ stray' \subseteq Writes
  BY <1>2, <1>3, <1>5, FiguresAreMarked DEF WriteOverride
<1>7. TypeInv'
  BY <1>4, <1>5, <1>6 DEF WriteOverride, TypeInv, RowsTyped, DaysTyped, periodVars
<1> QED
  BY <1>3, <1>4, <1>6, <1>7 DEF WriteOverride

LEMMA WriteDayTyped ==
    ASSUME TypeInv, NEW d \in Editors, WriteDay(d)
    PROVE  /\ TypeInv' /\ editor'[d] = IdleEditor
           /\ \A b \in Editors \ {d} : editor'[b] = editor[b]
           /\ \E e \in Employees :
                 /\ FiguresWritten(e)
                 /\ e = editor[d].of /\ editor[d].op \in {"grant", "withdraw"}
                 /\ summary'[e].leave = (editor[d].op = "grant")
                 /\ summary'[e].status = LeaveStatus(editor[d].op, editor[d].day)
                 /\ summary'[e].minutes = summary[e].minutes
                 /\ summary[e] # editor[d].day => e \in misled'
                 /\ misled \subseteq misled'
                 /\ \A x \in Employees \ {e} : summary'[x] = summary[x]
<1>1. editor[d] \in Editor /\ EditorSound(editor[d]) /\ editor[d].pc = "write"
  BY DEF TypeInv, EditorsTyped, WriteDay
<1>2. PICK e \in Employees : e = editor[d].of
  BY <1>1 DEF EditorSound
<1>3. editor[d].op \in {"grant", "withdraw"} /\ editor[d].day \in Summary /\ Solid(editor[d].day)
  BY <1>1 DEF EditorSound, Editor
<1>4. EditorsTyped' /\ editor'[d] = IdleEditor /\ \A b \in Editors \ {d} : editor'[b] = editor[b]
  BY EditorFinishes DEF WriteDay, TypeInv
<1>5. summary[e] \in Summary
  BY DEF TypeInv, DaysTyped
<1>a. PICK on \in BOOLEAN : on = (editor[d].op = "grant")
  OBVIOUS
<1>b. PICK s : s = LeaveStatus(editor[d].op, editor[d].day)
  OBVIOUS
<1>6. s = LeaveStatus(editor[d].op, editor[d].day) /\ on = (editor[d].op = "grant")
  BY <1>a, <1>b
<1>7. s \in {"none", "absent", "present", "leave"} \cup Corrections /\ s # "none"
  BY <1>3, <1>6 DEF LeaveStatus, Summary, Solid
<1>8. PICK day : day = [summary[e] EXCEPT !.status = s, !.leave = on]
  OBVIOUS
<1>9. /\ day \in Summary /\ Solid(day) /\ day.status = s /\ day.leave = on
      /\ day.minutes = summary[e].minutes
  BY <1>5, <1>7, <1>8 DEF Summary, Solid
<1>10. summary' = [summary EXCEPT ![e] = day]
  BY <1>2, <1>6, <1>8 DEF WriteDay
<1>11. DaysTyped' /\ summary'[e] = day /\ \A x \in Employees \ {e} : summary'[x] = summary[x]
  BY <1>9, <1>10, SummaryMoves
<1>12. FiguresWritten(e) /\ ClerksTyped' /\ stray' \subseteq Writes
  <2>1. WritesPast(TRUE, "figures", e, clerk)
        /\ UNCHANGED <<periodVars, verification, adjustment, override>>
    BY <1>2 DEF WriteDay
  <2>2. PICK x \in BOOLEAN : x
    OBVIOUS
  <2>3. WritesPast(x, "figures", e, clerk)
    BY <2>1, <2>2 DEF WritesPast
  <2> QED
    BY <1>7, <1>9, <1>11, <2>1, <2>2, <2>3, FiguresAreMarked
<1>13. misled' \subseteq Employees /\ misled \subseteq misled'
       /\ (summary[e] # editor[d].day => e \in misled')
  BY <1>2 DEF WriteDay, TypeInv, RowsTyped
<1>14. TypeInv'
  BY <1>4, <1>11, <1>12, <1>13 DEF WriteDay, TypeInv, RowsTyped, periodVars
<1> QED
  BY <1>2, <1>3, <1>4, <1>6, <1>9, <1>11, <1>12, <1>13, <1>14

LEMMA DecideLeaveTyped ==
    ASSUME TypeInv, NEW d \in Editors, NEW e \in Employees, NEW op \in {"grant", "withdraw"},
           DecideLeave(d, e, op)
    PROVE  /\ TypeInv' /\ editor[d] = IdleEditor /\ editor'[d].op = op /\ editor'[d].of = e
           /\ \A b \in Editors \ {d} : editor'[b] = editor[b]
           /\ leave'[e] = IF op = "grant" THEN "approved" ELSE "cancelled"
           /\ \A x \in Employees \ {e} : leave'[x] = leave[x]
<1>1. PICK k : k = [IdleEditor EXCEPT !.op = op, !.of = e, !.pc = "read"]
  OBVIOUS
<1>2. k \in Editor /\ k.op = op /\ k.of = e /\ k.pc = "read" /\ k.day = IdleEditor.day
  BY <1>1, IdleSound DEF IdleEditor, Editor
<1>3. EditorSound(k)
  BY <1>2, IdleSound DEF EditorSound
<1>4. editor[d] = IdleEditor /\ editor' = [editor EXCEPT ![d] = k]
  BY <1>1 DEF DecideLeave, Begin
<1>5. EditorsTyped' /\ editor'[d] = k /\ \A b \in Editors \ {d} : editor'[b] = editor[b]
  BY <1>2, <1>3, <1>4, EditorMoves DEF TypeInv
<1>6. /\ leave' \in [Employees -> {"none", "approved", "cancelled"}]
      /\ leave'[e] = IF op = "grant" THEN "approved" ELSE "cancelled"
      /\ \A x \in Employees \ {e} : leave'[x] = leave[x]
  BY DEF DecideLeave, TypeInv, RowsTyped
<1>7. misled' \subseteq Employees
  BY DEF DecideLeave, TypeInv, RowsTyped
<1> QED
  BY <1>2, <1>4, <1>5, <1>6, <1>7 DEF DecideLeave, TypeInv, RowsTyped, DaysTyped, ClerksTyped,
     periodVars, dayVars

LEMMA ReadDayTyped ==
    ASSUME TypeInv, NEW d \in Editors, ReadDay(d)
    PROVE  /\ TypeInv' /\ clerk' = clerk
           /\ editor[d].of \in Employees /\ editor[d].op \in {"grant", "withdraw"}
           /\ \/ editor'[d].op = editor[d].op /\ editor'[d].of = editor[d].of
              \/ /\ editor'[d] = IdleEditor
                 /\ editor[d].op = "withdraw" /\ ~summary[editor[d].of].leave
           /\ \A b \in Editors \ {d} : editor'[b] = editor[b]
<1>1. editor[d] \in Editor /\ EditorSound(editor[d]) /\ editor[d].pc = "read"
  BY DEF TypeInv, EditorsTyped, ReadDay
<1>2. PICK e \in Employees : e = editor[d].of
  BY <1>1 DEF EditorSound
<1>3. editor[d].op \in {"grant", "withdraw"}
  BY <1>1 DEF EditorSound
<1>4. CASE Finish(d) /\ ~(editor[d].op = "grant" \/ summary[e].leave)
  <2>1. EditorsTyped' /\ editor'[d] = IdleEditor /\ \A b \in Editors \ {d} : editor'[b] = editor[b]
    BY <1>4, EditorFinishes DEF TypeInv
  <2> QED
    BY <1>2, <1>3, <1>4, <2>1 DEF ReadDay, TypeInv, RowsTyped, DaysTyped, ClerksTyped,
       periodVars, dayVars
<1>5. CASE editor' = [editor EXCEPT ![d].pc = "write", ![d].day = summary[e]]
  <2>1. PICK k : k = [editor[d] EXCEPT !.pc = "write", !.day = summary[e]]
    OBVIOUS
  <2>2. summary[e] \in Summary /\ Solid(summary[e])
    BY DEF TypeInv, DaysTyped
  <2>3. k \in Editor /\ k.pc = "write" /\ k.op = editor[d].op /\ k.of = editor[d].of
        /\ k.day = summary[e] /\ k.seen = editor[d].seen
    BY <1>1, <2>1, <2>2 DEF Editor
  <2>4. EditorSound(k)
    BY <1>1, <1>3, <2>2, <2>3 DEF EditorSound
  <2>5. editor' = [editor EXCEPT ![d] = k]
    BY <1>5, <2>1
  <2>6. EditorsTyped' /\ editor'[d] = k /\ \A b \in Editors \ {d} : editor'[b] = editor[b]
    BY <2>3, <2>4, <2>5, EditorMoves DEF TypeInv
  <2> QED
    BY <1>2, <1>3, <2>3, <2>6 DEF ReadDay, TypeInv, RowsTyped, DaysTyped, ClerksTyped,
       periodVars, dayVars
<1> QED
  BY <1>2, <1>4, <1>5 DEF ReadDay

LEMMA FailTyped ==
    ASSUME TypeInv, NEW d \in Editors, Fail(d)
    PROVE  /\ TypeInv' /\ clerk' = clerk /\ editor'[d] = IdleEditor
           /\ \A b \in Editors \ {d} : editor'[b] = editor[b]
           /\ misled \subseteq misled'
           /\ d \in Reconciling(editor[d].of) => editor[d].of \in misled'
<1>1. EditorsTyped' /\ editor'[d] = IdleEditor /\ \A b \in Editors \ {d} : editor'[b] = editor[b]
  BY EditorFinishes DEF Fail, TypeInv
<1>2. dayLock' \in [Employees -> Editors \cup {Nobody}]
  BY DEF Fail, TypeInv, RowsTyped
<1>3. misled' \subseteq Employees
  <2>1. d \in Reconciling(editor[d].of) => editor[d].of \in Employees
    BY DEF Reconciling, TypeInv, EditorsTyped, EditorSound, Editor
  <2> QED
    BY <2>1 DEF Fail, TypeInv, RowsTyped
<1> QED
  BY <1>1, <1>2, <1>3 DEF Fail, TypeInv, RowsTyped, DaysTyped, ClerksTyped, periodVars, dayVars

LEMMA TypeStutter == TypeInv /\ UNCHANGED attendanceVars => TypeInv'
BY DEF TypeInv, RowsTyped, DaysTyped, ClerksTyped, EditorsTyped, attendanceVars, periodVars, dayVars

LEMMA TypeStep == TypeInv /\ [AttendanceNext]_attendanceVars => TypeInv'
<1> SUFFICES ASSUME TypeInv, [AttendanceNext]_attendanceVars PROVE TypeInv'
  OBVIOUS
<1>1. ASSUME NEW c \in Clerks, StatusNext(c) PROVE TypeInv'
  BY <1>1, BeginMoveTyped, ValidateCloseTyped, ReadTruthTyped, MoveTyped, GiveUpTyped
     DEF StatusNext
<1>2. ASSUME NEW c \in Clerks, VerificationNext(c) PROVE TypeInv'
  BY <1>2, BeginVerifyTyped, VerificationWritten DEF VerificationNext
<1>3. ASSUME NEW c \in Clerks, AdjustmentNext(c) PROVE TypeInv'
  BY <1>3, BeginAdjustmentTyped, BeginDecisionTyped, WriteAdjustmentTyped DEF AdjustmentNext
<1>4. ASSUME NEW d \in Editors, EditNext(d) PROVE TypeInv'
  BY <1>4, BeginEditTyped, LockDayTyped, CommitDayTyped, PunchesTyped, WriteSummaryTyped,
     WriteOverrideTyped, FailTyped DEF EditNext
<1>5. ASSUME NEW d \in Editors, LeaveNext(d) PROVE TypeInv'
  BY <1>5, DecideLeaveTyped, ReadDayTyped, WriteDayTyped, FailTyped DEF LeaveNext
<1> QED
  BY <1>1, <1>2, <1>3, <1>4, <1>5, PunchesTyped, TypeStutter DEF AttendanceNext

\* The period, its days and everybody's calls keep their types, and a call is
\* always about an employee or an adjustment that there is.
THEOREM AttendanceTypeInvariant == AttendanceSpec => []TypeInv
BY TypeInit, TypeStep, PTL DEF AttendanceSpec

\* AttendanceTypeOK: every row, and every call on its way, has the type it is
\* declared with.
THEOREM AttendanceTypeCorrect == AttendanceSpec => []AttendanceTypeOK
<1>1. TypeInv => AttendanceTypeOK
  <2> SUFFICES ASSUME TypeInv PROVE AttendanceTypeOK
    OBVIOUS
  <2>1. \A c \in Clerks : DOMAIN clerk[c] = DOMAIN IdleClerk
    BY DEF TypeInv, ClerksTyped, Clerk, IdleClerk
  <2>2. \A d \in Editors : DOMAIN editor[d] = DOMAIN IdleEditor
    BY DEF TypeInv, EditorsTyped, Editor, IdleEditor
  <2>3. \A a \in Adjustments :
          /\ adjustment[a].status \in AdjustmentStatus
          /\ adjustment[a].of \in Employees \cup {"none"} /\ adjustment[a].approved \in BOOLEAN
    BY DEF TypeInv, RowsTyped, Adjustment
  <2>4. snapshot.version \in 0..MaxVersions /\ DOMAIN snapshot.figures = Employees
    BY DEF TypeInv, RowsTyped
  <2> QED
    BY <2>1, <2>2, <2>3, <2>4 DEF AttendanceTypeOK, TypeInv, RowsTyped, DaysTyped, Writes
<1> QED
  BY <1>1, AttendanceTypeInvariant, PTL

-----------------------------------------------------------------------------
(***************************************************************************)
(* Snapshots tell what payroll is told of the days.                        *)
(***************************************************************************)

Snapshots(k) == k.op \in Snapshotting /\ k.pc = "move"

LEMMA DaysStay ==
    ASSUME SnapshotInv, UNCHANGED <<status, snapshot, summary, override>>, stray \subseteq stray',
           \A c \in Clerks : Snapshots(clerk'[c]) =>
               /\ Snapshots(clerk[c]) /\ clerk'[c].figures = clerk[c].figures
               /\ clerk[c].dirty \subseteq clerk'[c].dirty
    PROVE  SnapshotInv'
<1>1. \A e \in Employees : Figures(e)' = Figures(e)
  BY DEF Figures
<1>2. SnapshotIsTruth'
  BY <1>1 DEF SnapshotInv, SnapshotIsTruth
<1>3. \A e \in Employees : snapshot'.figures[e] # NoFigures => Figures(e)' # NoFigures
  BY <1>1 DEF SnapshotInv
<1>4. ASSUME NEW c \in Clerks PROVE ReadOfDays(clerk[c])'
  <2>1. ReadOfDays(clerk[c])
    BY DEF SnapshotInv
  <2> QED
    BY <1>1, <2>1 DEF ReadOfDays, Snapshots
<1> QED
  BY <1>2, <1>3, <1>4 DEF SnapshotInv

LEMMA DayIsWritten ==
    ASSUME SnapshotInv, NEW e \in Employees, FiguresWritten(e)
    PROVE  SnapshotInv'
<1>1. /\ status' = status /\ snapshot' = snapshot /\ Figures(e)' # NoFigures
      /\ \A x \in Employees \ {e} : Figures(x)' = Figures(x)
      /\ stray \subseteq stray' /\ (status \notin Editable => <<"figures", e>> \in stray')
  BY DEF FiguresWritten, periodVars
<1>2. SnapshotIsTruth'
  <2> SUFFICES ASSUME status' \in {"locked", "closed"}, NEW x \in Employees
               PROVE  <<"figures", x>> \in stray' \/ snapshot'.figures[x] = Figures(x)'
    BY DEF SnapshotIsTruth
  <2>1. <<"figures", x>> \in stray \/ snapshot.figures[x] = Figures(x)
    BY <1>1 DEF SnapshotInv, SnapshotIsTruth
  <2>2. CASE x = e
    BY <1>1, <2>2 DEF Editable
  <2>3. CASE x # e
    BY <1>1, <2>1, <2>3
  <2> QED
    BY <2>2, <2>3
<1>3. ASSUME NEW x \in Employees, snapshot'.figures[x] # NoFigures
      PROVE  Figures(x)' # NoFigures
  BY <1>1, <1>3 DEF SnapshotInv
<1>4. ASSUME NEW c \in Clerks PROVE ReadOfDays(clerk[c])'
  <2> SUFFICES ASSUME clerk'[c].op \in Snapshotting, clerk'[c].pc = "move", NEW x \in Employees
               PROVE  /\ <<"figures", x>> \in clerk'[c].dirty \/ clerk'[c].figures[x] = Figures(x)'
                      /\ clerk'[c].figures[x] # NoFigures => Figures(x)' # NoFigures
    BY DEF ReadOfDays
  <2>1. /\ clerk[c].op = clerk'[c].op /\ clerk[c].pc = "move" /\ clerk'[c].figures = clerk[c].figures
        /\ clerk[c].dirty \subseteq clerk'[c].dirty
    BY DEF FiguresWritten, SameCall
  <2>2. <<"figures", e>> \in clerk'[c].dirty
    BY <2>1 DEF FiguresWritten, HasRead
  <2>3. /\ <<"figures", x>> \in clerk[c].dirty \/ clerk[c].figures[x] = Figures(x)
        /\ clerk[c].figures[x] # NoFigures => Figures(x) # NoFigures
    BY <2>1 DEF SnapshotInv, ReadOfDays
  <2>4. CASE x = e
    BY <1>1, <2>2, <2>4
  <2>5. CASE x # e
    BY <1>1, <2>1, <2>3, <2>5
  <2> QED
    BY <2>4, <2>5
<1> QED
  BY <1>2, <1>3, <1>4 DEF SnapshotInv

LEMMA DaysAreRead ==
    ASSUME TypeInv, SnapshotInv, NEW c \in Clerks, ReadTruth(c)
    PROVE  SnapshotInv'
<1>1. /\ clerk'[c].figures = AllFigures
      /\ \A b \in Clerks \ {c} : clerk'[b] = clerk[b]
  BY ReadTruthTyped
<1>2. UNCHANGED <<status, snapshot, summary, override, stray>>
  BY DEF ReadTruth, periodVars, dayVars
<1>3. \A e \in Employees : Figures(e)' = Figures(e)
  BY <1>2 DEF Figures
<1>4. SnapshotIsTruth'
  BY <1>2, <1>3 DEF SnapshotInv, SnapshotIsTruth
<1>5. \A e \in Employees : snapshot'.figures[e] # NoFigures => Figures(e)' # NoFigures
  BY <1>2, <1>3 DEF SnapshotInv
<1>6. ASSUME NEW b \in Clerks PROVE ReadOfDays(clerk[b])'
  <2>1. CASE b = c
    BY <1>1, <1>3, <2>1 DEF ReadOfDays, AllFigures
  <2>2. CASE b # c
    <3>1. ReadOfDays(clerk[b]) /\ clerk'[b] = clerk[b]
      BY <1>1, <2>2 DEF SnapshotInv
    <3> QED
      BY <1>3, <3>1 DEF ReadOfDays
  <2> QED
    BY <2>1, <2>2
<1> QED
  BY <1>4, <1>5, <1>6 DEF SnapshotInv

\* The status moves, and with it the snapshot if the move takes one.
LEMMA PeriodMoves ==
    ASSUME TypeInv, SnapshotInv, NEW c \in Clerks, Move(c)
    PROVE  SnapshotInv'
<1>1. clerk'[c] = IdleClerk /\ \A b \in Clerks \ {c} : clerk'[b] = clerk[b]
  BY MoveTyped
<1>2. UNCHANGED <<summary, override>>
  BY DEF Move, dayVars
<1>3. \A e \in Employees : Figures(e)' = Figures(e)
  BY <1>2 DEF Figures
<1>4. ReadOfDays(clerk[c])
  BY DEF SnapshotInv
<1>5. \A e \in Employees : snapshot'.figures[e] # NoFigures => Figures(e) # NoFigures
  <2>1. CASE snapshot' = snapshot
    BY <2>1 DEF SnapshotInv
  <2>2. CASE snapshot' # snapshot
    <3>1. clerk[c].op \in Snapshotting /\ clerk[c].pc = "move"
          /\ snapshot'.figures = clerk[c].figures
      BY <2>2 DEF Move, InsertSnapshots
    <3> QED
      BY <1>4, <3>1 DEF ReadOfDays
  <2> QED
    BY <2>1, <2>2
<1>6. SnapshotIsTruth'
  <2> SUFFICES ASSUME status' \in {"locked", "closed"}, NEW e \in Employees
               PROVE  <<"figures", e>> \in stray' \/ snapshot'.figures[e] = Figures(e)'
    BY DEF SnapshotIsTruth
  <2>1. clerk[c].op \in Snapshotting /\ clerk[c].pc = "move" /\ stray' = clerk[c].dirty
    BY DEF Move, Moves, To, Snapshotting
  <2>2. /\ <<"figures", e>> \in stray' \/ clerk[c].figures[e] = Figures(e)
        /\ clerk[c].figures[e] # NoFigures => Figures(e) # NoFigures
    BY <1>4, <2>1 DEF ReadOfDays
  <2>3. CASE \A x \in Employees : clerk[c].figures[x] = NoFigures
    <3>1. snapshot' = snapshot
      BY <2>1, <2>3 DEF Move, InsertSnapshots
    <3>2. snapshot.figures[e] # NoFigures => Figures(e) # NoFigures
      BY DEF SnapshotInv
    <3> QED
      BY <1>3, <2>2, <2>3, <3>1, <3>2
  <2>4. CASE \E x \in Employees : clerk[c].figures[x] # NoFigures
    <3>1. snapshot'.figures = clerk[c].figures
      BY <2>1, <2>4 DEF Move, InsertSnapshots
    <3> QED
      BY <1>3, <2>2, <3>1
  <2> QED
    BY <2>3, <2>4
<1>7. ASSUME NEW b \in Clerks PROVE ReadOfDays(clerk[b])'
  <2>1. CASE b = c
    BY <1>1, <2>1 DEF ReadOfDays, IdleClerk
  <2>2. CASE b # c
    <3>1. ReadOfDays(clerk[b]) /\ clerk'[b] = clerk[b]
      BY <1>1, <2>2 DEF SnapshotInv
    <3> QED
      BY <1>3, <3>1 DEF ReadOfDays
  <2> QED
    BY <2>1, <2>2
<1> QED
  BY <1>3, <1>5, <1>6, <1>7 DEF SnapshotInv

LEMMA SnapshotInit == AttendanceInit => SnapshotInv
BY DEF AttendanceInit, SnapshotInv, SnapshotIsTruth, ReadOfDays, IdleClerk, Snapshotting

LEMMA SnapshotStep == TypeInv /\ SnapshotInv /\ [AttendanceNext]_attendanceVars => SnapshotInv'
<1> SUFFICES ASSUME TypeInv, SnapshotInv, [AttendanceNext]_attendanceVars PROVE SnapshotInv'
  OBVIOUS
<1> USE DEF periodVars, dayVars
\* a clerk's call begins, goes on or ends, without figures of its own
<1>1. ASSUME NEW c \in Clerks, UNCHANGED <<status, snapshot, summary, override>>,
             stray \subseteq stray', ~Snapshots(clerk'[c]),
             \A b \in Clerks \ {c} : /\ SameCall(clerk'[b], clerk[b])
                                     /\ clerk[b].dirty \subseteq clerk'[b].dirty
      PROVE  SnapshotInv'
  BY <1>1, DaysStay DEF Snapshots, SameCall
<1>2. ASSUME NEW c \in Clerks, StatusNext(c) PROVE SnapshotInv'
  <2>1. ASSUME NEW op \in Moves, BeginMove(c, op) PROVE SnapshotInv'
    BY <1>1, <2>1, BeginMoveTyped DEF BeginMove, Snapshots, SameCall
  <2>2. CASE ValidateClose(c)
    BY <1>1, <2>2, ValidateCloseTyped DEF ValidateClose, Snapshots, SameCall
  <2>3. CASE GiveUp(c)
    BY <1>1, <2>3, GiveUpTyped DEF GiveUp, Snapshots, SameCall, IdleClerk
  <2> QED
    BY <1>2, <2>1, <2>2, <2>3, DaysAreRead, PeriodMoves DEF StatusNext
<1>3. ASSUME NEW c \in Clerks, VerificationNext(c) PROVE SnapshotInv'
  <2>1. ASSUME NEW e \in Employees, NEW op \in {"verify", "unverify"}, BeginVerify(c, e, op)
        PROVE  SnapshotInv'
    <3>1. UNCHANGED <<status, snapshot, summary, override, stray>>
      BY <2>1 DEF BeginVerify
    <3>2. clerk'[c].op \in {"verify", "unverify"} /\ \A b \in Clerks \ {c} : clerk'[b] = clerk[b]
      BY <2>1, BeginVerifyTyped
    <3>3. ~Snapshots(clerk'[c])
      BY <3>2 DEF Snapshots, Snapshotting
    <3>4. \A b \in Clerks \ {c} : /\ SameCall(clerk'[b], clerk[b])
                                   /\ clerk[b].dirty \subseteq clerk'[b].dirty
      BY <3>2 DEF SameCall
    <3> QED
      BY <1>1, <3>1, <3>3, <3>4
  <2>2. CASE EnsureVerification(c) \/ WriteVerification(c)
    BY <1>1, <2>2, VerificationWritten DEF EnsureVerification, WriteVerification, Snapshots
  <2> QED
    BY <1>3, <2>1, <2>2 DEF VerificationNext
<1>4. ASSUME NEW c \in Clerks, AdjustmentNext(c) PROVE SnapshotInv'
  <2>1. ASSUME NEW a \in Adjustments, NEW e \in Employees, BeginAdjustment(c, a, e)
        PROVE  SnapshotInv'
    <3>1. UNCHANGED <<status, snapshot, summary, override, stray>>
      BY <2>1 DEF BeginAdjustment
    <3>2. clerk'[c].op = "adjust" /\ \A b \in Clerks \ {c} : clerk'[b] = clerk[b]
      BY <2>1, BeginAdjustmentTyped
    <3>3. ~Snapshots(clerk'[c])
      BY <3>2 DEF Snapshots, Snapshotting
    <3>4. \A b \in Clerks \ {c} : /\ SameCall(clerk'[b], clerk[b])
                                   /\ clerk[b].dirty \subseteq clerk'[b].dirty
      BY <3>2 DEF SameCall
    <3> QED
      BY <1>1, <3>1, <3>3, <3>4
  <2>2. ASSUME NEW a \in Adjustments, NEW to \in AdjustmentStatus, BeginAdjustmentDecision(c, a, to)
        PROVE  SnapshotInv'
    <3>1. UNCHANGED <<status, snapshot, summary, override, stray>>
      BY <2>2 DEF BeginAdjustmentDecision
    <3>2. clerk'[c].op = "adjust" /\ \A b \in Clerks \ {c} : clerk'[b] = clerk[b]
      BY <2>2, BeginDecisionTyped
    <3>3. ~Snapshots(clerk'[c])
      BY <3>2 DEF Snapshots, Snapshotting
    <3>4. \A b \in Clerks \ {c} : /\ SameCall(clerk'[b], clerk[b])
                                   /\ clerk[b].dirty \subseteq clerk'[b].dirty
      BY <3>2 DEF SameCall
    <3> QED
      BY <1>1, <3>1, <3>3, <3>4
  <2>3. CASE WriteAdjustment(c)
    <3>1. UNCHANGED <<status, snapshot, summary, override, stray>>
      BY <2>3 DEF WriteAdjustment
    <3>2. clerk'[c] = IdleClerk /\ \A b \in Clerks \ {c} : clerk'[b] = clerk[b]
      BY <2>3, WriteAdjustmentTyped
    <3>3. ~Snapshots(clerk'[c])
      BY <3>2 DEF Snapshots, IdleClerk
    <3>4. \A b \in Clerks \ {c} : /\ SameCall(clerk'[b], clerk[b])
                                   /\ clerk[b].dirty \subseteq clerk'[b].dirty
      BY <3>2 DEF SameCall
    <3> QED
      BY <1>1, <3>1, <3>3, <3>4
  <2> QED
    BY <1>4, <2>1, <2>2, <2>3 DEF AdjustmentNext
<1>5. ASSUME UNCHANGED <<status, snapshot, summary, override, stray, clerk>> PROVE SnapshotInv'
  BY <1>5, DaysStay
<1>6. ASSUME NEW d \in Editors, EditNext(d) PROVE SnapshotInv'
  <2>1. CASE CommitDay(d) \/ WriteSummary(d) \/ WriteOverride(d)
    BY <2>1, CommitDayTyped, WriteSummaryTyped, WriteOverrideTyped, DayIsWritten
  <2>2. CASE UNCHANGED <<status, snapshot, summary, override, stray, clerk>>
    BY <1>5, <2>2
  <2> QED
    BY <1>6, <2>1, <2>2 DEF EditNext, BeginEdit, BeginResolve, LockDay, WritePunch, Fail
<1>7. ASSUME NEW d \in Editors, LeaveNext(d) PROVE SnapshotInv'
  <2>1. CASE WriteDay(d)
    BY <2>1, WriteDayTyped, DayIsWritten
  <2>2. CASE UNCHANGED <<status, snapshot, summary, override, stray, clerk>>
    BY <1>5, <2>2
  <2> QED
    BY <1>7, <2>1, <2>2 DEF LeaveNext, DecideLeave, ReadDay, Fail
<1>8. ASSUME NEW e \in Employees, NEW p \in BothPunches, Punch(e, p) PROVE SnapshotInv'
  BY <1>5, <1>8 DEF Punch
<1>9. CASE UNCHANGED attendanceVars
  BY <1>5, <1>9 DEF attendanceVars
<1> QED
  BY <1>2, <1>3, <1>4, <1>6, <1>7, <1>8, <1>9 DEF AttendanceNext

\* SnapshotIsTruth: while a period is locked or closed its snapshot says what
\* payroll is told, but for the writes that the code lets pass the lock.
THEOREM SnapshotsAreTrue == AttendanceSpec => []SnapshotIsTruth
<1>1. SnapshotInv => SnapshotIsTruth
  BY DEF SnapshotInv
<1> QED
  BY <1>1, SnapshotInit, SnapshotStep, AttendanceTypeInvariant, PTL DEF AttendanceSpec

-----------------------------------------------------------------------------
(***************************************************************************)
(* A closed period is verified.                                            *)
(***************************************************************************)

Closes(k) == k.op = "close" /\ k.pc \in {"read", "move"}

LEMMA VerificationsStay ==
    ASSUME VerifiedInv, UNCHANGED <<status, verification>>, stray \subseteq stray',
           \A c \in Clerks : Closes(clerk'[c]) =>
               Closes(clerk[c]) /\ clerk[c].dirty \subseteq clerk'[c].dirty
    PROVE  VerifiedInv'
<1>1. ClosedIsVerified'
  BY DEF VerifiedInv, ClosedIsVerified
<1>2. ASSUME NEW c \in Clerks PROVE ReadOfVerifications(clerk[c])'
  <2>1. ReadOfVerifications(clerk[c])
    BY DEF VerifiedInv
  <2> QED
    BY <2>1 DEF ReadOfVerifications, Closes
<1> QED
  BY <1>1, <1>2 DEF VerifiedInv

\* A clerk's call begins, goes on or ends without having validated anything.
LEMMA OneClerkVouchesNot ==
    ASSUME VerifiedInv, UNCHANGED <<status, verification>>, stray \subseteq stray',
           NEW c \in Clerks,
           ~Closes(clerk'[c]) \/ (Closes(clerk[c]) /\ clerk[c].dirty \subseteq clerk'[c].dirty),
           \A b \in Clerks \ {c} : clerk'[b] = clerk[b]
    PROVE  VerifiedInv'
BY VerificationsStay

LEMMA CloseIsValidated ==
    ASSUME TypeInv, VerifiedInv, NEW c \in Clerks, ValidateClose(c)
    PROVE  VerifiedInv'
<1>1. /\ clerk'[c].pc # "move"
      /\ clerk'[c].pc = "read" => \A e \in Employees : verification[e] # "draft"
      /\ \A b \in Clerks \ {c} : clerk'[b] = clerk[b]
  BY ValidateCloseTyped
<1>2. UNCHANGED <<status, verification, stray>>
  BY DEF ValidateClose, periodVars
<1>3. ClosedIsVerified'
  BY <1>2 DEF VerifiedInv, ClosedIsVerified
<1>4. ASSUME NEW b \in Clerks PROVE ReadOfVerifications(clerk[b])'
  <2>1. CASE b = c
    BY <1>1, <1>2, <2>1 DEF ReadOfVerifications
  <2>2. CASE b # c
    <3>1. ReadOfVerifications(clerk[b]) /\ clerk'[b] = clerk[b]
      BY <1>1, <2>2 DEF VerifiedInv
    <3> QED
      BY <1>2, <3>1 DEF ReadOfVerifications
  <2> QED
    BY <2>1, <2>2
<1> QED
  BY <1>3, <1>4 DEF VerifiedInv

LEMMA PeriodCloses ==
    ASSUME TypeInv, VerifiedInv, NEW c \in Clerks, Move(c)
    PROVE  VerifiedInv'
<1>1. clerk'[c] = IdleClerk /\ \A b \in Clerks \ {c} : clerk'[b] = clerk[b]
  BY MoveTyped
<1>2. verification' = verification /\ stray' = clerk[c].dirty
  BY DEF Move
<1>3. ClosedIsVerified'
  <2> SUFFICES ASSUME status' = "closed", NEW e \in Employees
               PROVE  <<"draft", e>> \in stray' \/ verification'[e] # "draft"
    BY DEF ClosedIsVerified
  <2>1. clerk[c].op = "close" /\ clerk[c].pc = "move"
    BY DEF Move, Moves, To
  <2>2. ReadOfVerifications(clerk[c])
    BY DEF VerifiedInv
  <2> QED
    BY <1>2, <2>1, <2>2 DEF ReadOfVerifications
<1>4. ASSUME NEW b \in Clerks PROVE ReadOfVerifications(clerk[b])'
  <2>1. CASE b = c
    BY <1>1, <2>1 DEF ReadOfVerifications, IdleClerk
  <2>2. CASE b # c
    <3>1. ReadOfVerifications(clerk[b]) /\ clerk'[b] = clerk[b]
      BY <1>1, <2>2 DEF VerifiedInv
    <3> QED
      BY <1>2, <3>1 DEF ReadOfVerifications
  <2> QED
    BY <2>1, <2>2
<1> QED
  BY <1>3, <1>4 DEF VerifiedInv

LEMMA VerificationIsWritten ==
    ASSUME TypeInv, VerifiedInv, NEW c \in Clerks, EnsureVerification(c) \/ WriteVerification(c)
    PROVE  VerifiedInv'
<1>1. PICK e \in Employees :
        /\ \A x \in Employees \ {e} : verification'[x] = verification[x]
        /\ \/ verification'[e] # "draft" \/ verification'[e] = verification[e]
           \/ /\ status \notin Editable => <<"draft", e>> \in stray'
              /\ \A b \in Clerks : HasRead(b, "draft") => <<"draft", e>> \in clerk'[b].dirty
  BY VerificationWritten
<1>2. /\ stray \subseteq stray'
      /\ clerk[c].op \in {"verify", "unverify"} \/ clerk[c].pc = "ensure"
      /\ clerk'[c].op \in {"none", clerk[c].op} /\ clerk'[c].pc \in {"idle", "write"}
      /\ \A b \in Clerks \ {c} : /\ SameCall(clerk'[b], clerk[b])
                                 /\ clerk[b].dirty \subseteq clerk'[b].dirty
  BY VerificationWritten
<1>3. status' = status
  BY DEF EnsureVerification, WriteVerification, periodVars
<1>4. ClosedIsVerified'
  <2> SUFFICES ASSUME status' = "closed", NEW x \in Employees
               PROVE  <<"draft", x>> \in stray' \/ verification'[x] # "draft"
    BY DEF ClosedIsVerified
  <2>1. <<"draft", x>> \in stray \/ verification[x] # "draft"
    BY <1>3 DEF VerifiedInv, ClosedIsVerified
  <2>2. status \notin Editable
    BY <1>3 DEF Editable
  <2>3. CASE x = e
    BY <1>1, <1>2, <2>1, <2>2, <2>3
  <2>4. CASE x # e
    BY <1>1, <1>2, <2>1, <2>4
  <2> QED
    BY <2>3, <2>4
<1>5. ASSUME NEW b \in Clerks PROVE ReadOfVerifications(clerk[b])'
  <2> SUFFICES ASSUME clerk'[b].op = "close", clerk'[b].pc \in {"read", "move"}, NEW x \in Employees
               PROVE  <<"draft", x>> \in clerk'[b].dirty \/ verification'[x] # "draft"
    BY DEF ReadOfVerifications
  <2>1. b # c
    BY <1>2
  <2>2. clerk[b].op = "close" /\ clerk[b].pc \in {"read", "move"}
        /\ clerk[b].dirty \subseteq clerk'[b].dirty
    BY <1>2, <2>1 DEF SameCall
  <2>3. <<"draft", x>> \in clerk[b].dirty \/ verification[x] # "draft"
    BY <2>2 DEF VerifiedInv, ReadOfVerifications
  <2>4. HasRead(b, "draft")
    BY <2>2 DEF HasRead
  <2>5. CASE x = e
    BY <1>1, <2>2, <2>3, <2>4, <2>5
  <2>6. CASE x # e
    BY <1>1, <2>2, <2>3, <2>6
  <2> QED
    BY <2>5, <2>6
<1> QED
  BY <1>4, <1>5 DEF VerifiedInv

LEMMA VerifiedInit == AttendanceInit => VerifiedInv
BY DEF AttendanceInit, VerifiedInv, ClosedIsVerified, ReadOfVerifications, IdleClerk

LEMMA VerifiedStep == TypeInv /\ VerifiedInv /\ [AttendanceNext]_attendanceVars => VerifiedInv'
<1> SUFFICES ASSUME TypeInv, VerifiedInv, [AttendanceNext]_attendanceVars PROVE VerifiedInv'
  OBVIOUS
<1> USE DEF periodVars, dayVars
<1>1. ASSUME NEW c \in Clerks, StatusNext(c) PROVE VerifiedInv'
  <2>1. ASSUME NEW op \in Moves, BeginMove(c, op) PROVE VerifiedInv'
    <3>1. UNCHANGED <<status, verification, stray>>
      BY <2>1 DEF BeginMove
    <3>2. clerk'[c].op = op /\ (op = "close" => clerk'[c].pc = "exceptions")
          /\ \A b \in Clerks \ {c} : clerk'[b] = clerk[b]
      BY <2>1, BeginMoveTyped
    <3>3. ~Closes(clerk'[c])
      BY <3>2 DEF Closes
    <3> QED
      BY <3>1, <3>2, <3>3, OneClerkVouchesNot
  <2>2. CASE ReadTruth(c)
    <3>1. UNCHANGED <<status, verification, stray>> /\ clerk[c].pc = "read"
      BY <2>2 DEF ReadTruth
    <3>2. clerk'[c].op = clerk[c].op /\ clerk'[c].dirty = clerk[c].dirty
          /\ \A b \in Clerks \ {c} : clerk'[b] = clerk[b]
      BY <2>2, ReadTruthTyped
    <3>3. ~Closes(clerk'[c]) \/ (Closes(clerk[c]) /\ clerk[c].dirty \subseteq clerk'[c].dirty)
      BY <3>1, <3>2 DEF Closes
    <3> QED
      BY <3>1, <3>2, <3>3, OneClerkVouchesNot
  <2>3. CASE GiveUp(c)
    <3>1. UNCHANGED <<status, verification, stray>>
      BY <2>3 DEF GiveUp
    <3>2. clerk'[c] = IdleClerk /\ \A b \in Clerks \ {c} : clerk'[b] = clerk[b]
      BY <2>3, GiveUpTyped
    <3>3. ~Closes(clerk'[c])
      BY <3>2 DEF Closes, IdleClerk
    <3> QED
      BY <3>1, <3>2, <3>3, OneClerkVouchesNot
  <2> QED
    BY <1>1, <2>1, <2>2, <2>3, CloseIsValidated, PeriodCloses DEF StatusNext
<1>2. ASSUME NEW c \in Clerks, VerificationNext(c) PROVE VerifiedInv'
  <2>1. ASSUME NEW e \in Employees, NEW op \in {"verify", "unverify"}, BeginVerify(c, e, op)
        PROVE  VerifiedInv'
    <3>1. UNCHANGED <<status, verification, stray>>
      BY <2>1 DEF BeginVerify
    <3>2. clerk'[c].op \in {"verify", "unverify"} /\ \A b \in Clerks \ {c} : clerk'[b] = clerk[b]
      BY <2>1, BeginVerifyTyped
    <3>3. ~Closes(clerk'[c])
      BY <3>2 DEF Closes
    <3> QED
      BY <3>1, <3>2, <3>3, OneClerkVouchesNot
  <2> QED
    BY <1>2, <2>1, VerificationIsWritten DEF VerificationNext
<1>3. ASSUME NEW c \in Clerks, AdjustmentNext(c) PROVE VerifiedInv'
  <2>1. UNCHANGED <<status, verification, stray>>
    BY <1>3 DEF AdjustmentNext, BeginAdjustment, BeginAdjustmentDecision, WriteAdjustment
  <2>2. clerk'[c].op \in {"adjust", "none"} /\ \A b \in Clerks \ {c} : clerk'[b] = clerk[b]
    BY <1>3, BeginAdjustmentTyped, BeginDecisionTyped, WriteAdjustmentTyped
       DEF AdjustmentNext, IdleClerk
  <2>3. ~Closes(clerk'[c])
    BY <2>2 DEF Closes
  <2> QED
    BY <2>1, <2>2, <2>3, OneClerkVouchesNot
<1>4. ASSUME UNCHANGED <<status, verification, stray, clerk>> PROVE VerifiedInv'
  BY <1>4, VerificationsStay
<1>5. ASSUME NEW e \in Employees, FiguresWritten(e) PROVE VerifiedInv'
  BY <1>5, VerificationsStay DEF FiguresWritten, SameCall, Closes
<1>6. ASSUME NEW d \in Editors, EditNext(d) PROVE VerifiedInv'
  <2>1. CASE CommitDay(d) \/ WriteSummary(d) \/ WriteOverride(d)
    BY <1>5, <2>1, CommitDayTyped, WriteSummaryTyped, WriteOverrideTyped
  <2>2. CASE UNCHANGED <<status, verification, stray, clerk>>
    BY <1>4, <2>2
  <2> QED
    BY <1>6, <2>1, <2>2 DEF EditNext, BeginEdit, BeginResolve, LockDay, WritePunch, Fail
<1>7. ASSUME NEW d \in Editors, LeaveNext(d) PROVE VerifiedInv'
  <2>1. CASE WriteDay(d)
    BY <1>5, <2>1, WriteDayTyped
  <2>2. CASE UNCHANGED <<status, verification, stray, clerk>>
    BY <1>4, <2>2
  <2> QED
    BY <1>7, <2>1, <2>2 DEF LeaveNext, DecideLeave, ReadDay, Fail
<1>8. ASSUME NEW e \in Employees, NEW p \in BothPunches, Punch(e, p) PROVE VerifiedInv'
  BY <1>4, <1>8 DEF Punch
<1>9. CASE UNCHANGED attendanceVars
  BY <1>4, <1>9 DEF attendanceVars
<1> QED
  BY <1>1, <1>2, <1>3, <1>6, <1>7, <1>8, <1>9 DEF AttendanceNext

\* ClosedIsVerified: nobody in a closed period is unverified, but for those whose
\* verification was taken back past the lock or past the validation.
THEOREM ClosedPeriodsAreVerified == AttendanceSpec => []ClosedIsVerified
<1>1. VerifiedInv => ClosedIsVerified
  BY DEF VerifiedInv
<1> QED
  BY <1>1, VerifiedInit, VerifiedStep, AttendanceTypeInvariant, PTL DEF AttendanceSpec

-----------------------------------------------------------------------------
(***************************************************************************)
(* Adjustments are founded.                                                *)
(***************************************************************************)

LEMMA AdjustmentsStay ==
    ASSUME AdjustmentInv, adjustment' = adjustment, snapshotted \subseteq snapshotted',
           \A c \in Clerks : clerk'[c].op = "adjust" =>
               /\ clerk[c].op = "adjust" /\ clerk'[c].of = clerk[c].of
               /\ clerk'[c].pc = clerk[c].pc
    PROVE  AdjustmentInv'
BY DEF AdjustmentInv, AdjustmentsAreFounded, ReadOfAdjustment

LEMMA OneClerkAdjustsNot ==
    ASSUME AdjustmentInv, adjustment' = adjustment, snapshotted \subseteq snapshotted',
           NEW c \in Clerks, clerk'[c].op # "adjust",
           \A b \in Clerks \ {c} : SameCall(clerk'[b], clerk[b])
    PROVE  AdjustmentInv'
BY AdjustmentsStay DEF SameCall

\* A call on an adjustment begins with what the table says of it.
LEMMA AdjustmentBegins ==
    ASSUME AdjustmentInv, UNCHANGED <<adjustment, snapshotted>>, NEW c \in Clerks,
           NEW a \in Adjustments, NEW e, clerk'[c].of = <<a, e>>, e \in snapshotted,
           clerk'[c].pc = "applied" => adjustment[a].approved,
           \A b \in Clerks \ {c} : clerk'[b] = clerk[b]
    PROVE  AdjustmentInv'
<1>1. clerk'[c].of[1] = a /\ clerk'[c].of[2] = e
  OBVIOUS
<1>2. ASSUME NEW b \in Clerks PROVE ReadOfAdjustment(clerk[b])'
  BY <1>1 DEF AdjustmentInv, ReadOfAdjustment
<1> QED
  BY <1>2 DEF AdjustmentInv, AdjustmentsAreFounded

LEMMA AdjustmentIsWritten ==
    ASSUME TypeInv, AdjustmentInv, NEW c \in Clerks, WriteAdjustment(c)
    PROVE  AdjustmentInv'
<1>1. PICK a \in Adjustments, e \in Employees \cup {"none"} :
        /\ clerk[c].of = <<a, e>> /\ adjustment'[a].of = e
        /\ adjustment'[a].status = clerk[c].pc
        /\ adjustment'[a].approved = (adjustment[a].approved \/ clerk[c].pc = "approved")
        /\ \A x \in Adjustments \ {a} : adjustment'[x] = adjustment[x]
  BY WriteAdjustmentTyped
<1>2. clerk'[c] = IdleClerk /\ \A b \in Clerks \ {c} : clerk'[b] = clerk[b]
  BY WriteAdjustmentTyped
<1>3. snapshotted' = snapshotted /\ clerk[c].op = "adjust"
  BY DEF WriteAdjustment, periodVars
<1>4. clerk[c].of[1] = a /\ clerk[c].of[2] = e
  BY <1>1
<1>5. e \in snapshotted /\ (clerk[c].pc = "applied" => adjustment[a].approved)
  BY <1>3, <1>4 DEF AdjustmentInv, ReadOfAdjustment
<1>6. \A x \in Adjustments : adjustment[x].approved => adjustment'[x].approved
  BY <1>1
<1>7. AdjustmentsAreFounded'
  BY <1>1, <1>3, <1>5 DEF AdjustmentInv, AdjustmentsAreFounded
<1>8. \A x \in Adjustments : adjustment'[x].status = "approved" => adjustment'[x].approved
  BY <1>1 DEF AdjustmentInv
<1>9. ASSUME NEW b \in Clerks PROVE ReadOfAdjustment(clerk[b])'
  <2>1. CASE b = c
    BY <1>2, <2>1 DEF ReadOfAdjustment, IdleClerk
  <2>2. CASE b # c
    <3>1. ReadOfAdjustment(clerk[b]) /\ clerk'[b] = clerk[b]
      BY <1>2, <2>2 DEF AdjustmentInv
    <3>2. clerk[b].op = "adjust" => clerk[b].of[1] \in Adjustments
      BY DEF TypeInv, ClerksTyped, ClerkSound
    <3> QED
      BY <1>3, <1>6, <3>1, <3>2 DEF ReadOfAdjustment
  <2> QED
    BY <2>1, <2>2
<1> QED
  BY <1>7, <1>8, <1>9 DEF AdjustmentInv

LEMMA AdjustmentInit == AttendanceInit => AdjustmentInv
BY DEF AttendanceInit, AdjustmentInv, AdjustmentsAreFounded, ReadOfAdjustment, IdleClerk

LEMMA AdjustmentStep == TypeInv /\ AdjustmentInv /\ [AttendanceNext]_attendanceVars => AdjustmentInv'
<1> SUFFICES ASSUME TypeInv, AdjustmentInv, [AttendanceNext]_attendanceVars PROVE AdjustmentInv'
  OBVIOUS
<1> USE DEF periodVars, dayVars
<1>1. ASSUME NEW c \in Clerks, StatusNext(c) PROVE AdjustmentInv'
  <2>1. adjustment' = adjustment /\ snapshotted \subseteq snapshotted'
    BY <1>1 DEF StatusNext, BeginMove, ValidateClose, ReadTruth, Move, InsertSnapshots, GiveUp
  <2>2. \A b \in Clerks \ {c} : clerk'[b] = clerk[b]
    BY <1>1, BeginMoveTyped, ValidateCloseTyped, ReadTruthTyped, MoveTyped, GiveUpTyped DEF StatusNext
  <2>3. clerk'[c].op # "adjust"
    <3>1. CASE ValidateClose(c)
      BY <3>1, ValidateCloseTyped
    <3>2. CASE ReadTruth(c)
      BY <3>2, ReadTruthTyped DEF ReadTruth, Snapshotting
    <3>3. ASSUME NEW op \in Moves, BeginMove(c, op) PROVE clerk'[c].op # "adjust"
      BY <3>3, BeginMoveTyped DEF Moves
    <3> QED
      BY <1>1, <3>1, <3>2, <3>3, MoveTyped, GiveUpTyped DEF StatusNext, IdleClerk
  <2> QED
    BY <2>1, <2>2, <2>3, OneClerkAdjustsNot DEF SameCall
<1>2. ASSUME NEW c \in Clerks, VerificationNext(c) PROVE AdjustmentInv'
  <2>1. UNCHANGED <<adjustment, snapshotted>>
    BY <1>2 DEF VerificationNext, BeginVerify, EnsureVerification, WriteVerification
  <2>2. ASSUME NEW e \in Employees, NEW op \in {"verify", "unverify"}, BeginVerify(c, e, op)
        PROVE  AdjustmentInv'
    <3>1. clerk'[c].op # "adjust" /\ \A b \in Clerks \ {c} : clerk'[b] = clerk[b]
      BY <2>2, BeginVerifyTyped
    <3> QED
      BY <2>1, <3>1, OneClerkAdjustsNot DEF SameCall
  <2>3. CASE EnsureVerification(c) \/ WriteVerification(c)
    <3>1. clerk[c].op \in {"verify", "unverify"} \/ clerk[c].pc = "ensure"
      BY <2>3, VerificationWritten
    <3>2. clerk[c].op # "adjust"
      BY <3>1 DEF TypeInv, ClerksTyped, ClerkSound, AdjustmentStatus
    <3>3. clerk'[c].op # "adjust" /\ \A b \in Clerks \ {c} : SameCall(clerk'[b], clerk[b])
      BY <2>3, <3>2, VerificationWritten
    <3> QED
      BY <2>1, <3>3, OneClerkAdjustsNot
  <2> QED
    BY <1>2, <2>2, <2>3 DEF VerificationNext
<1>3. ASSUME NEW c \in Clerks, AdjustmentNext(c) PROVE AdjustmentInv'
  <2>1. ASSUME NEW a \in Adjustments, NEW e \in Employees, BeginAdjustment(c, a, e)
        PROVE  AdjustmentInv'
    <3>1. UNCHANGED <<adjustment, snapshotted>> /\ e \in snapshotted
      BY <2>1 DEF BeginAdjustment
    <3>2. clerk'[c].of = <<a, e>> /\ clerk'[c].pc = "requested"
          /\ \A b \in Clerks \ {c} : clerk'[b] = clerk[b]
      BY <2>1, BeginAdjustmentTyped
    <3> QED
      BY <3>1, <3>2, AdjustmentBegins
  <2>2. ASSUME NEW a \in Adjustments, NEW to \in AdjustmentStatus, BeginAdjustmentDecision(c, a, to)
        PROVE  AdjustmentInv'
    <3>1. UNCHANGED <<adjustment, snapshotted>> /\ to \in NextStatus[adjustment[a].status]
      BY <2>2 DEF BeginAdjustmentDecision, MayDecide
    <3>2. PICK e : e = adjustment[a].of
      OBVIOUS
    <3>3. clerk'[c].of = <<a, e>> /\ clerk'[c].pc = to
          /\ \A b \in Clerks \ {c} : clerk'[b] = clerk[b]
      BY <2>2, <3>2, BeginDecisionTyped
    <3>4. adjustment[a].status \in AdjustmentStatus
      BY DEF TypeInv, RowsTyped, Adjustment
    <3>5. adjustment[a].status # "none" /\ (to = "applied" => adjustment[a].status = "approved")
      BY <3>1, <3>4 DEF NextStatus, AdjustmentStatus
    <3>6. e \in snapshotted /\ (to = "applied" => adjustment[a].approved)
      BY <3>2, <3>5 DEF AdjustmentInv, AdjustmentsAreFounded
    <3> QED
      BY <3>1, <3>3, <3>6, AdjustmentBegins
  <2> QED
    BY <1>3, <2>1, <2>2, AdjustmentIsWritten DEF AdjustmentNext
<1>4. ASSUME UNCHANGED <<adjustment, snapshotted, clerk>> PROVE AdjustmentInv'
  BY <1>4, AdjustmentsStay
<1>5. ASSUME NEW e \in Employees, FiguresWritten(e) PROVE AdjustmentInv'
  BY <1>5, AdjustmentsStay DEF FiguresWritten, SameCall
<1>6. ASSUME NEW d \in Editors, EditNext(d) PROVE AdjustmentInv'
  <2>1. CASE CommitDay(d) \/ WriteSummary(d) \/ WriteOverride(d)
    BY <1>5, <2>1, CommitDayTyped, WriteSummaryTyped, WriteOverrideTyped
  <2>2. CASE UNCHANGED <<adjustment, snapshotted, clerk>>
    BY <1>4, <2>2
  <2> QED
    BY <1>6, <2>1, <2>2 DEF EditNext, BeginEdit, BeginResolve, LockDay, WritePunch, Fail
<1>7. ASSUME NEW d \in Editors, LeaveNext(d) PROVE AdjustmentInv'
  <2>1. CASE WriteDay(d)
    BY <1>5, <2>1, WriteDayTyped
  <2>2. CASE UNCHANGED <<adjustment, snapshotted, clerk>>
    BY <1>4, <2>2
  <2> QED
    BY <1>7, <2>1, <2>2 DEF LeaveNext, DecideLeave, ReadDay, Fail
<1>8. ASSUME NEW e \in Employees, NEW p \in BothPunches, Punch(e, p) PROVE AdjustmentInv'
  BY <1>4, <1>8 DEF Punch
<1>9. CASE UNCHANGED attendanceVars
  BY <1>4, <1>9 DEF attendanceVars
<1> QED
  BY <1>1, <1>2, <1>3, <1>6, <1>7, <1>8, <1>9 DEF AttendanceNext

\* AdjustmentsAreFounded: adjustments are of employees with published figures,
\* and none is applied that nobody approved.
THEOREM AdjustmentsAlwaysAreFounded == AttendanceSpec => []AdjustmentsAreFounded
<1>1. AdjustmentInv => AdjustmentsAreFounded
  BY DEF AdjustmentInv
<1> QED
  BY <1>1, AdjustmentInit, AdjustmentStep, AttendanceTypeInvariant, PTL DEF AttendanceSpec

-----------------------------------------------------------------------------
(***************************************************************************)
(* A day shows the leave.                                                  *)
(***************************************************************************)

Reconciles(k) == k.op \in {"grant", "withdraw"}

\* A day's status comes from its leave or from something else, and the leave a
\* day refers to is not touched.
KeepsLeave(e) ==
    /\ summary'[e].leave = summary[e].leave
    /\ summary'[e].status = "leave" => summary'[e] = summary[e]

\* Nobody begins or ends to reconcile, and no day is reconciled.
LEMMA LeavesStay ==
    ASSUME LeaveInv, leave' = leave, misled \subseteq misled',
           \A d \in Editors : Reconciles(editor'[d]) \/ Reconciles(editor[d]) =>
               editor'[d].op = editor[d].op /\ editor'[d].of = editor[d].of,
           \A e \in Employees \ misled' : KeepsLeave(e)
    PROVE  LeaveInv'
<1>1. \A e : Reconciling(e)' = Reconciling(e)
  BY DEF Reconciling, Reconciles
<1> SUFFICES ASSUME NEW e \in Employees \ misled' PROVE LeaveSound(e)'
  BY DEF LeaveInv
<1>2. LeaveSound(e) /\ KeepsLeave(e)
  BY DEF LeaveInv
<1>3. \A d \in Reconciling(e) : d \in Editors /\ editor'[d].op = editor[d].op
  BY DEF Reconciling, Reconciles
<1> QED
  BY <1>1, <1>2, <1>3 DEF LeaveSound, KeepsLeave

LEMMA LeaveIsDecided ==
    ASSUME TypeInv, LeaveInv, NEW d \in Editors, NEW e \in Employees,
           NEW op \in {"grant", "withdraw"}, DecideLeave(d, e, op)
    PROVE  LeaveInv'
<1>1. /\ editor[d] = IdleEditor /\ editor'[d].op = op /\ editor'[d].of = e
      /\ \A b \in Editors \ {d} : editor'[b] = editor[b]
      /\ leave'[e] = IF op = "grant" THEN "approved" ELSE "cancelled"
      /\ \A x \in Employees \ {e} : leave'[x] = leave[x]
  BY DecideLeaveTyped
<1>2. summary' = summary /\ misled \subseteq misled'
      /\ (Reconciling(e) # {} => e \in misled')
  BY DEF DecideLeave, dayVars
<1>3. IdleEditor.op = "none"
  BY DEF IdleEditor
<1>4. Reconciling(e)' = Reconciling(e) \cup {d}
  BY <1>1, <1>3 DEF Reconciling
<1>5. \A x \in Employees \ {e} : Reconciling(x)' = Reconciling(x)
  BY <1>1, <1>3 DEF Reconciling
<1> SUFFICES ASSUME NEW x \in Employees \ misled' PROVE LeaveSound(x)'
  BY DEF LeaveInv
<1>6. LeaveSound(x)
  BY <1>2 DEF LeaveInv
<1>7. CASE x = e
  <2>1. Reconciling(e)' = {d}
    BY <1>2, <1>4, <1>7
  <2> QED
    BY <1>1, <1>2, <1>6, <1>7, <2>1 DEF LeaveSound
<1>8. CASE x # e
  <2>1. Reconciling(x)' = Reconciling(x) /\ leave'[x] = leave[x]
    BY <1>1, <1>5, <1>8
  <2>2. \A f \in Reconciling(x) : editor'[f] = editor[f]
    BY <1>1, <1>3 DEF Reconciling
  <2> QED
    BY <1>2, <1>6, <2>1, <2>2 DEF LeaveSound
<1> QED
  BY <1>7, <1>8

\* A reconciliation ends: nobody is left who reconciles its day, and nothing
\* changes for the others.
LEMMA ReconciliationEnds ==
    ASSUME TypeInv, LeaveInv, NEW d \in Editors, NEW e \in Employees,
           Reconciles(editor[d]), editor[d].of = e, editor'[d] = IdleEditor,
           \A b \in Editors \ {d} : editor'[b] = editor[b],
           leave' = leave, misled \subseteq misled',
           \A x \in Employees \ {e} : summary'[x] = summary[x],
           e \notin misled' =>
               /\ summary'[e].leave <=> editor[d].op = "grant"
               /\ summary'[e].status = "leave" => summary'[e].leave /\ summary'[e].minutes = "none"
    PROVE  LeaveInv'
<1>1. IdleEditor.op = "none"
  BY DEF IdleEditor
<1>2. d \in Reconciling(e) /\ Reconciling(e)' = Reconciling(e) \ {d}
  BY <1>1 DEF Reconciling, Reconciles
<1>3. \A x \in Employees \ {e} : Reconciling(x)' = Reconciling(x)
  BY <1>1 DEF Reconciling
<1> SUFFICES ASSUME NEW x \in Employees \ misled' PROVE LeaveSound(x)'
  BY DEF LeaveInv
<1>4. LeaveSound(x)
  BY DEF LeaveInv
<1>5. CASE x = e
  <2>1. Reconciling(e)' = {}
    BY <1>2, <1>4, <1>5 DEF LeaveSound
  <2>2. leave'[e] = IF editor[d].op = "grant" THEN "approved" ELSE "cancelled"
    BY <1>2, <1>4, <1>5 DEF LeaveSound
  <2> QED
    BY <1>5, <2>1, <2>2 DEF LeaveSound
<1>6. CASE x # e
  <2>1. \A f \in Reconciling(x) : editor'[f] = editor[f]
    BY <1>6 DEF Reconciling
  <2> QED
    BY <1>3, <1>4, <1>6, <2>1 DEF LeaveSound
<1> QED
  BY <1>5, <1>6

LEMMA LeaveInit == AttendanceInit => LeaveInv
<1> SUFFICES ASSUME AttendanceInit, NEW e \in Employees PROVE LeaveSound(e)
  BY DEF LeaveInv
<1>1. Reconciling(e) = {}
  BY DEF AttendanceInit, Reconciling, IdleEditor
<1> QED
  BY <1>1 DEF AttendanceInit, LeaveSound, NoSummary

LEMMA LeaveStep == TypeInv /\ LeaveInv /\ [AttendanceNext]_attendanceVars => LeaveInv'
<1> SUFFICES ASSUME TypeInv, LeaveInv, [AttendanceNext]_attendanceVars PROVE LeaveInv'
  OBVIOUS
<1>1. ASSUME UNCHANGED <<summary, leave, misled, editor>> PROVE LeaveInv'
  BY <1>1, LeavesStay DEF KeepsLeave
<1>2. ASSUME NEW c \in Clerks, StatusNext(c) \/ VerificationNext(c) \/ AdjustmentNext(c)
      PROVE  LeaveInv'
  BY <1>1, <1>2 DEF StatusNext, BeginMove, ValidateClose, ReadTruth, Move, GiveUp,
     VerificationNext, BeginVerify, EnsureVerification, WriteVerification,
     AdjustmentNext, BeginAdjustment, BeginAdjustmentDecision, WriteAdjustment, dayVars
<1>3. IdleEditor.op = "none"
  BY DEF IdleEditor
<1>4. ASSUME NEW d \in Editors, UNCHANGED <<leave, misled>>,
             ~Reconciles(editor[d]), ~Reconciles(editor'[d]),
             \A b \in Editors \ {d} : editor'[b] = editor[b],
             \A e \in Employees : KeepsLeave(e)
      PROVE  LeaveInv'
  BY <1>4, LeavesStay
<1>5. ASSUME NEW d \in Editors, EditNext(d) \/ LeaveNext(d) PROVE LeaveInv'
  <2>1. ASSUME NEW e \in Employees, BeginEdit(d, e) \/ BeginResolve(d, e) PROVE LeaveInv'
    BY <1>3, <1>4, <2>1, BeginEditTyped DEF BeginEdit, BeginResolve, dayVars, Reconciles, KeepsLeave
  <2>2. CASE LockDay(d)
    BY <1>4, <2>2, LockDayTyped DEF LockDay, dayVars, Reconciles, KeepsLeave
  <2>3. CASE CommitDay(d)
    BY <1>3, <1>4, <2>3, CommitDayTyped DEF CommitDay, Reconciles, KeepsLeave
  <2>4. ASSUME NEW p \in BothPunches, WritePunch(d, p) PROVE LeaveInv'
    BY <1>1, <2>4 DEF WritePunch
  <2>5. CASE WriteSummary(d)
    BY <1>4, <2>5, WriteSummaryTyped DEF WriteSummary, Reconciles, KeepsLeave
  <2>6. CASE WriteOverride(d)
    BY <1>3, <1>4, <2>6, WriteOverrideTyped DEF WriteOverride, Reconciles, KeepsLeave
  <2>7. CASE Fail(d)
    <3>1. UNCHANGED <<leave, summary>>
      BY <2>7 DEF Fail, dayVars
    <3>2. CASE ~Reconciles(editor[d])
      BY <1>3, <2>7, <3>1, <3>2, FailTyped, LeavesStay DEF Reconciles, KeepsLeave
    <3>3. CASE Reconciles(editor[d])
      <4>1. d \in Reconciling(editor[d].of)
        BY <3>3 DEF Reconciling, Reconciles
      <4>2. editor[d].of \in misled'
        BY <2>7, <4>1, FailTyped
      <4>3. editor[d].of \in Employees
        BY <3>3 DEF Reconciles, TypeInv, EditorsTyped, EditorSound, Editor
      <4> QED
        BY <2>7, <3>1, <3>3, <4>2, <4>3, FailTyped, ReconciliationEnds
    <3> QED
      BY <3>2, <3>3
  <2>8. ASSUME NEW e \in Employees, NEW op \in {"grant", "withdraw"}, DecideLeave(d, e, op)
        PROVE  LeaveInv'
    BY <2>8, LeaveIsDecided
  <2>9. CASE ReadDay(d)
    <3>1. UNCHANGED <<leave, summary, misled>>
      BY <2>9 DEF ReadDay, dayVars
    <3>2. CASE editor'[d].op = editor[d].op /\ editor'[d].of = editor[d].of
      BY <2>9, <3>1, <3>2, ReadDayTyped, LeavesStay DEF Reconciles, KeepsLeave
    <3>3. CASE /\ editor'[d] = IdleEditor
               /\ editor[d].op = "withdraw" /\ ~summary[editor[d].of].leave
      <4>1. PICK e \in Employees : e = editor[d].of
        BY <2>9, ReadDayTyped
      <4>2. e \notin misled' => (summary'[e].status = "leave" => summary'[e].leave)
        BY <3>1 DEF LeaveInv, LeaveSound
      <4>3. Reconciles(editor[d])
        BY <3>3 DEF Reconciles
      <4> QED
        BY <2>9, <3>1, <3>3, <4>1, <4>2, <4>3, ReadDayTyped, ReconciliationEnds
    <3> QED
      BY <2>9, <3>2, <3>3, ReadDayTyped
  <2>10. CASE WriteDay(d)
    <3>1. PICK e \in Employees :
            /\ e = editor[d].of /\ Reconciles(editor[d])
            /\ summary'[e].leave = (editor[d].op = "grant")
            /\ summary'[e].status = LeaveStatus(editor[d].op, editor[d].day)
            /\ summary'[e].minutes = summary[e].minutes
            /\ summary[e] # editor[d].day => e \in misled'
            /\ \A x \in Employees \ {e} : summary'[x] = summary[x]
      BY <2>10, WriteDayTyped DEF Reconciles
    <3>2. leave' = leave /\ misled \subseteq misled' /\ editor'[d] = IdleEditor
          /\ \A b \in Editors \ {d} : editor'[b] = editor[b]
      BY <2>10, WriteDayTyped DEF WriteDay
    <3>3. ASSUME e \notin misled', summary'[e].status = "leave"
          PROVE  editor[d].op = "grant" /\ summary[e].minutes = "none"
      <4>1. summary[e] = editor[d].day /\ LeaveSound(e)
        BY <3>1, <3>2, <3>3 DEF LeaveInv
      <4>2. summary[e].minutes = "none"
        BY <3>1, <3>3, <4>1 DEF LeaveStatus, LeaveSound
      <4> QED
        BY <3>1, <3>3, <4>1, <4>2 DEF LeaveStatus
    <3>4. e \notin misled' =>
            /\ summary'[e].leave <=> editor[d].op = "grant"
            /\ summary'[e].status = "leave" => summary'[e].leave /\ summary'[e].minutes = "none"
      BY <3>1, <3>3
    <3> QED
      BY <3>1, <3>2, <3>4, ReconciliationEnds
  <2> QED
    BY <1>5, <2>1, <2>2, <2>3, <2>4, <2>5, <2>6, <2>7, <2>8, <2>9, <2>10 DEF EditNext, LeaveNext
<1>6. ASSUME NEW e \in Employees, NEW p \in BothPunches, Punch(e, p) PROVE LeaveInv'
  BY <1>1, <1>6 DEF Punch
<1>7. CASE UNCHANGED attendanceVars
  BY <1>1, <1>7 DEF attendanceVars, dayVars
<1> QED
  BY <1>2, <1>5, <1>6, <1>7 DEF AttendanceNext

\* LeaveShows: once a day's reconciliation is over it carries a leave exactly if
\* that was approved and not cancelled, and does not say "leave" otherwise.
THEOREM LeavesAreShown == AttendanceSpec => []LeaveShows
<1>1. LeaveInv => LeaveShows
  BY DEF LeaveInv, LeaveSound, LeaveShows
<1> QED
  BY <1>1, LeaveInit, LeaveStep, AttendanceTypeInvariant, PTL DEF AttendanceSpec

-----------------------------------------------------------------------------
(***************************************************************************)
(* The composition with ApprovalEngine: every scene keeps to what the      *)
(* component's own specification allows, so that what is proved of the     *)
(* engine and of the periods holds in all of them.                         *)
(***************************************************************************)

\* The scenes of the periods are restrictions of what clerks, editors and
\* punches may do.
LEMMA ScenesRestrict ==
    Closing \/ Verifying \/ Decisions \/ Days => AttendanceNext
<1>1. Closing => AttendanceNext
  <2>1. (\E c \in Clerks : StatusNext(c)) => AttendanceNext
    BY DEF AttendanceNext
  <2>2. EditNext(LoneEditor) => AttendanceNext
    BY LoneEditorAssumption DEF AttendanceNext
  <2>3. \/ \E e \in Employees : BeginEdit(LoneEditor, e) \/ BeginResolve(LoneEditor, e)
        \/ LockDay(LoneEditor) \/ CommitDay(LoneEditor)
        \/ WriteSummary(LoneEditor) \/ WriteOverride(LoneEditor)
        => EditNext(LoneEditor)
    BY DEF EditNext
  <2> QED BY <2>1, <2>2, <2>3 DEF Closing
<1>2. Verifying => AttendanceNext
  BY DEF Verifying, AttendanceNext
<1>3. Decisions => AttendanceNext
  <2>1. (\E c \in Clerks : OneMove(c) \/ AdjustmentNext(c)) => AttendanceNext
    BY DEF OneMove, AttendanceNext
  <2>2. EditNext(LoneEditor) \/ LeaveNext(LoneEditor) => AttendanceNext
    BY LoneEditorAssumption DEF AttendanceNext
  <2> QED BY <2>1, <2>2 DEF Decisions
<1>4. Days => AttendanceNext
  BY DEF Days, AttendanceNext
<1> QED BY <1>1, <1>2, <1>3, <1>4

\* Approvals and attendance do not disturb one another, in whichever scene.
THEOREM ScenesAreIndependent == SceneSpec => Spec /\ AttendanceSpec
<1>1. SceneInit => Init /\ AttendanceInit
  BY DEF SceneInit
<1>2. [SceneNext]_<<scene, vars, attendanceVars>> =>
          [Next]_vars /\ [AttendanceNext]_attendanceVars
  BY ScenesRestrict DEF SceneNext
<1> QED BY <1>1, <1>2, PTL DEF SceneSpec, Spec, AttendanceSpec

\* TypesOK: the rows of the component at work are of their types.
THEOREM SceneTypes == SceneSpec => []TypesOK
<1>1. SceneInit => scene \in Scenes
  BY DEF SceneInit
<1>2. scene \in Scenes /\ [SceneNext]_<<scene, vars, attendanceVars>> => (scene \in Scenes)'
  BY DEF SceneNext
<1>3. scene \in Scenes /\ TypeOK /\ AttendanceTypeOK => TypesOK
  BY DEF TypesOK
<1> QED
  BY <1>1, <1>2, <1>3, ScenesAreIndependent, EngineTypes, AttendanceTypeCorrect, PTL DEF SceneSpec

\* Every property of the two components that the composition is checked for.
THEOREM ScenesAreSafe ==
    SceneSpec => /\ [](StepsMatchRequest /\ CompletionAnnouncedOnce /\ DecisionsAnnouncedOnce)
                 /\ [](SnapshotIsTruth /\ ClosedIsVerified)
                 /\ [](AdjustmentsAreFounded /\ LeaveShows)
                 /\ ImplementsDecision
BY ScenesAreIndependent, StepsTellTheStory, OneCompletion, OneDecisionPerStep,
   EngineImplementsDecision, SnapshotsAreTrue, ClosedPeriodsAreVerified,
   AdjustmentsAlwaysAreFounded, LeavesAreShown, PTL
=============================================================================
