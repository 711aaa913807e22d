-------------------------- MODULE EventOutboxProofs --------------------------
(***************************************************************************)
(* Theorems about the outbox for every set of events and workers, every    *)
(* max_attempts and claim limit, and every environment (slow workers,      *)
(* overlapping operators); and about the calm environment, with leases     *)
(* longer than a batch and operators that wait for each other.             *)
(*                                                                         *)
(* In the calm environment everything follows from what a lease means:     *)
(* whoever holds a row finds it stored, under lease, and neither published *)
(* nor a dead letter.  So no bookkeeping ever touches a dead letter, and   *)
(* who discards one still finds it there.                                  *)
(***************************************************************************)
EXTENDS EventOutbox, TLAPS

\* A fresh row is a row with attempts left (EventOutboxRepository.insert).
LEMMA FreshRowIsClaimable ==
    FreshRow \in Row /\ ~FreshRow.published /\ FreshRow.attempts < MaxAttempts
BY BoundsAssumption DEF FreshRow, Row

\* Every set of columns some statement writes leaves a row a row.
LEMMA ColumnWrites ==
    ASSUME NEW r \in Row, NEW n \in Nat, NEW b \in BOOLEAN,
           NEW l \in {"none", "running", "expired"}
    PROVE  /\ [r EXCEPT !.lease = l] \in Row
           /\ [r EXCEPT !.due = b] \in Row
           /\ [r EXCEPT !.attempts = n] \in Row
           /\ [r EXCEPT !.discarded = b, !.lease = l] \in Row
           /\ [r EXCEPT !.published = TRUE, !.lease = "none",
                        !.failed = FALSE, !.discarded = FALSE] \in Row
           /\ [r EXCEPT !.attempts = n, !.lease = "none",
                        !.failed = TRUE, !.discarded = FALSE] \in Row
           /\ [r EXCEPT !.attempts = n, !.lease = "none", !.discarded = FALSE,
                        !.failed = b, !.due = b] \in Row
BY DEF Row

\* Columns that only time and claims write do not enter the invariant.
LEMMA ColumnsLeftAlone ==
    ASSUME NEW r \in Row, NEW b \in BOOLEAN, NEW l \in {"none", "running", "expired"}
    PROVE  /\ [r EXCEPT !.lease = l].published = r.published
           /\ [r EXCEPT !.lease = l].failed = r.failed
           /\ [r EXCEPT !.lease = l].attempts = r.attempts
           /\ [r EXCEPT !.due = b].published = r.published
           /\ [r EXCEPT !.due = b].failed = r.failed
           /\ [r EXCEPT !.due = b].attempts = r.attempts
           /\ [r EXCEPT !.discarded = b, !.lease = l].published = r.published
           /\ [r EXCEPT !.discarded = b, !.lease = l].failed = r.failed
           /\ [r EXCEPT !.discarded = b, !.lease = l].attempts = r.attempts
BY DEF Row

\* What recordFailure writes is a row, unpublished if it was, and a dead letter
\* unless attempts remain.
LEMMA FailedRow ==
    ASSUME NEW r \in Row, NEW n \in Nat
    PROVE  /\ Failed(r, n) \in Row
           /\ Failed(r, n).published = r.published
           /\ Failed(r, n).failed \/ Failed(r, n).attempts < MaxAttempts
<1> DEFINE b == n >= MaxAttempts
<1>1. b \in BOOLEAN /\ (b \/ n < MaxAttempts)
  BY BoundsAssumption
<1>2. Failed(r, n) = [r EXCEPT !.attempts = n, !.lease = "none", !.discarded = FALSE,
                               !.failed = b, !.due = b]
  BY DEF Failed
<1> HIDE DEF b
<1>3. Failed(r, n) \in Row
  BY <1>1, <1>2 DEF Row
<1>4. /\ Failed(r, n).published = r.published
      /\ Failed(r, n).failed = b
      /\ Failed(r, n).attempts = n
  BY <1>1, <1>2 DEF Row
<1> QED BY <1>1, <1>3, <1>4

\* recoverExpiredLeases writes the columns of a failure that counts one attempt.
LEMMA RecoveredRow ==
    ASSUME NEW r \in Row
    PROVE  /\ Recovered(r) \in Row
           /\ Recovered(r).published = r.published
           /\ Recovered(r).failed \/ Recovered(r).attempts < MaxAttempts
<1>1. r.attempts + 1 \in Nat
  BY DEF Row
<1>2. Recovered(r) = Failed(r, r.attempts + 1)
  BY DEF Recovered, Failed
<1> QED BY <1>1, <1>2, FailedRow

\* The throttle's bookkeeping keeps its type.
LEMMA TakeTyped ==
    ASSUME TypeOK, NEW w \in Workers, NEW c \in batch[w], Take(w, c)
    PROVE  /\ c \in Copy
           /\ c.id \in Events
           /\ batch' \in [Workers -> SUBSET Copy]
           /\ seen' \in [Workers -> [Types -> Nat]]
<1>1. c \in Copy
  BY DEF TypeOK
<1>2. c.id \in Events
  BY <1>1 DEF Copy
<1>3. batch' \in [Workers -> SUBSET Copy]
  BY DEF TypeOK, Take
<1>4. TypeOf[c.id] \in Types
  BY <1>2, TypesAssumption
<1>5. seen' \in [Workers -> [Types -> Nat]]
  BY <1>4 DEF TypeOK, Take
<1> QED BY <1>1, <1>2, <1>3, <1>5

\* The outbox table starts empty: the invariant holds initially.
LEMMA OutboxInvInit == Init => OutboxInv
BY FreshRowIsClaimable, BoundsAssumption
   DEF Init, OutboxInv, TypeOK, UnsentIsRecoverable, BookkeepingFollowsSend,
       UnstoredIsFresh, Step, Discard

\* Producers and the clock keep the invariant.
LEMMA EnvironmentKeepsInv ==
    ASSUME OutboxInv, (\E e \in Events : Stage(e)) \/ Time
    PROVE  OutboxInv'
<1> USE DEF OutboxInv, TypeOK
<1>1. ASSUME NEW e \in Events, Stage(e) PROVE OutboxInv'
  BY <1>1, FreshRowIsClaimable
     DEF Stage, workerVars, UnsentIsRecoverable, BookkeepingFollowsSend, UnstoredIsFresh
<1>2. ASSUME NEW e \in Events, NEW new \in Row, row' = [row EXCEPT ![e] = new],
             e \in stored, new.published = row[e].published,
             new.failed = row[e].failed, new.attempts = row[e].attempts,
             UNCHANGED <<stored, workerVars, discarding, replays, staged, sent, dropped>>
      PROVE  OutboxInv'
  BY <1>2 DEF workerVars, UnsentIsRecoverable, BookkeepingFollowsSend, UnstoredIsFresh
<1>3. ASSUME NEW e \in Events, LeaseExpires(e) PROVE OutboxInv'
  <2> DEFINE new == [row[e] EXCEPT !.lease = "expired"]
  <2>1. row' = [row EXCEPT ![e] = new]
    BY <1>3 DEF LeaseExpires
  <2>2. /\ new \in Row
        /\ new.published = row[e].published
        /\ new.failed = row[e].failed
        /\ new.attempts = row[e].attempts
    BY ColumnWrites, ColumnsLeftAlone
  <2>3. /\ e \in stored
        /\ UNCHANGED <<stored, workerVars, discarding, replays, staged, sent, dropped>>
    BY <1>3 DEF LeaseExpires
  <2> HIDE DEF new
  <2> QED BY <1>2, <2>1, <2>2, <2>3
<1>4. ASSUME NEW e \in Events, BackoffEnds(e) PROVE OutboxInv'
  <2> DEFINE new == [row[e] EXCEPT !.due = TRUE]
  <2>1. row' = [row EXCEPT ![e] = new]
    BY <1>4 DEF BackoffEnds
  <2>2. /\ new \in Row
        /\ new.published = row[e].published
        /\ new.failed = row[e].failed
        /\ new.attempts = row[e].attempts
    BY ColumnWrites, ColumnsLeftAlone
  <2>3. /\ e \in stored
        /\ UNCHANGED <<stored, workerVars, discarding, replays, staged, sent, dropped>>
    BY <1>4 DEF BackoffEnds
  <2> HIDE DEF new
  <2> QED BY <1>2, <2>1, <2>2, <2>3
<1> QED BY <1>1, <1>3, <1>4 DEF Time

\* No step of a run of dispatchBatch breaks the invariant.
LEMMA WorkerKeepsInv ==
    ASSUME OutboxInv, NEW w \in Workers, WorkerStep(w) \/ Abandon(w)
    PROVE  OutboxInv'
<1> USE DEF OutboxInv, TypeOK
<1>1. CASE RecoverExpiredLeases(w)
  BY <1>1, RecoveredRow
     DEF RecoverExpiredLeases, Expired, Step, UnsentIsRecoverable,
         BookkeepingFollowsSend, UnstoredIsFresh
<1>2. CASE ClaimUnpublished(w)
  <2>1. Oldest \subseteq stored
    BY DEF Oldest, Claimable
  <2>2. row' \in [Events -> Row]
    BY <1>2, ColumnWrites DEF ClaimUnpublished
  <2>3. \A e \in Events : /\ row'[e].published = row[e].published
                          /\ row'[e].failed = row[e].failed
                          /\ row'[e].attempts = row[e].attempts
                          /\ e \notin stored => row'[e] = row[e]
    BY <1>2, <2>1, ColumnsLeftAlone DEF ClaimUnpublished
  <2>4. {[id |-> e, attempts |-> row[e].attempts] : e \in Oldest} \in SUBSET Copy
    BY <2>1 DEF Copy, Row
  <2>5. batch' \in [Workers -> SUBSET Copy] /\ seen' \in [Workers -> [Types -> Nat]]
    BY <1>2, <2>4 DEF ClaimUnpublished
  <2> QED
    BY <1>2, <2>2, <2>3, <2>5
       DEF ClaimUnpublished, Step, UnsentIsRecoverable, BookkeepingFollowsSend,
           UnstoredIsFresh
<1>3. CASE ReleaseLease(w)
  <2>1. PICK c \in batch[w] :
              /\ Take(w, c)
              /\ row' = [row EXCEPT ![c.id] =
                           IF c.id \in stored THEN [@ EXCEPT !.lease = "none"] ELSE @]
    BY <1>3 DEF ReleaseLease
  <2>2. /\ c \in Copy /\ c.id \in Events
        /\ batch' \in [Workers -> SUBSET Copy] /\ seen' \in [Workers -> [Types -> Nat]]
    BY <2>1, TakeTyped
  <2> DEFINE new == IF c.id \in stored THEN [row[c.id] EXCEPT !.lease = "none"]
                                       ELSE row[c.id]
  <2>3. /\ new \in Row
        /\ new.published = row[c.id].published
        /\ new.failed = row[c.id].failed
        /\ new.attempts = row[c.id].attempts
        /\ c.id \notin stored => new = row[c.id]
    BY <2>2, ColumnWrites, ColumnsLeftAlone
  <2>4. row' = [row EXCEPT ![c.id] = new]
    BY <2>1, <2>2
  <2> HIDE DEF new
  <2> QED
    BY <1>3, <2>2, <2>3, <2>4
       DEF ReleaseLease, UnsentIsRecoverable, BookkeepingFollowsSend, UnstoredIsFresh
<1>4. CASE Publish(w)
  <2>1. PICK c \in batch[w] : /\ Take(w, c)
                              /\ cur' = [cur EXCEPT ![w] = c]
                              /\ sent' = sent \cup {c.id}
    BY <1>4 DEF Publish
  <2>2. /\ c \in Copy /\ c.id \in Events
        /\ batch' \in [Workers -> SUBSET Copy] /\ seen' \in [Workers -> [Types -> Nat]]
    BY <2>1, TakeTyped
  <2> QED
    BY <1>4, <2>1, <2>2
       DEF Publish, Step, UnsentIsRecoverable, BookkeepingFollowsSend, UnstoredIsFresh
<1>5. CASE PublishFails(w)
  <2>1. PICK c \in batch[w] : /\ Take(w, c)
                              /\ cur' = [cur EXCEPT ![w] = c]
                              /\ sent' \in {sent, sent \cup {c.id}}
    BY <1>5 DEF PublishFails
  <2>2. /\ c \in Copy /\ c.id \in Events
        /\ batch' \in [Workers -> SUBSET Copy] /\ seen' \in [Workers -> [Types -> Nat]]
    BY <2>1, TakeTyped
  <2> QED
    BY <1>5, <2>1, <2>2
       DEF PublishFails, Step, UnsentIsRecoverable, BookkeepingFollowsSend, UnstoredIsFresh
<1>6. CASE RecordAttempt(w)
  <2>1. cur[w] \in Copy /\ cur[w].id \in Events /\ cur[w].id \in sent
    BY <1>6 DEF RecordAttempt, BookkeepingFollowsSend, Copy
  <2>2. row' \in [Events -> Row]
    <3>1. row[cur[w].id].attempts + 1 \in Nat
      BY <2>1 DEF Row
    <3> QED BY <1>6, <2>1, <3>1, ColumnWrites DEF RecordAttempt, WriteRow
  <2>3. \A e \in Events : e # cur[w].id \/ e \notin stored => row'[e] = row[e]
    BY <1>6, <2>1 DEF RecordAttempt, WriteRow
  <2> QED
    BY <1>6, <2>1, <2>2, <2>3
       DEF RecordAttempt, Step, UnsentIsRecoverable, BookkeepingFollowsSend, UnstoredIsFresh
<1>7. CASE MarkPublished(w)
  <2>1. cur[w] \in Copy /\ cur[w].id \in Events /\ cur[w].id \in sent
    BY <1>7 DEF MarkPublished, BookkeepingFollowsSend, Copy
  <2>2. row' \in [Events -> Row]
    BY <1>7, <2>1, ColumnWrites DEF MarkPublished, WriteRow
  <2>3. \A e \in Events : e # cur[w].id \/ e \notin stored => row'[e] = row[e]
    BY <1>7, <2>1 DEF MarkPublished, WriteRow
  <2> QED
    BY <1>7, <2>1, <2>2, <2>3
       DEF MarkPublished, Finish, Step, UnsentIsRecoverable, BookkeepingFollowsSend,
           UnstoredIsFresh
<1>8. CASE BookkeepingFails(w)
  BY <1>8 DEF BookkeepingFails, Step, UnsentIsRecoverable, BookkeepingFollowsSend,
              UnstoredIsFresh
<1>9. CASE RecordFailure(w)
  <2>1. cur[w] \in Copy /\ cur[w].id \in Events /\ cur[w].attempts + 1 \in Nat
    BY <1>9 DEF RecordFailure, BookkeepingFollowsSend, Copy
  <2> DEFINE new == Failed(row[cur[w].id], cur[w].attempts + 1)
  <2>2. /\ new \in Row
        /\ new.published = row[cur[w].id].published
        /\ new.failed \/ new.attempts < MaxAttempts
    BY <2>1, FailedRow
  <2>3. row' = [row EXCEPT ![cur[w].id] = IF cur[w].id \in stored THEN new ELSE @]
    BY <1>9 DEF RecordFailure, WriteRow
  <2> HIDE DEF new
  <2> QED
    BY <1>9, <2>1, <2>2, <2>3
       DEF RecordFailure, Finish, Step, UnsentIsRecoverable, BookkeepingFollowsSend,
           UnstoredIsFresh
<1>10. CASE RecordPermanentFailure(w)
  <2>1. cur[w] \in Copy /\ cur[w].id \in Events
    BY <1>10 DEF RecordPermanentFailure, BookkeepingFollowsSend, Copy
  <2> DEFINE new == [row[cur[w].id] EXCEPT !.attempts = MaxAttempts, !.lease = "none",
                                           !.failed = TRUE, !.discarded = FALSE]
  <2>2. new \in Row /\ new.published = row[cur[w].id].published /\ new.failed
    <3>1. new \in Row
      BY <2>1, BoundsAssumption, ColumnWrites
    <3>2. new.published = row[cur[w].id].published /\ new.failed
      BY <2>1 DEF Row
    <3> QED BY <3>1, <3>2
  <2>3. row' = [row EXCEPT ![cur[w].id] = IF cur[w].id \in stored THEN new ELSE @]
    BY <1>10 DEF RecordPermanentFailure, WriteRow
  <2> HIDE DEF new
  <2> QED
    BY <1>10, <2>1, <2>2, <2>3
       DEF RecordPermanentFailure, Finish, Step, UnsentIsRecoverable,
           BookkeepingFollowsSend, UnstoredIsFresh
<1>11. CASE RecordingFails(w)
  BY <1>11 DEF RecordingFails, Finish, Step, UnsentIsRecoverable,
               BookkeepingFollowsSend, UnstoredIsFresh
<1>12. CASE GoIdle(w)
  BY <1>12 DEF GoIdle, Step, UnsentIsRecoverable, BookkeepingFollowsSend, UnstoredIsFresh
<1> QED
  BY <1>1, <1>2, <1>3, <1>4, <1>5, <1>6, <1>7, <1>8, <1>9, <1>10, <1>11, <1>12
     DEF WorkerStep, EndBatch, Abandon

\* The operator's replay and discard commands keep the invariant, however
\* they overlap with the workers and with each other.
LEMMA OperatorKeepsInv ==
    ASSUME OutboxInv, Operator
    PROVE  OutboxInv'
<1> USE DEF OutboxInv, TypeOK
<1>1. ASSUME NEW e \in Events, ReplayDeadLetter(e) PROVE OutboxInv'
  BY <1>1, FreshRowIsClaimable
     DEF ReplayDeadLetter, CanReplay, workerVars, UnsentIsRecoverable,
         BookkeepingFollowsSend, UnstoredIsFresh
<1>2. CASE ReplayAllDeadLetters
  BY <1>2, FreshRowIsClaimable
     DEF ReplayAllDeadLetters, CanReplay, workerVars, UnsentIsRecoverable,
         BookkeepingFollowsSend, UnstoredIsFresh
<1>3. ASSUME NEW e \in Events, NEW permanent \in BOOLEAN, BeginDiscard(e, permanent)
      PROVE  OutboxInv'
  BY <1>3 DEF BeginDiscard, Discard, workerVars, UnsentIsRecoverable,
              BookkeepingFollowsSend, UnstoredIsFresh
<1>4. ASSUME NEW d \in discarding, FinishDiscard(d) PROVE OutboxInv'
  <2>1. d.id \in Events /\ d.permanent \in BOOLEAN
    BY DEF Discard
  <2>2. CASE d.permanent \/ d.id \notin stored
    BY <1>4, <2>1, <2>2, FreshRowIsClaimable
       DEF FinishDiscard, workerVars, UnsentIsRecoverable, BookkeepingFollowsSend,
           UnstoredIsFresh
  <2>3. CASE ~d.permanent /\ d.id \in stored
    <3>1. row' = [row EXCEPT ![d.id].discarded = TRUE, ![d.id].lease = "none"]
      BY <1>4, <2>3 DEF FinishDiscard
    <3>2. row' = [row EXCEPT ![d.id] = [row[d.id] EXCEPT !.discarded = TRUE, !.lease = "none"]]
      BY <3>1
    <3>3. row' \in [Events -> Row]
      BY <3>2, <2>1, ColumnWrites
    <3>4. \A e \in Events : /\ row'[e].published = row[e].published
                            /\ row'[e].failed = row[e].failed
                            /\ row'[e].attempts = row[e].attempts
                            /\ e \notin stored => row'[e] = row[e]
      BY <3>2, <2>1, <2>3, ColumnsLeftAlone
    <3> QED
      BY <1>4, <2>1, <2>3, <3>3, <3>4
         DEF FinishDiscard, workerVars, UnsentIsRecoverable, BookkeepingFollowsSend,
             UnstoredIsFresh
  <2> QED BY <2>1, <2>2, <2>3
<1> QED BY <1>1, <1>2, <1>3, <1>4 DEF Operator

\* The invariant is inductive.
LEMMA OutboxInvStep == OutboxInv /\ [Next]_vars => OutboxInv'
<1> SUFFICES ASSUME OutboxInv, [Next]_vars PROVE OutboxInv'
  OBVIOUS
<1>1. CASE UNCHANGED vars
  BY <1>1 DEF vars, workerVars, OutboxInv, TypeOK, UnsentIsRecoverable,
              BookkeepingFollowsSend, UnstoredIsFresh
<1>2. CASE Next
  BY <1>2, EnvironmentKeepsInv, WorkerKeepsInv, OperatorKeepsInv DEF Next
<1> QED BY <1>1, <1>2

\* The inductive invariant holds in every state the outbox reaches, crashes,
\* expired leases, slow workers and overlapping operators included.
THEOREM OutboxInvariant == Spec => []OutboxInv
BY OutboxInvInit, OutboxInvStep, PTL DEF Spec

\* Every column, worker and operator record keeps its type.
THEOREM TypeCorrect == Spec => []TypeOK
<1>1. OutboxInv => TypeOK
  BY DEF OutboxInv
<1> QED BY <1>1, OutboxInvariant, PTL

\* At least once, in every environment: an event that never reached the bus is
\* neither marked published nor left outside both the claim and the dead
\* letters (EventOutboxRepository, publishStagedRow).
THEOREM NoEventIsLost == Spec => []UnsentIsRecoverable
<1>1. OutboxInv => UnsentIsRecoverable
  BY DEF OutboxInv
<1> QED BY <1>1, OutboxInvariant, PTL

-----------------------------------------------------------------------------
(***************************************************************************)
(* The calm environment: ~SlowWorkers and ~OverlappingOperators.           *)
(***************************************************************************)

Claimed(r) == r.lease = "running" /\ ~r.published /\ ~r.failed

\* A batch names a row once, and the row that is processed is not in it.
DistinctBatch(w) ==
    /\ \A c, d \in batch[w] : c.id = d.id => c = d
    /\ cur[w] # NoCopy => \A c \in batch[w] : c.id # cur[w].id
    /\ step[w] \in {"idle", "recovered", "row"} => cur[w] = NoCopy

HeldInv ==
    /\ \A w \in Workers : \A e \in Holding(w) : e \in stored /\ Claimed(row[e])
    /\ OneWorkerPerRow
    /\ \A w \in Workers : DistinctBatch(w)

DeadLetterInv ==
    /\ PublishedIsNotDeadLetter
    /\ DiscardedStaysDiscarded
    /\ \A d \in discarding : d.id \in staged /\ (d.id \in stored => row[d.id].failed)
    /\ dropped \subseteq staged

CalmInv == HeldInv /\ DeadLetterInv

\* A step of one worker leaves the others' rows alone, and what it holds
\* afterwards it held before or has claimed.
LEMMA OneWorkerMoves ==
    ASSUME HeldInv, NEW w \in Workers, stored' = stored,
           \A v \in Workers \ {w} :
              /\ batch'[v] = batch[v] /\ cur'[v] = cur[v] /\ step'[v] = step[v]
              /\ \A e \in Holding(v) : row'[e] = row[e],
           \A e \in Holding(w)' :
              /\ e \in stored /\ Claimed(row'[e])
              /\ e \in Holding(w) \/ row[e].lease # "running",
           DistinctBatch(w)'
    PROVE  HeldInv'
<1>1. \A v \in Workers \ {w} : Holding(v)' = Holding(v) /\ (DistinctBatch(v)' <=> DistinctBatch(v))
  BY DEF Holding, DistinctBatch
<1>2. \A v \in Workers : \A e \in Holding(v)' : e \in stored' /\ Claimed(row'[e])
  BY <1>1 DEF HeldInv
<1>3. \A v \in Workers \ {w} : \A e \in Holding(w)' : e \notin Holding(v)
  BY DEF HeldInv, OneWorkerPerRow, Claimed
<1>4. OneWorkerPerRow'
  BY <1>1, <1>3 DEF HeldInv, OneWorkerPerRow
<1>5. \A v \in Workers : DistinctBatch(v)'
  BY <1>1 DEF HeldInv
<1>6. \A v \in Workers : \A e \in Holding(v)' : e \in stored' /\ Claimed(row[e])'
  BY <1>2 DEF Claimed
<1> QED
  BY <1>4, <1>5, <1>6 DEF HeldInv

\* A step of somebody else leaves the rows that workers hold claimed.
LEMMA WorkersStay ==
    ASSUME HeldInv, UNCHANGED workerVars,
           \A w \in Workers : \A e \in Holding(w) : e \in stored' /\ Claimed(row'[e])
    PROVE  HeldInv'
<1>1. \A w : Holding(w)' = Holding(w) /\ (DistinctBatch(w)' <=> DistinctBatch(w))
  BY DEF Holding, DistinctBatch, workerVars
<1> QED
  BY <1>1 DEF HeldInv, OneWorkerPerRow, Claimed

\* A step that leaves dead letters alone, and publishes none.
LEMMA DeadLettersStay ==
    ASSUME DeadLetterInv, UNCHANGED <<stored, staged, dropped, discarding>>,
           \A e \in stored : row[e].failed => row'[e] = row[e],
           \A e \in stored : ~row[e].failed => ~(row'[e].published /\ row'[e].failed)
    PROVE  DeadLetterInv'
BY DEF DeadLetterInv, PublishedIsNotDeadLetter, DiscardedStaysDiscarded

\* The statements after the claim write the row they name, which is held and so
\* no dead letter.
LEMMA HeldRowIsWritten ==
    ASSUME OutboxInv, CalmInv, NEW w \in Workers, NEW new \in Row,
           cur[w] \in Copy, WriteRow(w, new), ~(new.published /\ new.failed),
           UNCHANGED <<stored, batch, discarding, staged, dropped>>,
           cur' \in [Workers -> Copy \cup {NoCopy}], step' \in [Workers -> Step],
           \A v \in Workers \ {w} : cur'[v] = cur[v] /\ step'[v] = step[v],
           \/ cur'[w] = NoCopy
           \/ cur'[w] = cur[w] /\ Claimed(new) /\ step'[w] \notin {"idle", "recovered", "row"}
    PROVE  CalmInv' /\ \A e \in stored : row[e].failed => row'[e] = row[e]
<1> DEFINE x == cur[w].id
<1>1. x \in Holding(w) /\ x \in Events /\ cur[w] # NoCopy
  BY EventsAssumption DEF Holding, Copy, NoCopy
<1>2. x \in stored /\ Claimed(row[x])
  BY <1>1 DEF CalmInv, HeldInv
<1>3. row \in [Events -> Row]
  BY DEF OutboxInv, TypeOK
<1>4. row'[x] = new /\ \A e \in Events \ {x} : row'[e] = row[e]
  BY <1>1, <1>2, <1>3 DEF WriteRow
<1>5. stored \subseteq Events
  BY DEF OutboxInv, TypeOK
<1>6. \A e \in stored : row[e].failed => row'[e] = row[e]
  BY <1>2, <1>4, <1>5 DEF Claimed
<1>7. \A e \in stored : ~row[e].failed => ~(row'[e].published /\ row'[e].failed)
  BY <1>4, <1>5 DEF CalmInv, DeadLetterInv, PublishedIsNotDeadLetter
<1>8. DeadLetterInv'
  BY <1>6, <1>7, DeadLettersStay DEF CalmInv
<1>9. \A v \in Workers \ {w} : x \notin Holding(v) /\ Holding(v) \subseteq stored
  BY <1>1 DEF CalmInv, HeldInv, OneWorkerPerRow
<1>10. \A c \in batch[w] : c.id # x
  BY <1>1 DEF CalmInv, HeldInv, DistinctBatch
<1>11. Holding(w)' = IF cur'[w] = NoCopy THEN Holding(w) \ {x} ELSE Holding(w)
  BY <1>1, <1>10 DEF Holding
<1>12. \A e \in Holding(w)' : /\ e \in stored /\ Claimed(row'[e])
                              /\ e \in Holding(w) \/ row[e].lease # "running"
  BY <1>4, <1>5, <1>11 DEF CalmInv, HeldInv
<1>13. DistinctBatch(w)'
  BY DEF CalmInv, HeldInv, DistinctBatch
<1>14. HeldInv'
  <2>1. \A v \in Workers \ {w} :
              /\ batch'[v] = batch[v] /\ cur'[v] = cur[v] /\ step'[v] = step[v]
              /\ \A e \in Holding(v) : row'[e] = row[e]
    BY <1>4, <1>5, <1>9
  <2> QED
    BY <1>12, <1>13, <2>1, OneWorkerMoves DEF CalmInv
<1> QED
  BY <1>6, <1>8, <1>14 DEF CalmInv

\* Claiming marks rows that nobody holds.
LEMMA ClaimKeepsCalm ==
    ASSUME OutboxInv, CalmInv, NEW w \in Workers, ClaimUnpublished(w)
    PROVE  CalmInv' /\ \A e \in stored : row[e].failed => row'[e] = row[e]
<1>1. row \in [Events -> Row] /\ stored \subseteq Events /\ batch \in [Workers -> SUBSET Copy]
      /\ step \in [Workers -> Step]
  BY DEF OutboxInv, TypeOK
<1>2. \A e \in Oldest : /\ e \in Events /\ e \in stored /\ ~row[e].published /\ ~row[e].failed
                        /\ row[e].lease # "running"
  BY DEF Oldest, Claimable
<1>3. \A e \in Events \ Oldest : row'[e] = row[e]
  BY <1>1 DEF ClaimUnpublished
<1>4. \A e \in Oldest : Claimed(row'[e])
  <2> SUFFICES ASSUME NEW e \in Oldest PROVE Claimed(row'[e])
    OBVIOUS
  <2>1. row'[e] = [row[e] EXCEPT !.lease = "running"] /\ row[e] \in Row
    BY <1>1, <1>2 DEF ClaimUnpublished
  <2> QED
    BY <1>2, <2>1 DEF Claimed, Row
<1>5. \A e \in stored : row[e].failed => row'[e] = row[e]
  BY <1>1, <1>2, <1>3
<1>6. \A e \in stored : ~row[e].failed => ~(row'[e].published /\ row'[e].failed)
  BY <1>1, <1>3, <1>4 DEF Claimed
<1>7. DeadLetterInv'
  BY <1>5, <1>6, DeadLettersStay DEF CalmInv, ClaimUnpublished
<1>8. cur[w] = NoCopy /\ cur' = cur
  BY DEF CalmInv, HeldInv, DistinctBatch, ClaimUnpublished
<1>9. batch'[w] = {[id |-> e, attempts |-> row[e].attempts] : e \in Oldest}
  BY <1>1 DEF ClaimUnpublished
<1>10. \A v \in Workers \ {w} : /\ batch'[v] = batch[v] /\ cur'[v] = cur[v] /\ step'[v] = step[v]
                                /\ \A e \in Holding(v) : row'[e] = row[e]
  <2>1. \A v \in Workers \ {w} : \A e \in Holding(v) : e \in stored /\ row[e].lease = "running"
    BY DEF CalmInv, HeldInv, Claimed
  <2> QED
    BY <1>1, <1>2, <1>3, <1>8, <2>1 DEF ClaimUnpublished
<1>11. Holding(w)' = Oldest
  <2>1. \A c \in batch'[w] : c.id \in Oldest
    BY <1>9
  <2>2. ASSUME NEW e \in Oldest PROVE \E c \in batch'[w] : c.id = e
    <3>1. PICK c : c = [id |-> e, attempts |-> row[e].attempts]
      OBVIOUS
    <3> QED
      BY <1>9, <3>1
  <2> QED
    BY <1>8, <2>1, <2>2 DEF Holding
<1>12. \A e \in Holding(w)' : /\ e \in stored /\ Claimed(row'[e])
                              /\ e \in Holding(w) \/ row[e].lease # "running"
  BY <1>2, <1>4, <1>11
<1>13. DistinctBatch(w)'
  <2>1. \A c, d \in batch'[w] : c.id = d.id => c = d
    BY <1>9
  <2> QED
    BY <1>8, <2>1 DEF DistinctBatch
<1> QED
  BY <1>5, <1>7, <1>10, <1>12, <1>13, OneWorkerMoves DEF CalmInv, ClaimUnpublished

\* A copy is taken off the batch: it is processed next, or its lease given back.
LEMMA TakeKeepsCalm ==
    ASSUME OutboxInv, CalmInv, NEW w \in Workers, NEW c \in batch[w], Take(w, c),
           UNCHANGED <<stored, discarding, staged, dropped>>,
           \A v \in Workers \ {w} : cur'[v] = cur[v] /\ step'[v] = step[v],
           \/ /\ cur'[w] = c /\ step'[w] \notin {"idle", "recovered", "row"} /\ row' = row
           \/ /\ cur'[w] = NoCopy
              /\ \A e \in Events \ {c.id} : row'[e] = row[e]
              /\ row'[c.id].published = row[c.id].published
              /\ row'[c.id].failed = row[c.id].failed
    PROVE  CalmInv' /\ \A e \in stored : row[e].failed => row'[e] = row[e]
<1>1. /\ row \in [Events -> Row] /\ stored \subseteq Events /\ c.id \in Events /\ c # NoCopy
      /\ batch \in [Workers -> SUBSET Copy]
  BY EventsAssumption DEF OutboxInv, TypeOK, Copy, NoCopy
<1>2. c.id \in Holding(w) /\ cur[w] = NoCopy
  BY DEF Take, Holding, CalmInv, HeldInv, DistinctBatch
<1>3. c.id \in stored /\ Claimed(row[c.id])
  BY <1>2 DEF CalmInv, HeldInv
<1>4. \A e \in stored : row[e].failed => row'[e] = row[e]
  BY <1>1, <1>3 DEF Claimed
<1>5. \A e \in stored : ~row[e].failed => ~(row'[e].published /\ row'[e].failed)
  BY <1>1, <1>3 DEF Claimed
<1>6. DeadLetterInv'
  BY <1>4, <1>5, DeadLettersStay DEF CalmInv
<1>7. batch'[w] = batch[w] \ {c} /\ \A v \in Workers \ {w} : batch'[v] = batch[v]
  BY <1>1 DEF Take
<1>8. \A v \in Workers \ {w} : c.id \notin Holding(v) /\ Holding(v) \subseteq stored
  BY <1>2 DEF CalmInv, HeldInv, OneWorkerPerRow
<1>9. \A d \in batch'[w] : d.id # c.id
  BY <1>7 DEF CalmInv, HeldInv, DistinctBatch
<1>10. Holding(w)' = IF cur'[w] = NoCopy THEN Holding(w) \ {c.id} ELSE Holding(w)
  BY <1>1, <1>2, <1>7, <1>9 DEF Holding
<1>11. \A e \in Holding(w)' : /\ e \in stored /\ Claimed(row'[e])
                              /\ e \in Holding(w) \/ row[e].lease # "running"
  BY <1>1, <1>10 DEF CalmInv, HeldInv
<1>12. DistinctBatch(w)'
  BY <1>1, <1>7, <1>9 DEF CalmInv, HeldInv, DistinctBatch
<1>13. \A v \in Workers \ {w} : \A e \in Holding(v) : row'[e] = row[e]
  BY <1>1, <1>8
<1> QED
  BY <1>4, <1>6, <1>7, <1>11, <1>12, <1>13, OneWorkerMoves DEF CalmInv

\* A worker gives rows up without a word, or has none and recovers leases.
LEMMA LettingGoKeepsCalm ==
    ASSUME OutboxInv, CalmInv, NEW w \in Workers,
           UNCHANGED <<stored, discarding, staged, dropped>>,
           \A v \in Workers \ {w} : batch'[v] = batch[v] /\ cur'[v] = cur[v] /\ step'[v] = step[v],
           batch'[w] \subseteq batch[w], cur'[w] \in {NoCopy, cur[w]},
           step'[w] \in {"idle", "recovered", "row"} => cur'[w] = NoCopy,
           \A e \in stored : row'[e] = IF Expired(e) THEN Recovered(row[e]) ELSE row[e]
    PROVE  CalmInv' /\ \A e \in stored : row[e].failed => row'[e] = row[e]
<1> USE DEF CalmInv
<1>1. \A e \in stored : row[e] \in Row
  BY DEF OutboxInv, TypeOK
<1>2. \A e \in stored : row[e].failed => row'[e] = row[e]
  BY DEF Expired
<1>3. \A e \in stored : ~row[e].failed => ~(row'[e].published /\ row'[e].failed)
  BY <1>1, RecoveredRow DEF Expired
<1>4. DeadLetterInv'
  BY <1>2, <1>3, DeadLettersStay
<1>5. \A v \in Workers : \A e \in Holding(v) : e \in stored /\ row'[e] = row[e]
  BY DEF HeldInv, Claimed, Expired
<1>6. Holding(w)' \subseteq Holding(w)
  BY DEF Holding
<1>7. \A e \in Holding(w)' : /\ e \in stored /\ Claimed(row'[e])
                             /\ e \in Holding(w) \/ row[e].lease # "running"
  BY <1>5, <1>6 DEF HeldInv
<1>8. DistinctBatch(w)'
  BY DEF HeldInv, DistinctBatch
<1> QED
  BY <1>2, <1>4, <1>5, <1>7, <1>8, OneWorkerMoves

LEMMA WorkerKeepsCalm ==
    ASSUME OutboxInv, CalmInv, NEW w \in Workers, WorkerStep(w) \/ Abandon(w)
    PROVE  CalmInv' /\ \A e \in stored : row[e].failed => row'[e] = row[e]
<1> DEFINE Goal == CalmInv' /\ \A e \in stored : row[e].failed => row'[e] = row[e]
<1>1. /\ row \in [Events -> Row] /\ stored \subseteq Events /\ cur \in [Workers -> Copy \cup {NoCopy}]
      /\ step \in [Workers -> Step] /\ batch \in [Workers -> SUBSET Copy]
  BY DEF OutboxInv, TypeOK
<1>2. step[w] \in {"idle", "recovered", "row"} => cur[w] = NoCopy
  BY DEF CalmInv, HeldInv, DistinctBatch
<1>3. step[w] \in {"sent", "counted", "broken", "poisoned"} =>
         /\ cur[w] \in Copy /\ cur[w] # NoCopy /\ cur[w].id \in Events
         /\ cur[w].id \in stored /\ row[cur[w].id] \in Row /\ Claimed(row[cur[w].id])
  <2>1. step[w] \in {"sent", "counted", "broken", "poisoned"} => cur[w] \in Copy
    BY DEF OutboxInv, BookkeepingFollowsSend
  <2>2. cur[w] \in Copy => cur[w] # NoCopy /\ cur[w].id \in Events
    BY EventsAssumption DEF Copy, NoCopy
  <2>3. cur[w] # NoCopy => cur[w].id \in Holding(w)
    BY DEF Holding
  <2> QED
    BY <1>1, <2>1, <2>2, <2>3 DEF CalmInv, HeldInv
<1>4. CASE RecoverExpiredLeases(w)
  BY <1>1, <1>2, <1>4, LettingGoKeepsCalm DEF RecoverExpiredLeases
<1>5. CASE ClaimUnpublished(w)
  BY <1>5, ClaimKeepsCalm
<1>6. CASE ReleaseLease(w)
  <2>1. PICK c \in batch[w] :
              /\ Take(w, c)
              /\ row' = [row EXCEPT ![c.id] =
                           IF c.id \in stored THEN [@ EXCEPT !.lease = "none"] ELSE @]
    BY <1>6 DEF ReleaseLease
  <2>2. c.id \in Events
    BY <1>1 DEF Copy
  <2>3. PICK new : new = IF c.id \in stored THEN [row[c.id] EXCEPT !.lease = "none"]
                                            ELSE row[c.id]
    OBVIOUS
  <2>4. new.published = row[c.id].published /\ new.failed = row[c.id].failed
    BY <1>1, <2>2, <2>3, ColumnsLeftAlone
  <2>5. row' = [row EXCEPT ![c.id] = new]
    BY <1>1, <2>1, <2>2, <2>3
  <2>6. /\ \A e \in Events \ {c.id} : row'[e] = row[e]
        /\ row'[c.id].published = row[c.id].published
        /\ row'[c.id].failed = row[c.id].failed
    BY <1>1, <2>2, <2>4, <2>5
  <2>7. cur'[w] = NoCopy
    BY <1>2, <1>6, <2>1 DEF ReleaseLease, Take
  <2> QED
    BY <1>6, <2>1, <2>6, <2>7, TakeKeepsCalm DEF ReleaseLease
<1>7. CASE Publish(w) \/ PublishFails(w)
  <2>1. PICK c \in batch[w] : Take(w, c) /\ cur' = [cur EXCEPT ![w] = c]
    BY <1>7 DEF Publish, PublishFails
  <2>2. PICK s \in {"sent", "broken", "poisoned"} : step' = [step EXCEPT ![w] = s]
    BY <1>7 DEF Publish, PublishFails
  <2>3. UNCHANGED <<stored, row, discarding, staged, dropped>>
    BY <1>7 DEF Publish, PublishFails
  <2> QED
    BY <1>1, <2>1, <2>2, <2>3, TakeKeepsCalm
<1>8. CASE RecordAttempt(w)
  <2>1. PICK new : new = [row[cur[w].id] EXCEPT !.attempts = @ + 1]
    OBVIOUS
  <2>2. new \in Row /\ Claimed(new)
    BY <1>3, <1>8, <2>1 DEF RecordAttempt, Claimed, Row
  <2>3. step' = [step EXCEPT ![w] = "counted"] /\ WriteRow(w, new)
        /\ UNCHANGED <<stored, batch, cur, discarding, staged, dropped>>
    BY <1>8, <2>1 DEF RecordAttempt
  <2>4. step' \in [Workers -> Step] /\ step'[w] = "counted"
        /\ \A v \in Workers \ {w} : step'[v] = step[v]
    BY <1>1, <2>3 DEF Step
  <2>5. cur[w] \in Copy /\ ~(new.published /\ new.failed)
    BY <1>3, <1>8, <2>2 DEF RecordAttempt, Claimed
  <2> QED
    BY <1>1, <2>2, <2>3, <2>4, <2>5, HeldRowIsWritten
<1>9. ASSUME NEW new \in Row, ~(new.published /\ new.failed), WriteRow(w, new), Finish(w),
             step[w] \in {"counted", "broken", "poisoned"},
             UNCHANGED <<stored, batch, discarding, staged, dropped>>
      PROVE  Goal
  <2>1. /\ cur' \in [Workers -> Copy \cup {NoCopy}] /\ step' \in [Workers -> Step]
        /\ cur'[w] = NoCopy
        /\ \A v \in Workers \ {w} : cur'[v] = cur[v] /\ step'[v] = step[v]
    BY <1>1, <1>9 DEF Finish, Step
  <2> QED
    BY <1>3, <1>9, <2>1, HeldRowIsWritten
<1>10. CASE MarkPublished(w)
  <2>1. PICK new : new = [row[cur[w].id] EXCEPT !.published = TRUE, !.lease = "none",
                                                !.failed = FALSE, !.discarded = FALSE]
    OBVIOUS
  <2>2. new \in Row /\ ~new.failed
    BY <1>3, <1>10, <2>1 DEF MarkPublished, Row
  <2>3. WriteRow(w, new)
    BY <1>10, <2>1 DEF MarkPublished
  <2> QED
    BY <1>9, <1>10, <2>2, <2>3 DEF MarkPublished
<1>11. CASE BookkeepingFails(w)
  <2>1. PICK s \in {"broken", "poisoned"} : step' = [step EXCEPT ![w] = s]
    BY <1>11 DEF BookkeepingFails
  <2>2. UNCHANGED <<stored, row, batch, cur, discarding, staged, dropped>>
    BY <1>11 DEF BookkeepingFails
  <2>3. PICK new : new = row[cur[w].id]
    OBVIOUS
  <2>4. new \in Row /\ Claimed(new) /\ cur[w] \in Copy
    BY <1>3, <1>11, <2>3 DEF BookkeepingFails
  <2>5. WriteRow(w, new)
    BY <1>1, <2>2, <2>3 DEF WriteRow
  <2>6. step' \in [Workers -> Step] /\ step'[w] = s /\ \A v \in Workers \ {w} : step'[v] = step[v]
    BY <1>1, <2>1 DEF Step
  <2>7. ~(new.published /\ new.failed)
    BY <2>4 DEF Claimed
  <2> QED
    BY <1>1, <2>1, <2>2, <2>4, <2>5, <2>6, <2>7, HeldRowIsWritten
<1>12. CASE RecordFailure(w)
  <2>1. PICK new : new = Failed(row[cur[w].id], cur[w].attempts + 1)
    OBVIOUS
  <2>2. new \in Row /\ ~new.published
    <3>1. cur[w].attempts + 1 \in Nat /\ ~row[cur[w].id].published /\ row[cur[w].id] \in Row
      BY <1>3, <1>12 DEF RecordFailure, Copy, Claimed
    <3> QED
      BY <2>1, <3>1, FailedRow
  <2>3. WriteRow(w, new)
    BY <1>12, <2>1 DEF RecordFailure
  <2> QED
    BY <1>9, <1>12, <2>2, <2>3 DEF RecordFailure
<1>13. CASE RecordPermanentFailure(w)
  <2>1. PICK new : new = [row[cur[w].id] EXCEPT !.attempts = MaxAttempts, !.lease = "none",
                                                !.failed = TRUE, !.discarded = FALSE]
    OBVIOUS
  <2>2. new \in Row /\ ~new.published
    BY <1>3, <1>13, <2>1, BoundsAssumption DEF RecordPermanentFailure, Claimed, Row
  <2>3. WriteRow(w, new)
    BY <1>13, <2>1 DEF RecordPermanentFailure
  <2> QED
    BY <1>9, <1>13, <2>2, <2>3 DEF RecordPermanentFailure
<1>14. CASE RecordingFails(w)
  <2>1. PICK new : new = row[cur[w].id]
    OBVIOUS
  <2>2. new \in Row /\ ~(new.published /\ new.failed)
    BY <1>3, <1>14, <2>1 DEF RecordingFails, Claimed
  <2>3. WriteRow(w, new)
    BY <1>1, <1>14, <2>1 DEF RecordingFails, WriteRow
  <2> QED
    BY <1>9, <1>14, <2>2, <2>3 DEF RecordingFails
<1>15. CASE GoIdle(w)
  <2>1. /\ cur'[w] = NoCopy /\ batch'[w] = {} /\ step'[w] = "idle"
        /\ UNCHANGED <<stored, row, discarding, staged, dropped>>
        /\ \A v \in Workers \ {w} : batch'[v] = batch[v] /\ cur'[v] = cur[v] /\ step'[v] = step[v]
    BY <1>1, <1>15 DEF GoIdle
  <2>2. HeldInv' /\ DeadLetterInv'
    <3>1. \A e \in Holding(w)' : FALSE
      BY <2>1 DEF Holding
    <3>2. DistinctBatch(w)'
      BY <2>1 DEF DistinctBatch
    <3>3. HeldInv'
      BY <2>1, <3>1, <3>2, OneWorkerMoves DEF CalmInv
    <3>4. \A e \in stored : ~row[e].failed => ~(row'[e].published /\ row'[e].failed)
      BY <2>1
    <3> QED
      BY <2>1, <3>3, <3>4, DeadLettersStay DEF CalmInv
  <2> QED
    BY <2>1, <2>2 DEF CalmInv
<1> QED
  BY <1>4, <1>5, <1>6, <1>7, <1>8, <1>10, <1>11, <1>12, <1>13, <1>14, <1>15
     DEF WorkerStep, EndBatch, Abandon

LEMMA OthersKeepCalm ==
    ASSUME ~SlowWorkers, ~OverlappingOperators, OutboxInv, CalmInv,
           Operator \/ Time \/ \E e \in Events : Stage(e)
    PROVE  /\ CalmInv'
           /\ \A e \in Events : IsDeadLetter(e) =>
                 IsDeadLetter(e)' \/ replays' > replays \/ e \notin stored'
<1> DEFINE Goal == /\ CalmInv'
                   /\ \A e \in Events : IsDeadLetter(e) =>
                         IsDeadLetter(e)' \/ replays' > replays \/ e \notin stored'
<1>1. /\ row \in [Events -> Row] /\ stored \subseteq Events /\ replays \in Nat
      /\ discarding \subseteq Discard /\ stored \subseteq staged
      /\ \A e \in Events \ stored : row[e] = FreshRow
  BY DEF OutboxInv, TypeOK, UnstoredIsFresh
<1>2. \A w \in Workers : \A e \in Holding(w) : e \in stored /\ e \in Events /\ Claimed(row[e])
  BY <1>1 DEF CalmInv, HeldInv
<1>3. ASSUME NEW e \in Events, Stage(e) PROVE Goal
  <2>1. HeldInv'
    BY <1>2, <1>3, WorkersStay DEF Stage, CalmInv
  <2>2. e \notin stored /\ e \notin staged /\ row[e] = FreshRow
    BY <1>1, <1>3 DEF Stage
  <2>3. stored' = stored \cup {e} /\ staged' = staged \cup {e}
        /\ UNCHANGED <<row, discarding, dropped>>
    BY <1>3 DEF Stage
  <2>4. DeadLetterInv'
    BY <2>2, <2>3 DEF CalmInv, DeadLetterInv, PublishedIsNotDeadLetter, DiscardedStaysDiscarded,
       FreshRow
  <2> QED
    BY <2>1, <2>3, <2>4 DEF CalmInv, IsDeadLetter
<1>4. ASSUME NEW e \in Events, NEW new \in Row, row' = [row EXCEPT ![e] = new],
             new.published = row[e].published, new.failed = row[e].failed,
             new.discarded = row[e].discarded,
             new.lease = row[e].lease \/ \A w \in Workers : e \notin Holding(w),
             UNCHANGED <<stored, workerVars, discarding, staged, dropped>>
      PROVE  Goal
  <2>1. \A f \in Events : /\ row'[f].published = row[f].published
                          /\ row'[f].failed = row[f].failed
                          /\ row'[f].discarded = row[f].discarded
    BY <1>1, <1>4
  <2>2. \A w \in Workers : \A f \in Holding(w) : f \in stored' /\ Claimed(row'[f])
    BY <1>1, <1>2, <1>4 DEF Claimed
  <2>3. HeldInv'
    BY <1>4, <2>2, WorkersStay DEF CalmInv
  <2>4. DeadLetterInv'
    <3>1. \A d \in discarding : d.id \in Events
      BY <1>1 DEF Discard
    <3> QED
      BY <1>1, <1>4, <2>1, <3>1 DEF CalmInv, DeadLetterInv, PublishedIsNotDeadLetter,
         DiscardedStaysDiscarded
  <2> QED
    BY <1>4, <2>1, <2>3, <2>4 DEF CalmInv, IsDeadLetter
<1>5. ASSUME NEW e \in Events, LeaseExpires(e) PROVE Goal
  <2>1. PICK new : new = [row[e] EXCEPT !.lease = "expired"]
    OBVIOUS
  <2>2. /\ new \in Row /\ new.published = row[e].published /\ new.failed = row[e].failed
        /\ new.discarded = row[e].discarded
    BY <1>1, <2>1 DEF Row
  <2>3. \A w \in Workers : e \notin Holding(w)
    BY <1>5 DEF LeaseExpires
  <2>4. row' = [row EXCEPT ![e] = new]
        /\ UNCHANGED <<stored, workerVars, discarding, staged, dropped>>
    BY <1>5, <2>1 DEF LeaseExpires
  <2> QED
    BY <1>4, <2>2, <2>3, <2>4
<1>6. ASSUME NEW e \in Events, BackoffEnds(e) PROVE Goal
  <2>1. PICK new : new = [row[e] EXCEPT !.due = TRUE]
    OBVIOUS
  <2>2. /\ new \in Row /\ new.published = row[e].published /\ new.failed = row[e].failed
        /\ new.discarded = row[e].discarded /\ new.lease = row[e].lease
    BY <1>1, <2>1 DEF Row
  <2>3. row' = [row EXCEPT ![e] = new]
        /\ UNCHANGED <<stored, workerVars, discarding, staged, dropped>>
    BY <1>6, <2>1 DEF BackoffEnds
  <2> QED
    BY <1>4, <2>2, <2>3
<1>7. ASSUME NEW es \in SUBSET Events, CanReplay, \A e \in es : IsDeadLetter(e),
             row' = [e \in Events |-> IF e \in es THEN FreshRow ELSE row[e]],
             replays' = replays + 1, dropped' \subseteq dropped,
             \A e \in es : e \notin dropped' \/ ~row[e].discarded,
             UNCHANGED <<stored, workerVars, discarding, staged>>
      PROVE  Goal
  <2>1. discarding = {}
    BY <1>7 DEF CanReplay
  <2>2. HeldInv'
    <3>1. \A w \in Workers : \A e \in Holding(w) : e \notin es
      BY <1>2, <1>7 DEF IsDeadLetter, Claimed
    <3>2. \A w \in Workers : \A e \in Holding(w) : e \in stored' /\ Claimed(row'[e])
      BY <1>2, <1>7, <3>1
    <3> QED
      BY <1>7, <3>2, WorkersStay DEF CalmInv
  <2>3. \A e \in dropped' \cap stored : e \notin es /\ e \in Events
    BY <1>1, <1>7 DEF CalmInv, DeadLetterInv, DiscardedStaysDiscarded
  <2>4. DeadLetterInv'
    <3>1. PublishedIsNotDeadLetter'
      BY <1>1, <1>7 DEF CalmInv, DeadLetterInv, PublishedIsNotDeadLetter, FreshRow
    <3>2. DiscardedStaysDiscarded'
      BY <1>7, <2>3 DEF CalmInv, DeadLetterInv, DiscardedStaysDiscarded
    <3> QED
      BY <1>7, <2>1, <3>1, <3>2 DEF CalmInv, DeadLetterInv
  <2> QED
    BY <1>1, <1>7, <2>2, <2>4 DEF CalmInv
<1>8. ASSUME NEW e \in Events, ReplayDeadLetter(e) PROVE Goal
  <2>1. row' = [f \in Events |-> IF f \in {e} THEN FreshRow ELSE row[f]]
    BY <1>1, <1>8 DEF ReplayDeadLetter
  <2> QED
    BY <1>7, <1>8, <2>1 DEF ReplayDeadLetter
<1>9. CASE ReplayAllDeadLetters
  <2>1. PICK es \in SUBSET Events : es = {e \in Events : ReplayableInBulk(e)}
    OBVIOUS
  <2>2. row' = [e \in Events |-> IF e \in es THEN FreshRow ELSE row[e]]
    BY <1>9, <2>1 DEF ReplayAllDeadLetters
  <2>3. \A e \in es : IsDeadLetter(e) /\ ~row[e].discarded
    BY <2>1 DEF ReplayableInBulk
  <2> QED
    BY <1>7, <1>9, <2>2, <2>3 DEF ReplayAllDeadLetters
<1>10. ASSUME NEW e \in Events, NEW permanent \in BOOLEAN, BeginDiscard(e, permanent)
       PROVE  Goal
  <2>1. PICK d : d = [id |-> e, permanent |-> permanent]
    OBVIOUS
  <2>2. d.id = e /\ discarding' = discarding \cup {d}
        /\ UNCHANGED <<stored, row, staged, dropped, workerVars>> /\ IsDeadLetter(e)
    BY <1>10, <2>1 DEF BeginDiscard
  <2>3. HeldInv'
    BY <1>2, <2>2, WorkersStay DEF CalmInv
  <2>4. DeadLetterInv'
    BY <1>1, <2>2 DEF CalmInv, DeadLetterInv, PublishedIsNotDeadLetter, DiscardedStaysDiscarded,
       IsDeadLetter
  <2> QED
    BY <2>2, <2>3, <2>4 DEF CalmInv, IsDeadLetter
<1>11. ASSUME NEW d \in discarding, FinishDiscard(d) PROVE Goal
  <2>1. d.id \in Events /\ d.id \in staged /\ (d.id \in stored => row[d.id].failed)
        /\ \A f \in discarding : f.id \in Events
    BY <1>1 DEF Discard, CalmInv, DeadLetterInv
  <2>2. \A w \in Workers : d.id \notin Holding(w)
    BY <1>2, <2>1 DEF Claimed
  <2>3. /\ stored' \subseteq stored /\ stored \ {d.id} \subseteq stored'
        /\ \A e \in Events \ {d.id} : row'[e] = row[e]
        /\ discarding' \subseteq discarding /\ dropped' = dropped \cup {d.id}
        /\ UNCHANGED <<workerVars, staged>>
    BY <1>1, <1>11 DEF FinishDiscard
  <2>4. d.id \in stored' => /\ row'[d.id].failed /\ row'[d.id].discarded
                            /\ row'[d.id].published = row[d.id].published
    <3> SUFFICES ASSUME d.id \in stored' PROVE /\ row'[d.id].failed /\ row'[d.id].discarded
                                               /\ row'[d.id].published = row[d.id].published
      OBVIOUS
    <3>1. ~d.permanent /\ d.id \in stored
      BY <1>11 DEF FinishDiscard
    <3>2. row' = [row EXCEPT ![d.id].discarded = TRUE, ![d.id].lease = "none"]
      BY <1>11, <3>1 DEF FinishDiscard
    <3>3. PICK new : new = [row[d.id] EXCEPT !.discarded = TRUE, !.lease = "none"]
      OBVIOUS
    <3>4. row'[d.id] = new
      BY <1>1, <2>1, <3>2, <3>3
    <3>5. new.failed = row[d.id].failed /\ new.discarded = TRUE
          /\ new.published = row[d.id].published
      BY <1>1, <2>1, <3>3 DEF Row
    <3> QED
      BY <2>1, <3>1, <3>4, <3>5
  <2>5. HeldInv'
    <3>1. \A w \in Workers : \A e \in Holding(w) : e \in stored' /\ Claimed(row'[e])
      BY <1>2, <2>2, <2>3
    <3> QED
      BY <2>3, <3>1, WorkersStay DEF CalmInv
  <2>6. DeadLetterInv'
    <3>1. PublishedIsNotDeadLetter'
      BY <1>1, <2>1, <2>3, <2>4 DEF CalmInv, DeadLetterInv, PublishedIsNotDeadLetter
    <3>2. DiscardedStaysDiscarded'
      BY <1>1, <2>3, <2>4 DEF CalmInv, DeadLetterInv, DiscardedStaysDiscarded
    <3>3. \A f \in discarding' : f.id \in staged' /\ (f.id \in stored' => row'[f.id].failed)
      BY <2>1, <2>3, <2>4 DEF CalmInv, DeadLetterInv
    <3> QED
      BY <2>1, <2>3, <3>1, <3>2, <3>3 DEF CalmInv, DeadLetterInv
  <2> QED
    BY <1>1, <2>3, <2>4, <2>5, <2>6 DEF CalmInv, IsDeadLetter
<1> QED
  BY <1>3, <1>5, <1>6, <1>8, <1>9, <1>10, <1>11 DEF Operator, Time

LEMMA CalmInit == Init => CalmInv
BY EventsAssumption
   DEF Init, CalmInv, HeldInv, DeadLetterInv, OneWorkerPerRow, Holding, DistinctBatch,
       PublishedIsNotDeadLetter, DiscardedStaysDiscarded

LEMMA CalmStep ==
    ASSUME ~SlowWorkers, ~OverlappingOperators, OutboxInv, CalmInv, [Next]_vars
    PROVE  /\ CalmInv'
           /\ \A e \in Events : IsDeadLetter(e) =>
                 IsDeadLetter(e)' \/ replays' > replays \/ e \notin stored'
<1>1. CASE UNCHANGED vars
  <2>1. UNCHANGED <<stored, row, workerVars, discarding, staged, dropped>>
    BY <1>1 DEF vars, workerVars
  <2>2. HeldInv'
    BY <2>1, WorkersStay DEF CalmInv, HeldInv
  <2>3. \A e \in stored : ~row[e].failed => ~(row'[e].published /\ row'[e].failed)
    BY <2>1
  <2>4. DeadLetterInv'
    BY <2>1, <2>3, DeadLettersStay DEF CalmInv
  <2> QED
    BY <2>1, <2>2, <2>4 DEF CalmInv, IsDeadLetter
<1>2. ASSUME NEW w \in Workers, WorkerStep(w) \/ Abandon(w)
      PROVE  /\ CalmInv'
             /\ \A e \in Events : IsDeadLetter(e) => IsDeadLetter(e)'
  <2>1. CalmInv' /\ \A e \in stored : row[e].failed => row'[e] = row[e]
    BY <1>2, WorkerKeepsCalm
  <2>2. stored' = stored
    BY <1>2 DEF WorkerStep, Abandon, RecoverExpiredLeases, ClaimUnpublished, ReleaseLease, Publish,
       PublishFails, RecordAttempt, MarkPublished, BookkeepingFails, RecordFailure,
       RecordPermanentFailure, RecordingFails, EndBatch, GoIdle
  <2> QED
    BY <2>1, <2>2 DEF IsDeadLetter
<1> QED
  BY <1>1, <1>2, OthersKeepCalm DEF Next

\* The second inductive invariant, which needs the first.
THEOREM CalmInvariant ==
    ASSUME ~SlowWorkers, ~OverlappingOperators
    PROVE  Spec => []CalmInv
<1>1. OutboxInv /\ CalmInv /\ [Next]_vars => CalmInv'
  BY CalmStep
<1> QED
  BY <1>1, CalmInit, OutboxInvariant, PTL DEF Spec

\* OneWorkerPerRow: no row is claimed while somebody else still works on it,
\* as claimUnpublished promises with its lease.
THEOREM LeasesExclude ==
    ASSUME ~SlowWorkers, ~OverlappingOperators
    PROVE  Spec => []OneWorkerPerRow
<1>1. CalmInv => OneWorkerPerRow
  BY DEF CalmInv, HeldInv
<1> QED
  BY <1>1, CalmInvariant, PTL

\* PublishedIsNotDeadLetter: a replay never resends what is recorded as
\* published.
THEOREM DeadLettersAreUnpublished ==
    ASSUME ~SlowWorkers, ~OverlappingOperators
    PROVE  Spec => []PublishedIsNotDeadLetter
<1>1. CalmInv => PublishedIsNotDeadLetter
  BY DEF CalmInv, DeadLetterInv
<1> QED
  BY <1>1, CalmInvariant, PTL

\* DiscardedStaysDiscarded: "replay all" passes over what an operator discarded,
\* whatever the workers were doing when he did.
THEOREM DiscardsLast ==
    ASSUME ~SlowWorkers, ~OverlappingOperators
    PROVE  Spec => []DiscardedStaysDiscarded
<1>1. CalmInv => DiscardedStaysDiscarded
  BY DEF CalmInv, DeadLetterInv
<1> QED
  BY <1>1, CalmInvariant, PTL

\* DeadLetterIsTerminal: no worker takes a dead letter off the list; only a
\* replay or a deletion does.
THEOREM DeadLettersAreTerminal ==
    ASSUME ~SlowWorkers, ~OverlappingOperators
    PROVE  Spec => DeadLetterIsTerminal
<1>1. OutboxInv /\ CalmInv /\ [Next]_vars =>
        [\A e \in Events : IsDeadLetter(e) =>
            \/ IsDeadLetter(e)'
            \/ replays' > replays
            \/ e \notin stored']_vars
  BY CalmStep
<1> QED
  BY <1>1, CalmInvariant, OutboxInvariant, PTL DEF Spec, DeadLetterIsTerminal
-----------------------------------------------------------------------------
(***************************************************************************)
(* What the outbox promises (EventDelivery).                               *)
(***************************************************************************)

Calm == ~SlowWorkers /\ ~OverlappingOperators
DeadLetters == {e \in stored : row[e].failed}

\* A worker only has copies of events that were staged; the row of one may be
\* deleted.
CopiesAreStaged == \A w \in Workers : \A c \in batch[w] : c.id \in staged

LEMMA CopiesStayStaged ==
    ASSUME OutboxInv, CopiesAreStaged, [Next]_vars
    PROVE  CopiesAreStaged'
<1> USE DEF OutboxInv, TypeOK
<1>1. staged \subseteq staged'
  <2>1. ASSUME NEW w \in Workers, WorkerStep(w) \/ Abandon(w) PROVE staged' = staged
    BY <2>1 DEF WorkerStep, RecoverExpiredLeases, ClaimUnpublished, ReleaseLease, Publish,
       PublishFails, RecordAttempt, MarkPublished, BookkeepingFails, RecordFailure,
       RecordPermanentFailure, RecordingFails, EndBatch, Abandon, GoIdle
  <2>2. CASE Operator
    BY <2>2 DEF Operator, ReplayDeadLetter, ReplayAllDeadLetters, BeginDiscard, FinishDiscard
  <2>3. CASE (\E e \in Events : Stage(e)) \/ Time \/ UNCHANGED vars
    BY <2>3 DEF Stage, Time, LeaseExpires, BackoffEnds, vars
  <2> QED
    BY <2>1, <2>2, <2>3 DEF Next
<1>2. CASE \A w \in Workers : batch'[w] \subseteq batch[w]
  BY <1>1, <1>2 DEF CopiesAreStaged
<1>3. ASSUME NEW w \in Workers, ClaimUnpublished(w) PROVE CopiesAreStaged'
  <2>1. \A c \in batch'[w] : c.id \in Oldest
    BY <1>3 DEF ClaimUnpublished
  <2>2. Oldest \subseteq stored /\ stored \subseteq staged
    BY DEF Oldest, Claimable, UnstoredIsFresh
  <2>3. \A v \in Workers \ {w} : batch'[v] = batch[v]
    BY <1>3 DEF ClaimUnpublished
  <2> QED
    BY <1>1, <2>1, <2>2, <2>3 DEF CopiesAreStaged
<1>4. ASSUME NEW w \in Workers, WorkerStep(w) \/ Abandon(w), ~ClaimUnpublished(w)
      PROVE  \A v \in Workers : batch'[v] \subseteq batch[v]
  <2>1. CASE ReleaseLease(w) \/ Publish(w) \/ PublishFails(w)
    <3>1. PICK c \in batch[w] : Take(w, c)
      BY <2>1 DEF ReleaseLease, Publish, PublishFails
    <3>2. batch' = [batch EXCEPT ![w] = batch[w] \ {c}]
      BY <3>1 DEF Take
    <3> QED
      BY <3>2
  <2>2. CASE EndBatch(w) \/ Abandon(w)
    BY <2>2 DEF EndBatch, Abandon, GoIdle
  <2>3. CASE RecoverExpiredLeases(w) \/ RecordAttempt(w) \/ MarkPublished(w)
             \/ BookkeepingFails(w) \/ RecordFailure(w) \/ RecordPermanentFailure(w)
             \/ RecordingFails(w)
    BY <2>3 DEF RecoverExpiredLeases, RecordAttempt, MarkPublished, BookkeepingFails,
       RecordFailure, RecordPermanentFailure, RecordingFails
  <2> QED
    BY <1>4, <2>1, <2>2, <2>3 DEF WorkerStep
<1>5. CASE (\E e \in Events : Stage(e)) \/ Time \/ Operator \/ UNCHANGED vars
  <2>1. batch' = batch
    BY <1>5 DEF Stage, Time, LeaseExpires, BackoffEnds, Operator, ReplayDeadLetter,
       ReplayAllDeadLetters, BeginDiscard, FinishDiscard, workerVars, vars
  <2> QED
    BY <1>2, <2>1
<1> QED
  BY <1>2, <1>3, <1>4, <1>5 DEF Next

\* A statement that neither publishes a row nor moves it to the dead letters or
\* from there keeps every promise: nothing is seen of it.
LEMMA FlagsKept ==
    ASSUME UNCHANGED <<stored, staged, sent>>,
           \A e \in stored : /\ row'[e].published = row[e].published
                             /\ row'[e].failed = row[e].failed
    PROVE  UNCHANGED Delivery!deliveryVars
BY DEF Delivery!deliveryVars, Owed

\* What a write to one row does to what is owed and to the dead letters.
LEMMA OneRowWritten ==
    ASSUME OutboxInv, NEW e \in stored, NEW new \in Row, row' = [row EXCEPT ![e] = new],
           UNCHANGED <<stored, staged>>
    PROVE  /\ Owed' = IF ~new.published /\ ~new.failed THEN Owed \cup {e} ELSE Owed \ {e}
           /\ DeadLetters' = IF new.failed THEN DeadLetters \cup {e} ELSE DeadLetters \ {e}
           /\ e \in Events /\ e \in staged /\ e \notin staged \ stored
<1>1. e \in Events /\ stored \subseteq staged /\ row \in [Events -> Row] /\ stored \subseteq Events
  BY DEF OutboxInv, TypeOK, UnstoredIsFresh
<1>2. row'[e] = new /\ \A f \in stored \ {e} : row'[f] = row[f]
  BY <1>1
<1>3. new.failed \in BOOLEAN /\ new.published \in BOOLEAN
  BY DEF Row
<1> QED
  BY <1>1, <1>2, <1>3 DEF Owed, DeadLetters

\* A failure is recorded, of a row that may have been published, parked or
\* replayed by somebody else in the meantime, unless leases exclude that.
LEMMA FailureKeepsPromise ==
    ASSUME OutboxInv, NEW e \in stored, NEW new \in Row, row' = [row EXCEPT ![e] = new],
           new.published = row[e].published, UNCHANGED <<stored, staged, sent>>,
           Calm => Claimed(row[e])
    PROVE  [Delivery!DeliveryNext]_(Delivery!deliveryVars)
<1>1. /\ Owed' = IF ~new.published /\ ~new.failed THEN Owed \cup {e} ELSE Owed \ {e}
      /\ DeadLetters' = IF new.failed THEN DeadLetters \cup {e} ELSE DeadLetters \ {e}
      /\ e \in Events /\ e \in staged /\ e \notin staged \ stored
  BY OneRowWritten
<1>2. {e} \in SUBSET Events
  BY <1>1
<1>3. row[e].published => e \in sent /\ e \notin Owed
  BY DEF OutboxInv, UnsentIsRecoverable, Owed
<1>4. CASE new.failed
  <2>1. Delivery!Park({e})
    BY <1>1, <1>3, <1>4 DEF Delivery!Park, DeadLetters, Owed, Calm, Claimed
  <2> QED
    BY <1>2, <2>1 DEF Delivery!DeliveryNext
<1>5. CASE ~new.failed /\ row[e].published
  <2>1. Delivery!Settle(e)
    BY <1>1, <1>3, <1>5 DEF Delivery!Settle, DeadLetters, Calm, Claimed
  <2> QED
    BY <1>1, <2>1 DEF Delivery!DeliveryNext
<1>6. CASE ~new.failed /\ ~row[e].published /\ row[e].failed
  <2>1. Delivery!Retry({e})
    BY <1>1, <1>6 DEF Delivery!Retry, DeadLetters
  <2> QED
    BY <1>2, <2>1 DEF Delivery!DeliveryNext
<1>7. CASE ~new.failed /\ ~row[e].published /\ ~row[e].failed
  <2>1. Owed' = Owed /\ DeadLetters' = DeadLetters
    BY <1>1, <1>7 DEF Owed, DeadLetters
  <2> QED
    BY <2>1 DEF Delivery!deliveryVars, DeadLetters
<1> QED
  BY <1>4, <1>5, <1>6, <1>7

\* The row a worker processes, if it is still there, and what a lease says of it.
LEMMA ProcessedRow ==
    ASSUME OutboxInv, Calm => CalmInv, NEW w \in Workers,
           step[w] \in {"sent", "counted", "broken", "poisoned"}, cur[w].id \in stored
    PROVE  /\ cur[w] \in Copy /\ row[cur[w].id] \in Row
           /\ Calm => Claimed(row[cur[w].id])
<1>1. cur[w] \in Copy /\ cur[w] # NoCopy /\ cur[w].id \in Events
  <2>1. cur[w] \in Copy
    BY DEF OutboxInv, BookkeepingFollowsSend
  <2> QED
    BY <2>1, EventsAssumption DEF Copy, NoCopy
<1>2. cur[w].id \in Holding(w)
  BY <1>1 DEF Holding
<1> QED
  BY <1>1, <1>2 DEF OutboxInv, TypeOK, CalmInv, HeldInv

\* Expired leases are charged: the rows that have no attempt left are parked.
LEMMA RecoveryKeepsPromise ==
    ASSUME OutboxInv, NEW w \in Workers, RecoverExpiredLeases(w)
    PROVE  Delivery!DeliveryNext
<1>1. PICK es : es = {e \in stored : Expired(e) /\ Recovered(row[e]).failed}
  OBVIOUS
<1>2. stored \subseteq Events /\ stored \subseteq staged /\ \A e \in stored : row[e] \in Row
  BY DEF OutboxInv, TypeOK, UnstoredIsFresh
<1>3. es \in SUBSET Events /\ es \subseteq Owed /\ es \subseteq staged \ (staged \ stored)
  BY <1>1, <1>2 DEF Expired, Owed
<1>4. \A e \in stored : row'[e] = IF Expired(e) THEN Recovered(row[e]) ELSE row[e]
  BY <1>2 DEF RecoverExpiredLeases
<1>5. \A e \in stored : Recovered(row[e]).published = row[e].published
  BY <1>2, RecoveredRow
<1>6. UNCHANGED <<stored, staged, sent>>
  BY DEF RecoverExpiredLeases
<1>7. DeadLetters' = DeadLetters \cup es
  BY <1>1, <1>4, <1>6 DEF DeadLetters, Expired
<1>8. Owed' = Owed \ es
  BY <1>1, <1>4, <1>5, <1>6 DEF Owed, Expired
<1>9. Delivery!Park(es)
  BY <1>3, <1>6, <1>7, <1>8 DEF Delivery!Park, DeadLetters
<1> QED
  BY <1>3, <1>9 DEF Delivery!DeliveryNext

\* An envelope goes out, of an event that is owed if leases exclude.
LEMMA SendKeepsPromise ==
    ASSUME OutboxInv, CopiesAreStaged, Calm => CalmInv, NEW w \in Workers,
           NEW c \in batch[w], sent' = sent \cup {c.id}, UNCHANGED <<stored, row, staged>>
    PROVE  Delivery!DeliveryNext
<1>1. c.id \in staged /\ c.id \in Events
  BY DEF CopiesAreStaged, OutboxInv, TypeOK
<1>2. Calm => c.id \in Owed
  <2>1. c.id \in Holding(w)
    BY DEF Holding
  <2> QED
    BY <2>1 DEF CalmInv, HeldInv, Claimed, Owed
<1>3. UNCHANGED <<Owed, DeadLetters>>
  BY DEF Owed, DeadLetters
<1>4. Delivery!Deliver(c.id)
  BY <1>1, <1>2, <1>3 DEF Delivery!Deliver, DeadLetters, Calm
<1> QED
  BY <1>1, <1>4 DEF Delivery!DeliveryNext

\* Steps of one worker.
LEMMA WorkerKeepsPromise ==
    ASSUME OutboxInv, CopiesAreStaged, Calm => CalmInv, NEW w \in Workers,
           WorkerStep(w) \/ Abandon(w)
    PROVE  [Delivery!DeliveryNext]_(Delivery!deliveryVars)
<1> DEFINE x == cur[w].id
<1>1. row \in [Events -> Row] /\ stored \subseteq Events
  BY DEF OutboxInv, TypeOK
<1>2. CASE RecoverExpiredLeases(w)
  BY <1>2, RecoveryKeepsPromise
<1>3. CASE ClaimUnpublished(w)
  <2>1. \A e \in stored : row'[e] = IF e \in Oldest THEN [row[e] EXCEPT !.lease = "running"]
                                    ELSE row[e]
    BY <1>1, <1>3 DEF ClaimUnpublished
  <2>2. ASSUME NEW e \in stored
        PROVE  row'[e].published = row[e].published /\ row'[e].failed = row[e].failed
    <3>1. PICK new : new = [row[e] EXCEPT !.lease = "running"]
      OBVIOUS
    <3>2. new.published = row[e].published /\ new.failed = row[e].failed
      BY <1>1, <3>1 DEF Row
    <3> QED
      BY <2>1, <3>1, <3>2
  <2>3. UNCHANGED <<stored, staged, sent>>
    BY <1>3 DEF ClaimUnpublished
  <2> QED
    BY <2>2, <2>3, FlagsKept
<1>4. CASE ReleaseLease(w)
  <2>1. PICK c \in batch[w] :
           row' = [row EXCEPT ![c.id] =
                      IF c.id \in stored THEN [@ EXCEPT !.lease = "none"] ELSE @]
    BY <1>4 DEF ReleaseLease
  <2>2. \A e \in stored : row'[e] \in {row[e], [row[e] EXCEPT !.lease = "none"]}
    BY <1>1, <2>1
  <2>3. ASSUME NEW e \in stored
        PROVE  row'[e].published = row[e].published /\ row'[e].failed = row[e].failed
    <3>1. PICK new : new = [row[e] EXCEPT !.lease = "none"]
      OBVIOUS
    <3>2. new.published = row[e].published /\ new.failed = row[e].failed
      BY <1>1, <3>1 DEF Row
    <3> QED
      BY <2>2, <3>1, <3>2
  <2>4. UNCHANGED <<stored, staged, sent>>
    BY <1>4 DEF ReleaseLease
  <2> QED
    BY <2>3, <2>4, FlagsKept
<1>5. CASE Publish(w)
  <2>1. PICK c \in batch[w] : sent' = sent \cup {c.id}
    BY <1>5 DEF Publish
  <2>2. UNCHANGED <<stored, row, staged>>
    BY <1>5 DEF Publish
  <2> QED
    BY <2>1, <2>2, SendKeepsPromise
<1>6. CASE PublishFails(w)
  <2>1. PICK c \in batch[w] : sent' = sent \/ sent' = sent \cup {c.id}
    BY <1>6 DEF PublishFails
  <2>2. UNCHANGED <<stored, row, staged>>
    BY <1>6 DEF PublishFails
  <2>3. CASE sent' = sent
    BY <2>2, <2>3, FlagsKept
  <2> QED
    BY <2>1, <2>2, <2>3, SendKeepsPromise
<1>7. CASE RecordAttempt(w)
  <2>1. UNCHANGED <<stored, staged, sent>>
    BY <1>7 DEF RecordAttempt
  <2>2. \A e \in stored : row'[e] \in {row[e], [row[e] EXCEPT !.attempts = @ + 1]}
    BY <1>1, <1>7 DEF RecordAttempt, WriteRow
  <2>3. \A e \in stored : row'[e].published = row[e].published /\ row'[e].failed = row[e].failed
    BY <1>1, <2>2 DEF Row
  <2> QED
    BY <2>1, <2>3, FlagsKept
<1>8. CASE MarkPublished(w)
  <2>1. UNCHANGED <<stored, staged, sent>> /\ step[w] = "counted"
    BY <1>8 DEF MarkPublished
  <2>2. x \in sent
    BY <2>1 DEF OutboxInv, BookkeepingFollowsSend
  <2>3. CASE x \notin stored
    <3>1. \A e \in stored : row'[e] = row[e]
      BY <1>1, <1>8, <2>3 DEF MarkPublished, WriteRow
    <3> QED
      BY <2>1, <3>1, FlagsKept
  <2>4. CASE x \in stored
    <3>1. row[x] \in Row /\ (Calm => Claimed(row[x]))
      BY <2>1, <2>4, ProcessedRow
    <3>2. PICK new : new = [row[x] EXCEPT !.published = TRUE, !.lease = "none",
                                          !.failed = FALSE, !.discarded = FALSE]
      OBVIOUS
    <3>3. new \in Row /\ new.published /\ ~new.failed
      BY <3>1, <3>2 DEF Row
    <3>4. row' = [row EXCEPT ![x] = new]
      BY <1>8, <2>4, <3>2 DEF MarkPublished, WriteRow
    <3>5. Owed' = Owed \ {x} /\ DeadLetters' = DeadLetters \ {x} /\ x \in Events
      BY <2>1, <2>4, <3>3, <3>4, OneRowWritten
    <3>6. Calm => DeadLetters' = DeadLetters
      BY <3>1, <3>5 DEF DeadLetters, Claimed
    <3>7. PICK e \in Events : e = x
      BY <3>5
    <3>8. Delivery!Settle(e)
      BY <2>1, <2>2, <3>5, <3>6, <3>7 DEF Delivery!Settle, DeadLetters, Calm
    <3> QED
      BY <3>8 DEF Delivery!DeliveryNext
  <2> QED
    BY <2>3, <2>4
<1>9. CASE RecordFailure(w) \/ RecordPermanentFailure(w)
  <2>1. /\ UNCHANGED <<stored, staged, sent>>
        /\ step[w] \in {"sent", "counted", "broken", "poisoned"}
    BY <1>9 DEF RecordFailure, RecordPermanentFailure
  <2>2. CASE x \notin stored
    <3>1. \A e \in stored : row'[e] = row[e]
      BY <1>1, <1>9, <2>2 DEF RecordFailure, RecordPermanentFailure, WriteRow
    <3> QED
      BY <2>1, <3>1, FlagsKept
  <2>3. CASE x \in stored
    <3>1. cur[w] \in Copy /\ row[x] \in Row /\ (Calm => Claimed(row[x]))
      BY <2>1, <2>3, ProcessedRow
    <3>2. PICK new \in Row : row' = [row EXCEPT ![x] = new] /\ new.published = row[x].published
      <4>1. CASE RecordFailure(w)
        <5>1. cur[w].attempts + 1 \in Nat
          BY <3>1 DEF Copy
        <5> QED
          BY <2>3, <3>1, <4>1, <5>1, FailedRow DEF RecordFailure, WriteRow
      <4>2. CASE RecordPermanentFailure(w)
        <5>1. PICK new : new = [row[x] EXCEPT !.attempts = MaxAttempts, !.lease = "none",
                                              !.failed = TRUE, !.discarded = FALSE]
          OBVIOUS
        <5>2. new \in Row /\ new.published = row[x].published
          BY <3>1, <5>1, BoundsAssumption DEF Row
        <5> QED
          BY <2>3, <4>2, <5>1, <5>2 DEF RecordPermanentFailure, WriteRow
      <4> QED
        BY <1>9, <4>1, <4>2
    <3> QED
      BY <2>1, <2>3, <3>1, <3>2, FailureKeepsPromise
  <2> QED
    BY <2>2, <2>3
<1>10. CASE BookkeepingFails(w) \/ RecordingFails(w) \/ EndBatch(w) \/ Abandon(w)
  <2>1. UNCHANGED <<stored, row, staged, sent>>
    BY <1>10 DEF BookkeepingFails, RecordingFails, EndBatch, Abandon, GoIdle
  <2> QED
    BY <2>1, FlagsKept
<1> QED
  BY <1>2, <1>3, <1>4, <1>5, <1>6, <1>7, <1>8, <1>9, <1>10 DEF WorkerStep

\* Replays owe what was parked; a discard deletes, of the dead letters only if
\* no replay comes between its two statements.
LEMMA OperatorKeepsPromise ==
    ASSUME OutboxInv, Calm => CalmInv, Operator
    PROVE  [Delivery!DeliveryNext]_(Delivery!deliveryVars)
<1>1. /\ row \in [Events -> Row] /\ stored \subseteq Events /\ stored \subseteq staged
      /\ discarding \subseteq Discard
  BY DEF OutboxInv, TypeOK, UnstoredIsFresh
<1>2. FreshRow \in Row /\ ~FreshRow.published /\ ~FreshRow.failed
  BY FreshRowIsClaimable DEF FreshRow
<1>3. ASSUME NEW e \in Events, ReplayDeadLetter(e) PROVE Delivery!DeliveryNext
  <2>1. e \in DeadLetters /\ e \in stored /\ row' = [row EXCEPT ![e] = FreshRow]
        /\ UNCHANGED <<stored, staged, sent>>
    BY <1>3 DEF ReplayDeadLetter, IsDeadLetter, DeadLetters
  <2>2. Owed' = Owed \cup {e} /\ DeadLetters' = DeadLetters \ {e}
    BY <1>2, <2>1, OneRowWritten
  <2>3. Delivery!Retry({e})
    BY <2>1, <2>2 DEF Delivery!Retry, DeadLetters
  <2>4. {e} \in SUBSET Events
    OBVIOUS
  <2> QED
    BY <2>3, <2>4 DEF Delivery!DeliveryNext
<1>4. CASE ReplayAllDeadLetters
  <2>1. PICK es : es = {e \in stored : ReplayableInBulk(e)}
    OBVIOUS
  <2>2. es \in SUBSET Events /\ es \subseteq DeadLetters
    BY <1>1, <2>1 DEF ReplayableInBulk, IsDeadLetter, DeadLetters
  <2>3. UNCHANGED <<stored, staged, sent>>
    BY <1>4 DEF ReplayAllDeadLetters
  <2>4. \A e \in stored : row'[e] = IF e \in es THEN FreshRow ELSE row[e]
    BY <1>1, <1>4, <2>1 DEF ReplayAllDeadLetters
  <2>5. Owed' = Owed \cup es /\ DeadLetters' = DeadLetters \ es
    BY <1>2, <2>1, <2>3, <2>4 DEF Owed, DeadLetters
  <2>6. Delivery!Retry(es)
    BY <2>2, <2>3, <2>5 DEF Delivery!Retry, DeadLetters
  <2> QED
    BY <2>2, <2>6 DEF Delivery!DeliveryNext
<1>5. ASSUME NEW e \in Events, NEW permanent \in BOOLEAN, BeginDiscard(e, permanent)
      PROVE  UNCHANGED Delivery!deliveryVars
  <2>1. UNCHANGED <<stored, row, staged, sent>>
    BY <1>5 DEF BeginDiscard
  <2> QED
    BY <2>1, FlagsKept
<1>6. ASSUME NEW d \in discarding, FinishDiscard(d)
      PROVE  [Delivery!DeliveryNext]_(Delivery!deliveryVars)
  <2>1. d.id \in Events /\ UNCHANGED <<staged, sent>>
    BY <1>1, <1>6 DEF Discard, FinishDiscard
  <2>2. CASE d.id \notin stored
    <3>1. stored' = stored /\ \A e \in stored : row'[e] = row[e]
      BY <1>1, <1>6, <2>2 DEF FinishDiscard
    <3> QED
      BY <2>1, <3>1, FlagsKept
  <2>3. CASE d.id \in stored /\ ~d.permanent
    <3>1. stored' = stored /\ row' = [row EXCEPT ![d.id].discarded = TRUE, ![d.id].lease = "none"]
      BY <1>6, <2>3 DEF FinishDiscard
    <3>2. PICK dead : dead = [row EXCEPT ![d.id].discarded = TRUE]
      OBVIOUS
    <3>3. /\ dead \in [Events -> Row]
          /\ \A e \in Events : /\ dead[e].published = row[e].published
                              /\ dead[e].failed = row[e].failed
      BY <1>1, <2>1, <3>2 DEF Row
    <3>4. row' = [dead EXCEPT ![d.id].lease = "none"]
      BY <3>1, <3>2
    <3>5. ASSUME NEW e \in stored
          PROVE  row'[e].published = row[e].published /\ row'[e].failed = row[e].failed
      BY <1>1, <3>3, <3>4 DEF Row
    <3> QED
      BY <2>1, <3>1, <3>5, FlagsKept
  <2>4. CASE d.id \in stored /\ d.permanent
    <3>1. stored' = stored \ {d.id} /\ \A e \in stored' : row'[e] = row[e]
      BY <1>1, <1>6, <2>4 DEF FinishDiscard
    <3>2. Owed' = Owed \ {d.id} /\ DeadLetters' = DeadLetters \ {d.id}
      BY <3>1 DEF Owed, DeadLetters
    <3>3. d.id \in staged /\ staged' \ stored' = (staged \ stored) \cup {d.id}
      BY <1>1, <2>1, <2>4, <3>1
    <3>4. Calm => d.id \in DeadLetters
      BY <2>4 DEF CalmInv, DeadLetterInv, DeadLetters
    <3>5. Delivery!Discard(d.id)
      BY <2>1, <3>2, <3>3, <3>4 DEF Delivery!Discard, DeadLetters, Calm
    <3> QED
      BY <2>1, <3>5 DEF Delivery!DeliveryNext
  <2> QED
    BY <2>2, <2>3, <2>4
<1> QED
  BY <1>3, <1>4, <1>5, <1>6 DEF Operator

\* One step of anybody.
LEMMA StepKeepsPromise ==
    ASSUME OutboxInv, CopiesAreStaged, Calm => CalmInv, [Next]_vars
    PROVE  [Delivery!DeliveryNext]_(Delivery!deliveryVars)
<1>1. /\ row \in [Events -> Row] /\ stored \subseteq Events /\ stored \subseteq staged
      /\ \A e \in Events \ stored : row[e] = FreshRow
  BY DEF OutboxInv, TypeOK, UnstoredIsFresh
<1>2. CASE UNCHANGED vars
  <2>1. UNCHANGED <<stored, row, staged, sent>>
    BY <1>2 DEF vars
  <2> QED
    BY <2>1, FlagsKept
<1>3. ASSUME NEW e \in Events, Stage(e) PROVE Delivery!DeliveryNext
  <2>1. /\ e \notin staged /\ staged' = staged \cup {e} /\ stored' = stored \cup {e}
        /\ UNCHANGED <<row, sent>>
    BY <1>3 DEF Stage
  <2>2. ~row[e].published /\ ~row[e].failed
    BY <1>1, <2>1 DEF FreshRow
  <2>3. Owed' = Owed \cup {e} /\ DeadLetters' = DeadLetters
    BY <2>1, <2>2 DEF Owed, DeadLetters
  <2>4. staged' \ stored' = staged \ stored
    BY <2>1
  <2>5. Delivery!Accept(e)
    BY <2>1, <2>3, <2>4 DEF Delivery!Accept, DeadLetters
  <2> QED
    BY <2>5 DEF Delivery!DeliveryNext
<1>4. CASE Time
  <2>1. PICK e \in Events : LeaseExpires(e) \/ BackoffEnds(e)
    BY <1>4 DEF Time
  <2>2. UNCHANGED <<stored, staged, sent>>
    BY <2>1 DEF LeaseExpires, BackoffEnds
  <2>3. \A f \in stored : row'[f] \in {row[f], [row[f] EXCEPT !.lease = "expired"],
                                       [row[f] EXCEPT !.due = TRUE]}
    BY <1>1, <2>1 DEF LeaseExpires, BackoffEnds
  <2>4. ASSUME NEW f \in stored
        PROVE  row'[f].published = row[f].published /\ row'[f].failed = row[f].failed
    <3>1. PICK late : late = [row[f] EXCEPT !.lease = "expired"]
      OBVIOUS
    <3>2. PICK due : due = [row[f] EXCEPT !.due = TRUE]
      OBVIOUS
    <3>3. late.published = row[f].published /\ late.failed = row[f].failed
      BY <1>1, <3>1 DEF Row
    <3>4. due.published = row[f].published /\ due.failed = row[f].failed
      BY <1>1, <3>2 DEF Row
    <3> QED
      BY <2>3, <3>1, <3>2, <3>3, <3>4
  <2> QED
    BY <2>2, <2>4, FlagsKept
<1> QED
  BY <1>2, <1>3, <1>4, WorkerKeepsPromise, OperatorKeepsPromise DEF Next

\* ImplementsDelivery: in every environment a staged event is owed until it
\* went out or became a dead letter; and in the calm one the outbox is Orderly:
\* only what is owed is sent or parked, and only dead letters are deleted.
THEOREM OutboxImplementsDelivery == Spec => ImplementsDelivery
<1>1. Init => Delivery!DeliveryInit
  BY DEF Init, Owed, Delivery!DeliveryInit
<1>2. Spec => []CopiesAreStaged
  <2>1. Init => CopiesAreStaged
    BY DEF Init, CopiesAreStaged
  <2> QED
    BY <2>1, CopiesStayStaged, OutboxInvariant, PTL DEF Spec
<1>3. Spec => [](Calm => CalmInv)
  <2>1. CASE Calm
    <3>1. Spec => []CalmInv
      BY <2>1, CalmInvariant DEF Calm
    <3> QED
      BY <3>1, PTL
  <2>2. CASE ~Calm
    BY <2>2, PTL
  <2> QED
    BY <2>1, <2>2
<1>4. OutboxInv /\ CopiesAreStaged /\ (Calm => CalmInv) /\ [Next]_vars
          => [Delivery!DeliveryNext]_(Delivery!deliveryVars)
  BY StepKeepsPromise
<1> QED
  BY <1>1, <1>2, <1>3, <1>4, OutboxInvariant, PTL
     DEF Spec, ImplementsDelivery, Delivery!DeliverySpec

\* What any stage of delivery guarantees, of this one: nothing it accepted is
\* lost, and what an operator deleted does not come back.
THEOREM OutboxLosesNothing == Spec => []Delivery!NothingIsLost
<1>1. Delivery!DeliveryInit => Delivery!NothingIsLost
  BY DEF Delivery!DeliveryInit, Delivery!NothingIsLost
<1>2. Delivery!NothingIsLost /\ [Delivery!DeliveryNext]_(Delivery!deliveryVars)
          => Delivery!NothingIsLost'
  <2> SUFFICES ASSUME Delivery!NothingIsLost, [Delivery!DeliveryNext]_(Delivery!deliveryVars)
               PROVE  Delivery!NothingIsLost'
    OBVIOUS
  <2>1. CASE UNCHANGED Delivery!deliveryVars
    BY <2>1 DEF Delivery!deliveryVars, Delivery!NothingIsLost
  <2>2. ASSUME NEW e \in Events, Delivery!Accept(e) PROVE Delivery!NothingIsLost'
    BY <2>2 DEF Delivery!Accept, Delivery!NothingIsLost
  <2>3. ASSUME NEW e \in Events, Delivery!Deliver(e) PROVE Delivery!NothingIsLost'
    BY <2>3 DEF Delivery!Deliver, Delivery!NothingIsLost
  <2>4. ASSUME NEW e \in Events, Delivery!Settle(e) PROVE Delivery!NothingIsLost'
    BY <2>4 DEF Delivery!Settle, Delivery!NothingIsLost
  <2>5. ASSUME NEW e \in Events, Delivery!Discard(e) PROVE Delivery!NothingIsLost'
    BY <2>5 DEF Delivery!Discard, Delivery!NothingIsLost
  <2>6. ASSUME NEW es \in SUBSET Events, Delivery!Park(es) PROVE Delivery!NothingIsLost'
    BY <2>6 DEF Delivery!Park, Delivery!NothingIsLost
  <2>7. ASSUME NEW es \in SUBSET Events, Delivery!Retry(es) PROVE Delivery!NothingIsLost'
    BY <2>7 DEF Delivery!Retry, Delivery!NothingIsLost
  <2> QED
    BY <2>1, <2>2, <2>3, <2>4, <2>5, <2>6, <2>7 DEF Delivery!DeliveryNext
<1> QED
  BY <1>1, <1>2, OutboxImplementsDelivery, PTL DEF ImplementsDelivery, Delivery!DeliverySpec

\* In the calm environment an event that was published stays published: no
\* straggler and no operator makes it owed or a dead letter again.
THEOREM OutboxSettlesForGood == Spec => Delivery!SettledStaysSettled
<1>1. ASSUME Calm PROVE [Delivery!DeliveryNext]_(Delivery!deliveryVars)
         => [\A e \in Events : Delivery!Settled(e) => Delivery!Settled(e)']_(Delivery!deliveryVars)
  <2> SUFFICES ASSUME Delivery!DeliveryNext, NEW f \in Events, Delivery!Settled(f)
               PROVE  Delivery!Settled(f)'
    OBVIOUS
  <2>1. ASSUME NEW e \in Events, Delivery!Accept(e) PROVE Delivery!Settled(f)'
    BY <2>1 DEF Delivery!Accept, Delivery!Settled
  <2>2. ASSUME NEW e \in Events, Delivery!Deliver(e) PROVE Delivery!Settled(f)'
    BY <2>2 DEF Delivery!Deliver, Delivery!Settled
  <2>3. ASSUME NEW e \in Events, Delivery!Settle(e) PROVE Delivery!Settled(f)'
    BY <2>3 DEF Delivery!Settle, Delivery!Settled
  <2>4. ASSUME NEW e \in Events, Delivery!Discard(e) PROVE Delivery!Settled(f)'
    BY <1>1, <2>4 DEF Delivery!Discard, Delivery!Settled, Calm
  <2>5. ASSUME NEW es \in SUBSET Events, Delivery!Park(es) PROVE Delivery!Settled(f)'
    BY <1>1, <2>5 DEF Delivery!Park, Delivery!Settled, Calm
  <2>6. ASSUME NEW es \in SUBSET Events, Delivery!Retry(es) PROVE Delivery!Settled(f)'
    BY <2>6 DEF Delivery!Retry, Delivery!Settled
  <2> QED
    BY <2>1, <2>2, <2>3, <2>4, <2>5, <2>6 DEF Delivery!DeliveryNext
<1>2. CASE Calm
  BY <1>1, <1>2, OutboxImplementsDelivery, PTL
     DEF ImplementsDelivery, Delivery!DeliverySpec, Delivery!SettledStaysSettled
<1>3. CASE ~Calm
  BY <1>3 DEF Calm, Delivery!SettledStaysSettled
<1> QED
  BY <1>2, <1>3
=============================================================================
