-------------------------- MODULE ApprovalEngineProofs --------------------------
(***************************************************************************)
(* Theorems about ApprovalEngine, for any number of requests, steps, users *)
(* and concurrent transactions: TypeOK, StepsMatchRequest,                 *)
(* CompletionAnnouncedOnce, DecisionsAnnouncedOnce, and that the engine    *)
(* implements ApprovalDecision.                                            *)
(*                                                                         *)
(* The argument is about row locks.  A transaction that has decided or     *)
(* skipped a step holds its row, the step is still pending as committed,   *)
(* and a step that is pending and not beyond the current one is the        *)
(* current one.  So whoever is about to commit holds the current step, and *)
(* everybody else on the request holds nothing.                            *)
(***************************************************************************)
EXTENDS ApprovalEngine, FiniteSetTheorems, TLAPS

Deciding == {"step", "pending", "skip", "request", "commit"}

\* StepsMatchRequest, step by step.
Story(r) ==
    LET current == request[r].current
        state == request[r].status
    IN  \A i \in Steps :
          /\ state = "approved" \/ i < current => stepStatus[r][i] = "approved"
          /\ state = "rejected" /\ i = current => stepStatus[r][i] = "rejected"
          /\ state = "rejected" /\ i > current => stepStatus[r][i] = "skipped"
          /\ state = "cancelled" /\ i >= current => stepStatus[r][i] = "skipped"
          /\ state \in {"none", "pending"} /\ i >= current => stepStatus[r][i] = "pending"

\* The rows of steps whose locks a transaction holds.
HeldSteps(t) == DecidedStep(t) \cup tx[t].skip

\* What a transaction has read, and written without committing it, still fits
\* what is committed.
TxSound(t) ==
    LET r == tx[t].r IN
    /\ tx[t].pc \in Deciding => request[r].status # "none"
    /\ tx[t].pc \in Deciding /\ IsDecision(t) => tx[t].i <= request[r].current
    /\ tx[t].pc = "step" => IsDecision(t)
    /\ tx[t].pc = "pending" => tx[t].outcome = "approved"
    /\ tx[t].pc = "skip" => tx[t].outcome # "approved"
    /\ tx[t].pc = "commit" => request[r].status = "pending"
    /\ \A i \in DecidedStep(t) : stepStatus[r][i] = "pending"
    /\ tx[t].skip = IF tx[t].pc \in {"request", "commit"} /\ tx[t].outcome # "approved"
                      THEN PendingFor(t) ELSE {}
    /\ tx[t].pc \in {"request", "commit"} /\ tx[t].outcome = "approved" =>
          tx[t].last = (PendingFor(t) = {})

Exclusive ==
    \A t, u \in Transactions :
        t # u /\ tx[t].r = tx[u].r => HeldSteps(t) \cap HeldSteps(u) = {}

EngineInv ==
    /\ TypeOK
    /\ \A r \in Requests : Story(r)
    /\ CompletionAnnouncedOnce
    /\ DecisionsAnnouncedOnce
    /\ \A t \in Transactions : TxSound(t)
    /\ Exclusive

tables == <<request, stepStatus, completed, decided>>

-----------------------------------------------------------------------------
(***************************************************************************)
(* Steps and transactions.                                                 *)
(***************************************************************************)

LEMMA StepsAre == Steps \subseteq Nat /\ 0 \in Steps /\ \A i \in Nat : i \in Steps <=> i < NSteps
BY NStepsAssumption DEF Steps

LEMMA IdleIsTx == Idle \in Tx
BY StepsAre, UsersAssumption DEF Idle, Tx, Outcome

\* While a request is not final its pending steps are those from the current one on.
LEMMA OpenStory ==
    ASSUME TypeOK, NEW r \in Requests, Story(r), request[r].status \in {"none", "pending"},
           NEW i \in Steps
    PROVE  /\ i < request[r].current => stepStatus[r][i] = "approved"
           /\ i >= request[r].current => stepStatus[r][i] = "pending"
BY StepsAre DEF TypeOK, Request, Story

\* A pending step that is not beyond the current one is the current one, and
\* its request is open.
LEMMA PendingIsCurrent ==
    ASSUME TypeOK, NEW r \in Requests, Story(r), NEW i \in Steps,
           i <= request[r].current, stepStatus[r][i] = "pending"
    PROVE  i = request[r].current /\ request[r].status \in {"none", "pending"}
<1>1. i \in Nat /\ request[r].current \in Nat
  BY StepsAre DEF TypeOK, Request
<1>2. request[r].status \in {"none", "pending"}
  <2>1. request[r].status \in {"none", "pending", "approved", "rejected", "cancelled"}
    BY DEF TypeOK, Request, Outcome
  <2>2. i < request[r].current \/ i = request[r].current
    BY <1>1
  <2>3. request[r].status \notin {"approved", "rejected"}
    BY <2>2 DEF Story
  <2>4. i = request[r].current => i >= request[r].current
    BY <1>1
  <2>5. request[r].status # "cancelled"
    BY <2>2, <2>4 DEF Story
  <2> QED
    BY <2>1, <2>3, <2>5
<1>3. ~(i < request[r].current)
  BY <1>2, OpenStory
<1> QED
  BY <1>1, <1>2, <1>3

LEMMA TxTypes ==
    ASSUME TypeOK, NEW t \in Transactions
    PROVE  /\ tx[t] \in Tx /\ tx[t].r \in Requests /\ tx[t].i \in Steps
           /\ tx[t].skip \subseteq Steps
           /\ request[tx[t].r] \in Request
           /\ tx[t].outcome \in Outcome
           /\ tx[t].user \in Users
BY DEF TypeOK, Tx

\* Whoever commits holds the current step.
LEMMA CommitterHoldsCurrent ==
    ASSUME EngineInv, NEW t \in Transactions, tx[t].pc = "commit"
    PROVE  /\ request[tx[t].r].current \in HeldSteps(t)
           /\ IsDecision(t) => tx[t].i = request[tx[t].r].current
           /\ \A u \in Transactions \ {t} :
                 tx[u].r = tx[t].r => /\ DecidedStep(u) = {} /\ tx[u].skip = {}
                                      /\ tx[u].pc \in {"idle", "insert", "step", "skip"}
<1> DEFINE r == tx[t].r
           current == request[r].current
<1>1. /\ r \in Requests /\ current \in Steps /\ tx[t].i \in Steps
      /\ TypeOK /\ Story(r) /\ TxSound(t)
      /\ request[r].status = "pending"
  BY TxTypes DEF EngineInv, TxSound, Request
<1>2. stepStatus[r][current] = "pending"
  <2> HIDE DEF current
  <2>1. current >= current
    BY <1>1, StepsAre
  <2>2. current >= current => stepStatus[r][current] = "pending"
    BY <1>1, OpenStory DEF current
  <2> QED
    BY <2>1, <2>2
<1>3. ASSUME IsDecision(t) PROVE tx[t].i = current /\ DecidedStep(t) = {current}
  <2>1. DecidedStep(t) = {tx[t].i}
    BY <1>3 DEF DecidedStep
  <2>2. stepStatus[r][tx[t].i] = "pending" /\ tx[t].i <= current
    BY <1>1, <1>3, <2>1 DEF TxSound, Deciding
  <2> QED
    BY <1>1, <2>1, <2>2, PendingIsCurrent
<1>4. current \in HeldSteps(t)
  <2>1. CASE IsDecision(t)
    BY <2>1, <1>3 DEF HeldSteps
  <2>2. CASE ~IsDecision(t)
    <3>1. DecidedStep(t) = {} /\ tx[t].outcome # "approved"
      BY <2>2 DEF IsDecision, DecidedStep
    <3>2. tx[t].skip = PendingFor(t)
      BY <1>1, <3>1 DEF TxSound
    <3> QED
      BY <1>1, <1>2, <3>1, <3>2 DEF PendingFor, HeldSteps
  <2> QED
    BY <2>1, <2>2
<1>5. ASSUME NEW u \in Transactions \ {t}, tx[u].r = r
      PROVE  /\ DecidedStep(u) = {} /\ tx[u].skip = {}
             /\ tx[u].pc \in {"idle", "insert", "step", "skip"}
  <2>1. current \notin HeldSteps(u)
    BY <1>4, <1>5 DEF EngineInv, Exclusive
  <2>2. TxSound(u) /\ tx[u].i \in Steps /\ tx[u] \in Tx
    BY TxTypes DEF EngineInv
  <2>3. DecidedStep(u) = {}
    <3> SUFFICES ASSUME DecidedStep(u) # {} PROVE FALSE
      OBVIOUS
    <3>1. DecidedStep(u) = {tx[u].i} /\ IsDecision(u) /\ tx[u].pc \in Deciding
      BY DEF DecidedStep, Deciding
    <3>2. stepStatus[r][tx[u].i] = "pending" /\ tx[u].i <= current
      BY <1>5, <2>2, <3>1 DEF TxSound
    <3>3. tx[u].i = current
      BY <1>1, <2>2, <3>2, PendingIsCurrent
    <3> QED
      BY <2>1, <3>1, <3>3 DEF HeldSteps
  <2>4. ~(tx[u].pc \in {"request", "commit"} /\ tx[u].outcome # "approved")
    <3> SUFFICES ASSUME tx[u].pc \in {"request", "commit"}, tx[u].outcome # "approved"
                 PROVE  FALSE
      OBVIOUS
    <3>1. tx[u].skip = PendingFor(u)
      BY <2>2 DEF TxSound
    <3>2. current \in PendingFor(u)
      BY <1>1, <1>2, <1>5, <2>3 DEF PendingFor
    <3> QED
      BY <2>1, <3>1, <3>2 DEF HeldSteps
  <2>5. tx[u].skip = {}
    BY <2>2, <2>4 DEF TxSound
  <2>6. tx[u].pc \notin {"pending", "request", "commit"}
    <3>1. tx[u].pc \in {"pending", "request", "commit"} => IsDecision(u)
      BY <2>2, <2>4 DEF TxSound, IsDecision
    <3> QED
      BY <2>3, <3>1 DEF DecidedStep
  <2> QED
    BY <2>2, <2>3, <2>5, <2>6 DEF Tx
<1> QED
  BY <1>3, <1>4, <1>5

-----------------------------------------------------------------------------
(***************************************************************************)
(* Moves that commit nothing.                                              *)
(***************************************************************************)

LEMMA TablesStay ==
    ASSUME EngineInv, UNCHANGED tables, tx' \in [Transactions -> Tx]
    PROVE  /\ TypeOK'
           /\ \A r \in Requests : Story(r)'
           /\ CompletionAnnouncedOnce'
           /\ DecisionsAnnouncedOnce'
<1>1. TypeOK'
  BY DEF EngineInv, TypeOK, tables
<1>2. \A r \in Requests : Story(r)'
  BY DEF EngineInv, tables, Story
<1>3. CompletionAnnouncedOnce' /\ DecisionsAnnouncedOnce'
  BY DEF EngineInv, tables, CompletionAnnouncedOnce, DecisionsAnnouncedOnce
<1> QED
  BY <1>1, <1>2, <1>3

\* A transaction that another's move does not touch.
LEMMA OthersStay ==
    ASSUME EngineInv, NEW u \in Transactions, tx'[u] = tx[u],
           request'[tx[u].r] = request[tx[u].r], stepStatus'[tx[u].r] = stepStatus[tx[u].r]
    PROVE  TxSound(u)' /\ HeldSteps(u)' = HeldSteps(u)
<1>1. DecidedStep(u)' = DecidedStep(u) /\ (IsDecision(u))' = IsDecision(u)
  BY DEF DecidedStep, IsDecision
<1>2. PendingFor(u)' = PendingFor(u)
  BY <1>1 DEF PendingFor
<1>3. TxSound(u)
  BY DEF EngineInv
<1> QED
  BY <1>1, <1>2, <1>3 DEF TxSound, HeldSteps

LEMMA OwnMove ==
    ASSUME EngineInv, UNCHANGED tables, NEW t \in Transactions, NEW x \in Tx,
           tx' = [tx EXCEPT ![t] = x], TxSound(t)',
           \A u \in Transactions \ {t} :
               tx[u].r = x.r => HeldSteps(u) \cap HeldSteps(t)' = {}
    PROVE  EngineInv'
<1>1. /\ tx' \in [Transactions -> Tx] /\ tx'[t] = x
      /\ \A u \in Transactions \ {t} : tx'[u] = tx[u]
  BY DEF EngineInv, TypeOK
<1>2. ASSUME NEW u \in Transactions \ {t}
      PROVE  TxSound(u)' /\ HeldSteps(u)' = HeldSteps(u)
  BY <1>1, OthersStay DEF tables
<1>3. \A u \in Transactions : TxSound(u)'
  BY <1>2
<1>4. Exclusive'
  <2>1. ASSUME NEW a \in Transactions, NEW b \in Transactions, a # b, (tx[a].r = tx[b].r)'
        PROVE  HeldSteps(a)' \cap HeldSteps(b)' = {}
    <3>1. CASE a = t
      BY <1>1, <1>2, <2>1, <3>1
    <3>2. CASE b = t
      BY <1>1, <1>2, <2>1, <3>2
    <3>3. CASE a # t /\ b # t
      BY <1>1, <1>2, <2>1, <3>3 DEF EngineInv, Exclusive
    <3> QED
      BY <3>1, <3>2, <3>3
  <2> QED
    BY <2>1 DEF Exclusive
<1> QED
  BY <1>1, <1>3, <1>4, TablesStay DEF EngineInv

\* The first move of a transaction, and its end, hold nothing.
LEMMA HoldsNothing ==
    ASSUME EngineInv, UNCHANGED tables, NEW t \in Transactions, NEW x \in Tx,
           tx' = [tx EXCEPT ![t] = x], TxSound(t)',
           x.skip = {}, x.pc \in {"idle", "insert", "step"} \/ x.outcome = "cancelled",
           x.pc \in {"idle", "insert", "step", "skip"}
    PROVE  EngineInv'
<1>1. tx'[t] = x
  BY DEF EngineInv, TypeOK
<1>2. HeldSteps(t)' = {}
  BY <1>1 DEF HeldSteps, DecidedStep, IsDecision
<1> QED
  BY <1>2, OwnMove

LEMMA RollbackKeeps ==
    ASSUME EngineInv, NEW t \in Transactions, Rollback(t)
    PROVE  EngineInv'
<1>1. tx' = [tx EXCEPT ![t] = Idle] /\ UNCHANGED tables
  BY DEF Rollback, tables
<1>2. tx'[t] = Idle
  BY <1>1 DEF EngineInv, TypeOK
<1>3. TxSound(t)'
  BY <1>2 DEF TxSound, Idle, Deciding, DecidedStep, IsDecision
<1> QED
  BY <1>1, <1>3, IdleIsTx, HoldsNothing DEF Idle

LEMMA LookUpKeeps ==
    ASSUME EngineInv, NEW t \in Transactions, NEW r \in Requests, LookUpSubject(t, r)
    PROVE  EngineInv'
<1> DEFINE x == [Idle EXCEPT !.pc = "insert", !.r = r]
<1>1. tx' = [tx EXCEPT ![t] = x] /\ UNCHANGED tables
  BY DEF LookUpSubject, tables
<1>2. x \in Tx /\ x.pc = "insert" /\ x.skip = {}
  BY IdleIsTx DEF Tx, Idle
<1> HIDE DEF x
<1>3. tx'[t] = x
  BY <1>1 DEF EngineInv, TypeOK
<1>4. TxSound(t)'
  BY <1>2, <1>3 DEF TxSound, Deciding, DecidedStep
<1> QED
  BY <1>1, <1>2, <1>4, HoldsNothing

LEMMA BeginDecisionKeeps ==
    ASSUME EngineInv, NEW t \in Transactions, NEW r \in Requests, NEW i \in Steps,
           NEW u \in Users, NEW outcome \in Outcome, BeginDecision(t, r, i, u, outcome)
    PROVE  EngineInv'
<1> DEFINE x == [Idle EXCEPT !.pc = "step", !.r = r, !.i = i, !.user = u, !.outcome = outcome]
<1>1. tx' = [tx EXCEPT ![t] = x] /\ UNCHANGED tables
  BY DEF BeginDecision, tables
<1>2. /\ x \in Tx /\ x.pc = "step" /\ x.skip = {}
      /\ x.r = r /\ x.i = i /\ x.outcome = outcome
  BY IdleIsTx DEF Tx, Idle
<1>3. /\ outcome # "cancelled"
      /\ request'[r].status # "none" /\ i <= request'[r].current
  BY StepsAre DEF BeginDecision
<1> HIDE DEF x
<1>4. tx'[t] = x
  BY <1>1 DEF EngineInv, TypeOK
<1>5. TxSound(t)'
  BY <1>2, <1>3, <1>4 DEF TxSound, Deciding, DecidedStep, IsDecision
<1> QED
  BY <1>1, <1>2, <1>5, HoldsNothing

LEMMA BeginCancelKeeps ==
    ASSUME EngineInv, NEW t \in Transactions, NEW r \in Requests, NEW u \in Users,
           BeginCancel(t, r, u)
    PROVE  EngineInv'
<1> DEFINE x == [Idle EXCEPT !.pc = "skip", !.r = r, !.user = u]
<1>1. tx' = [tx EXCEPT ![t] = x] /\ UNCHANGED tables
  BY DEF BeginCancel, tables
<1>2. x \in Tx /\ x.pc = "skip" /\ x.skip = {} /\ x.r = r /\ x.outcome = "cancelled"
  BY IdleIsTx DEF Tx, Idle
<1>3. request'[r].status # "none"
  BY DEF BeginCancel
<1> HIDE DEF x
<1>4. tx'[t] = x
  BY <1>1 DEF EngineInv, TypeOK
<1>5. TxSound(t)'
  BY <1>2, <1>3, <1>4 DEF TxSound, Deciding, DecidedStep, IsDecision
<1> QED
  BY <1>1, <1>2, <1>5, HoldsNothing

LEMMA UpdateStepKeeps ==
    ASSUME EngineInv, NEW t \in Transactions, UpdateStep(t)
    PROVE  EngineInv'
<1> DEFINE pc == IF tx[t].outcome = "approved" THEN "pending" ELSE "skip"
           x == [tx[t] EXCEPT !.pc = pc]
           r == tx[t].r
<1>1. tx' = [tx EXCEPT ![t] = x] /\ UNCHANGED tables
  BY DEF UpdateStep, Goto, tables
<1>2. tx[t] \in Tx /\ TxSound(t)
  BY TxTypes DEF EngineInv
<1>3. /\ tx[t].pc = "step" /\ ~StepLocked(r, tx[t].i, t)
      /\ stepStatus[r][tx[t].i] = "pending"
      /\ IsDecision(t) /\ tx[t].skip = {}
      /\ request[r].status # "none" /\ tx[t].i <= request[r].current
  BY <1>2 DEF UpdateStep, StepUpdatable, TxSound, Deciding
<1>4. /\ x \in Tx /\ x.pc = pc /\ x.r = r /\ x.i = tx[t].i
      /\ x.outcome = tx[t].outcome /\ x.skip = {}
  BY <1>2, <1>3 DEF Tx
<1> HIDE DEF x
<1>5. tx'[t] = x
  BY <1>1 DEF EngineInv, TypeOK
<1>6. (IsDecision(t))' /\ DecidedStep(t)' = {tx[t].i}
  BY <1>3, <1>4, <1>5 DEF DecidedStep, IsDecision
<1>7. TxSound(t)'
  BY <1>1, <1>3, <1>4, <1>5, <1>6 DEF TxSound, Deciding, tables
<1>8. ASSUME NEW u \in Transactions \ {t}, tx[u].r = x.r
      PROVE  HeldSteps(u) \cap HeldSteps(t)' = {}
  BY <1>3, <1>4, <1>5, <1>6, <1>8 DEF StepLocked, HeldSteps
<1> QED
  BY <1>1, <1>4, <1>7, <1>8, OwnMove

LEMMA ReadPendingKeeps ==
    ASSUME EngineInv, NEW t \in Transactions, ReadPendingSteps(t)
    PROVE  EngineInv'
<1> DEFINE x == [tx[t] EXCEPT !.pc = "request", !.last = NonePendingFor(t)]
           r == tx[t].r
<1>1. tx' = [tx EXCEPT ![t] = x] /\ UNCHANGED tables
  BY DEF ReadPendingSteps, tables
<1>2. tx[t] \in Tx /\ TxSound(t) /\ tx[t].pc = "pending"
  BY TxTypes DEF EngineInv, ReadPendingSteps
<1>3. tx[t].outcome = "approved" /\ tx[t].skip = {} /\ IsDecision(t)
  BY <1>2 DEF TxSound, IsDecision
<1>4. /\ x \in Tx /\ x.pc = "request" /\ x.r = r /\ x.i = tx[t].i
      /\ x.outcome = "approved" /\ x.skip = {} /\ x.last = (PendingFor(t) = {})
  BY <1>2, <1>3 DEF Tx, NonePendingFor
<1> HIDE DEF x
<1>5. tx'[t] = x
  BY <1>1 DEF EngineInv, TypeOK
<1>6. /\ (IsDecision(t))' /\ DecidedStep(t)' = DecidedStep(t)
      /\ HeldSteps(t)' = HeldSteps(t)
  BY <1>2, <1>3, <1>4, <1>5 DEF DecidedStep, IsDecision, HeldSteps
<1>7. PendingFor(t)' = PendingFor(t)
  BY <1>1, <1>4, <1>5, <1>6 DEF PendingFor, tables
<1>8. TxSound(t)'
  BY <1>1, <1>2, <1>3, <1>4, <1>5, <1>6, <1>7 DEF TxSound, Deciding, tables
<1>9. ASSUME NEW u \in Transactions \ {t}, tx[u].r = x.r
      PROVE  HeldSteps(u) \cap HeldSteps(t)' = {}
  BY <1>4, <1>6, <1>9 DEF EngineInv, Exclusive
<1> QED
  BY <1>1, <1>4, <1>8, <1>9, OwnMove

LEMMA SkipKeeps ==
    ASSUME EngineInv, NEW t \in Transactions, SkipPendingSteps(t)
    PROVE  EngineInv'
<1> DEFINE x == [tx[t] EXCEPT !.pc = "request", !.skip = PendingFor(t)]
           r == tx[t].r
<1>1. tx' = [tx EXCEPT ![t] = x] /\ UNCHANGED tables
  BY DEF SkipPendingSteps, Skippable, tables
<1>2. tx[t] \in Tx /\ TxSound(t) /\ tx[t].pc = "skip"
  BY TxTypes DEF EngineInv, SkipPendingSteps
<1>3. tx[t].outcome # "approved" /\ tx[t].skip = {}
  BY <1>2 DEF TxSound
<1>4. /\ x \in Tx /\ x.pc = "request" /\ x.r = r /\ x.i = tx[t].i
      /\ x.outcome = tx[t].outcome /\ x.skip = PendingFor(t)
  BY <1>2 DEF Tx, PendingFor
<1> HIDE DEF x
<1>5. tx'[t] = x
  BY <1>1 DEF EngineInv, TypeOK
<1>6. (IsDecision(t))' = IsDecision(t) /\ DecidedStep(t)' = DecidedStep(t)
  BY <1>2, <1>4, <1>5 DEF DecidedStep, IsDecision
<1>7. PendingFor(t)' = PendingFor(t)
  BY <1>1, <1>4, <1>5, <1>6 DEF PendingFor, tables
<1>8. TxSound(t)'
  BY <1>1, <1>2, <1>3, <1>4, <1>5, <1>6, <1>7 DEF TxSound, Deciding, tables
<1>9. ASSUME NEW u \in Transactions \ {t}, tx[u].r = x.r
      PROVE  HeldSteps(u) \cap HeldSteps(t)' = {}
  <2>1. HeldSteps(u) \cap DecidedStep(t) = {}
    BY <1>4, <1>9 DEF EngineInv, Exclusive, HeldSteps
  <2>2. HeldSteps(u) \cap PendingFor(t) = {}
    BY <1>4, <1>9 DEF SkipPendingSteps, StepLocked, HeldSteps
  <2> QED
    BY <1>4, <1>5, <1>6, <2>1, <2>2 DEF HeldSteps
<1> QED
  BY <1>1, <1>4, <1>8, <1>9, OwnMove

LEMMA UpdateRequestKeeps ==
    ASSUME EngineInv, NEW t \in Transactions, UpdateRequest(t)
    PROVE  EngineInv'
<1> DEFINE x == [tx[t] EXCEPT !.pc = "commit"]
           r == tx[t].r
<1>1. tx' = [tx EXCEPT ![t] = x] /\ UNCHANGED tables
  BY DEF UpdateRequest, Goto, tables
<1>2. /\ tx[t] \in Tx /\ TxSound(t) /\ tx[t].pc = "request"
      /\ request[r].status = "pending"
  BY TxTypes DEF EngineInv, UpdateRequest, RequestUpdatable
<1>3. /\ x \in Tx /\ x.pc = "commit" /\ x.r = r /\ x.i = tx[t].i
      /\ x.outcome = tx[t].outcome /\ x.skip = tx[t].skip /\ x.last = tx[t].last
  BY <1>2 DEF Tx
<1> HIDE DEF x
<1>4. tx'[t] = x
  BY <1>1 DEF EngineInv, TypeOK
<1>5. /\ (IsDecision(t))' = IsDecision(t) /\ DecidedStep(t)' = DecidedStep(t)
      /\ HeldSteps(t)' = HeldSteps(t)
  BY <1>2, <1>3, <1>4 DEF DecidedStep, IsDecision, HeldSteps
<1>6. PendingFor(t)' = PendingFor(t)
  BY <1>1, <1>3, <1>4, <1>5 DEF PendingFor, tables
<1>7. TxSound(t)'
  BY <1>1, <1>2, <1>3, <1>4, <1>5, <1>6 DEF TxSound, Deciding, tables
<1>8. ASSUME NEW u \in Transactions \ {t}, tx[u].r = x.r
      PROVE  HeldSteps(u) \cap HeldSteps(t)' = {}
  BY <1>3, <1>5, <1>8 DEF EngineInv, Exclusive
<1> QED
  BY <1>1, <1>3, <1>7, <1>8, OwnMove

-----------------------------------------------------------------------------
(***************************************************************************)
(* The two commits.                                                        *)
(***************************************************************************)

LEMMA IdleIsSound ==
    ASSUME NEW t \in Transactions, tx'[t] = Idle
    PROVE  TxSound(t)' /\ HeldSteps(t)' = {}
BY DEF TxSound, HeldSteps, Idle, Deciding, DecidedStep, IsDecision

\* If a commit leaves all transactions sound and gives none of them a lock,
\* locks exclude as before.
LEMMA LocksShrink ==
    ASSUME EngineInv, NEW t \in Transactions, tx' = [tx EXCEPT ![t] = Idle],
           \A u \in Transactions \ {t} : HeldSteps(u)' = HeldSteps(u)
    PROVE  Exclusive'
<1>1. tx'[t] = Idle /\ \A u \in Transactions \ {t} : tx'[u] = tx[u]
  BY DEF EngineInv, TypeOK
<1>2. ASSUME NEW a \in Transactions, NEW b \in Transactions, a # b, (tx[a].r = tx[b].r)'
      PROVE  HeldSteps(a)' \cap HeldSteps(b)' = {}
  <2>1. CASE a = t \/ b = t
    BY <1>1, <2>1, IdleIsSound
  <2>2. CASE a # t /\ b # t
    BY <1>1, <1>2, <2>2 DEF EngineInv, Exclusive
  <2> QED
    BY <2>1, <2>2
<1> QED
  BY <1>2 DEF Exclusive

LEMMA InsertKeeps ==
    ASSUME EngineInv, NEW t \in Transactions, InsertRequest(t)
    PROVE  EngineInv'
<1> DEFINE r == tx[t].r
<1>1. /\ request' = [request EXCEPT ![r].status = "pending"]
      /\ tx' = [tx EXCEPT ![t] = Idle]
      /\ UNCHANGED <<stepStatus, completed, decided>>
      /\ request[r].status = "none"
  BY DEF InsertRequest
<1>2. r \in Requests /\ TypeOK /\ request[r] \in Request
  BY TxTypes DEF EngineInv
<1>3. /\ request'[r] = [request[r] EXCEPT !.status = "pending"]
      /\ \A s \in Requests \ {r} : request'[s] = request[s]
      /\ tx'[t] = Idle
      /\ \A u \in Transactions \ {t} : tx'[u] = tx[u]
  BY <1>1, <1>2 DEF TypeOK
<1>4. request'[r].status = "pending" /\ request'[r].current = request[r].current
  BY <1>2, <1>3 DEF Request
<1>5. TypeOK'
  <2>1. request' \in [Requests -> Request]
    BY <1>1, <1>2 DEF TypeOK, Request
  <2> QED
    BY <1>1, <2>1, IdleIsTx DEF EngineInv, TypeOK
<1>6. ASSUME NEW s \in Requests
      PROVE  Story(s)'
  <2>1. Story(s)
    BY DEF EngineInv
  <2>2. CASE s = r
    BY <1>1, <1>4, <2>1, <2>2 DEF Story
  <2>3. CASE s # r
    BY <1>1, <1>3, <2>1, <2>3 DEF Story
  <2> QED
    BY <2>2, <2>3
<1>7. CompletionAnnouncedOnce'
  <2>1. completed[r] = <<>>
    BY <1>1, <1>2 DEF EngineInv, CompletionAnnouncedOnce, Outcome
  <2> QED
    BY <1>1, <1>3, <1>4, <2>1 DEF EngineInv, CompletionAnnouncedOnce, Outcome
<1>8. DecisionsAnnouncedOnce'
  BY <1>1 DEF EngineInv, DecisionsAnnouncedOnce
<1>9. ASSUME NEW u \in Transactions \ {t}
      PROVE  TxSound(u)' /\ HeldSteps(u)' = HeldSteps(u)
  <2>1. CASE tx[u].r = r
    <3>1. TxSound(u) /\ tx[u].pc \notin Deciding
      BY <1>1, <2>1 DEF EngineInv, TxSound
    <3>2. DecidedStep(u) = {} /\ DecidedStep(u)' = {} /\ tx[u].skip = {}
      BY <1>3, <3>1 DEF DecidedStep, Deciding, TxSound
    <3> QED
      BY <1>3, <3>1, <3>2 DEF TxSound, HeldSteps, Deciding
  <2>2. CASE tx[u].r # r
    BY <1>1, <1>3, <2>2, OthersStay, TxTypes DEF EngineInv
  <2> QED
    BY <2>1, <2>2
<1> QED
  BY <1>1, <1>3, <1>5, <1>6, <1>7, <1>8, <1>9, IdleIsSound, LocksShrink DEF EngineInv

\* What a transaction that is about to commit has written.
LEMMA Uncommitted ==
    ASSUME EngineInv, NEW t \in Transactions, tx[t].pc = "commit"
    PROVE  LET r == tx[t].r
               current == request[r].current
           IN /\ r \in Requests /\ current \in Steps
              /\ request[r].status = "pending"
              /\ \A i \in Steps :
                    stepStatus[r][i] = IF i < current THEN "approved" ELSE "pending"
              /\ DecidedStep(t) = IF tx[t].outcome = "cancelled" THEN {} ELSE {current}
              /\ tx[t].skip = CASE tx[t].outcome = "approved" -> {}
                                [] tx[t].outcome = "rejected" -> {i \in Steps : i > current}
                                [] tx[t].outcome = "cancelled" -> {i \in Steps : i >= current}
              /\ Finishes(t) <=> tx[t].outcome # "approved" \/ current + 1 = NSteps
<1> DEFINE r == tx[t].r
           current == request[r].current
<1>1. /\ r \in Requests /\ current \in Steps /\ tx[t].outcome \in Outcome
      /\ TypeOK /\ Story(r) /\ TxSound(t)
      /\ request[r].status = "pending"
  BY TxTypes DEF EngineInv, TxSound, Request
<1> HIDE DEF current
<1>2. \A i \in Steps : stepStatus[r][i] = IF i < current THEN "approved" ELSE "pending"
  <2> TAKE i \in Steps
  <2>1. /\ i < current => stepStatus[r][i] = "approved"
        /\ i >= current => stepStatus[r][i] = "pending"
    BY <1>1, OpenStory DEF current
  <2>2. ~(i < current) => i >= current
    BY <1>1, StepsAre
  <2> QED
    BY <2>1, <2>2
<1>3. DecidedStep(t) = IF tx[t].outcome = "cancelled" THEN {} ELSE {current}
  BY CommitterHoldsCurrent DEF DecidedStep, IsDecision, current
<1>4. PendingFor(t) = {i \in Steps : IF tx[t].outcome = "cancelled" THEN i >= current
                                                                     ELSE i > current}
  <2>1. \A i \in Steps : /\ ~(i < current) <=> i >= current
                         /\ i >= current /\ i # current <=> i > current
    BY <1>1, StepsAre
  <2>2. \A i \in Steps : stepStatus[r][i] = "pending" <=> i >= current
    BY <1>2, <2>1
  <2>3. CASE tx[t].outcome = "cancelled"
    BY <1>3, <2>2, <2>3 DEF PendingFor
  <2>4. CASE tx[t].outcome # "cancelled"
    BY <1>3, <2>1, <2>2, <2>4 DEF PendingFor
  <2> QED
    BY <2>3, <2>4
<1>5. tx[t].skip = CASE tx[t].outcome = "approved" -> {}
                     [] tx[t].outcome = "rejected" -> {i \in Steps : i > current}
                     [] tx[t].outcome = "cancelled" -> {i \in Steps : i >= current}
  <2>1. tx[t].skip = IF tx[t].outcome # "approved" THEN PendingFor(t) ELSE {}
    BY <1>1 DEF TxSound
  <2>2. CASE tx[t].outcome = "approved"
    BY <2>1, <2>2
  <2>3. CASE tx[t].outcome = "rejected"
    BY <1>4, <2>1, <2>3
  <2>4. CASE tx[t].outcome = "cancelled"
    BY <1>4, <2>1, <2>4
  <2> QED
    BY <1>1, <2>2, <2>3, <2>4 DEF Outcome
<1>6. Finishes(t) <=> tx[t].outcome # "approved" \/ current + 1 = NSteps
  <2>1. CASE tx[t].outcome = "approved"
    <3>1. tx[t].last = (PendingFor(t) = {})
      BY <1>1, <2>1 DEF TxSound
    <3>2. {i \in Steps : i > current} = {} <=> current + 1 = NSteps
      <4>1. current \in Nat /\ current + 1 \in Nat /\ current < NSteps
        BY <1>1, StepsAre
      <4>2. current + 1 # NSteps => current + 1 \in Steps
        BY <4>1, StepsAre, NStepsAssumption
      <4>3. current + 1 = NSteps => \A i \in Steps : ~(i > current)
        BY <4>1, StepsAre
      <4> QED
        BY <4>1, <4>2, <4>3
    <3> QED
      BY <1>4, <2>1, <3>1, <3>2 DEF Finishes
  <2>2. CASE tx[t].outcome # "approved"
    BY <2>2 DEF Finishes
  <2> QED
    BY <2>1, <2>2
<1> QED
  BY <1>1, <1>2, <1>3, <1>5, <1>6 DEF current

\* ... and what its commit makes of the request and its steps.
LEMMA Committed ==
    ASSUME EngineInv, NEW t \in Transactions, Commit(t)
    PROVE  LET r == tx[t].r
               current == request[r].current
               outcome == tx[t].outcome
           IN /\ request' \in [Requests -> Request]
              /\ request'[r].status = IF Finishes(t) THEN outcome ELSE "pending"
              /\ request'[r].current = IF Finishes(t) THEN current ELSE current + 1
              /\ stepStatus' \in [Requests -> [Steps -> StepStatus]]
              /\ \A i \in Steps :
                    /\ i < current => stepStatus'[r][i] = "approved"
                    /\ i = current => stepStatus'[r][i] =
                          IF outcome = "cancelled" THEN "skipped" ELSE outcome
                    /\ i > current => stepStatus'[r][i] =
                          IF outcome = "approved" THEN "pending" ELSE "skipped"
              /\ \A s \in Requests \ {r} : /\ request'[s] = request[s]
                                           /\ stepStatus'[s] = stepStatus[s]
<1> DEFINE r == tx[t].r
           current == request[r].current
           outcome == tx[t].outcome
           written == [i \in Steps |-> CASE i \in DecidedStep(t) -> outcome
                                         [] i \in tx[t].skip -> "skipped"
                                         [] OTHER -> stepStatus[r][i]]
<1>1. /\ tx[t].pc = "commit"
      /\ request' = [request EXCEPT ![r] = RequestPatch(t)]
      /\ stepStatus' = [stepStatus EXCEPT ![r] = written]
  BY DEF Commit
<1>2. /\ r \in Requests /\ current \in Steps /\ outcome \in Outcome
      /\ request[r] \in Request /\ TypeOK /\ tx[t].i \in Steps
  BY TxTypes DEF EngineInv, Request
<1>3. /\ request[r].status = "pending"
      /\ \A i \in Steps : stepStatus[r][i] = IF i < current THEN "approved" ELSE "pending"
      /\ DecidedStep(t) = IF outcome = "cancelled" THEN {} ELSE {current}
      /\ tx[t].skip = CASE outcome = "approved" -> {}
                        [] outcome = "rejected" -> {i \in Steps : i > current}
                        [] outcome = "cancelled" -> {i \in Steps : i >= current}
      /\ Finishes(t) <=> outcome # "approved" \/ current + 1 = NSteps
  BY <1>1, Uncommitted
<1>4. /\ RequestPatch(t) \in Request
      /\ RequestPatch(t).status = IF Finishes(t) THEN outcome ELSE "pending"
      /\ RequestPatch(t).current = IF Finishes(t) THEN current ELSE current + 1
  <2>1. CASE Finishes(t)
    <3>1. RequestPatch(t) = [request[r] EXCEPT !.status = outcome]
      BY <2>1 DEF RequestPatch
    <3> HIDE DEF r, outcome
    <3> QED
      BY <1>2, <2>1, <3>1 DEF Request
  <2>2. CASE ~Finishes(t)
    <3>1. IsDecision(t)
      BY <2>2 DEF Finishes, IsDecision
    <3>2. tx[t].i = current
      BY <1>1, <3>1, CommitterHoldsCurrent
    <3>3. RequestPatch(t) = [request[r] EXCEPT !.current = current + 1]
      BY <2>2, <3>2 DEF RequestPatch
    <3>4. current + 1 \in Steps
      BY <1>2, <1>3, <2>2, StepsAre, NStepsAssumption
    <3> HIDE DEF r
    <3> QED
      BY <1>2, <1>3, <2>2, <3>3, <3>4 DEF Request
  <2> QED
    BY <2>1, <2>2
<1>5. /\ request'[r] = RequestPatch(t) /\ stepStatus'[r] = written
      /\ \A s \in Requests \ {r} : request'[s] = request[s] /\ stepStatus'[s] = stepStatus[s]
  BY <1>1, <1>2 DEF TypeOK
<1>6. request' \in [Requests -> Request]
  BY <1>1, <1>2, <1>4 DEF TypeOK
<1>7. stepStatus' \in [Requests -> [Steps -> StepStatus]]
  <2>1. written \in [Steps -> StepStatus]
    <3>1. \A i \in Steps : written[i] \in {outcome, "skipped", stepStatus[r][i]}
                           /\ (written[i] = outcome => i \in DecidedStep(t) \/ written[i] \in StepStatus)
      BY <1>2 DEF TypeOK, StepStatus
    <3>2. \A i \in Steps : i \in DecidedStep(t) => outcome \in {"approved", "rejected"}
      BY <1>2, <1>3 DEF Outcome
    <3>3. \A i \in Steps : written[i] \in StepStatus
      BY <1>2, <3>1, <3>2 DEF StepStatus, TypeOK
    <3> QED
      BY <3>3
  <2> QED
    BY <1>1, <1>2, <2>1 DEF TypeOK
<1> HIDE DEF current, outcome
<1>8. ASSUME NEW i \in Steps
      PROVE  /\ i < current => stepStatus'[r][i] = "approved"
             /\ i = current => stepStatus'[r][i] =
                   IF outcome = "cancelled" THEN "skipped" ELSE outcome
             /\ i > current => stepStatus'[r][i] =
                   IF outcome = "approved" THEN "pending" ELSE "skipped"
  <2>1. i \in Nat /\ current \in Nat
    BY <1>2, StepsAre
  <2>2. stepStatus'[r][i] = CASE i \in DecidedStep(t) -> outcome
                              [] i \in tx[t].skip -> "skipped"
                              [] OTHER -> stepStatus[r][i]
    BY <1>5
  <2>3. CASE outcome = "approved"
    BY <1>3, <2>1, <2>2, <2>3
  <2>4. CASE outcome = "rejected"
    BY <1>3, <2>1, <2>2, <2>4
  <2>5. CASE outcome = "cancelled"
    BY <1>3, <2>1, <2>2, <2>5
  <2> QED
    BY <1>2, <2>3, <2>4, <2>5 DEF Outcome
<1> QED
  BY <1>4, <1>5, <1>6, <1>7, <1>8 DEF current, outcome

\* The events of a request tell what its steps say, and nothing else.
LEMMA EventsAndSteps ==
    ASSUME NEW D, NEW st, D \subseteq Steps \X {"approved", "rejected"} \X Users
    PROVE  ({<<e[1], e[2]>> : e \in D}
              = {<<i, st[i]>> : i \in {j \in Steps : st[j] \in {"approved", "rejected"}}})
           <=> /\ \A e \in D : st[e[1]] = e[2]
               /\ \A i \in Steps : st[i] \in {"approved", "rejected"} =>
                     \E e \in D : e[1] = i
<1>1. \A e \in D : e[1] \in Steps /\ e[2] \in {"approved", "rejected"}
  OBVIOUS
<1> DEFINE told == {<<e[1], e[2]>> : e \in D}
           said == {<<i, st[i]>> : i \in {j \in Steps : st[j] \in {"approved", "rejected"}}}
<1>2. ASSUME told = said
      PROVE  /\ \A e \in D : st[e[1]] = e[2]
             /\ \A i \in Steps : st[i] \in {"approved", "rejected"} => \E e \in D : e[1] = i
  <2>1. ASSUME NEW e \in D
        PROVE  st[e[1]] = e[2]
    <3>1. <<e[1], e[2]>> \in said
      BY <1>2
    <3> QED
      BY <3>1
  <2>2. ASSUME NEW i \in Steps, st[i] \in {"approved", "rejected"}
        PROVE  \E e \in D : e[1] = i
    <3>1. <<i, st[i]>> \in told
      BY <1>2, <2>2
    <3> QED
      BY <3>1
  <2> QED
    BY <2>1, <2>2
<1>3. ASSUME \A e \in D : st[e[1]] = e[2],
             \A i \in Steps : st[i] \in {"approved", "rejected"} => \E e \in D : e[1] = i
      PROVE  told = said
  <2>1. told \subseteq said
    BY <1>1, <1>3
  <2>2. said \subseteq told
    <3> SUFFICES ASSUME NEW i \in Steps, st[i] \in {"approved", "rejected"}
                 PROVE  <<i, st[i]>> \in told
      OBVIOUS
    <3>1. PICK e \in D : e[1] = i
      BY <1>3
    <3> QED
      BY <1>3, <3>1
  <2> QED
    BY <2>1, <2>2
<1> QED
  BY <1>2, <1>3

LEMMA CommitKeeps ==
    ASSUME EngineInv, NEW t \in Transactions, Commit(t)
    PROVE  EngineInv'
<1> DEFINE r == tx[t].r
           current == request[r].current
           outcome == tx[t].outcome
<1>1. /\ tx[t].pc = "commit"
      /\ completed' = [completed EXCEPT ![r] =
                          IF Finishes(t) THEN Append(@, outcome) ELSE @]
      /\ decided' = [decided EXCEPT ![r] =
                        @ \cup {<<i, outcome, tx[t].user>> : i \in DecidedStep(t)}]
      /\ tx' = [tx EXCEPT ![t] = Idle]
  BY DEF Commit
<1>2. /\ r \in Requests /\ current \in Steps /\ outcome \in Outcome
      /\ TypeOK /\ tx[t].user \in Users
  BY TxTypes DEF EngineInv, Request
<1>3. /\ request[r].status = "pending"
      /\ \A i \in Steps : stepStatus[r][i] = IF i < current THEN "approved" ELSE "pending"
      /\ DecidedStep(t) = IF outcome = "cancelled" THEN {} ELSE {current}
      /\ Finishes(t) <=> outcome # "approved" \/ current + 1 = NSteps
  BY <1>1, Uncommitted
<1>4. /\ request' \in [Requests -> Request]
      /\ request'[r].status = IF Finishes(t) THEN outcome ELSE "pending"
      /\ request'[r].current = IF Finishes(t) THEN current ELSE current + 1
      /\ stepStatus' \in [Requests -> [Steps -> StepStatus]]
      /\ \A i \in Steps :
            /\ i < current => stepStatus'[r][i] = "approved"
            /\ i = current => stepStatus'[r][i] =
                  IF outcome = "cancelled" THEN "skipped" ELSE outcome
            /\ i > current => stepStatus'[r][i] =
                  IF outcome = "approved" THEN "pending" ELSE "skipped"
      /\ \A s \in Requests \ {r} : request'[s] = request[s] /\ stepStatus'[s] = stepStatus[s]
  BY Committed
<1>5. /\ completed'[r] = IF Finishes(t) THEN Append(completed[r], outcome) ELSE completed[r]
      /\ decided'[r] = decided[r] \cup {<<i, outcome, tx[t].user>> : i \in DecidedStep(t)}
      /\ \A s \in Requests \ {r} : completed'[s] = completed[s] /\ decided'[s] = decided[s]
      /\ tx'[t] = Idle /\ \A u \in Transactions \ {t} : tx'[u] = tx[u]
  BY <1>1, <1>2 DEF TypeOK
<1> HIDE DEF current, outcome
<1>6. current \in Nat /\ current + 1 \in Nat /\ current < NSteps
  BY <1>2, StepsAre
<1>7. TypeOK'
  <2>1. completed' \in [Requests -> Seq(Outcome)]
    BY <1>1, <1>2 DEF TypeOK
  <2>2. {<<i, outcome, tx[t].user>> : i \in DecidedStep(t)}
          \subseteq Steps \X {"approved", "rejected"} \X Users
    BY <1>2, <1>3 DEF Outcome
  <2>3. decided' \in [Requests -> SUBSET (Steps \X {"approved", "rejected"} \X Users)]
    BY <1>1, <1>2, <2>2 DEF TypeOK
  <2>4. tx' \in [Transactions -> Tx]
    BY <1>1, <1>2, IdleIsTx DEF TypeOK
  <2> QED
    BY <1>4, <2>1, <2>3, <2>4 DEF TypeOK
<1>8. ASSUME NEW s \in Requests
      PROVE  Story(s)'
  <2>1. CASE s = r
    <3> DEFINE state == request'[r].status
               next == request'[r].current
    <3> SUFFICES ASSUME NEW i \in Steps
                 PROVE  /\ state = "approved" \/ i < next => stepStatus'[r][i] = "approved"
                        /\ state = "rejected" /\ i = next => stepStatus'[r][i] = "rejected"
                        /\ state = "rejected" /\ i > next => stepStatus'[r][i] = "skipped"
                        /\ state = "cancelled" /\ i >= next => stepStatus'[r][i] = "skipped"
                        /\ state \in {"none", "pending"} /\ i >= next =>
                              stepStatus'[r][i] = "pending"
      BY <2>1 DEF Story
    <3> HIDE DEF state, next
    <3>0. /\ state = IF Finishes(t) THEN outcome ELSE "pending"
          /\ next = IF Finishes(t) THEN current ELSE current + 1
          /\ i < current => stepStatus'[r][i] = "approved"
          /\ i = current => stepStatus'[r][i] =
                IF outcome = "cancelled" THEN "skipped" ELSE outcome
          /\ i > current => stepStatus'[r][i] =
                IF outcome = "approved" THEN "pending" ELSE "skipped"
      BY <1>4 DEF state, next
    <3>1. i \in Nat /\ i < NSteps
      BY StepsAre
    <3>2. CASE outcome = "approved" /\ Finishes(t)
      BY <1>3, <1>6, <3>0, <3>1, <3>2
    <3>3. CASE ~Finishes(t)
      BY <1>3, <1>6, <3>0, <3>1, <3>3
    <3>4. CASE outcome = "rejected"
      BY <1>3, <1>6, <3>0, <3>1, <3>4
    <3>5. CASE outcome = "cancelled"
      BY <1>3, <1>6, <3>0, <3>1, <3>5
    <3> QED
      BY <1>2, <3>2, <3>3, <3>4, <3>5 DEF Outcome
  <2>2. CASE s # r
    BY <1>4, <2>2 DEF EngineInv, Story
  <2> QED
    BY <2>1, <2>2
<1>9. CompletionAnnouncedOnce'
  <2>1. completed[r] = <<>>
    BY <1>2, <1>3 DEF EngineInv, CompletionAnnouncedOnce, Outcome
  <2>2. completed'[r] = IF request'[r].status \in Outcome THEN <<request'[r].status>> ELSE <<>>
    <3>1. CASE Finishes(t)
      BY <1>2, <1>4, <1>5, <2>1, <3>1
    <3>2. CASE ~Finishes(t)
      BY <1>4, <1>5, <2>1, <3>2 DEF Outcome
    <3> QED
      BY <3>1, <3>2
  <2> QED
    BY <1>4, <1>5, <2>2 DEF EngineInv, CompletionAnnouncedOnce
<1>10. DecisionsAnnouncedOnce'
  <2>1. ASSUME NEW s \in Requests
        PROVE  /\ \A e, f \in decided'[s] : e[1] = f[1] => e = f
               /\ {<<e[1], e[2]>> : e \in decided'[s]} =
                     {<<i, stepStatus'[s][i]>> :
                         i \in {j \in Steps : stepStatus'[s][j] \in {"approved", "rejected"}}}
    <3>1. /\ \A e, f \in decided[s] : e[1] = f[1] => e = f
          /\ {<<e[1], e[2]>> : e \in decided[s]} =
                {<<i, stepStatus[s][i]>> :
                    i \in {j \in Steps : stepStatus[s][j] \in {"approved", "rejected"}}}
      BY DEF EngineInv, DecisionsAnnouncedOnce
    <3>2. CASE s # r
      BY <1>4, <1>5, <3>1, <3>2
    <3>3. CASE s = r
      <4>1. /\ decided[r] \subseteq Steps \X {"approved", "rejected"} \X Users
            /\ decided'[r] \subseteq Steps \X {"approved", "rejected"} \X Users
        BY <1>2, <1>7 DEF TypeOK
      <4>2. /\ \A e \in decided[r] : stepStatus[r][e[1]] = e[2]
            /\ \A i \in Steps : stepStatus[r][i] \in {"approved", "rejected"} =>
                  \E e \in decided[r] : e[1] = i
        <5>1. {<<e[1], e[2]>> : e \in decided[r]} =
                {<<i, stepStatus[r][i]>> :
                    i \in {j \in Steps : stepStatus[r][j] \in {"approved", "rejected"}}}
          BY <1>2 DEF EngineInv, DecisionsAnnouncedOnce
        <5> QED
          BY <4>1, <5>1, EventsAndSteps
      <4>3. \A e \in decided[r] : e[1] \in Steps /\ e[1] < current /\ e[2] = "approved"
        <5> TAKE e \in decided[r]
        <5>1. e[1] \in Steps /\ e[2] \in {"approved", "rejected"}
          BY <4>1
        <5> QED
          BY <1>3, <4>2, <5>1
      <4>4. \A e \in decided'[r] \ decided[r] :
               outcome # "cancelled" /\ e = <<current, outcome, tx[t].user>>
        BY <1>3, <1>5
      <4>5. \A e, f \in decided'[r] : e[1] = f[1] => e = f
        <5>1. \A e \in decided[r] : e[1] # current
          BY <1>6, <4>3, StepsAre
        <5>2. \A e \in decided'[r] \ decided[r] : e[1] = current
          BY <4>4
        <5> QED
          BY <3>1, <3>3, <4>4, <5>1, <5>2
      <4>6. \A e \in decided'[r] : stepStatus'[r][e[1]] = e[2]
        <5> TAKE e \in decided'[r]
        <5>1. CASE e \in decided[r]
          BY <1>4, <4>3, <5>1
        <5>2. CASE e \notin decided[r]
          BY <1>2, <1>4, <4>4, <5>2
        <5> QED
          BY <5>1, <5>2
      <4>7. ASSUME NEW i \in Steps, stepStatus'[r][i] \in {"approved", "rejected"}
            PROVE  \E e \in decided'[r] : e[1] = i
        <5>1. CASE i < current
          <6>1. PICK e \in decided[r] : e[1] = i
            BY <1>3, <4>2, <5>1
          <6> QED
            BY <1>5, <6>1
        <5>2. CASE i = current
          <6>1. outcome # "cancelled"
            BY <1>4, <4>7, <5>2
          <6>2. <<current, outcome, tx[t].user>> \in decided'[r]
            BY <1>3, <1>5, <6>1
          <6> QED
            BY <5>2, <6>2
        <5>3. CASE i > current
          BY <1>4, <4>7, <5>3
        <5> QED
          BY <1>6, <5>1, <5>2, <5>3, StepsAre
      <4>8. {<<e[1], e[2]>> : e \in decided'[r]} =
              {<<i, stepStatus'[r][i]>> :
                  i \in {j \in Steps : stepStatus'[r][j] \in {"approved", "rejected"}}}
        BY <4>1, <4>6, <4>7, EventsAndSteps
      <4> QED
        BY <3>3, <4>5, <4>8
    <3> QED
      BY <3>2, <3>3
  <2> QED
    BY <2>1 DEF DecisionsAnnouncedOnce
<1>11. ASSUME NEW u \in Transactions \ {t}
       PROVE  TxSound(u)' /\ HeldSteps(u)' = HeldSteps(u)
  <2>1. CASE tx[u].r = r
    <3>1. /\ DecidedStep(u) = {} /\ tx[u].skip = {}
          /\ tx[u].pc \in {"idle", "insert", "step", "skip"}
      BY <1>1, <2>1, CommitterHoldsCurrent
    <3>2. TxSound(u) /\ tx[u].i \in Nat
      BY TxTypes, StepsAre DEF EngineInv
    <3>3. (IsDecision(u))' = IsDecision(u) /\ DecidedStep(u)' = {}
      BY <1>5, <3>1 DEF DecidedStep, IsDecision
    <3>4. request'[r].status # "none"
      BY <1>2, <1>4 DEF Outcome
    <3>5. tx[u].i <= current => tx[u].i <= request'[r].current
      BY <1>4, <1>6, <3>2
    <3>6. TxSound(u)'
      BY <1>5, <2>1, <3>1, <3>2, <3>3, <3>4, <3>5 DEF TxSound, Deciding, current
    <3> QED
      BY <1>5, <3>1, <3>3, <3>6 DEF HeldSteps
  <2>2. CASE tx[u].r # r
    BY <1>4, <1>5, <2>2, OthersStay, TxTypes DEF EngineInv
  <2> QED
    BY <2>1, <2>2
<1> QED
  BY <1>1, <1>5, <1>7, <1>8, <1>9, <1>10, <1>11, IdleIsSound, LocksShrink DEF EngineInv

-----------------------------------------------------------------------------
(***************************************************************************)
(* The invariant.                                                          *)
(***************************************************************************)

LEMMA InitEngineInv == Init => EngineInv
<1> SUFFICES ASSUME Init PROVE EngineInv
  OBVIOUS
<1>1. TypeOK
  BY IdleIsTx, StepsAre DEF Init, TypeOK, Request, StepStatus
<1>2. \A r \in Requests : Story(r)
  BY StepsAre DEF Init, Story
<1>3. CompletionAnnouncedOnce
  BY DEF Init, CompletionAnnouncedOnce, Outcome
<1>4. DecisionsAnnouncedOnce
  BY DEF Init, DecisionsAnnouncedOnce
<1>5. \A t \in Transactions : TxSound(t) /\ HeldSteps(t) = {}
  BY DEF Init, TxSound, HeldSteps, Idle, Deciding, DecidedStep, IsDecision
<1> QED
  BY <1>1, <1>2, <1>3, <1>4, <1>5 DEF EngineInv, Exclusive

LEMMA StutterKeeps == EngineInv /\ UNCHANGED vars => EngineInv'
<1> SUFFICES ASSUME EngineInv, UNCHANGED vars PROVE EngineInv'
  OBVIOUS
<1>1. UNCHANGED tables /\ tx' = tx /\ tx' \in [Transactions -> Tx]
  BY DEF vars, tables, EngineInv, TypeOK
<1>2. \A t \in Transactions : TxSound(t)' /\ HeldSteps(t)' = HeldSteps(t)
  BY <1>1, OthersStay DEF tables
<1>3. Exclusive'
  BY <1>1, <1>2 DEF EngineInv, Exclusive
<1> QED
  BY <1>1, <1>2, <1>3, TablesStay DEF EngineInv

LEMMA StepEngineInv == EngineInv /\ [Next]_vars => EngineInv'
<1> SUFFICES ASSUME EngineInv, Next PROVE EngineInv'
  BY StutterKeeps
<1>1. PICK t \in Transactions :
        \/ \E r \in Requests : LookUpSubject(t, r)
        \/ InsertRequest(t)
        \/ \E r \in Requests, i \in Steps, u \in Users, outcome \in Outcome :
               BeginDecision(t, r, i, u, outcome)
        \/ \E r \in Requests, u \in Users : BeginCancel(t, r, u)
        \/ UpdateStep(t) \/ ReadPendingSteps(t) \/ SkipPendingSteps(t)
        \/ UpdateRequest(t) \/ Commit(t)
        \/ Rollback(t)
  BY DEF Next
<1> QED
  BY <1>1, LookUpKeeps, InsertKeeps, BeginDecisionKeeps, BeginCancelKeeps, UpdateStepKeeps,
     ReadPendingKeeps, SkipKeeps, UpdateRequestKeeps, CommitKeeps, RollbackKeeps

\* The inductive invariant of the engine's transactions.
THEOREM EngineInvariant == Spec => []EngineInv
BY InitEngineInv, StepEngineInv, PTL DEF Spec

-----------------------------------------------------------------------------
(***************************************************************************)
(* The properties.                                                         *)
(***************************************************************************)

LEMMA StoryMatches == EngineInv => StepsMatchRequest
<1> SUFFICES ASSUME EngineInv, NEW r \in Requests
             PROVE  LET current == request[r].current
                        steps(s) == {i \in Steps : stepStatus[r][i] = s}
                        before == {i \in Steps : i < current}
                        after == {i \in Steps : i > current}
                    IN  CASE request[r].status \in {"none", "pending"} ->
                                 /\ steps("approved") = before
                                 /\ steps("pending") = {current} \cup after
                          [] request[r].status = "approved" -> steps("approved") = Steps
                          [] request[r].status = "rejected" ->
                                 /\ steps("approved") = before
                                 /\ steps("rejected") = {current}
                                 /\ steps("skipped") = after
                          [] request[r].status = "cancelled" ->
                                 /\ steps("approved") = before
                                 /\ steps("skipped") = {current} \cup after
  BY DEF StepsMatchRequest
<1> DEFINE current == request[r].current
           state == request[r].status
           st(i) == stepStatus[r][i]
<1>1. /\ current \in Steps /\ state \in {"none", "pending", "approved", "rejected", "cancelled"}
  BY DEF EngineInv, TypeOK, Request, Outcome
<1>2. \A i \in Steps :
        /\ state = "approved" \/ i < current => st(i) = "approved"
        /\ state = "rejected" /\ i = current => st(i) = "rejected"
        /\ state = "rejected" /\ i > current => st(i) = "skipped"
        /\ state = "cancelled" /\ i >= current => st(i) = "skipped"
        /\ state \in {"none", "pending"} /\ i >= current => st(i) = "pending"
  BY DEF EngineInv, Story
<1> HIDE DEF current, state, st
<1>3. \A i \in Steps : /\ i < current \/ i = current \/ i > current
                       /\ ~(i < current /\ i = current) /\ ~(i < current /\ i > current)
                       /\ ~(i = current /\ i > current)
                       /\ i >= current <=> i = current \/ i > current
  BY <1>1, StepsAre
<1>4. CASE state \in {"none", "pending"}
  <2>1. \A i \in Steps : st(i) = IF i < current THEN "approved" ELSE "pending"
    BY <1>2, <1>3, <1>4
  <2>2. /\ {i \in Steps : st(i) = "approved"} = {i \in Steps : i < current}
        /\ {i \in Steps : st(i) = "pending"} = {current} \cup {i \in Steps : i > current}
    BY <1>1, <1>3, <2>1
  <2> QED
    BY <1>4, <2>2 DEF current, state, st
<1>5. CASE state = "approved"
  <2>1. {i \in Steps : st(i) = "approved"} = Steps
    BY <1>2, <1>5
  <2> QED
    BY <1>5, <2>1 DEF state, st
<1>6. CASE state = "rejected"
  <2>1. \A i \in Steps : st(i) = IF i < current THEN "approved"
                                 ELSE IF i = current THEN "rejected" ELSE "skipped"
    BY <1>2, <1>3, <1>6
  <2>2. /\ {i \in Steps : st(i) = "approved"} = {i \in Steps : i < current}
        /\ {i \in Steps : st(i) = "rejected"} = {current}
        /\ {i \in Steps : st(i) = "skipped"} = {i \in Steps : i > current}
    BY <1>1, <1>3, <2>1
  <2> QED
    BY <1>6, <2>2 DEF current, state, st
<1>7. CASE state = "cancelled"
  <2>1. \A i \in Steps : st(i) = IF i < current THEN "approved" ELSE "skipped"
    BY <1>2, <1>3, <1>7
  <2>2. /\ {i \in Steps : st(i) = "approved"} = {i \in Steps : i < current}
        /\ {i \in Steps : st(i) = "skipped"} = {current} \cup {i \in Steps : i > current}
    BY <1>1, <1>3, <2>1
  <2> QED
    BY <1>7, <2>2 DEF current, state, st
<1> QED
  BY <1>1, <1>4, <1>5, <1>6, <1>7

\* The tables and the transactions are what the schema says, in particular the
\* current step never runs past the policy's last.
THEOREM EngineTypes == Spec => []TypeOK
<1>1. EngineInv => TypeOK
  BY DEF EngineInv
<1> QED
  BY <1>1, EngineInvariant, PTL

\* However decisions and cancellations of a request race, its steps and its
\* status tell the same story.
THEOREM StepsTellTheStory == Spec => []StepsMatchRequest
BY StoryMatches, EngineInvariant, PTL

\* A request is announced complete once, with its final status.
THEOREM OneCompletion == Spec => []CompletionAnnouncedOnce
<1>1. EngineInv => CompletionAnnouncedOnce
  BY DEF EngineInv
<1> QED
  BY <1>1, EngineInvariant, PTL

\* A step's decision is announced once, and is the one its row holds.
THEOREM OneDecisionPerStep == Spec => []DecisionsAnnouncedOnce
<1>1. EngineInv => DecisionsAnnouncedOnce
  BY DEF EngineInv
<1> QED
  BY <1>1, EngineInvariant, PTL

-----------------------------------------------------------------------------
(***************************************************************************)
(* The refinement.                                                         *)
(***************************************************************************)

Approved(r) == {i \in Steps : stepStatus[r][i] = "approved"}
statusMap == [r \in Requests |-> request[r].status]
approvalsMap == [r \in Requests |-> Cardinality(Approved(r))]

LEMMA ApprovedCount ==
    ASSUME EngineInv, NEW r \in Requests, request[r].status # "approved"
    PROVE  Cardinality(Approved(r)) = request[r].current
<1> DEFINE current == request[r].current
<1>1. /\ current \in Steps /\ Story(r)
      /\ request[r].status \in {"none", "pending", "rejected", "cancelled"}
  BY DEF EngineInv, TypeOK, Request, Outcome
<1>2. \A i \in Steps : stepStatus[r][i] = "approved" <=> i < current
  <2> TAKE i \in Steps
  <2>1. i < current => stepStatus[r][i] = "approved"
    BY <1>1 DEF Story
  <2>2. i = current \/ i > current => stepStatus[r][i] # "approved"
    <3> HIDE DEF current
    <3>1. i = current \/ i > current => i >= current
      BY <1>1, StepsAre
    <3> QED
      BY <1>1, <3>1 DEF Story, current
  <2> HIDE DEF current
  <2>3. i < current \/ i = current \/ i > current
    BY <1>1, StepsAre
  <2> QED
    BY <2>1, <2>2, <2>3, <1>1, StepsAre
<1> HIDE DEF current
<1>3. current \in Nat /\ current < NSteps
  BY <1>1, StepsAre
<1>4. Approved(r) = 0 .. current - 1
  <2>1. \A i \in Nat : i \in 0 .. current - 1 <=> i < current
    BY <1>3
  <2>2. \A i \in Steps : i \in 0 .. current - 1 <=> i < current
    BY <2>1, StepsAre
  <2>3. 0 .. current - 1 \subseteq Steps
    BY <1>3, NStepsAssumption DEF Steps
  <2> QED
    BY <1>2, <2>2, <2>3 DEF Approved
<1>5. Cardinality(0 .. current - 1) = current
  <2>1. Cardinality(0 .. current - 1) = IF 0 > current - 1 THEN 0 ELSE (current - 1) - 0 + 1
    BY <1>3, FS_Interval
  <2> QED
    BY <1>3, <2>1
<1> QED
  BY <1>4, <1>5 DEF current

LEMMA AllApprovedCount ==
    ASSUME EngineInv, NEW r \in Requests, request[r].status = "approved"
    PROVE  Cardinality(Approved(r)) = NSteps
<1>1. Approved(r) = 0 .. NSteps - 1
  BY DEF EngineInv, Story, Approved, Steps
<1>2. Cardinality(0 .. NSteps - 1) = NSteps
  <2>1. Cardinality(0 .. NSteps - 1) = IF 0 > NSteps - 1 THEN 0 ELSE (NSteps - 1) - 0 + 1
    BY NStepsAssumption, FS_Interval
  <2> QED
    BY NStepsAssumption, <2>1
<1> QED
  BY <1>1, <1>2

Counts ==
    \A r \in Requests :
        Cardinality(Approved(r)) = IF request[r].status = "approved"
                                     THEN NSteps ELSE request[r].current

LEMMA ApprovalCounts == EngineInv => Counts
BY ApprovedCount, AllApprovedCount DEF Counts

LEMMA CommitRefines ==
    ASSUME EngineInv, EngineInv', NEW t \in Transactions, Commit(t),
           NEW r \in Requests, r = tx[t].r
    PROVE  Decision!DecisionNext
<1> DEFINE current == request[r].current
           outcome == tx[t].outcome
<1>1. /\ tx[t].pc = "commit"
      /\ completed' = [completed EXCEPT ![r] =
                          IF Finishes(t) THEN Append(@, outcome) ELSE @]
  BY DEF Commit
<1>2. /\ current \in Steps /\ outcome \in Outcome
      /\ request[r].status = "pending"
      /\ Finishes(t) <=> outcome # "approved" \/ current + 1 = NSteps
      /\ completed \in [Requests -> Seq(Outcome)]
  BY <1>1, TxTypes, Uncommitted DEF EngineInv, TypeOK, Request
<1>3. /\ request'[r].status = IF Finishes(t) THEN outcome ELSE "pending"
      /\ request'[r].current = IF Finishes(t) THEN current ELSE current + 1
      /\ \A s \in Requests \ {r} : request'[s] = request[s] /\ stepStatus'[s] = stepStatus[s]
  BY Committed
<1>4. Cardinality(Approved(r)) = current
  BY <1>2, ApprovedCount
<1> HIDE DEF current, outcome
<1>5. current \in Nat /\ current + 1 \in Nat /\ current < NSteps
  BY <1>2, StepsAre
<1>6. Cardinality(Approved(r)') = IF outcome = "approved" THEN current + 1 ELSE current
  <2>1. Counts'
    BY ApprovalCounts, PTL
  <2>2. Cardinality(Approved(r)') = IF request'[r].status = "approved"
                                      THEN NSteps ELSE request'[r].current
    BY <2>1 DEF Counts
  <2> QED
    BY <1>2, <1>3, <2>2
<1>7. \A s \in Requests \ {r} : Approved(s)' = Approved(s)
  BY <1>3 DEF Approved
<1>8. statusMap' = [statusMap EXCEPT ![r] = IF Finishes(t) THEN outcome ELSE "pending"]
  BY <1>2, <1>3 DEF statusMap
<1>9. approvalsMap' = [approvalsMap EXCEPT ![r] =
                         IF outcome = "approved" THEN @ + 1 ELSE @]
  <2>1. approvalsMap' = [s \in Requests |-> Cardinality(Approved(s)')]
    BY DEF approvalsMap
  <2>2. \A s \in Requests \ {r} : approvalsMap'[s] = approvalsMap[s]
    BY <1>7, <2>1 DEF approvalsMap
  <2>3. approvalsMap'[r] = IF outcome = "approved" THEN approvalsMap[r] + 1 ELSE approvalsMap[r]
    BY <1>2, <1>4, <1>6, <2>1 DEF approvalsMap, Approved
  <2> QED
    BY <1>2, <2>1, <2>2, <2>3 DEF approvalsMap
<1>10. statusMap[r] = "pending" /\ approvalsMap[r] = current
  BY <1>2, <1>4 DEF statusMap, approvalsMap
<1>11. CASE ~Finishes(t)
  <2>1. statusMap' = statusMap /\ completed' = completed
    BY <1>1, <1>2, <1>8, <1>10, <1>11 DEF statusMap
  <2>2. approvalsMap[r] + 1 < NSteps
    BY <1>2, <1>5, <1>10, <1>11, NStepsAssumption
  <2>3. approvalsMap' = [approvalsMap EXCEPT ![r] = @ + 1]
    BY <1>2, <1>9, <1>11
  <2>4. Decision!ApproveStep(r)
    BY <1>10, <2>1, <2>2, <2>3 DEF Decision!ApproveStep, statusMap, approvalsMap, Approved
  <2> QED
    BY <1>2, <2>4 DEF Decision!DecisionNext
<1>12. CASE Finishes(t)
  <2>1. /\ statusMap' = [statusMap EXCEPT ![r] = outcome]
        /\ completed' = [completed EXCEPT ![r] = Append(@, outcome)]
    BY <1>1, <1>8, <1>12
  <2>2. CASE outcome = "approved"
    <3>1. /\ approvalsMap[r] + 1 = NSteps
          /\ approvalsMap' = [approvalsMap EXCEPT ![r] = @ + 1]
      BY <1>2, <1>9, <1>10, <1>12, <2>2
    <3>2. Decision!ApproveLastStep(r)
      BY <1>10, <2>1, <2>2, <3>1
      DEF Decision!ApproveLastStep, Decision!Complete, statusMap, approvalsMap, Approved
    <3> QED
      BY <1>2, <3>2 DEF Decision!DecisionNext
  <2>3. CASE outcome # "approved"
    <3>1. approvalsMap' = approvalsMap
      BY <1>2, <1>9, <2>3 DEF approvalsMap
    <3>2. Decision!Reject(r) \/ Decision!Cancel(r)
      BY <1>2, <1>10, <2>1, <2>3, <3>1
      DEF Decision!Reject, Decision!Cancel, Decision!Complete, Outcome, statusMap, approvalsMap,
          Approved
    <3> QED
      BY <1>2, <3>2 DEF Decision!DecisionNext
  <2> QED
    BY <2>2, <2>3
<1> QED
  BY <1>11, <1>12

LEMMA InsertRefines ==
    ASSUME EngineInv, NEW t \in Transactions, InsertRequest(t),
           NEW r \in Requests, r = tx[t].r
    PROVE  Decision!DecisionNext
<1>1. /\ request[r].status = "none"
      /\ request' = [request EXCEPT ![r].status = "pending"]
      /\ UNCHANGED <<stepStatus, completed>>
      /\ request \in [Requests -> Request]
  BY TxTypes DEF InsertRequest, EngineInv, TypeOK
<1>2. statusMap' = [statusMap EXCEPT ![r] = "pending"] /\ statusMap[r] = "none"
  BY <1>1 DEF statusMap, Request
<1>3. approvalsMap' = approvalsMap
  BY <1>1 DEF approvalsMap, Approved
<1>4. Decision!Create(r)
  BY <1>1, <1>2, <1>3 DEF Decision!Create, statusMap, approvalsMap, Approved
<1> QED
  BY <1>1, <1>4 DEF Decision!DecisionNext

LEMMA StepRefines ==
    EngineInv /\ EngineInv' /\ [Next]_vars
      => [Decision!DecisionNext]_(Decision!decisionVars)
<1> SUFFICES ASSUME EngineInv, EngineInv', [Next]_vars
             PROVE  [Decision!DecisionNext]_(Decision!decisionVars)
  OBVIOUS
<1>1. CASE UNCHANGED tables
  BY <1>1 DEF tables, Decision!decisionVars
<1>2. CASE UNCHANGED vars
  BY <1>1, <1>2 DEF vars, tables
<1>3. CASE Next
  <2>1. PICK t \in Transactions :
          InsertRequest(t) \/ Commit(t) \/ UNCHANGED tables
    BY <1>3 DEF Next, LookUpSubject, BeginDecision, BeginCancel, UpdateStep, ReadPendingSteps,
                SkipPendingSteps, UpdateRequest, Rollback, tables
  <2>2. PICK r \in Requests : r = tx[t].r
    BY TxTypes DEF EngineInv
  <2> QED
    BY <1>1, <2>1, <2>2, InsertRefines, CommitRefines
<1> QED
  BY <1>2, <1>3

\* The engine keeps its promise: step by step to one final outcome, announced in
\* the step that makes it final, whatever transactions race or roll back.
THEOREM EngineImplementsDecision == Spec => ImplementsDecision
<1>1. Init => Decision!DecisionInit
  <2> SUFFICES ASSUME Init PROVE Decision!DecisionInit
    OBVIOUS
  <2>1. \A r \in Requests : {i \in Steps : stepStatus[r][i] = "approved"} = {}
    BY DEF Init
  <2>2. \A r \in Requests : Cardinality({i \in Steps : stepStatus[r][i] = "approved"}) = 0
    BY <2>1, FS_EmptySet
  <2> QED
    BY <2>2 DEF Init, Decision!DecisionInit
<1> QED
  BY <1>1, StepRefines, EngineInvariant, PTL
  DEF Spec, ImplementsDecision, Decision!DecisionSpec
-----------------------------------------------------------------------------
(***************************************************************************)
(* What the promise means to the engine's callers.                         *)
(***************************************************************************)

StatusOf == [r \in Requests |-> request[r].status]
ApprovalsOf == [r \in Requests |-> Cardinality({i \in Steps : stepStatus[r][i] = "approved"})]

\* Until a request is approved a step is missing, and nothing was announced.
PromiseInv ==
    /\ StatusOf \in [Requests -> {"none", "pending"} \cup Outcome]
    /\ ApprovalsOf \in [Requests -> Nat]
    /\ completed \in [Requests -> Seq(Outcome)]
    /\ \A r \in Requests :
          /\ completed[r] = IF StatusOf[r] \in Outcome THEN <<StatusOf[r]>> ELSE <<>>
          /\ IF StatusOf[r] = "approved" THEN ApprovalsOf[r] = NSteps
                                         ELSE ApprovalsOf[r] < NSteps

\* A step of ApprovalDecision on one request, spelled out.
LEMMA DecisionStep ==
    ASSUME NEW r \in Requests, PromiseInv,
           \/ Decision!Create(r) \/ Decision!ApproveStep(r) \/ Decision!ApproveLastStep(r)
           \/ Decision!Reject(r) \/ Decision!Cancel(r)
    PROVE  /\ StatusOf[r] \notin Outcome
           /\ \E s \in {"pending"} \cup Outcome, n \in {ApprovalsOf[r], ApprovalsOf[r] + 1} :
                 /\ StatusOf' = [StatusOf EXCEPT ![r] = s]
                 /\ ApprovalsOf' = [ApprovalsOf EXCEPT ![r] = n]
                 /\ completed' = [completed EXCEPT
                                     ![r] = IF s \in Outcome THEN <<s>> ELSE <<>>]
                 /\ IF s = "approved" THEN n = NSteps ELSE n < NSteps
<1>1. /\ StatusOf[r] \in {"none", "pending"} \cup Outcome /\ ApprovalsOf[r] \in Nat
      /\ StatusOf = [StatusOf EXCEPT ![r] = StatusOf[r]]
      /\ ApprovalsOf = [ApprovalsOf EXCEPT ![r] = ApprovalsOf[r]]
      /\ completed = [completed EXCEPT ![r] = completed[r]]
      /\ NSteps \in Nat \ {0}
      /\ StatusOf[r] \notin Outcome => ApprovalsOf[r] < NSteps /\ completed[r] = <<>>
  BY NStepsAssumption DEF PromiseInv, Outcome
<1>2. \A o \in Outcome : Append(<<>>, o) = <<o>>
  OBVIOUS
<1>3. CASE Decision!Create(r)
  <2>1. StatusOf[r] = "none" /\ StatusOf' = [StatusOf EXCEPT ![r] = "pending"]
        /\ ApprovalsOf' = ApprovalsOf /\ completed' = completed
    BY <1>3 DEF Decision!Create, StatusOf, ApprovalsOf
  <2> QED
    BY <1>1, <2>1 DEF Outcome
<1>4. CASE Decision!ApproveStep(r)
  <2>1. /\ StatusOf[r] = "pending" /\ ApprovalsOf[r] + 1 < NSteps
        /\ ApprovalsOf' = [ApprovalsOf EXCEPT ![r] = ApprovalsOf[r] + 1]
        /\ StatusOf' = StatusOf /\ completed' = completed
    BY <1>4 DEF Decision!ApproveStep, StatusOf, ApprovalsOf
  <2> QED
    BY <1>1, <2>1 DEF Outcome
<1>5. CASE Decision!ApproveLastStep(r)
  <2>1. /\ StatusOf[r] = "pending" /\ ApprovalsOf[r] + 1 = NSteps
        /\ ApprovalsOf' = [ApprovalsOf EXCEPT ![r] = ApprovalsOf[r] + 1]
        /\ StatusOf' = [StatusOf EXCEPT ![r] = "approved"]
        /\ completed' = [completed EXCEPT ![r] = Append(completed[r], "approved")]
    BY <1>5 DEF Decision!ApproveLastStep, Decision!Complete, StatusOf, ApprovalsOf
  <2> QED
    BY <1>1, <1>2, <2>1 DEF Outcome
<1>6. ASSUME NEW o \in {"rejected", "cancelled"}, StatusOf[r] = "pending",
             Decision!Complete(r, o), ApprovalsOf' = ApprovalsOf
      PROVE  /\ StatusOf' = [StatusOf EXCEPT ![r] = o]
             /\ ApprovalsOf' = [ApprovalsOf EXCEPT ![r] = ApprovalsOf[r]]
             /\ completed' = [completed EXCEPT ![r] = <<o>>]
             /\ o \in Outcome /\ o # "approved" /\ ApprovalsOf[r] < NSteps
  <2>1. /\ StatusOf' = [StatusOf EXCEPT ![r] = o]
        /\ completed' = [completed EXCEPT ![r] = Append(completed[r], o)]
    BY <1>6 DEF Decision!Complete, StatusOf
  <2> QED
    BY <1>1, <1>2, <1>6, <2>1 DEF Outcome
<1>7. CASE Decision!Reject(r)
  <2>1. StatusOf[r] = "pending" /\ Decision!Complete(r, "rejected") /\ ApprovalsOf' = ApprovalsOf
    BY <1>7 DEF Decision!Reject, StatusOf, ApprovalsOf
  <2> QED
    BY <1>6, <2>1 DEF Outcome
<1>8. CASE Decision!Cancel(r)
  <2>1. StatusOf[r] = "pending" /\ Decision!Complete(r, "cancelled") /\ ApprovalsOf' = ApprovalsOf
    BY <1>8 DEF Decision!Cancel, StatusOf, ApprovalsOf
  <2> QED
    BY <1>6, <2>1 DEF Outcome
<1> QED
  BY <1>3, <1>4, <1>5, <1>7, <1>8

LEMMA PromiseKept ==
    PromiseInv /\ [Decision!DecisionNext]_(Decision!decisionVars) => PromiseInv'
<1> SUFFICES ASSUME PromiseInv, [Decision!DecisionNext]_(Decision!decisionVars)
             PROVE  PromiseInv'
  OBVIOUS
<1>1. CASE UNCHANGED Decision!decisionVars
  <2>1. StatusOf' = StatusOf /\ ApprovalsOf' = ApprovalsOf /\ completed' = completed
    BY <1>1 DEF Decision!decisionVars, StatusOf, ApprovalsOf
  <2> QED
    BY <2>1 DEF PromiseInv
<1>2. CASE Decision!DecisionNext
  <2>1. PICK r \in Requests :
           \/ Decision!Create(r) \/ Decision!ApproveStep(r) \/ Decision!ApproveLastStep(r)
           \/ Decision!Reject(r) \/ Decision!Cancel(r)
    BY <1>2 DEF Decision!DecisionNext
  <2>2. PICK s \in {"pending"} \cup Outcome, n \in {ApprovalsOf[r], ApprovalsOf[r] + 1} :
           /\ StatusOf' = [StatusOf EXCEPT ![r] = s]
           /\ ApprovalsOf' = [ApprovalsOf EXCEPT ![r] = n]
           /\ completed' = [completed EXCEPT ![r] = IF s \in Outcome THEN <<s>> ELSE <<>>]
           /\ IF s = "approved" THEN n = NSteps ELSE n < NSteps
    BY <2>1, DecisionStep
  <2>3. n \in Nat /\ (IF s \in Outcome THEN <<s>> ELSE <<>>) \in Seq(Outcome)
    BY <2>2 DEF PromiseInv
  <2> QED
    BY <2>2, <2>3 DEF PromiseInv
<1> QED
  BY <1>1, <1>2

\* Whatever transactions race or roll back: the outcome of a request is
\* announced once, with the decision that makes it final; an approval took
\* every step of the policy; and nobody decides a request a second time
\* (decideStep, cancelRequest).
THEOREM EngineIsFinal ==
    Spec => /\ []Decision!OutcomesAreAnnounced
            /\ []Decision!ApprovalTakesEveryStep
            /\ Decision!FinalIsFinal
<1>1. Decision!DecisionInit => PromiseInv
  <2> SUFFICES ASSUME Decision!DecisionInit PROVE PromiseInv
    OBVIOUS
  <2>1. /\ StatusOf = [r \in Requests |-> "none"] /\ ApprovalsOf = [r \in Requests |-> 0]
        /\ completed = [r \in Requests |-> <<>>]
    BY DEF Decision!DecisionInit, StatusOf, ApprovalsOf
  <2> QED
    BY <2>1, NStepsAssumption DEF PromiseInv, Outcome
<1>2. PromiseInv => Decision!OutcomesAreAnnounced /\ Decision!ApprovalTakesEveryStep
  <2> SUFFICES ASSUME PromiseInv
               PROVE  Decision!OutcomesAreAnnounced /\ Decision!ApprovalTakesEveryStep
    OBVIOUS
  <2>1. \A r \in Requests : (StatusOf[r] = "approved") <=> (ApprovalsOf[r] = NSteps)
    BY NStepsAssumption DEF PromiseInv
  <2> QED
    BY <2>1 DEF PromiseInv, Decision!OutcomesAreAnnounced, Decision!ApprovalTakesEveryStep,
                Decision!Outcome, Outcome, StatusOf, ApprovalsOf
<1>3. PromiseInv /\ [Decision!DecisionNext]_(Decision!decisionVars)
        => [\A r \in Requests : StatusOf[r] \in Outcome =>
               UNCHANGED <<StatusOf[r], ApprovalsOf[r], completed[r]>>]_(Decision!decisionVars)
  <2> SUFFICES ASSUME PromiseInv, Decision!DecisionNext,
                      NEW r \in Requests, StatusOf[r] \in Outcome
               PROVE  UNCHANGED <<StatusOf[r], ApprovalsOf[r], completed[r]>>
    OBVIOUS
  <2>1. PICK q \in Requests :
           \/ Decision!Create(q) \/ Decision!ApproveStep(q) \/ Decision!ApproveLastStep(q)
           \/ Decision!Reject(q) \/ Decision!Cancel(q)
    BY DEF Decision!DecisionNext
  <2>2. q # r /\ \E s, n, a : /\ StatusOf' = [StatusOf EXCEPT ![q] = s]
                              /\ ApprovalsOf' = [ApprovalsOf EXCEPT ![q] = n]
                              /\ completed' = [completed EXCEPT ![q] = a]
    BY <2>1, DecisionStep
  <2> QED
    BY <2>2 DEF PromiseInv
<1>4. Spec => []PromiseInv /\ [][Decision!DecisionNext]_(Decision!decisionVars)
  BY <1>1, PromiseKept, EngineImplementsDecision, PTL
     DEF ImplementsDecision, Decision!DecisionSpec
<1>5. Spec => [][\A r \in Requests : StatusOf[r] \in Outcome =>
               UNCHANGED <<StatusOf[r], ApprovalsOf[r], completed[r]>>]_(Decision!decisionVars)
  BY <1>3, <1>4, PTL
<1> QED
  BY <1>2, <1>4, <1>5, PTL
     DEF Decision!FinalIsFinal, StatusOf, ApprovalsOf, Outcome, Decision!Outcome
=============================================================================
