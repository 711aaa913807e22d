---------------------------- MODULE EventOutbox ----------------------------
(***************************************************************************)
(* The transactional event outbox of apps/api/src/core/events: the table   *)
(* event_outbox, the workers that run EventOutboxDispatcherService         *)
(* .dispatchBatch over it and the operator's dead-letter commands.         *)
(*                                                                         *)
(* A worker is one running call of dispatchBatch: the one-second timer of  *)
(* an API instance, or a use case that calls dispatchOnce() itself.  Every *)
(* SQL statement is one atomic step; whatever two awaits separate is two   *)
(* steps.  Instants are abstracted to what the statements compare: a lease *)
(* is absent, running or expired, and a row is due or backing off.         *)
(***************************************************************************)
EXTENDS Naturals, FiniteSets

CONSTANTS
    Events,         \* outbox row ids, in the order of created_at
    Workers,        \* concurrent runs of dispatchBatch, over all instances
    Types,          \* event types
    TypeOf,         \* the type of each event
    MaxAttempts,    \* event_outbox.max_attempts (12 by default)
    ClaimLimit,     \* rows claimed by one run (25 by default)
    MaxPerType,     \* OUTBOX_MAX_CONCURRENT_PER_TYPE
    MaxReplays,     \* bound on the operator's replay commands
    SlowWorkers,    \* may a lease run out under a worker that is still alive?
    OverlappingOperators   \* may a replay run between discard's two statements?

ASSUME EventsAssumption == Events \subseteq Nat \ {0} /\ IsFiniteSet(Events)
ASSUME TypesAssumption == TypeOf \in [Events -> Types]
ASSUME BoundsAssumption ==
    /\ MaxAttempts \in Nat \ {0}
    /\ ClaimLimit \in Nat \ {0}
    /\ MaxPerType \in Nat \ {0}
    /\ MaxReplays \in Nat
ASSUME EnvironmentAssumption ==
    SlowWorkers \in BOOLEAN /\ OverlappingOperators \in BOOLEAN

VARIABLES
    stored,      \* ids of the rows the table holds
    row,         \* the columns of each row
    step,        \* where each worker is in dispatchBatch
    batch,       \* the claimed copies a worker has not processed yet
    cur,         \* the claimed copy it is processing
    seen,        \* its per-type count (the throttle's map)
    discarding,  \* discard commands between their check and their write
    replays,     \* replay commands run so far
    staged,      \* history: ids ever committed to the outbox
    sent,        \* history: ids appended to the event bus at least once
    dropped      \* history: ids discarded and not replayed by id since

workerVars == <<step, batch, cur, seen>>
vars == <<stored, row, step, batch, cur, seen, discarding, replays,
          staged, sent, dropped>>

-----------------------------------------------------------------------------

Row == [published : BOOLEAN,    \* published_at IS NOT NULL
        failed    : BOOLEAN,    \* failed_at IS NOT NULL: the dead letters
        discarded : BOOLEAN,    \* last_error LIKE 'discarded%'
        attempts  : Nat,        \* attempt_count
        lease     : {"none", "running", "expired"},   \* lease_until
        due       : BOOLEAN]    \* next_attempt_at <= now()

Copy == [id : Events, attempts : Nat]     \* a ClaimedOutboxRow in memory
NoCopy == [id |-> 0, attempts |-> 0]

Step == {"idle", "recovered", "row", "sent", "counted", "broken", "poisoned"}
Discard == [id : Events, permanent : BOOLEAN]

TypeOK ==
    /\ stored \subseteq Events
    /\ row \in [Events -> Row]
    /\ step \in [Workers -> Step]
    /\ batch \in [Workers -> SUBSET Copy]
    /\ cur \in [Workers -> Copy \cup {NoCopy}]
    /\ seen \in [Workers -> [Types -> Nat]]
    /\ discarding \subseteq Discard
    /\ replays \in Nat
    /\ staged \subseteq Events
    /\ sent \subseteq Events
    /\ dropped \subseteq Events

FreshRow == [published |-> FALSE, failed |-> FALSE, discarded |-> FALSE,
             attempts |-> 0, lease |-> "none", due |-> TRUE]

Init ==
    /\ stored = {}
    /\ row = [e \in Events |-> FreshRow]
    /\ step = [w \in Workers |-> "idle"]
    /\ batch = [w \in Workers |-> {}]
    /\ cur = [w \in Workers |-> NoCopy]
    /\ seen = [w \in Workers |-> [t \in Types |-> 0]]
    /\ discarding = {}
    /\ replays = 0
    /\ staged = {}
    /\ sent = {}
    /\ dropped = {}

\* The rows a live worker has claimed and not finished with.
Holding(w) == {c.id : c \in batch[w]}
                 \cup (IF cur[w] = NoCopy THEN {} ELSE {cur[w].id})

-----------------------------------------------------------------------------
(***************************************************************************)
(* Producers and time.                                                     *)
(***************************************************************************)

\* EventOutboxService.stage inside a domain transaction that commits.
Stage(e) ==
    /\ e \notin staged
    /\ stored' = stored \cup {e}
    /\ staged' = staged \cup {e}
    /\ UNCHANGED <<row, workerVars, discarding, replays, sent, dropped>>

\* The lease of a row runs out: thirty seconds for the whole batch.
LeaseExpires(e) ==
    /\ e \in stored
    /\ row[e].lease = "running"
    /\ SlowWorkers \/ \A w \in Workers : e \notin Holding(w)
    /\ row' = [row EXCEPT ![e].lease = "expired"]
    /\ UNCHANGED <<stored, workerVars, discarding, replays, staged, sent, dropped>>

\* next_attempt_at of a row that backs off is reached.
BackoffEnds(e) ==
    /\ e \in stored
    /\ ~row[e].due
    /\ row' = [row EXCEPT ![e].due = TRUE]
    /\ UNCHANGED <<stored, workerVars, discarding, replays, staged, sent, dropped>>

-----------------------------------------------------------------------------
(***************************************************************************)
(* One run of dispatchBatch.                                               *)
(***************************************************************************)

Expired(e) == /\ e \in stored
              /\ ~row[e].published
              /\ ~row[e].failed
              /\ row[e].lease = "expired"

Recovered_NoDeadLetter(r) ==
    [r EXCEPT !.attempts = @ + 1, !.lease = "none", !.discarded = FALSE,
              !.due = FALSE]

\* recoverExpiredLeases charges an attempt for every expired lease and dead-
\* letters the rows that have none left.
Recovered(r) ==
    [r EXCEPT !.attempts = @ + 1,
              !.lease = "none",
              !.discarded = FALSE,
              !.failed = r.attempts + 1 >= MaxAttempts,
              !.due = r.attempts + 1 >= MaxAttempts]

RecoverExpiredLeases(w) ==
    /\ step[w] = "idle"
    /\ row' = [e \in Events |-> IF Expired(e) THEN Recovered(row[e]) ELSE row[e]]
    /\ step' = [step EXCEPT ![w] = "recovered"]
    /\ UNCHANGED <<stored, batch, cur, seen, discarding, replays, staged, sent, dropped>>

Claimable_IgnoresLease(e) ==
    e \in stored /\ ~row[e].published /\ ~row[e].failed /\ row[e].due
       /\ row[e].attempts < MaxAttempts

Claimable_DeadLetters(e) ==
    e \in stored /\ ~row[e].published /\ row[e].due /\ row[e].lease # "running"

Claimable(e) == /\ e \in stored
                /\ ~row[e].published
                /\ ~row[e].failed
                /\ row[e].due
                /\ row[e].attempts < MaxAttempts
                /\ row[e].lease # "running"

\* ORDER BY created_at LIMIT n.
Oldest == {e \in Events : /\ Claimable(e)
                          /\ Cardinality({f \in Events : f < e /\ Claimable(f)})
                                < ClaimLimit}

\* claimUnpublished.  The run ends at once when nothing is due.
ClaimUnpublished(w) ==
    /\ step[w] = "recovered"
    /\ row' = [e \in Events |->
                 IF e \in Oldest THEN [row[e] EXCEPT !.lease = "running"] ELSE row[e]]
    /\ batch' = [batch EXCEPT
                   ![w] = {[id |-> e, attempts |-> row[e].attempts] : e \in Oldest}]
    /\ seen' = [seen EXCEPT ![w] = [t \in Types |-> 0]]
    /\ step' = [step EXCEPT ![w] = "row"]
    /\ UNCHANGED <<stored, cur, discarding, replays, staged, sent, dropped>>

\* Takes a copy off the batch; UPDATE ... RETURNING gives no order.
Take(w, c) ==
    /\ step[w] = "row"
    /\ c \in batch[w]
    /\ batch' = [batch EXCEPT ![w] = @ \ {c}]
    /\ seen' = [seen EXCEPT ![w][TypeOf[c.id]] = @ + 1]

Throttled(w, c) == seen[w][TypeOf[c.id]] >= MaxPerType

\* A throttled row goes back with its attempts untouched (releaseLease).
ReleaseLease(w) ==
    /\ \E c \in batch[w] :
          /\ Throttled(w, c)
          /\ Take(w, c)
          /\ row' = [row EXCEPT ![c.id] =
                        IF c.id \in stored THEN [@ EXCEPT !.lease = "none"] ELSE @]
    /\ UNCHANGED <<stored, step, cur, discarding, replays, staged, sent, dropped>>

\* The event bus accepted the envelope.
Publish(w) ==
    /\ \E c \in batch[w] :
          /\ ~Throttled(w, c)
          /\ Take(w, c)
          /\ cur' = [cur EXCEPT ![w] = c]
          /\ sent' = sent \cup {c.id}
    /\ step' = [step EXCEPT ![w] = "sent"]
    /\ UNCHANGED <<stored, row, discarding, replays, staged, dropped>>

\* publish() threw, with a retryable error or one isPermanentError recognises.
\* The envelope may be on the bus all the same: XADD applied and its reply
\* lost, or some of the in-process handlers run before one threw.
PublishFails(w) ==
    /\ \E c \in batch[w] :
          /\ ~Throttled(w, c)
          /\ Take(w, c)
          /\ cur' = [cur EXCEPT ![w] = c]
          /\ sent' \in {sent, sent \cup {c.id}}
    /\ \E s \in {"broken", "poisoned"} : step' = [step EXCEPT ![w] = s]
    /\ UNCHANGED <<stored, row, discarding, replays, staged, dropped>>

\* Writes columns of the row being processed, by id alone; a row that has
\* been deleted meanwhile matches nothing.
WriteRow(w, new) ==
    row' = [row EXCEPT ![cur[w].id] = IF cur[w].id \in stored THEN new ELSE @]

RecordAttempt_MarksFirst(w) ==
    /\ step[w] = "sent"
    /\ WriteRow(w, [row[cur[w].id] EXCEPT !.attempts = @ + 1, !.published = TRUE,
                                          !.lease = "none"])
    /\ step' = [step EXCEPT ![w] = "counted"]
    /\ UNCHANGED <<stored, batch, cur, seen, discarding, replays, staged, sent, dropped>>

\* recordAttempt: attempt_count + 1, by id alone.
RecordAttempt(w) ==
    /\ step[w] = "sent"
    /\ WriteRow(w, [row[cur[w].id] EXCEPT !.attempts = @ + 1])
    /\ step' = [step EXCEPT ![w] = "counted"]
    /\ UNCHANGED <<stored, batch, cur, seen, discarding, replays, staged, sent, dropped>>

Finish(w) == /\ cur' = [cur EXCEPT ![w] = NoCopy]
             /\ step' = [step EXCEPT ![w] = "row"]

MarkPublished(w) ==
    /\ step[w] = "counted"
    /\ WriteRow(w, [row[cur[w].id] EXCEPT !.published = TRUE, !.lease = "none",
                                          !.failed = FALSE, !.discarded = FALSE])
    /\ Finish(w)
    /\ UNCHANGED <<stored, batch, seen, discarding, replays, staged, sent, dropped>>

\* recordAttempt or markPublished threw after the envelope went out: the catch
\* block of publishStagedRow treats it like a failed publish.
BookkeepingFails(w) ==
    /\ step[w] \in {"sent", "counted"}
    /\ \E s \in {"broken", "poisoned"} : step' = [step EXCEPT ![w] = s]
    /\ UNCHANGED <<stored, row, batch, cur, seen, discarding, replays, staged, sent, dropped>>

\* recordFailure writes attempt_count from the claimed copy, not from the row.
Failed(r, attempts) ==
    [r EXCEPT !.attempts = attempts,
              !.lease = "none",
              !.discarded = FALSE,
              !.failed = attempts >= MaxAttempts,
              !.due = attempts >= MaxAttempts]

RecordFailure(w) ==
    /\ step[w] = "broken"
    /\ WriteRow(w, Failed(row[cur[w].id], cur[w].attempts + 1))
    /\ Finish(w)
    /\ UNCHANGED <<stored, batch, seen, discarding, replays, staged, sent, dropped>>

RecordPermanentFailure(w) ==
    /\ step[w] = "poisoned"
    /\ WriteRow(w, [row[cur[w].id] EXCEPT !.attempts = MaxAttempts, !.lease = "none",
                                          !.failed = TRUE, !.discarded = FALSE])
    /\ Finish(w)
    /\ UNCHANGED <<stored, batch, seen, discarding, replays, staged, sent, dropped>>

\* The write in the catch block fails too: dispatchRow logs it and goes on to
\* the next row, and this one keeps its lease.
RecordingFails(w) ==
    /\ step[w] \in {"broken", "poisoned"}
    /\ Finish(w)
    /\ UNCHANGED <<stored, row, batch, seen, discarding, replays, staged, sent, dropped>>

GoIdle(w) ==
    /\ step' = [step EXCEPT ![w] = "idle"]
    /\ batch' = [batch EXCEPT ![w] = {}]
    /\ cur' = [cur EXCEPT ![w] = NoCopy]
    /\ seen' = [seen EXCEPT ![w] = [t \in Types |-> 0]]
    /\ UNCHANGED <<stored, row, discarding, replays, staged, sent, dropped>>

EndBatch(w) == step[w] = "row" /\ batch[w] = {} /\ GoIdle(w)

\* The instance crashes, or a statement outside dispatchRow throws and
\* runScheduledDispatch gives the whole batch up.
Abandon(w) == step[w] # "idle" /\ GoIdle(w)

-----------------------------------------------------------------------------
(***************************************************************************)
(* The operator's dead-letter commands.                                    *)
(***************************************************************************)

IsDeadLetter(e) == e \in stored /\ row[e].failed

\* replayDeadLetter and replayAllDeadLetters reset the columns alike.
CanReplay == /\ replays < MaxReplays
             /\ OverlappingOperators \/ discarding = {}

ReplayDeadLetter(e) ==
    /\ CanReplay
    /\ IsDeadLetter(e)
    /\ row' = [row EXCEPT ![e] = FreshRow]
    /\ replays' = replays + 1
    /\ dropped' = dropped \ {e}
    /\ UNCHANGED <<stored, workerVars, discarding, staged, sent>>

ReplayableInBulk_All(e) == IsDeadLetter(e)

ReplayableInBulk(e) == IsDeadLetter(e) /\ ~row[e].discarded

ReplayAllDeadLetters ==
    /\ CanReplay
    /\ \E e \in Events : ReplayableInBulk(e)
    /\ row' = [e \in Events |-> IF ReplayableInBulk(e) THEN FreshRow ELSE row[e]]
    /\ replays' = replays + 1
    /\ UNCHANGED <<stored, workerVars, discarding, staged, sent, dropped>>

\* discardDeadLetter first looks the dead letter up ...
BeginDiscard(e, permanent) ==
    /\ IsDeadLetter(e)
    /\ discarding' = discarding \cup {[id |-> e, permanent |-> permanent]}
    /\ UNCHANGED <<stored, row, workerVars, replays, staged, sent, dropped>>

\* ... and then deletes or marks the row by id, whatever has become of it.
FinishDiscard(d) ==
    /\ d \in discarding
    /\ discarding' = discarding \ {d}
    /\ stored' = IF d.permanent THEN stored \ {d.id} ELSE stored
    /\ row' = IF d.permanent \/ d.id \notin stored
                THEN [row EXCEPT ![d.id] = FreshRow]    \* no row any more
                ELSE [row EXCEPT ![d.id].discarded = TRUE, ![d.id].lease = "none"]
    /\ dropped' = dropped \cup {d.id}
    /\ UNCHANGED <<workerVars, replays, staged, sent>>

-----------------------------------------------------------------------------

WorkerStep(w) ==
    \/ RecoverExpiredLeases(w) \/ ClaimUnpublished(w)
    \/ ReleaseLease(w) \/ Publish(w) \/ PublishFails(w)
    \/ RecordAttempt(w) \/ MarkPublished(w) \/ BookkeepingFails(w)
    \/ RecordFailure(w) \/ RecordPermanentFailure(w) \/ RecordingFails(w)
    \/ EndBatch(w)

Time == \E e \in Events : LeaseExpires(e) \/ BackoffEnds(e)

Operator ==
    \/ \E e \in Events : ReplayDeadLetter(e)
    \/ ReplayAllDeadLetters
    \/ \E e \in Events, permanent \in BOOLEAN : BeginDiscard(e, permanent)
    \/ \E d \in discarding : FinishDiscard(d)

Next ==
    \/ \E e \in Events : Stage(e)
    \/ Time
    \/ \E w \in Workers : WorkerStep(w) \/ Abandon(w)
    \/ Operator

Spec == Init /\ [][Next]_vars

\* The timer reschedules itself after every run (runScheduledDispatch), so each
\* worker keeps stepping; time passes.  Neither the bus nor the database is
\* assumed to work: every failure branch stays open for ever.
Fairness ==
    /\ \A w \in Workers : WF_vars(WorkerStep(w))
    /\ \A e \in Events : WF_vars(LeaseExpires(e)) /\ WF_vars(BackoffEnds(e))

FairSpec == Spec /\ Fairness

-----------------------------------------------------------------------------
(***************************************************************************)
(* Properties of every environment.                                        *)
(***************************************************************************)

\* At least once: an event that has not reached the bus is never marked
\* published and never left where neither the claim nor the dead-letter
\* listing finds it, whatever stale workers and operators write over the row.
UnsentIsRecoverable ==
    \A e \in stored \ sent :
        /\ ~row[e].published
        /\ row[e].failed \/ row[e].attempts < MaxAttempts

\* What the liveness properties assume.  Crashes cease.  And leases do not for
\* ever expire in the instant between recoverExpiredLeases, which charges an
\* attempt for an expired lease, and claimUnpublished, which takes the row and
\* charges none.
CrashesCease == <>[][\A w \in Workers : Abandon(w) => EndBatch(w)]_vars

LeasesMissTheGap ==
    <>[][ (\E w \in Workers : step[w] = "recovered")
             => ~\E e \in Events : row[e].lease = "running" /\ row'[e].lease = "expired"
        ]_vars

\* The inductive form: the bookkeeping that counts an attempt or marks a row
\* published only follows an envelope that is on the bus, and an id without a
\* row has the columns an insert gives it.
BookkeepingFollowsSend ==
    \A w \in Workers :
        /\ step[w] \in {"sent", "counted"} => cur[w].id \in sent
        /\ step[w] \in {"sent", "counted", "broken", "poisoned"} => cur[w] \in Copy

UnstoredIsFresh ==
    /\ stored \subseteq staged
    /\ \A e \in Events \ stored : row[e] = FreshRow

OutboxInv == TypeOK /\ UnsentIsRecoverable /\ BookkeepingFollowsSend /\ UnstoredIsFresh

\* The outbox keeps what EventDelivery promises: it owes the rows that are
\* neither published nor dead letters.
Owed == {e \in stored : ~row[e].published /\ ~row[e].failed}

Delivery == INSTANCE EventDelivery
              WITH Orderly <- ~SlowWorkers /\ ~OverlappingOperators, accepted <- staged,
                   owed <- Owed, delivered <- sent, parked <- {e \in stored : row[e].failed},
                   discarded <- staged \ stored

ImplementsDelivery == Delivery!DeliverySpec

\* Every staged event reaches the bus, the dead letters or an operator's
\* discard, although the bus and the database may fail at every attempt.
EveryEventSettles ==
    CrashesCease /\ LeasesMissTheGap =>
        \A e \in Events : e \in staged ~> \/ e \in sent
                                          \/ IsDeadLetter(e)
                                          \/ e \notin stored

-----------------------------------------------------------------------------
(***************************************************************************)
(* Properties that need leases longer than a batch and operators that wait *)
(* for each other (~SlowWorkers, ~OverlappingOperators): no statement after*)
(* the claim checks who holds the lease.                                   *)
(***************************************************************************)

\* A lease excludes: two workers never hold the same row.
OneWorkerPerRow ==
    \A v, w \in Workers : v # w => Holding(v) \cap Holding(w) = {}

\* The dead letters hold no published event, so a replay never resends one
\* whose publication was recorded.
PublishedIsNotDeadLetter ==
    \A e \in stored : ~(row[e].published /\ row[e].failed)

\* What an operator discarded stays marked, so "replay all" passes it over.
DiscardedStaysDiscarded ==
    \A e \in dropped \cap stored : row[e].failed /\ row[e].discarded

\* Exhausted and permanent failures are terminal: a dead letter leaves the
\* list only by a replay or by deletion.
DeadLetterIsTerminal ==
    [][\A e \in Events : IsDeadLetter(e) =>
            \/ IsDeadLetter(e)'
            \/ replays' > replays
            \/ e \notin stored']_vars

\* Every row ends published, dead-lettered or deleted: none is left in the
\* table where no worker will look again.
EveryRowSettles ==
    CrashesCease /\ LeasesMissTheGap =>
        \A e \in Events : e \in staged ~> \/ row[e].published
                                          \/ row[e].failed
                                          \/ e \notin stored
=============================================================================
