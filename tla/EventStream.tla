---------------------------- MODULE EventStream ----------------------------
(***************************************************************************)
(* The Redis stream that carries published events to their handlers:       *)
(* core/events/redis-durable-event-bus.service.ts.  Every API instance is  *)
(* a consumer of one consumer group and runs consumeLoop: now and then it  *)
(* claims entries that have been pending for long, then it reads new ones, *)
(* and it runs all handlers of an entry in turn before it acknowledges it. *)
(*                                                                         *)
(* Every Redis command is one atomic step.  Idle times are abstracted to   *)
(* whether they have reached reclaimIdleMs.  Who owns a pending entry is   *)
(* not kept: XPENDING lists the entries of all consumers and XACK does not *)
(* ask whose they are.                                                     *)
(***************************************************************************)
EXTENDS Naturals, FiniteSets

CONSTANTS
    MaxEntries,      \* bound on the entries published
    Consumers,       \* API instances
    NHandlers,       \* handlers registered for the event type
    MaxRetries,      \* EVENT_BUS_MAX_RETRIES (5)
    ReadCount,       \* COUNT of XREADGROUP (20)
    ReclaimCount,    \* EVENT_BUS_RECLAIM_COUNT (20)
    MaxFailures,     \* bound on crashes and failing Redis commands
    MaxOverruns      \* bound on the overruns, see GoesIdle

ASSUME BoundsAssumption ==
    /\ {MaxEntries, MaxFailures, MaxOverruns} \subseteq Nat
    /\ {NHandlers, MaxRetries, ReadCount, ReclaimCount} \subseteq Nat \ {0}

VARIABLES
    length,      \* entries 1 .. length are in the stream
    lastRead,    \* the group's last-delivered-id
    pending,     \* the group's pending entries
    idle,        \* those that have been idle for reclaimIdleMs
    deliveries,  \* delivery count of each entry
    consumer,    \* where each consumer is in consumeLoop
    deadLetters, \* copies of each entry in the dead-letter stream
    done,        \* history: handlers that have returned for each entry
    failures,    \* crashes and failed commands so far
    overruns     \* entries that went idle in a consumer's hands so far

entryVars == <<length, lastRead, pending, idle, deliveries>>
vars == <<entryVars, consumer, deadLetters, done, failures, overruns>>

-----------------------------------------------------------------------------

Entries == 1 .. MaxEntries
HandlerIds == 1 .. NHandlers

\* An entry a consumer has to process, with the attempts it believes in.
Work == [id : Entries, attempts : Nat]

AtTop == [pc |-> "top", listed |-> {}, queue |-> {}, then |-> "top"]

Consumer == [pc : {"top", "claim", "read", "handle", "ack", "move", "drop"},
             listed : SUBSET Work,     \* what XPENDING returned
             queue : SUBSET Work,      \* the entries being processed
             then : {"top", "read"}]   \* where the loop goes on

TypeOK ==
    /\ length \in 0 .. MaxEntries /\ lastRead \in 0 .. length
    /\ idle \subseteq pending /\ pending \subseteq 1 .. lastRead
    /\ deliveries \in [Entries -> Nat]
    /\ consumer \in [Consumers -> Consumer]
    /\ deadLetters \in [Entries -> Nat]
    /\ done \in [Entries -> SUBSET HandlerIds]
    /\ failures \in 0 .. MaxFailures
    /\ overruns \in 0 .. MaxOverruns

Init ==
    /\ length = 0 /\ lastRead = 0
    /\ pending = {} /\ idle = {}
    /\ deliveries = [e \in Entries |-> 0]
    /\ consumer = [c \in Consumers |-> AtTop]
    /\ deadLetters = [e \in Entries |-> 0]
    /\ done = [e \in Entries |-> {}]
    /\ failures = 0 /\ overruns = 0

\* The entries a consumer has in memory.
Holding(c) == {w.id : w \in consumer[c].listed \cup consumer[c].queue}

-----------------------------------------------------------------------------
(***************************************************************************)
(* Publishing and time.                                                    *)
(***************************************************************************)

Publish ==
    /\ length < MaxEntries
    /\ length' = length + 1
    /\ UNCHANGED <<lastRead, pending, idle, deliveries, consumer,
                   deadLetters, done, failures, overruns>>

\* A pending entry reaches reclaimIdleMs: nobody has it, or it has been held
\* that long by an instance that is slow with it or with those before it.
GoesIdle(e) ==
    /\ e \in pending \ idle
    /\ idle' = idle \cup {e}
    /\ IF \A c \in Consumers : e \notin Holding(c)
         THEN UNCHANGED overruns
         ELSE overruns < MaxOverruns /\ overruns' = overruns + 1
    /\ UNCHANGED <<length, lastRead, pending, deliveries, consumer,
                   deadLetters, done, failures>>

-----------------------------------------------------------------------------
(***************************************************************************)
(* reclaimPendingMessages.                                                 *)
(***************************************************************************)

\* Less than reclaimIdleMs have passed since the last time.
SkipReclaim(c) ==
    /\ consumer[c].pc = "top"
    /\ consumer' = [consumer EXCEPT ![c].pc = "read"]
    /\ UNCHANGED <<entryVars, deadLetters, done, failures, overruns>>

OldestPending_ButFirst == {e \in pending : Cardinality({f \in pending : f < e}) \in
                                            1 .. ReclaimCount}

\* XPENDING lists the first entries of the group, idle or not.
OldestPending == {e \in pending : Cardinality({f \in pending : f < e}) < ReclaimCount}

ListPending(c) ==
    LET stale == OldestPending \cap idle IN
    /\ consumer[c].pc = "top"
    /\ consumer' = [consumer EXCEPT
          ![c].pc = IF stale = {} THEN "read" ELSE "claim",
          ![c].listed = {[id |-> e, attempts |-> deliveries[e]] : e \in stale}]
    /\ UNCHANGED <<entryVars, deadLetters, done, failures, overruns>>

\* Processes work, one entry after the other, and then goes on at pc.
Process(c, work, pc) ==
    consumer' = [consumer EXCEPT ![c] =
        IF work = {} THEN [AtTop EXCEPT !.pc = pc]
        ELSE [AtTop EXCEPT !.pc = "handle", !.queue = work, !.then = pc]]

Claimable_Listed(w) == w.id \in pending

\* XCLAIM's min-idle-time.
Claimable(w) == w.id \in idle

\* The attempts of a claimed entry are those XPENDING saw.
AttemptsOf(w) == w.attempts

\* XCLAIM takes over what is still idle and counts a delivery.
ClaimIdle(c) ==
    LET claimed == {w \in consumer[c].listed : Claimable(w)}
        ids == {w.id : w \in claimed}
    IN  /\ consumer[c].pc = "claim"
        /\ idle' = idle \ ids
        /\ deliveries' = [e \in Entries |->
                             IF e \in ids THEN deliveries[e] + 1 ELSE deliveries[e]]
        /\ Process(c, {[w EXCEPT !.attempts = AttemptsOf(w)] : w \in claimed}, "read")
        /\ UNCHANGED <<length, lastRead, pending, deadLetters, done, failures, overruns>>

-----------------------------------------------------------------------------
(***************************************************************************)
(* XREADGROUP and processStreamEntry.                                      *)
(***************************************************************************)

LastNew == IF lastRead + ReadCount < length THEN lastRead + ReadCount ELSE length

\* ">": what the group has not read yet.
NewEntries == lastRead + 1 .. LastNew

\* New entries become pending, each delivered once; none after BLOCK ms.
ReadNew(c) ==
    /\ consumer[c].pc = "read"
    /\ lastRead' = LastNew
    /\ pending' = pending \cup NewEntries
    /\ deliveries' = [e \in Entries |-> IF e \in NewEntries THEN 1 ELSE deliveries[e]]
    /\ Process(c, {[id |-> e, attempts |-> 1] : e \in NewEntries}, "top")
    /\ UNCHANGED <<length, idle, deadLetters, done, failures, overruns>>

\* The entry being processed: batches are in the order of the ids.
Current(c) == {w \in consumer[c].queue : \A v \in consumer[c].queue : w.id <= v.id}

NextEntry(c, w) ==
    consumer' = [consumer EXCEPT ![c] =
        IF consumer[c].queue = {w} THEN [AtTop EXCEPT !.pc = consumer[c].then]
        ELSE [consumer[c] EXCEPT !.pc = "handle", !.queue = @ \ {w}]]

GivesUp_OneLate(w) == w.attempts > MaxRetries
GivesUp_OneEarly(w) == w.attempts + 1 >= MaxRetries

GivesUp(w) == w.attempts >= MaxRetries

\* The catch block: the entry stays pending, or is given up.
Catch(c, w) == IF GivesUp(w) THEN consumer' = [consumer EXCEPT ![c].pc = "move"]
                             ELSE NextEntry(c, w)

AllReturned_FirstDid(k) == k >= 1

AllReturned(k) == k = NHandlers

\* dispatch awaits the handlers in turn; all return, or one, or the validation
\* before the first, throws.  (Nothing but "done" sees how far it has come, so
\* it is one step.)
Dispatch(c) ==
    /\ consumer[c].pc = "handle"
    /\ \E w \in Current(c), k \in 0 .. NHandlers :
          /\ done' = [done EXCEPT ![w.id] = @ \cup 1 .. k]
          /\ IF AllReturned(k) THEN consumer' = [consumer EXCEPT ![c].pc = "ack"]
                               ELSE Catch(c, w)
    /\ UNCHANGED <<entryVars, deadLetters, failures, overruns>>

\* XACK, of whoever's entry.
Acknowledge(e) == pending' = pending \ {e} /\ idle' = idle \ {e}

Ack(c) ==
    /\ consumer[c].pc = "ack"
    /\ \E w \in Current(c) : Acknowledge(w.id) /\ NextEntry(c, w)
    /\ UNCHANGED <<length, lastRead, deliveries, deadLetters, done, failures, overruns>>

\* XACK throws, applied or not, and is caught like a failing handler.
AckFails(c) ==
    /\ consumer[c].pc = "ack"
    /\ failures < MaxFailures
    /\ failures' = failures + 1
    /\ \E w \in Current(c) :
          /\ Acknowledge(w.id) \/ UNCHANGED <<pending, idle>>
          /\ Catch(c, w)
    /\ UNCHANGED <<length, lastRead, deliveries, deadLetters, done, overruns>>

\* moveToDlq copies the entry ...
MoveToDlq(c) ==
    /\ consumer[c].pc = "move"
    /\ \E w \in Current(c) : deadLetters' = [deadLetters EXCEPT ![w.id] = @ + 1]
    /\ consumer' = [consumer EXCEPT ![c].pc = "drop"]
    /\ UNCHANGED <<entryVars, done, failures, overruns>>

\* ... and then acknowledges it.
DropMoved(c) ==
    /\ consumer[c].pc = "drop"
    /\ \E w \in Current(c) : Acknowledge(w.id) /\ NextEntry(c, w)
    /\ UNCHANGED <<length, lastRead, deliveries, deadLetters, done, failures, overruns>>

\* The instance crashes and comes back, some handlers further if it was in
\* dispatch; or a Redis command throws outside processStreamEntry's try.
\* consumeLoop starts over and the rest of the batch stays pending.
StartOver(c) ==
    /\ consumer[c].pc # "top"
    /\ failures < MaxFailures
    /\ failures' = failures + 1
    /\ consumer' = [consumer EXCEPT ![c] = AtTop]
    /\ \/ done' = done
       \/ /\ consumer[c].pc = "handle"
          /\ \E w \in Current(c), k \in HandlerIds :
                done' = [done EXCEPT ![w.id] = @ \cup 1 .. k]
    /\ UNCHANGED <<entryVars, deadLetters, overruns>>

-----------------------------------------------------------------------------

ConsumerStep(c) ==
    \/ SkipReclaim(c) \/ ListPending(c) \/ ClaimIdle(c) \/ ReadNew(c)
    \/ Dispatch(c) \/ Ack(c) \/ MoveToDlq(c) \/ DropMoved(c)

Next ==
    \/ Publish
    \/ \E e \in Entries : GoesIdle(e)
    \/ \E c \in Consumers : ConsumerStep(c) \/ AckFails(c) \/ StartOver(c)

Spec == Init /\ [][Next]_vars

\* consumeLoop runs for ever, and lets reclaimPendingMessages look whenever
\* reclaimIdleMs have passed; entries that are left alone grow idle.  Handlers
\* may throw every time.
Fairness ==
    /\ \A c \in Consumers : WF_vars(ConsumerStep(c)) /\ SF_vars(ListPending(c))
    /\ \A e \in Entries : WF_vars(GoesIdle(e))

FairSpec == Spec /\ Fairness

-----------------------------------------------------------------------------
(***************************************************************************)
(* Properties.                                                             *)
(***************************************************************************)

\* At least once: an entry is yet to be read, pending, handled by every
\* handler or in the dead letters, whoever acknowledges it and dies when.
NoEntryIsLost ==
    \A e \in 1 .. length : \/ e > lastRead
                           \/ e \in pending
                           \/ done[e] = HandlerIds
                           \/ deadLetters[e] > 0

\* The stream keeps what EventDelivery promises: it owes the entries that the
\* group has not acknowledged, and nobody replays or deletes one.
Unacknowledged == pending \cup lastRead + 1 .. length

Delivery == INSTANCE EventDelivery
              WITH Events <- Entries, Orderly <- FALSE, accepted <- 1 .. length,
                   owed <- Unacknowledged,
                   delivered <- {e \in Entries : done[e] = HandlerIds},
                   parked <- {e \in Entries : deadLetters[e] > 0}, discarded <- {}

ImplementsDelivery == Delivery!DeliverySpec

\* No entry is given up early: a dead letter has been delivered more than
\* MaxRetries times.  (With MaxRetries = 1 the first delivery is the last.)
DeadLettersWereRetried ==
    MaxRetries > 1 => \A e \in Entries : deadLetters[e] > 0 => deliveries[e] > MaxRetries

\* The inductive form: a consumer works on entries that were read, each once
\* in a batch and with no more attempts than it was delivered before; and it
\* acknowledges an entry only after all handlers returned or it was moved.
WorkWasDelivered(c) ==
    /\ \A w \in consumer[c].listed : /\ w.id <= lastRead
                                     /\ w.attempts <= deliveries[w.id]
    /\ \A w \in consumer[c].queue : /\ w.id <= lastRead
                                    /\ w.attempts < deliveries[w.id] \/ w.attempts = 1
    /\ \A v, w \in consumer[c].listed : v.id = w.id => v = w
    /\ \A v, w \in consumer[c].queue : v.id = w.id => v = w

AcknowledgesInTurn(c) ==
    \A w \in Current(c) :
        /\ consumer[c].pc = "ack" => done[w.id] = HandlerIds
        /\ consumer[c].pc \in {"move", "drop"} => GivesUp(w)
        /\ consumer[c].pc = "drop" => deadLetters[w.id] > 0

DeadLettersWereRead == \A e \in Entries : deadLetters[e] > 0 => e <= lastRead

StreamInv == /\ TypeOK /\ NoEntryIsLost /\ DeadLettersWereRetried
             /\ DeadLettersWereRead
             /\ \A c \in Consumers : WorkWasDelivered(c) /\ AcknowledgesInTurn(c)

\* No two instances run the handlers of an entry at the same time, unless it
\* went idle in a consumer's hands: nothing renews the claim of a batch that
\* takes longer than reclaimIdleMs.
OneConsumerPerEntry ==
    overruns = 0 =>
        \A b, c \in Consumers : b # c =>
            {w.id : w \in consumer[b].queue} \cap {w.id : w \in consumer[c].queue} = {}

\* A poisonous entry costs MaxRetries + 1 deliveries and one dead letter; a
\* crash, a failing command or an overrun costs at most one more each.
RetriesAreBounded ==
    \A e \in Entries : /\ deliveries[e] <= MaxRetries + 1 + failures + overruns
                       /\ deadLetters[e] <= 1 + failures + overruns

\* Every entry is read and in the end acknowledged, handled or given up: no
\* poisonous entry blocks those behind it, although XPENDING looks at the
\* oldest only.
EveryEntrySettles ==
    \A e \in Entries : (e <= length) ~> (e <= lastRead /\ e \notin pending)
=============================================================================
