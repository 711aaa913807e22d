-------------------------- MODULE EventStreamProofs --------------------------
(***************************************************************************)
(* Theorems about the Redis stream for every number of API instances,      *)
(* entries, handlers and retries, every batch size, and any number of      *)
(* crashes, failing commands and overruns.                                 *)
(***************************************************************************)
EXTENDS EventStream, FiniteSetTheorems, TLAPS

\* Only entries of the stream have been read, and only those are pending.
LEMMA PendingWereRead ==
    ASSUME TypeOK
    PROVE  /\ MaxEntries \in Nat /\ length \in Nat /\ lastRead \in Nat
           /\ length <= MaxEntries /\ lastRead <= length
           /\ idle \subseteq pending
           /\ \A e \in pending : e \in Entries /\ e \in Nat /\ e <= lastRead
BY BoundsAssumption DEF TypeOK, Entries

\* A consumer is at one entry of its batch (consumeLoop, reclaimPendingMessages).
LEMMA OneEntryIsCurrent ==
    ASSUME TypeOK, NEW c \in Consumers, WorkWasDelivered(c),
           NEW v \in Current(c), NEW w \in Current(c)
    PROVE  v = w
<1>1. /\ v \in consumer[c].queue
      /\ w \in consumer[c].queue
      /\ v.id <= w.id
      /\ w.id <= v.id
  BY DEF Current
<1>2. v.id \in Nat /\ w.id \in Nat
  BY <1>1 DEF TypeOK, Consumer, Work, Entries
<1>3. v.id = w.id
  BY <1>1, <1>2
<1> QED BY <1>1, <1>3 DEF WorkWasDelivered

\* What a consumer works on stays sound when others step: reading,
\* delivering, handling and moving only ever add.
LEMMA OthersKeepTheirWork ==
    ASSUME TypeOK, NEW c \in Consumers, WorkWasDelivered(c), AcknowledgesInTurn(c),
           consumer'[c] = consumer[c],
           lastRead' \in Nat, lastRead' >= lastRead,
           deliveries' \in [Entries -> Nat],
           deadLetters' \in [Entries -> Nat],
           done' \in [Entries -> SUBSET HandlerIds],
           \A e \in Entries : /\ e <= lastRead => deliveries'[e] >= deliveries[e]
                              /\ deadLetters'[e] >= deadLetters[e]
                              /\ done[e] \subseteq done'[e]
    PROVE  WorkWasDelivered(c)' /\ AcknowledgesInTurn(c)'
<1>1. consumer[c] \in Consumer /\ lastRead \in Nat
  BY DEF TypeOK
<1>2. ASSUME NEW w \in consumer[c].listed
      PROVE  w.id <= lastRead' /\ w.attempts <= deliveries'[w.id]
  <2>1. w.id \in Entries /\ w.id \in Nat /\ w.attempts \in Nat
    BY <1>1 DEF Consumer, Work, Entries
  <2> QED BY <1>1, <2>1 DEF WorkWasDelivered, TypeOK
<1>3. ASSUME NEW w \in consumer[c].queue
      PROVE  /\ w.id <= lastRead'
             /\ w.attempts < deliveries'[w.id] \/ w.attempts = 1
  <2>1. w.id \in Entries /\ w.id \in Nat /\ w.attempts \in Nat
    BY <1>1 DEF Consumer, Work, Entries
  <2> QED BY <1>1, <2>1 DEF WorkWasDelivered, TypeOK
<1>4. WorkWasDelivered(c)'
  BY <1>2, <1>3 DEF WorkWasDelivered
<1>5. AcknowledgesInTurn(c)'
  <2>1. SUFFICES ASSUME NEW w \in Current(c)
                 PROVE  /\ consumer[c].pc = "ack" => done'[w.id] = HandlerIds
                        /\ consumer[c].pc \in {"move", "drop"} => GivesUp(w)
                        /\ consumer[c].pc = "drop" => deadLetters'[w.id] > 0
    BY DEF AcknowledgesInTurn, Current, GivesUp
  <2>2. w.id \in Entries
    BY <1>1 DEF Current, Consumer, Work
  <2>3. consumer[c].pc = "ack" => done'[w.id] = HandlerIds
    <3>1. consumer[c].pc = "ack" => done[w.id] = HandlerIds
      BY DEF AcknowledgesInTurn
    <3>2. done[w.id] \subseteq done'[w.id] /\ done'[w.id] \subseteq HandlerIds
      BY <2>2
    <3> QED BY <3>1, <3>2
  <2>4. consumer[c].pc = "drop" => deadLetters'[w.id] > 0
    BY <2>2 DEF AcknowledgesInTurn, TypeOK
  <2> QED BY <2>3, <2>4 DEF AcknowledgesInTurn
<1> QED BY <1>4, <1>5

\* A new batch: what Process leaves behind is sound when the batch is.
LEMMA ProcessStartsABatch ==
    ASSUME TypeOK, NEW c \in Consumers, NEW work \in SUBSET Work,
           NEW pc \in {"top", "read"}, Process(c, work, pc),
           \A w \in work : /\ w.id <= lastRead'
                           /\ w.attempts < deliveries'[w.id] \/ w.attempts = 1,
           \A v, w \in work : v.id = w.id => v = w
    PROVE  /\ consumer' \in [Consumers -> Consumer]
           /\ \A d \in Consumers : d # c => consumer'[d] = consumer[d]
           /\ WorkWasDelivered(c)' /\ AcknowledgesInTurn(c)'
<1> DEFINE new == IF work = {} THEN [AtTop EXCEPT !.pc = pc]
                  ELSE [AtTop EXCEPT !.pc = "handle", !.queue = work, !.then = pc]
<1>1. /\ new \in Consumer
      /\ new.listed = {}
      /\ new.queue = work
      /\ new.pc \in {"top", "read", "handle"}
  BY DEF AtTop, Consumer
<1>2. consumer' = [consumer EXCEPT ![c] = new]
  BY DEF Process
<1> HIDE DEF new
<1>3. /\ consumer' \in [Consumers -> Consumer]
      /\ \A d \in Consumers : d # c => consumer'[d] = consumer[d]
      /\ consumer'[c] = new
  BY <1>1, <1>2 DEF TypeOK
<1>4. WorkWasDelivered(c)'
  BY <1>1, <1>3 DEF WorkWasDelivered
<1>5. AcknowledgesInTurn(c)'
  BY <1>1, <1>3 DEF AcknowledgesInTurn
<1> QED BY <1>3, <1>4, <1>5

\* Going on to the next entry of the batch keeps what is left of it sound.
LEMMA NextEntryGoesOn ==
    ASSUME TypeOK, NEW c \in Consumers, WorkWasDelivered(c),
           NEW w \in Current(c), NextEntry(c, w),
           UNCHANGED <<lastRead, deliveries>>
    PROVE  /\ consumer' \in [Consumers -> Consumer]
           /\ \A d \in Consumers : d # c => consumer'[d] = consumer[d]
           /\ WorkWasDelivered(c)' /\ AcknowledgesInTurn(c)'
<1> DEFINE old == consumer[c]
           new == IF old.queue = {w} THEN [AtTop EXCEPT !.pc = old.then]
                  ELSE [old EXCEPT !.pc = "handle", !.queue = old.queue \ {w}]
<1>1. old \in Consumer
  BY DEF TypeOK
<1>2. /\ new \in Consumer
      /\ new.listed \subseteq old.listed
      /\ new.queue \subseteq old.queue
      /\ new.pc \in {"top", "read", "handle"}
  BY <1>1 DEF AtTop, Consumer
<1>3. consumer' = [consumer EXCEPT ![c] = new]
  BY DEF NextEntry, TypeOK
<1>4. WorkWasDelivered(c)
  OBVIOUS
<1> HIDE DEF new
<1>5. /\ consumer' \in [Consumers -> Consumer]
      /\ \A d \in Consumers : d # c => consumer'[d] = consumer[d]
      /\ consumer'[c] = new
  BY <1>2, <1>3 DEF TypeOK
<1>6. WorkWasDelivered(c)'
  BY <1>2, <1>4, <1>5 DEF WorkWasDelivered
<1>7. AcknowledgesInTurn(c)'
  BY <1>2, <1>5 DEF AcknowledgesInTurn
<1> QED BY <1>5, <1>6, <1>7

\* Moving the program counter of a consumer that keeps its batch.
LEMMA CounterMoves ==
    ASSUME TypeOK, NEW c \in Consumers, WorkWasDelivered(c),
           NEW pc \in {"ack", "move", "drop"},
           consumer' = [consumer EXCEPT ![c].pc = pc],
           UNCHANGED <<lastRead, deliveries>>,
           \A w \in Current(c) :
              /\ pc = "ack" => done'[w.id] = HandlerIds
              /\ pc \in {"move", "drop"} => GivesUp(w)
              /\ pc = "drop" => deadLetters'[w.id] > 0
    PROVE  /\ consumer' \in [Consumers -> Consumer]
           /\ \A d \in Consumers : d # c => consumer'[d] = consumer[d]
           /\ WorkWasDelivered(c)' /\ AcknowledgesInTurn(c)'
<1>1. /\ consumer' \in [Consumers -> Consumer]
      /\ \A d \in Consumers : d # c => consumer'[d] = consumer[d]
      /\ consumer'[c].pc = pc
      /\ consumer'[c].listed = consumer[c].listed
      /\ consumer'[c].queue = consumer[c].queue
  BY DEF TypeOK, Consumer
<1>2. WorkWasDelivered(c)'
  BY <1>1 DEF WorkWasDelivered
<1>3. AcknowledgesInTurn(c)'
  BY <1>1 DEF AcknowledgesInTurn, Current, GivesUp
<1> QED BY <1>1, <1>2, <1>3

-----------------------------------------------------------------------------

\* What one consumer does leaves the work of all consumers sound.
LEMMA WorkStaysSound ==
    ASSUME StreamInv, NEW c \in Consumers, WorkWasDelivered(c)', AcknowledgesInTurn(c)',
           \A d \in Consumers : d # c => consumer'[d] = consumer[d],
           lastRead' \in Nat, lastRead' >= lastRead,
           deliveries' \in [Entries -> Nat],
           deadLetters' \in [Entries -> Nat],
           done' \in [Entries -> SUBSET HandlerIds],
           \A e \in Entries : /\ e <= lastRead => deliveries'[e] >= deliveries[e]
                              /\ deadLetters'[e] >= deadLetters[e]
                              /\ done[e] \subseteq done'[e]
    PROVE  \A d \in Consumers : WorkWasDelivered(d)' /\ AcknowledgesInTurn(d)'
<1> SUFFICES ASSUME NEW d \in Consumers, d # c
             PROVE  WorkWasDelivered(d)' /\ AcknowledgesInTurn(d)'
  OBVIOUS
<1>1. TypeOK /\ WorkWasDelivered(d) /\ AcknowledgesInTurn(d)
  BY DEF StreamInv
<1>2. consumer'[d] = consumer[d]
  OBVIOUS
<1> QED BY <1>1, <1>2, OthersKeepTheirWork

\* A step that leaves the group, the counts and the histories alone, but for
\* the consumer's own work, keeps the invariant.
LEMMA OnlyConsumersMove ==
    ASSUME StreamInv, UNCHANGED <<entryVars, deadLetters, done>>,
           failures' \in 0 .. MaxFailures, overruns' \in 0 .. MaxOverruns,
           NEW c \in Consumers, consumer' \in [Consumers -> Consumer],
           WorkWasDelivered(c)', AcknowledgesInTurn(c)',
           \A d \in Consumers : d # c => consumer'[d] = consumer[d]
    PROVE  StreamInv'
<1>1. TypeOK /\ TypeOK'
  BY DEF StreamInv, TypeOK, entryVars
<1>2. NoEntryIsLost' /\ DeadLettersWereRetried' /\ DeadLettersWereRead'
  BY DEF StreamInv, NoEntryIsLost, DeadLettersWereRetried, DeadLettersWereRead, entryVars
<1>3. \A e \in Entries : deliveries[e] >= deliveries[e] /\ deadLetters[e] >= deadLetters[e]
  BY <1>1 DEF TypeOK
<1>4. lastRead \in Nat /\ lastRead >= lastRead
  BY <1>1 DEF TypeOK
<1>5. \A d \in Consumers : WorkWasDelivered(d)' /\ AcknowledgesInTurn(d)'
  BY <1>1, <1>3, <1>4, WorkStaysSound DEF entryVars, TypeOK
<1> QED BY <1>1, <1>2, <1>5 DEF StreamInv

\* The stream and the group start empty (ensureConsumerGroup).
LEMMA StreamInvInit == Init => StreamInv
<1> SUFFICES ASSUME Init PROVE StreamInv
  OBVIOUS
<1>1. AtTop \in Consumer
  BY DEF AtTop, Consumer
<1>2. TypeOK
  BY <1>1, BoundsAssumption DEF Init, TypeOK, HandlerIds
<1>3. NoEntryIsLost /\ DeadLettersWereRetried /\ DeadLettersWereRead
  BY BoundsAssumption DEF Init, NoEntryIsLost, DeadLettersWereRetried,
                          DeadLettersWereRead, Entries
<1>4. \A c \in Consumers : WorkWasDelivered(c) /\ AcknowledgesInTurn(c)
  BY DEF Init, WorkWasDelivered, AcknowledgesInTurn, Current, AtTop
<1> QED BY <1>2, <1>3, <1>4 DEF StreamInv

\* publish appends an entry nobody has read.
LEMMA PublishKeepsInv == StreamInv /\ Publish => StreamInv'
<1> SUFFICES ASSUME StreamInv, Publish PROVE StreamInv'
  OBVIOUS
<1>1. TypeOK /\ TypeOK'
  <2>1. TypeOK
    BY DEF StreamInv
  <2>2. length' \in 0 .. MaxEntries /\ lastRead' \in 0 .. length'
    BY <2>1, PendingWereRead DEF Publish
  <2> QED BY <2>1, <2>2 DEF Publish, TypeOK
<1>2. NoEntryIsLost'
  <2>1. SUFFICES ASSUME NEW e \in 1 .. length', e <= lastRead
                 PROVE  e \in pending \/ done[e] = HandlerIds \/ deadLetters[e] > 0
    BY <1>1 DEF NoEntryIsLost, Publish, TypeOK
  <2>2. e \in 1 .. length
    BY <1>1, <2>1 DEF TypeOK, Publish
  <2> QED BY <1>1, <2>1, <2>2 DEF StreamInv, NoEntryIsLost, TypeOK
<1>3. DeadLettersWereRetried' /\ DeadLettersWereRead'
  BY DEF StreamInv, Publish, DeadLettersWereRetried, DeadLettersWereRead
<1>4. \A c \in Consumers : WorkWasDelivered(c)' /\ AcknowledgesInTurn(c)'
  BY DEF StreamInv, Publish, WorkWasDelivered, AcknowledgesInTurn, Current, GivesUp
<1> QED BY <1>1, <1>2, <1>3, <1>4 DEF StreamInv

\* Time only decides who may claim.
LEMMA GoesIdleKeepsInv ==
    ASSUME StreamInv, NEW e \in Entries, GoesIdle(e)
    PROVE  StreamInv'
<1>1. UNCHANGED <<length, lastRead, pending, deliveries, consumer, deadLetters, done, failures>>
  BY DEF GoesIdle
<1>2. overruns' \in 0 .. MaxOverruns
  <2>1. overruns \in 0 .. MaxOverruns /\ MaxOverruns \in Nat
    BY BoundsAssumption DEF StreamInv, TypeOK
  <2>2. UNCHANGED overruns \/ (overruns < MaxOverruns /\ overruns' = overruns + 1)
    BY DEF GoesIdle
  <2> QED BY <2>1, <2>2
<1>3. TypeOK'
  BY <1>1, <1>2 DEF StreamInv, GoesIdle, TypeOK
<1>4. NoEntryIsLost' /\ DeadLettersWereRetried' /\ DeadLettersWereRead'
  BY <1>1 DEF StreamInv, NoEntryIsLost, DeadLettersWereRetried, DeadLettersWereRead
<1>5. \A c \in Consumers : WorkWasDelivered(c)' /\ AcknowledgesInTurn(c)'
  BY <1>1 DEF StreamInv, WorkWasDelivered, AcknowledgesInTurn, Current, GivesUp
<1> QED BY <1>3, <1>4, <1>5 DEF StreamInv

\* reclaimPendingMessages returns early, or lists what has been idle.
LEMMA ListPendingKeepsInv ==
    ASSUME StreamInv, NEW c \in Consumers, SkipReclaim(c) \/ ListPending(c)
    PROVE  StreamInv'
<1>1. TypeOK /\ WorkWasDelivered(c) /\ consumer[c] \in Consumer
  BY DEF StreamInv, TypeOK
<1>2. PICK pc \in {"read", "claim"}, listed \in SUBSET Work :
        /\ consumer' = [consumer EXCEPT ![c] = [@ EXCEPT !.pc = pc, !.listed = listed]]
        /\ \A w \in listed : w.id <= lastRead /\ w.attempts <= deliveries[w.id]
        /\ \A v, w \in listed : v.id = w.id => v = w
  <2>1. CASE SkipReclaim(c)
    <3>1. consumer' = [consumer EXCEPT ![c] = [@ EXCEPT !.pc = "read",
                                                        !.listed = consumer[c].listed]]
      BY <1>1, <2>1 DEF SkipReclaim, TypeOK, Consumer
    <3> QED BY <1>1, <3>1 DEF WorkWasDelivered, Consumer
  <2>2. CASE ListPending(c)
    <3> DEFINE stale == OldestPending \cap idle
               listed == {[id |-> e, attempts |-> deliveries[e]] : e \in stale}
               pc == IF stale = {} THEN "read" ELSE "claim"
    <3>1. \A e \in stale : /\ e \in Entries /\ e <= lastRead
                           /\ deliveries[e] \in Nat
      BY <1>1, PendingWereRead DEF TypeOK
    <3>2. /\ listed \in SUBSET Work
          /\ \A w \in listed : w.id <= lastRead /\ w.attempts <= deliveries[w.id]
          /\ \A v, w \in listed : v.id = w.id => v = w
      BY <3>1 DEF Work
    <3>3. consumer' = [consumer EXCEPT ![c] = [@ EXCEPT !.pc = pc, !.listed = listed]]
      BY <1>1, <2>2 DEF ListPending, TypeOK, Consumer
    <3>4. pc \in {"read", "claim"}
      OBVIOUS
    <3> HIDE DEF pc, listed
    <3> QED BY <3>2, <3>3, <3>4
  <2> QED BY <2>1, <2>2
<1>3. /\ consumer' \in [Consumers -> Consumer]
      /\ \A d \in Consumers : d # c => consumer'[d] = consumer[d]
      /\ consumer'[c].pc = pc
      /\ consumer'[c].listed = listed
      /\ consumer'[c].queue = consumer[c].queue
  BY <1>1, <1>2 DEF TypeOK, Consumer
<1>4. UNCHANGED <<entryVars, deadLetters, done, failures, overruns>>
  BY DEF SkipReclaim, ListPending
<1>5. WorkWasDelivered(c)' /\ AcknowledgesInTurn(c)'
  BY <1>1, <1>2, <1>3, <1>4 DEF WorkWasDelivered, AcknowledgesInTurn, entryVars
<1>6. failures' \in 0 .. MaxFailures /\ overruns' \in 0 .. MaxOverruns
  BY <1>1, <1>4 DEF TypeOK
<1> QED BY <1>3, <1>4, <1>5, <1>6, OnlyConsumersMove

\* XCLAIM hands over listed entries only and counts one delivery for each.
LEMMA ClaimIdleKeepsInv ==
    ASSUME StreamInv, NEW c \in Consumers, ClaimIdle(c)
    PROVE  StreamInv'
<1> DEFINE claimed == {w \in consumer[c].listed : Claimable(w)}
           ids == {w.id : w \in claimed}
           work == {[w EXCEPT !.attempts = AttemptsOf(w)] : w \in claimed}
<1>1. TypeOK /\ WorkWasDelivered(c) /\ consumer[c] \in Consumer
  BY DEF StreamInv, TypeOK
<1>2. /\ UNCHANGED <<length, lastRead, pending, deadLetters, done, failures, overruns>>
      /\ idle' = idle \ ids
      /\ deliveries' = [e \in Entries |-> IF e \in ids THEN deliveries[e] + 1
                                                       ELSE deliveries[e]]
      /\ Process(c, work, "read")
  BY DEF ClaimIdle
<1>3. \A w \in claimed : /\ w \in Work
                         /\ [w EXCEPT !.attempts = AttemptsOf(w)] = w
  BY <1>1 DEF Consumer, Work, AttemptsOf
<1>4. work = claimed
  BY <1>3
<1>5. /\ deliveries' \in [Entries -> Nat]
      /\ \A e \in Entries : deliveries'[e] >= deliveries[e]
      /\ \A e \in ids \cap Entries : deliveries'[e] > deliveries[e]
  BY <1>1, <1>2 DEF TypeOK
<1>6. ASSUME NEW w \in claimed
      PROVE  w.id <= lastRead' /\ w.attempts < deliveries'[w.id]
  <2>1. /\ w.id \in Entries \cap ids /\ w.attempts \in Nat
        /\ w.id <= lastRead /\ w.attempts <= deliveries[w.id]
    BY <1>1, <1>3 DEF Work, WorkWasDelivered
  <2> QED BY <1>1, <1>2, <1>5, <2>1 DEF TypeOK
<1>7. \A v, w \in claimed : v.id = w.id => v = w
  BY <1>1 DEF WorkWasDelivered
<1>8. claimed \in SUBSET Work
  BY <1>3
<1> HIDE DEF claimed, ids, work
<1>9. /\ consumer' \in [Consumers -> Consumer]
      /\ \A d \in Consumers : d # c => consumer'[d] = consumer[d]
      /\ WorkWasDelivered(c)' /\ AcknowledgesInTurn(c)'
  BY <1>1, <1>2, <1>4, <1>6, <1>7, <1>8, ProcessStartsABatch
<1>10. TypeOK'
  BY <1>1, <1>2, <1>5, <1>9 DEF TypeOK
<1>11. NoEntryIsLost' /\ DeadLettersWereRead'
  BY <1>2 DEF StreamInv, NoEntryIsLost, DeadLettersWereRead
<1>12. DeadLettersWereRetried'
  <2>1. SUFFICES ASSUME MaxRetries > 1, NEW e \in Entries, deadLetters[e] > 0
                 PROVE  deliveries'[e] > MaxRetries
    BY <1>2 DEF DeadLettersWereRetried
  <2>2. deliveries[e] > MaxRetries
    BY <2>1 DEF StreamInv, DeadLettersWereRetried
  <2> QED BY <1>1, <1>5, <2>2, BoundsAssumption DEF TypeOK
<1>13. /\ lastRead' \in Nat /\ lastRead' >= lastRead
       /\ deadLetters' \in [Entries -> Nat]
       /\ done' \in [Entries -> SUBSET HandlerIds]
       /\ \A e \in Entries : deadLetters'[e] >= deadLetters[e] /\ done[e] \subseteq done'[e]
  BY <1>1, <1>2 DEF TypeOK
<1>14. \A d \in Consumers : WorkWasDelivered(d)' /\ AcknowledgesInTurn(d)'
  BY <1>5, <1>9, <1>13, WorkStaysSound
<1> QED BY <1>10, <1>11, <1>12, <1>14 DEF StreamInv

\* XREADGROUP delivers what nobody has read: it resets no delivery count.
LEMMA ReadNewKeepsInv ==
    ASSUME StreamInv, NEW c \in Consumers, ReadNew(c)
    PROVE  StreamInv'
<1> DEFINE work == {[id |-> e, attempts |-> 1] : e \in NewEntries}
<1>1. TypeOK
  BY DEF StreamInv
<1>2. /\ UNCHANGED <<length, idle, deadLetters, done, failures, overruns>>
      /\ lastRead' = LastNew
      /\ pending' = pending \cup NewEntries
      /\ deliveries' = [e \in Entries |-> IF e \in NewEntries THEN 1 ELSE deliveries[e]]
      /\ Process(c, work, "top")
  BY DEF ReadNew
<1>3. LastNew \in Nat /\ lastRead <= LastNew /\ LastNew <= length
  BY <1>1, PendingWereRead, BoundsAssumption DEF LastNew
<1>4. \A e \in NewEntries : e \in Entries /\ e \in Nat /\ e > lastRead /\ e <= LastNew
  BY <1>1, <1>3, PendingWereRead DEF NewEntries, Entries
<1>5. \A e \in Entries : lastRead < e /\ e <= LastNew => e \in NewEntries
  BY <1>1, <1>3, PendingWereRead DEF NewEntries, Entries
<1>6. /\ deliveries' \in [Entries -> Nat]
      /\ \A e \in Entries : e <= lastRead => deliveries'[e] = deliveries[e]
  BY <1>1, <1>2, <1>4, PendingWereRead DEF TypeOK, Entries
<1>7. /\ work \in SUBSET Work
      /\ \A w \in work : w.id <= lastRead' /\ w.attempts = 1
      /\ \A v, w \in work : v.id = w.id => v = w
  BY <1>2, <1>4 DEF Work
<1> HIDE DEF work
<1>8. /\ consumer' \in [Consumers -> Consumer]
      /\ \A d \in Consumers : d # c => consumer'[d] = consumer[d]
      /\ WorkWasDelivered(c)' /\ AcknowledgesInTurn(c)'
  BY <1>1, <1>2, <1>7, ProcessStartsABatch
<1>9. TypeOK'
  <2>1. length' \in 0 .. MaxEntries /\ lastRead' \in 0 .. length'
    BY <1>1, <1>2, <1>3, PendingWereRead
  <2>2. idle' \subseteq pending' /\ pending' \subseteq 1 .. lastRead'
    <3>1. \A e \in pending : e \in 1 .. lastRead'
      BY <1>1, <1>2, <1>3, PendingWereRead DEF Entries
    <3>2. \A e \in NewEntries : e \in 1 .. lastRead'
      BY <1>2, <1>3, <1>4 DEF Entries
    <3> QED BY <1>1, <1>2, <3>1, <3>2, PendingWereRead
  <2> QED BY <1>1, <1>2, <1>6, <1>8, <2>1, <2>2 DEF TypeOK
<1>10. NoEntryIsLost'
  <2>1. SUFFICES ASSUME NEW e \in 1 .. length, e <= LastNew
                 PROVE  e \in pending' \/ done[e] = HandlerIds \/ deadLetters[e] > 0
    BY <1>1, <1>2, <1>3, PendingWereRead DEF NoEntryIsLost
  <2>2. e \in Entries /\ e \in Nat
    BY <1>1, PendingWereRead DEF Entries
  <2>3. CASE e <= lastRead
    BY <1>1, <1>2, <2>2, <2>3, PendingWereRead DEF StreamInv, NoEntryIsLost
  <2>4. CASE e > lastRead
    BY <1>1, <1>2, <1>5, <2>1, <2>2, <2>4
  <2> QED BY <1>1, <2>2, <2>3, <2>4, PendingWereRead
<1>11. DeadLettersWereRead'
  BY <1>1, <1>2, <1>3, PendingWereRead DEF StreamInv, DeadLettersWereRead, Entries
<1>12. DeadLettersWereRetried'
  BY <1>2, <1>6 DEF StreamInv, DeadLettersWereRetried, DeadLettersWereRead
<1>13. /\ lastRead' \in Nat /\ lastRead' >= lastRead
       /\ deadLetters' \in [Entries -> Nat]
       /\ done' \in [Entries -> SUBSET HandlerIds]
       /\ \A e \in Entries : /\ deadLetters'[e] >= deadLetters[e]
                             /\ done[e] \subseteq done'[e]
                             /\ e <= lastRead => deliveries'[e] >= deliveries[e]
  BY <1>1, <1>2, <1>3, <1>6, PendingWereRead DEF TypeOK
<1>14. \A d \in Consumers : WorkWasDelivered(d)' /\ AcknowledgesInTurn(d)'
  BY <1>6, <1>8, <1>13, WorkStaysSound
<1> QED BY <1>9, <1>10, <1>11, <1>12, <1>14 DEF StreamInv

-----------------------------------------------------------------------------

\* The catch block of processStreamEntry: on to the next entry or to the dead
\* letters.
LEMMA CatchGoesOn ==
    ASSUME TypeOK, NEW c \in Consumers, WorkWasDelivered(c),
           NEW w \in Current(c), Catch(c, w),
           UNCHANGED <<lastRead, deliveries>>
    PROVE  /\ consumer' \in [Consumers -> Consumer]
           /\ \A d \in Consumers : d # c => consumer'[d] = consumer[d]
           /\ WorkWasDelivered(c)' /\ AcknowledgesInTurn(c)'
<1>1. CASE GivesUp(w)
  <2>1. consumer' = [consumer EXCEPT ![c].pc = "move"]
    BY <1>1 DEF Catch
  <2>2. \A v \in Current(c) : GivesUp(v)
    BY <1>1, OneEntryIsCurrent
  <2> QED BY <2>1, <2>2, CounterMoves
<1>2. CASE ~GivesUp(w)
  BY <1>2, NextEntryGoesOn DEF Catch
<1> QED BY <1>1, <1>2

\* A step inside processStreamEntry reads and delivers nothing: it keeps the
\* invariant when it handles, moves or acknowledges without losing an entry.
LEMMA ProcessingKeepsInv ==
    ASSUME StreamInv, NEW c \in Consumers,
           UNCHANGED <<length, lastRead, deliveries, overruns>>,
           failures' \in 0 .. MaxFailures,
           pending' \subseteq pending, idle' \subseteq pending',
           deadLetters' \in [Entries -> Nat],
           done' \in [Entries -> SUBSET HandlerIds],
           \A e \in Entries : deadLetters'[e] >= deadLetters[e] /\ done[e] \subseteq done'[e],
           \A e \in pending \ pending' : done[e] = HandlerIds \/ deadLetters[e] > 0,
           \A e \in Entries : deadLetters'[e] > 0 =>
               deadLetters[e] > 0 \/ (e <= lastRead
                                        /\ (MaxRetries > 1 => deliveries[e] > MaxRetries)),
           consumer' \in [Consumers -> Consumer],
           \A d \in Consumers : d # c => consumer'[d] = consumer[d],
           WorkWasDelivered(c)', AcknowledgesInTurn(c)'
    PROVE  StreamInv'
<1>1. TypeOK
  BY DEF StreamInv
<1>2. TypeOK'
  BY <1>1 DEF TypeOK
<1>3. NoEntryIsLost'
  <2>1. SUFFICES ASSUME NEW e \in 1 .. length, e <= lastRead, e \notin pending'
                 PROVE  done'[e] = HandlerIds \/ deadLetters'[e] > 0
    BY <1>1, PendingWereRead DEF NoEntryIsLost
  <2>2. e \in Entries
    BY <1>1, PendingWereRead DEF Entries
  <2>3. done[e] = HandlerIds \/ deadLetters[e] > 0
    BY <1>1, <2>1, PendingWereRead DEF StreamInv, NoEntryIsLost
  <2>4. done[e] \subseteq done'[e] /\ done'[e] \subseteq HandlerIds
    BY <2>2
  <2>5. deadLetters'[e] >= deadLetters[e] /\ deadLetters[e] \in Nat /\ deadLetters'[e] \in Nat
    BY <1>1, <2>2 DEF TypeOK
  <2>6. deadLetters[e] > 0 => deadLetters'[e] > 0
    BY <2>5
  <2> QED BY <2>3, <2>4, <2>6
<1>4. DeadLettersWereRetried' /\ DeadLettersWereRead'
  BY DEF StreamInv, DeadLettersWereRetried, DeadLettersWereRead
<1>5. /\ lastRead' \in Nat /\ lastRead' >= lastRead
      /\ deliveries' \in [Entries -> Nat]
      /\ \A e \in Entries : deliveries'[e] >= deliveries[e]
  BY <1>1 DEF TypeOK
<1>6. \A d \in Consumers : WorkWasDelivered(d)' /\ AcknowledgesInTurn(d)'
  BY <1>5, WorkStaysSound
<1> QED BY <1>2, <1>3, <1>4, <1>6 DEF StreamInv

\* Whatever the handlers do, only "all returned" leads to the acknowledgement.
LEMMA DispatchKeepsInv ==
    ASSUME StreamInv, NEW c \in Consumers, Dispatch(c)
    PROVE  StreamInv'
<1>1. TypeOK /\ WorkWasDelivered(c) /\ consumer[c] \in Consumer
  BY DEF StreamInv, TypeOK
<1>2. UNCHANGED <<entryVars, deadLetters, failures, overruns>>
  BY DEF Dispatch
<1>3. PICK w \in Current(c), k \in 0 .. NHandlers :
        /\ done' = [done EXCEPT ![w.id] = @ \cup 1 .. k]
        /\ IF AllReturned(k) THEN consumer' = [consumer EXCEPT ![c].pc = "ack"]
                             ELSE Catch(c, w)
  BY DEF Dispatch
<1>4. w.id \in Entries /\ 1 .. k \subseteq HandlerIds
  BY <1>1, BoundsAssumption DEF Current, Consumer, Work, HandlerIds
<1>5. /\ done' \in [Entries -> SUBSET HandlerIds]
      /\ \A e \in Entries : done[e] \subseteq done'[e]
  BY <1>1, <1>3, <1>4 DEF TypeOK
<1>6. /\ consumer' \in [Consumers -> Consumer]
      /\ \A d \in Consumers : d # c => consumer'[d] = consumer[d]
      /\ WorkWasDelivered(c)' /\ AcknowledgesInTurn(c)'
  <2>1. CASE AllReturned(k)
    <3>1. done'[w.id] = HandlerIds
      BY <1>1, <1>3, <1>4, <2>1 DEF TypeOK, AllReturned, HandlerIds
    <3>2. \A v \in Current(c) : done'[v.id] = HandlerIds
      BY <1>1, <3>1, OneEntryIsCurrent
    <3>3. consumer' = [consumer EXCEPT ![c].pc = "ack"]
      BY <1>3, <2>1
    <3>4. UNCHANGED <<lastRead, deliveries>>
      BY <1>2 DEF entryVars
    <3> QED BY <1>1, <3>2, <3>3, <3>4, CounterMoves
  <2>2. CASE ~AllReturned(k)
    BY <1>1, <1>2, <1>3, <2>2, CatchGoesOn DEF entryVars
  <2> QED BY <2>1, <2>2
<1>7. /\ failures' \in 0 .. MaxFailures /\ pending' = pending /\ idle' \subseteq pending'
      /\ deadLetters' \in [Entries -> Nat]
      /\ \A e \in Entries : deadLetters'[e] >= deadLetters[e]
  BY <1>1, <1>2 DEF TypeOK, entryVars
<1> QED BY <1>2, <1>5, <1>6, <1>7, ProcessingKeepsInv DEF entryVars

\* XACK after dispatch, or at the end of moveToDlq.
LEMMA AcknowledgementKeepsInv ==
    ASSUME StreamInv, NEW c \in Consumers, Ack(c) \/ DropMoved(c)
    PROVE  StreamInv'
<1>1. TypeOK /\ WorkWasDelivered(c) /\ AcknowledgesInTurn(c) /\ consumer[c] \in Consumer
  BY DEF StreamInv, TypeOK
<1>2. /\ UNCHANGED <<length, lastRead, deliveries, deadLetters, done, failures, overruns>>
      /\ consumer[c].pc \in {"ack", "drop"}
  BY DEF Ack, DropMoved
<1>3. PICK w \in Current(c) : Acknowledge(w.id) /\ NextEntry(c, w)
  BY DEF Ack, DropMoved
<1>4. /\ consumer' \in [Consumers -> Consumer]
      /\ \A d \in Consumers : d # c => consumer'[d] = consumer[d]
      /\ WorkWasDelivered(c)' /\ AcknowledgesInTurn(c)'
  BY <1>1, <1>2, <1>3, NextEntryGoesOn
<1>5. /\ pending' \subseteq pending /\ idle' \subseteq pending'
      /\ \A e \in pending \ pending' : e = w.id
  BY <1>1, <1>3 DEF Acknowledge, TypeOK
<1>6. done[w.id] = HandlerIds \/ deadLetters[w.id] > 0
  BY <1>1, <1>2 DEF AcknowledgesInTurn
<1>7. /\ failures' \in 0 .. MaxFailures
      /\ deadLetters' \in [Entries -> Nat] /\ done' \in [Entries -> SUBSET HandlerIds]
      /\ \A e \in Entries : deadLetters'[e] >= deadLetters[e] /\ done[e] \subseteq done'[e]
  BY <1>1, <1>2 DEF TypeOK
<1> QED BY <1>2, <1>4, <1>5, <1>6, <1>7, ProcessingKeepsInv

\* An XACK that throws loses nothing, applied or not.
LEMMA AckFailsKeepsInv ==
    ASSUME StreamInv, NEW c \in Consumers, AckFails(c)
    PROVE  StreamInv'
<1>1. TypeOK /\ WorkWasDelivered(c) /\ AcknowledgesInTurn(c) /\ consumer[c] \in Consumer
  BY DEF StreamInv, TypeOK
<1>2. /\ UNCHANGED <<length, lastRead, deliveries, deadLetters, done, overruns>>
      /\ consumer[c].pc = "ack"
      /\ failures < MaxFailures /\ failures' = failures + 1
  BY DEF AckFails
<1>3. PICK w \in Current(c) : /\ Acknowledge(w.id) \/ UNCHANGED <<pending, idle>>
                              /\ Catch(c, w)
  BY DEF AckFails
<1>4. /\ consumer' \in [Consumers -> Consumer]
      /\ \A d \in Consumers : d # c => consumer'[d] = consumer[d]
      /\ WorkWasDelivered(c)' /\ AcknowledgesInTurn(c)'
  BY <1>1, <1>2, <1>3, CatchGoesOn
<1>5. /\ pending' \subseteq pending /\ idle' \subseteq pending'
      /\ \A e \in pending \ pending' : e = w.id
  BY <1>1, <1>3 DEF Acknowledge, TypeOK
<1>6. done[w.id] = HandlerIds
  BY <1>1, <1>2 DEF AcknowledgesInTurn
<1>7. failures' \in 0 .. MaxFailures
  BY <1>1, <1>2, BoundsAssumption DEF TypeOK
<1>8. /\ deadLetters' \in [Entries -> Nat] /\ done' \in [Entries -> SUBSET HandlerIds]
      /\ \A e \in Entries : deadLetters'[e] >= deadLetters[e] /\ done[e] \subseteq done'[e]
  BY <1>1, <1>2 DEF TypeOK
<1> QED BY <1>2, <1>4, <1>5, <1>6, <1>7, <1>8, ProcessingKeepsInv

\* Only entries that used up their retries are copied to the dead letters.
LEMMA MoveToDlqKeepsInv ==
    ASSUME StreamInv, NEW c \in Consumers, MoveToDlq(c)
    PROVE  StreamInv'
<1>1. TypeOK /\ WorkWasDelivered(c) /\ AcknowledgesInTurn(c) /\ consumer[c] \in Consumer
  BY DEF StreamInv, TypeOK
<1>2. /\ UNCHANGED <<entryVars, done, failures, overruns>>
      /\ consumer[c].pc = "move"
      /\ consumer' = [consumer EXCEPT ![c].pc = "drop"]
  BY DEF MoveToDlq
<1>3. PICK w \in Current(c) : deadLetters' = [deadLetters EXCEPT ![w.id] = @ + 1]
  BY DEF MoveToDlq
<1>4. w \in consumer[c].queue /\ w.id \in Entries /\ w.attempts \in Nat
  BY <1>1 DEF Current, Consumer, Work
<1>5. GivesUp(w) /\ \A v \in Current(c) : v = w
  BY <1>1, <1>2, OneEntryIsCurrent DEF AcknowledgesInTurn
<1>6. /\ deadLetters' \in [Entries -> Nat]
      /\ \A e \in Entries : deadLetters'[e] >= deadLetters[e]
      /\ deadLetters'[w.id] > 0
      /\ \A e \in Entries : e # w.id => deadLetters'[e] = deadLetters[e]
  BY <1>1, <1>3, <1>4 DEF TypeOK
<1>7. /\ consumer' \in [Consumers -> Consumer]
      /\ \A d \in Consumers : d # c => consumer'[d] = consumer[d]
      /\ WorkWasDelivered(c)' /\ AcknowledgesInTurn(c)'
  BY <1>1, <1>2, <1>5, <1>6, CounterMoves DEF entryVars
<1>8. w.id <= lastRead /\ (MaxRetries > 1 => deliveries[w.id] > MaxRetries)
  BY <1>1, <1>4, <1>5, BoundsAssumption DEF WorkWasDelivered, GivesUp, TypeOK
<1>9. /\ failures' \in 0 .. MaxFailures /\ pending' = pending /\ idle' \subseteq pending'
      /\ done' \in [Entries -> SUBSET HandlerIds]
      /\ \A e \in Entries : done[e] \subseteq done'[e]
  BY <1>1, <1>2 DEF TypeOK, entryVars
<1> QED BY <1>2, <1>6, <1>7, <1>8, <1>9, ProcessingKeepsInv DEF entryVars

\* A crash forgets the batch; its entries are still pending.
LEMMA StartOverKeepsInv ==
    ASSUME StreamInv, NEW c \in Consumers, StartOver(c)
    PROVE  StreamInv'
<1>1. TypeOK /\ consumer[c] \in Consumer
  BY DEF StreamInv, TypeOK
<1>2. /\ UNCHANGED <<entryVars, deadLetters, overruns>>
      /\ failures < MaxFailures /\ failures' = failures + 1
      /\ consumer' = [consumer EXCEPT ![c] = AtTop]
  BY DEF StartOver
<1>3. /\ done' \in [Entries -> SUBSET HandlerIds]
      /\ \A e \in Entries : done[e] \subseteq done'[e]
  <2>1. CASE done' = done
    BY <1>1, <2>1 DEF TypeOK
  <2>2. ASSUME NEW w \in Current(c), NEW k \in HandlerIds,
               done' = [done EXCEPT ![w.id] = @ \cup 1 .. k]
        PROVE  /\ done' \in [Entries -> SUBSET HandlerIds]
               /\ \A e \in Entries : done[e] \subseteq done'[e]
    <3>1. 1 .. k \subseteq HandlerIds
      BY BoundsAssumption DEF HandlerIds
    <3> QED BY <1>1, <2>2, <3>1 DEF TypeOK
  <2> QED BY <2>1, <2>2 DEF StartOver
<1>4. AtTop \in Consumer /\ AtTop.listed = {} /\ AtTop.queue = {} /\ AtTop.pc = "top"
  BY DEF AtTop, Consumer
<1>5. /\ consumer' \in [Consumers -> Consumer]
      /\ \A d \in Consumers : d # c => consumer'[d] = consumer[d]
      /\ consumer'[c] = AtTop
  BY <1>1, <1>2, <1>4 DEF TypeOK
<1>6. WorkWasDelivered(c)' /\ AcknowledgesInTurn(c)'
  BY <1>4, <1>5 DEF WorkWasDelivered, AcknowledgesInTurn
<1>7. failures' \in 0 .. MaxFailures
  BY <1>1, <1>2, BoundsAssumption DEF TypeOK
<1>8. /\ pending' = pending /\ idle' \subseteq pending'
      /\ deadLetters' \in [Entries -> Nat]
      /\ \A e \in Entries : deadLetters'[e] >= deadLetters[e]
  BY <1>1, <1>2 DEF TypeOK, entryVars
<1> QED BY <1>2, <1>3, <1>5, <1>6, <1>7, <1>8, ProcessingKeepsInv DEF entryVars

-----------------------------------------------------------------------------

\* The inductive invariant of the stream: every step of publish, of the clock
\* and of consumeLoop, failing or not, keeps it.
THEOREM StreamInvariant == Spec => []StreamInv
<1>1. StreamInv /\ [Next]_vars => StreamInv'
  <2> SUFFICES ASSUME StreamInv, [Next]_vars PROVE StreamInv'
    OBVIOUS
  <2>1. CASE Publish
    BY <2>1, PublishKeepsInv
  <2>2. ASSUME NEW e \in Entries, GoesIdle(e) PROVE StreamInv'
    BY <2>2, GoesIdleKeepsInv
  <2>3. ASSUME NEW c \in Consumers, ConsumerStep(c) PROVE StreamInv'
    BY <2>3, ListPendingKeepsInv, ClaimIdleKeepsInv, ReadNewKeepsInv, DispatchKeepsInv,
       AcknowledgementKeepsInv, MoveToDlqKeepsInv DEF ConsumerStep
  <2>4. ASSUME NEW c \in Consumers, AckFails(c) PROVE StreamInv'
    BY <2>4, AckFailsKeepsInv
  <2>5. ASSUME NEW c \in Consumers, StartOver(c) PROVE StreamInv'
    BY <2>5, StartOverKeepsInv
  <2>6. CASE UNCHANGED vars
    BY <2>6 DEF vars, entryVars, StreamInv, TypeOK, NoEntryIsLost, DeadLettersWereRetried,
                DeadLettersWereRead, WorkWasDelivered, AcknowledgesInTurn, Current, GivesUp
  <2> QED BY <2>1, <2>2, <2>3, <2>4, <2>5, <2>6 DEF Next
<1> QED BY <1>1, StreamInvInit, PTL DEF Spec

\* The stream, its consumer group and the loops of the instances keep their
\* types (redis-durable-event-bus.service.ts).
THEOREM TypeCorrect == Spec => []TypeOK
<1>1. StreamInv => TypeOK
  BY DEF StreamInv
<1> QED BY <1>1, StreamInvariant, PTL

\* At least once, for any number of instances, crashes and failing commands:
\* no entry leaves the group before all handlers returned or a copy of it is
\* in the dead letters.
THEOREM NoEntryEverIsLost == Spec => []NoEntryIsLost
<1>1. StreamInv => NoEntryIsLost
  BY DEF StreamInv
<1> QED BY <1>1, StreamInvariant, PTL

\* No entry is given up before it was delivered more than MaxRetries times,
\* although the attempts are read before the claim and outlive it.
THEOREM DeadLettersAlwaysWereRetried == Spec => []DeadLettersWereRetried
<1>1. StreamInv => DeadLettersWereRetried
  BY DEF StreamInv
<1> QED BY <1>1, StreamInvariant, PTL

-----------------------------------------------------------------------------
(***************************************************************************)
(* What retries cost.  Every delivery and every dead letter of an entry    *)
(* needs somebody who has the entry and has not moved it yet, or the entry *)
(* waiting to be claimed: the invariant counts both against one allowance, *)
(* which only a crash, a failing command or an overrun adds to.            *)
(***************************************************************************)

Num(b) == IF b THEN 1 ELSE 0
Cost == failures + overruns

\* A consumer has an entry in its batch, and has copied it to the dead letters.
Has(c, e) == \E w \in consumer[c].queue : w.id = e
Moved(c, e) == consumer[c].pc = "drop" /\ \E w \in Current(c) : w.id = e
Live(e) == {c \in Consumers : Has(c, e) /\ ~Moved(c, e)}

\* An entry that may be claimed now, or once it has gone idle.
Waiting(e) == e \in pending /\ (e \in idle \/ \A c \in Consumers : ~Has(c, e))

BatchInTurn(c) == consumer[c].pc \in {"top", "claim", "read"} => consumer[c].queue = {}

\* Attempts grow stale only while the entry goes idle in a consumer's hands.
AttemptsAreRecent(c) ==
    \A w \in consumer[c].listed \cup consumer[c].queue :
        deliveries[w.id] + Num(w.id \in idle) <= w.attempts + Cost + 1

DeliveriesAllowed(e) == deliveries[e] + Num(Waiting(e)) <= MaxRetries + 1 + Cost

LettersAllowed(e) ==
    /\ IsFiniteSet(Live(e))
    /\ deadLetters[e] + Cardinality(Live(e)) + Num(Waiting(e)) <= 1 + Cost

RetryInv == /\ \A c \in Consumers : BatchInTurn(c) /\ AttemptsAreRecent(c)
            /\ \A e \in Entries : DeliveriesAllowed(e) /\ LettersAllowed(e)

\* Nobody is late: what a consumer has is not up for claiming and is its own.
OwnedInv == overruns = 0 =>
    \A c \in Consumers : \A w \in consumer[c].queue :
        w.id \notin idle /\ \A d \in Consumers \ {c} : ~Has(d, w.id)

-----------------------------------------------------------------------------

LEMMA CostIsCounted == /\ TypeOK => Cost \in Nat
                       /\ TypeOK' => Cost' \in Nat
<1>1. ASSUME NEW f \in 0 .. MaxFailures, NEW o \in 0 .. MaxOverruns PROVE f + o \in Nat
  BY BoundsAssumption
<1>2. TypeOK => failures \in 0 .. MaxFailures /\ overruns \in 0 .. MaxOverruns
  BY DEF TypeOK
<1>3. TypeOK' => failures' \in 0 .. MaxFailures /\ overruns' \in 0 .. MaxOverruns
  BY DEF TypeOK
<1> QED BY <1>1, <1>2, <1>3 DEF Cost

\* One consumer more or less has an entry that it has not moved.
LEMMA LiveMoves ==
    ASSUME NEW c \in Consumers, \A d \in Consumers : d # c => consumer'[d] = consumer[d],
           NEW e, IsFiniteSet(Live(e))
    PROVE  /\ IsFiniteSet(Live(e)')
           /\ Cardinality(Live(e)) \in Nat /\ Cardinality(Live(e)') \in Nat
           /\ Cardinality(Live(e)') + Num(c \in Live(e))
                = Cardinality(Live(e)) + Num(c \in Live(e)')
<1>1. PICK rest : rest = Live(e) \ {c}
  OBVIOUS
<1>2. rest = Live(e)' \ {c}
  BY <1>1 DEF Live, Has, Moved, Current
<1>3. IsFiniteSet(rest) /\ Cardinality(rest) \in Nat /\ c \notin rest
  BY <1>1, FS_RemoveElement, FS_CardinalityType
<1>4. IsFiniteSet(rest \cup {c}) /\ Cardinality(rest \cup {c}) = Cardinality(rest) + 1
  BY <1>3, FS_AddElement
<1>5. Live(e) = IF c \in Live(e) THEN rest \cup {c} ELSE rest
  BY <1>1
<1>6. Live(e)' = IF c \in Live(e)' THEN rest \cup {c} ELSE rest
  BY <1>2
<1>7. Cardinality(Live(e)) = Cardinality(rest) + Num(c \in Live(e))
  BY <1>3, <1>4, <1>5 DEF Num
<1>8. /\ IsFiniteSet(Live(e)')
      /\ Cardinality(Live(e)') = Cardinality(rest) + Num(c \in Live(e)')
  BY <1>3, <1>4, <1>6 DEF Num
<1>9. Num(c \in Live(e)) \in Nat /\ Num(c \in Live(e)') \in Nat
  BY DEF Num
<1> QED BY <1>3, <1>7, <1>8, <1>9

\* Whether an entry waits, seen from one consumer: the others are as they were.
LEMMA WaitingTurns ==
    ASSUME NEW c \in Consumers, \A d \in Consumers : d # c => consumer'[d] = consumer[d],
           NEW e
    PROVE  \E other \in BOOLEAN :
              /\ Waiting(e) <=> e \in pending /\ (e \in idle \/ ~(Has(c, e) \/ other))
              /\ Waiting(e)' <=> e \in pending' /\ (e \in idle' \/ ~(Has(c, e)' \/ other))
<1>1. PICK other \in BOOLEAN : other <=> \E d \in Consumers \ {c} : Has(d, e)
  OBVIOUS
<1>2. other <=> \E d \in Consumers \ {c} : Has(d, e)'
  BY <1>1 DEF Has
<1>3. (\A d \in Consumers : ~Has(d, e)) <=> ~(Has(c, e) \/ other)
  BY <1>1
<1>4. (\A d \in Consumers : ~Has(d, e)') <=> ~(Has(c, e)' \/ other)
  BY <1>2
<1>5. /\ Waiting(e) <=> e \in pending /\ (e \in idle \/ ~(Has(c, e) \/ other))
      /\ Waiting(e)' <=> e \in pending' /\ (e \in idle' \/ ~(Has(c, e)' \/ other))
  BY <1>3, <1>4 DEF Waiting
<1> QED BY <1>5

\* Nothing of an entry is used twice: a consumer that moves it, waits for it or
\* has it takes the place of what was there.
LEMMA LettersStayAllowed ==
    ASSUME TypeOK, TypeOK', NEW c \in Consumers, NEW e \in Entries, LettersAllowed(e),
           \A d \in Consumers : d # c => consumer'[d] = consumer[d],
           deadLetters'[e] + Num(c \in Live(e)') + Num(Waiting(e)') + Cost
             <= deadLetters[e] + Num(c \in Live(e)) + Num(Waiting(e)) + Cost'
    PROVE  LettersAllowed(e)'
<1>1. Cost \in Nat /\ Cost' \in Nat
  BY CostIsCounted
<1>2. /\ IsFiniteSet(Live(e)')
      /\ Cardinality(Live(e)) \in Nat /\ Cardinality(Live(e)') \in Nat
      /\ Cardinality(Live(e)') + Num(c \in Live(e))
           = Cardinality(Live(e)) + Num(c \in Live(e)')
  BY LiveMoves DEF LettersAllowed
<1>3. /\ Num(c \in Live(e)) \in Nat /\ Num(c \in Live(e)') \in Nat
      /\ Num(Waiting(e)) \in Nat /\ Num(Waiting(e)') \in Nat
  BY DEF Num
<1>4. deadLetters[e] + Cardinality(Live(e)) + Num(Waiting(e)) <= 1 + Cost
  BY DEF LettersAllowed
<1>5. deadLetters[e] \in Nat /\ deadLetters'[e] \in Nat
  BY DEF TypeOK
<1>6. deadLetters'[e] + Cardinality(Live(e)') + Num(Waiting(e)') <= 1 + Cost'
  BY <1>1, <1>2, <1>3, <1>4, <1>5
<1> QED BY <1>2, <1>6 DEF LettersAllowed

\* What another consumer believes stays recent when the counts of what has
\* been read grow by what goes idle no more, or by what that costs.
LEMMA OthersStayRecent ==
    ASSUME TypeOK, TypeOK', RetryInv, NEW d \in Consumers, WorkWasDelivered(d),
           consumer'[d] = consumer[d],
           \A e \in Entries : e <= lastRead =>
               deliveries'[e] + Num(e \in idle') + Cost
                 <= deliveries[e] + Num(e \in idle) + Cost'
    PROVE  BatchInTurn(d)' /\ AttemptsAreRecent(d)'
<1>1. Cost \in Nat /\ Cost' \in Nat
  BY CostIsCounted
<1>2. consumer[d] \in Consumer
  BY DEF TypeOK
<1>3. ASSUME NEW w \in consumer[d].listed \cup consumer[d].queue
      PROVE  deliveries'[w.id] + Num(w.id \in idle') <= w.attempts + Cost' + 1
  <2>1. w.id \in Entries /\ w.id <= lastRead /\ w.attempts \in Nat
    BY <1>2 DEF WorkWasDelivered, Consumer, Work
  <2>2. deliveries[w.id] + Num(w.id \in idle) <= w.attempts + Cost + 1
    BY DEF RetryInv, AttemptsAreRecent
  <2>3. deliveries'[w.id] + Num(w.id \in idle') + Cost
          <= deliveries[w.id] + Num(w.id \in idle) + Cost'
    BY <2>1
  <2>4. /\ deliveries[w.id] \in Nat /\ deliveries'[w.id] \in Nat
        /\ Num(w.id \in idle) \in Nat /\ Num(w.id \in idle') \in Nat
    BY <2>1 DEF TypeOK, Num
  <2> QED BY <1>1, <2>1, <2>2, <2>3, <2>4
<1>4. AttemptsAreRecent(d)'
  BY <1>3 DEF AttemptsAreRecent
<1>5. BatchInTurn(d)'
  BY DEF RetryInv, BatchInTurn
<1> QED BY <1>4, <1>5

\* A consumer's step keeps the invariant when its own attempts stay recent, no
\* entry is delivered once too often, and nothing of an entry is used twice.
LEMMA AllowanceIsKept ==
    ASSUME TypeOK, TypeOK', RetryInv, NEW c \in Consumers,
           \A d \in Consumers : d # c => consumer'[d] = consumer[d],
           \A d \in Consumers : WorkWasDelivered(d),
           BatchInTurn(c)', AttemptsAreRecent(c)',
           \A e \in Entries : e <= lastRead =>
               deliveries'[e] + Num(e \in idle') + Cost
                 <= deliveries[e] + Num(e \in idle) + Cost',
           \A e \in Entries : DeliveriesAllowed(e)',
           \A e \in Entries :
               deadLetters'[e] + Num(c \in Live(e)') + Num(Waiting(e)') + Cost
                 <= deadLetters[e] + Num(c \in Live(e)) + Num(Waiting(e)) + Cost'
    PROVE  RetryInv'
<1>1. ASSUME NEW e \in Entries PROVE LettersAllowed(e)'
  <2>1. /\ LettersAllowed(e)
        /\ deadLetters'[e] + Num(c \in Live(e)') + Num(Waiting(e)') + Cost
             <= deadLetters[e] + Num(c \in Live(e)) + Num(Waiting(e)) + Cost'
    BY DEF RetryInv
  <2> QED BY <2>1, LettersStayAllowed
<1>2. ASSUME NEW d \in Consumers, d # c PROVE BatchInTurn(d)' /\ AttemptsAreRecent(d)'
  <2>1. consumer'[d] = consumer[d] /\ WorkWasDelivered(d)
    BY <1>2
  <2> QED BY <2>1, OthersStayRecent
<1> QED BY <1>1, <1>2 DEF RetryInv

\* A step that leaves an entry and who has it alone uses none of its allowance.
LEMMA EntryStays ==
    ASSUME TypeOK, TypeOK', RetryInv, NEW c \in Consumers, NEW e \in Entries,
           \A d \in Consumers : d # c => consumer'[d] = consumer[d],
           e \in pending' <=> e \in pending, e \in idle' <=> e \in idle,
           Has(c, e)' <=> Has(c, e), Moved(c, e)' <=> Moved(c, e),
           deliveries'[e] = deliveries[e], deadLetters'[e] = deadLetters[e],
           Cost' >= Cost
    PROVE  /\ DeliveriesAllowed(e)'
           /\ deadLetters'[e] + Num(c \in Live(e)') + Num(Waiting(e)') + Cost
                <= deadLetters[e] + Num(c \in Live(e)) + Num(Waiting(e)) + Cost'
<1>1. Waiting(e)' <=> Waiting(e)
  BY WaitingTurns
<1>2. c \in Live(e)' <=> c \in Live(e)
  BY DEF Live
<1>3. /\ Cost \in Nat /\ Cost' \in Nat
      /\ deliveries[e] \in Nat /\ deadLetters[e] \in Nat
      /\ MaxRetries \in Nat
  BY CostIsCounted, BoundsAssumption DEF TypeOK
<1>4. /\ Num(Waiting(e)') = Num(Waiting(e)) /\ Num(Waiting(e)) \in Nat
      /\ Num(c \in Live(e)') = Num(c \in Live(e)) /\ Num(c \in Live(e)) \in Nat
  BY <1>1, <1>2 DEF Num
<1>5. deliveries[e] + Num(Waiting(e)) <= MaxRetries + 1 + Cost
  BY DEF RetryInv, DeliveriesAllowed
<1>6. deliveries'[e] + Num(Waiting(e)') <= MaxRetries + 1 + Cost'
  BY <1>3, <1>4, <1>5
<1> QED BY <1>3, <1>4, <1>6 DEF DeliveriesAllowed

-----------------------------------------------------------------------------

\* The counter of a consumer moves and its batch stays.
LEMMA CounterLeavesBatch ==
    ASSUME TypeOK, NEW c \in Consumers, NEW pc \in {"ack", "move", "drop"},
           consumer' = [consumer EXCEPT ![c].pc = pc]
    PROVE  /\ \A d \in Consumers : d # c => consumer'[d] = consumer[d]
           /\ consumer'[c].pc = pc
           /\ consumer'[c].queue = consumer[c].queue
           /\ consumer'[c].listed = consumer[c].listed
           /\ Current(c)' = Current(c)
           /\ \A e : Has(c, e)' <=> Has(c, e)
           /\ BatchInTurn(c)'
<1>1. /\ \A d \in Consumers : d # c => consumer'[d] = consumer[d]
      /\ consumer'[c].pc = pc
      /\ consumer'[c].queue = consumer[c].queue
      /\ consumer'[c].listed = consumer[c].listed
  BY DEF TypeOK, Consumer
<1> QED BY <1>1 DEF Current, Has, BatchInTurn

\* The next entry: the batch loses the current one only.
LEMMA NextEntryLeavesRest ==
    ASSUME TypeOK, NEW c \in Consumers, WorkWasDelivered(c),
           NEW w \in Current(c), NextEntry(c, w)
    PROVE  /\ \A d \in Consumers : d # c => consumer'[d] = consumer[d]
           /\ consumer'[c].queue \subseteq consumer[c].queue
           /\ consumer'[c].listed \subseteq consumer[c].listed
           /\ \A e : Has(c, e)' <=> Has(c, e) /\ e # w.id
           /\ \A e : ~Moved(c, e)'
           /\ BatchInTurn(c)'
<1>1. consumer[c] \in Consumer
  BY DEF TypeOK
<1>2. PICK new : new = IF consumer[c].queue = {w}
                         THEN [AtTop EXCEPT !.pc = consumer[c].then]
                         ELSE [consumer[c] EXCEPT !.pc = "handle", !.queue = @ \ {w}]
  OBVIOUS
<1>3. /\ new.queue = consumer[c].queue \ {w}
      /\ new.listed \subseteq consumer[c].listed
      /\ new.pc \in {"top", "read", "handle"}
      /\ new.queue # {} => new.pc = "handle"
  <2>1. CASE consumer[c].queue = {w}
    <3>1. new.queue = {} /\ new.listed = {} /\ new.pc = consumer[c].then
      BY <1>2, <2>1 DEF AtTop
    <3> QED BY <1>1, <2>1, <3>1 DEF Consumer
  <2>2. CASE consumer[c].queue # {w}
    BY <1>1, <1>2, <2>2 DEF Consumer
  <2> QED BY <2>1, <2>2
<1>4. consumer' = [consumer EXCEPT ![c] = new]
  BY <1>2 DEF NextEntry, TypeOK
<1>5. /\ \A d \in Consumers : d # c => consumer'[d] = consumer[d]
      /\ consumer'[c] = new
  BY <1>4 DEF TypeOK
<1>6. w \in consumer[c].queue /\ \A v \in consumer[c].queue : v.id = w.id => v = w
  BY DEF Current, WorkWasDelivered
<1>7. \A e : Has(c, e)' <=> Has(c, e) /\ e # w.id
  BY <1>3, <1>5, <1>6 DEF Has
<1>8. (\A e : ~Moved(c, e)') /\ BatchInTurn(c)'
  BY <1>3, <1>5 DEF Moved, BatchInTurn
<1> QED BY <1>3, <1>5, <1>7, <1>8

\* A new batch takes the place of the old one.
LEMMA ProcessReplacesBatch ==
    ASSUME TypeOK, NEW c \in Consumers, NEW work \in SUBSET Work,
           NEW pc \in {"top", "read"}, Process(c, work, pc)
    PROVE  /\ \A d \in Consumers : d # c => consumer'[d] = consumer[d]
           /\ consumer'[c].queue = work /\ consumer'[c].listed = {}
           /\ \A e : ~Moved(c, e)'
           /\ BatchInTurn(c)'
<1>1. PICK new : new = IF work = {} THEN [AtTop EXCEPT !.pc = pc]
                       ELSE [AtTop EXCEPT !.pc = "handle", !.queue = work, !.then = pc]
  OBVIOUS
<1>2. /\ new.listed = {} /\ new.queue = work
      /\ new.pc \in {"top", "read", "handle"}
      /\ work # {} => new.pc = "handle"
  BY <1>1 DEF AtTop
<1>3. consumer' = [consumer EXCEPT ![c] = new]
  BY <1>1 DEF Process
<1>4. /\ \A d \in Consumers : d # c => consumer'[d] = consumer[d]
      /\ consumer'[c] = new
  BY <1>3 DEF TypeOK
<1> QED BY <1>2, <1>4 DEF Moved, BatchInTurn

\* The current entry is in the batch, and no other can have been moved.
LEMMA OnlyTheCurrentMoves ==
    ASSUME TypeOK, NEW c \in Consumers, WorkWasDelivered(c), NEW w \in Current(c)
    PROVE  /\ w \in consumer[c].queue /\ w \in Work
           /\ w.id \in Entries /\ w.id <= lastRead /\ w.attempts \in Nat
           /\ Has(c, w.id)
           /\ \A e : Moved(c, e) <=> consumer[c].pc = "drop" /\ e = w.id
<1>1. w \in consumer[c].queue /\ consumer[c] \in Consumer
  BY DEF Current, TypeOK
<1>2. w \in Work /\ w.id \in Entries /\ w.attempts \in Nat
  BY <1>1 DEF Consumer, Work
<1>3. w.id <= lastRead /\ Has(c, w.id)
  BY <1>1 DEF WorkWasDelivered, Has
<1>4. \A e : Moved(c, e) <=> consumer[c].pc = "drop" /\ e = w.id
  BY OneEntryIsCurrent DEF Moved
<1> QED BY <1>1, <1>2, <1>3, <1>4

\* A step inside processStreamEntry: only the current entry can change.
LEMMA AtTheCurrentEntry ==
    ASSUME StreamInv, StreamInv', RetryInv, NEW c \in Consumers, NEW w \in Current(c),
           \A d \in Consumers : d # c => consumer'[d] = consumer[d],
           consumer'[c].queue \subseteq consumer[c].queue,
           consumer'[c].listed \subseteq consumer[c].listed,
           UNCHANGED deliveries, idle' \subseteq idle, Cost' >= Cost,
           BatchInTurn(c)',
           \A e \in Entries : e # w.id =>
               /\ e \in pending' <=> e \in pending
               /\ e \in idle' <=> e \in idle
               /\ Has(c, e)' <=> Has(c, e)
               /\ ~Moved(c, e)'
               /\ deadLetters'[e] = deadLetters[e],
           DeliveriesAllowed(w.id)',
           deadLetters'[w.id] + Num(c \in Live(w.id)') + Num(Waiting(w.id)') + Cost
             <= deadLetters[w.id] + Num(c \in Live(w.id)) + Num(Waiting(w.id)) + Cost'
    PROVE  RetryInv'
<1>1. /\ TypeOK /\ TypeOK' /\ consumer[c] \in Consumer
      /\ \A d \in Consumers : WorkWasDelivered(d)
  BY DEF StreamInv, TypeOK
<1>2. Cost \in Nat /\ Cost' \in Nat
  BY <1>1, CostIsCounted
<1>3. ASSUME NEW e \in Entries, e # w.id
      PROVE  /\ DeliveriesAllowed(e)'
             /\ deadLetters'[e] + Num(c \in Live(e)') + Num(Waiting(e)') + Cost
                  <= deadLetters[e] + Num(c \in Live(e)) + Num(Waiting(e)) + Cost'
  <2>1. ~Moved(c, e)
    BY <1>1, <1>3, OnlyTheCurrentMoves
  <2>2. /\ e \in pending' <=> e \in pending
        /\ e \in idle' <=> e \in idle
        /\ Has(c, e)' <=> Has(c, e)
        /\ Moved(c, e)' <=> Moved(c, e)
        /\ deadLetters'[e] = deadLetters[e]
        /\ deliveries'[e] = deliveries[e]
    BY <1>3, <2>1
  <2> QED BY <1>1, <2>2, EntryStays
<1>4. \A e \in Entries : /\ deliveries'[e] = deliveries[e] /\ deliveries[e] \in Nat
                         /\ Num(e \in idle') <= Num(e \in idle)
                         /\ Num(e \in idle) \in Nat /\ Num(e \in idle') \in Nat
  <2> TAKE e \in Entries
  <2>1. deliveries'[e] = deliveries[e] /\ deliveries[e] \in Nat
    BY <1>1 DEF TypeOK
  <2>2. e \in idle' => e \in idle
    OBVIOUS
  <2>3. /\ Num(e \in idle') <= Num(e \in idle)
        /\ Num(e \in idle) \in Nat /\ Num(e \in idle') \in Nat
    BY <2>2 DEF Num
  <2> QED BY <2>1, <2>3
<1>5. \A e \in Entries : e <= lastRead =>
          deliveries'[e] + Num(e \in idle') + Cost <= deliveries[e] + Num(e \in idle) + Cost'
  BY <1>2, <1>4
<1>6. AttemptsAreRecent(c)'
  <2>1. SUFFICES ASSUME NEW v \in consumer[c].listed \cup consumer[c].queue
                 PROVE  deliveries'[v.id] + Num(v.id \in idle') <= v.attempts + Cost' + 1
    BY DEF AttemptsAreRecent
  <2>2. v.id \in Entries /\ v.attempts \in Nat
    BY <1>1 DEF Consumer, Work
  <2>3. deliveries[v.id] + Num(v.id \in idle) <= v.attempts + Cost + 1
    BY DEF RetryInv, AttemptsAreRecent
  <2> QED BY <1>2, <1>4, <2>2, <2>3
<1>7. \A e \in Entries : DeliveriesAllowed(e)'
  BY <1>3
<1>8. \A e \in Entries :
          deadLetters'[e] + Num(c \in Live(e)') + Num(Waiting(e)') + Cost
            <= deadLetters[e] + Num(c \in Live(e)) + Num(Waiting(e)) + Cost'
  BY <1>3
<1> QED BY <1>1, <1>5, <1>6, <1>7, <1>8, AllowanceIsKept

\* What the current entry uses, by what becomes of it.
LEMMA CurrentIsSettled ==
    ASSUME StreamInv, StreamInv', RetryInv, NEW c \in Consumers, NEW w \in Current(c),
           UNCHANGED deliveries, Cost' >= Cost,
           Waiting(w.id)' => Waiting(w.id) \/ Cost' > Cost
                               \/ (~GivesUp(w) /\ c \in Live(w.id) /\ c \notin Live(w.id)'),
           c \in Live(w.id)' => c \in Live(w.id),
           \/ deadLetters'[w.id] = deadLetters[w.id]
           \/ /\ deadLetters'[w.id] = deadLetters[w.id] + 1
              /\ c \in Live(w.id) /\ c \notin Live(w.id)'
              /\ Waiting(w.id)' => Waiting(w.id)
    PROVE  /\ DeliveriesAllowed(w.id)'
           /\ deadLetters'[w.id] + Num(c \in Live(w.id)') + Num(Waiting(w.id)') + Cost
                <= deadLetters[w.id] + Num(c \in Live(w.id)) + Num(Waiting(w.id)) + Cost'
<1>1. TypeOK /\ TypeOK' /\ WorkWasDelivered(c) /\ MaxRetries \in Nat
  BY BoundsAssumption DEF StreamInv
<1>2. Cost \in Nat /\ Cost' \in Nat
  BY <1>1, CostIsCounted
<1>3. /\ w \in consumer[c].queue /\ w.id \in Entries /\ w.attempts \in Nat
  BY <1>1, OnlyTheCurrentMoves
<1>4. /\ deliveries'[w.id] = deliveries[w.id] /\ deliveries[w.id] \in Nat
      /\ deadLetters[w.id] \in Nat
  BY <1>1, <1>3 DEF TypeOK
<1>5. /\ deliveries[w.id] + Num(Waiting(w.id)) <= MaxRetries + 1 + Cost
      /\ deliveries[w.id] + Num(w.id \in idle) <= w.attempts + Cost + 1
  BY <1>3 DEF RetryInv, DeliveriesAllowed, AttemptsAreRecent
<1>6. PICK b \in BOOLEAN, d \in BOOLEAN, i \in BOOLEAN, l \in BOOLEAN, m \in BOOLEAN :
        /\ b <=> Waiting(w.id)
        /\ d <=> Waiting(w.id)'
        /\ i <=> w.id \in idle
        /\ l <=> c \in Live(w.id)
        /\ m <=> c \in Live(w.id)'
  OBVIOUS
<1>7. /\ Num(b) = Num(Waiting(w.id)) /\ Num(d) = Num(Waiting(w.id)')
      /\ Num(i) = Num(w.id \in idle)
      /\ Num(l) = Num(c \in Live(w.id)) /\ Num(m) = Num(c \in Live(w.id)')
  BY <1>6 DEF Num
<1>8. deliveries[w.id] + Num(d) <= MaxRetries + 1 + Cost'
  <2>1. CASE ~GivesUp(w)
    <3>1. w.attempts < MaxRetries
      BY <1>1, <1>3, <2>1 DEF GivesUp
    <3>2. Num(i) \in Nat /\ Num(d) \in {0, 1}
      BY DEF Num
    <3> QED BY <1>1, <1>2, <1>3, <1>4, <1>5, <1>7, <3>1, <3>2
  <2>2. CASE GivesUp(w)
    <3>1. d => b \/ Cost' > Cost
      BY <1>6, <2>2
    <3>2. Num(d) <= Num(b) \/ (Num(d) <= 1 /\ Num(b) >= 0 /\ Cost' > Cost)
      BY <3>1 DEF Num
    <3>3. Num(b) \in Nat /\ Num(d) \in Nat
      BY DEF Num
    <3> QED BY <1>1, <1>2, <1>4, <1>5, <1>7, <3>2, <3>3
  <2> QED BY <2>1, <2>2
<1>9. DeliveriesAllowed(w.id)'
  BY <1>4, <1>7, <1>8 DEF DeliveriesAllowed
<1>10. /\ d => b \/ Cost' > Cost \/ (l /\ ~m)
       /\ m => l
       /\ \/ deadLetters'[w.id] = deadLetters[w.id]
          \/ deadLetters'[w.id] = deadLetters[w.id] + 1 /\ l /\ ~m /\ (d => b)
  BY <1>6
<1>11. deadLetters'[w.id] + Num(m) + Num(d) + Cost
         <= deadLetters[w.id] + Num(l) + Num(b) + Cost'
  BY <1>2, <1>4, <1>10 DEF Num
<1> QED BY <1>7, <1>9, <1>11

\* dispatch and its catch block, and an XACK that throws.
LEMMA CatchKeepsRetry ==
    ASSUME StreamInv, StreamInv', RetryInv, NEW c \in Consumers, NEW w \in Current(c),
           consumer[c].pc \in {"handle", "ack"},
           \/ Catch(c, w)
           \/ consumer' = [consumer EXCEPT ![c].pc = "ack"],
           UNCHANGED <<deliveries, deadLetters>>, Cost' >= Cost,
           Acknowledge(w.id) \/ UNCHANGED <<pending, idle>>
    PROVE  RetryInv'
<1>1. TypeOK /\ WorkWasDelivered(c)
  BY DEF StreamInv
<1>2. /\ Has(c, w.id) /\ w.id \in Entries
      /\ \A e : ~Moved(c, e)
  BY <1>1, OnlyTheCurrentMoves
<1>3. /\ idle' \subseteq idle /\ pending' \subseteq pending
      /\ \A e : e # w.id => (e \in pending' <=> e \in pending) /\ (e \in idle' <=> e \in idle)
  BY DEF Acknowledge
<1>4. c \in Live(w.id)
  BY <1>2 DEF Live
<1>5. CASE GivesUp(w) \/ ~Catch(c, w)
  <2>1. PICK pc \in {"ack", "move"} : consumer' = [consumer EXCEPT ![c].pc = pc]
    BY <1>5 DEF Catch
  <2>2. /\ \A d \in Consumers : d # c => consumer'[d] = consumer[d]
        /\ consumer'[c].pc = pc
        /\ consumer'[c].queue = consumer[c].queue
        /\ consumer'[c].listed = consumer[c].listed
        /\ \A e : Has(c, e)' <=> Has(c, e)
        /\ BatchInTurn(c)'
    BY <1>1, <2>1, CounterLeavesBatch
  <2>3. \A e : ~Moved(c, e)'
    BY <2>2 DEF Moved
  <2>4. Waiting(w.id)' => Waiting(w.id)
    BY <1>3, <2>2, WaitingTurns
  <2>5. c \in Live(w.id)'
    BY <1>2, <2>2, <2>3 DEF Live
  <2>6. deadLetters'[w.id] = deadLetters[w.id] /\ UNCHANGED deliveries
    OBVIOUS
  <2>7. /\ DeliveriesAllowed(w.id)'
        /\ deadLetters'[w.id] + Num(c \in Live(w.id)') + Num(Waiting(w.id)') + Cost
             <= deadLetters[w.id] + Num(c \in Live(w.id)) + Num(Waiting(w.id)) + Cost'
    BY <1>4, <2>4, <2>5, <2>6, CurrentIsSettled
  <2>8. \A e \in Entries : e # w.id =>
            /\ e \in pending' <=> e \in pending
            /\ e \in idle' <=> e \in idle
            /\ Has(c, e)' <=> Has(c, e)
            /\ ~Moved(c, e)'
            /\ deadLetters'[e] = deadLetters[e]
    BY <1>3, <2>2, <2>3
  <2>9. /\ consumer'[c].queue \subseteq consumer[c].queue
        /\ consumer'[c].listed \subseteq consumer[c].listed
    BY <2>2
  <2> QED BY <1>3, <2>2, <2>6, <2>7, <2>8, <2>9, AtTheCurrentEntry
<1>6. CASE ~GivesUp(w) /\ Catch(c, w)
  <2>1. NextEntry(c, w)
    BY <1>6 DEF Catch
  <2>2. /\ \A d \in Consumers : d # c => consumer'[d] = consumer[d]
        /\ consumer'[c].queue \subseteq consumer[c].queue
        /\ consumer'[c].listed \subseteq consumer[c].listed
        /\ \A e : Has(c, e)' <=> Has(c, e) /\ e # w.id
        /\ \A e : ~Moved(c, e)'
        /\ BatchInTurn(c)'
    BY <1>1, <2>1, NextEntryLeavesRest
  <2>3. c \notin Live(w.id)'
    BY <2>2 DEF Live
  <2>4. deadLetters'[w.id] = deadLetters[w.id] /\ UNCHANGED deliveries
    OBVIOUS
  <2>5. /\ DeliveriesAllowed(w.id)'
        /\ deadLetters'[w.id] + Num(c \in Live(w.id)') + Num(Waiting(w.id)') + Cost
             <= deadLetters[w.id] + Num(c \in Live(w.id)) + Num(Waiting(w.id)) + Cost'
    BY <1>4, <1>6, <2>3, <2>4, CurrentIsSettled
  <2>6. \A e \in Entries : e # w.id =>
            /\ e \in pending' <=> e \in pending
            /\ e \in idle' <=> e \in idle
            /\ Has(c, e)' <=> Has(c, e)
            /\ ~Moved(c, e)'
            /\ deadLetters'[e] = deadLetters[e]
    BY <1>3, <2>2
  <2> QED BY <1>3, <2>2, <2>4, <2>5, <2>6, AtTheCurrentEntry
<1> QED BY <1>5, <1>6

LEMMA DispatchKeepsRetry ==
    ASSUME StreamInv, StreamInv', RetryInv, NEW c \in Consumers, Dispatch(c)
    PROVE  RetryInv'
<1>1. /\ UNCHANGED <<deliveries, deadLetters>> /\ UNCHANGED <<pending, idle>>
      /\ consumer[c].pc \in {"handle", "ack"}
      /\ UNCHANGED <<failures, overruns>>
  BY DEF Dispatch, entryVars
<1>2. PICK w \in Current(c) : \/ Catch(c, w)
                              \/ consumer' = [consumer EXCEPT ![c].pc = "ack"]
  BY DEF Dispatch
<1>3. Cost' >= Cost
  BY <1>1, CostIsCounted DEF StreamInv, Cost
<1> QED BY <1>1, <1>2, <1>3, CatchKeepsRetry

LEMMA AckFailsKeepsRetry ==
    ASSUME StreamInv, StreamInv', RetryInv, NEW c \in Consumers, AckFails(c)
    PROVE  RetryInv'
<1>1. /\ UNCHANGED <<deliveries, deadLetters>>
      /\ consumer[c].pc \in {"handle", "ack"}
      /\ failures' = failures + 1 /\ UNCHANGED overruns
  BY DEF AckFails
<1>2. PICK w \in Current(c) : /\ Acknowledge(w.id) \/ UNCHANGED <<pending, idle>>
                              /\ Catch(c, w)
  BY DEF AckFails
<1>3. Cost' >= Cost
  BY <1>1, BoundsAssumption DEF StreamInv, TypeOK, Cost
<1> QED BY <1>1, <1>2, <1>3, CatchKeepsRetry

\* XACK takes the entry from the group: nobody can have it again.
LEMMA AcknowledgementKeepsRetry ==
    ASSUME StreamInv, StreamInv', RetryInv, NEW c \in Consumers, Ack(c) \/ DropMoved(c)
    PROVE  RetryInv'
<1>1. TypeOK /\ WorkWasDelivered(c)
  BY DEF StreamInv
<1>2. /\ UNCHANGED deliveries /\ UNCHANGED <<deadLetters, failures, overruns>>
      /\ consumer[c].pc \in {"ack", "drop"}
  BY DEF Ack, DropMoved
<1>3. PICK w \in Current(c) : Acknowledge(w.id) /\ NextEntry(c, w)
  BY DEF Ack, DropMoved
<1>4. Cost' >= Cost
  BY <1>1, <1>2, CostIsCounted DEF Cost
<1>5. /\ idle' \subseteq idle /\ w.id \notin pending'
      /\ \A e : e # w.id => (e \in pending' <=> e \in pending) /\ (e \in idle' <=> e \in idle)
  BY <1>3 DEF Acknowledge
<1>6. /\ \A d \in Consumers : d # c => consumer'[d] = consumer[d]
      /\ consumer'[c].queue \subseteq consumer[c].queue
      /\ consumer'[c].listed \subseteq consumer[c].listed
      /\ \A e : Has(c, e)' <=> Has(c, e) /\ e # w.id
      /\ \A e : ~Moved(c, e)'
      /\ BatchInTurn(c)'
  BY <1>1, <1>3, NextEntryLeavesRest
<1>7. ~Waiting(w.id)' /\ c \notin Live(w.id)'
  BY <1>5, <1>6 DEF Waiting, Live
<1>8. deadLetters'[w.id] = deadLetters[w.id]
  BY <1>2
<1>9. /\ DeliveriesAllowed(w.id)'
      /\ deadLetters'[w.id] + Num(c \in Live(w.id)') + Num(Waiting(w.id)') + Cost
           <= deadLetters[w.id] + Num(c \in Live(w.id)) + Num(Waiting(w.id)) + Cost'
  BY <1>2, <1>4, <1>7, <1>8, CurrentIsSettled
<1>10. \A e \in Entries : e # w.id =>
          /\ e \in pending' <=> e \in pending
          /\ e \in idle' <=> e \in idle
          /\ Has(c, e)' <=> Has(c, e)
          /\ ~Moved(c, e)'
          /\ deadLetters'[e] = deadLetters[e]
  BY <1>2, <1>5, <1>6
<1> QED BY <1>2, <1>4, <1>5, <1>6, <1>9, <1>10, AtTheCurrentEntry

\* moveToDlq writes its copy in the place of the consumer that had the entry.
LEMMA MoveToDlqKeepsRetry ==
    ASSUME StreamInv, StreamInv', RetryInv, NEW c \in Consumers, MoveToDlq(c)
    PROVE  RetryInv'
<1>1. TypeOK /\ WorkWasDelivered(c)
  BY DEF StreamInv
<1>2. /\ UNCHANGED deliveries /\ UNCHANGED <<pending, idle, failures, overruns>>
      /\ consumer[c].pc = "move"
      /\ consumer' = [consumer EXCEPT ![c].pc = "drop"]
  BY DEF MoveToDlq, entryVars
<1>3. PICK w \in Current(c) : deadLetters' = [deadLetters EXCEPT ![w.id] = @ + 1]
  BY DEF MoveToDlq
<1>4. Cost' >= Cost
  BY <1>1, <1>2, CostIsCounted DEF Cost
<1>5. /\ \A d \in Consumers : d # c => consumer'[d] = consumer[d]
      /\ consumer'[c].pc = "drop"
      /\ consumer'[c].queue = consumer[c].queue
      /\ consumer'[c].listed = consumer[c].listed
      /\ Current(c)' = Current(c)
      /\ \A e : Has(c, e)' <=> Has(c, e)
      /\ BatchInTurn(c)'
  BY <1>1, <1>2, CounterLeavesBatch
<1>6. Has(c, w.id) /\ w.id \in Entries /\ \A e : ~Moved(c, e)
  BY <1>1, <1>2, OnlyTheCurrentMoves
<1>7. \A e : Moved(c, e)' <=> e = w.id
  <2>1. \A v \in Current(c) : v = w
    BY <1>1, OneEntryIsCurrent
  <2>2. \A e : Moved(c, e)' <=> \E v \in Current(c) : v.id = e
    BY <1>5 DEF Moved
  <2> QED BY <2>1, <2>2
<1>8. c \in Live(w.id) /\ c \notin Live(w.id)'
  BY <1>6, <1>7 DEF Live
<1>9. Waiting(w.id)' => Waiting(w.id)
  BY <1>2, <1>5, WaitingTurns
<1>10. deadLetters'[w.id] = deadLetters[w.id] + 1
  BY <1>1, <1>3, <1>6 DEF TypeOK
<1>11. /\ DeliveriesAllowed(w.id)'
       /\ deadLetters'[w.id] + Num(c \in Live(w.id)') + Num(Waiting(w.id)') + Cost
            <= deadLetters[w.id] + Num(c \in Live(w.id)) + Num(Waiting(w.id)) + Cost'
  BY <1>2, <1>4, <1>8, <1>9, <1>10, CurrentIsSettled
<1>12. \A e \in Entries : e # w.id =>
          /\ e \in pending' <=> e \in pending
          /\ e \in idle' <=> e \in idle
          /\ Has(c, e)' <=> Has(c, e)
          /\ ~Moved(c, e)'
          /\ deadLetters'[e] = deadLetters[e]
  BY <1>1, <1>2, <1>3, <1>5, <1>7 DEF TypeOK
<1>13. /\ consumer'[c].queue \subseteq consumer[c].queue
       /\ consumer'[c].listed \subseteq consumer[c].listed
       /\ idle' \subseteq idle
  BY <1>2, <1>5
<1> QED BY <1>2, <1>4, <1>5, <1>11, <1>12, <1>13, AtTheCurrentEntry

\* A consumer that starts over hands its batch back, at the cost of a failure.
LEMMA StartOverKeepsRetry ==
    ASSUME StreamInv, StreamInv', RetryInv, NEW c \in Consumers, StartOver(c)
    PROVE  RetryInv'
<1>1. /\ TypeOK /\ TypeOK' /\ MaxRetries \in Nat
      /\ \A d \in Consumers : WorkWasDelivered(d)
  BY BoundsAssumption DEF StreamInv
<1>2. /\ UNCHANGED <<deliveries, deadLetters, pending, idle, overruns>>
      /\ failures' = failures + 1
      /\ consumer' = [consumer EXCEPT ![c] = AtTop]
  BY DEF StartOver, entryVars
<1>3. Cost \in Nat /\ Cost' = Cost + 1
  BY <1>1, <1>2, CostIsCounted, BoundsAssumption DEF TypeOK, Cost
<1>4. AtTop.listed = {} /\ AtTop.queue = {} /\ AtTop.pc = "top"
  BY DEF AtTop
<1>5. /\ \A d \in Consumers : d # c => consumer'[d] = consumer[d]
      /\ consumer'[c] = AtTop
  BY <1>1, <1>2 DEF TypeOK
<1>6. /\ \A e : ~Has(c, e)'
      /\ BatchInTurn(c)' /\ AttemptsAreRecent(c)'
  BY <1>4, <1>5 DEF Has, BatchInTurn, AttemptsAreRecent
<1>7. ASSUME NEW e \in Entries
      PROVE  /\ DeliveriesAllowed(e)'
             /\ deadLetters'[e] + Num(c \in Live(e)') + Num(Waiting(e)') + Cost
                  <= deadLetters[e] + Num(c \in Live(e)) + Num(Waiting(e)) + Cost'
  <2>1. deliveries[e] \in Nat /\ deadLetters[e] \in Nat
    BY <1>1 DEF TypeOK
  <2>2. deliveries[e] + Num(Waiting(e)) <= MaxRetries + 1 + Cost
    BY DEF RetryInv, DeliveriesAllowed
  <2>3. PICK waits \in Nat, waits2 \in Nat, live \in Nat :
          /\ waits = Num(Waiting(e))
          /\ waits2 = Num(Waiting(e)') /\ waits2 <= 1
          /\ live = Num(c \in Live(e))
    BY DEF Num
  <2>4. Num(c \in Live(e)') = 0
    BY <1>6 DEF Live, Num
  <2>5. deliveries'[e] = deliveries[e] /\ deadLetters'[e] = deadLetters[e]
    BY <1>2
  <2>6. deliveries'[e] + Num(Waiting(e)') <= MaxRetries + 1 + Cost'
    BY <1>1, <1>3, <2>1, <2>2, <2>3, <2>5
  <2>7. deadLetters'[e] + Num(c \in Live(e)') + Num(Waiting(e)') + Cost
          <= deadLetters[e] + Num(c \in Live(e)) + Num(Waiting(e)) + Cost'
    BY <1>3, <2>1, <2>3, <2>4, <2>5
  <2> QED BY <2>6, <2>7 DEF DeliveriesAllowed
<1>8. \A e \in Entries : e <= lastRead =>
          deliveries'[e] + Num(e \in idle') + Cost <= deliveries[e] + Num(e \in idle) + Cost'
  <2> TAKE e \in Entries
  <2>1. deliveries[e] \in Nat /\ Num(e \in idle) \in Nat
    BY <1>1 DEF TypeOK, Num
  <2>2. deliveries'[e] = deliveries[e] /\ Num(e \in idle') = Num(e \in idle)
    BY <1>2
  <2> QED BY <1>3, <2>1, <2>2
<1>9. /\ \A e \in Entries : DeliveriesAllowed(e)'
      /\ \A e \in Entries :
            deadLetters'[e] + Num(c \in Live(e)') + Num(Waiting(e)') + Cost
              <= deadLetters[e] + Num(c \in Live(e)) + Num(Waiting(e)) + Cost'
  BY <1>7
<1> QED BY <1>1, <1>5, <1>6, <1>8, <1>9, AllowanceIsKept

-----------------------------------------------------------------------------

\* reclaimPendingMessages finds nothing to do, or reads the delivery counts.
LEMMA ListPendingKeepsRetry ==
    ASSUME StreamInv, StreamInv', RetryInv, NEW c \in Consumers,
           SkipReclaim(c) \/ ListPending(c)
    PROVE  RetryInv'
<1>1. /\ TypeOK /\ TypeOK' /\ consumer[c] \in Consumer
      /\ \A d \in Consumers : WorkWasDelivered(d)
  BY DEF StreamInv, TypeOK
<1>2. /\ UNCHANGED <<deliveries, deadLetters, pending, idle, failures, overruns>>
      /\ consumer[c].pc = "top"
  BY DEF SkipReclaim, ListPending, entryVars
<1>3. Cost \in Nat /\ Cost' = Cost
  BY <1>1, <1>2, CostIsCounted DEF Cost
<1>4. consumer[c].queue = {}
  BY <1>2 DEF RetryInv, BatchInTurn
<1>5. /\ \A d \in Consumers : d # c => consumer'[d] = consumer[d]
      /\ consumer'[c].queue = {}
      /\ consumer'[c].pc \in {"read", "claim"}
      /\ consumer'[c].listed \subseteq
             consumer[c].listed \cup {[id |-> e, attempts |-> deliveries[e]] :
                                         e \in OldestPending \cap idle}
  BY <1>1, <1>4 DEF SkipReclaim, ListPending, TypeOK, Consumer
<1>6. /\ \A e : ~Has(c, e) /\ ~Has(c, e)'
      /\ \A e : ~Moved(c, e) /\ ~Moved(c, e)'
      /\ BatchInTurn(c)'
  BY <1>2, <1>4, <1>5 DEF Has, Moved, BatchInTurn
<1>7. AttemptsAreRecent(c)'
  <2>1. SUFFICES ASSUME NEW w \in consumer'[c].listed
                 PROVE  deliveries[w.id] + Num(w.id \in idle) <= w.attempts + Cost + 1
    BY <1>2, <1>3, <1>5 DEF AttemptsAreRecent
  <2>2. CASE w \in consumer[c].listed
    BY <2>2 DEF RetryInv, AttemptsAreRecent
  <2>3. ASSUME NEW e \in idle, w = [id |-> e, attempts |-> deliveries[e]]
        PROVE  deliveries[w.id] + Num(w.id \in idle) <= w.attempts + Cost + 1
    <3>1. e \in Entries /\ deliveries[e] \in Nat
      BY <1>1, PendingWereRead DEF TypeOK
    <3>2. Num(w.id \in idle) \in {0, 1}
      BY DEF Num
    <3> QED BY <1>3, <2>3, <3>1, <3>2
  <2> QED BY <1>5, <2>2, <2>3
<1>8. ASSUME NEW e \in Entries
      PROVE  /\ DeliveriesAllowed(e)'
             /\ deadLetters'[e] + Num(c \in Live(e)') + Num(Waiting(e)') + Cost
                  <= deadLetters[e] + Num(c \in Live(e)) + Num(Waiting(e)) + Cost'
  <2>1. /\ e \in pending' <=> e \in pending
        /\ e \in idle' <=> e \in idle
        /\ Has(c, e)' <=> Has(c, e)
        /\ Moved(c, e)' <=> Moved(c, e)
        /\ deliveries'[e] = deliveries[e] /\ deadLetters'[e] = deadLetters[e]
        /\ Cost' >= Cost
    BY <1>2, <1>3, <1>6
  <2> QED BY <1>1, <1>5, <2>1, EntryStays
<1>9. \A e \in Entries : e <= lastRead =>
          deliveries'[e] + Num(e \in idle') + Cost <= deliveries[e] + Num(e \in idle) + Cost'
  <2> TAKE e \in Entries
  <2>1. deliveries[e] \in Nat /\ Num(e \in idle) \in Nat
    BY <1>1 DEF TypeOK, Num
  <2>2. deliveries'[e] = deliveries[e] /\ Num(e \in idle') = Num(e \in idle)
    BY <1>2
  <2> QED BY <1>3, <2>1, <2>2
<1>10. /\ \A e \in Entries : DeliveriesAllowed(e)'
       /\ \A e \in Entries :
             deadLetters'[e] + Num(c \in Live(e)') + Num(Waiting(e)') + Cost
               <= deadLetters[e] + Num(c \in Live(e)) + Num(Waiting(e)) + Cost'
  BY <1>8
<1> QED BY <1>1, <1>5, <1>6, <1>7, <1>9, <1>10, AllowanceIsKept

\* What XCLAIM hands over, and what it leaves alone.
LEMMA ClaimTakesIdle ==
    ASSUME TypeOK, NEW c \in Consumers, ClaimIdle(c)
    PROVE  /\ \A d \in Consumers : d # c => consumer'[d] = consumer[d]
           /\ consumer'[c].queue = {w \in consumer[c].listed : w.id \in idle}
           /\ consumer'[c].listed = {}
           /\ \A e : ~Moved(c, e)'
           /\ BatchInTurn(c)'
           /\ UNCHANGED <<pending, deadLetters, failures, overruns>>
           /\ \A e : e \in idle' <=> e \in idle /\ ~Has(c, e)'
           /\ \A e : Has(c, e)' => e \in idle
           /\ \A e \in Entries : deliveries'[e] = deliveries[e] + Num(Has(c, e)')
<1> DEFINE claimed == {w \in consumer[c].listed : Claimable(w)}
           ids == {w.id : w \in claimed}
           work == {[w EXCEPT !.attempts = AttemptsOf(w)] : w \in claimed}
<1>1. /\ UNCHANGED <<pending, deadLetters, failures, overruns>>
      /\ idle' = idle \ ids
      /\ deliveries' = [e \in Entries |-> IF e \in ids THEN deliveries[e] + 1
                                                       ELSE deliveries[e]]
      /\ Process(c, work, "read")
  BY DEF ClaimIdle
<1>2. \A w \in claimed : /\ w \in Work
                         /\ [w EXCEPT !.attempts = AttemptsOf(w)] = w
  BY DEF TypeOK, Consumer, Work, AttemptsOf
<1>3. work = claimed
  BY <1>2
<1>4. claimed \in SUBSET Work /\ claimed = {w \in consumer[c].listed : w.id \in idle}
  BY <1>2 DEF Claimable
<1>5. \A e : e \in ids <=> \E w \in claimed : w.id = e
  OBVIOUS
<1>6. \A w \in claimed : w.id \in idle
  BY <1>4
<1> HIDE DEF claimed, ids, work
<1>7. /\ \A d \in Consumers : d # c => consumer'[d] = consumer[d]
      /\ consumer'[c].queue = claimed /\ consumer'[c].listed = {}
      /\ \A e : ~Moved(c, e)'
      /\ BatchInTurn(c)'
  BY <1>1, <1>3, <1>4, ProcessReplacesBatch
<1>8. \A e : Has(c, e)' <=> e \in ids
  BY <1>5, <1>7 DEF Has
<1>9. \A e : /\ e \in idle' <=> e \in idle /\ ~Has(c, e)'
             /\ Has(c, e)' => e \in idle
  BY <1>1, <1>5, <1>6, <1>8
<1>10. \A e \in Entries : deliveries'[e] = deliveries[e] + Num(Has(c, e)')
  <2> TAKE e \in Entries
  <2>1. deliveries'[e] = IF e \in ids THEN deliveries[e] + 1 ELSE deliveries[e]
    BY <1>1
  <2>2. Num(Has(c, e)') = IF e \in ids THEN 1 ELSE 0
    BY <1>8 DEF Num
  <2>3. deliveries[e] \in Nat
    BY DEF TypeOK
  <2> QED BY <2>1, <2>2, <2>3
<1> QED BY <1>1, <1>4, <1>7, <1>9, <1>10

\* XCLAIM turns an entry that waits into one that somebody has.
LEMMA ClaimIdleKeepsRetry ==
    ASSUME StreamInv, StreamInv', RetryInv, NEW c \in Consumers, ClaimIdle(c)
    PROVE  RetryInv'
<1>1. /\ TypeOK /\ TypeOK' /\ consumer[c] \in Consumer /\ MaxRetries \in Nat
      /\ \A d \in Consumers : WorkWasDelivered(d)
  BY BoundsAssumption DEF StreamInv, TypeOK
<1>2. /\ \A d \in Consumers : d # c => consumer'[d] = consumer[d]
      /\ consumer'[c].queue = {w \in consumer[c].listed : w.id \in idle}
      /\ consumer'[c].listed = {}
      /\ \A e : ~Moved(c, e)'
      /\ BatchInTurn(c)'
      /\ UNCHANGED <<pending, deadLetters, failures, overruns>>
      /\ \A e : e \in idle' <=> e \in idle /\ ~Has(c, e)'
      /\ \A e : Has(c, e)' => e \in idle
      /\ \A e \in Entries : deliveries'[e] = deliveries[e] + Num(Has(c, e)')
  BY <1>1, ClaimTakesIdle
<1>3. Cost \in Nat /\ Cost' = Cost
  BY <1>1, <1>2, CostIsCounted DEF Cost
<1>4. consumer[c].pc = "claim" /\ consumer[c].queue = {}
  BY DEF ClaimIdle, RetryInv, BatchInTurn
<1>5. \A e : ~Has(c, e)
  BY <1>4 DEF Has
<1>6. ASSUME NEW e \in Entries
      PROVE  /\ deliveries'[e] + Num(e \in idle') = deliveries[e] + Num(e \in idle)
             /\ deliveries[e] \in Nat /\ Num(e \in idle) \in Nat
  <2>1. deliveries[e] \in Nat /\ Num(e \in idle) \in Nat
    BY <1>1 DEF TypeOK, Num
  <2>2. Num(e \in idle) = Num(e \in idle') + Num(Has(c, e)')
    BY <1>2 DEF Num
  <2>3. Num(e \in idle') \in Nat /\ Num(Has(c, e)') \in Nat
    BY DEF Num
  <2> QED BY <1>2, <2>1, <2>2, <2>3
<1>7. AttemptsAreRecent(c)'
  <2>1. SUFFICES ASSUME NEW w \in consumer[c].listed
                 PROVE  deliveries'[w.id] + Num(w.id \in idle') <= w.attempts + Cost + 1
    BY <1>2, <1>3 DEF AttemptsAreRecent
  <2>2. w.id \in Entries
    BY <1>1 DEF Consumer, Work
  <2>3. deliveries[w.id] + Num(w.id \in idle) <= w.attempts + Cost + 1
    BY DEF RetryInv, AttemptsAreRecent
  <2> QED BY <1>6, <2>2, <2>3
<1>8. ASSUME NEW e \in Entries
      PROVE  /\ DeliveriesAllowed(e)'
             /\ deadLetters'[e] + Num(c \in Live(e)') + Num(Waiting(e)') + Cost
                  <= deadLetters[e] + Num(c \in Live(e)) + Num(Waiting(e)) + Cost'
  <2>1. CASE Has(c, e)'
    <3>1. /\ e \in idle /\ e \notin idle' /\ Waiting(e)
      BY <1>1, <1>2, <2>1 DEF TypeOK, Waiting
    <3>2. ~Waiting(e)'
      BY <2>1, <3>1 DEF Waiting
    <3>3. c \notin Live(e) /\ c \in Live(e)'
      BY <1>2, <1>5, <2>1 DEF Live
    <3>4. /\ Num(Waiting(e)) = 1 /\ Num(Waiting(e)') = 0
          /\ Num(c \in Live(e)) = 0 /\ Num(c \in Live(e)') = 1
          /\ Num(Has(c, e)') = 1
      BY <2>1, <3>1, <3>2, <3>3 DEF Num
    <3>5. /\ deliveries'[e] = deliveries[e] + 1 /\ deadLetters'[e] = deadLetters[e]
          /\ deliveries[e] \in Nat /\ deadLetters[e] \in Nat
      BY <1>1, <1>2, <3>4 DEF TypeOK
    <3>6. deliveries[e] + 1 <= MaxRetries + 1 + Cost
      BY <3>4 DEF RetryInv, DeliveriesAllowed
    <3>7. deliveries'[e] + Num(Waiting(e)') <= MaxRetries + 1 + Cost'
      BY <1>1, <1>3, <3>4, <3>5, <3>6
    <3>8. deadLetters'[e] + Num(c \in Live(e)') + Num(Waiting(e)') + Cost
            <= deadLetters[e] + Num(c \in Live(e)) + Num(Waiting(e)) + Cost'
      BY <1>3, <3>4, <3>5
    <3> QED BY <3>7, <3>8 DEF DeliveriesAllowed
  <2>2. CASE ~Has(c, e)'
    <3>1. Num(Has(c, e)') = 0
      BY <2>2 DEF Num
    <3>2. /\ e \in pending' <=> e \in pending
          /\ e \in idle' <=> e \in idle
          /\ Has(c, e)' <=> Has(c, e)
          /\ ~Moved(c, e)'
          /\ deliveries'[e] = deliveries[e] /\ deadLetters'[e] = deadLetters[e]
          /\ Cost' >= Cost
      BY <1>1, <1>2, <1>3, <1>5, <2>2, <3>1 DEF TypeOK
    <3>3. Moved(c, e)' <=> Moved(c, e)
      BY <1>4, <3>2 DEF Moved
    <3> QED BY <1>1, <1>2, <3>2, <3>3, EntryStays
  <2> QED BY <2>1, <2>2
<1>9. \A e \in Entries : e <= lastRead =>
          deliveries'[e] + Num(e \in idle') + Cost <= deliveries[e] + Num(e \in idle) + Cost'
  BY <1>3, <1>6
<1>10. /\ \A e \in Entries : DeliveriesAllowed(e)'
       /\ \A e \in Entries :
             deadLetters'[e] + Num(c \in Live(e)') + Num(Waiting(e)') + Cost
               <= deadLetters[e] + Num(c \in Live(e)) + Num(Waiting(e)) + Cost'
  BY <1>8
<1> QED BY <1>1, <1>2, <1>7, <1>9, <1>10, AllowanceIsKept

\* XREADGROUP hands over what nobody has had: its allowance is untouched.
LEMMA ReadNewKeepsRetry ==
    ASSUME StreamInv, StreamInv', RetryInv, NEW c \in Consumers, ReadNew(c)
    PROVE  RetryInv'
<1> DEFINE work == {[id |-> e, attempts |-> 1] : e \in NewEntries}
<1>1. /\ TypeOK /\ TypeOK' /\ consumer[c] \in Consumer /\ MaxRetries \in Nat
      /\ \A d \in Consumers : WorkWasDelivered(d)
      /\ DeadLettersWereRead
  BY BoundsAssumption DEF StreamInv, TypeOK
<1>2. /\ UNCHANGED <<idle, deadLetters, failures, overruns>>
      /\ pending' = pending \cup NewEntries
      /\ deliveries' = [e \in Entries |-> IF e \in NewEntries THEN 1 ELSE deliveries[e]]
      /\ Process(c, work, "top")
  BY DEF ReadNew
<1>3. Cost \in Nat /\ Cost' = Cost
  BY <1>1, <1>2, CostIsCounted DEF Cost
<1>4. \A e \in NewEntries : e \in Entries /\ e \in Nat /\ e > lastRead
  BY <1>1, PendingWereRead, BoundsAssumption DEF NewEntries, LastNew, Entries
<1>5. work \in SUBSET Work
  BY <1>4 DEF Work
<1>6. /\ \A w \in work : w.id \in NewEntries /\ w.attempts = 1
      /\ \A e \in NewEntries : \E w \in work : w.id = e
  <2>1. ASSUME NEW e \in NewEntries PROVE \E w \in work : w.id = e
    <3>1. [id |-> e, attempts |-> 1] \in work
      OBVIOUS
    <3> QED BY <3>1
  <2> QED BY <2>1
<1> HIDE DEF work
<1>7. /\ \A d \in Consumers : d # c => consumer'[d] = consumer[d]
      /\ consumer'[c].queue = work /\ consumer'[c].listed = {}
      /\ \A e : ~Moved(c, e)'
      /\ BatchInTurn(c)'
  BY <1>1, <1>2, <1>5, ProcessReplacesBatch
<1>8. /\ \A e : Has(c, e)' <=> e \in NewEntries
      /\ \A e : ~Has(c, e)
      /\ \A e : ~Moved(c, e)
  BY <1>6, <1>7 DEF Has, Moved, ReadNew, RetryInv, BatchInTurn
<1>9. \A e \in NewEntries : /\ e \notin pending /\ e \notin idle
                            /\ \A d \in Consumers : ~Has(d, e)
                            /\ deadLetters[e] = 0
  <2> TAKE e \in NewEntries
  <2>1. e \in Entries /\ e \in Nat /\ ~(e <= lastRead) /\ lastRead \in Nat
    BY <1>1, <1>4, PendingWereRead
  <2>2. e \notin pending /\ e \notin idle
    BY <1>1, <2>1, PendingWereRead
  <2>3. \A d \in Consumers : ~Has(d, e)
    BY <1>1, <2>1 DEF Has, WorkWasDelivered
  <2>4. deadLetters[e] = 0
    BY <1>1, <2>1 DEF DeadLettersWereRead, TypeOK
  <2> QED BY <2>2, <2>3, <2>4
<1>10. \A e \in Entries : e <= lastRead =>
          deliveries'[e] + Num(e \in idle') + Cost <= deliveries[e] + Num(e \in idle) + Cost'
  <2> TAKE e \in Entries
  <2> HAVE e <= lastRead
  <2>1. e \notin NewEntries
    BY <1>1, <1>4, PendingWereRead
  <2>2. deliveries'[e] = deliveries[e] /\ Num(e \in idle') = Num(e \in idle)
    BY <1>2, <2>1
  <2>3. deliveries[e] \in Nat /\ Num(e \in idle) \in Nat
    BY <1>1 DEF TypeOK, Num
  <2> QED BY <1>3, <2>2, <2>3
<1>11. AttemptsAreRecent(c)'
  <2>1. SUFFICES ASSUME NEW w \in work
                 PROVE  deliveries'[w.id] + Num(w.id \in idle') <= w.attempts + Cost' + 1
    BY <1>7 DEF AttemptsAreRecent
  <2>2. w.id \in NewEntries /\ w.id \in Entries /\ w.attempts = 1
    BY <1>4, <1>6
  <2>3. deliveries'[w.id] = 1 /\ Num(w.id \in idle') = 0
    BY <1>2, <1>9, <2>2 DEF Num
  <2> QED BY <1>3, <2>2, <2>3
<1>12. ASSUME NEW e \in Entries PROVE DeliveriesAllowed(e)' /\ LettersAllowed(e)'
  <2>1. CASE e \in NewEntries
    <3>1. ~Waiting(e)' /\ Live(e) = {} /\ c \in Live(e)' /\ c \notin Live(e)
      BY <1>2, <1>7, <1>8, <1>9, <2>1 DEF Waiting, Live
    <3>2. /\ Num(Waiting(e)') = 0 /\ Num(c \in Live(e)') = 1 /\ Num(c \in Live(e)) = 0
          /\ IsFiniteSet(Live(e)) /\ Cardinality(Live(e)) = 0
      BY <3>1, FS_EmptySet DEF Num
    <3>3. /\ IsFiniteSet(Live(e)')
          /\ Cardinality(Live(e)') \in Nat
          /\ Cardinality(Live(e)') + 0 = 0 + 1
      BY <1>7, <3>2, LiveMoves
    <3>4. deliveries'[e] = 1 /\ deadLetters'[e] = 0
      BY <1>2, <1>9, <2>1
    <3>5. deliveries'[e] + Num(Waiting(e)') <= MaxRetries + 1 + Cost'
      BY <1>1, <1>3, <3>2, <3>4
    <3>6. deadLetters'[e] + Cardinality(Live(e)') + Num(Waiting(e)') <= 1 + Cost'
      BY <1>3, <3>2, <3>3, <3>4
    <3> QED BY <3>3, <3>5, <3>6 DEF DeliveriesAllowed, LettersAllowed
  <2>2. CASE e \notin NewEntries
    <3>1. /\ e \in pending' <=> e \in pending
          /\ e \in idle' <=> e \in idle
          /\ Has(c, e)' <=> Has(c, e)
          /\ Moved(c, e)' <=> Moved(c, e)
          /\ deliveries'[e] = deliveries[e] /\ deadLetters'[e] = deadLetters[e]
          /\ Cost' >= Cost
      BY <1>2, <1>3, <1>7, <1>8, <2>2
    <3>2. /\ DeliveriesAllowed(e)'
          /\ deadLetters'[e] + Num(c \in Live(e)') + Num(Waiting(e)') + Cost
               <= deadLetters[e] + Num(c \in Live(e)) + Num(Waiting(e)) + Cost'
      BY <1>1, <1>7, <3>1, EntryStays
    <3>3. LettersAllowed(e)
      BY DEF RetryInv
    <3> QED BY <1>1, <1>7, <3>2, <3>3, LettersStayAllowed
  <2> QED BY <2>1, <2>2
<1>13. ASSUME NEW d \in Consumers, d # c PROVE BatchInTurn(d)' /\ AttemptsAreRecent(d)'
  <2>1. consumer'[d] = consumer[d] /\ WorkWasDelivered(d)
    BY <1>1, <1>7, <1>13
  <2> QED BY <1>1, <1>10, <2>1, OthersStayRecent
<1> QED BY <1>7, <1>11, <1>12, <1>13 DEF RetryInv

\* An entry that goes idle waited already, or is in somebody's hands: that is
\* the overrun.
LEMMA GoesIdleKeepsRetry ==
    ASSUME StreamInv, StreamInv', RetryInv, NEW f \in Entries, GoesIdle(f)
    PROVE  RetryInv'
<1>1. /\ TypeOK /\ TypeOK' /\ MaxRetries \in Nat
      /\ \A d \in Consumers : WorkWasDelivered(d)
  BY BoundsAssumption DEF StreamInv
<1>2. /\ UNCHANGED <<pending, deliveries, consumer, deadLetters, failures>>
      /\ idle' = idle \cup {f} /\ f \in pending /\ f \notin idle
  BY DEF GoesIdle
<1>3. Cost \in Nat /\ Cost' \in Nat
  BY <1>1, CostIsCounted
<1>4. /\ overruns \in Nat /\ failures \in Nat
      /\ \/ overruns' = overruns /\ \A c \in Consumers : f \notin Holding(c)
         \/ overruns' = overruns + 1
  BY <1>1, BoundsAssumption DEF TypeOK, GoesIdle
<1>5. \/ Cost' = Cost /\ \A c \in Consumers : f \notin Holding(c)
      \/ Cost' = Cost + 1
  BY <1>2, <1>4 DEF Cost
<1>6. \A e : Live(e)' = Live(e) /\ \A c \in Consumers : Has(c, e)' <=> Has(c, e)
  BY <1>2 DEF Live, Has, Moved, Current
<1>7. ASSUME NEW e \in Entries PROVE DeliveriesAllowed(e)' /\ LettersAllowed(e)'
  <2>1. /\ deliveries[e] + Num(Waiting(e)) <= MaxRetries + 1 + Cost
        /\ IsFiniteSet(Live(e))
        /\ deadLetters[e] + Cardinality(Live(e)) + Num(Waiting(e)) <= 1 + Cost
    BY DEF RetryInv, DeliveriesAllowed, LettersAllowed
  <2>2. Waiting(e)' => Waiting(e) \/ Cost' = Cost + 1
    <3>1. CASE e = f
      <4>1. (\A c \in Consumers : f \notin Holding(c)) => Waiting(e)
        BY <1>2, <3>1 DEF Waiting, Has, Holding
      <4> QED BY <1>5, <4>1
    <3>2. CASE e # f
      BY <1>2, <1>6, <3>2 DEF Waiting
    <3> QED BY <3>1, <3>2
  <2>3. /\ Num(Waiting(e)) \in {0, 1} /\ Num(Waiting(e)') \in {0, 1}
        /\ Num(Waiting(e)') <= Num(Waiting(e)) \/ Cost' = Cost + 1
    BY <2>2 DEF Num
  <2>4. /\ deliveries[e] \in Nat /\ deadLetters[e] \in Nat
        /\ Cardinality(Live(e)) \in Nat
        /\ deliveries'[e] = deliveries[e] /\ deadLetters'[e] = deadLetters[e]
        /\ Live(e)' = Live(e)
    BY <1>1, <1>2, <1>6, <2>1, FS_CardinalityType DEF TypeOK
  <2>5. Cost' >= Cost
    BY <1>3, <1>5
  <2>6. deliveries'[e] + Num(Waiting(e)') <= MaxRetries + 1 + Cost'
    BY <1>1, <1>3, <2>1, <2>3, <2>4, <2>5
  <2>7. deadLetters'[e] + Cardinality(Live(e)) + Num(Waiting(e)') <= 1 + Cost'
    BY <1>3, <2>1, <2>3, <2>4, <2>5
  <2> QED BY <2>1, <2>4, <2>6, <2>7 DEF DeliveriesAllowed, LettersAllowed
<1>8. ASSUME NEW c \in Consumers PROVE BatchInTurn(c)' /\ AttemptsAreRecent(c)'
  <2>1. consumer'[c] = consumer[c] /\ consumer[c] \in Consumer
    BY <1>1, <1>2 DEF TypeOK
  <2>2. SUFFICES ASSUME NEW w \in consumer[c].listed \cup consumer[c].queue
                 PROVE  deliveries[w.id] + Num(w.id \in idle') <= w.attempts + Cost' + 1
    BY <1>2, <2>1 DEF RetryInv, BatchInTurn, AttemptsAreRecent
  <2>3. w.id \in Entries /\ w.attempts \in Nat /\ deliveries[w.id] \in Nat
    BY <1>1, <2>1 DEF Consumer, Work, TypeOK
  <2>4. deliveries[w.id] + Num(w.id \in idle) <= w.attempts + Cost + 1
    BY DEF RetryInv, AttemptsAreRecent
  <2>5. w.id \in idle' => w.id \in idle \/ Cost' = Cost + 1
    <3>1. w.id \in Holding(c)
      BY DEF Holding
    <3> QED BY <1>2, <1>5, <3>1
  <2>6. /\ Num(w.id \in idle) \in {0, 1} /\ Num(w.id \in idle') \in {0, 1}
        /\ Num(w.id \in idle') <= Num(w.id \in idle) \/ Cost' = Cost + 1
    BY <2>5 DEF Num
  <2> QED BY <1>3, <1>5, <2>3, <2>4, <2>6
<1> QED BY <1>7, <1>8 DEF RetryInv

\* Publishing and stuttering change nothing the invariant is about.
LEMMA NothingDelivered ==
    ASSUME RetryInv,
           UNCHANGED <<pending, idle, deliveries, consumer, deadLetters, failures, overruns>>
    PROVE  RetryInv'
<1>1. Cost' = Cost
  BY DEF Cost
<1>2. \A e : /\ Live(e)' = Live(e)
             /\ Waiting(e)' <=> Waiting(e)
  BY DEF Live, Waiting, Has, Moved, Current
<1>3. \A e : Num(Waiting(e)') = Num(Waiting(e))
  BY <1>2 DEF Num
<1>4. \A e \in Entries : DeliveriesAllowed(e)' /\ LettersAllowed(e)'
  BY <1>1, <1>2, <1>3 DEF RetryInv, DeliveriesAllowed, LettersAllowed
<1>5. \A c \in Consumers : BatchInTurn(c)' /\ AttemptsAreRecent(c)'
  BY <1>1 DEF RetryInv, BatchInTurn, AttemptsAreRecent
<1> QED BY <1>4, <1>5 DEF RetryInv

LEMMA RetryInvInit == Init => RetryInv
<1> SUFFICES ASSUME Init PROVE RetryInv
  OBVIOUS
<1>1. \A c \in Consumers : consumer[c] = AtTop
  BY DEF Init
<1>2. \A c \in Consumers : BatchInTurn(c) /\ AttemptsAreRecent(c)
  BY <1>1 DEF AtTop, BatchInTurn, AttemptsAreRecent
<1>3. ASSUME NEW e \in Entries PROVE DeliveriesAllowed(e) /\ LettersAllowed(e)
  <2>1. Live(e) = {} /\ ~Waiting(e)
    BY <1>1 DEF Init, AtTop, Live, Has, Waiting
  <2>2. Num(Waiting(e)) = 0 /\ Cardinality(Live(e)) = 0 /\ IsFiniteSet(Live(e))
    BY <2>1, FS_EmptySet DEF Num
  <2>3. Cost = 0 /\ deliveries[e] = 0 /\ deadLetters[e] = 0 /\ MaxRetries \in Nat
    BY BoundsAssumption DEF Init, Cost
  <2> QED BY <2>2, <2>3 DEF DeliveriesAllowed, LettersAllowed
<1> QED BY <1>2, <1>3 DEF RetryInv

\* Every step keeps what is left of each entry's allowance.
THEOREM RetryInvariant == Spec => []RetryInv
<1>1. RetryInv /\ StreamInv /\ StreamInv' /\ [Next]_vars => RetryInv'
  <2> SUFFICES ASSUME RetryInv, StreamInv, StreamInv', [Next]_vars PROVE RetryInv'
    OBVIOUS
  <2>1. CASE Publish \/ UNCHANGED vars
    BY <2>1, NothingDelivered DEF Publish, vars, entryVars
  <2>2. ASSUME NEW e \in Entries, GoesIdle(e) PROVE RetryInv'
    BY <2>2, GoesIdleKeepsRetry
  <2>3. ASSUME NEW c \in Consumers, ConsumerStep(c) PROVE RetryInv'
    BY <2>3, ListPendingKeepsRetry, ClaimIdleKeepsRetry, ReadNewKeepsRetry,
       DispatchKeepsRetry, AcknowledgementKeepsRetry, MoveToDlqKeepsRetry DEF ConsumerStep
  <2>4. ASSUME NEW c \in Consumers, AckFails(c) PROVE RetryInv'
    BY <2>4, AckFailsKeepsRetry
  <2>5. ASSUME NEW c \in Consumers, StartOver(c) PROVE RetryInv'
    BY <2>5, StartOverKeepsRetry
  <2> QED BY <2>1, <2>2, <2>3, <2>4, <2>5 DEF Next
<1> QED BY <1>1, RetryInvInit, StreamInvariant, PTL DEF Spec

\* A poisonous entry is delivered at most MaxRetries + 1 times and leaves one
\* dead letter, but for one more of each at every crash, failing command and
\* overrun: whoever claims it with whatever count XPENDING showed.
THEOREM RetriesAlwaysAreBounded == Spec => []RetriesAreBounded
<1>1. StreamInv /\ RetryInv => RetriesAreBounded
  <2> SUFFICES ASSUME StreamInv, RetryInv, NEW e \in Entries
               PROVE  /\ deliveries[e] <= MaxRetries + 1 + failures + overruns
                      /\ deadLetters[e] <= 1 + failures + overruns
    BY DEF RetriesAreBounded
  <2>1. /\ MaxRetries \in Nat /\ failures \in Nat /\ overruns \in Nat
        /\ deliveries[e] \in Nat /\ deadLetters[e] \in Nat
    BY BoundsAssumption DEF StreamInv, TypeOK
  <2>2. /\ deliveries[e] + Num(Waiting(e)) <= MaxRetries + 1 + (failures + overruns)
        /\ IsFiniteSet(Live(e))
        /\ deadLetters[e] + Cardinality(Live(e)) + Num(Waiting(e)) <= 1 + (failures + overruns)
    BY DEF RetryInv, DeliveriesAllowed, LettersAllowed, Cost
  <2>3. Num(Waiting(e)) \in Nat /\ Cardinality(Live(e)) \in Nat
    BY <2>2, FS_CardinalityType DEF Num
  <2> QED BY <2>1, <2>2, <2>3
<1> QED BY <1>1, StreamInvariant, RetryInvariant, PTL

-----------------------------------------------------------------------------

\* Which consumer has what, when consumer c takes only what is its own.
LEMMA OwnersStay ==
    ASSUME OwnedInv, overruns' = 0 => overruns = 0, NEW c \in Consumers,
           \A d \in Consumers : d # c => consumer'[d] = consumer[d],
           idle' \subseteq idle,
           overruns = 0 => \A w \in consumer'[c].queue :
               w.id \notin idle' /\ \A d \in Consumers \ {c} : ~Has(d, w.id)
    PROVE  OwnedInv'
<1> SUFFICES ASSUME overruns = 0, overruns' = 0, NEW b \in Consumers,
                    NEW w \in consumer'[b].queue
             PROVE  w.id \notin idle' /\ \A d \in Consumers \ {b} : ~Has(d, w.id)'
  BY DEF OwnedInv
<1>1. CASE b = c
  <2>1. \A d \in Consumers \ {c} : Has(d, w.id)' <=> Has(d, w.id)
    BY DEF Has
  <2> QED BY <1>1, <2>1
<1>2. CASE b # c
  <2>1. w \in consumer[b].queue
    BY <1>2
  <2>2. w.id \notin idle /\ \A d \in Consumers \ {b} : ~Has(d, w.id)
    BY <2>1 DEF OwnedInv
  <2>3. \A d \in Consumers \ {b, c} : ~Has(d, w.id)'
    BY <2>2 DEF Has
  <2>4. ~Has(c, w.id)'
    <3>1. SUFFICES ASSUME NEW v \in consumer'[c].queue, v.id = w.id PROVE FALSE
      BY DEF Has
    <3>2. ~Has(b, w.id)
      BY <1>2, <3>1
    <3> QED BY <2>1, <3>2 DEF Has
  <2> QED BY <2>2, <2>3, <2>4
<1> QED BY <1>1, <1>2

\* A consumer that takes nothing new takes nothing from the others.
LEMMA ShrinkingBatchIsOwned ==
    ASSUME OwnedInv, UNCHANGED overruns, NEW c \in Consumers,
           \A d \in Consumers : d # c => consumer'[d] = consumer[d],
           idle' \subseteq idle, consumer'[c].queue \subseteq consumer[c].queue
    PROVE  OwnedInv'
<1>1. overruns = 0 => \A w \in consumer'[c].queue :
          w.id \notin idle' /\ \A d \in Consumers \ {c} : ~Has(d, w.id)
  BY DEF OwnedInv
<1> QED BY <1>1, OwnersStay

\* The steps of processStreamEntry and the reclaim timer take nothing new.
LEMMA WorkingKeepsOwners ==
    ASSUME StreamInv, OwnedInv, NEW c \in Consumers,
           \/ SkipReclaim(c) \/ ListPending(c) \/ Dispatch(c) \/ Ack(c) \/ AckFails(c)
           \/ MoveToDlq(c) \/ DropMoved(c) \/ StartOver(c)
    PROVE  OwnedInv'
<1>1. TypeOK /\ WorkWasDelivered(c)
  BY DEF StreamInv
<1>2. UNCHANGED overruns
  BY DEF SkipReclaim, ListPending, Dispatch, Ack, AckFails, MoveToDlq, DropMoved, StartOver
<1>3. idle' \subseteq idle
  BY DEF SkipReclaim, ListPending, Dispatch, Ack, AckFails, MoveToDlq, DropMoved, StartOver,
         Acknowledge, entryVars
<1>4. /\ \A d \in Consumers : d # c => consumer'[d] = consumer[d]
      /\ consumer'[c].queue \subseteq consumer[c].queue
  <2>1. CASE SkipReclaim(c) \/ ListPending(c)
    BY <1>1, <2>1 DEF SkipReclaim, ListPending, TypeOK, Consumer
  <2>2. ASSUME NEW w \in Current(c), NextEntry(c, w)
        PROVE  /\ \A d \in Consumers : d # c => consumer'[d] = consumer[d]
               /\ consumer'[c].queue \subseteq consumer[c].queue
    BY <1>1, <2>2, NextEntryLeavesRest
  <2>3. ASSUME NEW pc \in {"ack", "move", "drop"},
               consumer' = [consumer EXCEPT ![c].pc = pc]
        PROVE  /\ \A d \in Consumers : d # c => consumer'[d] = consumer[d]
               /\ consumer'[c].queue \subseteq consumer[c].queue
    BY <1>1, <2>3, CounterLeavesBatch
  <2>4. CASE Dispatch(c) \/ AckFails(c)
    <3>1. \/ consumer' = [consumer EXCEPT ![c].pc = "ack"]
          \/ consumer' = [consumer EXCEPT ![c].pc = "move"]
          \/ \E w \in Current(c) : NextEntry(c, w)
      BY <2>4 DEF Dispatch, AckFails, Catch
    <3> QED BY <2>2, <2>3, <3>1
  <2>5. CASE Ack(c) \/ DropMoved(c)
    BY <2>2, <2>5 DEF Ack, DropMoved
  <2>6. CASE MoveToDlq(c)
    BY <2>3, <2>6 DEF MoveToDlq
  <2>7. CASE StartOver(c)
    BY <1>1, <2>7 DEF StartOver, AtTop, TypeOK
  <2> QED BY <2>1, <2>4, <2>5, <2>6, <2>7
<1> QED BY <1>2, <1>3, <1>4, ShrinkingBatchIsOwned

\* Without overruns every entry of a batch is its consumer's own.
THEOREM OwnersInvariant == Spec => []OwnedInv
<1>1. Init => OwnedInv
  BY DEF Init, OwnedInv, AtTop
<1>2. OwnedInv /\ StreamInv /\ [Next]_vars => OwnedInv'
  <2> SUFFICES ASSUME OwnedInv, StreamInv, [Next]_vars PROVE OwnedInv'
    OBVIOUS
  <2>1. TypeOK /\ \A d \in Consumers : WorkWasDelivered(d)
    BY DEF StreamInv
  <2>2. CASE Publish \/ UNCHANGED vars
    BY <2>2 DEF Publish, vars, entryVars, OwnedInv, Has
  <2>3. ASSUME NEW e \in Entries, GoesIdle(e) PROVE OwnedInv'
    <3>1. /\ UNCHANGED consumer /\ idle' = idle \cup {e}
          /\ \/ overruns' = overruns + 1 /\ overruns \in Nat
             \/ overruns' = overruns /\ \A c \in Consumers : e \notin Holding(c)
      BY <2>1, <2>3, BoundsAssumption DEF GoesIdle, TypeOK
    <3>2. CASE \A c \in Consumers : e \notin Holding(c)
      <4>1. \A c \in Consumers : \A w \in consumer[c].queue : w.id # e
        BY <3>2 DEF Holding
      <4> QED BY <3>1, <4>1 DEF OwnedInv, Has
    <3>3. CASE overruns' = overruns + 1 /\ overruns \in Nat
      BY <3>3 DEF OwnedInv
    <3> QED BY <3>1, <3>2, <3>3
  <2>4. ASSUME NEW c \in Consumers, ClaimIdle(c) PROVE OwnedInv'
    <3>1. /\ \A d \in Consumers : d # c => consumer'[d] = consumer[d]
          /\ consumer'[c].queue = {w \in consumer[c].listed : w.id \in idle}
          /\ UNCHANGED <<pending, deadLetters, failures, overruns>>
          /\ \A e : e \in idle' <=> e \in idle /\ ~Has(c, e)'
      BY <2>1, <2>4, ClaimTakesIdle
    <3>2. ASSUME overruns = 0, NEW w \in consumer'[c].queue
          PROVE  w.id \notin idle' /\ \A d \in Consumers \ {c} : ~Has(d, w.id)
      <4>1. w.id \in idle /\ Has(c, w.id)'
        BY <3>1 DEF Has
      <4> QED BY <3>1, <3>2, <4>1 DEF OwnedInv, Has
    <3>3. idle' \subseteq idle /\ (overruns' = 0 => overruns = 0)
      BY <3>1
    <3>4. overruns = 0 => \A w \in consumer'[c].queue :
              w.id \notin idle' /\ \A d \in Consumers \ {c} : ~Has(d, w.id)
      BY <3>2
    <3> QED BY <3>1, <3>3, <3>4, OwnersStay
  <2>5. ASSUME NEW c \in Consumers, ReadNew(c) PROVE OwnedInv'
    <3> DEFINE work == {[id |-> e, attempts |-> 1] : e \in NewEntries}
    <3>1. UNCHANGED <<idle, overruns>> /\ Process(c, work, "top")
      BY <2>5 DEF ReadNew
    <3>2. \A e \in NewEntries : e \in Entries /\ e \in Nat /\ e > lastRead /\ lastRead \in Nat
      BY <2>1, PendingWereRead, BoundsAssumption DEF NewEntries, LastNew, Entries
    <3>3. work \in SUBSET Work /\ \A w \in work : w.id \in NewEntries
      BY <3>2 DEF Work
    <3> HIDE DEF work
    <3>4. /\ \A d \in Consumers : d # c => consumer'[d] = consumer[d]
          /\ consumer'[c].queue = work
      BY <2>1, <3>1, <3>3, ProcessReplacesBatch
    <3>5. ASSUME NEW w \in work
          PROVE  w.id \notin idle' /\ \A d \in Consumers \ {c} : ~Has(d, w.id)
      <4>1. w.id \in Nat /\ ~(w.id <= lastRead)
        BY <3>2, <3>3
      <4>2. w.id \notin idle
        BY <2>1, <4>1, PendingWereRead
      <4>3. \A d \in Consumers : ~Has(d, w.id)
        BY <2>1, <4>1 DEF Has, WorkWasDelivered
      <4> QED BY <3>1, <4>2, <4>3
    <3>6. overruns = 0 => \A w \in consumer'[c].queue :
              w.id \notin idle' /\ \A d \in Consumers \ {c} : ~Has(d, w.id)
      BY <3>4, <3>5
    <3>7. idle' \subseteq idle /\ (overruns' = 0 => overruns = 0)
      BY <3>1
    <3> QED BY <3>4, <3>6, <3>7, OwnersStay
  <2>6. ASSUME NEW c \in Consumers,
               \/ SkipReclaim(c) \/ ListPending(c) \/ Dispatch(c) \/ Ack(c) \/ AckFails(c)
               \/ MoveToDlq(c) \/ DropMoved(c) \/ StartOver(c)
        PROVE  OwnedInv'
    BY <2>6, WorkingKeepsOwners
  <2> QED BY <2>2, <2>3, <2>4, <2>5, <2>6 DEF Next, ConsumerStep
<1> QED BY <1>1, <1>2, StreamInvariant, PTL DEF Spec

\* No two instances run the handlers of an entry at the same time unless it
\* went idle in a consumer's hands: XCLAIM takes what is idle, XREADGROUP what
\* is new, and neither is in anybody's batch.
THEOREM OneConsumerAtATime == Spec => []OneConsumerPerEntry
<1>1. OwnedInv => OneConsumerPerEntry
  <2> SUFFICES ASSUME OwnedInv, overruns = 0, NEW b \in Consumers, NEW c \in Consumers,
                      b # c, NEW v \in consumer[b].queue, NEW w \in consumer[c].queue,
                      v.id = w.id
               PROVE  FALSE
    BY DEF OneConsumerPerEntry
  <2>1. ~Has(c, v.id)
    BY DEF OwnedInv
  <2> QED BY <2>1 DEF Has
<1> QED BY <1>1, OwnersInvariant, PTL
-----------------------------------------------------------------------------
(***************************************************************************)
(* What the stream promises (EventDelivery).                               *)
(***************************************************************************)

\* The entries that all handlers returned for, and those in the dead letters.
Handled == {e \in Entries : done[e] = HandlerIds}
DeadLettered == {e \in Entries : deadLetters[e] > 0}

\* A read makes entries pending that were owed before.
LEMMA ReadKeepsOwed ==
    ASSUME TypeOK, NEW c \in Consumers, ReadNew(c)
    PROVE  Unacknowledged' = Unacknowledged
<1>1. length \in Nat /\ lastRead \in 0 .. length /\ length' = length /\ ReadCount \in Nat
  BY BoundsAssumption DEF TypeOK, ReadNew
<1>2. LastNew \in lastRead .. length /\ lastRead' = LastNew
  BY <1>1 DEF LastNew, ReadNew
<1>3. lastRead + 1 .. length = (lastRead + 1 .. LastNew) \cup (LastNew + 1 .. length)
  BY <1>1, <1>2
<1> QED
  BY <1>1, <1>2, <1>3 DEF ReadNew, NewEntries, Unacknowledged

\* An acknowledged entry is owed no longer, and no other.
LEMMA AcknowledgeSettles ==
    ASSUME TypeOK, NEW e \in Entries, e <= lastRead, Acknowledge(e),
           UNCHANGED <<length, lastRead>>
    PROVE  Unacknowledged' = Unacknowledged \ {e}
<1>1. e \notin lastRead + 1 .. length
  BY DEF TypeOK, Entries
<1> QED
  BY <1>1 DEF Acknowledge, Unacknowledged

\* Further handlers return for an entry: it is delivered, or nothing is seen.
LEMMA HandlersDeliver ==
    ASSUME TypeOK, NEW e \in Entries, e <= lastRead, NEW k \in 0 .. NHandlers,
           done' = [done EXCEPT ![e] = @ \cup 1 .. k], UNCHANGED entryVars, UNCHANGED deadLetters
    PROVE  [Delivery!DeliveryNext]_(Delivery!deliveryVars)
<1>1. e \in 1 .. length
  BY DEF TypeOK, Entries
<1>2. UNCHANGED <<length, Unacknowledged, DeadLettered>>
  BY DEF entryVars, Unacknowledged, DeadLettered
<1>3. \A f \in Entries \ {e} : done'[f] = done[f]
  BY DEF TypeOK
<1>4. done[e] = HandlerIds => done'[e] = HandlerIds
  BY BoundsAssumption DEF TypeOK, HandlerIds
<1>5. CASE done'[e] = HandlerIds
  <2>1. Handled' = Handled \cup {e}
    BY <1>3, <1>5 DEF Handled
  <2>2. Delivery!Deliver(e)
    BY <1>1, <1>2, <2>1 DEF Delivery!Deliver, Handled, DeadLettered
  <2> QED
    BY <2>2 DEF Delivery!DeliveryNext
<1>6. CASE done'[e] # HandlerIds
  <2>1. Handled' = Handled
    BY <1>3, <1>4, <1>6 DEF Handled
  <2> QED
    BY <1>2, <2>1 DEF Delivery!deliveryVars, Handled, DeadLettered
<1> QED
  BY <1>5, <1>6

\* An entry is acknowledged that was handled or put aside.
LEMMA AcknowledgeKeepsPromise ==
    ASSUME TypeOK, NEW e \in Entries, e <= lastRead, Acknowledge(e),
           done[e] = HandlerIds \/ deadLetters[e] > 0,
           UNCHANGED <<length, lastRead, done, deadLetters>>
    PROVE  Delivery!DeliveryNext
<1>1. Unacknowledged' = Unacknowledged \ {e}
  BY AcknowledgeSettles
<1>2. UNCHANGED <<length, Handled, DeadLettered>> /\ e \in Handled \cup DeadLettered
  BY DEF Handled, DeadLettered
<1>3. Delivery!Settle(e)
  BY <1>1, <1>2 DEF Delivery!Settle, Handled, DeadLettered
<1> QED
  BY <1>3 DEF Delivery!DeliveryNext

\* The entry a consumer is at was read.
LEMMA CurrentWasRead ==
    ASSUME StreamInv, NEW c \in Consumers, NEW w \in Current(c)
    PROVE  w.id \in Entries /\ w.id <= lastRead
BY DEF StreamInv, TypeOK, Consumer, Work, Current, WorkWasDelivered

\* Steps of one consumer.
LEMMA ConsumerKeepsPromise ==
    ASSUME StreamInv, NEW c \in Consumers, ConsumerStep(c) \/ AckFails(c) \/ StartOver(c)
    PROVE  [Delivery!DeliveryNext]_(Delivery!deliveryVars)
<1> DEFINE Quiet == UNCHANGED <<length, Unacknowledged, done, deadLetters>>
<1>1. Quiet => UNCHANGED Delivery!deliveryVars
  BY DEF Delivery!deliveryVars
<1>2. TypeOK
  BY DEF StreamInv
<1>3. CASE SkipReclaim(c) \/ ListPending(c) \/ ClaimIdle(c)
  <2>1. Quiet
    BY <1>3 DEF SkipReclaim, ListPending, ClaimIdle, entryVars, Unacknowledged
  <2> QED
    BY <1>1, <2>1
<1>4. CASE ReadNew(c)
  <2>1. Quiet
    BY <1>2, <1>4, ReadKeepsOwed DEF ReadNew
  <2> QED
    BY <1>1, <2>1
<1>5. CASE Dispatch(c)
  <2>1. PICK w \in Current(c), k \in 0 .. NHandlers : done' = [done EXCEPT ![w.id] = @ \cup 1 .. k]
    BY <1>5 DEF Dispatch
  <2>2. UNCHANGED entryVars /\ UNCHANGED deadLetters
    BY <1>5 DEF Dispatch
  <2> QED
    BY <1>2, <2>1, <2>2, CurrentWasRead, HandlersDeliver
<1>6. CASE Ack(c)
  <2>1. PICK w \in Current(c) : Acknowledge(w.id)
    BY <1>6 DEF Ack
  <2>2. done[w.id] = HandlerIds
    BY <1>6, <2>1 DEF Ack, StreamInv, AcknowledgesInTurn
  <2>3. UNCHANGED <<length, lastRead, done, deadLetters>>
    BY <1>6 DEF Ack
  <2> QED
    BY <1>2, <2>1, <2>2, <2>3, CurrentWasRead, AcknowledgeKeepsPromise
<1>7. CASE AckFails(c)
  <2>1. PICK w \in Current(c) : Acknowledge(w.id) \/ UNCHANGED <<pending, idle>>
    BY <1>7 DEF AckFails
  <2>2. done[w.id] = HandlerIds
    BY <1>7, <2>1 DEF AckFails, StreamInv, AcknowledgesInTurn
  <2>3. UNCHANGED <<length, lastRead, done, deadLetters>>
    BY <1>7 DEF AckFails
  <2>4. CASE Acknowledge(w.id)
    BY <1>2, <2>1, <2>2, <2>3, <2>4, CurrentWasRead, AcknowledgeKeepsPromise
  <2>5. CASE UNCHANGED <<pending, idle>>
    <3>1. Quiet
      BY <2>3, <2>5 DEF Unacknowledged
    <3> QED
      BY <1>1, <3>1
  <2> QED
    BY <2>1, <2>4, <2>5
<1>8. CASE MoveToDlq(c)
  <2>1. PICK w \in Current(c) : deadLetters' = [deadLetters EXCEPT ![w.id] = @ + 1]
    BY <1>8 DEF MoveToDlq
  <2>2. w.id \in Entries /\ w.id \in 1 .. length
    BY <1>2, CurrentWasRead DEF TypeOK, Entries
  <2>3. DeadLettered' = DeadLettered \cup {w.id}
    BY <1>2, <2>1, <2>2 DEF DeadLettered, TypeOK
  <2>4. UNCHANGED <<length, Unacknowledged, Handled>>
    BY <1>8 DEF MoveToDlq, entryVars, Unacknowledged, Handled
  <2>5. Delivery!Park({w.id})
    BY <2>2, <2>3, <2>4 DEF Delivery!Park, Handled, DeadLettered
  <2> QED
    BY <2>2, <2>5 DEF Delivery!DeliveryNext
<1>9. CASE DropMoved(c)
  <2>1. PICK w \in Current(c) : Acknowledge(w.id)
    BY <1>9 DEF DropMoved
  <2>2. deadLetters[w.id] > 0
    BY <1>9, <2>1 DEF DropMoved, StreamInv, AcknowledgesInTurn
  <2>3. UNCHANGED <<length, lastRead, done, deadLetters>>
    BY <1>9 DEF DropMoved
  <2> QED
    BY <1>2, <2>1, <2>2, <2>3, CurrentWasRead, AcknowledgeKeepsPromise
<1>10. CASE StartOver(c)
  <2>1. UNCHANGED entryVars /\ UNCHANGED deadLetters
    BY <1>10 DEF StartOver
  <2>2. CASE done' = done
    <3>1. Quiet
      BY <2>1, <2>2 DEF entryVars, Unacknowledged
    <3> QED
      BY <1>1, <3>1
  <2>3. ASSUME NEW w \in Current(c), NEW k \in HandlerIds,
               done' = [done EXCEPT ![w.id] = @ \cup 1 .. k]
        PROVE  [Delivery!DeliveryNext]_(Delivery!deliveryVars)
    <3>1. k \in 0 .. NHandlers
      BY BoundsAssumption DEF HandlerIds
    <3> QED
      BY <1>2, <2>1, <2>3, <3>1, CurrentWasRead, HandlersDeliver
  <2> QED
    BY <1>10, <2>2, <2>3 DEF StartOver
<1> QED
  BY <1>3, <1>4, <1>5, <1>6, <1>7, <1>8, <1>9, <1>10 DEF ConsumerStep

\* ImplementsDelivery: whoever crashes, is slow or has its commands fail, an
\* entry is owed until all handlers returned for it or it is a dead letter.
THEOREM StreamImplementsDelivery == Spec => ImplementsDelivery
<1>1. Init => Delivery!DeliveryInit
  <2> SUFFICES ASSUME Init PROVE Delivery!DeliveryInit
    OBVIOUS
  <2>1. 1 .. length = {} /\ Unacknowledged = {}
    BY DEF Init, Unacknowledged
  <2>2. \A e \in Entries : done[e] # HandlerIds /\ ~(deadLetters[e] > 0)
    <3>1. 1 \in HandlerIds
      BY BoundsAssumption DEF HandlerIds
    <3> QED
      BY <3>1 DEF Init
  <2> QED
    BY <2>1, <2>2 DEF Delivery!DeliveryInit
<1>2. StreamInv /\ [Next]_vars => [Delivery!DeliveryNext]_(Delivery!deliveryVars)
  <2> SUFFICES ASSUME StreamInv, [Next]_vars
               PROVE  [Delivery!DeliveryNext]_(Delivery!deliveryVars)
    OBVIOUS
  <2>1. CASE UNCHANGED vars
    BY <2>1 DEF vars, entryVars, Unacknowledged, Delivery!deliveryVars
  <2>2. CASE Publish
    <3>1. /\ length \in Nat /\ lastRead \in 0 .. length /\ length < MaxEntries
          /\ length' = length + 1 /\ MaxEntries \in Nat
      BY <2>2, BoundsAssumption DEF Publish, StreamInv, TypeOK
    <3>2. PICK e \in Entries : e = length + 1
      BY <3>1 DEF Entries
    <3>3. e \notin 1 .. length /\ 1 .. length' = (1 .. length) \cup {e}
      BY <3>1, <3>2
    <3>4. lastRead + 1 .. length' = (lastRead + 1 .. length) \cup {e}
      BY <3>1, <3>2
    <3>5. Unacknowledged' = Unacknowledged \cup {e}
      BY <2>2, <3>4 DEF Publish, Unacknowledged
    <3>6. Delivery!Accept(e)
      BY <2>2, <3>3, <3>5 DEF Publish, Delivery!Accept
    <3> QED
      BY <3>2, <3>6 DEF Delivery!DeliveryNext
  <2>3. ASSUME NEW e \in Entries, GoesIdle(e) PROVE UNCHANGED Delivery!deliveryVars
    BY <2>3 DEF GoesIdle, Unacknowledged, Delivery!deliveryVars
  <2>4. ASSUME NEW c \in Consumers, ConsumerStep(c) \/ AckFails(c) \/ StartOver(c)
        PROVE  [Delivery!DeliveryNext]_(Delivery!deliveryVars)
    BY <2>4, ConsumerKeepsPromise
  <2> QED
    BY <2>1, <2>2, <2>3, <2>4 DEF Next
<1> QED
  BY <1>1, <1>2, StreamInvariant, PTL DEF Spec, ImplementsDelivery, Delivery!DeliverySpec

\* What any stage of delivery guarantees, of this one: nothing it accepted is
\* lost, and what an operator deleted does not come back.
THEOREM StreamLosesNothing == Spec => []Delivery!NothingIsLost
<1>1. Delivery!DeliveryInit => Delivery!NothingIsLost
  BY DEF Delivery!DeliveryInit, Delivery!NothingIsLost
<1>2. Delivery!NothingIsLost /\ [Delivery!DeliveryNext]_(Delivery!deliveryVars)
          => Delivery!NothingIsLost'
  <2> SUFFICES ASSUME Delivery!NothingIsLost, [Delivery!DeliveryNext]_(Delivery!deliveryVars)
               PROVE  Delivery!NothingIsLost'
    OBVIOUS
  <2>1. CASE UNCHANGED Delivery!deliveryVars
    BY <2>1 DEF Delivery!deliveryVars, Delivery!NothingIsLost
  <2>2. ASSUME NEW e \in Entries, Delivery!Accept(e) PROVE Delivery!NothingIsLost'
    BY <2>2 DEF Delivery!Accept, Delivery!NothingIsLost
  <2>3. ASSUME NEW e \in Entries, Delivery!Deliver(e) PROVE Delivery!NothingIsLost'
    BY <2>3 DEF Delivery!Deliver, Delivery!NothingIsLost
  <2>4. ASSUME NEW e \in Entries, Delivery!Settle(e) PROVE Delivery!NothingIsLost'
    BY <2>4 DEF Delivery!Settle, Delivery!NothingIsLost
  <2>5. ASSUME NEW e \in Entries, Delivery!Discard(e) PROVE Delivery!NothingIsLost'
    BY <2>5 DEF Delivery!Discard, Delivery!NothingIsLost
  <2>6. ASSUME NEW es \in SUBSET Entries, Delivery!Park(es) PROVE Delivery!NothingIsLost'
    BY <2>6 DEF Delivery!Park, Delivery!NothingIsLost
  <2>7. ASSUME NEW es \in SUBSET Entries, Delivery!Retry(es) PROVE Delivery!NothingIsLost'
    BY <2>7 DEF Delivery!Retry, Delivery!NothingIsLost
  <2> QED
    BY <2>1, <2>2, <2>3, <2>4, <2>5, <2>6, <2>7 DEF Delivery!DeliveryNext
<1> QED
  BY <1>1, <1>2, StreamImplementsDelivery, PTL DEF ImplementsDelivery, Delivery!DeliverySpec
=============================================================================
