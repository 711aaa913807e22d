------------------------- MODULE RequestIdempotency -------------------------
(***************************************************************************)
(* The Idempotency-Key of an HTTP request: IdempotencyInterceptor around a *)
(* handler, IdempotencyService and the rows of request_idempotency.        *)
(*                                                                         *)
(* A client may send a request again at any time, while the first one is   *)
(* still running too.  Every statement is a transaction of its own, the    *)
(* handler's apart; after the insert all of them write by id alone.  The   *)
(* requests are those of a signed-in user, as every decorated endpoint's   *)
(* are: the unique index does not compare rows whose actor is NULL.        *)
(***************************************************************************)
EXTENDS Naturals, FiniteSets

CONSTANTS
    Keys,        \* actor, endpoint and Idempotency-Key
    Payloads,    \* what requests with one key may carry, by its hash
    KeyCalls,    \* requests that may run at the same time
    MaxEffects   \* bound on runs of the handler that commit, per key

ASSUME MaxEffectsAssumption == MaxEffects \in Nat

VARIABLES
    record,     \* request_idempotency
    keyCall,    \* the running requests
    effects,    \* runs of the handler that committed, of each key
    stale,      \* keys whose record was reset by a call after it had changed
    unrecorded, \* keys with an effect whose call then failed
    abandoned   \* keys a call left without writing how it ended

keyVars == <<record, keyCall, effects, stale, unrecorded, abandoned>>

NoPayload == "none"
KeyStatus == {"none", "pending", "completed", "failed"}
KeyRecord == [status : KeyStatus, hash : Payloads \cup {NoPayload}]
IdleKeyCall == [pc |-> "idle"]
KeyCall == {IdleKeyCall}
    \cup [pc : {"find", "reset", "run", "complete", "fail"},
          key : Keys, payload : Payloads, seen : KeyStatus]

KeyTypeOK ==
    /\ record \in [Keys -> KeyRecord]
    /\ keyCall \in [KeyCalls -> KeyCall]
    /\ effects \in [Keys -> Nat]
    /\ stale \subseteq Keys /\ unrecorded \subseteq Keys /\ abandoned \subseteq Keys

KeyInit ==
    /\ record = [k \in Keys |-> [status |-> "none", hash |-> NoPayload]]
    /\ keyCall = [c \in KeyCalls |-> IdleKeyCall]
    /\ effects = [k \in Keys |-> 0]
    /\ stale = {} /\ unrecorded = {} /\ abandoned = {}

-----------------------------------------------------------------------------

At(c, pc) == keyCall[c].pc = pc
Key(c) == keyCall[c].key
GoOn(c, pc) == keyCall' = [keyCall EXCEPT ![c].pc = pc]
Finish(c) == keyCall' = [keyCall EXCEPT ![c] = IdleKeyCall]
SetStatus(k, s) == record' = [record EXCEPT ![k].status = s]
Start(c, pc, k, p) ==
    keyCall' = [keyCall EXCEPT ![c] = [pc |-> pc, key |-> k, payload |-> p, seen |-> "none"]]

\* insertPending: ON CONFLICT DO NOTHING.
InsertPending(c, k, p) ==
    /\ At(c, "idle")
    /\ IF record[k].status = "none"
         THEN /\ record' = [record EXCEPT ![k] = [status |-> "pending", hash |-> p]]
              /\ Start(c, "run", k, p)
         ELSE /\ UNCHANGED record
              /\ Start(c, "find", k, p)
    /\ UNCHANGED <<effects, stale, unrecorded, abandoned>>

MayRunAgain_Pending(c) ==
    /\ record[Key(c)].hash = keyCall[c].payload
    /\ record[Key(c)].status \in {"failed", "pending"}

\* A request with another payload and one whose first call is still pending
\* are refused, a completed one is replayed, a failed one may run again.
MayRunAgain(c) ==
    /\ record[Key(c)].hash = keyCall[c].payload
    /\ record[Key(c)].status = "failed"

FindByKey(c) ==
    /\ At(c, "find")
    /\ IF MayRunAgain(c)
         THEN keyCall' = [keyCall EXCEPT ![c].pc = "reset",
                                         ![c].seen = record[Key(c)].status]
         ELSE Finish(c)
    /\ UNCHANGED <<record, effects, stale, unrecorded, abandoned>>

ResetToPending(c) ==
    /\ At(c, "reset")
    /\ SetStatus(Key(c), "pending")
    /\ stale' = IF record[Key(c)].status = keyCall[c].seen THEN stale
                                                         ELSE stale \cup {Key(c)}
    /\ GoOn(c, "run")
    /\ UNCHANGED <<effects, unrecorded, abandoned>>

-----------------------------------------------------------------------------

\* The handler commits, or fails without an effect, or fails after its commit.
Handle(c) ==
    /\ At(c, "run")
    /\ \/ /\ effects[Key(c)] < MaxEffects
          /\ effects' = [effects EXCEPT ![Key(c)] = @ + 1]
          /\ \/ GoOn(c, "complete") /\ UNCHANGED unrecorded
             \/ GoOn(c, "fail") /\ unrecorded' = unrecorded \cup {Key(c)}
       \/ GoOn(c, "fail") /\ UNCHANGED <<effects, unrecorded>>
    /\ UNCHANGED <<record, stale, abandoned>>

MarkCompleted(c) ==
    /\ At(c, "complete")
    /\ SetStatus(Key(c), "completed")
    /\ Finish(c)
    /\ UNCHANGED <<effects, stale, unrecorded, abandoned>>

\* The interceptor's catchError also catches a failure of markCompleted.
CompletionFails(c) ==
    /\ At(c, "complete")
    /\ unrecorded' = unrecorded \cup {Key(c)}
    /\ GoOn(c, "fail")
    /\ UNCHANGED <<record, effects, stale, abandoned>>

MarkFailed_Forgotten(c) ==
    /\ At(c, "fail")
    /\ Finish(c)
    /\ UNCHANGED <<record, effects, stale, unrecorded, abandoned>>

MarkFailed(c) ==
    /\ At(c, "fail")
    /\ SetStatus(Key(c), "failed")
    /\ Finish(c)
    /\ UNCHANGED <<effects, stale, unrecorded, abandoned>>

\* The instance dies, or the last statement fails.
Die(c) ==
    /\ keyCall[c].pc \in {"find", "reset", "run", "complete", "fail"}
    /\ Finish(c)
    /\ abandoned' = IF keyCall[c].pc \in {"find", "reset"} THEN abandoned
                                                        ELSE abandoned \cup {Key(c)}
    /\ UNCHANGED <<record, effects, stale, unrecorded>>

KeyNext ==
    \E c \in KeyCalls :
        \/ \E k \in Keys, p \in Payloads : InsertPending(c, k, p)
        \/ FindByKey(c) \/ ResetToPending(c)
        \/ Handle(c) \/ MarkCompleted(c) \/ CompletionFails(c) \/ MarkFailed(c)
        \/ Die(c)

KeySpec == KeyInit /\ [][KeyNext]_keyVars

-----------------------------------------------------------------------------

Owners(k) == {c \in KeyCalls : keyCall[c].pc \in {"run", "complete", "fail"} /\ Key(c) = k}

\* However often and concurrently a request is sent, its handler takes effect
\* once, unless two retries of a failed call both reset it or a call failed
\* after its effect; a completed record always stands for an effect.
TakesEffectOnce ==
    \A k \in Keys :
        /\ k \notin stale \cup unrecorded => effects[k] <= 1
        /\ record[k].status = "completed" => effects[k] >= 1

\* A key that turns every retry away has a call that is still at work on it,
\* one and no more, unless the last one died or two retries reset it.
PendingIsOwned ==
    \A k \in Keys : k \notin stale \cup abandoned =>
        Cardinality(Owners(k)) = IF record[k].status = "pending" THEN 1 ELSE 0
=============================================================================
