--------------------------- MODULE EventDelivery ---------------------------
(***************************************************************************)
(* What the two stages of event delivery promise, the outbox (EventOutbox) *)
(* and the stream behind it (EventStream): an event that was accepted is   *)
(* owed until it was delivered or is parked with the dead letters, and     *)
(* only an operator takes it from there, to be tried again or for good.    *)
(*                                                                         *)
(* Neither stage checks who is writing, so a straggler may deliver or park *)
(* an event that is no longer owed, and a late discard may take one that   *)
(* is owed again.  Where there are no stragglers, the stage is Orderly.    *)
(***************************************************************************)
CONSTANTS Events,
          Orderly    \* are there no stragglers? (TRUE or FALSE)

VARIABLES accepted,    \* the events taken over from their producers
          owed,        \* those that a worker will try to deliver
          delivered,   \* those that were delivered at least once
          parked,      \* the dead letters
          discarded    \* those that an operator deleted

deliveryVars == <<accepted, owed, delivered, parked, discarded>>

DeliveryInit ==
    /\ accepted = {} /\ owed = {} /\ delivered = {} /\ parked = {} /\ discarded = {}

Accept(e) ==
    /\ e \notin accepted
    /\ accepted' = accepted \cup {e}
    /\ owed' = owed \cup {e}
    /\ UNCHANGED <<delivered, parked, discarded>>

\* What a worker is at may be owed no longer, unless there are no stragglers.
Deliver(e) ==
    /\ e \in IF Orderly THEN owed ELSE accepted
    /\ delivered' = delivered \cup {e}
    /\ UNCHANGED <<accepted, owed, parked, discarded>>

\* Nobody stops owing an event but for one of these two reasons.  (A straggler
\* that records a delivery may take the event off the dead letters.)
Settle(e) ==
    /\ e \in delivered \cup parked
    /\ owed' = owed \ {e}
    /\ \/ UNCHANGED parked
       \/ ~Orderly /\ e \in delivered /\ parked' = parked \ {e}
    /\ UNCHANGED <<accepted, delivered, discarded>>

\* Several events may run out of attempts in one statement.
Park(es) ==
    /\ es \subseteq IF Orderly THEN owed ELSE accepted \ discarded
    /\ parked' = parked \cup es
    /\ owed' \in {owed, owed \ es}
    /\ UNCHANGED <<accepted, delivered, discarded>>

Retry(es) ==
    /\ es \subseteq parked
    /\ parked' = parked \ es
    /\ owed' = owed \cup es
    /\ UNCHANGED <<accepted, delivered, discarded>>

Discard(e) ==
    /\ e \in IF Orderly THEN parked ELSE accepted
    /\ owed' = owed \ {e}
    /\ parked' = parked \ {e}
    /\ discarded' = discarded \cup {e}
    /\ UNCHANGED <<accepted, delivered>>

DeliveryNext ==
    \/ \E e \in Events : Accept(e) \/ Deliver(e) \/ Settle(e) \/ Discard(e)
    \/ \E es \in SUBSET Events : Park(es) \/ Retry(es)

DeliverySpec == DeliveryInit /\ [][DeliveryNext]_deliveryVars

-----------------------------------------------------------------------------

\* Whatever stragglers and operators do, an accepted event is owed, delivered,
\* a dead letter or deleted, and what was deleted does not come back.
NothingIsLost ==
    /\ accepted = owed \cup delivered \cup parked \cup discarded
    /\ discarded \cap (owed \cup parked) = {}

\* Where there are no stragglers, an event that was settled stays settled: it
\* is neither tried again nor does it turn up among the dead letters.
Settled(e) == e \in accepted \ (owed \cup parked \cup discarded)

SettledStaysSettled ==
    Orderly => [][\A e \in Events : Settled(e) => Settled(e)']_deliveryVars
=============================================================================
