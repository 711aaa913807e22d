--------------------------- MODULE AssetIssuesProofs ---------------------------
(***************************************************************************)
(* Theorems about AssetIssues, for any number of assets, requests and      *)
(* concurrent calls and any finite set of lines: OneHolder,                *)
(* RequestsHonoured and StockAccounts, with the types.                     *)
(*                                                                         *)
(* The calls read without a lock and write by id.  What makes OneHolder    *)
(* inductive is that a call whose write finds what it has read writes what *)
(* its checks allow: those checks, remembered, are SoundCall.  The other   *)
(* two rest on AssetInv, which adds to the types the checks nobody takes   *)
(* back (Checked): an approval the engine gave stands, and so does what a  *)
(* return read of its line, as a record if not as a row.  Last, that the   *)
(* integration uses the engine as ApprovalDecision allows.                 *)
(***************************************************************************)
EXTENDS AssetIssues, FiniteSetTheorems, TLAPS

\* What a call that is about to write has checked.
SoundCall(call) ==
    /\ call.op \in {"issue", "handOver"} =>
          /\ call.item \in Items
          /\ call = [op |-> call.op, item |-> call.item, quantity |-> call.quantity,
                     request |-> call.request]
    /\ call.op = "handOver" => call.item \in Assets
    /\ call.op = "change" => /\ call.item \in Assets
                             /\ call.seen # "assigned"
                             /\ call.to \in AssetStatus \ {"assigned"}
    /\ call.op = "return" =>
          /\ call.line \in Lines
          /\ call.seen.status = "open"
          /\ call.seen.item \in Assets => call.quantity = call.seen.quantity

SoundLine(x) ==
    /\ x.item \in Items
    /\ x = [status |-> x.status, item |-> x.item, request |-> x.request,
            quantity |-> x.quantity]

\* The columns that decide who holds an asset, and the calls.
HolderTypes ==
    /\ asset \in [Assets -> AssetStatus]
    /\ line = [l \in Lines |-> line[l]]
    /\ \A l \in Lines : SoundLine(line[l])
    /\ assetCall = [c \in AssetCalls |-> assetCall[c]]
    /\ \A c \in AssetCalls : SoundCall(assetCall[c])

\* An asset is held by one line while it is assigned, by none otherwise.
Held(a) ==
    /\ \A l, m \in Open(a) : l = m
    /\ asset[a] = "assigned" <=> Open(a) # {}

HolderInv ==
    /\ HolderTypes
    /\ \A a \in Assets \ crossed : Held(a)

-----------------------------------------------------------------------------

LEMMA InitHolderInv == AssetInit => HolderInv
<1> SUFFICES ASSUME AssetInit PROVE HolderInv
  OBVIOUS
<1>1. /\ asset \in [Assets -> AssetStatus]
      /\ line = [l \in Lines |-> line[l]]
      /\ assetCall = [c \in AssetCalls |-> assetCall[c]]
  BY DEF AssetInit, AssetStatus
<1>2. \A l \in Lines : SoundLine(line[l])
  BY DEF AssetInit, SoundLine, NoLine, Items
<1>3. \A c \in AssetCalls : SoundCall(assetCall[c])
  BY DEF AssetInit, SoundCall, IdleAssetCall
<1>4. \A a \in Assets : asset[a] # "assigned" /\ Open(a) = {}
  BY DEF AssetInit, Open, NoLine
<1> QED
  BY <1>1, <1>2, <1>3, <1>4 DEF HolderInv, HolderTypes, Held

LEMMA IdleIsSound == SoundCall(IdleAssetCall)
BY DEF SoundCall, IdleAssetCall

\* A step of one call leaves the others alone.
LEMMA OneCallMoves ==
    ASSUME HolderTypes, NEW c \in AssetCalls, NEW call, SoundCall(call), Continue(c, call)
    PROVE  /\ assetCall' = [d \in AssetCalls |-> assetCall'[d]]
           /\ \A d \in AssetCalls : SoundCall(assetCall'[d])
<1>1. assetCall' = [d \in AssetCalls |-> IF d = c THEN call ELSE assetCall[d]]
  BY DEF Continue, HolderTypes
<1>2. \A d \in AssetCalls : SoundCall(assetCall'[d])
  <2> TAKE d \in AssetCalls
  <2>1. CASE d = c
    <3>1. assetCall'[d] = call
      BY <1>1, <2>1
    <3> QED
      BY <3>1 DEF SoundCall
  <2>2. CASE d # c
    <3>1. assetCall'[d] = assetCall[d]
      BY <1>1, <2>2
    <3> QED
      BY <3>1 DEF SoundCall, HolderTypes
  <2> QED
    BY <2>1, <2>2
<1> QED
  BY <1>1, <1>2

\* A step that leaves assets and lines alone.
LEMMA OnlyCallsMove ==
    ASSUME HolderInv, UNCHANGED <<asset, line>>, crossed \subseteq crossed',
           assetCall' = [d \in AssetCalls |-> assetCall'[d]],
           \A d \in AssetCalls : SoundCall(assetCall'[d])
    PROVE  HolderInv'
<1>1. \A l \in Lines : SoundLine(line'[l])
  BY DEF HolderInv, HolderTypes, SoundLine
<1>2. HolderTypes'
  BY <1>1 DEF HolderInv, HolderTypes
<1>3. \A a \in Assets \ crossed' : Held(a)'
  BY DEF HolderInv, Held, Open
<1> QED
  BY <1>2, <1>3 DEF HolderInv

LEMMA QuietStep ==
    ASSUME HolderInv, UNCHANGED <<asset, line>>, crossed \subseteq crossed',
           NEW c \in AssetCalls, NEW call, SoundCall(call), Continue(c, call)
    PROVE  HolderInv'
<1>1. /\ assetCall' = [d \in AssetCalls |-> assetCall'[d]]
      /\ \A d \in AssetCalls : SoundCall(assetCall'[d])
  BY OneCallMoves DEF HolderInv
<1> QED
  BY <1>1, OnlyCallsMove

\* A step that ends its call and moves nothing.
LEMMA EndStep ==
    ASSUME HolderInv, UNCHANGED <<asset, line>>, crossed \subseteq crossed',
           NEW c \in AssetCalls, End(c)
    PROVE  HolderInv'
BY IdleIsSound, QuietStep DEF End

LEMMA CrossGrows ==
    ASSUME NEW row, NEW changed, Cross(row, changed)
    PROVE  crossed \subseteq crossed' /\ (changed => row \in crossed')
BY DEF Cross

-----------------------------------------------------------------------------
(***************************************************************************)
(* The steps that move nothing.                                            *)
(***************************************************************************)

LEMMA BeginStep ==
    ASSUME HolderInv, NEW c \in AssetCalls, NEW call, SoundCall(call), Begin(c, call)
    PROVE  HolderInv'
<1>1. Continue(c, call) /\ UNCHANGED <<asset, line, crossed>>
  BY DEF Begin, stockVars
<1> QED
  BY <1>1, QuietStep

LEMMA StockReads ==
    ASSUME HolderInv, NEW c \in AssetCalls,
           \/ \E a \in Assets, to \in AssetStatus : BeginChange(c, a, to)
           \/ \E item \in Items, q \in Quantities, r \in AssetRequests \cup {NoRequest} :
                 BeginIssue(c, item, q, r)
           \/ FindAsset(c)
           \/ \E l \in Lines, q \in Quantities : BeginReturn(c, l, q)
           \/ Drop(c)
    PROVE  HolderInv'
<1>1. ASSUME NEW a \in Assets, NEW to \in AssetStatus, BeginChange(c, a, to)
      PROVE  HolderInv'
  <2> DEFINE call == [op |-> "change", item |-> a, to |-> to, seen |-> asset[a]]
  <2>1. SoundCall(call)
    BY <1>1 DEF BeginChange, SoundCall, ChangeableFrom
  <2>2. Begin(c, call)
    BY <1>1 DEF BeginChange
  <2> QED
    BY <2>1, <2>2, BeginStep
<1>2. ASSUME NEW item \in Items, NEW q \in Quantities, NEW r \in AssetRequests \cup {NoRequest},
             BeginIssue(c, item, q, r)
      PROVE  HolderInv'
  <2> DEFINE call == [op |-> "issue", item |-> item, quantity |-> q, request |-> r]
  <2>1. SoundCall(call)
    BY DEF SoundCall
  <2>2. Begin(c, call)
    BY <1>2 DEF BeginIssue
  <2> QED
    BY <2>1, <2>2, BeginStep
<1>3. ASSUME FindAsset(c)
      PROVE  HolderInv'
  <2> DEFINE call == [assetCall[c] EXCEPT !.op = "handOver"]
  <2>1. assetCall[c].op = "issue" /\ assetCall[c].item \in Assets /\ Continue(c, call)
    BY <1>3 DEF FindAsset
  <2>2. UNCHANGED <<asset, line, crossed>>
    BY <1>3 DEF FindAsset, stockVars
  <2>3. PICK item, q, r : /\ assetCall[c] = [op |-> "issue", item |-> item,
                                             quantity |-> q, request |-> r]
                          /\ item \in Assets
    BY <2>1 DEF HolderInv, HolderTypes, SoundCall
  <2>4. call = [op |-> "handOver", item |-> item, quantity |-> q, request |-> r]
    BY <2>3
  <2>5. SoundCall(call)
    BY <2>3, <2>4 DEF SoundCall, Items
  <2> QED
    BY <2>1, <2>2, <2>5, QuietStep
<1>4. ASSUME NEW l \in Lines, NEW q \in Quantities, BeginReturn(c, l, q)
      PROVE  HolderInv'
  <2> DEFINE call == [op |-> "return", line |-> l, quantity |-> q, seen |-> line[l]]
  <2>1. SoundCall(call)
    BY <1>4 DEF BeginReturn, Returnable, SoundCall
  <2>2. Begin(c, call)
    BY <1>4 DEF BeginReturn
  <2> QED
    BY <2>1, <2>2, BeginStep
<1>5. ASSUME Drop(c)
      PROVE  HolderInv'
  BY <1>5, EndStep DEF Drop, stockVars
<1> QED
  BY <1>1, <1>2, <1>3, <1>4, <1>5

LEMMA StockMoves ==
    ASSUME HolderInv, NEW delta, MoveStock(delta)
    PROVE  HolderInv'
<1>1. UNCHANGED <<asset, line, crossed, assetCall>>
  BY DEF MoveStock
<1> QED
  BY <1>1, OnlyCallsMove DEF HolderInv, HolderTypes, SoundCall

\* The steps of requests and decisions, the reads of an issue excepted.
LEMMA RequestSteps ==
    ASSUME HolderInv,
           \/ \E r \in AssetRequests :
                \/ LookUpApproval(r)
                \/ \E q \in Approvals : InsertApproval(r, q) \/ LinkApproval(r, q)
           \/ \E q \in Approvals : EngineDecides(q)
           \/ \E c \in AssetCalls :
                \/ \E r \in AssetRequests : BeginSubmit(c, r) \/ BeginCancelRequest(c, r)
                \/ WriteSubmit(c) \/ WriteCancel(c)
                \/ \E q \in Approvals : BeginDecision(c, q)
                \/ WriteDecision(c) \/ WriteLink(c)
    PROVE  HolderInv'
<1>1. CASE UNCHANGED <<asset, line, crossed, assetCall>>
  BY <1>1, OnlyCallsMove DEF HolderInv, HolderTypes, SoundCall
<1>2. ASSUME NEW r \in AssetRequests,
             \/ LookUpApproval(r)
             \/ \E q \in Approvals : InsertApproval(r, q) \/ LinkApproval(r, q)
      PROVE  HolderInv'
  BY <1>1, <1>2 DEF LookUpApproval, InsertApproval, LinkApproval, stockVars
<1>3. ASSUME NEW q \in Approvals, EngineDecides(q)
      PROVE  HolderInv'
  BY <1>1, <1>3 DEF EngineDecides, assetOwnVars, stockVars
<1>4. ASSUME NEW c \in AssetCalls, NEW r \in AssetRequests,
             BeginSubmit(c, r) \/ BeginCancelRequest(c, r)
      PROVE  HolderInv'
  <2>1. \A op \in {"submit", "cancel"} :
           SoundCall([op |-> op, request |-> r, seen |-> assetRequest[r]])
    BY DEF SoundCall
  <2> QED
    BY <1>4, <2>1, BeginStep DEF BeginSubmit, BeginCancelRequest
<1>5. ASSUME NEW c \in AssetCalls, WriteSubmit(c) \/ WriteCancel(c)
      PROVE  HolderInv'
  BY <1>5, CrossGrows, EndStep DEF WriteSubmit, WriteCancel, WriteRequest, stockVars
<1>6. ASSUME NEW c \in AssetCalls, NEW q \in Approvals, BeginDecision(c, q)
      PROVE  HolderInv'
  <2>1. /\ SoundCall([op |-> "decide", request |-> q, seen |-> assetRequest[AssetOf[q]]])
        /\ SoundCall([op |-> "link", request |-> q])
    BY DEF SoundCall
  <2> QED
    BY <1>6, <2>1, BeginStep DEF BeginDecision
<1>7. ASSUME NEW c \in AssetCalls, WriteDecision(c)
      PROVE  HolderInv'
  <2> DEFINE call == [op |-> "link", request |-> assetCall[c].request]
  <2>1. SoundCall(call)
    BY DEF SoundCall
  <2>2. Continue(c, call) /\ UNCHANGED <<asset, line>> /\ crossed \subseteq crossed'
    BY <1>7, CrossGrows DEF WriteDecision, WriteRequest, stockVars
  <2> QED
    BY <2>1, <2>2, QuietStep
<1>8. ASSUME NEW c \in AssetCalls, WriteLink(c)
      PROVE  HolderInv'
  BY <1>8, EndStep DEF WriteLink, stockVars
<1> QED
  BY <1>2, <1>3, <1>4, <1>5, <1>6, <1>7, <1>8

-----------------------------------------------------------------------------
(***************************************************************************)
(* The three writes that move an asset or a line.                          *)
(***************************************************************************)

\* A row whose columns stay as they are.
LEMMA HeldStays ==
    ASSUME NEW a \in Assets, Held(a), asset'[a] = asset[a],
           \A l \in Lines : (line'[l].status = "open" /\ line'[l].item = a)
                              <=> (line[l].status = "open" /\ line[l].item = a)
    PROVE  Held(a)'
<1>1. Open(a)' = Open(a)
  BY DEF Open
<1> QED
  BY <1>1 DEF Held

LEMMA ChangeKeepsHolders ==
    ASSUME HolderInv, NEW c \in AssetCalls, WriteChange(c)
    PROVE  HolderInv'
<1> DEFINE item == assetCall[c].item
           to == assetCall[c].to
<1>1. /\ item \in Assets
      /\ assetCall[c].seen # "assigned"
      /\ to \in AssetStatus \ {"assigned"}
  BY DEF WriteChange, HolderInv, HolderTypes, SoundCall
<1>2. /\ asset' = [asset EXCEPT ![item] = to]
      /\ line' = line
      /\ End(c)
      /\ Cross(item, asset[item] # assetCall[c].seen)
  BY DEF WriteChange
<1>3. crossed \subseteq crossed' /\ (asset[item] # assetCall[c].seen => item \in crossed')
  BY <1>2, CrossGrows
<1>4. HolderTypes'
  <2>1. asset' \in [Assets -> AssetStatus]
    BY <1>1, <1>2 DEF HolderInv, HolderTypes
  <2>2. \A l \in Lines : SoundLine(line'[l])
    BY <1>2 DEF HolderInv, HolderTypes, SoundLine
  <2>3. /\ assetCall' = [d \in AssetCalls |-> assetCall'[d]]
        /\ \A d \in AssetCalls : SoundCall(assetCall'[d])
    BY <1>2, IdleIsSound, OneCallMoves DEF HolderInv, End
  <2> QED
    BY <1>2, <2>1, <2>2, <2>3 DEF HolderInv, HolderTypes
<1>5. ASSUME NEW a \in Assets \ crossed'
      PROVE  Held(a)'
  <2>1. Held(a)
    BY <1>3, <1>5 DEF HolderInv
  <2>2. CASE a = item
    <3>1. asset[a] # "assigned" /\ asset'[a] # "assigned"
      BY <1>1, <1>2, <1>3, <1>5, <2>2 DEF HolderInv, HolderTypes
    <3>2. Open(a)' = {}
      BY <1>2, <2>1, <3>1 DEF Held, Open
    <3> QED
      BY <3>1, <3>2 DEF Held
  <2>3. CASE a # item
    BY <1>2, <2>1, <2>3, HeldStays DEF HolderInv, HolderTypes
  <2> QED
    BY <2>2, <2>3
<1> QED
  BY <1>4, <1>5 DEF HolderInv

LEMMA IssueKeepsHolders ==
    ASSUME HolderInv, NEW c \in AssetCalls, WriteIssue(c)
    PROVE  HolderInv'
<1> DEFINE item == assetCall[c].item
           new == [status |-> "open", item |-> item, request |-> assetCall[c].request,
                   quantity |-> assetCall[c].quantity]
<1>1. /\ asset' = [a \in Assets |-> IF a = item THEN "assigned" ELSE asset[a]]
      /\ crossed \subseteq crossed'
      /\ \A a \in Assets : a = item /\ asset[a] # "available" => a \in crossed'
      /\ End(c)
      /\ item \in Items
  BY DEF WriteIssue, HolderInv, HolderTypes, SoundCall
<1>2. PICK l \in NewLine : line' = [line EXCEPT ![l] = new]
  BY DEF WriteIssue
<1>3. l \in Lines /\ line[l] = NoLine
  BY DEF NewLine
<1>4. /\ line' = [k \in Lines |-> line'[k]]
      /\ line'[l] = new
      /\ \A k \in Lines \ {l} : line'[k] = line[k]
  BY <1>2, <1>3 DEF HolderInv, HolderTypes
<1>5. HolderTypes'
  <2>1. asset' \in [Assets -> AssetStatus]
    BY <1>1 DEF HolderInv, HolderTypes, AssetStatus
  <2>2. \A k \in Lines : SoundLine(line'[k])
    BY <1>1, <1>4 DEF HolderInv, HolderTypes, SoundLine
  <2>3. /\ assetCall' = [d \in AssetCalls |-> assetCall'[d]]
        /\ \A d \in AssetCalls : SoundCall(assetCall'[d])
    BY <1>1, IdleIsSound, OneCallMoves DEF HolderInv, End
  <2> QED
    BY <1>4, <2>1, <2>2, <2>3 DEF HolderTypes
<1>6. ASSUME NEW a \in Assets \ crossed'
      PROVE  Held(a)'
  <2>1. Held(a)
    BY <1>1, <1>6 DEF HolderInv
  <2>2. CASE a = item
    <3>1. asset[a] = "available" /\ asset'[a] = "assigned"
      BY <1>1, <1>6, <2>2
    <3>2. Open(a) = {}
      BY <2>1, <3>1 DEF Held
    <3>3. Open(a)' = {l}
      BY <1>3, <1>4, <2>2, <3>2 DEF Open
    <3> QED
      BY <3>1, <3>3 DEF Held
  <2>3. CASE a # item
    <3>1. asset'[a] = asset[a]
      BY <1>1, <2>3
    <3>2. \A k \in Lines : (line'[k].status = "open" /\ line'[k].item = a)
                             <=> (line[k].status = "open" /\ line[k].item = a)
      BY <1>3, <1>4, <2>3 DEF NoLine
    <3> QED
      BY <2>1, <3>1, <3>2, HeldStays
  <2> QED
    BY <2>2, <2>3
<1> QED
  BY <1>5, <1>6 DEF HolderInv

\* What a return makes of its line: an employee's asset only by a full return.
LEMMA AfterReturnLine ==
    ASSUME NEW l \in Lines, NEW seen, NEW q, SoundLine(line[l])
    PROVE  /\ SoundLine(AfterReturn(l, seen, q))
           /\ AfterReturn(l, seen, q).item = line[l].item
           /\ q = seen => AfterReturn(l, seen, q).status = "returned"
<1>1. PICK st, it, rq, n : /\ line[l] = [status |-> st, item |-> it, request |-> rq,
                                         quantity |-> n]
                           /\ it \in Items
  BY DEF SoundLine
<1>2. AfterReturn(l, seen, q) =
        IF q = seen
          THEN [status |-> "returned", item |-> it, request |-> rq, quantity |-> n]
          ELSE [status |-> st, item |-> it, request |-> rq, quantity |-> seen - q]
  BY <1>1 DEF AfterReturn
<1>3. CASE q = seen
  BY <1>1, <1>2, <1>3 DEF SoundLine
<1>4. CASE q # seen
  BY <1>1, <1>2, <1>4 DEF SoundLine
<1> QED
  BY <1>3, <1>4

LEMMA ReturnKeepsHolders ==
    ASSUME HolderInv, NEW c \in AssetCalls, WriteReturn(c)
    PROVE  HolderInv'
<1> DEFINE l == assetCall[c].line
           seen == assetCall[c].seen
           q == assetCall[c].quantity
           item == line[l].item
           left == AfterReturn(l, seen.quantity, q)
<1>1. /\ l \in Lines
      /\ seen.status = "open"
      /\ seen.item \in Assets => q = seen.quantity
  BY DEF WriteReturn, HolderInv, HolderTypes, SoundCall
<1>2. /\ asset' = [a \in Assets |-> IF a = item THEN "available" ELSE asset[a]]
      /\ line' = [line EXCEPT ![l] = left]
      /\ End(c)
      /\ Cross(item, line[l] # seen)
  BY DEF WriteReturn
<1>3. crossed \subseteq crossed' /\ (line[l] # seen => item \in crossed')
  BY <1>2, CrossGrows
<1>4. /\ SoundLine(left)
      /\ left.item = item
      /\ q = seen.quantity => left.status = "returned"
  BY <1>1, AfterReturnLine DEF HolderInv, HolderTypes
<1> HIDE DEF left
<1>5. /\ line' = [k \in Lines |-> line'[k]]
      /\ line'[l] = left
      /\ \A k \in Lines \ {l} : line'[k] = line[k]
  BY <1>1, <1>2 DEF HolderInv, HolderTypes
<1>6. HolderTypes'
  <2>1. asset' \in [Assets -> AssetStatus]
    BY <1>2 DEF HolderInv, HolderTypes, AssetStatus
  <2>2. \A k \in Lines : SoundLine(line'[k])
    BY <1>4, <1>5 DEF HolderInv, HolderTypes, SoundLine
  <2>3. /\ assetCall' = [d \in AssetCalls |-> assetCall'[d]]
        /\ \A d \in AssetCalls : SoundCall(assetCall'[d])
    BY <1>2, IdleIsSound, OneCallMoves DEF HolderInv, End
  <2> QED
    BY <1>5, <2>1, <2>2, <2>3 DEF HolderTypes
<1>7. ASSUME NEW a \in Assets \ crossed'
      PROVE  Held(a)'
  <2>1. Held(a)
    BY <1>3, <1>7 DEF HolderInv
  <2>2. CASE a = item
    <3>1. line[l] = seen
      BY <1>3, <1>7, <2>2
    <3>2. l \in Open(a) /\ left.status = "returned"
      BY <1>1, <1>4, <2>2, <3>1 DEF Open
    <3>3. Open(a)' = {}
      BY <1>5, <2>1, <3>2 DEF Held, Open
    <3>4. asset'[a] = "available"
      BY <1>2, <2>2
    <3> QED
      BY <3>3, <3>4 DEF Held
  <2>3. CASE a # item
    <3>1. asset'[a] = asset[a]
      BY <1>2, <2>3
    <3>2. \A k \in Lines : (line'[k].status = "open" /\ line'[k].item = a)
                             <=> (line[k].status = "open" /\ line[k].item = a)
      BY <1>4, <1>5, <2>3
    <3> QED
      BY <2>1, <3>1, <3>2, HeldStays
  <2> QED
    BY <2>2, <2>3
<1> QED
  BY <1>6, <1>7 DEF HolderInv

-----------------------------------------------------------------------------

LEMMA StepHolderInv == HolderInv /\ [AssetNext]_assetVars => HolderInv'
<1> SUFFICES ASSUME HolderInv, [AssetNext]_assetVars PROVE HolderInv'
  OBVIOUS
<1>1. CASE UNCHANGED assetVars
  <2>1. UNCHANGED <<asset, line, crossed, assetCall>>
    BY <1>1 DEF assetVars, assetOwnVars, stockVars
  <2> QED
    BY <2>1, OnlyCallsMove DEF HolderInv, HolderTypes, SoundCall
<1>2. CASE StockNext
  <2>1. ASSUME NEW q \in Quantities, MoveStock(q) \/ MoveStock(-q)
        PROVE  HolderInv'
    BY <2>1, StockMoves
  <2>2. ASSUME NEW c \in AssetCalls, WriteChange(c) \/ WriteIssue(c) \/ WriteReturn(c)
        PROVE  HolderInv'
    BY <2>2, ChangeKeepsHolders, IssueKeepsHolders, ReturnKeepsHolders
  <2> QED
    BY <1>2, <2>1, <2>2, StockReads DEF StockNext
<1>3. CASE RequestNext
  BY <1>3, RequestSteps, StockReads DEF RequestNext
<1> QED
  BY <1>1, <1>2, <1>3 DEF AssetNext

LEMMA HolderInvGivesOneHolder == HolderInv => OneHolder
<1> SUFFICES ASSUME HolderInv, NEW a \in Assets \ crossed
             PROVE  Cardinality(Open(a)) = IF asset[a] = "assigned" THEN 1 ELSE 0
  BY DEF OneHolder
<1>1. Held(a)
  BY DEF HolderInv
<1>2. CASE asset[a] = "assigned"
  <2>1. PICK l : Open(a) = {l}
    BY <1>1, <1>2 DEF Held
  <2> QED
    BY <1>2, <2>1, FS_Singleton
<1>3. CASE asset[a] # "assigned"
  <2>1. Open(a) = {}
    BY <1>1, <1>3 DEF Held
  <2> QED
    BY <1>3, <2>1, FS_EmptySet
<1> QED
  BY <1>2, <1>3

\* Whatever calls issue, return or change the status of an asset at the same
\* time: while none of them overwrites what another did after its read, the
\* asset is assigned exactly while one line, and only one, hands it over.
THEOREM AssetHasOneHolder == AssetSpec => []OneHolder
<1>1. AssetInit => HolderInv
  BY InitHolderInv
<1>2. HolderInv /\ [AssetNext]_assetVars => HolderInv'
  BY StepHolderInv
<1>3. HolderInv => OneHolder
  BY HolderInvGivesOneHolder
<1> QED
  BY <1>1, <1>2, <1>3, PTL DEF AssetSpec

-----------------------------------------------------------------------------
(***************************************************************************)
(* Types, and what calls have checked of requests and lines.               *)
(***************************************************************************)

\* The engine approved a request's linked approval request, decided one that
\* is linked.
Backed(r) == \E q \in Approvals : /\ AssetOf[q] = r
                                  /\ assetLink[r].request = q
                                  /\ approvalStatus[q] = "approved"
Decided(q) ==
    /\ assetLink[AssetOf[q]].request = q
    /\ approvalAnnounced[q] # <<>>

\* What a call has read, and checked, that no other call takes back.
Checked(call) ==
    /\ call.op = "handOver" => call.item \in Assets
    /\ call.op = "return" => /\ call.seen.status = "open"
                             /\ call.quantity \in 1 .. call.seen.quantity
    /\ call.op \in {"issue", "handOver"} =>
          (call.request \in AssetRequests => Backed(call.request))
    /\ call.op \in {"decide", "link"} => Decided(call.request)

\* What the engine promises of a request that it has announced complete.
EngineTypes ==
    /\ approvalStatus \in [Approvals -> {"none", "pending"} \cup Engine!Outcome]
    /\ approvalAnnounced = [q \in Approvals |-> approvalAnnounced[q]]
    /\ \A q \in Approvals : approvalAnnounced[q] # <<>> => approvalStatus[q] \in Engine!Outcome

AssetInv ==
    /\ AssetTypeOK
    /\ EngineTypes
    /\ \A c \in AssetCalls : Checked(assetCall[c])
    /\ \A r \in AssetRequests : assetRequest[r] = "approved" => Backed(r)
    /\ \A l \in Lines : line[l].request \in AssetRequests => Backed(line[l].request)

\* Nothing is issued for a request but once, by what fulfils it.
IssuedFor(r) == {l \in Lines : line[l].request = r}
FulfilledOnce(r) ==
    /\ \A l, m \in IssuedFor(r) : l = m
    /\ assetRequest[r] = "fulfilled" <=> IssuedFor(r) # {}

RequestInv == \A r \in AssetRequests \ crossed : FulfilledOnce(r)

\* What no step takes back.
Standing ==
    /\ \A r \in AssetRequests : Backed(r) => Backed(r)'
    /\ \A q \in Approvals : Decided(q) => Decided(q)'

LEMMA RequestsHaveSubjects ==
    /\ \A q \in Approvals : AssetOf[q] \in AssetRequests /\ q # NoRequest
    /\ \A r \in AssetRequests : r # NoRequest
    /\ NoRequest \notin AssetRequests
BY AssetAssumption

LEMMA CallFields ==
    ASSUME NEW call \in AssetCall
    PROVE  /\ call.op \in {"issue", "handOver"} =>
                 call.item \in Items /\ call.quantity \in Quantities
                 /\ call.request \in AssetRequests \cup {NoRequest}
                 /\ call = [op |-> call.op, item |-> call.item, quantity |-> call.quantity,
                            request |-> call.request]
           /\ call.op = "return" =>
                 call.line \in Lines /\ call.quantity \in Nat /\ call.seen \in IssueLine
           /\ call.op = "change" => call.item \in Assets /\ call.to \in AssetStatus
           /\ call.op \in {"submit", "cancel"} =>
                 call.request \in AssetRequests /\ call.seen \in Cancellable
           /\ call.op = "decide" => call.request \in Approvals /\ call.seen \in Cancellable
           /\ call.op = "link" => call.request \in Approvals
<1>1. CASE call = IdleAssetCall
  BY <1>1 DEF IdleAssetCall
<1>2. CASE call \in [op : {"issue", "handOver"}, item : Items, quantity : Quantities,
                     request : AssetRequests \cup {NoRequest}]
  BY <1>2
<1>3. CASE call \in [op : {"return"}, line : Lines, quantity : Nat, seen : IssueLine]
  BY <1>3
<1>4. CASE call \in [op : {"change"}, item : Assets, to : AssetStatus, seen : AssetStatus]
  BY <1>4
<1>5. CASE call \in [op : {"submit", "cancel"}, request : AssetRequests, seen : Cancellable]
  BY <1>5
<1>6. CASE call \in [op : {"decide"}, request : Approvals, seen : Cancellable]
  BY <1>6
<1>7. CASE call \in [op : {"link"}, request : Approvals]
  BY <1>7
<1> QED
  BY <1>1, <1>2, <1>3, <1>4, <1>5, <1>6, <1>7 DEF AssetCall

LEMMA IdleIsChecked == IdleAssetCall \in AssetCall /\ Checked(IdleAssetCall)'
BY DEF AssetCall, Checked, IdleAssetCall

LEMMA CheckedStays ==
    ASSUME NEW call \in AssetCall, Standing, Checked(call)
    PROVE  Checked(call)'
<1>1. call.op \in {"decide", "link"} => Decided(call.request)'
  BY CallFields DEF Standing, Checked
<1>2. call.op \in {"issue", "handOver"} /\ call.request \in AssetRequests
         => Backed(call.request)'
  BY DEF Standing, Checked
<1> QED
  BY <1>1, <1>2 DEF Checked

\* The engine goes on: what it has announced or approved stays so.
LEMMA EngineGoesOn ==
    ASSUME EngineTypes, NEW q \in Approvals,
           \/ Engine!Create(q)
           \/ Engine!ApproveStep(q) \/ Engine!ApproveLastStep(q)
           \/ Engine!Reject(q) \/ Engine!Cancel(q)
    PROVE  /\ EngineTypes'
           /\ \A p \in Approvals :
                 /\ approvalStatus[p] = "approved" => approvalStatus'[p] = "approved"
                 /\ approvalAnnounced[p] # <<>> => approvalAnnounced'[p] # <<>>
<1>1. CASE Engine!Create(q)
  BY <1>1 DEF EngineTypes, Engine!Create, Engine!Outcome
<1>2. CASE Engine!ApproveStep(q)
  BY <1>2 DEF EngineTypes, Engine!ApproveStep
<1>3. ASSUME NEW outcome \in Engine!Outcome, approvalStatus[q] = "pending",
             Engine!Complete(q, outcome)
      PROVE  /\ EngineTypes'
             /\ \A p \in Approvals :
                   /\ approvalStatus[p] = "approved" => approvalStatus'[p] = "approved"
                   /\ approvalAnnounced[p] # <<>> => approvalAnnounced'[p] # <<>>
  <2>1. approvalAnnounced[q] = <<>>
    BY <1>3 DEF EngineTypes, Engine!Outcome
  <2>2. /\ approvalStatus' = [approvalStatus EXCEPT ![q] = outcome]
        /\ \A p \in Approvals \ {q} : approvalAnnounced'[p] = approvalAnnounced[p]
        /\ approvalAnnounced' = [p \in Approvals |-> approvalAnnounced'[p]]
    BY <1>3 DEF EngineTypes, Engine!Complete
  <2> QED
    BY <1>3, <2>1, <2>2 DEF EngineTypes
<1>4. \A o \in {"approved", "rejected", "cancelled"} : o \in Engine!Outcome
  BY DEF Engine!Outcome
<1>5. CASE Engine!ApproveLastStep(q) \/ Engine!Reject(q) \/ Engine!Cancel(q)
  BY <1>3, <1>4, <1>5 DEF Engine!ApproveLastStep, Engine!Reject, Engine!Cancel
<1> QED
  BY <1>1, <1>2, <1>5

LEMMA ApprovalsStand ==
    ASSUME AssetTypeOK, EngineTypes, [AssetNext]_assetVars
    PROVE  EngineTypes' /\ Standing
<1>1. ASSUME UNCHANGED <<assetLink, approvalStatus, approvalAnnounced>>
      PROVE  EngineTypes' /\ Standing
  BY <1>1 DEF EngineTypes, Standing, Backed, Decided
<1>2. ASSUME NEW q \in Approvals, assetLink' = assetLink,
             \/ Engine!Create(q)
             \/ Engine!ApproveStep(q) \/ Engine!ApproveLastStep(q)
             \/ Engine!Reject(q) \/ Engine!Cancel(q)
      PROVE  EngineTypes' /\ Standing
  <2>1. /\ EngineTypes'
        /\ \A p \in Approvals :
              /\ approvalStatus[p] = "approved" => approvalStatus'[p] = "approved"
              /\ approvalAnnounced[p] # <<>> => approvalAnnounced'[p] # <<>>
    BY <1>2, EngineGoesOn
  <2> QED
    BY <1>2, <2>1 DEF Standing, Backed, Decided
<1>3. ASSUME UNCHANGED <<approvalStatus, approvalAnnounced>>,
             \A p \in Approvals : assetLink[AssetOf[p]].request = p
                                    => assetLink'[AssetOf[p]].request = p
      PROVE  EngineTypes' /\ Standing
  BY <1>3 DEF EngineTypes, Standing, Backed, Decided
<1>4. ASSUME NEW r \in AssetRequests, NEW q \in Approvals, LinkApproval(r, q)
      PROVE  EngineTypes' /\ Standing
  <2>1. /\ assetLink[r].request = NoRequest
        /\ assetLink' = [assetLink EXCEPT ![r] = [request |-> q, status |-> "pending"]]
        /\ UNCHANGED <<approvalStatus, approvalAnnounced>>
    BY <1>4 DEF LinkApproval, NoAssetLink, engineVars
  <2>2. ASSUME NEW p \in Approvals, assetLink[AssetOf[p]].request = p
        PROVE  assetLink'[AssetOf[p]].request = p
    <3>1. AssetOf[p] # r
      BY <2>1, <2>2, RequestsHaveSubjects
    <3> QED
      BY <2>1, <2>2, <3>1, RequestsHaveSubjects DEF AssetTypeOK
  <2> QED
    BY <1>3, <2>1, <2>2
<1>5. ASSUME NEW c \in AssetCalls, WriteLink(c)
      PROVE  EngineTypes' /\ Standing
  <2> DEFINE q == assetCall[c].request
  <2>1. /\ assetLink' = [assetLink EXCEPT ![AssetOf[q]].status = approvalStatus[q]]
        /\ UNCHANGED <<approvalStatus, approvalAnnounced>>
    BY <1>5 DEF WriteLink, engineVars
  <2>2. ASSUME NEW r \in AssetRequests
        PROVE  assetLink'[r].request = assetLink[r].request
    <3>1. assetLink[r] \in AssetLink
      BY DEF AssetTypeOK
    <3> QED
      BY <2>1, <3>1 DEF AssetTypeOK, AssetLink
  <2> QED
    BY <1>3, <2>1, <2>2, RequestsHaveSubjects
<1>6. CASE UNCHANGED assetVars
  BY <1>1, <1>6 DEF assetVars, assetOwnVars, askAssetVars, engineVars
<1>7. ASSUME NEW delta, MoveStock(delta)
      PROVE  EngineTypes' /\ Standing
  BY <1>1, <1>7 DEF MoveStock, askAssetVars, engineVars
<1>8. ASSUME NEW c, NEW call, Begin(c, call)
      PROVE  EngineTypes' /\ Standing
  BY <1>1, <1>8 DEF Begin, askAssetVars, engineVars
<1>9. ASSUME NEW c, \/ WriteChange(c) \/ FindAsset(c) \/ WriteIssue(c) \/ WriteReturn(c)
                    \/ Drop(c) \/ WriteCancel(c) \/ WriteDecision(c)
      PROVE  EngineTypes' /\ Standing
  <2>1. UNCHANGED <<assetLink, approvalStatus, approvalAnnounced>>
    BY <1>9 DEF WriteChange, FindAsset, WriteIssue, WriteReturn, Drop, WriteCancel,
                WriteDecision, askAssetVars, engineVars
  <2> QED
    BY <1>1, <2>1
<1>10. ASSUME NEW c, WriteSubmit(c)
       PROVE  EngineTypes' /\ Standing
  BY <1>1, <1>10 DEF WriteSubmit, engineVars
<1>11. ASSUME NEW r, LookUpApproval(r)
       PROVE  EngineTypes' /\ Standing
  BY <1>1, <1>11 DEF LookUpApproval, engineVars
<1>12. ASSUME NEW r, NEW q \in Approvals, InsertApproval(r, q)
       PROVE  EngineTypes' /\ Standing
  BY <1>2, <1>12 DEF InsertApproval
<1>13. ASSUME NEW q \in Approvals, EngineDecides(q)
       PROVE  EngineTypes' /\ Standing
  BY <1>2, <1>13 DEF EngineDecides, assetOwnVars, askAssetVars
<1>14. CASE StockNext
  <2>1. ASSUME NEW c, NEW a, NEW to, BeginChange(c, a, to)
        PROVE  EngineTypes' /\ Standing
    BY <1>8, <2>1 DEF BeginChange
  <2>2. ASSUME NEW c, NEW item, NEW q, NEW r, BeginIssue(c, item, q, r)
        PROVE  EngineTypes' /\ Standing
    BY <1>8, <2>2 DEF BeginIssue
  <2>3. ASSUME NEW c, NEW l, NEW q, BeginReturn(c, l, q)
        PROVE  EngineTypes' /\ Standing
    BY <1>8, <2>3 DEF BeginReturn
  <2> QED
    BY <1>7, <1>9, <1>14, <2>1, <2>2, <2>3 DEF StockNext
<1>15. CASE RequestNext
  <2>1. ASSUME NEW c, NEW r, BeginSubmit(c, r) \/ BeginCancelRequest(c, r)
        PROVE  EngineTypes' /\ Standing
    BY <1>8, <2>1 DEF BeginSubmit, BeginCancelRequest
  <2>2. ASSUME NEW c, NEW item, NEW q, NEW r, BeginIssue(c, item, q, r)
        PROVE  EngineTypes' /\ Standing
    BY <1>8, <2>2 DEF BeginIssue
  <2>3. ASSUME NEW c, NEW q, BeginDecision(c, q)
        PROVE  EngineTypes' /\ Standing
    BY <1>8, <2>3 DEF BeginDecision
  <2> QED
    BY <1>4, <1>5, <1>9, <1>10, <1>11, <1>12, <1>13, <1>15, <2>1, <2>2, <2>3 DEF RequestNext
<1> QED
  BY <1>6, <1>14, <1>15 DEF AssetNext

-----------------------------------------------------------------------------
(***************************************************************************)
(* AssetInv, step by step.                                                 *)
(***************************************************************************)

AskTypes ==
    /\ lookedUp \subseteq submitted /\ submitted \subseteq AssetRequests
    /\ assetLink \in [AssetRequests -> AssetLink]
    /\ settled \subseteq Approvals

CallsChecked ==
    /\ assetCall \in [AssetCalls -> AssetCall]
    /\ \A c \in AssetCalls : Checked(assetCall[c])

LEMMA InitAssetInv == AssetInit => AssetInv
<1> SUFFICES ASSUME AssetInit PROVE AssetInv
  OBVIOUS
<1>1. asset \in [Assets -> AssetStatus] /\ onHand \in Nat /\ historySum \in Int /\ supplied \in Int
  BY DEF AssetInit, AssetStatus
<1>2. line \in [Lines -> IssueLine] /\ \A l \in Lines : line[l].request \notin AssetRequests
  BY RequestsHaveSubjects DEF AssetInit, NoLine, IssueLine, Items
<1>3. /\ assetRequest \in [AssetRequests -> Cancellable \cup Terminal]
      /\ \A r \in AssetRequests : assetRequest[r] # "approved"
  BY DEF AssetInit, Cancellable
<1>4. AskTypes
  BY DEF AskTypes, AssetInit, NoAssetLink, AssetLink
<1>5. CallsChecked
  BY DEF CallsChecked, AssetInit, AssetCall, Checked, IdleAssetCall
<1>6. crossed = {}
  BY DEF AssetInit
<1>7. EngineTypes
  BY DEF AssetInit, Engine!DecisionInit, EngineTypes
<1> QED
  BY <1>1, <1>2, <1>3, <1>4, <1>5, <1>6, <1>7 DEF AssetInv, AssetTypeOK, AskTypes, CallsChecked

\* The call that takes the step, and the others.
LEMMA CallsGoOn ==
    ASSUME AssetInv, Standing, NEW c \in AssetCalls,
           NEW call \in AssetCall, Checked(call)', Continue(c, call)
    PROVE  CallsChecked'
<1>1. /\ assetCall' \in [AssetCalls -> AssetCall]
      /\ assetCall'[c] = call
      /\ \A d \in AssetCalls \ {c} : assetCall'[d] = assetCall[d]
  BY DEF AssetInv, AssetTypeOK, Continue
<1>2. ASSUME NEW d \in AssetCalls
      PROVE  Checked(assetCall[d])'
  <2>1. CASE d = c
    BY <1>1, <2>1 DEF Checked
  <2>2. CASE d # c
    <3>1. PICK old \in AssetCall : old = assetCall[d]
      BY DEF AssetInv, AssetTypeOK
    <3>2. Checked(old)'
      BY <3>1, CheckedStays DEF AssetInv
    <3>3. assetCall'[d] = old
      BY <1>1, <2>2, <3>1
    <3> QED
      BY <3>2, <3>3 DEF Checked
  <2> QED
    BY <2>1, <2>2
<1> QED
  BY <1>1, <1>2 DEF CallsChecked

LEMMA CallEnds ==
    ASSUME AssetInv, Standing, NEW c \in AssetCalls, End(c)
    PROVE  CallsChecked'
BY IdleIsChecked, CallsGoOn DEF End

LEMMA CallsStay ==
    ASSUME AssetInv, Standing, assetCall' = assetCall
    PROVE  CallsChecked'
<1>1. ASSUME NEW d \in AssetCalls
      PROVE  Checked(assetCall[d])'
  <2>1. PICK old \in AssetCall : old = assetCall[d]
    BY DEF AssetInv, AssetTypeOK
  <2>2. Checked(old)'
    BY <2>1, CheckedStays DEF AssetInv
  <2> QED
    BY <2>1, <2>2 DEF Checked
<1> QED
  BY <1>1 DEF CallsChecked, AssetInv, AssetTypeOK

\* A step that leaves the rows of assets, lines and requests alone.
LEMMA RowsStay ==
    ASSUME AssetInv, EngineTypes', Standing, CallsChecked', AskTypes',
           UNCHANGED <<stockVars, assetRequest, crossed>>
    PROVE  AssetInv'
<1>1. UNCHANGED <<asset, onHand, historySum, supplied, line, assetRequest, crossed>>
  BY DEF stockVars
<1>2. AssetTypeOK'
  BY <1>1 DEF AssetInv, AssetTypeOK, CallsChecked, AskTypes
<1>3. \A r \in AssetRequests : assetRequest'[r] = "approved" => Backed(r)'
  BY <1>1 DEF AssetInv, Standing
<1>4. \A l \in Lines : line'[l].request \in AssetRequests => Backed(line[l].request)'
  BY <1>1 DEF AssetInv, Standing, Backed
<1> QED
  BY <1>2, <1>3, <1>4 DEF AssetInv, CallsChecked

LEMMA AskStays ==
    ASSUME AssetInv, UNCHANGED askAssetVars
    PROVE  AskTypes'
BY DEF AssetInv, AssetTypeOK, AskTypes, askAssetVars

LEMMA BeginKeepsTypes ==
    ASSUME AssetInv, EngineTypes', Standing, NEW c \in AssetCalls,
           NEW call \in AssetCall, Checked(call), Begin(c, call)
    PROVE  AssetInv'
<1>1. Continue(c, call) /\ UNCHANGED <<stockVars, assetRequest, crossed>> /\ UNCHANGED askAssetVars
  BY DEF Begin
<1>2. Checked(call)'
  BY CheckedStays
<1> QED
  BY <1>1, <1>2, CallsGoOn, AskStays, RowsStay

LEMMA ReadsKeepTypes ==
    ASSUME AssetInv, EngineTypes', Standing, NEW c \in AssetCalls,
           \/ \E a \in Assets, to \in AssetStatus : BeginChange(c, a, to)
           \/ \E item \in Items, q \in Quantities, r \in AssetRequests \cup {NoRequest} :
                 BeginIssue(c, item, q, r)
           \/ FindAsset(c)
           \/ \E l \in Lines, q \in Quantities : BeginReturn(c, l, q)
           \/ Drop(c)
           \/ \E r \in AssetRequests : BeginSubmit(c, r) \/ BeginCancelRequest(c, r)
           \/ \E q \in Approvals : BeginDecision(c, q)
    PROVE  AssetInv'
<1>1. ASSUME NEW a \in Assets, NEW to \in AssetStatus, BeginChange(c, a, to)
      PROVE  AssetInv'
  <2>1. PICK call : call = [op |-> "change", item |-> a, to |-> to, seen |-> asset[a]]
    OBVIOUS
  <2>2. call \in AssetCall /\ Checked(call)
    BY <2>1 DEF AssetInv, AssetTypeOK, AssetCall, Checked
  <2> QED
    BY <1>1, <2>1, <2>2, BeginKeepsTypes DEF BeginChange
<1>2. ASSUME NEW item \in Items, NEW q \in Quantities, NEW r \in AssetRequests \cup {NoRequest},
             BeginIssue(c, item, q, r)
      PROVE  AssetInv'
  <2>1. PICK call : call = [op |-> "issue", item |-> item, quantity |-> q, request |-> r]
    OBVIOUS
  <2>2. call \in AssetCall
    BY <2>1 DEF AssetCall
  <2>3. r \in AssetRequests => Backed(r)
    BY <1>2, RequestsHaveSubjects DEF BeginIssue, AssetInv
  <2>4. Checked(call)
    BY <2>1, <2>3 DEF Checked
  <2> QED
    BY <1>2, <2>1, <2>2, <2>4, BeginKeepsTypes DEF BeginIssue
<1>3. ASSUME FindAsset(c)
      PROVE  AssetInv'
  <2>1. PICK old \in AssetCall : old = assetCall[c]
    BY DEF AssetInv, AssetTypeOK
  <2>2. PICK call : call = [old EXCEPT !.op = "handOver"]
    OBVIOUS
  <2>3. /\ old.op = "issue" /\ old.item \in Assets /\ Continue(c, call)
        /\ UNCHANGED <<stockVars, assetRequest, crossed>>
        /\ UNCHANGED askAssetVars
    BY <1>3, <2>1, <2>2 DEF FindAsset
  <2>4. call = [op |-> "handOver", item |-> old.item, quantity |-> old.quantity,
                request |-> old.request]
        /\ call \in AssetCall
    <3>1. /\ old.item \in Items /\ old.quantity \in Quantities
          /\ old.request \in AssetRequests \cup {NoRequest}
          /\ old = [op |-> old.op, item |-> old.item, quantity |-> old.quantity,
                    request |-> old.request]
      BY <2>3, CallFields
    <3> QED
      BY <2>2, <3>1 DEF AssetCall
  <2>5. old.request \in AssetRequests => Backed(old.request)
    BY <2>1, <2>3 DEF AssetInv, Checked
  <2>6. Checked(call)
    BY <2>3, <2>4, <2>5 DEF Checked
  <2>7. Checked(call)'
    BY <2>4, <2>6, CheckedStays
  <2> QED
    BY <2>3, <2>4, <2>7, CallsGoOn, AskStays, RowsStay
<1>4. ASSUME NEW l \in Lines, NEW q \in Quantities, BeginReturn(c, l, q)
      PROVE  AssetInv'
  <2>1. PICK call : call = [op |-> "return", line |-> l, quantity |-> q, seen |-> line[l]]
    OBVIOUS
  <2>2. q \in Nat /\ line[l] \in IssueLine
    BY AssetAssumption DEF AssetInv, AssetTypeOK
  <2>3. call \in AssetCall
    BY <2>1, <2>2 DEF AssetCall
  <2>4. Checked(call)
    BY <1>4, <2>1 DEF BeginReturn, Returnable, Checked
  <2> QED
    BY <1>4, <2>1, <2>3, <2>4, BeginKeepsTypes DEF BeginReturn
<1>5. ASSUME Drop(c)
      PROVE  AssetInv'
  <2>1. End(c) /\ UNCHANGED <<stockVars, assetRequest, crossed>> /\ UNCHANGED askAssetVars
    BY <1>5 DEF Drop
  <2> QED
    BY <2>1, CallEnds, AskStays, RowsStay
<1>6. ASSUME NEW r \in AssetRequests, BeginSubmit(c, r) \/ BeginCancelRequest(c, r)
      PROVE  AssetInv'
  <2>1. PICK op \in {"submit", "cancel"} :
           Begin(c, [op |-> op, request |-> r, seen |-> assetRequest[r]])
    BY <1>6 DEF BeginSubmit, BeginCancelRequest
  <2>2. PICK call : call = [op |-> op, request |-> r, seen |-> assetRequest[r]]
    OBVIOUS
  <2>3. assetRequest[r] \in Cancellable
    BY <1>6 DEF BeginSubmit, BeginCancelRequest, Cancellable
  <2>4. call \in AssetCall /\ Checked(call)
    BY <2>2, <2>3 DEF AssetCall, Checked
  <2> QED
    BY <2>1, <2>2, <2>4, BeginKeepsTypes
<1>7. ASSUME NEW q \in Approvals, BeginDecision(c, q)
      PROVE  AssetInv'
  <2>1. PICK call : call = IF Decidable(AssetOf[q])
                             THEN [op |-> "decide", request |-> q,
                                   seen |-> assetRequest[AssetOf[q]]]
                             ELSE [op |-> "link", request |-> q]
    OBVIOUS
  <2>2. Decided(q) /\ Begin(c, call)
    BY <1>7, <2>1 DEF BeginDecision, Decided
  <2>3. Decidable(AssetOf[q]) => assetRequest[AssetOf[q]] \in Cancellable
    BY RequestsHaveSubjects DEF Decidable, AssetInv, AssetTypeOK
  <2>4. call \in AssetCall /\ Checked(call)
    BY <2>1, <2>2, <2>3 DEF AssetCall, Checked
  <2> QED
    BY <2>2, <2>4, BeginKeepsTypes
<1> QED
  BY <1>1, <1>2, <1>3, <1>4, <1>5, <1>6, <1>7

\* The steps that only ask for, or take, the engine's decision.
LEMMA AskingKeepsTypes ==
    ASSUME AssetInv, EngineTypes', Standing,
           \/ \E r \in AssetRequests :
                \/ LookUpApproval(r)
                \/ \E q \in Approvals : InsertApproval(r, q) \/ LinkApproval(r, q)
           \/ \E q \in Approvals : EngineDecides(q)
           \/ \E c \in AssetCalls : WriteLink(c)
    PROVE  AssetInv'
<1>0. AskTypes
  BY DEF AssetInv, AssetTypeOK, AskTypes
<1>1. ASSUME NEW r \in AssetRequests, LookUpApproval(r)
      PROVE  AssetInv'
  <2>1. AskTypes'
    BY <1>0, <1>1 DEF LookUpApproval, AskTypes
  <2>2. UNCHANGED <<stockVars, assetRequest, crossed>> /\ assetCall' = assetCall
    BY <1>1 DEF LookUpApproval
  <2> QED
    BY <2>1, <2>2, CallsStay, RowsStay
<1>2. ASSUME NEW r \in AssetRequests, NEW q \in Approvals, InsertApproval(r, q)
      PROVE  AssetInv'
  <2>1. AskTypes'
    BY <1>0, <1>2 DEF InsertApproval, AskTypes
  <2>2. UNCHANGED <<stockVars, assetRequest, crossed>> /\ assetCall' = assetCall
    BY <1>2 DEF InsertApproval
  <2> QED
    BY <2>1, <2>2, CallsStay, RowsStay
<1>3. ASSUME NEW r \in AssetRequests, NEW q \in Approvals, LinkApproval(r, q)
      PROVE  AssetInv'
  <2>1. AskTypes'
    <3>1. [request |-> q, status |-> "pending"] \in AssetLink
      BY DEF AssetLink
    <3>2. assetLink' \in [AssetRequests -> AssetLink]
      BY <1>0, <1>3, <3>1 DEF LinkApproval, AskTypes
    <3> QED
      BY <1>0, <1>3, <3>2 DEF LinkApproval, AskTypes
  <2>2. UNCHANGED <<stockVars, assetRequest, crossed>> /\ assetCall' = assetCall
    BY <1>3 DEF LinkApproval
  <2> QED
    BY <2>1, <2>2, CallsStay, RowsStay
<1>4. ASSUME NEW q \in Approvals, EngineDecides(q)
      PROVE  AssetInv'
  <2>1. UNCHANGED <<stockVars, assetRequest, crossed>> /\ assetCall' = assetCall
        /\ UNCHANGED askAssetVars
    BY <1>4 DEF EngineDecides, assetOwnVars
  <2> QED
    BY <2>1, AskStays, CallsStay, RowsStay
<1>5. ASSUME NEW c \in AssetCalls, WriteLink(c)
      PROVE  AssetInv'
  <2> DEFINE q == assetCall[c].request
  <2>1. /\ assetLink' = [assetLink EXCEPT ![AssetOf[q]].status = approvalStatus[q]]
        /\ settled' \in {settled, settled \cup {q}}
        /\ End(c)
        /\ UNCHANGED <<stockVars, assetRequest, crossed>>
        /\ UNCHANGED <<submitted, lookedUp>>
    BY <1>5 DEF WriteLink
  <2>2. q \in Approvals /\ Decided(q)
    <3>1. assetCall[c] \in AssetCall /\ assetCall[c].op = "link"
      BY <1>5 DEF WriteLink, AssetInv, AssetTypeOK
    <3> QED
      BY <3>1, CallFields DEF AssetInv, Checked
  <2>3. approvalStatus[q] \in Engine!Outcome
    BY <2>2 DEF AssetInv, EngineTypes, Decided
  <2>4. assetLink' \in [AssetRequests -> AssetLink]
    BY <1>0, <2>1, <2>3 DEF AskTypes, AssetLink
  <2>5. AskTypes'
    BY <1>0, <2>1, <2>2, <2>4 DEF AskTypes
  <2> QED
    BY <2>1, <2>5, CallEnds, RowsStay
<1> QED
  BY <1>1, <1>2, <1>3, <1>4, <1>5

\* A write of a request's status: to approved only what is backed.
LEMMA RequestWritten ==
    ASSUME AssetInv, EngineTypes', Standing, CallsChecked', AskTypes', UNCHANGED stockVars,
           NEW r \in AssetRequests, NEW to \in Cancellable \cup Terminal, NEW seen,
           WriteRequest(r, to, seen), to = "approved" => Backed(r)'
    PROVE  AssetInv'
<1>1. UNCHANGED <<asset, onHand, historySum, supplied, line>>
  BY DEF stockVars
<1>2. /\ assetRequest' = [assetRequest EXCEPT ![r] = to]
      /\ crossed' \subseteq crossed \cup {r}
  BY DEF WriteRequest, Cross
<1>3. AssetTypeOK'
  BY <1>1, <1>2 DEF AssetInv, AssetTypeOK, CallsChecked, AskTypes
<1>4. \A p \in AssetRequests : assetRequest'[p] = "approved" => Backed(p)'
  BY <1>2 DEF AssetInv, AssetTypeOK, Standing
<1>5. \A l \in Lines : line'[l].request \in AssetRequests => Backed(line[l].request)'
  BY <1>1 DEF AssetInv, Standing, Backed
<1> QED
  BY <1>3, <1>4, <1>5 DEF AssetInv, CallsChecked

\* What a call is about to write to a request, and on what grounds.
LEMMA RequestWrites ==
    ASSUME AssetInv, Standing, NEW c \in AssetCalls,
           WriteSubmit(c) \/ WriteCancel(c) \/ WriteDecision(c)
    PROVE  \E r \in AssetRequests, to \in (Cancellable \cup Terminal) \ {"fulfilled"},
              seen \in Cancellable :
              /\ WriteRequest(r, to, seen)
              /\ to = "approved" => Backed(r)'
              /\ UNCHANGED stockVars /\ CallsChecked' /\ AskTypes'
<1>0. assetCall[c] \in AssetCall /\ Checked(assetCall[c]) /\ AskTypes
  BY DEF AssetInv, AssetTypeOK, AskTypes
<1>1. CASE WriteSubmit(c)
  <2>1. assetCall[c].op = "submit"
    BY <1>1 DEF WriteSubmit
  <2>2. assetCall[c].request \in AssetRequests /\ assetCall[c].seen \in Cancellable
    BY <1>0, <2>1, CallFields
  <2>3. AskTypes'
    BY <1>0, <1>1, <2>2 DEF WriteSubmit, AskTypes
  <2>4. CallsChecked' /\ UNCHANGED stockVars
        /\ WriteRequest(assetCall[c].request, "pending_approval", assetCall[c].seen)
    BY <1>1, CallEnds DEF WriteSubmit
  <2>5. "pending_approval" \in (Cancellable \cup Terminal) \ {"fulfilled"}
    BY DEF Cancellable
  <2> QED
    BY <2>2, <2>3, <2>4, <2>5
<1>2. CASE WriteCancel(c)
  <2>1. assetCall[c].op = "cancel"
    BY <1>2 DEF WriteCancel
  <2>2. assetCall[c].request \in AssetRequests /\ assetCall[c].seen \in Cancellable
    BY <1>0, <2>1, CallFields
  <2>3. AskTypes'
    BY <1>2, AskStays DEF WriteCancel
  <2>4. CallsChecked' /\ UNCHANGED stockVars
        /\ WriteRequest(assetCall[c].request, "cancelled", assetCall[c].seen)
    BY <1>2, CallEnds DEF WriteCancel
  <2>5. "cancelled" \in (Cancellable \cup Terminal) \ {"fulfilled"}
    BY DEF Terminal, Engine!Outcome
  <2> QED
    BY <2>2, <2>3, <2>4, <2>5
<1>3. CASE WriteDecision(c)
  <2>1. PICK q : q = assetCall[c].request
    OBVIOUS
  <2>2. assetCall[c].op = "decide"
    BY <1>3 DEF WriteDecision
  <2>3. q \in Approvals /\ assetCall[c].seen \in Cancellable /\ Decided(q)
    BY <1>0, <2>1, <2>2, CallFields DEF Checked
  <2>4. AssetOf[q] \in AssetRequests
    BY <2>3, RequestsHaveSubjects
  <2>5. approvalStatus[q] \in (Cancellable \cup Terminal) \ {"fulfilled"}
    BY <2>3 DEF AssetInv, EngineTypes, Decided, Terminal, Engine!Outcome
  <2>6. approvalStatus[q] = "approved" => Backed(AssetOf[q])'
    BY <2>3, <2>4 DEF Standing, Backed, Decided
  <2>7. PICK call : call = [op |-> "link", request |-> q]
    OBVIOUS
  <2>8. call \in AssetCall /\ Checked(call)'
    <3>1. call \in AssetCall
      BY <2>3, <2>7 DEF AssetCall
    <3>2. Checked(call)
      BY <2>3, <2>7 DEF Checked
    <3> QED
      BY <3>1, <3>2, CheckedStays
  <2>9. /\ WriteRequest(AssetOf[q], approvalStatus[q], assetCall[c].seen)
        /\ Continue(c, call)
        /\ UNCHANGED stockVars
        /\ UNCHANGED askAssetVars
    BY <1>3, <2>1, <2>7 DEF WriteDecision
  <2>10. CallsChecked' /\ AskTypes'
    BY <2>8, <2>9, CallsGoOn, AskStays
  <2> QED
    BY <2>3, <2>4, <2>5, <2>6, <2>9, <2>10
<1> QED
  BY <1>1, <1>2, <1>3

LEMMA RequestWritesKeepTypes ==
    ASSUME AssetInv, EngineTypes', Standing, NEW c \in AssetCalls,
           WriteSubmit(c) \/ WriteCancel(c) \/ WriteDecision(c)
    PROVE  AssetInv'
<1>1. PICK r \in AssetRequests, to \in (Cancellable \cup Terminal) \ {"fulfilled"},
           seen \in Cancellable :
        /\ WriteRequest(r, to, seen)
        /\ to = "approved" => Backed(r)'
        /\ UNCHANGED stockVars /\ CallsChecked' /\ AskTypes'
  BY RequestWrites
<1> QED
  BY <1>1, RequestWritten

LEMMA MovesKeepTypes ==
    ASSUME AssetInv, EngineTypes', Standing, NEW delta \in Int, MoveStock(delta)
    PROVE  AssetInv'
<1>1. /\ onHand' \in Nat /\ historySum' \in Int /\ supplied' \in Int
      /\ UNCHANGED <<asset, line, assetRequest, assetCall, crossed>>
      /\ UNCHANGED askAssetVars
  BY AssetAssumption DEF MoveStock, AssetInv, AssetTypeOK
<1>2. CallsChecked' /\ AskTypes'
  BY <1>1, CallsStay, AskStays
<1>3. AssetTypeOK'
  BY <1>1, <1>2 DEF AssetInv, AssetTypeOK, CallsChecked, AskTypes
<1>4. \A r \in AssetRequests : assetRequest'[r] = "approved" => Backed(r)'
  BY <1>1 DEF AssetInv, Standing
<1>5. \A l \in Lines : line'[l].request \in AssetRequests => Backed(line[l].request)'
  BY <1>1 DEF AssetInv, Standing, Backed
<1> QED
  BY <1>2, <1>3, <1>4, <1>5 DEF AssetInv, CallsChecked

LEMMA ChangeKeepsTypes ==
    ASSUME AssetInv, EngineTypes', Standing, NEW c \in AssetCalls, WriteChange(c)
    PROVE  AssetInv'
<1>1. assetCall[c].item \in Assets /\ assetCall[c].to \in AssetStatus
  <2>1. assetCall[c] \in AssetCall /\ assetCall[c].op = "change"
    BY DEF WriteChange, AssetInv, AssetTypeOK
  <2> QED
    BY <2>1, CallFields
<1>2. /\ asset' = [asset EXCEPT ![assetCall[c].item] = assetCall[c].to]
      /\ crossed' \subseteq crossed \cup {assetCall[c].item}
      /\ UNCHANGED <<onHand, historySum, supplied, line, assetRequest>>
  BY DEF WriteChange, Cross
<1>3. CallsChecked' /\ AskTypes'
  BY CallEnds, AskStays DEF WriteChange
<1>4. AssetTypeOK'
  BY <1>1, <1>2, <1>3 DEF AssetInv, AssetTypeOK, CallsChecked, AskTypes, Items
<1>5. \A r \in AssetRequests : assetRequest'[r] = "approved" => Backed(r)'
  BY <1>2 DEF AssetInv, Standing
<1>6. \A l \in Lines : line'[l].request \in AssetRequests => Backed(line[l].request)'
  BY <1>2 DEF AssetInv, Standing, Backed
<1> QED
  BY <1>3, <1>4, <1>5, <1>6 DEF AssetInv, CallsChecked

\* What an issue writes: a line that was not there, and out of stock what it
\* says.
LEMMA IssueWrites ==
    ASSUME AssetInv, NEW c \in AssetCalls, WriteIssue(c)
    PROVE  \E l \in Lines, new \in IssueLine :
              /\ line[l] = NoLine
              /\ line' = [line EXCEPT ![l] = new]
              /\ new.status = "open" /\ new.item = assetCall[c].item
              /\ new.request = assetCall[c].request /\ new.quantity = assetCall[c].quantity
              /\ new.item \in Items /\ new.quantity \in Nat
              /\ new.request \in AssetRequests => Backed(new.request)
              /\ new.item \in Assets => UNCHANGED <<onHand, historySum>>
              /\ new.item = Consumable =>
                    /\ onHand >= new.quantity
                    /\ onHand' = onHand - new.quantity
                    /\ historySum' = historySum - new.quantity
<1> DEFINE call == assetCall[c]
<1>1. call \in AssetCall /\ call.op \in {"issue", "handOver"} /\ Checked(call)
  BY DEF WriteIssue, AssetInv, AssetTypeOK
<1>2. /\ call.item \in Items /\ call.quantity \in Nat
      /\ call.request \in AssetRequests \cup {NoRequest}
  BY <1>1, CallFields, AssetAssumption
<1>3. call.request \in AssetRequests => Backed(call.request)
  BY <1>1 DEF Checked
<1>4. PICK new : new = [status |-> "open", item |-> call.item, request |-> call.request,
                        quantity |-> call.quantity]
  OBVIOUS
<1>5. PICK l \in NewLine : line' = [line EXCEPT ![l] = new]
  BY <1>4 DEF WriteIssue
<1>6. l \in Lines /\ line[l] = NoLine
  BY DEF NewLine
<1>7. new \in IssueLine
  BY <1>2, <1>4 DEF IssueLine
<1>8. call.item \in Assets => UNCHANGED <<onHand, historySum>>
  BY DEF WriteIssue
<1>9. call.item = Consumable => /\ onHand >= call.quantity
                                /\ onHand' = onHand - call.quantity
                                /\ historySum' = historySum - call.quantity
  BY <1>1, AssetAssumption DEF WriteIssue, Checked
<1>10. /\ new.status = "open" /\ new.item = call.item
       /\ new.request = call.request /\ new.quantity = call.quantity
  BY <1>4
<1> QED
  BY <1>2, <1>3, <1>5, <1>6, <1>7, <1>8, <1>9, <1>10

LEMMA IssueKeepsTypes ==
    ASSUME AssetInv, EngineTypes', Standing, NEW c \in AssetCalls, WriteIssue(c)
    PROVE  AssetInv'
<1>1. PICK l \in Lines, new \in IssueLine :
        /\ line' = [line EXCEPT ![l] = new]
        /\ new.item \in Items /\ new.quantity \in Nat
        /\ new.request \in AssetRequests => Backed(new.request)
        /\ new.item \in Assets => UNCHANGED <<onHand, historySum>>
        /\ new.item = Consumable =>
              /\ onHand >= new.quantity
              /\ onHand' = onHand - new.quantity
              /\ historySum' = historySum - new.quantity
  BY IssueWrites
<1>2. /\ asset' = [a \in Assets |-> IF a = assetCall[c].item THEN "assigned" ELSE asset[a]]
      /\ assetRequest' = FulfilledBy(assetCall[c])
      /\ crossed' \subseteq crossed \cup Assets \cup AssetRequests
      /\ supplied' = supplied
  BY DEF WriteIssue
<1>3. CallsChecked' /\ AskTypes'
  BY CallEnds, AskStays DEF WriteIssue
<1>4. onHand' \in Nat /\ historySum' \in Int
  BY <1>1 DEF AssetInv, AssetTypeOK, Items
<1>5. asset' \in [Assets -> AssetStatus]
  BY <1>2 DEF AssetInv, AssetTypeOK, AssetStatus
<1>6. assetRequest' \in [AssetRequests -> Cancellable \cup Terminal]
  BY <1>2 DEF FulfilledBy, AssetInv, AssetTypeOK, Terminal
<1>7. line' \in [Lines -> IssueLine]
  BY <1>1 DEF AssetInv, AssetTypeOK
<1>8. AssetTypeOK'
  BY <1>2, <1>3, <1>4, <1>5, <1>6, <1>7 DEF AssetInv, AssetTypeOK, CallsChecked, AskTypes, Items
<1>9. \A r \in AssetRequests : assetRequest'[r] = "approved" => Backed(r)'
  BY <1>2 DEF FulfilledBy, AssetInv, Standing
<1>10. ASSUME NEW k \in Lines, line'[k].request \in AssetRequests
       PROVE  Backed(line[k].request)'
  <2>1. PICK r \in AssetRequests : r = line'[k].request
    BY <1>10
  <2>2. Backed(r)
    BY <1>1, <2>1 DEF AssetInv, AssetTypeOK
  <2> QED
    BY <2>1, <2>2 DEF Standing, Backed
<1> QED
  BY <1>3, <1>8, <1>9, <1>10 DEF AssetInv, CallsChecked

\* What a return writes: the line, all of it returned or what is left of the
\* quantity that was read, and into stock what is returned.
LEMMA ReturnWrites ==
    ASSUME AssetInv, NEW c \in AssetCalls, WriteReturn(c)
    PROVE  \E l \in Lines, new \in IssueLine, q \in Nat, seen \in IssueLine :
              /\ line' = [line EXCEPT ![l] = new]
              /\ new.item = line[l].item /\ new.request = line[l].request
              /\ seen.status = "open" /\ q \in 1 .. seen.quantity
              /\ \/ q = seen.quantity /\ new.status = "returned"
                 \/ new.status = line[l].status /\ new.quantity = seen.quantity - q
              /\ line[l].item \in Assets => UNCHANGED <<onHand, historySum>>
              /\ line[l].item = Consumable =>
                    /\ onHand' = onHand + q
                    /\ historySum' = historySum + q
              /\ Cross(line[l].item, line[l] # seen)
<1>1. PICK call \in AssetCall : call = assetCall[c]
  BY DEF AssetInv, AssetTypeOK
<1>2. call.op = "return" /\ Checked(call)
  BY <1>1 DEF WriteReturn, AssetInv
<1>3. PICK l, q, seen : l = call.line /\ q = call.quantity /\ seen = call.seen
  OBVIOUS
<1>4. l \in Lines /\ q \in Nat /\ seen \in IssueLine
  BY <1>2, <1>3, CallFields
<1>5. seen.status = "open" /\ q \in 1 .. seen.quantity
  BY <1>2, <1>3 DEF Checked
<1>6. PICK new : new = AfterReturn(l, seen.quantity, q)
  OBVIOUS
<1>7. PICK old \in IssueLine : old = line[l]
  BY <1>4 DEF AssetInv, AssetTypeOK
<1>8. /\ new \in IssueLine
      /\ new.item = old.item /\ new.request = old.request
      /\ \/ q = seen.quantity /\ new.status = "returned"
         \/ new.status = old.status /\ new.quantity = seen.quantity - q
  <2>1. CASE q = seen.quantity
    <3>1. new = [old EXCEPT !.status = "returned"]
      BY <1>6, <1>7, <2>1 DEF AfterReturn
    <3> QED
      BY <1>7, <2>1, <3>1 DEF IssueLine
  <2>2. CASE q # seen.quantity
    <3>1. PICK n : n = seen.quantity - q
      OBVIOUS
    <3>2. seen.quantity \in Nat
      BY <1>4 DEF IssueLine
    <3>3. n \in Nat
      BY <1>4, <1>5, <3>1, <3>2
    <3>4. new = [old EXCEPT !.quantity = n]
      BY <1>6, <1>7, <2>2, <3>1 DEF AfterReturn
    <3>5. new \in IssueLine /\ new.item = old.item /\ new.request = old.request
          /\ new.status = old.status /\ new.quantity = n
      BY <1>7, <3>3, <3>4 DEF IssueLine
    <3> QED
      BY <3>1, <3>5
  <2> QED
    BY <2>1, <2>2
<1>9. /\ line' = [line EXCEPT ![l] = new]
      /\ old.item \in Assets => UNCHANGED <<onHand, historySum>>
      /\ Cross(old.item, old # seen)
      /\ old.item \notin Assets => /\ onHand' = onHand + q
                                   /\ historySum' = historySum + q
  BY <1>1, <1>3, <1>6, <1>7 DEF WriteReturn
<1>10. Consumable \notin Assets
  BY AssetAssumption
<1>11. /\ line[l].item \in Assets => UNCHANGED <<onHand, historySum>>
       /\ line[l].item = Consumable => /\ onHand' = onHand + q
                                       /\ historySum' = historySum + q
       /\ Cross(line[l].item, line[l] # seen)
  BY <1>7, <1>9, <1>10
<1>12. /\ new.item = line[l].item /\ new.request = line[l].request
       /\ \/ q = seen.quantity /\ new.status = "returned"
          \/ new.status = line[l].status /\ new.quantity = seen.quantity - q
  BY <1>7, <1>8
<1>13. new \in IssueLine /\ line' = [line EXCEPT ![l] = new]
  BY <1>8, <1>9
<1> QED
  BY <1>4, <1>5, <1>11, <1>12, <1>13

LEMMA ReturnKeepsTypes ==
    ASSUME AssetInv, EngineTypes', Standing, NEW c \in AssetCalls, WriteReturn(c)
    PROVE  AssetInv'
<1>1. PICK l \in Lines, new \in IssueLine, q \in Nat, seen \in IssueLine :
        /\ line' = [line EXCEPT ![l] = new]
        /\ new.item = line[l].item /\ new.request = line[l].request
        /\ line[l].item \in Assets => UNCHANGED <<onHand, historySum>>
        /\ line[l].item = Consumable =>
              /\ onHand' = onHand + q
              /\ historySum' = historySum + q
        /\ Cross(line[l].item, line[l] # seen)
  BY ReturnWrites
<1>2. line[l].item \in Items
  BY DEF AssetInv, AssetTypeOK, IssueLine
<1>3. /\ asset' = [a \in Assets |->
                     IF a = line[assetCall[c].line].item THEN "available" ELSE asset[a]]
      /\ UNCHANGED <<supplied, assetRequest>>
  BY DEF WriteReturn
<1>4. CallsChecked' /\ AskTypes'
  BY CallEnds, AskStays DEF WriteReturn
<1>5. onHand' \in Nat /\ historySum' \in Int
  BY <1>1, <1>2 DEF AssetInv, AssetTypeOK, Items
<1>6. asset' \in [Assets -> AssetStatus]
  BY <1>3 DEF AssetInv, AssetTypeOK, AssetStatus
<1>7. line' \in [Lines -> IssueLine]
  BY <1>1 DEF AssetInv, AssetTypeOK
<1>8. crossed' \subseteq crossed \cup Items
  BY <1>1, <1>2 DEF Cross
<1>9. AssetTypeOK'
  BY <1>3, <1>4, <1>5, <1>6, <1>7, <1>8 DEF AssetInv, AssetTypeOK, CallsChecked, AskTypes
<1>10. \A r \in AssetRequests : assetRequest'[r] = "approved" => Backed(r)'
  BY <1>3 DEF AssetInv, Standing
<1>11. ASSUME NEW k \in Lines, line'[k].request \in AssetRequests
       PROVE  Backed(line[k].request)'
  <2>1. PICK r \in AssetRequests : r = line'[k].request
    BY <1>11
  <2>2. line[k].request = r
    BY <1>1, <2>1 DEF AssetInv, AssetTypeOK
  <2>3. Backed(r)
    BY <2>2 DEF AssetInv
  <2> QED
    BY <2>1, <2>3 DEF Standing, Backed
<1> QED
  BY <1>4, <1>9, <1>10, <1>11 DEF AssetInv, CallsChecked

LEMMA StepAssetInv == AssetInv /\ [AssetNext]_assetVars => AssetInv'
<1> SUFFICES ASSUME AssetInv, [AssetNext]_assetVars PROVE AssetInv'
  OBVIOUS
<1>0. EngineTypes' /\ Standing
  BY ApprovalsStand DEF AssetInv
<1>1. CASE UNCHANGED assetVars
  <2>1. UNCHANGED <<stockVars, assetRequest, crossed>> /\ assetCall' = assetCall
        /\ UNCHANGED askAssetVars
    BY <1>1 DEF assetVars, assetOwnVars
  <2> QED
    BY <1>0, <2>1, CallsStay, AskStays, RowsStay
<1>2. CASE StockNext
  <2>1. ASSUME NEW q \in Quantities, MoveStock(q) \/ MoveStock(-q)
        PROVE  AssetInv'
    <3>1. q \in Int /\ -q \in Int
      BY AssetAssumption
    <3> QED
      BY <1>0, <2>1, <3>1, MovesKeepTypes
  <2>2. ASSUME NEW c \in AssetCalls, WriteChange(c) \/ WriteIssue(c) \/ WriteReturn(c)
        PROVE  AssetInv'
    BY <1>0, <2>2, ChangeKeepsTypes, IssueKeepsTypes, ReturnKeepsTypes
  <2>3. ASSUME NEW c \in AssetCalls,
               \/ \E a \in Assets, to \in AssetStatus : BeginChange(c, a, to)
               \/ \E item \in Items, q \in Quantities : BeginIssue(c, item, q, NoRequest)
               \/ FindAsset(c)
               \/ \E l \in Lines, q \in Quantities : BeginReturn(c, l, q)
               \/ Drop(c)
        PROVE  AssetInv'
    BY <1>0, <2>3, ReadsKeepTypes
  <2> QED
    BY <1>2, <2>1, <2>2, <2>3 DEF StockNext
<1>3. CASE RequestNext
  <2>1. ASSUME NEW c \in AssetCalls,
               \/ \E r \in AssetRequests : BeginSubmit(c, r) \/ BeginCancelRequest(c, r)
               \/ \E r \in AssetRequests, item \in Items, q \in Quantities :
                     BeginIssue(c, item, q, r)
               \/ \E q \in Approvals : BeginDecision(c, q)
        PROVE  AssetInv'
    BY <1>0, <2>1, ReadsKeepTypes
  <2>2. ASSUME NEW c \in AssetCalls, WriteSubmit(c) \/ WriteCancel(c) \/ WriteDecision(c)
        PROVE  AssetInv'
    BY <1>0, <2>2, RequestWritesKeepTypes
  <2> QED
    BY <1>0, <1>3, <2>1, <2>2, AskingKeepsTypes DEF RequestNext
<1> QED
  BY <1>1, <1>2, <1>3 DEF AssetNext

\* The inductive invariant of assets, requests and calls.
THEOREM AssetInvariant == AssetSpec => []AssetInv
BY InitAssetInv, StepAssetInv, PTL DEF AssetSpec

\* Every reachable state of the assets is of its types; the stock is never
\* negative.
THEOREM AssetTypeCorrect == AssetSpec => []AssetTypeOK
<1>1. AssetInv => AssetTypeOK
  BY DEF AssetInv
<1> QED
  BY <1>1, AssetInvariant, PTL

-----------------------------------------------------------------------------
(***************************************************************************)
(* RequestsHonoured.                                                       *)
(***************************************************************************)

LEMMA InitRequestInv == AssetInit => RequestInv
<1> SUFFICES ASSUME AssetInit, NEW r \in AssetRequests PROVE FulfilledOnce(r)
  BY DEF RequestInv
<1>1. IssuedFor(r) = {} /\ assetRequest[r] = "draft"
  BY RequestsHaveSubjects DEF AssetInit, IssuedFor, NoLine
<1> QED
  BY <1>1 DEF FulfilledOnce

\* A step that neither issues anything nor writes a request.
LEMMA NothingIssued ==
    ASSUME RequestInv, assetRequest' = assetRequest, crossed \subseteq crossed',
           \A l \in Lines : line'[l].request = line[l].request
    PROVE  RequestInv'
<1> SUFFICES ASSUME NEW r \in AssetRequests \ crossed' PROVE FulfilledOnce(r)'
  BY DEF RequestInv
<1>1. IssuedFor(r)' = IssuedFor(r)
  BY DEF IssuedFor
<1> QED
  BY <1>1 DEF RequestInv, FulfilledOnce

LEMMA IssueFulfilsOnce ==
    ASSUME AssetInv, RequestInv, NEW c \in AssetCalls, WriteIssue(c)
    PROVE  RequestInv'
<1> SUFFICES ASSUME NEW r \in AssetRequests \ crossed' PROVE FulfilledOnce(r)'
  BY DEF RequestInv
<1>1. PICK l \in Lines, new \in IssueLine :
        /\ line[l] = NoLine
        /\ line' = [line EXCEPT ![l] = new]
        /\ new.request = assetCall[c].request
  BY IssueWrites
<1>2. /\ line'[l] = new
      /\ \A k \in Lines \ {l} : line'[k] = line[k]
      /\ line[l].request \notin AssetRequests
  BY <1>1, RequestsHaveSubjects DEF AssetInv, AssetTypeOK, NoLine
<1>3. /\ assetRequest'[r] = IF r = new.request THEN "fulfilled" ELSE assetRequest[r]
      /\ r \notin crossed
      /\ r = new.request => assetRequest[r] = "approved"
  BY <1>1 DEF WriteIssue, FulfilledBy
<1>4. FulfilledOnce(r)
  BY <1>3 DEF RequestInv
<1>5. CASE r = new.request
  <2>1. IssuedFor(r) = {}
    BY <1>3, <1>4, <1>5 DEF FulfilledOnce
  <2>2. IssuedFor(r)' = {l}
    BY <1>2, <1>5, <2>1 DEF IssuedFor
  <2> QED
    BY <1>3, <1>5, <2>2 DEF FulfilledOnce
<1>6. CASE r # new.request
  <2>1. IssuedFor(r)' = IssuedFor(r)
    BY <1>2, <1>6 DEF IssuedFor
  <2> QED
    BY <1>3, <1>4, <1>6, <2>1 DEF FulfilledOnce
<1> QED
  BY <1>5, <1>6

LEMMA WritesDoNotFulfil ==
    ASSUME AssetInv, RequestInv, Standing, NEW c \in AssetCalls,
           WriteSubmit(c) \/ WriteCancel(c) \/ WriteDecision(c)
    PROVE  RequestInv'
<1>1. PICK p \in AssetRequests, to \in (Cancellable \cup Terminal) \ {"fulfilled"},
           seen \in Cancellable :
        WriteRequest(p, to, seen) /\ UNCHANGED stockVars
  BY RequestWrites
<1> SUFFICES ASSUME NEW r \in AssetRequests \ crossed' PROVE FulfilledOnce(r)'
  BY DEF RequestInv
<1>2. IssuedFor(r)' = IssuedFor(r)
  BY <1>1 DEF stockVars, IssuedFor
<1>3. /\ assetRequest' = [assetRequest EXCEPT ![p] = to]
      /\ r \notin crossed
      /\ r = p => assetRequest[p] = seen
  BY <1>1 DEF WriteRequest, Cross
<1>4. FulfilledOnce(r)
  BY <1>3 DEF RequestInv
<1>5. CASE r = p
  <2>1. assetRequest[r] # "fulfilled" /\ assetRequest'[r] # "fulfilled"
    BY <1>1, <1>3, <1>5 DEF Cancellable, AssetInv, AssetTypeOK
  <2> QED
    BY <1>2, <1>4, <2>1 DEF FulfilledOnce
<1>6. CASE r # p
  BY <1>2, <1>3, <1>4, <1>6 DEF FulfilledOnce, AssetInv, AssetTypeOK
<1> QED
  BY <1>5, <1>6

LEMMA StepRequestInv == AssetInv /\ RequestInv /\ [AssetNext]_assetVars => RequestInv'
<1> SUFFICES ASSUME AssetInv, RequestInv, [AssetNext]_assetVars PROVE RequestInv'
  OBVIOUS
<1>0. Standing
  BY ApprovalsStand DEF AssetInv
<1>1. CASE UNCHANGED <<line, assetRequest, crossed>>
  BY <1>1, NothingIssued
<1>2. ASSUME NEW c, NEW call, Begin(c, call)
      PROVE  RequestInv'
  BY <1>1, <1>2 DEF Begin, stockVars
<1>3. CASE UNCHANGED assetVars
  BY <1>1, <1>3 DEF assetVars, assetOwnVars, stockVars
<1>4. ASSUME NEW c, WriteChange(c)
      PROVE  RequestInv'
  BY <1>4, CrossGrows, NothingIssued DEF WriteChange
<1>5. ASSUME NEW c \in AssetCalls, WriteReturn(c)
      PROVE  RequestInv'
  <2>1. PICK l \in Lines, new \in IssueLine : /\ line' = [line EXCEPT ![l] = new]
                                              /\ new.request = line[l].request
    BY <1>5, ReturnWrites
  <2>2. \A k \in Lines : line'[k].request = line[k].request
    BY <2>1 DEF AssetInv, AssetTypeOK
  <2>3. assetRequest' = assetRequest /\ crossed \subseteq crossed'
    BY <1>5, CrossGrows DEF WriteReturn
  <2> QED
    BY <2>2, <2>3, NothingIssued
<1>6. ASSUME NEW c, FindAsset(c) \/ Drop(c) \/ WriteLink(c)
      PROVE  RequestInv'
  BY <1>1, <1>6 DEF FindAsset, Drop, WriteLink, stockVars
<1>7. CASE StockNext
  <2>1. ASSUME NEW delta, MoveStock(delta)
        PROVE  RequestInv'
    BY <1>1, <2>1 DEF MoveStock
  <2>2. ASSUME NEW c, NEW a, NEW to, BeginChange(c, a, to)
        PROVE  RequestInv'
    BY <1>2, <2>2 DEF BeginChange
  <2>3. ASSUME NEW c, NEW item, NEW q, NEW r, BeginIssue(c, item, q, r)
        PROVE  RequestInv'
    BY <1>2, <2>3 DEF BeginIssue
  <2>4. ASSUME NEW c, NEW l, NEW q, BeginReturn(c, l, q)
        PROVE  RequestInv'
    BY <1>2, <2>4 DEF BeginReturn
  <2> QED
    BY <1>4, <1>5, <1>6, <1>7, IssueFulfilsOnce, <2>1, <2>2, <2>3, <2>4 DEF StockNext
<1>8. CASE RequestNext
  <2>1. ASSUME NEW c, NEW r, BeginSubmit(c, r) \/ BeginCancelRequest(c, r)
        PROVE  RequestInv'
    BY <1>2, <2>1 DEF BeginSubmit, BeginCancelRequest
  <2>2. ASSUME NEW c, NEW item, NEW q, NEW r, BeginIssue(c, item, q, r)
        PROVE  RequestInv'
    BY <1>2, <2>2 DEF BeginIssue
  <2>3. ASSUME NEW c, NEW q, BeginDecision(c, q)
        PROVE  RequestInv'
    BY <1>2, <2>3 DEF BeginDecision
  <2>4. ASSUME NEW r, NEW q, LookUpApproval(r) \/ InsertApproval(r, q) \/ LinkApproval(r, q)
        PROVE  RequestInv'
    BY <1>1, <2>4 DEF LookUpApproval, InsertApproval, LinkApproval, stockVars
  <2>5. ASSUME NEW q, EngineDecides(q)
        PROVE  RequestInv'
    BY <1>1, <2>5 DEF EngineDecides, assetOwnVars, stockVars
  <2> QED
    BY <1>0, <1>6, <1>8, WritesDoNotFulfil, <2>1, <2>2, <2>3, <2>4, <2>5 DEF RequestNext
<1> QED
  BY <1>3, <1>7, <1>8 DEF AssetNext

LEMMA RequestInvGivesHonoured == AssetInv /\ RequestInv => RequestsHonoured
<1> SUFFICES ASSUME AssetInv, RequestInv, NEW r \in AssetRequests
             PROVE  /\ IssuedFor(r) # {} => \E q \in EngineRequests(r) :
                          assetLink[r].request = q /\ approvalStatus[q] = "approved"
                    /\ r \notin crossed => Cardinality(IssuedFor(r)) =
                          IF assetRequest[r] = "fulfilled" THEN 1 ELSE 0
  BY DEF RequestsHonoured, IssuedFor
<1>1. ASSUME IssuedFor(r) # {}
      PROVE  \E q \in EngineRequests(r) :
                assetLink[r].request = q /\ approvalStatus[q] = "approved"
  <2>1. Backed(r)
    BY <1>1 DEF IssuedFor, AssetInv
  <2> QED
    BY <2>1 DEF Backed, EngineRequests
<1>2. ASSUME r \notin crossed
      PROVE  Cardinality(IssuedFor(r)) = IF assetRequest[r] = "fulfilled" THEN 1 ELSE 0
  <2>1. FulfilledOnce(r)
    BY <1>2 DEF RequestInv
  <2>2. CASE assetRequest[r] = "fulfilled"
    <3>1. PICK l : IssuedFor(r) = {l}
      BY <2>1, <2>2 DEF FulfilledOnce
    <3> QED
      BY <2>2, <3>1, FS_Singleton
  <2>3. CASE assetRequest[r] # "fulfilled"
    <3>1. IssuedFor(r) = {}
      BY <2>1, <2>3 DEF FulfilledOnce
    <3> QED
      BY <2>3, <3>1, FS_EmptySet
  <2> QED
    BY <2>2, <2>3
<1> QED
  BY <1>1, <1>2

\* Nothing is issued for a request without an approval request of its own that
\* the engine approved, however submissions, cancellations, decisions and
\* issues interleave; and while none overwrites another, a request is issued
\* once and is fulfilled from then on, whatever decisions come again.
THEOREM RequestsAreHonoured == AssetSpec => []RequestsHonoured
<1>1. AssetInit => RequestInv
  BY InitRequestInv
<1>2. AssetInv /\ RequestInv /\ [AssetNext]_assetVars => RequestInv'
  BY StepRequestInv
<1>3. AssetSpec => []RequestInv
  BY <1>1, <1>2, AssetInvariant, PTL DEF AssetSpec
<1>4. AssetInv /\ RequestInv => RequestsHonoured
  BY RequestInvGivesHonoured
<1> QED
  BY <1>3, <1>4, AssetInvariant, PTL

-----------------------------------------------------------------------------
(***************************************************************************)
(* StockAccounts.  UnitsOut counts the pairs <<l, n>>, n <= the quantity   *)
(* of line l.                                                              *)
(***************************************************************************)

Units(f, ls) == UNION {{l} \X (1 .. f[l].quantity) : l \in ls}

LEMMA UnitsOfOne ==
    ASSUME NEW l, NEW n \in Nat
    PROVE  IsFiniteSet({l} \X (1 .. n)) /\ Cardinality({l} \X (1 .. n)) = n
<1>1. IsFiniteSet({l}) /\ Cardinality({l}) = 1
  BY FS_Singleton
<1>2. IsFiniteSet(1 .. n) /\ Cardinality(1 .. n) = n
  BY FS_Interval
<1>3. /\ IsFiniteSet({l} \X (1 .. n))
      /\ Cardinality({l} \X (1 .. n)) = Cardinality({l}) * Cardinality(1 .. n)
  BY <1>1, <1>2, FS_Product
<1> QED
  BY <1>1, <1>2, <1>3

LEMMA UnitsAreFinite ==
    ASSUME NEW f, \A l \in Lines : f[l].quantity \in Nat, NEW ls \in SUBSET Lines
    PROVE  IsFiniteSet(Units(f, ls)) /\ Cardinality(Units(f, ls)) \in Nat
<1> DEFINE Box == [l \in ls |-> {l} \X (1 .. f[l].quantity)]
           Boxes == {{l} \X (1 .. f[l].quantity) : l \in ls}
<1>1. IsFiniteSet(ls)
  BY AssetAssumption, FS_Subset
<1>2. Box \in Surjection(ls, Boxes)
  BY DEF Surjection
<1>3. IsFiniteSet(Boxes)
  BY <1>1, <1>2, FS_Surjection
<1>4. \A T \in Boxes : IsFiniteSet(T)
  <2> TAKE T \in Boxes
  <2>1. PICK l \in ls : T = {l} \X (1 .. f[l].quantity)
    OBVIOUS
  <2> QED
    BY <2>1, UnitsOfOne
<1>5. IsFiniteSet(UNION Boxes)
  BY <1>3, <1>4, FS_UNION
<1> QED
  BY <1>5, FS_CardinalityType DEF Units

LEMMA UnitsAdd ==
    ASSUME NEW f, \A l \in Lines : f[l].quantity \in Nat, NEW ls \in SUBSET Lines,
           NEW l \in ls
    PROVE  Cardinality(Units(f, ls)) = Cardinality(Units(f, ls \ {l})) + f[l].quantity
<1> DEFINE rest == Units(f, ls \ {l})
           box == {l} \X (1 .. f[l].quantity)
<1>1. IsFiniteSet(rest) /\ Cardinality(rest) \in Nat
  BY UnitsAreFinite
<1>2. IsFiniteSet(box) /\ Cardinality(box) = f[l].quantity
  BY UnitsOfOne
<1>3. Units(f, ls) = rest \cup box
  BY DEF Units
<1>4. rest \cap box = {}
  BY DEF Units
<1>5. Cardinality({}) = 0
  BY FS_EmptySet
<1> HIDE DEF rest, box
<1>6. Cardinality(rest \cup box) = Cardinality(rest) + Cardinality(box) - Cardinality(rest \cap box)
  BY <1>1, <1>2, FS_Union
<1>7. Cardinality(Units(f, ls)) = Cardinality(rest) + f[l].quantity
  <2>1. Cardinality(Units(f, ls)) = Cardinality(rest) + Cardinality(box) - 0
    BY <1>3, <1>4, <1>5, <1>6
  <2>2. f[l].quantity \in Nat
    OBVIOUS
  <2> QED
    BY <1>1, <1>2, <2>1, <2>2
<1> QED
  BY <1>7 DEF rest

LEMMA UnitsSame ==
    ASSUME NEW f, NEW g, NEW ls, \A l \in ls : f[l] = g[l]
    PROVE  Units(f, ls) = Units(g, ls)
BY DEF Units

\* What a line of the consumable holds.
HeldBy(x) == IF x.status = "open" /\ x.item = Consumable THEN x.quantity ELSE 0

\* What employees hold of it before and after a line is written.
LEMMA OutstandingMoves ==
    ASSUME AssetTypeOK, NEW l \in Lines, NEW v \in IssueLine, line' = [line EXCEPT ![l] = v]
    PROVE  \E rest \in Nat : /\ Outstanding = rest + HeldBy(line[l])
                             /\ Outstanding' = rest + HeldBy(v)
<1>a. PICK f, g : f = line /\ g = line'
  OBVIOUS
<1>b. PICK ls, ms : ls = Open(Consumable) /\ ms = Open(Consumable)'
  OBVIOUS
<1>1. line'[l] = v /\ \A k \in Lines \ {l} : line'[k] = line[k]
  BY DEF AssetTypeOK
<1>2. \A k \in Lines : f[k].quantity \in Nat
  BY <1>a DEF AssetTypeOK, IssueLine
<1>3. \A k \in Lines : g[k].quantity \in Nat
  BY <1>a, <1>1, <1>2 DEF IssueLine
<1>4. ls \in SUBSET Lines /\ ms \in SUBSET Lines /\ ls \ {l} \in SUBSET Lines
  BY <1>b DEF Open
<1>5. PICK rest : rest = Cardinality(Units(f, ls \ {l}))
  OBVIOUS
<1>6. rest \in Nat
  BY <1>2, <1>4, <1>5, UnitsAreFinite
<1>7. Units(g, ls \ {l}) = Units(f, ls \ {l})
  <2>1. \A k \in ls \ {l} : f[k] = g[k]
    BY <1>a, <1>1, <1>4
  <2> QED
    BY <2>1, UnitsSame
<1>8. Cardinality(Units(f, ls)) = rest + HeldBy(f[l])
  <2>1. CASE l \in ls
    <3>1. HeldBy(f[l]) = f[l].quantity
      BY <1>a, <1>b, <2>1 DEF Open, HeldBy
    <3> QED
      BY <1>2, <1>4, <1>5, <2>1, <3>1, UnitsAdd
  <2>2. CASE l \notin ls
    <3>1. ls \ {l} = ls
      BY <2>2
    <3>2. HeldBy(f[l]) = 0
      BY <1>a, <1>b, <2>2 DEF Open, HeldBy
    <3>3. Cardinality(Units(f, ls)) = rest
      BY <1>5, <3>1
    <3> QED
      BY <1>6, <3>2, <3>3
  <2> QED
    BY <2>1, <2>2
<1>9. ms \ {l} = ls \ {l}
  BY <1>b, <1>1 DEF Open
<1>10. Cardinality(Units(g, ms \ {l})) = rest
  BY <1>5, <1>7, <1>9
<1>11. Cardinality(Units(g, ms)) = rest + HeldBy(g[l])
  <2>1. CASE l \in ms
    <3>1. HeldBy(g[l]) = g[l].quantity
      BY <1>a, <1>b, <2>1 DEF Open, HeldBy
    <3>2. Cardinality(Units(g, ms)) = Cardinality(Units(g, ms \ {l})) + g[l].quantity
      BY <1>3, <1>4, <2>1, UnitsAdd
    <3> QED
      BY <1>10, <3>1, <3>2
  <2>2. CASE l \notin ms
    <3>1. ms \ {l} = ms
      BY <2>2
    <3>2. HeldBy(g[l]) = 0
      BY <1>a, <1>b, <2>2 DEF Open, HeldBy
    <3> QED
      BY <1>6, <1>10, <3>1, <3>2
  <2> QED
    BY <2>1, <2>2
<1>12. /\ Outstanding = Cardinality(Units(f, ls))
       /\ Outstanding' = Cardinality(Units(g, ms))
  BY <1>a, <1>b DEF Outstanding, UnitsOut, Units
<1> QED
  BY <1>a, <1>1, <1>6, <1>8, <1>11, <1>12

LEMMA OutstandingIsNat == AssetTypeOK => Outstanding \in Nat
<1> SUFFICES ASSUME AssetTypeOK PROVE Outstanding \in Nat
  OBVIOUS
<1>1. PICK f, ls : f = line /\ ls = Open(Consumable)
  OBVIOUS
<1>2. \A l \in Lines : f[l].quantity \in Nat
  BY <1>1 DEF AssetTypeOK, IssueLine
<1>3. ls \in SUBSET Lines
  BY <1>1 DEF Open
<1>4. Cardinality(Units(f, ls)) \in Nat
  BY <1>2, <1>3, UnitsAreFinite
<1> QED
  BY <1>1, <1>4 DEF Outstanding, UnitsOut, Units

LEMMA InitStock == AssetInit => StockAccounts
<1> SUFFICES ASSUME AssetInit PROVE StockAccounts
  OBVIOUS
<1>1. Open(Consumable) = {}
  BY DEF AssetInit, Open, NoLine
<1>2. UnitsOut({}) = {}
  BY DEF UnitsOut
<1>3. Outstanding = 0
  BY <1>1, <1>2, FS_EmptySet DEF Outstanding
<1> QED
  BY <1>3 DEF AssetInit, StockAccounts

\* A step that moves no stock.
LEMMA StockStays ==
    ASSUME StockAccounts, UNCHANGED <<onHand, historySum, supplied, line>>,
           crossed \subseteq crossed'
    PROVE  StockAccounts'
<1>1. Outstanding' = Outstanding
  BY DEF Outstanding, UnitsOut, Open
<1> QED
  BY <1>1 DEF StockAccounts

LEMMA MoveIsAccounted ==
    ASSUME AssetTypeOK, StockAccounts, NEW delta \in Int, MoveStock(delta)
    PROVE  StockAccounts'
<1>1. Outstanding' = Outstanding /\ Outstanding \in Nat
  BY OutstandingIsNat DEF MoveStock, Outstanding, UnitsOut, Open
<1>2. /\ onHand' = onHand + delta /\ historySum' = historySum + delta
      /\ supplied' = supplied + delta /\ crossed' = crossed
  BY DEF MoveStock
<1> QED
  BY <1>1, <1>2 DEF StockAccounts, AssetTypeOK

LEMMA IssueIsAccounted ==
    ASSUME AssetInv, StockAccounts, NEW c \in AssetCalls, WriteIssue(c)
    PROVE  StockAccounts'
<1>1. PICK l \in Lines, new \in IssueLine :
        /\ line[l] = NoLine
        /\ line' = [line EXCEPT ![l] = new]
        /\ new.status = "open"
        /\ new.item \in Items /\ new.quantity \in Nat
        /\ new.item \in Assets => UNCHANGED <<onHand, historySum>>
        /\ new.item = Consumable =>
              /\ onHand >= new.quantity
              /\ onHand' = onHand - new.quantity
              /\ historySum' = historySum - new.quantity
  BY IssueWrites
<1>2. AssetTypeOK
  BY DEF AssetInv
<1>3. PICK rest \in Nat : /\ Outstanding = rest + HeldBy(line[l])
                          /\ Outstanding' = rest + HeldBy(new)
  BY <1>1, <1>2, OutstandingMoves
<1>4. HeldBy(line[l]) = 0
  BY <1>1 DEF HeldBy, NoLine
<1>5. supplied' = supplied /\ crossed \subseteq crossed'
  BY DEF WriteIssue
<1>6. onHand \in Int /\ historySum \in Int /\ supplied \in Int
  BY <1>2 DEF AssetTypeOK
<1>7. CASE new.item = Consumable
  <2>1. HeldBy(new) = new.quantity
    BY <1>1, <1>7 DEF HeldBy
  <2> QED
    BY <1>1, <1>3, <1>4, <1>5, <1>6, <1>7, <2>1 DEF StockAccounts
<1>8. CASE new.item # Consumable
  <2>1. HeldBy(new) = 0 /\ UNCHANGED <<onHand, historySum>>
    BY <1>1, <1>8 DEF HeldBy, Items
  <2> QED
    BY <1>3, <1>4, <1>5, <1>6, <2>1 DEF StockAccounts
<1> QED
  BY <1>7, <1>8

LEMMA ReturnIsAccounted ==
    ASSUME AssetInv, StockAccounts, NEW c \in AssetCalls, WriteReturn(c)
    PROVE  StockAccounts'
<1>1. PICK l \in Lines, new \in IssueLine, q \in Nat, seen \in IssueLine :
        /\ line' = [line EXCEPT ![l] = new]
        /\ new.item = line[l].item
        /\ seen.status = "open" /\ q \in 1 .. seen.quantity
        /\ \/ q = seen.quantity /\ new.status = "returned"
           \/ new.status = line[l].status /\ new.quantity = seen.quantity - q
        /\ line[l].item \in Assets => UNCHANGED <<onHand, historySum>>
        /\ line[l].item = Consumable =>
              /\ onHand' = onHand + q
              /\ historySum' = historySum + q
        /\ Cross(line[l].item, line[l] # seen)
  BY ReturnWrites
<1>2. AssetTypeOK /\ line[l].item \in Items /\ seen.quantity \in Nat
  BY DEF AssetInv, AssetTypeOK, IssueLine
<1>3. PICK rest \in Nat : /\ Outstanding = rest + HeldBy(line[l])
                          /\ Outstanding' = rest + HeldBy(new)
  BY <1>1, <1>2, OutstandingMoves
<1>4. /\ supplied' = supplied
      /\ crossed \subseteq crossed'
      /\ line[l] # seen => line[l].item \in crossed'
  BY <1>1, CrossGrows DEF WriteReturn
<1>5. onHand \in Int /\ historySum \in Int /\ supplied \in Int
  BY <1>2 DEF AssetTypeOK
<1>6. CASE line[l].item = Consumable
  <2>1. onHand' = historySum'
    BY <1>1, <1>6 DEF StockAccounts
  <2>2. ASSUME Consumable \notin crossed'
        PROVE  onHand' + Outstanding' = supplied'
    <3>1. line[l] = seen /\ onHand + Outstanding = supplied
      BY <1>4, <1>6, <2>2 DEF StockAccounts
    <3>2. HeldBy(line[l]) = seen.quantity
      BY <1>1, <1>6, <3>1 DEF HeldBy
    <3>3. HeldBy(new) = seen.quantity - q
      BY <1>1, <1>2, <1>6, <3>1 DEF HeldBy
    <3> QED
      BY <1>1, <1>2, <1>3, <1>4, <1>5, <1>6, <3>1, <3>2, <3>3
  <2> QED
    BY <2>1, <2>2 DEF StockAccounts
<1>7. CASE line[l].item # Consumable
  <2>1. HeldBy(line[l]) = 0 /\ HeldBy(new) = 0 /\ UNCHANGED <<onHand, historySum>>
    BY <1>1, <1>2, <1>7 DEF HeldBy, Items
  <2> QED
    BY <1>3, <1>4, <1>5, <2>1 DEF StockAccounts
<1> QED
  BY <1>6, <1>7

LEMMA StepStock == AssetInv /\ StockAccounts /\ [AssetNext]_assetVars => StockAccounts'
<1> SUFFICES ASSUME AssetInv, StockAccounts, [AssetNext]_assetVars PROVE StockAccounts'
  OBVIOUS
<1>1. ASSUME UNCHANGED stockVars, crossed \subseteq crossed'
      PROVE  StockAccounts'
  BY <1>1, StockStays DEF stockVars
<1>2. ASSUME NEW c, NEW call, Begin(c, call)
      PROVE  StockAccounts'
  BY <1>1, <1>2 DEF Begin
<1>3. CASE UNCHANGED assetVars
  BY <1>1, <1>3 DEF assetVars, assetOwnVars
<1>4. ASSUME NEW c, WriteChange(c)
      PROVE  StockAccounts'
  BY <1>4, CrossGrows, StockStays DEF WriteChange
<1>5. ASSUME NEW c, FindAsset(c) \/ Drop(c) \/ WriteLink(c)
      PROVE  StockAccounts'
  BY <1>1, <1>5 DEF FindAsset, Drop, WriteLink
<1>6. CASE StockNext
  <2>1. ASSUME NEW q \in Quantities, MoveStock(q) \/ MoveStock(-q)
        PROVE  StockAccounts'
    <3>1. q \in Int /\ -q \in Int
      BY AssetAssumption
    <3> QED
      BY <2>1, <3>1, MoveIsAccounted DEF AssetInv
  <2>2. ASSUME NEW c, NEW a, NEW to, BeginChange(c, a, to)
        PROVE  StockAccounts'
    BY <1>2, <2>2 DEF BeginChange
  <2>3. ASSUME NEW c, NEW item, NEW q, NEW r, BeginIssue(c, item, q, r)
        PROVE  StockAccounts'
    BY <1>2, <2>3 DEF BeginIssue
  <2>4. ASSUME NEW c, NEW l, NEW q, BeginReturn(c, l, q)
        PROVE  StockAccounts'
    BY <1>2, <2>4 DEF BeginReturn
  <2> QED
    BY <1>4, <1>5, <1>6, IssueIsAccounted, ReturnIsAccounted, <2>1, <2>2, <2>3, <2>4
       DEF StockNext
<1>7. CASE RequestNext
  <2>1. ASSUME NEW c, NEW r, BeginSubmit(c, r) \/ BeginCancelRequest(c, r)
        PROVE  StockAccounts'
    BY <1>2, <2>1 DEF BeginSubmit, BeginCancelRequest
  <2>2. ASSUME NEW c, NEW item, NEW q, NEW r, BeginIssue(c, item, q, r)
        PROVE  StockAccounts'
    BY <1>2, <2>2 DEF BeginIssue
  <2>3. ASSUME NEW c, NEW q, BeginDecision(c, q)
        PROVE  StockAccounts'
    BY <1>2, <2>3 DEF BeginDecision
  <2>4. ASSUME NEW r, NEW q, LookUpApproval(r) \/ InsertApproval(r, q) \/ LinkApproval(r, q)
        PROVE  StockAccounts'
    BY <1>1, <2>4 DEF LookUpApproval, InsertApproval, LinkApproval
  <2>5. ASSUME NEW q, EngineDecides(q)
        PROVE  StockAccounts'
    BY <1>1, <2>5 DEF EngineDecides, assetOwnVars
  <2>6. ASSUME NEW c, WriteSubmit(c) \/ WriteCancel(c) \/ WriteDecision(c)
        PROVE  StockAccounts'
    BY <1>1, <2>6, CrossGrows DEF WriteSubmit, WriteCancel, WriteDecision, WriteRequest
  <2> QED
    BY <1>5, <1>7, <2>1, <2>2, <2>3, <2>4, <2>5, <2>6 DEF RequestNext
<1> QED
  BY <1>3, <1>6, <1>7 DEF AssetNext

\* However receipts, adjustments, issues and returns interleave, the stock is
\* what its history adds up to; and while no two returns of a line of the
\* consumable cross, with what employees hold it is what was supplied.
THEOREM StockAlwaysAccounts == AssetSpec => []StockAccounts
<1>1. AssetInit => StockAccounts
  BY InitStock
<1>2. AssetInv /\ StockAccounts /\ [AssetNext]_assetVars => StockAccounts'
  BY StepStock
<1> QED
  BY <1>1, <1>2, AssetInvariant, PTL DEF AssetSpec
-----------------------------------------------------------------------------
(***************************************************************************)
(* The engine, as assets use it.                                           *)
(***************************************************************************)

\* Only a delivery that inserts an approval and whoever decides it move the
\* engine, within what ApprovalDecision allows; issuing, returning and
\* cancelling a request do not.
THEOREM AssetsKeepEngineContract == AssetSpec => Engine!DecisionSpec
<1>1. AssetInit => Engine!DecisionInit
  BY DEF AssetInit
<1>2. [AssetNext]_assetVars => [Engine!DecisionNext]_(Engine!decisionVars)
  <2> SUFFICES ASSUME [AssetNext]_assetVars
               PROVE  [Engine!DecisionNext]_(Engine!decisionVars)
    OBVIOUS
  <2>1. UNCHANGED engineVars => UNCHANGED Engine!decisionVars
    BY DEF engineVars, Engine!decisionVars
  <2>2. CASE UNCHANGED assetVars
    BY <2>1, <2>2 DEF assetVars
  <2>3. CASE StockNext
    <3>1. UNCHANGED engineVars
      BY <2>3 DEF StockNext, MoveStock, BeginChange, Begin, WriteChange, BeginIssue, FindAsset,
         WriteIssue, BeginReturn, WriteReturn, Drop
    <3> QED
      BY <2>1, <3>1
  <2>4. ASSUME NEW r \in AssetRequests, NEW q \in Approvals, InsertApproval(r, q)
        PROVE  Engine!DecisionNext
    BY <2>4 DEF InsertApproval, Engine!DecisionNext
  <2>5. ASSUME NEW q \in Approvals, EngineDecides(q) PROVE Engine!DecisionNext
    BY <2>5 DEF EngineDecides, Engine!DecisionNext
  <2>6. ASSUME NEW r \in AssetRequests, NEW q \in Approvals, LinkApproval(r, q)
        PROVE  UNCHANGED engineVars
    BY <2>6 DEF LinkApproval
  <2>7. ASSUME NEW r \in AssetRequests, LookUpApproval(r) PROVE UNCHANGED engineVars
    BY <2>7 DEF LookUpApproval
  <2>8. ASSUME NEW c \in AssetCalls,
               \/ \E r \in AssetRequests :
                    \/ BeginSubmit(c, r) \/ BeginCancelRequest(c, r)
                    \/ \E item \in Items, q \in Quantities : BeginIssue(c, item, q, r)
               \/ WriteSubmit(c) \/ WriteCancel(c)
               \/ \E q \in Approvals : BeginDecision(c, q)
               \/ WriteDecision(c) \/ WriteLink(c)
        PROVE  UNCHANGED engineVars
    BY <2>8 DEF BeginSubmit, BeginCancelRequest, BeginIssue, Begin, WriteSubmit, WriteCancel,
       BeginDecision, WriteDecision, WriteLink
  <2>9. CASE RequestNext
    BY <2>1, <2>4, <2>5, <2>6, <2>7, <2>8, <2>9 DEF RequestNext
  <2> QED
    BY <2>2, <2>3, <2>9 DEF AssetNext
<1> QED
  BY <1>1, <1>2, PTL DEF AssetSpec, Engine!DecisionSpec
=============================================================================
