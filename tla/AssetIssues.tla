---------------------------- MODULE AssetIssues ----------------------------
(***************************************************************************)
(* Asset management: the use cases of modules/asset-management that        *)
(* request, issue and return assets, move stock and change the status of   *)
(* an asset; and integration/asset-approval, which asks the approval       *)
(* engine (by the actions it promises, ApprovalDecision) for a decision on *)
(* a request and applies it.                                               *)
(*                                                                         *)
(* Only the stock of a consumable is written under a condition.  The other *)
(* use cases read a row without a lock, check it, and write it by id       *)
(* alone; each is a call with one step for every read and one for the      *)
(* transaction that writes.  `crossed' remembers the rows that such a      *)
(* write found changed since they were read.                               *)
(***************************************************************************)
EXTENDS Integers, Sequences, FiniteSets

CONSTANTS
    Assets,         \* serialized assets
    Lines,          \* asset_issue_lines.id
    Quantities,     \* what a line of the consumable may ask for
    AssetRequests,  \* asset_requests, each as CreateRequest leaves it
    Approvals,      \* approval_requests of the engine
    AssetOf,        \* the asset request each of them would be for
    AssetSteps,     \* steps of the policy for asset requests
    AssetCalls,     \* calls that may run at the same time
    MaxStock        \* bound on on_hand where stock is received or adjusted

Consumable == "consumable"
NoRequest == "no request"
Items == Assets \cup {Consumable}

ASSUME AssetAssumption ==
    /\ Consumable \notin Assets
    /\ Quantities \subseteq Nat \ {0} /\ 1 \in Quantities
    /\ IsFiniteSet(Lines)
    /\ NoRequest \notin Approvals \cup AssetRequests
    /\ AssetOf \in [Approvals -> AssetRequests]
    /\ MaxStock \in Nat

VARIABLES
    asset,         \* assets.status
    onHand,        \* asset_stock_levels.on_hand of the one consumable
    historySum,    \* SUM(quantity_delta) of its asset_history_entries
    supplied,      \* what receipts and adjustments have added up to
    line,          \* asset_issue_lines
    assetRequest,  \* asset_requests.status
    submitted,     \* requests with a staged approval.requested event
    lookedUp,      \* those whose handler found no approval request to reuse
    assetLink,     \* asset_approval_links, one at most for a request
    settled,       \* completed events the listener has marked processed
    assetCall,     \* the running calls
    crossed,       \* rows that a write found changed since they were read
    approvalStatus, approvalSteps, approvalAnnounced   \* the engine's

engineVars == <<approvalStatus, approvalSteps, approvalAnnounced>>

Engine == INSTANCE ApprovalDecision
            WITH Requests <- Approvals, NSteps <- AssetSteps, status <- approvalStatus,
                 approvals <- approvalSteps, announced <- approvalAnnounced

stockVars == <<asset, onHand, historySum, supplied, line>>
askAssetVars == <<submitted, lookedUp, assetLink, settled>>
assetOwnVars == <<stockVars, assetRequest, askAssetVars, assetCall, crossed>>
assetVars == <<assetOwnVars, engineVars>>

-----------------------------------------------------------------------------

\* "disposed" is retired or lost: no use case tells them apart.
AssetStatus == {"available", "assigned", "maintenance", "disposed"}
ChangeableFrom == {"available", "maintenance"}
Cancellable == {"draft", "pending_approval"}
Terminal == Engine!Outcome \cup {"fulfilled"}

IssueLine == [status : {"none", "open", "returned"}, item : Items,
              request : AssetRequests \cup {NoRequest}, quantity : Nat]
NoLine == [status |-> "none", item |-> Consumable, request |-> NoRequest, quantity |-> 0]
AssetLink == [request : Approvals \cup {NoRequest}, status : {"pending"} \cup Engine!Outcome]
NoAssetLink == [request |-> NoRequest, status |-> "pending"]

\* A call keeps what it has read: `seen'.
IdleAssetCall == [op |-> "idle"]
AssetCall ==
    {IdleAssetCall}
      \cup [op : {"issue", "handOver"}, item : Items, quantity : Quantities,
            request : AssetRequests \cup {NoRequest}]
      \cup [op : {"return"}, line : Lines, quantity : Nat, seen : IssueLine]
      \cup [op : {"change"}, item : Assets, to : AssetStatus, seen : AssetStatus]
      \cup [op : {"submit", "cancel"}, request : AssetRequests, seen : Cancellable]
      \cup [op : {"decide"}, request : Approvals, seen : Cancellable]
      \cup [op : {"link"}, request : Approvals]

AssetTypeOK ==
    /\ asset \in [Assets -> AssetStatus]
    /\ onHand \in Nat /\ historySum \in Int /\ supplied \in Int
    /\ line \in [Lines -> IssueLine]
    /\ assetRequest \in [AssetRequests -> Cancellable \cup Terminal]
    /\ lookedUp \subseteq submitted /\ submitted \subseteq AssetRequests
    /\ assetLink \in [AssetRequests -> AssetLink]
    /\ settled \subseteq Approvals
    /\ assetCall \in [AssetCalls -> AssetCall]
    /\ crossed \subseteq Items \cup AssetRequests

AssetInit ==
    /\ Engine!DecisionInit
    /\ asset = [a \in Assets |-> "available"]
    /\ onHand = 0 /\ historySum = 0 /\ supplied = 0
    /\ line = [l \in Lines |-> NoLine]
    /\ assetRequest = [a \in AssetRequests |-> "draft"]
    /\ submitted = {} /\ lookedUp = {} /\ settled = {}
    /\ assetLink = [a \in AssetRequests |-> NoAssetLink]
    /\ assetCall = [c \in AssetCalls |-> IdleAssetCall]
    /\ crossed = {}

-----------------------------------------------------------------------------

Continue(c, call) == assetCall' = [assetCall EXCEPT ![c] = call]
End(c) == Continue(c, IdleAssetCall)

\* A first read, which is all that a step does.
Begin(c, call) ==
    /\ assetCall[c] = IdleAssetCall
    /\ Continue(c, call)
    /\ UNCHANGED <<stockVars, assetRequest, askAssetVars, crossed, engineVars>>

Cross(row, changed) == crossed' = IF changed THEN crossed \cup {row} ELSE crossed

-----------------------------------------------------------------------------
(***************************************************************************)
(* Stock and the status of an asset.                                       *)
(***************************************************************************)

MoveStock_Unchecked(delta) ==
    /\ onHand + delta <= MaxStock
    /\ onHand' = onHand + delta
    /\ historySum' = historySum + delta
    /\ supplied' = supplied + delta
    /\ UNCHANGED <<asset, line, assetRequest, askAssetVars, assetCall, crossed, engineVars>>

\* ReceiveStockUseCase and AdjustStockUseCase: what they read first can only
\* make them refuse; the CHECK on on_hand aborts what would make it negative.
MoveStock(delta) ==
    /\ onHand + delta \in 0 .. MaxStock
    /\ onHand' = onHand + delta
    /\ historySum' = historySum + delta
    /\ supplied' = supplied + delta
    /\ UNCHANGED <<asset, line, assetRequest, askAssetVars, assetCall, crossed, engineVars>>

\* ChangeAssetStatusUseCase: the read and its checks ...
BeginChange(c, a, to) ==
    /\ asset[a] \in ChangeableFrom
    /\ to \in AssetStatus \ {"assigned", asset[a]}
    /\ Begin(c, [op |-> "change", item |-> a, to |-> to, seen |-> asset[a]])

\* ... and the write, by id.
WriteChange(c) ==
    LET call == assetCall[c] IN
    /\ call.op = "change"
    /\ asset' = [asset EXCEPT ![call.item] = call.to]
    /\ Cross(call.item, asset[call.item] # call.seen)
    /\ End(c)
    /\ UNCHANGED <<onHand, historySum, supplied, line, assetRequest, askAssetVars, engineVars>>

-----------------------------------------------------------------------------
(***************************************************************************)
(* Issue and return.  An issue has one line here.                          *)
(***************************************************************************)

\* IssueAssetUseCase: the originating request, if there is one ...
BeginIssue(c, item, q, r) ==
    /\ item \in Assets => q = 1
    /\ r # NoRequest => assetRequest[r] = "approved"
    /\ Begin(c, [op |-> "issue", item |-> item, quantity |-> q, request |-> r])

\* ... the asset, if the line is for one ...
FindAsset(c) ==
    LET call == assetCall[c] IN
    /\ call.op = "issue" /\ call.item \in Assets
    /\ asset[call.item] = "available"
    /\ Continue(c, [call EXCEPT !.op = "handOver"])
    /\ UNCHANGED <<stockVars, assetRequest, askAssetVars, crossed, engineVars>>

\* An id that no line had; which one makes no difference.
NewLine ==
    LET unused == {l \in Lines : line[l] = NoLine}
    IN  IF unused = {} THEN {} ELSE {CHOOSE l \in unused : TRUE}

FulfilledBy(call) ==
    [r \in AssetRequests |-> IF r = call.request THEN "fulfilled" ELSE assetRequest[r]]

\* ... and the writes: the asset and the request by id, the stock where it
\* suffices.
WriteIssue(c) ==
    LET call == assetCall[c]
        serialized == call.item \in Assets
    IN
    /\ \/ call.op = "handOver"
       \/ call.op = "issue" /\ ~serialized /\ onHand >= call.quantity
    /\ \E l \in NewLine :
             line' = [line EXCEPT ![l] = [status |-> "open", item |-> call.item,
                                          request |-> call.request,
                                          quantity |-> call.quantity]]
    /\ asset' = [a \in Assets |-> IF a = call.item THEN "assigned" ELSE asset[a]]
    /\ onHand' = IF serialized THEN onHand ELSE onHand - call.quantity
    /\ historySum' = IF serialized THEN historySum ELSE historySum - call.quantity
    /\ assetRequest' = FulfilledBy(call)
    /\ crossed' = crossed
         \cup {a \in Assets : a = call.item /\ asset[a] # "available"}
         \cup {r \in AssetRequests : r = call.request /\ assetRequest[r] # "approved"}
    /\ End(c)
    /\ UNCHANGED <<supplied, askAssetVars, engineVars>>

Returnable_AnyLine(l, q) ==
    /\ line[l].status # "none"
    /\ q \in 1 .. line[l].quantity
    /\ line[l].item \in Assets => q = line[l].quantity

Returnable(l, q) ==
    /\ line[l].status = "open"
    /\ q \in 1 .. line[l].quantity
    /\ line[l].item \in Assets => q = line[l].quantity

\* ReturnAssetUseCase reads the line outside its transaction ...
BeginReturn(c, l, q) ==
    /\ Returnable(l, q)
    /\ Begin(c, [op |-> "return", line |-> l, quantity |-> q, seen |-> line[l]])

AfterReturn_NotDrawnDown(l, seen, q) ==
    IF q = seen THEN [line[l] EXCEPT !.status = "returned"] ELSE line[l]

\* A full return closes the line, a partial one leaves what is left of the
\* quantity that was read.
AfterReturn(l, seen, q) ==
    IF q = seen THEN [line[l] EXCEPT !.status = "returned"]
                ELSE [line[l] EXCEPT !.quantity = seen - q]

\* ... and puts back the asset, or so many units, and writes the line by id.
WriteReturn(c) ==
    LET call == assetCall[c]
        item == line[call.line].item
        serialized == item \in Assets
    IN
    /\ call.op = "return"
    /\ asset' = [a \in Assets |-> IF a = item THEN "available" ELSE asset[a]]
    /\ onHand' = IF serialized THEN onHand ELSE onHand + call.quantity
    /\ historySum' = IF serialized THEN historySum ELSE historySum + call.quantity
    /\ line' = [line EXCEPT ![call.line] =
                  AfterReturn(call.line, call.seen.quantity, call.quantity)]
    /\ Cross(item, line[call.line] # call.seen)
    /\ End(c)
    /\ UNCHANGED <<supplied, assetRequest, askAssetVars, engineVars>>

\* The call is refused at its next check, or its instance dies.
Drop(c) ==
    /\ assetCall[c] # IdleAssetCall
    /\ End(c)
    /\ UNCHANGED <<stockVars, assetRequest, askAssetVars, crossed, engineVars>>

StockNext ==
    \/ \E q \in Quantities : MoveStock(q) \/ MoveStock(-q)
    \/ \E c \in AssetCalls :
         \/ \E a \in Assets, to \in AssetStatus : BeginChange(c, a, to)
         \/ WriteChange(c)
         \/ \E item \in Items, q \in Quantities : BeginIssue(c, item, q, NoRequest)
         \/ FindAsset(c) \/ WriteIssue(c)
         \/ \E l \in Lines, q \in Quantities : BeginReturn(c, l, q)
         \/ WriteReturn(c)
         \/ Drop(c)

-----------------------------------------------------------------------------
(***************************************************************************)
(* Requests and their approval.                                            *)
(***************************************************************************)

\* SubmitRequestUseCase and CancelRequestUseCase read the request ...
BeginSubmit(c, r) ==
    /\ assetRequest[r] = "draft"
    /\ Begin(c, [op |-> "submit", request |-> r, seen |-> assetRequest[r]])

BeginCancelRequest(c, r) ==
    /\ assetRequest[r] \in Cancellable
    /\ Begin(c, [op |-> "cancel", request |-> r, seen |-> assetRequest[r]])

\* ... and whatever call has read a request then writes it by id.
WriteRequest(r, to, seen) ==
    /\ assetRequest' = [assetRequest EXCEPT ![r] = to]
    /\ Cross(r, assetRequest[r] # seen)

WriteSubmit(c) ==
    LET call == assetCall[c] IN
    /\ call.op = "submit"
    /\ WriteRequest(call.request, "pending_approval", call.seen)
    /\ submitted' = submitted \cup {call.request}
    /\ End(c)
    /\ UNCHANGED <<stockVars, lookedUp, assetLink, settled, engineVars>>

\* The engine is not told.
WriteCancel(c) ==
    LET call == assetCall[c] IN
    /\ call.op = "cancel"
    /\ WriteRequest(call.request, "cancelled", call.seen)
    /\ End(c)
    /\ UNCHANGED <<stockVars, askAssetVars, engineVars>>

EngineRequests(r) == {q \in Approvals : AssetOf[q] = r /\ approvalStatus[q] # "none"}

\* The handler of the request's event: no link yet, and no approval request
\* that the engine would reuse.
LookUpApproval(r) ==
    /\ r \in submitted
    /\ assetLink[r] = NoAssetLink /\ EngineRequests(r) = {}
    /\ lookedUp' = lookedUp \cup {r}
    /\ UNCHANGED <<stockVars, assetRequest, submitted, assetLink, settled, assetCall, crossed,
                   engineVars>>

\* (Another delivery that has found none may still be about to insert.)
InsertApproval(r, q) ==
    /\ r \in lookedUp
    /\ AssetOf[q] = r
    /\ Engine!Create(q)
    /\ lookedUp' \in {lookedUp, lookedUp \ {r}}
    /\ UNCHANGED <<stockVars, assetRequest, submitted, assetLink, settled, assetCall, crossed>>

\* The delivery that inserted the approval request, or a later one that reuses
\* it, links it; subject and approval request are unique.
LinkApproval(r, q) ==
    /\ q \in EngineRequests(r)
    /\ assetLink[r] = NoAssetLink
    /\ assetLink' = [assetLink EXCEPT ![r] = [request |-> q, status |-> "pending"]]
    /\ UNCHANGED <<stockVars, assetRequest, submitted, lookedUp, settled, assetCall, crossed,
                   engineVars>>

EngineDecides(q) ==
    /\ \/ Engine!ApproveStep(q) \/ Engine!ApproveLastStep(q)
       \/ Engine!Reject(q) \/ Engine!Cancel(q)
    /\ UNCHANGED assetOwnVars

Decidable_Fulfilled(r) == assetRequest[r] \notin Engine!Outcome

Decidable(r) == assetRequest[r] \notin Terminal

\* AssetApprovalListener, for a completed event that is not marked and whose
\* approval request is linked: AssetDecisionHandler reads the request ...
BeginDecision(c, q) ==
    LET r == AssetOf[q] IN
    /\ approvalAnnounced[q] # <<>> /\ q \notin settled
    /\ assetLink[r].request = q
    /\ Begin(c, IF Decidable(r)
                  THEN [op |-> "decide", request |-> q, seen |-> assetRequest[r]]
                  ELSE [op |-> "link", request |-> q])

\* ... writes the outcome ...
WriteDecision(c) ==
    LET call == assetCall[c]
        q == call.request
    IN
    /\ call.op = "decide"
    /\ WriteRequest(AssetOf[q], approvalStatus[q], call.seen)
    /\ Continue(c, [op |-> "link", request |-> q])
    /\ UNCHANGED <<stockVars, askAssetVars, engineVars>>

\* ... and the listener writes the link, and the mark unless it fails.
WriteLink(c) ==
    LET q == assetCall[c].request IN
    /\ assetCall[c].op = "link"
    /\ assetLink' = [assetLink EXCEPT ![AssetOf[q]].status = approvalStatus[q]]
    /\ settled' \in {settled, settled \cup {q}}
    /\ End(c)
    /\ UNCHANGED <<stockVars, assetRequest, submitted, lookedUp, crossed, engineVars>>

RequestNext ==
    \/ \E r \in AssetRequests :
         \/ LookUpApproval(r)
         \/ \E q \in Approvals : InsertApproval(r, q) \/ LinkApproval(r, q)
    \/ \E q \in Approvals : EngineDecides(q)
    \/ \E c \in AssetCalls :
         \/ \E r \in AssetRequests :
              \/ BeginSubmit(c, r) \/ BeginCancelRequest(c, r)
              \/ \E item \in Items, q \in Quantities : BeginIssue(c, item, q, r)
         \/ WriteSubmit(c) \/ WriteCancel(c)
         \/ \E q \in Approvals : BeginDecision(c, q)
         \/ WriteDecision(c) \/ WriteLink(c)

AssetNext == StockNext \/ RequestNext

AssetSpec == AssetInit /\ [][AssetNext]_assetVars

-----------------------------------------------------------------------------
(***************************************************************************)
(* Properties.                                                             *)
(***************************************************************************)

Open(item) == {l \in Lines : line[l].status = "open" /\ line[l].item = item}

\* The units that lines hand over, each as a pair of its line and a number.
UnitsOut(ls) == UNION {{l} \X (1 .. line[l].quantity) : l \in ls}
Outstanding == Cardinality(UnitsOut(Open(Consumable)))

\* The stock is what its history adds up to, and with what employees hold it is
\* what was supplied: no unit is lost or put back twice, unless two returns of
\* one line cross each other.
StockAccounts ==
    /\ onHand = historySum
    /\ Consumable \notin crossed => onHand + Outstanding = supplied

\* An asset has a holder, one, exactly while it is assigned, unless a call has
\* overwritten what another did after its read.
OneHolder ==
    \A a \in Assets \ crossed :
        Cardinality(Open(a)) = IF asset[a] = "assigned" THEN 1 ELSE 0

\* Assets are issued only for a request whose linked approval request the
\* engine approved, and, unless calls crossed each other, once, whereupon the
\* request is and stays fulfilled, although its decision may come again.
RequestsHonoured ==
    \A r \in AssetRequests :
        LET issued == {l \in Lines : line[l].request = r} IN
        /\ issued # {} => \E q \in EngineRequests(r) :
                             assetLink[r].request = q /\ approvalStatus[q] = "approved"
        /\ r \notin crossed => Cardinality(issued) =
                                 IF assetRequest[r] = "fulfilled" THEN 1 ELSE 0
=============================================================================
