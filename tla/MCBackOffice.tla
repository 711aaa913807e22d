---------------------------- MODULE MCBackOffice ----------------------------
\* Four components that share no row: `scene' chooses, at the start, the one
\* whose operations a behaviour runs, so that their states add up.  The scenes
\* "stock" and "requests" are two halves of AssetIssues: issues and returns
\* without requests, and requests up to their fulfilment.
EXTENDS PayrollRuns, AssetIssues, RefreshTokens, RequestIdempotency, TLC

VARIABLE scene

Scenes == {"payroll", "stock", "requests", "sessions", "keys"}
OneRun == [q \in Requests |-> CHOOSE r \in Runs : TRUE]
OneAssetRequest == [q \in Approvals |-> CHOOSE r \in AssetRequests : TRUE]

\* A set of two that are alike can be exchanged; to keep the group small (it has
\* four elements), several are exchanged at once.
Identity(S) == [v \in S |-> v]
Exchange(S) == CHOOSE p \in Permutations(S) : p # Identity(S)
Callers == {Identity(Users \cup Browsers \cup AssetCalls),
            Exchange(Users) @@ Exchange(Browsers) @@ Exchange(AssetCalls)}
Others == {Identity(Periods \cup Refreshes \cup Approvals \cup Payloads),
           Exchange(Periods) @@ Exchange(Refreshes) @@ Exchange(Approvals) @@ Exchange(Payloads)}
Symmetry == {p @@ q : p \in Callers, q \in Others}

TypeOK ==
    /\ scene \in Scenes
    /\ scene = "payroll" => PayrollTypeOK
    /\ scene \in {"stock", "requests"} => AssetTypeOK
    /\ scene = "sessions" => TokenTypeOK
    /\ scene = "keys" => KeyTypeOK

Init == scene \in Scenes /\ PayrollInit /\ AssetInit /\ TokenInit /\ KeyInit

Next ==
    /\ UNCHANGED scene
    /\ \/ /\ scene = "payroll" /\ PayrollNext
          /\ UNCHANGED <<assetVars, tokenVars, keyVars>>
       \/ /\ scene = "stock" /\ StockNext
          /\ UNCHANGED <<payrollVars, tokenVars, keyVars>>
       \/ /\ scene = "requests"
          /\ \/ RequestNext
             \/ \E q \in Quantities : MoveStock(q)
             \/ \E c \in AssetCalls : FindAsset(c) \/ WriteIssue(c) \/ Drop(c)
          /\ UNCHANGED <<payrollVars, tokenVars, keyVars>>
       \/ /\ scene = "sessions" /\ TokenNext
          /\ UNCHANGED <<payrollVars, assetVars, keyVars>>
       \/ /\ scene = "keys" /\ KeyNext
          /\ UNCHANGED <<payrollVars, assetVars, tokenVars>>

Spec == Init /\ [][Next]_<<scene, payrollVars, assetVars, tokenVars, keyVars>>
=============================================================================
