SPECIFICATION Spec
CONSTANTS
    Runs = {r1}
    Employees = {e1, e2}
    Users = {u1, u2}
    Periods = {p1, p2}
    Requests = {q1}
    RunOf <- OneRun
    NSteps = 1
    MaxGenerations = 2
    MaxCycles = 2
    Assets = {a1}
    Lines = {l1, l2}
    Quantities = {1, 2}
    AssetRequests = {ar1}
    Approvals = {aq1, aq2}
    AssetOf <- OneAssetRequest
    AssetSteps = 1
    AssetCalls = {ac1, ac2}
    MaxStock = 2
    Browsers = {b1, b2}
    Tokens = {t1, t2, t3}
    Refreshes = {rc1, rc2}
    Keys = {k1}
    Payloads = {pl1, pl2}
    KeyCalls = {kc1, kc2, kc3}
    MaxEffects = 3
INVARIANTS
    TypeOK
    SegregationOfDuties
    PostedIsTraceable
    PublishedOnce
    StockAccounts
    OneHolder
    RequestsHonoured
    SessionsDoNotMultiply
    StaysSignedIn
    TakesEffectOnce
    PendingIsOwned
PROPERTIES
    ApprovedIsFrozen
SYMMETRY Symmetry
CHECK_DEADLOCK FALSE
