SPECIFICATION FairSpec
CONSTANTS
    Leaves = {l1}
    Requests = {r1, r2}
    SubjectOf <- OneLeave
    NSteps = 1
    Units = {1}
    Totals = {1}
    ApprovalRules = {TRUE}
    Overlap <- NoOverlap
    Handlers = {h1, h2}
    Calls = {c1}
    Terminations = {t1}
    MaxFailures = 1
    LateWrites = TRUE
    EarlyEvents = FALSE
PROPERTIES
    DecisionReachesLeave
    CancellationReachesEngine
CHECK_DEADLOCK FALSE
