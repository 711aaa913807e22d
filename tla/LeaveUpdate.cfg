SPECIFICATION Spec
CONSTANTS
    Leaves = {l1}
    Requests = {r1}
    SubjectOf <- OneLeave
    NSteps = 1
    Units = {1, 2}
    Totals = {3}
    ApprovalRules = {TRUE}
    Overlap <- NoOverlap
    Handlers = {h1}
    Calls = {c1}
    Terminations = {t1}
    MaxFailures = 0
    LateWrites = TRUE
    EarlyEvents = TRUE
PROPERTIES
    OnlyPendingIsUpdated
CHECK_DEADLOCK FALSE
