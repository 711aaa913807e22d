SPECIFICATION Spec
CONSTANTS
    Leaves = {l1}
    Requests = {r1, r2}
    SubjectOf <- OneLeave
    NSteps = 1
    Units = {1}
    Totals = {0, 1}
    ApprovalRules = {TRUE, FALSE}
    Overlap <- NoOverlap
    Handlers = {h1, h2}
    Calls = {c1}
    Terminations = {t1}
    MaxFailures = 1
    LateWrites = TRUE
    EarlyEvents = TRUE
INVARIANTS
    OutcomesMatchStatus
    LinksMatchLeaves
SYMMETRY Deliveries
CHECK_DEADLOCK FALSE
