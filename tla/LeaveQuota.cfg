SPECIFICATION Spec
CONSTANTS
    Leaves = {l1, l2}
    Requests = {r1, r2}
    SubjectOf <- LeaveByLeave
    NSteps = 1
    Units = {1, 2}
    Totals = {3}
    ApprovalRules = {TRUE, FALSE}
    Overlap <- NoOverlap
    Handlers = {h1}
    Calls = {c1, c2}
    Terminations = {t1}
    MaxFailures = 1
    LateWrites = FALSE
    EarlyEvents = TRUE
INVARIANTS
    BalanceMatchesApprovals
    QuotaHolds
SYMMETRY CallSymmetry
CHECK_DEADLOCK FALSE
