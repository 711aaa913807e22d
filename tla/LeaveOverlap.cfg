SPECIFICATION Spec
CONSTANTS
    Leaves = {l1, l2}
    Requests = {r1, r2}
    SubjectOf <- LeaveByLeave
    NSteps = 1
    Units = {1}
    Totals = {3}
    ApprovalRules = {TRUE}
    Overlap <- BothOverlap
    Handlers = {h1}
    Calls = {c1, c2}
    Terminations = {t1}
    MaxFailures = 0
    LateWrites = TRUE
    EarlyEvents = TRUE
INVARIANTS
    NoDoubleBooking
CHECK_DEADLOCK FALSE
