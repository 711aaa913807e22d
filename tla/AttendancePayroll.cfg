SPECIFICATION SceneSpec
CONSTANTS
    alice = alice
    bob = bob
    carol = carol
    Requests = {r1}
    SubjectOf <- OwnSubject
    NSteps = 3
    Users = {alice, bob, carol}
    Requester = alice
    Approvers <- ThreeStepApprovers
    Cancellers = {alice}
    Transactions = {t1, t2, t3}
    Employees = {e1}
    Corrections = {k1}
    Adjustments = {a1}
    Clerks = {c1, c2}
    Editors = {d1, d2}
    LoneEditor = d1
    Nobody = nobody
    MaxVersions = 2
INVARIANTS
    PayrollSeesTheSnapshot
SYMMETRY Symmetry
CHECK_DEADLOCK FALSE
