SPECIFICATION Spec
CONSTANTS
    alice = alice
    bob = bob
    carol = carol
    Requests = {r1, r2}
    SubjectOf <- OneSubject
    NSteps = 2
    Users = {alice, bob, carol}
    Requester = alice
    Approvers <- TwoStepApprovers
    Cancellers = {alice}
    Transactions = {t1, t2}
INVARIANTS
    OneRequestPerSubject
CHECK_DEADLOCK FALSE
