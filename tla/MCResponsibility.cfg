SPECIFICATION Spec
CONSTANTS
    Resps = {r1}
    Expectations = {e1}
    DomainAssessments = {a1}
    Proposals = {p1}
    Reservations = {v1, v2}
    Commitments = {c1}
    Capacity = 3
    Requests = {2}
    FreshUntil <- MCFreshUntil
    Expiry <- MCExpiry
    DueTimes = {1}
    Windows = {1}
    MaxTime = 1
    MaxVersion = 2
    MaxJudgments = 3
    None = None
SYMMETRY Identities
INVARIANTS
    LifecycleHonest
    NoOvercommit
    CommitmentLineage
    MissedWhileOpen
PROPERTIES
    InactiveIsQuiet
CHECK_DEADLOCK FALSE
