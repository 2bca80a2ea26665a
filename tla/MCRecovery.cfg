SPECIFICATION Spec
CONSTANTS
    d1 = d1
    d2 = d2
    i1 = i1
    p1 = p1
    Dispatches = {d1, d2}
    SemanticsOf <- MCSemanticsOf
    Keyed = {d2}
    Examined = {d1}
    Bindings = {b1, b2}
    SafeContracts = {k1}
    OtherContracts = {k2}
    Instances = {i1}
    Policies = {p1}
    Decisions = {"retry-idempotent", "reconcile-again"}
    Statuses = {"reported-succeeded", "reported-unknown"}
    Results = {"pass", "fail"}
    Consumers = {c1, c2}
    Bundled <- MCBundled
    None = None
    MaxDecisions = 2
    MaxFaults = 1
SYMMETRY Symmetry
INVARIANTS
    RecoveryLineage
    OneApplicationPerBasis
    ExactTarget
PROPERTIES
    CompletionLinearizes
CHECK_DEADLOCK FALSE
