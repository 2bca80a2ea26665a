SPECIFICATION Spec
CONSTANTS
    Owners = {w1, w2}
    None = None
    Ttl = 1
    MaxGeneration = 2
    Requests = {r1, r2}
    SideEffects = {r1}
    Governed = {r1, r2}
    Referenced = {r1, r2}
    Providers = {p1}
    MaxParallel = 1
    Budget = 2
    Answers = {"succeeded", "unavailable"}
    MaxChanges = 3
SYMMETRY Symmetry
INVARIANTS
    DispatchLinearized
    EffectIsRecorded
    AccountingBalanced
    SucceededIsDurable
    OneWorkerPasses
PROPERTIES
    CitedGrantHolds
CHECK_DEADLOCK FALSE
