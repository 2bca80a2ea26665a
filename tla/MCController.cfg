SPECIFICATION Spec
CONSTANTS
    Clients = {c1, c2}
    ClosureIds = {k1, k2}
    Capabilities = {cap}
    Effects <- MCEffects
    None = None
    MaxVersion = 6
    MaxProposals = 2
    MaxInterrupts = 1
INVARIANTS
    HandoffIsExclusive
    OneProposalPerClosure
    ProposalWithinClosure
    HandedOffClosedByRevision
    RequestIsHeld
PROPERTIES
    ClosureDroppedOnlyByReopen
    VersionNamesSnapshot
CHECK_DEADLOCK FALSE
