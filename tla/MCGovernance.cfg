SPECIFICATION Spec
CONSTANTS
    Workers = {w1, w2}
    Schemes = {d}
    Contexts = {c}
    Changes = {}
    Outcomes = {o1}
    Manual = {m1}
    Decisions = {g1}
    Applications = {a1, a2}
    Policies = {"background-revalidate", "block-next-use"}
    Seeds <- MCSeeds
    Moves <- MCMoves
    Rulings <- MCRulings
    None = None
    MaxTouches = 1
SYMMETRY Symmetry
INVARIANTS
    ProjectionMatchesJournal
    StatesFormChain
    ProcessedOnce
    DispositionIsDurable
    DischargeIsBacked
PROPERTIES
    AllowedUseIsCurrent
CHECK_DEADLOCK FALSE
