SPECIFICATION Spec
CONSTANTS
    Runs = {r1, r2}
    Operators = {o1}
    Kinds = {"incident", "scan", "consolidation", "generic"}
    Answers = {"succeeded", "failed", "unavailable", "needs-input", "cancelled"}
    None = None
    MaxOperations = 1
    MaxFaults = 1
SYMMETRY Symmetry
INVARIANTS
    CompletionBacked
    HonestReply
PROPERTIES
    CompletionOnce
CHECK_DEADLOCK FALSE
