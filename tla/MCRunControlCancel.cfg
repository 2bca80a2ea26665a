SPECIFICATION Spec
CONSTANTS
    Runs = {r1, r2}
    Operators = {o1}
    Kinds = {"incident"}
    Answers = {"succeeded", "failed", "unavailable", "needs-input", "cancelled"}
    None = None
    MaxOperations = 1
    MaxFaults = 1
PROPERTIES
    TerminalRunStays
CHECK_DEADLOCK FALSE
