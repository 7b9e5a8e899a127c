CONSTANTS
    RunId = {r1}
    Worker = {w1}
    Faults = FALSE
SPECIFICATION Spec
INVARIANTS
    FinishedJobLeftOutcome
