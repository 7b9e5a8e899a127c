CONSTANTS
    RunId = {r1, r2}
    Worker = {w1, w2}
    Faults = TRUE
SPECIFICATION Spec
INVARIANTS
    TypeOK
    SucceededHasCurve
    RunningHasWorker
PROPERTIES
    OutcomeIsFinal
    VisibleRunSettles
