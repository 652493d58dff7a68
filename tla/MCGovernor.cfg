CONSTANTS
    Events = {e1, e2, e3}
    Tasks = {t1}
    None = None
    MaxEvents = 2
    MaxTime = 2
    MaxVersion = 2
    Terms = {k1, k2}
    Observed <- MCObserved
    Callers = {c1, c2}
    MaxAttempts = 2
SPECIFICATION Spec
SYMMETRY Symmetry
INVARIANTS
    TypeOK
    EventsInOrder
    AttemptsAreLostToWrites
    OneCallWinsEachVersion
PROPERTIES
    CallsAreAtomic
    WatermarkAdvances
