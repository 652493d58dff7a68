CONSTANTS
    MinutesPerDay = 2
    Config <- MCConfig
    Runner = Runner
    Callers = {c1}
    NoActor = NoActor
    ManualKeys = {k1}
    MaxDispatchTelemetry = 2
    MaxReports = 2
    LastMinute = 2
SPECIFICATION FairSpec
INVARIANTS
    TypeOK
    CyclesFollowAStandup
    DispatchedOnce
    RecordedWasAttempted
PROPERTIES
    JobsEnd
    RecordsAreKept
