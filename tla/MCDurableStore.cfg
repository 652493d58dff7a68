CONSTANTS
    Records = {r1, r2}
    Bodies = {b1}
    ReceiptIds = {c1, c2}
    Leaders = {l1, l2}
    Absent = Absent
    None = None
    NoReceipt = NoReceipt
    SoleWriter = TRUE
    MaxFence = 2
    MaxMutation = 4
    MaxCaptured = 2
SPECIFICATION Spec
SYMMETRY Symmetry
INVARIANTS
    TypeOK
    FencedLog
    CurrentMatchesLog
    SnapshotsMatchLog
    MutationsChain
    RecoveryCanFinish
    OneAtATime
PROPERTIES
    ImplementsRecordMap
