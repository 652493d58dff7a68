CONSTANTS
    Records = {r1, r2}
    Bodies = {b1, b2}
    ReceiptIds = {c1, c2}
    Leaders = {l1}
    Absent = Absent
    None = None
    NoReceipt = NoReceipt
    SoleWriter = TRUE
    MaxFence = 1
    MaxMutation = 5
    MaxCaptured = 2
    Aborted = Aborted
    PrunesWithCare = TRUE
SPECIFICATION RetentionSpec
SYMMETRY Symmetry
INVARIANTS
    ReplayIsFaithful
    ReplayReconstructsCurrent
    CheckpointNeverLies
