CONSTANTS
    Records = {r1, r2}
    Bodies = {b1, b2}
    ReceiptIds = {c1, c2}
    Leaders = {l1}
    Absent = Absent
    None = None
    NoReceipt = NoReceipt
    SoleWriter = TRUE
    MaxFence = 1
    MaxMutation = 4
    MaxCaptured = 2
    Aborted = Aborted
    PrunesWithCare = FALSE
SPECIFICATION RetentionSpec
PROPERTIES
    PruningKeepsReplay
