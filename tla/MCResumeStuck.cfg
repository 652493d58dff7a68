CONSTANTS
    Records = {r1}
    Bodies = {b1}
    ReceiptIds = {c1}
    Leaders = {l1}
    Absent = Absent
    None = None
    NoReceipt = NoReceipt
    SoleWriter = TRUE
    MaxFence = 1
    MaxMutation = 2
    MaxCaptured = 1
SPECIFICATION ResumeSpec
PROPERTIES
    ArchivedReceiptsAreFinished
