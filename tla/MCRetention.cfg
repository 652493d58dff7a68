CONSTANTS
    Records = {r1}
    Bodies = {b1}
    ReceiptIds = {c1}
    Leaders = {l1, l2}
    Absent = Absent
    None = None
    NoReceipt = NoReceipt
    SoleWriter = FALSE
    MaxFence = 2
    MaxMutation = 2
    MaxCaptured = 2
    Aborted = Aborted
    PrunesWithCare = FALSE
SPECIFICATION ResumeRetentionSpec
INVARIANTS
    ArchivedRollupsVerify
PROPERTIES
    PruningKeepsMarkedReplay
    RollupsAreFinished
