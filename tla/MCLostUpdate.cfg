CONSTANTS
    Records = {r1}
    Bodies = {b1, b2}
    ReceiptIds = {c1}
    Leaders = {l1, l2}
    Absent = Absent
    None = None
    NoReceipt = NoReceipt
    SoleWriter = FALSE
    MaxFence = 1
    MaxMutation = 3
    MaxCaptured = 1
SPECIFICATION Spec
SYMMETRY Symmetry
PROPERTIES
    RowsLeaveIntoArchive
