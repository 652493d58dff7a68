CONSTANTS
    Calls = {c1, c2}
    Host = Host
    HostViews = {v1}
    Views = {v1, v2}
    Changes = {x1}
    Nothing = Nothing
    MaxVersion = 3
    MaxUnloads = 1
SPECIFICATION Spec
SYMMETRY Symmetry
CHECK_DEADLOCK FALSE
INVARIANTS
    NothingFromBeforeUnload
    LinkedIsShown
PROPERTIES
    SnapshotsNeverGoBack
