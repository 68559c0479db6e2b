\* Whether the deduplication window holds a P0 event back.
CONSTANTS
    Events = {e1, e2, e3}
    Streams = {s1}
    DedupWindow = 2
    Times = {0, 1, 2, 4}
    BusMayFail = FALSE
    MaxRestarts = 0
    None = None
SPECIFICATION Spec
INVARIANT P0GoesStraightThrough
