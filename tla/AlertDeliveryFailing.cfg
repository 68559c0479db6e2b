\* What an accepted P0 event leads to on a bus that may fail.
CONSTANTS
    Events = {e1, e2}
    Streams = {s1}
    DedupWindow = 2
    Times = {0, 1, 2, 4}
    BusMayFail = TRUE
    MaxRestarts = 0
    None = None
SPECIFICATION FairSpec
PROPERTY AcceptedIsPushed
