\* Three events of one stream, a bus that may fail, a clock that may jump, and a
\* restart.
CONSTANTS
    Events = {e1, e2, e3}
    Streams = {s1}
    DedupWindow = 1
    Times = {0, 1}
    BusMayFail = TRUE
    MaxRestarts = 1
    None = None
SPECIFICATION FairSpec
INVARIANTS DedupSpacing PushedOnce
PROPERTY AcceptedIsPushedUnlessStopped
