\* Three frames and one retry; gaps under, inside and over the clamp; a restart.
CONSTANTS
    MaxFrames = 3
    Gaps = {1, 3, 5}
    MaxRetries = 1
    MinStep = 2
    DefaultStep = 3
    MaxStep = 4
    MaxRestarts = 1
SPECIFICATION PathFairSpec
INVARIANTS FedAtMostPerAttempt OrderedClockIsExact
PROPERTY UploadEnds
