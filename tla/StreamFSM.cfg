\* Safety, the ladder, the deque as the code keeps it, the dwell after a recovery, the
\* time an answer takes, and liveness, on a window of five steps, frames of one, two or
\* five steps (the clamp of the ingest service allows a frame as long as the window),
\* and a rejected dt.
CONSTANTS
    Window = 5
    BriefToLong = 3
    LongToEscalate = 13
    UpperThreshold = 3
    LowerThreshold = 1
    Scores = {0, 2, 4}
    Dts = {0, 1, 2, 5}
    SinceMax = 6
SPECIFICATION MCFairSpec
INVARIANTS BufferIsTheDeque AnswersInTime
PROPERTIES HysteresisDwell ImplementsLadder PresenceIsAnswered
