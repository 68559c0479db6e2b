\* The recovery from an escalation that the design promises.
CONSTANTS
    Window = 3
    BriefToLong = 4
    LongToEscalate = 9
    UpperThreshold = 3
    LowerThreshold = 1
    Scores = {0, 2, 4}
    Dts = {0, 1, 3}
SPECIFICATION FairSpec
PROPERTY EscalationIsCleared
