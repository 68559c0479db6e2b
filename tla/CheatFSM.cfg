\* All five detectors, with windows of two and three steps.
CONSTANTS
    PatternWindow <- MCPatternWindow
    Dts = {0, 1, 2}
    TimerCap = 3
SPECIFICATION MCFairSpec
INVARIANT ActiveIffWindowFull
PROPERTIES OneFlagPerIncident LastingEvidenceIsActive
