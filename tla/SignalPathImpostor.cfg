\* Two persons; every window of the detectors is longer than the drift of the gallery
\* times a frame, as in the code at more than one frame a second.
CONSTANTS
    Persons = {alice, bob}
    Nobody = Nobody
    None = None
    EnrollAfter = 2
    Drift = 2
    Warm = 2
    EdgeOnlyAudio = FALSE
    Dt = 1
    Motions = {"still", "moving"}
    Fakes = {0, 100}
    Sounds = {"silence", "noise", "voice"}
    DefaultStep = 1
    MaxStep = 2
    MaxRetries = 1
    MaxLate = 1
    Windows <- MCWindows
    LongestTimer = 3
SYMMETRY Twins
SPECIFICATION WatchSpec
INVARIANT ImpostorIsReported
