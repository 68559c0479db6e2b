\* Two persons; every window of the detectors is longer than the drift of the gallery
\* times a frame, as in the code at more than one frame a second.  Three requests of
\* one stream, two subscribers, two scores and two states.
CONSTANTS
    None = None
    Unset = Unset
    Persons = {alice, bob}
    Nobody = Nobody
    EnrollAfter = 2
    Drift = 2
    Warm = 2
    EdgeOnlyAudio = FALSE
    Dt = 1
    Motions = {"still", "moving"}
    Fakes = {0}
    Sounds = {"silence"}
    DefaultStep = 1
    MaxStep = 2
    MaxRetries = 1
    MaxLate = 1
    Windows <- MCWindows
    LongestTimer = 3
    Requests = {r1, r2, r3}
    States = {"IDLE", "ON_DUTY"}
    Scores = {0, 1}
    Sockets = {w1, w2}
SYMMETRY Interchangeable
SPECIFICATION IngestSpec
INVARIANTS HostAloneIsNotAnImpostor EdgeConfirmsPhoto
INVARIANTS StoredWithTheRow LoneRequestHeals NobodyIsLeftOut
