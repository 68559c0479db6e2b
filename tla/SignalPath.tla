----------------------------- MODULE SignalPath -----------------------------
(***************************************************************************)
(* One live stream from the picture to the two sets of anti-cheat          *)
(* detectors: LiveGuardPipeline.process on the edge                        *)
(* (algo/liveguard_algo/pipeline.py), with the galleries of faces and      *)
(* voices, the detectors it feeds itself, the upload EdgeAgent makes of    *)
(* the result, and the detectors the ingest service feeds with it.  An     *)
(* upload may reach the service never, late, and once for every attempt    *)
(* the uploader makes (IngestPath has the attempts one by one).            *)
(*                                                                         *)
(* The face gallery holds one centroid, moved a tenth of the way (EMA)     *)
(* towards every face in view and normalised.  It is abstracted to the     *)
(* number of frames of a face that would bring the centroid within the     *)
(* similarity bar of the impersonation detector: a frame of one face       *)
(* takes one off its own number, and once that is 0 adds at most one to    *)
(* the other's.  An unrelated face starts at Drift.                        *)
(*                                                                         *)
(* Of the signals only what the detectors tell apart is kept; the fused    *)
(* score goes to the machine of StreamFSM, which takes any.                *)
(***************************************************************************)
EXTENDS Integers, Sequences

CONSTANTS Persons,        \* who may sit in front of the camera
          Nobody, None,
          EnrollAfter,    \* enroll_after_n_frames
          Drift,          \* frames of a new face until the gallery takes it for the host
          Warm,           \* face crops before the pulse is estimated (2 * fps)
          EdgeOnlyAudio,  \* PipelineConfig.edge_only_audio
          Dt,             \* time between two frames
          Motions,        \* mean frame differences: "still" < 0.5, "slow" <= 5, "moving" > 5
          Fakes,          \* deepfake scores, in hundredths
          Sounds,         \* "silence" (VAD 0), "noise" (under 0.5), "voice"
          DefaultStep, MaxStep,   \* 0.2 s and 5 s of _compute_dt
          MaxRetries,     \* UploaderConfig.max_retries
          MaxLate,        \* frames by which an upload may come late (bound)
          Windows,        \* PatternWindow of the detectors
          LongestTimer    \* their timers are not counted beyond this (bound)

VARIABLES frames,       \* _frame_id, counted up to EnrollAfter
          gallery,      \* reid_gallery: None, or the distance of each face
          crops,        \* face crops in the liveness window, counted up to Warm
          profiled,     \* speaker_gallery has a profile of the host's voice
          edgeTimers, edgeActive, edgeFlagged,   \* cheat_fsm of the pipeline
          backTimers, backActive, backFlagged,   \* cheat_fsm of the ingest service
          sent,         \* the newest frames' uploads, newest first, with the times
                        \* each may still be received
          since         \* time from the frame ingested last to the newest one, or None

edgeVars == <<frames, gallery, crops, profiled, edgeTimers, edgeActive, edgeFlagged>>
backVars == <<backTimers, backActive, backFlagged, sent, since>>
pathVars == <<edgeVars, backVars>>

Edge == INSTANCE CheatFSM
            WITH timers <- edgeTimers, active <- edgeActive, flagged <- edgeFlagged,
                 PatternWindow <- Windows, TimerCap <- LongestTimer, Dts <- {Dt}
Back == INSTANCE CheatFSM
            WITH timers <- backTimers, active <- backActive, flagged <- backFlagged,
                 PatternWindow <- Windows, TimerCap <- LongestTimer,
                 Dts <- {DefaultStep} \union 1..MaxStep

\* A frame takes time, and the detectors' windows are what CheatFSM asks of them.
ASSUME PathAssumption ==
    /\ Nobody \notin Persons /\ None \notin Persons \union Int
    /\ None \notin [Persons -> 0..Drift]
    /\ {EnrollAfter, Drift, Warm, MaxRetries, MaxLate} \subseteq Nat
    /\ {Dt, DefaultStep, MaxStep} \subseteq Nat \ {0}
    /\ Windows \in [Edge!Windowed -> Nat \ {0}]
    /\ LongestTimer \in Nat /\ Fakes \subseteq 0..100
    /\ Sounds \subseteq {"silence", "noise", "voice"}
    /\ \A p \in Edge!Windowed : Windows[p] <= LongestTimer

\* What the detector makes of a picture: its one face, or none (no picture, or a score
\* under the threshold).
Views == Persons \union {Nobody}

LowerOf(a, b) == IF a < b THEN a ELSE b

-----------------------------------------------------------------------------
(* The scorers of a frame *)

\* ReIDGallery.update, with a face that may or may not be the enrolled one.
Updated(g, who) ==
    {[p \in Persons |-> IF p = who THEN LowerOf(g[p], IF g[p] = 0 THEN 0 ELSE g[p] - 1)
                        ELSE IF further /\ g[who] = 0 THEN LowerOf(g[p] + 1, Drift) ELSE g[p]] :
        further \in BOOLEAN}

Enrolled(g) == g # None

\* Enrolment, or match and then update: the first face after the warm-up is the host.
LookAt(who) ==
    gallery' \in
        CASE who = Nobody              -> {gallery}
          [] who # Nobody /\ Enrolled(gallery) -> Updated(gallery, who)
          [] who # Nobody /\ ~Enrolled(gallery) ->
                {IF frames' >= EnrollAfter
                 THEN [p \in Persons |-> IF p = who THEN 0 ELSE Drift] ELSE None}

\* A definition named Mutant... is the operator that follows it with a plausible
\* mistake, for checking the properties.
MutantDissimilar(who) == Enrolled(gallery) /\ who # Nobody

\* reid_similarity under the bar of the impersonation detector.  It is 1.0 until a
\* host is enrolled, and 0.0 from then on whenever no face is in view.
Dissimilar(who) == Enrolled(gallery) /\ (who = Nobody \/ gallery[who] > 0)

\* LivenessScorerMock.feed, in hundredths.
Liveness(pulse, motion, fake) ==
    (IF pulse THEN 45 ELSE 10) + (IF motion = "moving" THEN 30 ELSE 0)
        + (25 * (100 - fake)) \div 100

\* What the window can say of this frame's crop: no pulse before it is warm, no
\* motion before it holds two crops.
Observable(pulse, motion) ==
    /\ pulse => crops' >= Warm
    /\ crops' < 2 => motion = "still"

Level(fake) ==
    [p \in Edge!Immediate |->
        IF p = "SCREEN_REPLAY" \/ fake < 56 THEN "clear" ELSE IF fake < 70 THEN "between" ELSE "hit"]

\* VadProcessorMock.process: 0, under 0.5 or over; 0 for audio that stays private.
Heard(sound) == IF EdgeOnlyAudio THEN "silence" ELSE sound

\* The first voice heard is the host's profile; it is never changed, and what
\* verify says of later ones goes into the debug values only.
Listen(sound) == profiled' = (profiled \/ Heard(sound) = "voice")

\* The accumulating patterns whose condition the pipeline's CheatSignals meet.
EdgeSuspects(who, motion, sound, live) ==
    {p \in Edge!Windowed :
        CASE p = "STATIC_PHOTO"  -> live < 50
          [] p = "IMPERSONATION" -> Dissimilar(who)
          [] p = "LOOPED_VIDEO"  -> who # Nobody /\ motion = "still" /\ Heard(sound) = "silence"}

-----------------------------------------------------------------------------
(* The upload *)

\* _process_frame fills the payload from the result's debug values, which hold no
\* reid_similarity, no temporal_var and no screen_replay: their defaults are sent.
Payload(suspects) == suspects \ {"IMPERSONATION", "LOOPED_VIDEO"}

\* The upload of the newest frame, which may be received once for every attempt.  One
\* that is never received is one that was not made (upload_every_n_frames) or of which
\* no attempt arrived.  Uploads older than MaxLate frames no longer arrive.
Upload(suspects, level) ==
    LET upload == [suspects |-> Payload(suspects), level |-> level, left |-> MaxRetries + 1]
    IN  sent' = SubSeq(<<upload>> \o sent, 1, LowerOf(Len(sent), MaxLate) + 1)

\* How long before the newest frame the i-th newest was taken.
Late(i) == (i - 1) * Dt

\* How much later than the frame ingested last the i-th newest was taken: not at all
\* if it is that frame again, or an older one that was overtaken.
Gap(i) == since - Late(i)

MutantStep(i) == IF since = None THEN DefaultStep ELSE MaxStep

\* _compute_dt, for frames that are no less than its 0.02 s apart.
Step(i) == IF since = None \/ Gap(i) <= 0 THEN DefaultStep ELSE LowerOf(Gap(i), MaxStep)

\* One attempt to upload the i-th newest frame reaches the ingest service:
\* _compute_dt and cheat_fsm.feed.
Receive(i) ==
    /\ sent[i].left > 0
    /\ sent' = [sent EXCEPT ![i].left = @ - 1]
    /\ Back!Feed(sent[i].suspects, sent[i].level, Step(i))
    /\ since' = Late(i)
    /\ UNCHANGED edgeVars

\* _process_frame: pipeline.process, and the upload of what it says.
Frame(who, pulse, motion, fake, sound) ==
    /\ frames' = LowerOf(frames + 1, EnrollAfter)
    /\ crops' = IF who = Nobody THEN crops ELSE LowerOf(crops + 1, Warm)
    /\ LookAt(who)
    /\ Observable(pulse, motion)
    /\ who = Nobody => ~pulse /\ motion = "still" /\ fake = 0
    /\ Listen(sound)
    /\ LET live == IF who = Nobody THEN 0 ELSE Liveness(pulse, motion, fake)
           suspects == EdgeSuspects(who, motion, sound, live)
       IN  /\ Edge!Feed(suspects, Level(fake), Dt)
           /\ Upload(suspects, Level(fake))
    /\ since' = IF since = None THEN None
                ELSE LowerOf(since + Dt, MaxStep + (MaxLate + 1) * Dt)
    /\ UNCHANGED <<backTimers, backActive, backFlagged>>

PathInit ==
    /\ frames = 0 /\ gallery = None /\ crops = 0 /\ profiled = FALSE
    /\ Edge!Init
    /\ Back!Init /\ sent = <<>> /\ since = None

PathNext ==
    \/ \E who \in Views, sound \in Sounds, motion \in Motions, fake \in Fakes,
          pulse \in BOOLEAN :
            Frame(who, pulse, motion, fake, sound)
    \/ \E i \in DOMAIN sent : Receive(i)

PathSpec == PathInit /\ [][PathNext]_pathVars

=============================================================================
