---------------------------- MODULE MCSignalPath ----------------------------
(***************************************************************************)
(* SignalPath for TLC, with what an observer of both ends would know.      *)
(* In the room: whose face was enrolled, who has been in view since, for   *)
(* how long the same stranger.  Of the backend: which frame is the newest  *)
(* it has, what the edge's timer of static photos was at that frame, by    *)
(* how much repeated and late uploads set the backend's own ahead of it,   *)
(* and whether a frame is missing.                                         *)
(***************************************************************************)
EXTENDS SignalPath, TLC

VARIABLES inView,     \* the face in view
          host,       \* the person that was enrolled
          faces,      \* the persons in view since, the host included
          posing,     \* time since anyone but the same stranger to the host was in view
          newest,     \* the newest frame received is the newest-th in sent (0: none, or older)
          edgeWas,    \* the edge's timer of static photos before each frame of sent
          photoThen,  \* and after the newest frame received
          ahead,      \* time the backend charged twice since it saw a live face last
          missed      \* a frame is missing since then

roomVars == <<inView, host, faces, posing>>
clockVars == <<newest, edgeWas, photoThen, ahead, missed>>
watchVars == <<pathVars, roomVars, clockVars>>

MCWindows ==
    [STATIC_PHOTO |-> 2, IMPERSONATION |-> 3, LOOPED_VIDEO |-> 2]

\* Persons are interchangeable: no formula names one.
Twins == Permutations(Persons)

WatchInit ==
    /\ PathInit
    /\ inView = Nobody /\ host = None /\ faces = {} /\ posing = 0
    /\ newest = 0 /\ edgeWas = <<>> /\ photoThen = 0 /\ ahead = 0 /\ missed = FALSE

WatchRoom(who) ==
    /\ inView' = who
    /\ host' = IF host = None /\ gallery' # None THEN who ELSE host
    /\ faces' = IF host' = None \/ who = Nobody THEN faces ELSE faces \union {who}
    /\ posing' = IF host = None \/ who \in {host, Nobody} THEN 0
                 ELSE LowerOf(posing + Dt, Windows["IMPERSONATION"])

\* Every frame of sent is one frame older.
WatchFrame ==
    /\ newest' = IF newest \in 1 .. MaxLate + 1 THEN newest + 1 ELSE 0
    /\ edgeWas' = SubSeq(<<edgeTimers["STATIC_PHOTO"]>> \o edgeWas, 1,
                         LowerOf(Len(edgeWas), MaxLate) + 1)
    /\ UNCHANGED <<photoThen, ahead, missed>>

IsPhoto(i) == "STATIC_PHOTO" \in sent[i].suspects

\* The edge's timer of static photos after the i-th newest frame.
EdgeAfter(i) == IF IsPhoto(i) THEN LowerOf(edgeWas[i] + Dt, LongestTimer) ELSE 0

\* The newest frame the backend has had so far: it should be the one after newest.
WatchNewer(i) ==
    /\ newest' = i
    /\ photoThen' = EdgeAfter(i)
    /\ ahead' = IF IsPhoto(i) THEN ahead ELSE 0
    /\ missed' = (IsPhoto(i) /\ (missed \/ (since # None /\ newest # i + 1)))

\* The newest frame again, or an older one.  Where its time stamp is no later than the
\* last one's, it is charged a default step, and the time from it to the last one will
\* be charged anew.
WatchRepeat(i) ==
    /\ ahead' = IF ~IsPhoto(i) THEN LowerOf(Late(i) - Late(newest), LongestTimer)
                ELSE IF Gap(i) > 0 THEN ahead
                ELSE LowerOf(ahead + DefaultStep - Gap(i), LongestTimer)
    /\ missed' = (IsPhoto(i) /\ missed)
    /\ UNCHANGED <<newest, photoThen>>

WatchReceive(i) ==
    /\ IF newest = 0 \/ i < newest THEN WatchNewer(i) ELSE WatchRepeat(i)
    /\ UNCHANGED <<roomVars, edgeWas>>

WatchNext ==
    \/ \E who \in Views, sound \in Sounds, motion \in Motions, fake \in Fakes,
          pulse \in BOOLEAN :
            Frame(who, pulse, motion, fake, sound) /\ WatchRoom(who) /\ WatchFrame
    \/ \E i \in DOMAIN sent : Receive(i) /\ WatchReceive(i)

WatchSpec == WatchInit /\ [][WatchNext]_watchVars

-----------------------------------------------------------------------------

\* Faces come and go, but as long as nobody else is ever seen the gallery stays with
\* the host: an impersonation is never suspected on a frame that shows the host.
\* (With no face in view the similarity is 0.0, and the pipeline's own detector takes
\* a host who is away for an impostor.)
HostAloneIsNotAnImpostor ==
    inView # Nobody /\ faces = {inView} => "IMPERSONATION" \notin edgeActive

\* The backend reports a static photo only where the edge, which sees every frame once
\* and in order, has one too: unless a frame is missing, the edge's timer at the newest
\* frame the backend has is short of the window by no more than what repeated and late
\* uploads were charged, a default step each and the time they set the clock back.
EdgeConfirmsPhoto ==
    "STATIC_PHOTO" \in backActive /\ ~missed
        => photoThen + ahead >= Windows["STATIC_PHOTO"]

\* What the requirements say of IMPERSONATION: ten seconds of a face that is not the
\* enrolled host's are flagged, here by either set of detectors.
ImpostorIsReported ==
    posing >= Windows["IMPERSONATION"]
        => "IMPERSONATION" \in edgeActive \union backActive

=============================================================================
