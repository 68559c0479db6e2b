--------------------------- MODULE CheatFSMProofs ---------------------------
(***************************************************************************)
(* What the detectors guarantee for every choice of windows, alone and on  *)
(* the signal path.  Alone, the invariant adds to the agreement of timers  *)
(* and active set that no timer exceeds its bound; for the calls           *)
(* MCCheatFSM remembers, that the patterns kept from the evidence alone    *)
(* are the active ones.  On the path of MCSignalPath, one invariant ties   *)
(* the gallery to the faces seen, another the backend's timer of static    *)
(* photos to the edge's.                                                   *)
(***************************************************************************)
EXTENDS MCCheatFSM, MCSignalPath, TLAPS

Inv == TypeOK /\ ActiveIffWindowFull

LEMMA CappedType ==
    ASSUME NEW n \in Nat
    PROVE  /\ Capped(n) \in Nat
           /\ \A m \in Nat : m <= TimerCap => (Capped(n) >= m <=> n >= m)
BY CheatAssumption DEF Capped

LEMMA WindowFacts ==
    ASSUME NEW p \in Windowed
    PROVE  /\ PatternWindow[p] \in Nat \ {0}
           /\ PatternWindow[p] <= TimerCap
           /\ p \in Patterns /\ p \notin Immediate
BY CheatAssumption DEF Patterns, Windowed, Immediate

LEMMA InitInv == Init => Inv
<1> SUFFICES ASSUME Init
             PROVE  Inv
    OBVIOUS
<1>1. TypeOK
    BY DEF Init, TypeOK
<1>2. ActiveIffWindowFull
    <2>1. ASSUME NEW p \in Windowed
          PROVE  ~(timers[p] >= PatternWindow[p]) /\ p \notin active
        BY WindowFacts DEF Init
    <2>. QED BY <2>1 DEF ActiveIffWindowFull
<1>. QED BY <1>1, <1>2 DEF Inv

\* A frame adds to, restarts or leaves each timer, and moves patterns in and out of
\* the active set to match.
LEMMA FeedInv ==
    ASSUME Inv, NEW suspect \in SUBSET Windowed, NEW level, NEW dt \in Dts,
           Feed(suspect, level, dt)
    PROVE  Inv'
<1>1. dt \in Nat \ {0}
    BY CheatAssumption DEF Feed
<1>2. timers \in [Patterns -> Nat] /\ active \subseteq Patterns
    BY DEF Inv, TypeOK
<1>3. timers' = TimersAfter(suspect, dt)
    BY DEF Feed
<1>4. flagged' = Raised(suspect, level, timers')
    BY DEF Feed
<1>5. active' = (active \ Cleared(suspect, level)) \union flagged'
    BY DEF Feed
<1>6. timers' \in [Patterns -> Nat]
    <2>1. ASSUME NEW p \in Patterns
          PROVE  TimersAfter(suspect, dt)[p] \in Nat
        <3>1. timers[p] + dt \in Nat /\ timers[p] \in Nat
            BY <1>1, <1>2
        <3>2. Capped(timers[p] + dt) \in Nat
            BY <3>1, CappedType
        <3>3. p \in suspect \/ p \in Windowed \ suspect \/ (p \in Immediate /\ p \notin Windowed)
            BY DEF Patterns, Windowed, Immediate
        <3>. QED BY <3>1, <3>2, <3>3, SMT DEF TimersAfter
    <2>. QED BY <2>1, <1>3 DEF TimersAfter
<1>7. flagged' \subseteq Patterns /\ active' \subseteq Patterns
    BY <1>2, <1>4, <1>5 DEF Raised, Patterns
<1>8. ActiveIffWindowFull'
    <2>1. ASSUME NEW p \in Windowed
          PROVE  p \in active' <=> timers'[p] >= PatternWindow[p]
        <3>1. /\ PatternWindow[p] \in Nat \ {0}
              /\ PatternWindow[p] <= TimerCap
              /\ p \in Patterns /\ p \notin Immediate
            BY WindowFacts
        <3>2. timers[p] \in Nat /\ (p \in active <=> timers[p] >= PatternWindow[p])
            BY <1>2, <3>1 DEF Inv, ActiveIffWindowFull
        <3>3. CASE p \in suspect
            <4>1. timers'[p] = Capped(timers[p] + dt)
                BY <1>3, <3>1, <3>3 DEF TimersAfter
            <4>2. timers'[p] >= PatternWindow[p] <=> timers[p] + dt >= PatternWindow[p]
                BY <4>1, <3>1, <3>2, <1>1, CappedType
            <4>3. p \in flagged' <=> timers'[p] >= PatternWindow[p] /\ p \notin active
                BY <1>4, <3>1, <3>3 DEF Raised
            <4>4. p \notin Cleared(suspect, level)
                BY <3>1, <3>3 DEF Cleared
            <4>5. p \in active' <=> p \in active \/ p \in flagged'
                BY <1>5, <4>4
            <4>. QED BY <4>2, <4>3, <4>5, <3>1, <3>2, <1>1
        <3>4. CASE p \notin suspect
            <4>1. timers'[p] = 0
                BY <1>3, <3>1, <3>4 DEF TimersAfter
            <4>2. p \in Cleared(suspect, level)
                BY <3>4 DEF Cleared
            <4>3. p \notin flagged'
                BY <1>4, <3>1, <3>4 DEF Raised
            <4>. QED BY <4>1, <4>2, <4>3, <1>5, <3>1
        <3>. QED BY <3>3, <3>4
    <2>. QED BY <2>1 DEF ActiveIffWindowFull
<1>. QED BY <1>6, <1>7, <1>8 DEF Inv, TypeOK

LEMMA ResetInv ==
    ASSUME Inv, NEW P \in ResetScopes, Reset(P)
    PROVE  Inv'
<1>1. /\ timers \in [Patterns -> Nat] /\ active \subseteq Patterns
      /\ timers' = [p \in Patterns |-> IF p \in P THEN 0 ELSE timers[p]]
      /\ active' = active \ P
      /\ flagged' = {}
    BY DEF Inv, TypeOK, Reset
<1>2. TypeOK'
    BY <1>1 DEF TypeOK
<1>3. ASSUME NEW p \in Windowed
      PROVE  p \in active' <=> timers'[p] >= PatternWindow[p]
    <2>1. PatternWindow[p] \in Nat \ {0} /\ p \in Patterns
        BY WindowFacts
    <2>2. p \in active <=> timers[p] >= PatternWindow[p]
        BY DEF Inv, ActiveIffWindowFull
    <2>. QED BY <1>1, <2>1, <2>2
<1>. QED BY <1>2, <1>3 DEF Inv, ActiveIffWindowFull

LEMMA NextInv == Inv /\ [Next]_vars => Inv'
<1> SUFFICES ASSUME Inv, [Next]_vars
             PROVE  Inv'
    OBVIOUS
<1>1. CASE UNCHANGED vars
    BY <1>1 DEF vars, Inv, TypeOK, ActiveIffWindowFull
<1>2. ASSUME NEW dt \in Dts, FeedRejected(dt)
      PROVE  Inv'
    BY <1>1, <1>2 DEF FeedRejected
<1>3. ASSUME NEW dt \in Dts, NEW suspect \in SUBSET Windowed,
             NEW level \in [Immediate -> Levels], Feed(suspect, level, dt)
      PROVE  Inv'
    BY <1>3, FeedInv
<1>4. ASSUME NEW P \in ResetScopes, Reset(P)
      PROVE  Inv'
    BY <1>4, ResetInv
<1>. QED BY <1>1, <1>2, <1>3, <1>4 DEF Next

\* In every reachable state a pattern that accumulates is active exactly when its
\* timer has reached its window.
THEOREM ActiveSetIsExact == Spec => [](TypeOK /\ ActiveIffWindowFull)
<1>1. Init => Inv
    BY InitInv
<1>2. Inv /\ [Next]_vars => Inv'
    BY NextInv
<1>3. Inv => TypeOK /\ ActiveIffWindowFull
    BY DEF Inv
<1>. QED BY <1>1, <1>2, <1>3, PTL DEF Spec

\* What is known before every call of MCCheatFSM.
CallInv == active \subseteq Patterns /\ incident = active

\* The patterns a frame flags were not active.
LEMMA FeedCall ==
    ASSUME CallInv, NEW suspect \in SUBSET Windowed, NEW level \in [Immediate -> Levels],
           NEW dt, MCFeed(suspect, level, dt)
    PROVE  CallInv' /\ flagged' \intersect incident = {}
<1>1. /\ flagged' = Raised(suspect, level, timers')
      /\ active' = (active \ Cleared(suspect, level)) \union flagged'
      /\ incident' = (incident \ NoEvidence(suspect, level)) \union flagged'
    BY DEF MCFeed, Feed
<1>2. Cleared(suspect, level) = NoEvidence(suspect, level)
    BY DEF Cleared, NoEvidence
<1>3. flagged' \subseteq Patterns /\ flagged' \intersect active = {}
    BY <1>1 DEF Raised, Patterns
<1>. QED BY <1>1, <1>2, <1>3 DEF CallInv

LEMMA CallStep ==
    ASSUME CallInv, MCNext
    PROVE  UNCHANGED mcVars \/ (CallInv' /\ flagged' \intersect incident = {})
<1>1. ASSUME NEW dt \in Dts, FeedRejected(dt) /\ UNCHANGED <<evidence, incident>>
      PROVE  UNCHANGED mcVars
    BY <1>1 DEF FeedRejected, vars, mcVars
<1>2. CASE SomeFeed
    BY <1>2, FeedCall DEF SomeFeed
<1>3. CASE \E P \in ResetScopes : MCReset(P)
    BY <1>3 DEF MCReset, Reset, CallInv
<1>. QED BY <1>1, <1>2, <1>3 DEF MCNext

\* The patterns reported and not over since are the active ones, whatever the windows.
LEMMA CallsInv == MCSpec => []CallInv
<1>1. MCInit => CallInv
    BY DEF MCInit, Init, CallInv
<1>2. CallInv /\ [MCNext]_mcVars => CallInv'
    BY CallStep DEF CallInv, mcVars
<1>. QED BY <1>1, <1>2, PTL DEF MCSpec

\* One incident, one flag, for all windows and scores: _activate is called only for a
\* pattern that is not active, and a pattern stays active until its evidence is gone
\* (cheat_fsm.py 120-200).
THEOREM IncidentsFlaggedOnce == MCSpec => OneFlagPerIncident
<1>1. CallInv /\ [MCNext]_mcVars => [flagged' \intersect incident = {}]_mcVars
    BY CallStep
<1>. QED BY <1>1, CallsInv, PTL DEF MCSpec, OneFlagPerIncident

\* What p still lacks to be active: time in its window, or one frame over the
\* threshold.
Missing(p) ==
    IF p \in active THEN 0 ELSE IF p \in Windowed THEN PatternWindow[p] - timers[p] ELSE 1

\* A frame that supports p leaves it active, or brings it nearer.
EvidenceAddsUp ==
    [][SomeFeed => \A p \in evidence' :
          \/ p \in active'
          \/ p \notin active /\ Missing(p)' < Missing(p)]_mcVars

\* A pattern that is not active lacks something, and never a negative time.
LEMMA MissingIsNat ==
    ASSUME Inv, NEW p \in Patterns
    PROVE  Missing(p) \in Nat /\ (Missing(p) = 0 <=> p \in active)
<1>1. CASE p \in Windowed /\ p \notin active
    <2>1. PatternWindow[p] \in Nat \ {0}
        BY <1>1, WindowFacts
    <2>2. timers[p] \in Nat /\ ~(timers[p] >= PatternWindow[p])
        BY <1>1 DEF Inv, TypeOK, ActiveIffWindowFull
    <2>. QED BY <1>1, <2>1, <2>2 DEF Missing
<1>2. CASE p \notin Windowed \/ p \in active
    BY <1>2 DEF Missing
<1>. QED BY <1>1, <1>2

LEMMA FeedAddsUp ==
    ASSUME Inv, NEW suspect \in SUBSET Windowed, NEW level \in [Immediate -> Levels],
           NEW dt \in Dts, MCFeed(suspect, level, dt), NEW p \in evidence'
    PROVE  p \in active' \/ (p \notin active /\ Missing(p)' < Missing(p))
<1>1. /\ Feed(suspect, level, dt) /\ dt \in Nat \ {0}
      /\ flagged' = Raised(suspect, level, timers') /\ timers' = TimersAfter(suspect, dt)
      /\ active' = (active \ Cleared(suspect, level)) \union flagged'
      /\ p \in Evidence(suspect, level)
    BY CheatAssumption DEF MCFeed, Feed
<1>2. Inv'
    BY <1>1, FeedInv
<1>3. CASE p \in suspect
    <2>1. PatternWindow[p] \in Nat \ {0} /\ p \in Windowed /\ p \in Patterns /\ p \notin Immediate
        BY <1>3, WindowFacts
    <2>2. timers[p] \in Nat /\ (p \in active <=> timers[p] >= PatternWindow[p])
        BY <2>1 DEF Inv, TypeOK, ActiveIffWindowFull
    <2>3. p \in active' <=> timers'[p] >= PatternWindow[p]
        BY <1>2, <2>1 DEF Inv, ActiveIffWindowFull
    <2>4. timers'[p] = Capped(timers[p] + dt)
        BY <1>1, <1>3, <2>1 DEF TimersAfter
    <2>5. PatternWindow[p] <= TimerCap /\ TimerCap \in Nat
        BY <2>1, WindowFacts, CheatAssumption
    <2>6. CASE timers[p] + dt >= PatternWindow[p]
        <3>1. timers'[p] >= PatternWindow[p]
            BY <1>1, <2>1, <2>2, <2>4, <2>5, <2>6 DEF Capped
        <3>. QED BY <2>3, <3>1
    <2>7. CASE ~(timers[p] + dt >= PatternWindow[p])
        <3>1. timers'[p] = timers[p] + dt
            BY <1>1, <2>1, <2>2, <2>4, <2>5, <2>7 DEF Capped
        <3>2. p \notin active /\ p \notin active'
            BY <1>1, <2>1, <2>2, <2>3, <2>7, <3>1
        <3>3. Missing(p) = PatternWindow[p] - timers[p]
            BY <2>1, <3>2 DEF Missing
        <3>4. Missing(p)' = PatternWindow[p] - timers'[p]
            BY <2>1, <3>2 DEF Missing
        <3>. QED BY <1>1, <2>1, <2>2, <3>1, <3>2, <3>3, <3>4
    <2>. QED BY <2>6, <2>7
<1>4. CASE p \in Immediate /\ level[p] = "hit"
    <2>1. p \notin Windowed /\ p \notin Cleared(suspect, level)
        BY <1>4 DEF Cleared, Windowed, Immediate
    <2>2. p \in active \/ p \in flagged'
        BY <1>1, <1>4 DEF Raised
    <2>. QED BY <1>1, <2>1, <2>2
<1>. QED BY <1>1, <1>3, <1>4 DEF Evidence

\* Every frame that supports a pattern counts, for all windows and steps of time: the
\* pattern is active after it, or nearer to it than before.  This is what evidence that
\* lasts is reported from; that such frames come is fairness.
THEOREM EvidenceCounts == MCSpec => [](\A p \in Patterns : Missing(p) \in Nat) /\ EvidenceAddsUp
<1>1. MCInit => Inv
    BY InitInv DEF MCInit
<1>2. Inv /\ [MCNext]_mcVars => Inv'
    <2> SUFFICES ASSUME Inv, [MCNext]_mcVars PROVE Inv'  OBVIOUS
    <2>1. MCNext => [Next]_vars
        BY DEF MCNext, SomeFeed, MCFeed, MCReset, Next, FeedRejected, vars
    <2>2. UNCHANGED mcVars => [Next]_vars
        BY DEF mcVars, vars
    <2>. QED BY <2>1, <2>2, NextInv
<1>3. Inv => [SomeFeed => \A p \in evidence' :
                 \/ p \in active'
                 \/ p \notin active /\ Missing(p)' < Missing(p)]_mcVars
    BY FeedAddsUp DEF SomeFeed
<1>4. Inv => \A p \in Patterns : Missing(p) \in Nat
    BY MissingIsNat
<1>. QED BY <1>1, <1>2, <1>3, <1>4, PTL DEF MCSpec, EvidenceAddsUp

-----------------------------------------------------------------------------
(* The signal path: the gallery *)

\* What is known of the gallery and of the faces seen before every frame.
GalleryInv ==
    /\ gallery \in [Persons -> 0..Drift] \union {None}
    /\ host = None <=> gallery = None
    /\ host = None => faces = {}
    /\ host # None => host \in faces /\ host \in Persons
    /\ host # None /\ faces = {host} => gallery[host] = 0
    /\ HostAloneIsNotAnImpostor

\* A frame of a face brings the gallery a step nearer to it, and only when it is
\* there a step away from the others.
LEMMA UpdatedFacts ==
    ASSUME NEW g \in [Persons -> 0..Drift], NEW who \in Persons, NEW h \in Updated(g, who)
    PROVE  /\ h \in [Persons -> 0..Drift]
           /\ g[who] = 0 => h[who] = 0
<1>1. Drift \in Nat
    BY PathAssumption
<1>2. PICK further \in BOOLEAN :
        h = [p \in Persons |->
                IF p = who THEN LowerOf(g[p], IF g[p] = 0 THEN 0 ELSE g[p] - 1)
                ELSE IF further /\ g[who] = 0 THEN LowerOf(g[p] + 1, Drift) ELSE g[p]]
    BY DEF Updated
<1>3. ASSUME NEW p \in Persons
      PROVE  h[p] \in 0..Drift
    <2>1. g[p] \in 0..Drift
        OBVIOUS
    <2>. QED BY <1>1, <1>2, <2>1 DEF LowerOf
<1>4. g[who] \in 0..Drift
    OBVIOUS
<1>5. h[who] = LowerOf(g[who], IF g[who] = 0 THEN 0 ELSE g[who] - 1)
    BY <1>2
<1>. QED BY <1>1, <1>2, <1>3, <1>4, <1>5 DEF LowerOf

\* The three things a frame can do to the gallery.
LEMMA LookAtFacts ==
    ASSUME NEW who \in Views, LookAt(who)
    PROVE  \/ who = Nobody /\ gallery' = gallery
           \/ who \in Persons /\ gallery # None /\ gallery' \in Updated(gallery, who)
           \/ /\ who \in Persons /\ gallery = None
              /\ \/ gallery' = None
                 \/ gallery' = [p \in Persons |-> IF p = who THEN 0 ELSE Drift]
<1>1. CASE who = Nobody
    <2>1. gallery' \in {gallery}
        BY <1>1, Zenon DEF LookAt
    <2>. QED BY <1>1, <2>1
<1>2. CASE who # Nobody /\ gallery # None
    <2>1. gallery' \in Updated(gallery, who)
        BY <1>2 DEF LookAt, Enrolled
    <2>. QED BY <1>2, <2>1 DEF Views
<1>3. CASE who # Nobody /\ gallery = None
    <2>1. gallery' \in {IF frames' >= EnrollAfter
                        THEN [p \in Persons |-> IF p = who THEN 0 ELSE Drift] ELSE None}
        BY <1>3 DEF LookAt, Enrolled
    <2>. QED BY <1>3, <2>1 DEF Views
<1>. QED BY <1>1, <1>2, <1>3

\* A detector is off on a frame that does not support its pattern.
LEMMA NoFalseAlarm ==
    ASSUME NEW suspects, NEW level, Edge!Feed(suspects, level, Dt),
           "IMPERSONATION" \notin suspects
    PROVE  "IMPERSONATION" \notin edgeActive'
BY DEF Edge!Feed, Edge!Cleared, Edge!Raised, Edge!Windowed, Edge!Immediate

LEMMA FrameGallery ==
    ASSUME GalleryInv, NEW who \in Views, LookAt(who), WatchRoom(who),
           ~Dissimilar(who) => "IMPERSONATION" \notin edgeActive'
    PROVE  GalleryInv'
<1>1. /\ Drift \in Nat /\ Nobody \notin Persons /\ None \notin Persons
      /\ None \notin [Persons -> 0..Drift]
    BY PathAssumption
<1>2. /\ inView' = who
      /\ host' = IF host = None /\ gallery' # None THEN who ELSE host
      /\ faces' = IF host' = None \/ who = Nobody THEN faces ELSE faces \union {who}
    BY DEF WatchRoom
<1>3. CASE who = Nobody /\ gallery' = gallery
    <2>1. UNCHANGED <<gallery, host, faces>> /\ inView' = Nobody
        BY <1>2, <1>3 DEF GalleryInv
    <2>. QED BY <2>1 DEF GalleryInv, HostAloneIsNotAnImpostor
<1>4. CASE who \in Persons /\ gallery # None /\ gallery' \in Updated(gallery, who)
    <2>1. /\ gallery \in [Persons -> 0..Drift] /\ gallery[who] \in 0..Drift
          /\ gallery' \in [Persons -> 0..Drift]
          /\ gallery[who] = 0 => gallery'[who] = 0
        BY <1>4, UpdatedFacts DEF GalleryInv
    <2>2. /\ host # None /\ host' = host /\ faces' = faces \union {who} /\ gallery' # None
          /\ host \in faces /\ host \in Persons
        BY <1>1, <1>2, <1>4, <2>1 DEF GalleryInv
    <2>3. faces' = {host'} => who = host /\ faces = {host}
        BY <2>2
    <2>4. faces' = {host'} => gallery'[host'] = 0
        BY <2>1, <2>2, <2>3 DEF GalleryInv
    <2>5. faces' = {who} => ~Dissimilar(who)
        <3>. SUFFICES ASSUME faces' = {who}
                      PROVE  ~Dissimilar(who)
            OBVIOUS
        <3>1. faces = {host} /\ who = host
            BY <2>2
        <3>2. gallery[who] = 0
            BY <2>2, <3>1 DEF GalleryInv
        <3>. QED BY <1>1, <1>4, <3>2 DEF Dissimilar
    <2>6. HostAloneIsNotAnImpostor'
        BY <1>2, <2>5 DEF HostAloneIsNotAnImpostor
    <2>. QED BY <2>1, <2>2, <2>4, <2>6 DEF GalleryInv
<1>5. CASE who \in Persons /\ gallery = None /\ gallery' = None
    <2>1. host = None /\ host' = None /\ faces = {} /\ faces' = {}
        BY <1>2, <1>5 DEF GalleryInv
    <2>. QED BY <1>5, <2>1 DEF GalleryInv, HostAloneIsNotAnImpostor
<1>6. CASE /\ who \in Persons /\ gallery = None
           /\ gallery' = [p \in Persons |-> IF p = who THEN 0 ELSE Drift]
    <2>1. gallery' \in [Persons -> 0..Drift] /\ gallery'[who] = 0 /\ gallery' # None
        BY <1>1, <1>6
    <2>2. host' = who /\ host' # None /\ faces' = {who} /\ who # Nobody
        BY <1>1, <1>2, <1>6, <2>1 DEF GalleryInv
    <2>3. ~Dissimilar(who)
        BY <1>6 DEF Dissimilar, Enrolled
    <2>4. HostAloneIsNotAnImpostor'
        BY <2>3 DEF HostAloneIsNotAnImpostor
    <2>. QED BY <1>6, <2>1, <2>2, <2>4 DEF GalleryInv
<1>. QED BY <1>3, <1>4, <1>5, <1>6, LookAtFacts

\* What the backend receives changes nothing on the edge.
LEMMA GalleryStep ==
    ASSUME GalleryInv, WatchNext
    PROVE  GalleryInv'
<1>1. CASE \E i \in DOMAIN sent : Receive(i) /\ WatchReceive(i)
    BY <1>1 DEF Receive, WatchReceive, edgeVars, roomVars, GalleryInv, HostAloneIsNotAnImpostor
<1>2. ASSUME NEW who \in Views, NEW sound \in Sounds, NEW motion \in Motions, NEW fake \in Fakes,
             NEW pulse \in BOOLEAN,
             Frame(who, pulse, motion, fake, sound), WatchRoom(who)
      PROVE  GalleryInv'
    <2>1. LookAt(who)
        BY <1>2 DEF Frame
    <2>2. ASSUME ~Dissimilar(who)
          PROVE  "IMPERSONATION" \notin edgeActive'
        <3>1. PICK live : Edge!Feed(EdgeSuspects(who, motion, sound, live), Level(fake), Dt)
            BY <1>2 DEF Frame
        <3>2. "IMPERSONATION" \notin EdgeSuspects(who, motion, sound, live)
            BY <2>2 DEF EdgeSuspects
        <3>. QED BY <3>1, <3>2, NoFalseAlarm
    <2>. QED BY <1>2, <2>1, <2>2, FrameGallery
<1>. QED BY <1>1, <1>2 DEF WatchNext

LEMMA GalleryHolds == WatchSpec => []GalleryInv
<1>1. WatchInit => GalleryInv
    BY PathAssumption DEF WatchInit, PathInit, GalleryInv, HostAloneIsNotAnImpostor
<1>2. GalleryInv /\ [WatchNext]_watchVars => GalleryInv'
    <2>1. GalleryInv /\ UNCHANGED watchVars => GalleryInv'
        BY DEF GalleryInv, HostAloneIsNotAnImpostor, watchVars, pathVars, edgeVars, roomVars
    <2>. QED BY <2>1, GalleryStep
<1>. QED BY <1>1, <1>2, PTL DEF WatchSpec

\* A host who is the only one ever seen is not taken for an impostor on a frame that
\* shows the host, for every drift, window and length of the warm-up.
THEOREM HostIsNoImpostor == WatchSpec => []HostAloneIsNotAnImpostor
<1>1. GalleryInv => HostAloneIsNotAnImpostor
    BY DEF GalleryInv
<1>. QED BY <1>1, GalleryHolds, PTL

-----------------------------------------------------------------------------
(* The signal path: the two sets of detectors *)

Photo == "STATIC_PHOTO"

LEMMA PhotoFacts ==
    /\ Windows[Photo] \in Nat \ {0} /\ LongestTimer \in Nat /\ Windows[Photo] <= LongestTimer
    /\ Photo \in Edge!Windowed /\ Photo \in Edge!Patterns /\ Photo \notin Edge!Immediate
    /\ \A p \in Edge!Patterns : p \notin Edge!Windowed => p \in Edge!Immediate
    /\ \A p \in Edge!Immediate : p \notin Edge!Windowed
    /\ Edge!Patterns = Back!Patterns /\ Edge!Windowed = Back!Windowed
    /\ Edge!Immediate = Back!Immediate
BY PathAssumption DEF Photo, Edge!Patterns, Edge!Windowed, Edge!Immediate,
                      Back!Patterns, Back!Windowed, Back!Immediate

\* The timers t after a frame, and what became of each.
TimersOf(t, suspects, dt) ==
    [p \in Edge!Patterns |->
        CASE p \in suspects                 -> Edge!Capped(t[p] + dt)
          [] p \in Edge!Windowed \ suspects -> 0
          [] p \in Edge!Immediate           -> t[p]]

LEMMA TimersOfFacts ==
    ASSUME NEW suspects \in SUBSET Edge!Windowed, NEW dt \in Nat \ {0},
           NEW t \in [Edge!Patterns -> Nat], NEW p \in Edge!Patterns
    PROVE  LET t2 == TimersOf(t, suspects, dt)
           IN  /\ p \in suspects => t2[p] = LowerOf(t[p] + dt, LongestTimer)
               /\ p \in Edge!Windowed \ suspects => t2[p] = 0
               /\ t2[p] \in Nat
<1> DEFINE t2 == TimersOf(t, suspects, dt)
<1>1. t[p] \in Nat /\ LongestTimer \in Nat
    BY PhotoFacts
<1>2. CASE p \in suspects
    <2>1. \A n \in Int : Edge!Capped(n) = LowerOf(n, LongestTimer)
        BY <1>1 DEF Edge!Capped, LowerOf
    <2>2. t2[p] = Edge!Capped(t[p] + dt)
        BY <1>2, PhotoFacts DEF TimersOf
    <2>3. t[p] + dt \in Int
        BY <1>1
    <2>4. t2[p] = LowerOf(t[p] + dt, LongestTimer)
        BY <2>1, <2>2, <2>3
    <2>. QED BY <1>1, <1>2, <2>4 DEF LowerOf
<1>3. CASE p \in Edge!Windowed \ suspects
    <2>1. p \notin Edge!Immediate
        BY <1>3, PhotoFacts
    <2>2. t2[p] = 0
        BY <1>3, <2>1 DEF TimersOf
    <2>. QED BY <1>3, <2>2
<1>4. CASE p \in Edge!Immediate
    <2>1. p \notin Edge!Windowed
        BY <1>4, PhotoFacts
    <2>2. t2[p] = t[p]
        BY <1>4, <2>1 DEF TimersOf
    <2>. QED BY <1>1, <1>4, <2>1, <2>2
<1>. QED BY <1>2, <1>3, <1>4, PhotoFacts

\* One detector of static photos: t and a are its timers and its active patterns
\* before a frame that takes dt, t2 and a2 those after it.
LEMMA PhotoDetector ==
    ASSUME NEW suspects \in SUBSET Edge!Windowed, NEW dt \in Nat \ {0},
           NEW t \in [Edge!Patterns -> Nat], NEW a, NEW t2, NEW a2,
           Photo \in a <=> t[Photo] >= Windows[Photo],
           t2 = TimersOf(t, suspects, dt),
           Photo \in suspects =>
                (Photo \in a2 <=> Photo \in a \/ t2[Photo] >= Windows[Photo]),
           Photo \notin suspects => Photo \notin a2
    PROVE  /\ t2 \in [Edge!Patterns -> Nat]
           /\ t2[Photo] = IF Photo \in suspects
                          THEN LowerOf(t[Photo] + dt, LongestTimer) ELSE 0
           /\ Photo \in a2 <=> t2[Photo] >= Windows[Photo]
<1>1. ASSUME NEW p \in Edge!Patterns
      PROVE  /\ p \in suspects => t2[p] = LowerOf(t[p] + dt, LongestTimer)
             /\ p \in Edge!Windowed \ suspects => t2[p] = 0
             /\ t2[p] \in Nat
    BY TimersOfFacts
<1>2. t2 \in [Edge!Patterns -> Nat]
    BY <1>1 DEF TimersOf
<1>3. CASE Photo \in suspects
    <2>1. t2[Photo] = LowerOf(t[Photo] + dt, LongestTimer) /\ t[Photo] \in Nat
        BY <1>1, <1>3, PhotoFacts
    <2>. QED BY <1>2, <1>3, <2>1, PhotoFacts DEF LowerOf
<1>4. CASE Photo \notin suspects
    <2>1. t2[Photo] = 0 /\ Photo \notin a2
        BY <1>1, <1>4, PhotoFacts
    <2>. QED BY <1>2, <1>4, <2>1, PhotoFacts
<1>. QED BY <1>3, <1>4

\* The timer of the detector on the edge.
LEMMA EdgePhoto ==
    ASSUME NEW suspects \in SUBSET Edge!Windowed, NEW level, NEW dt \in Nat \ {0},
           Edge!Feed(suspects, level, dt), edgeTimers \in [Edge!Patterns -> Nat]
    PROVE  /\ edgeTimers' \in [Edge!Patterns -> Nat]
           /\ edgeTimers'[Photo] = IF Photo \in suspects
                                   THEN LowerOf(edgeTimers[Photo] + dt, LongestTimer) ELSE 0
<1>1. edgeTimers' = TimersOf(edgeTimers, suspects, dt)
    BY DEF Edge!Feed, Edge!TimersAfter, TimersOf
<1>2. \A p \in Edge!Patterns : TimersOf(edgeTimers, suspects, dt)[p] \in Nat
    BY TimersOfFacts
<1>3. edgeTimers' \in [Edge!Patterns -> Nat]
    BY <1>1, <1>2 DEF TimersOf
<1>. QED BY <1>1, <1>3, PhotoFacts, TimersOfFacts

\* The detector in the backend.
LEMMA BackPhoto ==
    ASSUME NEW suspects \in SUBSET Edge!Windowed, NEW level, NEW dt \in Nat \ {0},
           Back!Feed(suspects, level, dt),
           backTimers \in [Edge!Patterns -> Nat],
           Photo \in backActive <=> backTimers[Photo] >= Windows[Photo]
    PROVE  /\ backTimers' \in [Edge!Patterns -> Nat]
           /\ backTimers'[Photo] = IF Photo \in suspects
                                   THEN LowerOf(backTimers[Photo] + dt, LongestTimer) ELSE 0
           /\ Photo \in backActive' <=> backTimers'[Photo] >= Windows[Photo]
<1>1. backTimers' = TimersOf(backTimers, suspects, dt)
    <2>1. \A n : Back!Capped(n) = Edge!Capped(n)
        BY DEF Back!Capped, Edge!Capped
    <2>. QED BY <2>1, PhotoFacts, Zenon DEF Back!Feed, Back!TimersAfter, TimersOf
<1>2. backActive' = (backActive \ Back!Cleared(suspects, level))
                        \union Back!Raised(suspects, level, backTimers')
    BY DEF Back!Feed
<1>3. /\ Photo \in suspects =>
            (Photo \in backActive' <=>
                Photo \in backActive \/ backTimers'[Photo] >= Windows[Photo])
      /\ Photo \notin suspects => Photo \notin backActive'
    BY <1>2, PhotoFacts DEF Back!Cleared, Back!Raised
<1>. QED BY <1>1, <1>3, PhotoDetector

\* A frame with a live face is no photo for either detector, and the payload keeps
\* what the edge says of photos.
LEMMA PhotoSuspects ==
    ASSUME NEW who, NEW motion, NEW sound, NEW live \in Int
    PROVE  LET suspects == EdgeSuspects(who, motion, sound, live)
           IN  /\ suspects \in SUBSET Edge!Windowed
               /\ Payload(suspects) \in SUBSET Edge!Windowed
               /\ Photo \in suspects <=> live < 50
               /\ Photo \in Payload(suspects) <=> Photo \in suspects
<1> DEFINE suspects == EdgeSuspects(who, motion, sound, live)
<1>1. suspects \in SUBSET Edge!Windowed
    BY DEF EdgeSuspects
<1>2. Photo \in suspects <=> live < 50
    BY PhotoFacts DEF EdgeSuspects, Photo
<1>. QED BY <1>1, <1>2 DEF Payload, Photo

\* Times on the path.
LEMMA LateFacts ==
    ASSUME NEW i \in Nat \ {0}
    PROVE  /\ Late(i) \in Nat /\ Late(1) = 0 /\ Late(i + 1) = Late(i) + Dt
           /\ \A j \in Nat \ {0} : j >= i => Late(j) >= Late(i)
           /\ i <= MaxLate + 2 => Late(i) <= (MaxLate + 1) * Dt
<1>1. Dt \in Nat /\ MaxLate \in Nat
    BY PathAssumption
<1>2. \A n \in Nat : n * Dt \in Nat
    BY <1>1
<1>3. \A m, n \in Nat : m <= n => m * Dt <= n * Dt
    <2>. SUFFICES ASSUME NEW m \in Nat, NEW n \in Nat, m <= n
                  PROVE  m * Dt <= n * Dt
        OBVIOUS
    <2>1. n - m \in Nat /\ (n - m) * Dt \in Nat
        BY <1>2
    <2>2. n * Dt = m * Dt + (n - m) * Dt
        BY <1>1
    <2>. QED BY <1>2, <2>1, <2>2
<1>4. i - 1 \in Nat /\ (i + 1) - 1 = (i - 1) + 1
    OBVIOUS
<1>5. ((i - 1) + 1) * Dt = (i - 1) * Dt + Dt
    BY <1>1
<1>6. (1 - 1) * Dt = 0
    BY <1>1
<1>. QED BY <1>1, <1>2, <1>3, <1>4, <1>5, <1>6 DEF Late

\* A sequence kept newest first, no longer than it may be.
Pushed(s, u, m) == SubSeq(<<u>> \o s, 1, LowerOf(Len(s), m) + 1)

LEMMA PushedFacts ==
    ASSUME NEW S, NEW s \in Seq(S), NEW u \in S, NEW m \in Nat
    PROVE  /\ Pushed(s, u, m) \in Seq(S) /\ Len(Pushed(s, u, m)) = LowerOf(Len(s), m) + 1
           /\ Pushed(s, u, m)[1] = u
           /\ \A i \in 2..Len(Pushed(s, u, m)) : Pushed(s, u, m)[i] = s[i - 1]
<1> DEFINE n == LowerOf(Len(s), m) + 1
           r == <<u>> \o s
           t == SubSeq(r, 1, n)
<1>1. /\ r \in Seq(S) /\ Len(r) = Len(s) + 1 /\ r[1] = u
      /\ \A i \in 2..Len(r) : r[i] = s[i - 1]
    OBVIOUS
<1>2. n \in 1..Len(r)
    BY <1>1 DEF LowerOf
<1>3. t \in Seq(S) /\ Len(t) = n /\ \A i \in 1..n : t[i] = r[i]
    <2> HIDE DEF n, r
    <2>. QED BY <1>1, <1>2
<1>4. Pushed(s, u, m) = t
    BY DEF Pushed
<1> HIDE DEF n, r, t
<1>5. t[1] = u /\ \A i \in 2..Len(t) : t[i] = s[i - 1]
    BY <1>1, <1>2, <1>3
<1>. QED BY <1>3, <1>4, <1>5 DEF n

Uploads == [suspects : SUBSET Edge!Windowed, level : [Edge!Immediate -> Edge!Levels], left : Nat]

\* The backend's timer of static photos, b, is within reach of the edge's at some frame,
\* or that is as full as a timer gets.
Reaches(b) == b <= photoThen + ahead \/ photoThen + ahead >= LongestTimer

\* What is known of the detectors of static photos before every frame and every upload
\* received.  Part of the time since the frame ingested last, up to the newest frame
\* ingested, may be charged again: so much less the backend must have counted.
PhotoTypes ==
    /\ edgeTimers \in [Edge!Patterns -> Nat] /\ backTimers \in [Edge!Patterns -> Nat]
    /\ sent \in Seq(Uploads) /\ edgeWas \in Seq(Nat) /\ Len(edgeWas) = Len(sent)
    /\ since \in Nat \union {None} /\ missed \in BOOLEAN
    /\ photoThen \in Nat /\ ahead \in Nat
    /\ Len(sent) <= MaxLate + 1 /\ newest \in 0..MaxLate + 2 /\ newest <= Len(sent) + 1

\* Each frame starts from the timer the one before it left.
EdgeInv ==
    /\ Len(sent) >= 1 => EdgeAfter(1) = edgeTimers[Photo]
    /\ \A i \in 2..Len(sent) : EdgeAfter(i) = edgeWas[i - 1]
    /\ newest = 1 => photoThen = edgeTimers[Photo]
    /\ newest >= 2 => photoThen = edgeWas[newest - 1]

BackInv ==
    /\ Photo \in backActive <=> backTimers[Photo] >= Windows[Photo]
    /\ since = None => newest = 0 /\ backTimers[Photo] = 0 /\ ~missed
    /\ newest # 0 => since # None /\ since >= Late(newest)
    /\ ~missed => Reaches(backTimers[Photo])
    /\ ~missed /\ newest # 0 => Reaches(backTimers[Photo] + (since - Late(newest)))

PhotoInv == PhotoTypes /\ EdgeInv /\ BackInv

\* A frame leaves the backend as it is, and every earlier frame one frame older.
LEMMA FramePhoto ==
    ASSUME PhotoInv, NEW suspects \in SUBSET Edge!Windowed,
           NEW level \in [Edge!Immediate -> Edge!Levels],
           Edge!Feed(suspects, level, Dt), Upload(suspects, level), WatchFrame,
           since' = IF since = None THEN None
                    ELSE LowerOf(since + Dt, MaxStep + (MaxLate + 1) * Dt),
           UNCHANGED <<backTimers, backActive>>
    PROVE  PhotoInv'
<1> DEFINE keep == LowerOf(Len(sent), MaxLate) + 1
<1>1. /\ Dt \in Nat \ {0} /\ MaxStep \in Nat \ {0} /\ MaxLate \in Nat /\ MaxRetries \in Nat
      /\ None \notin Int /\ LongestTimer \in Nat
    BY PathAssumption
<1>2. PhotoTypes /\ EdgeInv /\ BackInv
    BY DEF PhotoInv
<1>3. /\ edgeTimers' \in [Edge!Patterns -> Nat]
      /\ edgeTimers'[Photo] = IF Photo \in suspects
                              THEN LowerOf(edgeTimers[Photo] + Dt, LongestTimer) ELSE 0
    BY <1>1, <1>2, EdgePhoto DEF PhotoTypes
<1>4. PICK u \in Uploads : /\ sent' = Pushed(sent, u, MaxLate)
                           /\ Photo \in u.suspects <=> Photo \in suspects
    <2> DEFINE w == [suspects |-> Payload(suspects), level |-> level,
                     left |-> MaxRetries + 1]
    <2>1. w \in Uploads
        BY <1>1 DEF Uploads, Payload
    <2>2. sent' = Pushed(sent, w, MaxLate)
        BY DEF Upload, Pushed
    <2>3. Photo \in w.suspects <=> Photo \in suspects
        BY DEF Payload, Photo
    <2>. QED BY <2>1, <2>2, <2>3
<1>5. /\ sent' \in Seq(Uploads) /\ Len(sent') = keep /\ sent'[1] = u
      /\ \A i \in 2..Len(sent') : sent'[i] = sent[i - 1]
    <2>1. sent \in Seq(Uploads) /\ MaxLate \in Nat
        BY <1>1, <1>2 DEF PhotoTypes
    <2>. QED BY <1>4, <2>1, PushedFacts
<1>6. /\ edgeWas' \in Seq(Nat) /\ Len(edgeWas') = keep /\ edgeWas'[1] = edgeTimers[Photo]
      /\ \A i \in 2..Len(edgeWas') : edgeWas'[i] = edgeWas[i - 1]
    <2>1. edgeTimers[Photo] \in Nat /\ edgeWas \in Seq(Nat) /\ Len(edgeWas) = Len(sent)
        BY <1>2, PhotoFacts DEF PhotoTypes
    <2>2. edgeWas' = Pushed(edgeWas, edgeTimers[Photo], MaxLate)
        BY DEF WatchFrame, Photo, Pushed
    <2>3. MaxLate \in Nat
        BY <1>1
    <2>4. keep = LowerOf(Len(edgeWas), MaxLate) + 1
        BY <2>1
    <2>5. PICK e \in Nat : e = edgeTimers[Photo]
        BY <2>1
    <2>6. edgeWas' = Pushed(edgeWas, e, MaxLate) /\ edgeWas \in Seq(Nat)
        BY <2>1, <2>2, <2>5
    <2>7. PICK w : w = Pushed(edgeWas, e, MaxLate)
        OBVIOUS
    <2>8. /\ w \in Seq(Nat) /\ Len(w) = LowerOf(Len(edgeWas), MaxLate) + 1 /\ w[1] = e
          /\ \A i \in 2..Len(w) : w[i] = edgeWas[i - 1]
        <3>1. PICK S : S = Nat
            OBVIOUS
        <3>2. edgeWas \in Seq(S) /\ e \in S
            BY <2>1, <2>5, <3>1
        <3>3. /\ w \in Seq(S) /\ Len(w) = LowerOf(Len(edgeWas), MaxLate) + 1 /\ w[1] = e
              /\ \A i \in 2..Len(w) : w[i] = edgeWas[i - 1]
            BY <2>3, <2>7, <3>2, PushedFacts
        <3>. QED BY <3>1, <3>3
    <2> HIDE DEF keep
    <2>9. edgeWas' = w
        BY <2>6, <2>7
    <2>. QED BY <2>4, <2>5, <2>8, <2>9
<1>7. /\ newest' = IF newest \in 1 .. MaxLate + 1 THEN newest + 1 ELSE 0
      /\ UNCHANGED <<photoThen, ahead, missed>>
    BY DEF WatchFrame
<1>8. /\ Len(sent) \in Nat /\ newest \in Nat /\ newest <= Len(sent) + 1
      /\ keep \in Nat /\ keep >= 1 /\ keep <= Len(sent) + 1
      /\ newest \in 1 .. MaxLate + 1 => newest <= keep
    <2>1. Len(sent) \in Nat /\ newest \in Nat /\ newest <= Len(sent) + 1
        BY <1>2, <1>1 DEF PhotoTypes
    <2>. QED BY <1>1, <2>1 DEF LowerOf
<1> HIDE DEF keep
<1>9. since' \in Nat \union {None}
    <2>1. (MaxLate + 1) * Dt \in Nat
        BY <1>1
    <2>2. PICK c \in Nat : c = MaxStep + (MaxLate + 1) * Dt
        BY <1>1, <2>1
    <2>. QED BY <1>1, <1>2, <2>2 DEF PhotoTypes, LowerOf
<1>10. PhotoTypes'
    BY <1>1, <1>2, <1>3, <1>5, <1>6, <1>7, <1>8, <1>9 DEF PhotoTypes
<1>11. EdgeInv'
    <2>1. EdgeAfter(1)' = edgeTimers'[Photo]
        BY <1>3, <1>4, <1>5, <1>6 DEF EdgeAfter, IsPhoto, Photo
    <2>2. ASSUME NEW i \in 2..Len(sent')
          PROVE  EdgeAfter(i)' = edgeWas'[i - 1]
        <3>1. EdgeAfter(i)' = EdgeAfter(i - 1)
            BY <1>5, <1>6 DEF EdgeAfter, IsPhoto
        <3>2. CASE i = 2
            BY <1>2, <1>5, <1>6, <1>8, <3>1, <3>2 DEF EdgeInv
        <3>3. CASE i > 2
            <4>1. i - 1 \in 2..Len(sent) /\ i - 1 \in 2..Len(edgeWas')
                BY <1>5, <1>6, <1>8, <3>3
            <4>. QED BY <1>2, <1>6, <3>1, <4>1 DEF EdgeInv
        <3>. QED BY <3>2, <3>3
    <2>3. newest' # 1
        BY <1>7
    <2>4. newest' >= 2 => photoThen' = edgeWas'[newest' - 1]
        <3>. SUFFICES ASSUME newest' >= 2
                      PROVE  photoThen = edgeWas'[newest]
            BY <1>7, <1>8
        <3>1. newest \in 1 .. MaxLate + 1 /\ newest \in 1..Len(edgeWas')
            BY <1>6, <1>7, <1>8
        <3>2. CASE newest = 1
            BY <1>2, <1>6, <3>2 DEF EdgeInv
        <3>3. CASE newest >= 2
            <4>1. newest \in 2..Len(edgeWas')
                BY <3>1, <3>3
            <4>. QED BY <1>2, <1>6, <3>3, <4>1 DEF EdgeInv
        <3>. QED BY <3>1, <3>2, <3>3
    <2>. QED BY <2>1, <2>2, <2>3, <2>4 DEF EdgeInv
<1>12. BackInv'
    <2>1. /\ Photo \in backActive' <=> backTimers'[Photo] >= Windows[Photo]
          /\ since' = None => newest' = 0 /\ backTimers'[Photo] = 0 /\ ~missed'
          /\ ~missed' => Reaches(backTimers[Photo])'
        <3>1. since # None => since' # None
            <4>1. (MaxLate + 1) * Dt \in Nat
                BY <1>1
            <4>2. PICK c \in Nat : c = MaxStep + (MaxLate + 1) * Dt
                BY <1>1, <4>1
            <4>. QED BY <1>1, <1>2, <4>2 DEF PhotoTypes, LowerOf
        <3>. QED BY <1>1, <1>2, <1>7, <3>1 DEF BackInv, Reaches
    <2>2. ASSUME newest' # 0
          PROVE  /\ since' # None /\ since' >= Late(newest)'
                 /\ ~missed' => Reaches(backTimers[Photo] + (since - Late(newest)))'
        <3>1. newest \in 1 .. MaxLate + 1 /\ newest' = newest + 1
            BY <1>7, <2>2
        <3>2. since \in Nat /\ since >= Late(newest)
            BY <1>1, <1>2, <3>1 DEF PhotoTypes, BackInv
        <3>3. /\ Late(newest) \in Nat /\ Late(newest') = Late(newest) + Dt
              /\ Late(newest') <= (MaxLate + 1) * Dt
            <4>1. newest \in Nat \ {0} /\ newest' \in Nat \ {0} /\ newest' <= MaxLate + 2
                BY <1>1, <3>1
            <4>2. Late(newest) \in Nat /\ Late(newest + 1) = Late(newest) + Dt
                BY <4>1, LateFacts
            <4>3. Late(newest') <= (MaxLate + 1) * Dt
                BY <4>1, LateFacts
            <4>. QED BY <3>1, <4>2, <4>3
        <3>4. PICK c \in Nat : c = (MaxLate + 1) * Dt
            <4>1. (MaxLate + 1) * Dt \in Nat
                BY <1>1
            <4>. QED BY <4>1
        <3>5. since' = LowerOf(since + Dt, MaxStep + c)
            BY <1>1, <3>2, <3>4
        <3>6. /\ since' \in Nat /\ since' >= Late(newest')
              /\ since' - Late(newest') <= since - Late(newest)
            BY <1>1, <3>2, <3>3, <3>4, <3>5 DEF LowerOf
        <3>7. Late(newest)' = Late(newest')
            BY DEF Late
        <3>8. ASSUME ~missed'
              PROVE  Reaches(backTimers[Photo] + (since - Late(newest)))'
            <4>1. Reaches(backTimers[Photo] + (since - Late(newest)))
                BY <1>2, <1>7, <3>1, <3>8 DEF BackInv
            <4>2. backTimers[Photo] \in Nat /\ photoThen \in Nat /\ ahead \in Nat
                BY <1>2, PhotoFacts DEF PhotoTypes
            <4>. HIDE DEF Photo
            <4>. QED BY <1>1, <1>7, <3>2, <3>3, <3>6, <3>7, <4>1, <4>2 DEF Reaches
        <3>. QED BY <1>1, <3>6, <3>7, <3>8
    <2>. QED BY <2>1, <2>2 DEF BackInv
<1>. QED BY <1>10, <1>11, <1>12 DEF PhotoInv

\* The charge of an upload, and what it is at most.
LEMMA StepFacts ==
    ASSUME NEW i \in Nat \ {0}, since \in Nat \union {None}
    PROVE  /\ Step(i) \in Nat \ {0}
           /\ since = None => Step(i) = DefaultStep
           /\ since # None => /\ Gap(i) \in Int
                              /\ Gap(i) <= 0 => Step(i) = DefaultStep
                              /\ Gap(i) > 0 => Step(i) <= Gap(i)
<1>1. DefaultStep \in Nat \ {0} /\ MaxStep \in Nat \ {0} /\ None \notin Int
    BY PathAssumption
<1>2. since # None => Gap(i) \in Int
    BY <1>1, LateFacts DEF Gap
<1>. QED BY <1>1, <1>2 DEF Step, LowerOf

\* An upload received leaves the edge as it is, and the timers it started from.
LEMMA ReceiveEdge ==
    ASSUME PhotoInv, NEW i \in DOMAIN sent, Receive(i), WatchReceive(i)
    PROVE  /\ PhotoTypes' /\ EdgeInv'
           /\ backTimers'[Photo] = IF IsPhoto(i)
                                   THEN LowerOf(backTimers[Photo] + Step(i), LongestTimer) ELSE 0
           /\ Photo \in backActive' <=> backTimers'[Photo] >= Windows[Photo]
           /\ since' = Late(i) /\ Late(i)' = Late(i)
<1>1. PhotoTypes /\ EdgeInv /\ BackInv
    BY DEF PhotoInv
<1>2. /\ Dt \in Nat \ {0} /\ DefaultStep \in Nat \ {0} /\ None \notin Int
      /\ LongestTimer \in Nat /\ MaxLate \in Nat
    BY PathAssumption
<1>3. /\ i \in Nat \ {0} /\ i <= Len(sent) /\ Len(sent) \in Nat
      /\ sent[i] \in Uploads /\ sent[i].left > 0
      /\ sent' = [sent EXCEPT ![i].left = @ - 1]
      /\ UNCHANGED <<edgeTimers, edgeWas>>
    BY <1>1 DEF PhotoTypes, Receive, WatchReceive, edgeVars
<1>4. /\ sent' \in Seq(Uploads) /\ Len(sent') = Len(sent)
      /\ \A j \in DOMAIN sent : sent'[j].suspects = sent[j].suspects
    <2>1. PICK u \in Uploads : u = [sent[i] EXCEPT !.left = @ - 1]
        BY <1>3 DEF Uploads
    <2>2. sent' = [sent EXCEPT ![i] = u]
        BY <1>3, <2>1
    <2>3. u.suspects = sent[i].suspects
        BY <1>3, <2>1 DEF Uploads
    <2>. QED BY <1>1, <2>2, <2>3 DEF PhotoTypes
<1>5. Step(i) \in Nat \ {0}
    BY <1>1, <1>3, StepFacts DEF PhotoTypes
<1>6. /\ backTimers' \in [Edge!Patterns -> Nat]
      /\ backTimers'[Photo] = IF IsPhoto(i)
                              THEN LowerOf(backTimers[Photo] + Step(i), LongestTimer) ELSE 0
      /\ Photo \in backActive' <=> backTimers'[Photo] >= Windows[Photo]
    <2>1. Back!Feed(sent[i].suspects, sent[i].level, Step(i))
        BY DEF Receive
    <2>2. sent[i].suspects \in SUBSET Edge!Windowed
        BY <1>3 DEF Uploads
    <2>3. backTimers \in [Edge!Patterns -> Nat] /\ (Photo \in backActive <=> backTimers[Photo] >= Windows[Photo])
        BY <1>1 DEF PhotoTypes, BackInv
    <2>4. IsPhoto(i) <=> Photo \in sent[i].suspects
        BY DEF IsPhoto, Photo
    <2>. QED BY <1>5, <2>1, <2>2, <2>3, <2>4, BackPhoto
<1>7. since' = Late(i) /\ Late(i)' = Late(i) /\ Late(i) \in Nat
    BY <1>3, LateFacts DEF Receive, Late
<1>8. EdgeAfter(i) \in Nat
    BY <1>1, <1>2, <1>3 DEF EdgeAfter, PhotoTypes, LowerOf
<1>9. \A j \in 1..Len(sent) : EdgeAfter(j)' = EdgeAfter(j)
    BY <1>1, <1>3, <1>4 DEF EdgeAfter, IsPhoto, PhotoTypes
<1>10. CASE newest = 0 \/ i < newest
    <2>1. /\ newest' = i /\ photoThen' = EdgeAfter(i)
          /\ ahead' = (IF IsPhoto(i) THEN ahead ELSE 0)
          /\ missed' = (IsPhoto(i) /\ (missed \/ (since # None /\ newest # i + 1)))
        BY <1>10 DEF WatchReceive, WatchNewer
    <2>2. i <= MaxLate + 2
        <3>1. newest \in 0..MaxLate + 2 /\ newest <= Len(sent) + 1
            BY <1>1 DEF PhotoTypes
        <3>2. Len(sent) <= MaxLate + 1
            BY <1>1 DEF PhotoTypes
        <3>. QED BY <1>2, <1>3, <3>2
    <2>3. PhotoTypes'
        BY <1>1, <1>3, <1>4, <1>6, <1>7, <1>8, <2>1, <2>2 DEF PhotoTypes
    <2>4. EdgeInv'
        <3>1. newest' = 1 => photoThen' = edgeTimers'[Photo]
            BY <1>1, <1>3, <2>1 DEF EdgeInv
        <3>2. newest' >= 2 => photoThen' = edgeWas'[newest' - 1]
            BY <1>1, <1>3, <2>1 DEF EdgeInv
        <3>. QED BY <1>1, <1>3, <1>4, <1>9, <3>1, <3>2 DEF EdgeInv
    <2>. QED BY <1>6, <1>7, <2>3, <2>4
<1>11. CASE ~(newest = 0 \/ i < newest)
    <2>1. /\ UNCHANGED <<newest, photoThen>> /\ missed' = (IsPhoto(i) /\ missed)
          /\ ahead' = IF ~IsPhoto(i) THEN LowerOf(Late(i) - Late(newest), LongestTimer)
                      ELSE IF Gap(i) > 0 THEN ahead
                      ELSE LowerOf(ahead + DefaultStep - Gap(i), LongestTimer)
        BY <1>11 DEF WatchReceive, WatchRepeat
    <2>2. newest \in Nat \ {0} /\ i >= newest /\ since # None /\ since \in Nat
        BY <1>1, <1>2, <1>3, <1>11 DEF PhotoTypes, BackInv
    <2>3. ahead' \in Nat
        <3>1. Late(newest) \in Nat /\ Late(i) >= Late(newest)
            BY <1>3, <2>2, LateFacts
        <3>2. ahead \in Nat /\ Gap(i) \in Int
            BY <1>1, <1>3, <2>2, StepFacts DEF PhotoTypes
        <3>. QED BY <1>2, <1>7, <2>1, <3>1, <3>2 DEF LowerOf
    <2>4. PhotoTypes'
        BY <1>1, <1>3, <1>4, <1>6, <1>7, <2>1, <2>3 DEF PhotoTypes
    <2>5. EdgeInv'
        BY <1>1, <1>3, <1>4, <1>9, <2>1 DEF EdgeInv
    <2>. QED BY <1>6, <1>7, <2>4, <2>5
<1>. QED BY <1>10, <1>11

\* A step of both timers, where the backend's is no longer than what it had counted too
\* little and a frame of the edge.
LEMMA CatchesUp ==
    ASSUME NEW gap \in Nat, NEW step \in Nat, step <= gap + Dt,
           Dt \in Nat, LongestTimer \in Nat, backTimers[Photo] \in Nat,
           photoThen \in Nat, ahead \in Nat, Reaches(backTimers[Photo] + gap),
           backTimers'[Photo] = LowerOf(backTimers[Photo] + step, LongestTimer),
           photoThen' = LowerOf(photoThen + Dt, LongestTimer), ahead' = ahead
    PROVE  Reaches(backTimers[Photo])'
<1>1. ASSUME NEW b \in Nat, NEW e \in Nat, NEW a \in Nat, NEW d \in Nat, NEW top \in Nat,
             b + gap <= e + a \/ e + a >= top, step <= gap + d
      PROVE  \/ LowerOf(b + step, top) <= LowerOf(e + d, top) + a
             \/ LowerOf(e + d, top) + a >= top
    BY <1>1 DEF LowerOf
<1>2. \/ backTimers[Photo] + gap <= photoThen + ahead
      \/ photoThen + ahead >= LongestTimer
    BY DEF Reaches
<1>3. \/ LowerOf(backTimers[Photo] + step, LongestTimer)
            <= LowerOf(photoThen + Dt, LongestTimer) + ahead
      \/ LowerOf(photoThen + Dt, LongestTimer) + ahead >= LongestTimer
    BY <1>1, <1>2
<1>. QED BY <1>3 DEF Reaches

\* The newest frame the backend has had: it catches up with the edge, which has counted
\* the frame, too.
LEMMA ReceiveNewer ==
    ASSUME PhotoInv, DefaultStep <= Dt, NEW i \in DOMAIN sent,
           Receive(i), WatchReceive(i), newest = 0 \/ i < newest
    PROVE  BackInv'
<1>1. /\ newest' = i /\ photoThen' = EdgeAfter(i)
      /\ ahead' = (IF IsPhoto(i) THEN ahead ELSE 0)
      /\ missed' = (IsPhoto(i) /\ (missed \/ (since # None /\ newest # i + 1)))
    BY DEF WatchReceive, WatchNewer
<1>2. /\ PhotoTypes /\ EdgeInv /\ BackInv /\ PhotoTypes'
      /\ backTimers'[Photo] = IF IsPhoto(i)
                              THEN LowerOf(backTimers[Photo] + Step(i), LongestTimer) ELSE 0
      /\ Photo \in backActive' <=> backTimers'[Photo] >= Windows[Photo]
      /\ since' = Late(i) /\ Late(i)' = Late(i)
    BY ReceiveEdge DEF PhotoInv
<1>3. /\ Dt \in Nat \ {0} /\ DefaultStep \in Nat \ {0} /\ None \notin Int /\ LongestTimer \in Nat
    BY PathAssumption
<1>4. /\ i \in Nat \ {0} /\ i <= Len(sent) /\ Late(i) \in Nat
      /\ backTimers[Photo] \in Nat /\ backTimers'[Photo] \in Nat
      /\ ahead \in Nat /\ photoThen \in Nat /\ edgeWas[i] \in Nat
    <2>1. i \in Nat \ {0} /\ i <= Len(sent) /\ i \in DOMAIN edgeWas
        BY <1>2 DEF PhotoTypes
    <2>2. Late(i) \in Nat
        BY <2>1, LateFacts
    <2>3. edgeWas[i] \in Nat /\ ahead \in Nat /\ photoThen \in Nat
        BY <1>2, <2>1 DEF PhotoTypes
    <2>4. backTimers[Photo] \in Nat /\ backTimers'[Photo] \in Nat
        BY <1>2, PhotoFacts DEF PhotoTypes
    <2>. QED BY <2>1, <2>2, <2>3, <2>4
<1>5. ASSUME ~missed'
      PROVE  Reaches(backTimers[Photo])'
    <2>1. CASE ~IsPhoto(i)
        BY <1>1, <1>2, <1>3, <1>4, <2>1 DEF Reaches, EdgeAfter
    <2>2. CASE IsPhoto(i) /\ since = None
        <3>1. backTimers[Photo] = 0 /\ Step(i) = DefaultStep
            BY <1>2, <1>4, <2>2, StepFacts DEF BackInv
        <3>. QED BY <1>1, <1>2, <1>3, <1>4, <2>2, <3>1 DEF Reaches, EdgeAfter, LowerOf
    <2>3. CASE IsPhoto(i) /\ since # None
        <3>1. newest = i + 1 /\ ~missed /\ since \in Nat
            BY <1>1, <1>2, <1>5, <2>3 DEF PhotoTypes
        <3>2. /\ Late(newest) = Late(i) + Dt /\ since >= Late(newest)
              /\ Reaches(backTimers[Photo] + (since - Late(newest)))
            <4>1. Late(i + 1) = Late(i) + Dt
                BY <1>4, LateFacts
            <4>2. newest # 0
                BY <1>4, <3>1
            <4>. QED BY <1>2, <3>1, <4>1, <4>2 DEF BackInv
        <3>3. Step(i) \in Nat /\ Step(i) <= since - Late(newest) + Dt
            <4>1. Gap(i) = since - Late(newest) + Dt
                BY <1>3, <1>4, <3>1, <3>2 DEF Gap
            <4>2. Gap(i) > 0
                BY <1>3, <1>4, <3>1, <3>2, <4>1
            <4>. QED BY <1>2, <1>4, <2>3, <4>1, <4>2, StepFacts DEF PhotoTypes
        <3>4. photoThen = edgeWas[i]
            BY <1>2, <1>4, <3>1 DEF EdgeInv
        <3>5. photoThen' = LowerOf(photoThen + Dt, LongestTimer) /\ ahead' = ahead
            BY <1>1, <2>3, <3>4 DEF EdgeAfter
        <3>6. /\ backTimers'[Photo] = LowerOf(backTimers[Photo] + Step(i), LongestTimer)
              /\ Dt \in Nat /\ LongestTimer \in Nat
            BY <1>2, <1>3, <2>3
        <3>7. since - Late(newest) \in Nat
            BY <1>3, <1>4, <3>1, <3>2
        <3>8. Reaches(backTimers[Photo] + (since - Late(newest)))
            BY <3>2
        <3>. QED BY <1>4, <3>3, <3>5, <3>6, <3>7, <3>8, CatchesUp
    <2>. QED BY <2>1, <2>2, <2>3
<1>6. Late(newest)' = Late(i) /\ since' - Late(newest)' = 0
    BY <1>1, <1>2, <1>4 DEF Late
<1>7. Reaches(backTimers[Photo])' => Reaches(backTimers[Photo] + (since - Late(newest)))'
    BY <1>4, <1>6 DEF Reaches
<1>. QED BY <1>1, <1>2, <1>3, <1>4, <1>5, <1>6, <1>7 DEF BackInv

\* A frame again, or one that was overtaken: what it sets the backend's clock back is
\* what ahead takes note of.
LEMMA ReceiveRepeat ==
    ASSUME PhotoInv, NEW i \in DOMAIN sent,
           Receive(i), WatchReceive(i), ~(newest = 0 \/ i < newest)
    PROVE  BackInv'
<1>1. /\ UNCHANGED <<newest, photoThen>> /\ missed' = (IsPhoto(i) /\ missed)
      /\ ahead' = IF ~IsPhoto(i) THEN LowerOf(Late(i) - Late(newest), LongestTimer)
                  ELSE IF Gap(i) > 0 THEN ahead
                  ELSE LowerOf(ahead + DefaultStep - Gap(i), LongestTimer)
    BY DEF WatchReceive, WatchRepeat
<1>2. /\ PhotoTypes /\ EdgeInv /\ BackInv /\ PhotoTypes'
      /\ backTimers'[Photo] = IF IsPhoto(i)
                              THEN LowerOf(backTimers[Photo] + Step(i), LongestTimer) ELSE 0
      /\ Photo \in backActive' <=> backTimers'[Photo] >= Windows[Photo]
      /\ since' = Late(i) /\ Late(i)' = Late(i)
    BY ReceiveEdge DEF PhotoInv
<1>3. /\ Dt \in Nat \ {0} /\ DefaultStep \in Nat \ {0} /\ None \notin Int /\ LongestTimer \in Nat
    BY PathAssumption
<1>4. /\ i \in Nat \ {0} /\ newest \in Nat \ {0} /\ since \in Nat
      /\ backTimers[Photo] \in Nat /\ backTimers'[Photo] \in Nat
      /\ ahead \in Nat /\ photoThen \in Nat
    <2>1. backTimers[Photo] \in Nat /\ backTimers'[Photo] \in Nat
        BY <1>2, PhotoFacts DEF PhotoTypes
    <2>2. newest \in 0..MaxLate + 2 /\ newest # 0 /\ since # None
        BY <1>2 DEF PhotoTypes, BackInv
    <2>3. i \in Nat \ {0} /\ since \in Nat /\ ahead \in Nat /\ photoThen \in Nat
        BY <1>2, <2>2 DEF PhotoTypes
    <2>. QED BY <2>1, <2>2, <2>3
<1>5. Late(i) \in Nat /\ Late(newest) \in Nat /\ Late(i) >= Late(newest) /\ since >= Late(newest)
    <2>1. i >= newest
        BY <1>4
    <2>. QED BY <1>2, <1>4, <2>1, LateFacts DEF BackInv
<1>6. /\ Gap(i) = since - Late(i) /\ Step(i) \in Nat
      /\ Gap(i) <= 0 => Step(i) = DefaultStep
      /\ Gap(i) > 0 => Step(i) <= Gap(i)
    BY <1>3, <1>4, StepFacts DEF Gap
<1>7. Late(newest)' = Late(newest)
    BY <1>1 DEF Late
<1>8. ASSUME ~missed'
      PROVE  Reaches(backTimers[Photo] + (since - Late(newest)))'
    <2>1. CASE ~IsPhoto(i)
        BY <1>1, <1>2, <1>3, <1>4, <1>5, <1>7, <2>1 DEF Reaches, LowerOf
    <2>2. CASE IsPhoto(i)
        <3>1. Reaches(backTimers[Photo] + (since - Late(newest)))
            BY <1>1, <1>2, <1>4, <1>8, <2>2 DEF BackInv
        <3>2. backTimers'[Photo] <= backTimers[Photo] + Step(i)
            BY <1>2, <1>3, <1>4, <1>6, <2>2 DEF LowerOf
        <3>. QED BY <1>1, <1>2, <1>3, <1>4, <1>5, <1>6, <1>7, <2>2, <3>1, <3>2 DEF Reaches, LowerOf
    <2>. QED BY <2>1, <2>2
<1>9. Reaches(backTimers[Photo] + (since - Late(newest)))' => Reaches(backTimers[Photo])'
    <2>1. photoThen' \in Nat /\ ahead' \in Nat
        BY <1>2, Zenon DEF PhotoTypes
    <2>. QED BY <1>2, <1>4, <1>5, <1>7, <2>1 DEF Reaches
<1>. QED BY <1>1, <1>2, <1>3, <1>4, <1>5, <1>7, <1>8, <1>9 DEF BackInv

LEMMA PhotoStep ==
    ASSUME PhotoInv, DefaultStep <= Dt, WatchNext
    PROVE  PhotoInv'
<1>1. ASSUME NEW i \in DOMAIN sent, Receive(i), WatchReceive(i)
      PROVE  PhotoInv'
    BY <1>1, ReceiveEdge, ReceiveNewer, ReceiveRepeat DEF PhotoInv
<1>2. ASSUME NEW who \in Views, NEW sound \in Sounds, NEW motion \in Motions, NEW fake \in Fakes,
             NEW pulse \in BOOLEAN,
             Frame(who, pulse, motion, fake, sound), WatchFrame
      PROVE  PhotoInv'
    <2>1. PICK suspects :
            /\ suspects \in SUBSET Edge!Windowed
            /\ Edge!Feed(suspects, Level(fake), Dt) /\ Upload(suspects, Level(fake))
        BY <1>2 DEF Frame, EdgeSuspects
    <2>2. Level(fake) \in [Edge!Immediate -> Edge!Levels]
        BY DEF Level, Edge!Levels
    <2>3. /\ since' = IF since = None THEN None
                      ELSE LowerOf(since + Dt, MaxStep + (MaxLate + 1) * Dt)
          /\ UNCHANGED <<backTimers, backActive>>
        BY <1>2 DEF Frame
    <2>. QED BY <1>2, <2>1, <2>2, <2>3, FramePhoto
<1>. QED BY <1>1, <1>2 DEF WatchNext

\* For all windows, both clocks, any number of attempts and any lateness: the backend
\* counts no time towards a static photo that the edge has not counted, but for a default
\* step for every upload repeated or overtaken, and the time that one sets its clock back.
\* The one thing asked is that the 200 ms the backend takes for its first frame are no
\* more than a frame of the edge, as at its default of 5 frames a second.
THEOREM PhotoConfirmed ==
    ASSUME DefaultStep <= Dt
    PROVE  WatchSpec => []EdgeConfirmsPhoto
<1>1. WatchInit => PhotoInv
    <2>. SUFFICES ASSUME WatchInit
                  PROVE  PhotoInv
        OBVIOUS
    <2>1. /\ edgeTimers = [p \in Edge!Patterns |-> 0]
          /\ backTimers = [p \in Edge!Patterns |-> 0] /\ backActive = {}
          /\ sent = <<>> /\ since = None /\ newest = 0 /\ edgeWas = <<>>
          /\ photoThen = 0 /\ ahead = 0 /\ missed = FALSE
        <3>1. Back!Patterns = Edge!Patterns
            BY PhotoFacts
        <3>. QED BY <3>1 DEF WatchInit, PathInit, Edge!Init, Back!Init
    <2>2. Windows[Photo] \in Nat \ {0} /\ backTimers[Photo] = 0 /\ MaxLate \in Nat
        BY <2>1, PhotoFacts, PathAssumption
    <2>3. PhotoTypes
        <3>1. /\ sent \in Seq(Uploads) /\ edgeWas \in Seq(Nat)
              /\ Len(sent) = 0 /\ Len(edgeWas) = 0
            BY <2>1
        <3>2. newest \in 0..MaxLate + 2
            BY <2>1, <2>2
        <3>3. edgeTimers \in [Edge!Patterns -> Nat] /\ backTimers \in [Edge!Patterns -> Nat]
            BY <2>1
        <3>4. Len(sent) <= MaxLate + 1 /\ newest <= Len(sent) + 1 /\ Len(edgeWas) = Len(sent)
            BY <2>1, <2>2, <3>1
        <3>5. since \in Nat \union {None} /\ missed \in BOOLEAN /\ photoThen \in Nat /\ ahead \in Nat
            BY <2>1
        <3>. QED BY <3>1, <3>2, <3>3, <3>4, <3>5 DEF PhotoTypes
    <2>4. EdgeInv
        BY <2>1 DEF EdgeInv
    <2>5. BackInv
        BY <2>1, <2>2 DEF BackInv, Reaches
    <2>. QED BY <2>3, <2>4, <2>5 DEF PhotoInv
<1>2. PhotoInv /\ [WatchNext]_watchVars => PhotoInv'
    <2>1. PhotoInv /\ UNCHANGED watchVars => PhotoInv'
        BY DEF PhotoInv, PhotoTypes, EdgeInv, BackInv, Reaches, EdgeAfter, IsPhoto, Late,
               watchVars, pathVars, edgeVars, backVars, clockVars
    <2>. QED BY <2>1, PhotoStep
<1>3. PhotoInv => EdgeConfirmsPhoto
    <2>. SUFFICES ASSUME PhotoInv, Photo \in backActive, ~missed
                  PROVE  photoThen + ahead >= Windows[Photo]
        BY DEF EdgeConfirmsPhoto, Photo
    <2>1. /\ backTimers[Photo] \in Nat /\ photoThen + ahead \in Nat
          /\ backTimers[Photo] >= Windows[Photo] /\ Reaches(backTimers[Photo])
        BY PhotoFacts DEF PhotoInv, PhotoTypes, BackInv
    <2>. QED BY <2>1, PhotoFacts DEF Reaches
<1>. QED BY <1>1, <1>2, <1>3, PTL DEF WatchSpec

=============================================================================
