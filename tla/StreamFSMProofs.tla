-------------------------- MODULE StreamFSMProofs --------------------------
(***************************************************************************)
(* What StreamFSM guarantees for every window, threshold and time limit.   *)
(* Inv is the inductive invariant: the chain of entries is what makes the  *)
(* buffer minimal after trimming, and a minimal buffer is what makes       *)
(* ALERT_ESCALATED final.  The second half is about the history variables  *)
(* of MCStreamFSM: the deque of the code, and the dwell after a recovery.  *)
(***************************************************************************)
EXTENDS MCStreamFSM, WellFoundedInduction, TLAPS

\* Every entry is a frame that was fed.
FramesFed == \A e \in buf : e.dt \in Dts

Inv == TypeOK /\ TimerMatchesState /\ Chained /\ WindowMinimal /\ FramesFed

-----------------------------------------------------------------------------
(* The consensus buffer *)

\* A new frame keeps the entries well formed.
LEMMA PushedType ==
    ASSUME NEW b \in SUBSET Entries, NEW score \in Nat, NEW dt \in Nat \ {0}
    PROVE  Pushed(b, score, dt) \subseteq Entries
<1>1. score * dt \in Nat
    OBVIOUS
<1>2. Entry(score, dt) \in Entries
    BY <1>1 DEF Entry, Entries
<1>3. ASSUME NEW e \in b
      PROVE  [dt |-> e.dt, span |-> e.span + dt, mass |-> e.mass + score * dt] \in Entries
    <2>1. /\ e.dt \in Nat \ {0}
          /\ e.span \in Nat \ {0}
          /\ e.mass \in Nat
        BY DEF Entries
    <2>2. e.span + dt \in Nat \ {0} /\ e.mass + score * dt \in Nat
        BY <2>1, <1>1
    <2>. QED BY <2>1, <2>2 DEF Entries
<1>. QED BY <1>2, <1>3 DEF Pushed

\* A new frame keeps the entries chained.
LEMMA PushedChained ==
    ASSUME NEW b \in SUBSET Entries, NEW score \in Nat, NEW dt \in Nat \ {0},
           \A e \in b : e.span = e.dt \/ \E f \in b : f.span = e.span - e.dt
    PROVE  \A e \in Pushed(b, score, dt) :
              e.span = e.dt \/ \E f \in Pushed(b, score, dt) : f.span = e.span - e.dt
<1> DEFINE Aged(e) == [dt |-> e.dt, span |-> e.span + dt, mass |-> e.mass + score * dt]
<1>1. \A e \in b : e.dt \in Nat /\ e.span \in Nat
    BY DEF Entries
<1>2. Entry(score, dt) \in Pushed(b, score, dt) /\ \A e \in b : Aged(e) \in Pushed(b, score, dt)
    BY DEF Pushed
<1>3. Entry(score, dt).span = dt /\ Entry(score, dt).dt = dt
    BY DEF Entry
<1>4. ASSUME NEW e \in b
      PROVE  \E f \in Pushed(b, score, dt) : f.span = Aged(e).span - Aged(e).dt
    <2>1. CASE e.span = e.dt
        BY <2>1, <1>1, <1>2, <1>3
    <2>2. CASE \E f \in b : f.span = e.span - e.dt
        <3>1. PICK f \in b : f.span = e.span - e.dt
            BY <2>2
        <3>2. Aged(f).span = Aged(e).span - Aged(e).dt
            BY <3>1, <1>1
        <3>. QED BY <3>2, <1>2
    <2>. QED BY <2>1, <2>2
<1>. QED BY <1>3, <1>4 DEF Pushed

\* Trimming a chained buffer leaves it chained, and minimal.
LEMMA TrimmedMinimal ==
    ASSUME NEW b \in SUBSET Entries,
           \A e \in b : e.span = e.dt \/ \E f \in b : f.span = e.span - e.dt
    PROVE  /\ \A e \in Trimmed(b) :
                 e.span = e.dt \/ \E f \in Trimmed(b) : f.span = e.span - e.dt
           /\ \A e \in Trimmed(b) : e.span - e.dt < Window
<1>1. \A e \in b : e.dt \in Nat \ {0} /\ e.span \in Nat \ {0}
    BY DEF Entries
<1>2. Window \in Nat \ {0}
    BY ConfigAssumption
<1>3. ASSUME NEW e \in Trimmed(b)
      PROVE  /\ e.span = e.dt \/ \E f \in Trimmed(b) : f.span = e.span - e.dt
             /\ e.span - e.dt < Window
    <2>1. e \in b /\ \A g \in b : g.span < e.span => g.span < Window
        BY DEF Trimmed
    <2>2. CASE e.span = e.dt
        BY <2>1, <2>2, <1>1, <1>2
    <2>3. CASE \E f \in b : f.span = e.span - e.dt
        <3>1. PICK f \in b : f.span = e.span - e.dt
            BY <2>3
        <3>2. f.span < e.span
            BY <3>1, <2>1, <1>1
        <3>3. f.span < Window
            BY <3>2, <2>1
        <3>4. f \in Trimmed(b)
            <4>1. \A g \in b : g.span < f.span => g.span < Window
                BY <3>2, <2>1, <1>1
            <4>. QED BY <4>1 DEF Trimmed
        <3>. QED BY <3>1, <3>3, <3>4
    <2>. QED BY <2>1, <2>2, <2>3
<1>. QED BY <1>3

-----------------------------------------------------------------------------
(* The inductive invariant *)

LEMMA InitInv == Init => Inv
<1>. USE DEF Init, Inv
<1>1. Init => TypeOK
    BY DEF TypeOK, States
<1>2. Init => TimerMatchesState
    BY DEF TimerMatchesState
<1>3. Init => Chained /\ WindowMinimal /\ FramesFed
    BY DEF Chained, WindowMinimal, FramesFed
<1>. QED BY <1>1, <1>2, <1>3

LEMMA NextStateType ==
    ASSUME NEW s \in States, NEW score, NEW b, NEW t
    PROVE  NextState(s, score, b, t) \in States
BY DEF NextState, States

\* One frame preserves the invariant.
LEMMA FeedInv ==
    ASSUME Inv, NEW score \in Scores, NEW dt \in Dts, Feed(score, dt)
    PROVE  Inv'
<1> DEFINE t == IF Ticking(state) THEN timer + dt ELSE timer
           to == NextState(state, score, buf', t)
<1>1. score \in Nat /\ dt \in Nat \ {0}
    BY ConfigAssumption DEF Feed
<1>2. t \in Nat
    BY <1>1 DEF Inv, TypeOK
<1>3. /\ buf' = Trimmed(Pushed(buf, score, dt))
      /\ lastScore' = score
      /\ state' = to
      /\ timer' = TimerAfter(to, t)
      /\ event' = IF to = state THEN NoEvent
                  ELSE [from |-> state, to |-> to, severity |-> SeverityFor(to),
                        offline |-> TimerAfter(to, t)]
    BY DEF Feed, Advance
<1>4. buf \in SUBSET Entries
    BY DEF Inv, TypeOK
<1>5. to \in States
    BY NextStateType DEF Inv, TypeOK
<1>6. TypeOK'
    <2>1. buf' \subseteq Entries
        BY <1>1, <1>3, <1>4, PushedType DEF Trimmed
    <2>2. timer' \in Nat
        BY <1>2, <1>3 DEF TimerAfter
    <2>3. event' \in Events \union {NoEvent}
        <3>1. SeverityFor(to) \in {"INFO", "P1", "P0"}
            BY DEF SeverityFor
        <3>2. state \in States /\ TimerAfter(to, t) \in Nat
            BY <1>2 DEF Inv, TypeOK, TimerAfter
        <3>3. CASE to = state
            BY <3>3, <1>3
        <3>4. CASE to # state
            <4>1. event' = [from |-> state, to |-> to, severity |-> SeverityFor(to),
                            offline |-> TimerAfter(to, t)]
                BY <3>4, <1>3
            <4>. QED BY <4>1, <3>1, <3>2, <1>5 DEF Events
        <3>. QED BY <3>3, <3>4
    <2>. QED BY <2>1, <2>2, <2>3, <1>1, <1>3, <1>5 DEF TypeOK
<1>7. TimerMatchesState'
    <2>1. timer \in Nat /\ BriefToLong \in Nat \ {0} /\ LongToEscalate \in Nat \ {0}
        BY ConfigAssumption DEF Inv, TypeOK
    <2>2. state \in States /\ TimerMatchesState
        BY DEF Inv, TypeOK
    <2>3. CASE state = "IDLE"
        BY <2>1, <2>2, <2>3, <1>1, <1>3
        DEF TimerMatchesState, TimerAfter, NextState, Ticking
    <2>4. CASE state = "ON_DUTY"
        BY <2>1, <2>2, <2>4, <1>1, <1>3
        DEF TimerMatchesState, TimerAfter, NextState, Ticking
    <2>5. CASE state = "BRIEF_AWAY"
        BY <2>1, <2>2, <2>5, <1>1, <1>3
        DEF TimerMatchesState, TimerAfter, NextState, Ticking
    <2>6. CASE state = "LONG_AWAY"
        BY <2>1, <2>2, <2>6, <1>1, <1>3
        DEF TimerMatchesState, TimerAfter, NextState, Ticking
    <2>7. CASE state = "ALERT_ESCALATED"
        BY <2>1, <2>2, <2>7, <1>1, <1>3
        DEF TimerMatchesState, TimerAfter, NextState, Ticking
    <2>. QED BY <2>2, <2>3, <2>4, <2>5, <2>6, <2>7 DEF States
<1>8. Chained' /\ WindowMinimal'
    <2>1. \A e \in buf : e.span = e.dt \/ \E f \in buf : f.span = e.span - e.dt
        BY DEF Inv, Chained
    <2>2. Pushed(buf, score, dt) \in SUBSET Entries
        BY <1>1, <1>4, PushedType
    <2>3. \A e \in Pushed(buf, score, dt) :
             e.span = e.dt \/ \E f \in Pushed(buf, score, dt) : f.span = e.span - e.dt
        BY <1>1, <1>4, <2>1, PushedChained
    <2>. QED BY <2>2, <2>3, <1>3, TrimmedMinimal DEF Chained, WindowMinimal
<1>9. FramesFed'
    <2>1. buf' \subseteq Pushed(buf, score, dt)
        BY <1>3 DEF Trimmed
    <2>2. \A e \in buf : e.dt \in Dts
        BY DEF Inv, FramesFed
    <2>. QED BY <2>1, <2>2 DEF Pushed, Entry, FramesFed
<1>. QED BY <1>6, <1>7, <1>8, <1>9 DEF Inv

LEMMA NextInv == Inv /\ [Next]_vars => Inv'
<1> SUFFICES ASSUME Inv, [Next]_vars
             PROVE  Inv'
    OBVIOUS
<1>1. CASE UNCHANGED vars
    BY <1>1 DEF vars, Inv, TypeOK, TimerMatchesState, Chained, WindowMinimal, FramesFed
<1>2. ASSUME NEW dt \in Dts, FeedRejected(dt)
      PROVE  Inv'
    BY <1>1, <1>2 DEF FeedRejected
<1>3. ASSUME NEW dt \in Dts, NEW score \in Scores, Feed(score, dt)
      PROVE  Inv'
    BY <1>3, FeedInv
<1>. QED BY <1>1, <1>2, <1>3 DEF Next

LEMMA SpecInv == Spec => []Inv
<1>1. Init => Inv
    BY InitInv
<1>2. Inv /\ [Next]_vars => Inv'
    BY NextInv
<1>. QED BY <1>1, <1>2, PTL DEF Spec

-----------------------------------------------------------------------------
(* The theorems *)

\* Every reachable state is well typed.
THEOREM TypeCorrect == Spec => []TypeOK
<1>1. Inv => TypeOK
    BY DEF Inv
<1>. QED BY <1>1, SpecInv, PTL

\* Timer and state agree: no alert before its full time away, no time counted on duty.
THEOREM TimerCorrect == Spec => []TimerMatchesState
<1>1. Inv => TimerMatchesState
    BY DEF Inv
<1>. QED BY <1>1, SpecInv, PTL

\* The buffer is a gapless run of frames that just covers the window.
THEOREM BufferMinimal == Spec => [](Chained /\ WindowMinimal)
<1>1. Inv => Chained /\ WindowMinimal
    BY DEF Inv
<1>. QED BY <1>1, SpecInv, PTL

-----------------------------------------------------------------------------
(* Escalation *)

\* A minimal buffer of frames no longer than the window never covers it twice.
LEMMA NeverTwiceTheWindow ==
    ASSUME StepsWithinWindow, NEW b \in SUBSET Entries,
           \A e \in b : e.dt \in Dts /\ e.span - e.dt < Window
    PROVE  ~BufferCovers(b, 2 * Window)
<1>1. \A e \in b : e.dt \in Nat /\ e.span \in Nat
    BY DEF Entries
<1>2. Window \in Nat
    BY ConfigAssumption
<1>. QED BY <1>1, <1>2 DEF BufferCovers, StepsWithinWindow

\* The code's recovery from ALERT_ESCALATED cannot fire: with the steps the ingest
\* service feeds, an escalated stream stays escalated for ever.
THEOREM EscalationIsFinal ==
    ASSUME StepsWithinWindow
    PROVE  Spec => EscalatedIsFinal
<1> DEFINE Stays == state = "ALERT_ESCALATED" => state' = "ALERT_ESCALATED"
<1>1. Inv /\ Inv' /\ [Next]_vars => [Stays]_vars
    <2> SUFFICES ASSUME Inv, Inv', Next, state = "ALERT_ESCALATED"
                 PROVE  state' = "ALERT_ESCALATED"
        OBVIOUS
    <2>1. ~BufferCovers(buf', 2 * Window)
        BY NeverTwiceTheWindow DEF Inv, TypeOK, WindowMinimal, FramesFed
    <2>2. ASSUME NEW dt \in Dts, FeedRejected(dt)
          PROVE  state' = "ALERT_ESCALATED"
        BY <2>2 DEF FeedRejected, vars
    <2>3. ASSUME NEW dt \in Dts, NEW score \in Scores, Feed(score, dt)
          PROVE  state' = "ALERT_ESCALATED"
        <3>1. state' = NextState(state, score, buf', IF Ticking(state) THEN timer + dt ELSE timer)
            BY <2>3 DEF Feed, Advance
        <3>. QED BY <3>1, <2>1 DEF NextState, Ticking
    <2>. QED BY <2>2, <2>3 DEF Next
<1>. QED BY <1>1, SpecInv, PTL DEF Spec, EscalatedIsFinal

-----------------------------------------------------------------------------
(* Refinement *)

\* The state machine climbs the ladder of absence and no other: initial states map
\* to initial states, every frame to a step of the ladder or to none.
THEOREM LadderImplemented == Spec => ImplementsLadder
<1>1. Init => Ladder!Init
    BY DEF Init, Ladder!Init
<1>2. Inv /\ [Next]_vars => [Ladder!Next]_(Ladder!ladderVars)
    <2> SUFFICES ASSUME Inv, [Next]_vars
                 PROVE  [Ladder!Next]_(Ladder!ladderVars)
        OBVIOUS
    <2>1. CASE UNCHANGED vars
        BY <2>1 DEF vars, Ladder!ladderVars
    <2>2. ASSUME NEW dt \in Dts, FeedRejected(dt)
          PROVE  UNCHANGED vars
        BY <2>2 DEF FeedRejected
    <2>3. ASSUME NEW dt \in Dts, NEW score \in Scores, Feed(score, dt)
          PROVE  [Ladder!Next]_(Ladder!ladderVars)
        <3> DEFINE t == IF Ticking(state) THEN timer + dt ELSE timer
        <3>1. /\ dt > 0
              /\ state' = NextState(state, score, buf', t)
              /\ timer' = TimerAfter(state', t)
            BY <2>3 DEF Feed, Advance
        <3>2. state \in States /\ timer \in Nat /\ TimerMatchesState
            BY DEF Inv, TypeOK
        <3>3. CASE state = "IDLE"
            BY <3>1, <3>2, <3>3 DEF NextState, TimerAfter, Ticking, TimerMatchesState,
                Ladder!Next, Ladder!Appear, Ladder!ladderVars
        <3>4. CASE state = "ON_DUTY"
            BY <3>1, <3>2, <3>4 DEF NextState, TimerAfter, Ticking, TimerMatchesState,
                Ladder!Next, Ladder!Leave, Ladder!ladderVars
        <3>5. CASE Ticking(state) /\ StronglyPresent(buf')
            BY <3>1, <3>5 DEF NextState, TimerAfter, Ticking,
                Ladder!Next, Ladder!Return
        <3>6. CASE Ticking(state) /\ ~StronglyPresent(buf')
            <4>1. timer' = timer + dt
                BY <3>1, <3>6 DEF TimerAfter, NextState, Ticking
            <4>2. CASE state = "BRIEF_AWAY"
                BY <4>1, <4>2, <3>1, <3>6 DEF NextState, Ticking, Ladder!StayAway, Ladder!Next
            <4>3. CASE state = "LONG_AWAY"
                BY <4>1, <4>3, <3>1, <3>6 DEF NextState, Ticking, Ladder!StayAway, Ladder!Next
            <4>. QED BY <4>2, <4>3, <3>6 DEF Ticking
        <3>7. CASE state = "ALERT_ESCALATED"
            BY <3>1, <3>7 DEF NextState, TimerAfter, Ticking,
                Ladder!Next, Ladder!Return, Ladder!ladderVars
        <3>. QED BY <3>2, <3>3, <3>4, <3>5, <3>6, <3>7 DEF States, Ticking
    <2>. QED BY <2>1, <2>2, <2>3 DEF Next
<1>. QED BY <1>1, <1>2, SpecInv, PTL DEF Spec, ImplementsLadder, Ladder!Spec

-----------------------------------------------------------------------------
(* Induction, for sets of numbers, and the sums that loops add up *)

\* The order of the numbers, as the library's theorems want it.
Before == {p \in Nat \X Nat : p[1] < p[2]}

\* Every set of numbers has a least one.
LEMMA LeastElement ==
    ASSUME NEW S \in SUBSET Nat, S # {}
    PROVE  \E n \in S : \A m \in S : n <= m
<1>1. Before = OpToRel(<, Nat)
    BY DEF Before, OpToRel
<1>2. PICK n \in S : \A m \in S : <<m, n>> \notin Before
    BY <1>1, NatLessThanWellFounded, WFMin
<1>3. \A m \in S : ~(m < n)
    BY <1>2 DEF Before
<1>. QED BY <1>3

\* A set with zero and every successor has every number.
LEMMA Induction ==
    ASSUME NEW S, 0 \in S, \A n \in Nat : n \in S => n + 1 \in S
    PROVE  Nat \subseteq S
<1> SUFFICES ASSUME ~(Nat \subseteq S) PROVE FALSE
    OBVIOUS
<1>1. PICK n \in Nat \ S : \A m \in Nat \ S : n <= m
    BY LeastElement
<1>2. n - 1 \in Nat /\ n - 1 \in S
    BY <1>1
<1>3. n - 1 + 1 \in S
    BY <1>2
<1>. QED BY <1>3

\* A round of the loop.
Round(f, v, n) == IF n = 0 THEN 0 ELSE f[n - 1] + v[Len(v) + 1 - n]

\* The loop's sums exist.
LEMMA LoopsEnd ==
    ASSUME NEW v \in Seq(Nat)
    PROVE  \E f : f = [n \in 0..Len(v) |-> Round(f, v, n)]
<1> DEFINE Runs(f, k) == \A n \in 0..k : f[n] = Round(f, v, n)
           T == {k \in Nat : \E f : Runs(f, k)}
<1>0. Len(v) \in Nat
    OBVIOUS
<1>1. 0 \in T
    <2> DEFINE f == [n \in 0..0 |-> 0]
    <2>1. Runs(f, 0)
        BY DEF Round
    <2>. QED BY <2>1
<1>2. ASSUME NEW k \in Nat, k \in T
      PROVE  k + 1 \in T
    <2>1. PICK f : Runs(f, k)
        BY <1>2
    <2> DEFINE g == [n \in 0..(k + 1) |-> Round(f, v, n)]
    <2>2. \A n \in 0..k : g[n] = f[n]
        <3>1. \A n \in 0..k : n \in 0..(k + 1)
            OBVIOUS
        <3>2. \A n \in 0..(k + 1) : g[n] = Round(f, v, n)
            OBVIOUS
        <3> HIDE DEF g
        <3>. QED BY <2>1, <3>1, <3>2
    <2>3. \A n \in 0..(k + 1) : g[n] = Round(g, v, n)
        <3>1. \A n \in 0..(k + 1) : g[n] = Round(f, v, n)
            OBVIOUS
        <3>2. \A n \in 0..(k + 1) : n = 0 \/ n - 1 \in 0..k
            OBVIOUS
        <3> HIDE DEF g
        <3>. QED BY <2>2, <3>1, <3>2 DEF Round
    <2>4. \E h : Runs(h, k + 1)
        <3> HIDE DEF g
        <3>. QED BY <2>3
    <2>. QED BY <2>4
<1>3. Nat \subseteq T
    <2> HIDE DEF T
    <2>. QED BY <1>1, <1>2, Induction
<1>4. PICK f : Runs(f, Len(v))
    BY <1>0, <1>3
<1> DEFINE g == [n \in 0..Len(v) |-> Round(f, v, n)]
<1>5. \A n \in 0..Len(v) : g[n] = f[n]
    BY <1>4
<1>6. \A n \in 0..Len(v) : n = 0 \/ n - 1 \in 0..Len(v)
    BY <1>0
<1>7. \A n \in 0..Len(v) : Round(f, v, n) = Round(g, v, n)
    <2> HIDE DEF g, Runs
    <2>. QED BY <1>5, <1>6 DEF Round
<1>8. g = [n \in 0..Len(v) |-> Round(f, v, n)]
    OBVIOUS
<1>9. g = [n \in 0..Len(v) |-> Round(g, v, n)]
    <2> HIDE DEF g
    <2>. QED BY <1>7, <1>8
<1>. QED BY <1>9

\* The sum from an index on is the value there and the sum from the next one.
LEMMA AddedSteps ==
    ASSUME NEW v \in Seq(Nat)
    PROVE  /\ Added(v, Len(v) + 1) = 0
           /\ \A i \in 1..Len(v) : Added(v, i) = v[i] + Added(v, i + 1)
           /\ \A i \in 1..(Len(v) + 1) : Added(v, i) \in Nat
<1> DEFINE f == CHOOSE f : f = [n \in 0..Len(v) |-> Round(f, v, n)]
<1>1. f = [n \in 0..Len(v) |-> Round(f, v, n)]
    BY LoopsEnd
<1>2. \A i : Added(v, i) = f[Len(v) + 1 - i]
    BY DEF Added, Round
<1> HIDE DEF f
<1>3. Len(v) \in Nat /\ \A i \in 1..Len(v) : v[i] \in Nat
    OBVIOUS
<1>4. \A n \in 0..Len(v) : f[n] = Round(f, v, n)
    BY <1>1
<1>5. f[0] = 0
    BY <1>3, <1>4 DEF Round
<1>6. \A n \in 1..Len(v) : f[n] = f[n - 1] + v[Len(v) + 1 - n]
    BY <1>3, <1>4 DEF Round
<1> DEFINE T == {k \in Nat : k <= Len(v) => f[k] \in Nat}
<1>7. 0 \in T
    BY <1>5
<1>8. ASSUME NEW k \in Nat, k \in T PROVE k + 1 \in T
    <2> SUFFICES ASSUME k + 1 <= Len(v) PROVE f[k + 1] \in Nat
        OBVIOUS
    <2>1. f[k] \in Nat /\ k + 1 \in 1..Len(v) /\ Len(v) + 1 - (k + 1) \in 1..Len(v)
        BY <1>3, <1>8
    <2>2. f[k + 1] = f[(k + 1) - 1] + v[Len(v) + 1 - (k + 1)]
        BY <1>6, <2>1
    <2>3. v[Len(v) + 1 - (k + 1)] \in Nat
        BY <1>3, <2>1
    <2>. QED BY <2>1, <2>2, <2>3
<1>9. Nat \subseteq T
    <2> HIDE DEF T
    <2>. QED BY <1>7, <1>8, Induction
<1>10. \A k \in 0..Len(v) : f[k] \in Nat
    BY <1>3, <1>9
<1>11. Added(v, Len(v) + 1) = 0
    BY <1>2, <1>3, <1>5
<1>12. ASSUME NEW i \in 1..Len(v) PROVE Added(v, i) = v[i] + Added(v, i + 1)
    <2> DEFINE n == Len(v) + 1 - i
    <2>1. n \in 1..Len(v) /\ n - 1 = Len(v) + 1 - (i + 1) /\ Len(v) + 1 - n = i /\ n - 1 \in 0..Len(v)
        BY <1>3
    <2>2. f[n] = f[n - 1] + v[Len(v) + 1 - n]
        BY <1>6, <2>1
    <2>3. f[n - 1] \in Nat /\ v[i] \in Nat
        BY <1>3, <1>10, <2>1
    <2>. QED BY <1>2, <2>1, <2>2, <2>3
<1>13. ASSUME NEW i \in 1..(Len(v) + 1) PROVE Added(v, i) \in Nat
    <2>1. Len(v) + 1 - i \in 0..Len(v)
        BY <1>3
    <2>. QED BY <1>2, <1>10, <2>1
<1>. QED BY <1>11, <1>12, <1>13

\* A value appended is in every sum.
LEMMA AddedAppend ==
    ASSUME NEW v \in Seq(Nat), NEW x \in Nat
    PROVE  /\ Append(v, x) \in Seq(Nat)
           /\ \A i \in 1..(Len(v) + 1) : Added(Append(v, x), i) = Added(v, i) + x
<1> DEFINE w == Append(v, x)
           N == Len(v)
<1>1. w \in Seq(Nat) /\ Len(w) = N + 1 /\ N \in Nat /\ w[N + 1] = x /\ \A i \in 1..N : w[i] = v[i]
    OBVIOUS
<1>2. /\ Added(w, Len(w) + 1) = 0
      /\ \A i \in 1..Len(w) : Added(w, i) = w[i] + Added(w, i + 1)
    BY <1>1, AddedSteps
<1>3. /\ Added(v, N + 1) = 0
      /\ \A i \in 1..N : Added(v, i) = v[i] + Added(v, i + 1)
      /\ \A i \in 1..(N + 1) : Added(v, i) \in Nat
    BY AddedSteps
<1> HIDE DEF w, N
<1> DEFINE T == {k \in Nat : k <= N => Added(w, N + 1 - k) = Added(v, N + 1 - k) + x}
<1>4. 0 \in T
    <2>1. N + 1 - 0 = N + 1 /\ N + 1 \in 1..Len(w) /\ (N + 1) + 1 = Len(w) + 1
        BY <1>1
    <2>2. Added(w, N + 1) = x + 0
        BY <1>1, <1>2, <2>1
    <2>. QED BY <1>3, <2>1, <2>2
<1>5. ASSUME NEW k \in Nat, k \in T PROVE k + 1 \in T
    <2> SUFFICES ASSUME k + 1 <= N PROVE Added(w, N + 1 - (k + 1)) = Added(v, N + 1 - (k + 1)) + x
        OBVIOUS
    <2> DEFINE i == N + 1 - (k + 1)
    <2>1. i \in 1..N /\ i \in 1..Len(w) /\ i + 1 = N + 1 - k /\ i + 1 \in 1..(N + 1)
        BY <1>1
    <2>2. Added(w, i) = v[i] + Added(w, i + 1) /\ Added(v, i) = v[i] + Added(v, i + 1)
        BY <1>1, <1>2, <1>3, <2>1
    <2>4. v[i] \in Nat /\ Added(v, i + 1) \in Nat
        BY <1>3, <2>1 DEF N
    <2>6. k <= N /\ Added(w, N + 1 - k) = Added(v, N + 1 - k) + x
        BY <1>1, <1>5
    <2> HIDE DEF i
    <2>3. Added(w, i + 1) = Added(v, i + 1) + x
        BY <2>1, <2>6
    <2>5. Added(w, i) = Added(v, i) + x
        BY <2>2, <2>3, <2>4
    <2>. QED BY <2>5 DEF i
<1>6. Nat \subseteq T
    <2> HIDE DEF T
    <2>. QED BY <1>4, <1>5, Induction
<1>7. ASSUME NEW i \in 1..(N + 1) PROVE Added(w, i) = Added(v, i) + x
    <2>1. N + 1 - i \in Nat /\ N + 1 - i <= N /\ N + 1 - (N + 1 - i) = i
        BY <1>1
    <2>2. N + 1 - i \in T
        BY <1>6, <2>1
    <2>. QED BY <2>1, <2>2
<1>. QED BY <1>1, <1>7 DEF w, N

\* The sums of the newest values are those of the whole.
LEMMA AddedSlice ==
    ASSUME NEW v \in Seq(Nat), NEW a \in 1..Len(v), NEW w \in Seq(Nat), Len(w) = Len(v) - a + 1,
           \A i \in 1..Len(w) : w[i] = v[i + a - 1]
    PROVE  \A i \in 1..(Len(w) + 1) : Added(w, i) = Added(v, i + a - 1)
<1> DEFINE N == Len(w)
<1>1. N \in Nat /\ Len(v) \in Nat /\ Len(v) = N + a - 1 /\ a \in Nat
    OBVIOUS
<1>2. /\ Added(w, N + 1) = 0
      /\ \A i \in 1..N : Added(w, i) = w[i] + Added(w, i + 1)
    BY AddedSteps
<1>3. /\ Added(v, Len(v) + 1) = 0
      /\ \A i \in 1..Len(v) : Added(v, i) = v[i] + Added(v, i + 1)
    BY AddedSteps
<1>4. \A i \in 1..N : w[i] = v[i + a - 1]
    OBVIOUS
<1> HIDE DEF N
<1> DEFINE T == {k \in Nat : k <= N => Added(w, N + 1 - k) = Added(v, N + 1 - k + a - 1)}
<1>5. 0 \in T
    <2>1. N + 1 - 0 = N + 1 /\ N + 1 + a - 1 = Len(v) + 1
        BY <1>1
    <2>. QED BY <1>2, <1>3, <2>1
<1>6. ASSUME NEW k \in Nat, k \in T PROVE k + 1 \in T
    <2> SUFFICES ASSUME k + 1 <= N PROVE Added(w, N + 1 - (k + 1)) = Added(v, N + 1 - (k + 1) + a - 1)
        OBVIOUS
    <2> DEFINE i == N + 1 - (k + 1)
               j == i + a - 1
    <2>1. /\ i \in 1..N /\ i + 1 = N + 1 - k /\ j \in 1..Len(v) /\ (i + 1) + a - 1 = j + 1
        BY <1>1
    <2>2. Added(w, i) = w[i] + Added(w, i + 1) /\ Added(v, j) = v[j] + Added(v, j + 1) /\ w[i] = v[j]
        BY <1>2, <1>3, <1>4, <2>1
    <2>6. k <= N /\ Added(w, N + 1 - k) = Added(v, N + 1 - k + a - 1)
        BY <1>1, <1>6
    <2>7. N + 1 - k + a - 1 = j + 1
        BY <1>1
    <2> HIDE DEF i, j
    <2>3. Added(w, i + 1) = Added(v, j + 1)
        BY <2>1, <2>6, <2>7
    <2>4. Added(w, i) = Added(v, j)
        BY <2>2, <2>3
    <2>. QED BY <2>4 DEF i, j
<1>7. Nat \subseteq T
    <2> HIDE DEF T
    <2>. QED BY <1>5, <1>6, Induction
<1>8. ASSUME NEW i \in 1..(N + 1) PROVE Added(w, i) = Added(v, i + a - 1)
    <2>1. N + 1 - i \in Nat /\ N + 1 - i <= N /\ N + 1 - (N + 1 - i) = i
        BY <1>1
    <2>2. N + 1 - i \in T
        BY <1>7, <2>1
    <2>. QED BY <2>1, <2>2
<1>. QED BY <1>8 DEF N

-----------------------------------------------------------------------------
(* The deque and the set that stands for it *)

\* The pairs of the deque.
Frames == [score : Nat, dt : Nat \ {0}]

DtsOf(q) == [j \in DOMAIN q |-> q[j].dt]
MassesOf(q) == [j \in DOMAIN q |-> q[j].score * q[j].dt]

EntryOf(q, i) == [dt |-> q[i].dt, span |-> Cumulative(q, i), mass |-> CumulativeMass(q, i)]
EntriesOf(q) == {EntryOf(q, i) : i \in DOMAIN q}

\* What is summed up is a sequence of numbers.
LEMMA FrameSums ==
    ASSUME NEW q \in Seq(Frames)
    PROVE  /\ DtsOf(q) \in Seq(Nat) /\ Len(DtsOf(q)) = Len(q)
           /\ MassesOf(q) \in Seq(Nat) /\ Len(MassesOf(q)) = Len(q)
           /\ DOMAIN q = 1..Len(q) /\ Len(q) \in Nat
           /\ \A i \in 1..Len(q) :
                 /\ q[i] \in Frames /\ q[i].score \in Nat /\ q[i].dt \in Nat \ {0}
                 /\ q[i].score * q[i].dt \in Nat
                 /\ DtsOf(q)[i] = q[i].dt /\ MassesOf(q)[i] = q[i].score * q[i].dt
<1>1. DOMAIN q = 1..Len(q) /\ Len(q) \in Nat /\ \A i \in 1..Len(q) : q[i] \in Frames
    OBVIOUS
<1>2. \A i \in 1..Len(q) : q[i].score \in Nat /\ q[i].dt \in Nat \ {0}
    BY <1>1 DEF Frames
<1>3. ASSUME NEW m \in Nat, NEW n \in Nat PROVE m * n \in Nat
    OBVIOUS
<1>4. \A i \in 1..Len(q) : q[i].score * q[i].dt \in Nat
    BY <1>2, <1>3
<1>5. DtsOf(q) \in [1..Len(q) -> Nat] /\ MassesOf(q) \in [1..Len(q) -> Nat]
    BY <1>1, <1>2, <1>4 DEF DtsOf, MassesOf
<1>6. ASSUME NEW n \in Nat, NEW f \in [1..n -> Nat] PROVE f \in Seq(Nat) /\ Len(f) = n
    OBVIOUS
<1>. QED BY <1>1, <1>2, <1>4, <1>5, <1>6 DEF DtsOf, MassesOf

\* The sums the loops go through.
LEMMA Sums ==
    ASSUME NEW q \in Seq(Frames)
    PROVE  /\ Cumulative(q, Len(q) + 1) = 0 /\ CumulativeMass(q, Len(q) + 1) = 0
           /\ \A i \in 1..Len(q) :
                 /\ Cumulative(q, i) = q[i].dt + Cumulative(q, i + 1)
                 /\ CumulativeMass(q, i) = q[i].score * q[i].dt + CumulativeMass(q, i + 1)
           /\ \A i \in 1..(Len(q) + 1) : Cumulative(q, i) \in Nat /\ CumulativeMass(q, i) \in Nat
<1>1. \A i : Cumulative(q, i) = Added(DtsOf(q), i) /\ CumulativeMass(q, i) = Added(MassesOf(q), i)
    BY DEF Cumulative, CumulativeMass, DtsOf, MassesOf
<1>2. /\ Added(DtsOf(q), Len(q) + 1) = 0
      /\ \A i \in 1..Len(q) : Added(DtsOf(q), i) = DtsOf(q)[i] + Added(DtsOf(q), i + 1)
      /\ \A i \in 1..(Len(q) + 1) : Added(DtsOf(q), i) \in Nat
    BY FrameSums, AddedSteps
<1>3. /\ Added(MassesOf(q), Len(q) + 1) = 0
      /\ \A i \in 1..Len(q) : Added(MassesOf(q), i) = MassesOf(q)[i] + Added(MassesOf(q), i + 1)
      /\ \A i \in 1..(Len(q) + 1) : Added(MassesOf(q), i) \in Nat
    BY FrameSums, AddedSteps
<1>. QED BY <1>1, <1>2, <1>3, FrameSums

\* Multiplication distributes over addition and keeps the order.
LEMMA Distributes ==
    ASSUME NEW m \in Int, NEW a \in Int, NEW b \in Int
    PROVE  m * (a + b) = m * a + m * b
OBVIOUS

LEMMA ProductsKeepOrder ==
    ASSUME NEW d \in Nat, NEW a \in Int, NEW b \in Int, a <= b
    PROVE  a * d <= b * d
<1>1. (b - a) * d >= 0 /\ (b - a) * d = b * d - a * d
    OBVIOUS
<1>2. a * d \in Int /\ b * d \in Int
    OBVIOUS
<1>. QED BY <1>1, <1>2

\* The sums fall towards the newest end, the masses by no more than the spans times
\* the greatest score.
LEMMA SumsFall ==
    ASSUME NEW q \in Seq(Frames), NEW max \in Nat, \A i \in 1..Len(q) : q[i].score <= max,
           NEW i \in 1..(Len(q) + 1), NEW j \in 1..(Len(q) + 1), i <= j
    PROVE  /\ i < j => Cumulative(q, j) < Cumulative(q, i)
           /\ CumulativeMass(q, i) - CumulativeMass(q, j) <= max * (Cumulative(q, i) - Cumulative(q, j))
<1> DEFINE N == Len(q)
           C(k) == Cumulative(q, k)
           M(k) == CumulativeMass(q, k)
           Falls(k) == (i < k => C(k) < C(i)) /\ M(i) - M(k) <= max * (C(i) - C(k))
           T == {n \in Nat : i + n <= N + 1 => Falls(i + n)}
<1>1. N \in Nat /\ i \in Nat /\ j \in Nat /\ \A k \in 1..(N + 1) : C(k) \in Nat /\ M(k) \in Nat
    BY Sums, FrameSums
<1>2. \A k \in 1..N : /\ C(k) = q[k].dt + C(k + 1) /\ M(k) = q[k].score * q[k].dt + M(k + 1)
                      /\ q[k].dt \in Nat \ {0} /\ q[k].score \in Nat /\ q[k].score <= max
    BY Sums, FrameSums
<1> HIDE DEF N, C, M
<1>3. 0 \in T
    <2>1. C(i) - C(i) = 0 /\ M(i) - M(i) = 0 /\ max * 0 = 0
        BY <1>1 DEF N
    <2>. QED BY <1>1, <2>1
<1>4. ASSUME NEW n \in Nat, n \in T PROVE n + 1 \in T
    <2> SUFFICES ASSUME i + (n + 1) <= N + 1 PROVE Falls(i + (n + 1))
        OBVIOUS
    <2> DEFINE k == i + n
    <2>1. k \in 1..N /\ k + 1 = i + (n + 1) /\ k \in 1..(N + 1) /\ k + 1 \in 1..(N + 1) /\ i <= k
        BY <1>1 DEF N
    <2>2. Falls(k)
        BY <1>4, <2>1
    <2> HIDE DEF k
    <2>3. PICK d, s : d = q[k].dt /\ s = q[k].score
        OBVIOUS
    <2>4. /\ C(k) = d + C(k + 1) /\ M(k) = s * d + M(k + 1)
          /\ d \in Nat \ {0} /\ s \in Nat /\ s <= max
        BY <1>2, <2>1, <2>3
    <2>5. /\ C(i) \in Nat /\ C(k) \in Nat /\ C(k + 1) \in Nat
          /\ M(i) \in Nat /\ M(k) \in Nat /\ M(k + 1) \in Nat
        BY <1>1, <2>1 DEF N
    <2>6. s * d <= max * d
        BY <2>4, ProductsKeepOrder
    <2>7. max * (C(i) - C(k + 1)) = max * (C(i) - C(k)) + max * d
        <3>1. C(i) - C(k + 1) = (C(i) - C(k)) + d /\ C(i) - C(k) \in Int /\ d \in Int
            BY <2>4, <2>5
        <3>2. max * ((C(i) - C(k)) + d) = max * (C(i) - C(k)) + max * d
            BY <3>1, Distributes
        <3>. QED BY <3>1, <3>2
    <2>8. max * (C(i) - C(k)) \in Int /\ max * d \in Int /\ s * d \in Int
        BY <2>4, <2>5
    <2>9. M(i) - M(k + 1) = (M(i) - M(k)) + s * d
        BY <2>4, <2>5, <2>8
    <2>13. (i < k => C(k) < C(i)) /\ M(i) - M(k) <= max * (C(i) - C(k))
        BY <2>2
    <2>10. M(i) - M(k + 1) <= max * (C(i) - C(k + 1))
        <3>1. M(i) - M(k) \in Int
            BY <2>5
        <3>. QED BY <3>1, <2>6, <2>7, <2>8, <2>9, <2>13
    <2>11. C(k + 1) < C(i)
        <3>1. k = i \/ i < k
            BY <1>1, <2>1
        <3>2. C(k + 1) < C(k)
            BY <2>4, <2>5
        <3>3. k = i => C(k) = C(i)
            OBVIOUS
        <3>. QED BY <2>5, <2>13, <3>1, <3>2, <3>3
    <2>12. Falls(k + 1)
        BY <2>10, <2>11
    <2>. QED BY <2>1, <2>12
<1>5. Nat \subseteq T
    <2> HIDE DEF T
    <2>. QED BY <1>3, <1>4, Induction
<1>6. Falls(j)
    <2>1. j - i \in Nat /\ i + (j - i) = j /\ j <= N + 1
        BY <1>1 DEF N
    <2>2. j - i \in T
        BY <1>5, <2>1
    <2>3. Falls(i + (j - i))
        BY <2>1, <2>2
    <2> HIDE DEF Falls
    <2>. QED BY <2>1, <2>3
<1>. QED BY <1>6 DEF C, M

\* A frame appended to the deque is a frame pushed into the set.
LEMMA DequePushed ==
    ASSUME NEW q \in Seq(Frames), NEW score \in Nat, NEW dt \in Nat \ {0}
    PROVE  /\ Append(q, [score |-> score, dt |-> dt]) \in Seq(Frames)
           /\ EntriesOf(Append(q, [score |-> score, dt |-> dt])) = Pushed(EntriesOf(q), score, dt)
           /\ \A i \in 1..(Len(q) + 1) :
                 /\ Cumulative(Append(q, [score |-> score, dt |-> dt]), i) = Cumulative(q, i) + dt
                 /\ CumulativeMass(Append(q, [score |-> score, dt |-> dt]), i)
                       = CumulativeMass(q, i) + score * dt
<1> DEFINE p == [score |-> score, dt |-> dt]
           r == Append(q, p)
           N == Len(q)
<1>1. p \in Frames /\ score * dt \in Nat /\ p.score = score /\ p.dt = dt
    BY DEF Frames
<1>2. /\ r \in Seq(Frames) /\ Len(r) = N + 1 /\ r[N + 1] = p /\ N \in Nat
      /\ \A i \in 1..N : r[i] = q[i]
    BY <1>1
<1> HIDE DEF p, r, N
<1>3. DOMAIN r = 1..(N + 1) /\ DOMAIN q = 1..N
    BY <1>2, FrameSums DEF N
<1>4. DtsOf(r) = Append(DtsOf(q), dt) /\ MassesOf(r) = Append(MassesOf(q), score * dt)
    <2>1. DtsOf(r) = [j \in 1..(N + 1) |-> r[j].dt]
        BY <1>3 DEF DtsOf
    <2>2. MassesOf(r) = [j \in 1..(N + 1) |-> r[j].score * r[j].dt]
        BY <1>3 DEF MassesOf
    <2>3. /\ DtsOf(q) \in Seq(Nat) /\ Len(DtsOf(q)) = N
          /\ MassesOf(q) \in Seq(Nat) /\ Len(MassesOf(q)) = N
          /\ \A j \in 1..N : DtsOf(q)[j] = q[j].dt /\ MassesOf(q)[j] = q[j].score * q[j].dt
        BY FrameSums DEF N
    <2>4. ASSUME NEW v \in Seq(Nat), Len(v) = N, NEW x \in Nat
          PROVE  Append(v, x) = [j \in 1..(N + 1) |-> IF j = N + 1 THEN x ELSE v[j]]
        <3> DEFINE a == Append(v, x)
        <3>1. a \in Seq(Nat) /\ Len(a) = N + 1 /\ a[N + 1] = x /\ \A j \in 1..N : a[j] = v[j]
            BY <2>4
        <3> HIDE DEF a
        <3>2. a = [j \in 1..(N + 1) |-> a[j]]
            BY <3>1
        <3>3. \A j \in 1..(N + 1) : a[j] = IF j = N + 1 THEN x ELSE v[j]
            BY <1>2, <3>1
        <3>. QED BY <3>2, <3>3 DEF a
    <2>5. Append(DtsOf(q), dt) = [j \in 1..(N + 1) |-> IF j = N + 1 THEN dt ELSE DtsOf(q)[j]]
        BY <1>1, <2>3, <2>4
    <2>6. Append(MassesOf(q), score * dt) = [j \in 1..(N + 1) |-> IF j = N + 1 THEN score * dt ELSE MassesOf(q)[j]]
        BY <1>1, <2>3, <2>4
    <2>7. \A j \in 1..(N + 1) : j = N + 1 \/ (j \in 1..N /\ j # N + 1)
        BY <1>2
    <2>8. \A j \in 1..(N + 1) : r[j].dt = IF j = N + 1 THEN dt ELSE DtsOf(q)[j]
        BY <1>1, <1>2, <2>3, <2>7
    <2>9. \A j \in 1..(N + 1) : r[j].score * r[j].dt = IF j = N + 1 THEN score * dt ELSE MassesOf(q)[j]
        BY <1>1, <1>2, <2>3, <2>7
    <2>. QED BY <2>1, <2>2, <2>5, <2>6, <2>8, <2>9
<1>5. \A i \in 1..(N + 1) : /\ Cumulative(r, i) = Cumulative(q, i) + dt
                            /\ CumulativeMass(r, i) = CumulativeMass(q, i) + score * dt
    <2>1. \A i \in 1..(N + 1) : /\ Added(Append(DtsOf(q), dt), i) = Added(DtsOf(q), i) + dt
                                /\ Added(Append(MassesOf(q), score * dt), i) = Added(MassesOf(q), i) + score * dt
        BY <1>1, FrameSums, AddedAppend DEF N
    <2>. QED BY <1>4, <2>1 DEF Cumulative, CumulativeMass, DtsOf, MassesOf
<1>6. EntryOf(r, N + 1) = Entry(score, dt)
    BY <1>1, <1>2, <1>5, Sums DEF EntryOf, Entry, N
<1>7. \A i \in 1..N : EntryOf(r, i) = [dt |-> EntryOf(q, i).dt, span |-> EntryOf(q, i).span + dt,
                                       mass |-> EntryOf(q, i).mass + score * dt]
    BY <1>2, <1>5 DEF EntryOf
<1>8. EntriesOf(r) = {EntryOf(r, i) : i \in 1..N} \union {EntryOf(r, N + 1)}
    <2>1. 1..(N + 1) = (1..N) \union {N + 1}
        BY <1>2
    <2>. QED BY <1>3, <2>1 DEF EntriesOf
<1>9. EntriesOf(r) = Pushed(EntriesOf(q), score, dt)
    BY <1>3, <1>6, <1>7, <1>8 DEF EntriesOf, Pushed
<1>. QED BY <1>2, <1>5, <1>9 DEF r, p, N

\* Where the loop stops: every later slice of the deque is shorter than the window.
LEMMA LoopStops ==
    ASSUME NEW q \in Seq(Frames), q # << >>
    PROVE  /\ TrimIndex(q) \in 1..Len(q)
           /\ TrimIndex(q) = 1 \/ Cumulative(q, TrimIndex(q)) >= Window
           /\ \A i \in 1..Len(q) : TrimIndex(q) < i => Cumulative(q, i) < Window
<1> DEFINE stops == {1} \union {i \in DOMAIN q : Cumulative(q, i) >= Window}
           mirrored == {Len(q) - i : i \in stops}
<1>1. Len(q) \in Nat \ {0} /\ DOMAIN q = 1..Len(q) /\ stops \subseteq 1..Len(q) /\ 1 \in stops
    OBVIOUS
<1>2. mirrored \in SUBSET Nat /\ mirrored # {}
    <2>1. \A i \in stops : Len(q) - i \in Nat
        BY <1>1
    <2> HIDE DEF stops
    <2>. QED BY <1>1, <2>1
<1>3. PICK least \in mirrored : \A m \in mirrored : least <= m
    BY <1>2, LeastElement
<1> HIDE DEF stops
<1>4. PICK top \in stops : least = Len(q) - top
    BY <1>3
<1>5. \A i \in stops : Len(q) - top <= Len(q) - i
    BY <1>3, <1>4
<1>6. \A i \in stops : top >= i
    BY <1>1, <1>5
<1>7. F!Max(stops) \in stops /\ \A i \in stops : F!Max(stops) >= i
    BY <1>6 DEF F!Max
<1>8. TrimIndex(q) = F!Max(stops)
    BY DEF TrimIndex, stops
<1>9. TrimIndex(q) \in stops /\ \A i \in stops : TrimIndex(q) >= i
    BY <1>7, <1>8
<1>10. \A i \in 1..Len(q) : TrimIndex(q) < i => ~(Cumulative(q, i) >= Window)
    BY <1>1, <1>9 DEF stops
<1>11. Window \in Nat /\ \A i \in 1..Len(q) : Cumulative(q, i) \in Nat
    BY ConfigAssumption, Sums, <1>1
<1>12. TrimIndex(q) \in 1..Len(q) /\ (TrimIndex(q) = 1 \/ Cumulative(q, TrimIndex(q)) >= Window)
    BY <1>1, <1>9 DEF stops
<1>. QED BY <1>10, <1>11, <1>12

\* The slice that is kept, and its sums.
LEMMA KeptSlice ==
    ASSUME NEW q \in Seq(Frames), q # << >>, NEW a, a = TrimIndex(q)
    PROVE  /\ LoopTrimmed(q) \in Seq(Frames) /\ Len(LoopTrimmed(q)) = Len(q) - a + 1
           /\ a \in 1..Len(q)
           /\ \A i \in 1..Len(LoopTrimmed(q)) :
                 /\ LoopTrimmed(q)[i] = q[i + a - 1]
                 /\ Cumulative(LoopTrimmed(q), i) = Cumulative(q, i + a - 1)
                 /\ CumulativeMass(LoopTrimmed(q), i) = CumulativeMass(q, i + a - 1)
<1> DEFINE r == LoopTrimmed(q)
           N == Len(q)
<1>1. a \in 1..N /\ N \in Nat
    BY LoopStops
<1>2. r = SubSeq(q, a, N)
    BY DEF LoopTrimmed
<1>3. r \in Seq(Frames) /\ Len(r) = N - a + 1 /\ \A i \in 1..Len(r) : r[i] = q[i + a - 1]
    BY <1>1, <1>2
<1> HIDE DEF r, N
<1>4. \A i \in 1..Len(r) : i + a - 1 \in 1..N
    BY <1>1, <1>3
<1>5. \A i \in 1..(Len(r) + 1) : /\ Added(DtsOf(r), i) = Added(DtsOf(q), i + a - 1)
                                 /\ Added(MassesOf(r), i) = Added(MassesOf(q), i + a - 1)
    <2>1. /\ DtsOf(q) \in Seq(Nat) /\ Len(DtsOf(q)) = N
          /\ MassesOf(q) \in Seq(Nat) /\ Len(MassesOf(q)) = N
          /\ \A j \in 1..N : DtsOf(q)[j] = q[j].dt /\ MassesOf(q)[j] = q[j].score * q[j].dt
        BY FrameSums DEF N
    <2>2. /\ DtsOf(r) \in Seq(Nat) /\ Len(DtsOf(r)) = Len(r)
          /\ MassesOf(r) \in Seq(Nat) /\ Len(MassesOf(r)) = Len(r)
          /\ \A j \in 1..Len(r) : DtsOf(r)[j] = r[j].dt /\ MassesOf(r)[j] = r[j].score * r[j].dt
        BY <1>3, FrameSums
    <2>3. \A i \in 1..Len(r) : DtsOf(r)[i] = DtsOf(q)[i + a - 1] /\ MassesOf(r)[i] = MassesOf(q)[i + a - 1]
        BY <1>3, <1>4, <2>1, <2>2
    <2>6. ASSUME NEW v \in Seq(Nat), Len(v) = N, NEW w \in Seq(Nat), Len(w) = Len(r),
                 \A i \in 1..Len(r) : w[i] = v[i + a - 1]
          PROVE  \A i \in 1..(Len(r) + 1) : Added(w, i) = Added(v, i + a - 1)
        <3>1. a \in 1..Len(v) /\ Len(w) = Len(v) - a + 1 /\ \A i \in 1..Len(w) : w[i] = v[i + a - 1]
            BY <1>1, <1>3, <2>6
        <3>2. \A i \in 1..(Len(w) + 1) : Added(w, i) = Added(v, i + a - 1)
            BY <3>1, AddedSlice
        <3>. QED BY <2>6, <3>2
    <2>4. \A i \in 1..(Len(r) + 1) : Added(DtsOf(r), i) = Added(DtsOf(q), i + a - 1)
        BY <2>1, <2>2, <2>3, <2>6
    <2>5. \A i \in 1..(Len(r) + 1) : Added(MassesOf(r), i) = Added(MassesOf(q), i + a - 1)
        BY <2>1, <2>2, <2>3, <2>6
    <2>. QED BY <2>4, <2>5
<1>6. \A i \in 1..Len(r) : i \in 1..(Len(r) + 1)
    BY <1>1, <1>3
<1>7. \A i \in 1..Len(r) : /\ Cumulative(r, i) = Cumulative(q, i + a - 1)
                           /\ CumulativeMass(r, i) = CumulativeMass(q, i + a - 1)
    BY <1>5, <1>6 DEF Cumulative, CumulativeMass, DtsOf, MassesOf
<1>. QED BY <1>1, <1>3, <1>7 DEF r, N

\* The set keeps the entries of the slice.
LEMMA DequeTrimmed ==
    ASSUME NEW q \in Seq(Frames), q # << >>
    PROVE  Trimmed(EntriesOf(q)) = EntriesOf(LoopTrimmed(q))
<1> DEFINE a == TrimIndex(q)
           r == LoopTrimmed(q)
           N == Len(q)
<1>1. /\ a \in 1..N /\ N \in Nat /\ r \in Seq(Frames) /\ Len(r) = N - a + 1
      /\ \A i \in 1..Len(r) : /\ r[i] = q[i + a - 1]
                              /\ Cumulative(r, i) = Cumulative(q, i + a - 1)
                              /\ CumulativeMass(r, i) = CumulativeMass(q, i + a - 1)
    BY KeptSlice
<1>2. /\ a = 1 \/ Cumulative(q, a) >= Window
      /\ \A i \in 1..N : a < i => Cumulative(q, i) < Window
    BY LoopStops
<1>3. PICK max \in Nat : \A i \in 1..N : q[i].score <= max
    <2> DEFINE T == {n \in Nat : n <= N => \E m \in Nat : \A i \in 1..n : q[i].score <= m}
    <2>0. N \in Nat /\ \A i \in 1..N : q[i].score \in Nat
        BY FrameSums
    <2> HIDE DEF N
    <2>1. 0 \in T
        OBVIOUS
    <2>2. ASSUME NEW n \in Nat, n \in T PROVE n + 1 \in T
        <3> SUFFICES ASSUME n + 1 <= N PROVE \E m \in Nat : \A i \in 1..(n + 1) : q[i].score <= m
            OBVIOUS
        <3>1. PICK m \in Nat : \A i \in 1..n : q[i].score <= m
            BY <2>0, <2>2
        <3>2. \A i \in 1..(n + 1) : i \in 1..n \/ i = n + 1
            OBVIOUS
        <3>3. q[n + 1].score \in Nat /\ \A i \in 1..n : q[i].score \in Nat
            BY <2>0
        <3>4. \A i \in 1..(n + 1) : q[i].score <= m + q[n + 1].score
            BY <3>1, <3>2, <3>3
        <3>5. m + q[n + 1].score \in Nat
            BY <3>3
        <3>. QED BY <3>4, <3>5
    <2>3. Nat \subseteq T
        <3> HIDE DEF T
        <3>. QED BY <2>1, <2>2, Induction
    <2>4. N \in T
        BY <2>0, <2>3
    <2>. QED BY <2>0, <2>4
<1>4. \A i, j \in 1..N : i < j => Cumulative(q, j) < Cumulative(q, i)
    <2>1. \A i \in 1..N : i \in 1..(N + 1)
        BY <1>1
    <2> SUFFICES ASSUME NEW i \in 1..N, NEW j \in 1..N, i < j PROVE Cumulative(q, j) < Cumulative(q, i)
        OBVIOUS
    <2>2. i <= j
        OBVIOUS
    <2>. QED BY <1>3, <2>1, <2>2, SumsFall
<1>5. \A i \in 1..N : Cumulative(q, i) \in Nat
    BY Sums, <1>1
<1>6. DOMAIN q = 1..N /\ DOMAIN r = 1..Len(r)
    BY <1>1, FrameSums
<1>7. Window \in Nat
    BY ConfigAssumption
<1> HIDE DEF a, r, N
<1>8. \A i \in 1..N : EntryOf(q, i) \in Trimmed(EntriesOf(q)) <=> a <= i
    <2>1. \A i \in 1..N : EntryOf(q, i).span = Cumulative(q, i)
        BY DEF EntryOf
    <2> SUFFICES ASSUME NEW i \in 1..N PROVE EntryOf(q, i) \in Trimmed(EntriesOf(q)) <=> a <= i
        OBVIOUS
    <2>2. EntryOf(q, i) \in Trimmed(EntriesOf(q)) <=>
             \A j \in 1..N : Cumulative(q, j) < Cumulative(q, i) => Cumulative(q, j) < Window
        BY <1>6, <2>1 DEF Trimmed, EntriesOf
    <2>3. \A j \in 1..N : Cumulative(q, j) < Cumulative(q, i) => i < j
        <3> SUFFICES ASSUME NEW j \in 1..N, ~(i < j) PROVE ~(Cumulative(q, j) < Cumulative(q, i))
            OBVIOUS
        <3>1. j = i \/ j < i
            BY <1>1
        <3>2. j < i => Cumulative(q, i) < Cumulative(q, j)
            BY <1>4
        <3>3. Cumulative(q, i) \in Nat /\ Cumulative(q, j) \in Nat
            BY <1>5
        <3>. QED BY <3>1, <3>2, <3>3
    <2>4. CASE a <= i
        BY <1>1, <1>2, <2>2, <2>3, <2>4
    <2>5. CASE ~(a <= i)
        <3>1. i < a /\ a # 1
            BY <1>1, <2>5
        <3>2. Cumulative(q, a) >= Window /\ Cumulative(q, a) < Cumulative(q, i)
            BY <1>1, <1>2, <1>4, <3>1
        <3>3. ~(Cumulative(q, a) < Window)
            BY <1>1, <1>5, <1>7, <3>2
        <3>. QED BY <1>1, <2>2, <2>5, <3>2, <3>3
    <2>. QED BY <2>4, <2>5
<1>9. \A i \in 1..Len(r) : /\ EntryOf(r, i) = EntryOf(q, i + a - 1)
                           /\ i + a - 1 \in 1..N /\ a <= i + a - 1
    BY <1>1 DEF EntryOf
<1>10. \A j \in 1..N : a <= j => j - a + 1 \in 1..Len(r) /\ (j - a + 1) + a - 1 = j
    BY <1>1
<1>11. EntriesOf(r) \subseteq Trimmed(EntriesOf(q))
    <2> SUFFICES ASSUME NEW i \in 1..Len(r) PROVE EntryOf(r, i) \in Trimmed(EntriesOf(q))
        BY <1>6 DEF EntriesOf
    <2>1. EntryOf(r, i) = EntryOf(q, i + a - 1) /\ i + a - 1 \in 1..N /\ a <= i + a - 1
        BY <1>9
    <2>. QED BY <1>8, <2>1
<1>12. Trimmed(EntriesOf(q)) \subseteq EntriesOf(r)
    <2> SUFFICES ASSUME NEW e \in Trimmed(EntriesOf(q)) PROVE e \in EntriesOf(r)
        OBVIOUS
    <2>1. PICK j \in 1..N : e = EntryOf(q, j)
        BY <1>6 DEF Trimmed, EntriesOf
    <2>2. a <= j
        BY <1>8, <2>1
    <2>3. j - a + 1 \in 1..Len(r) /\ (j - a + 1) + a - 1 = j
        BY <1>10, <2>2
    <2>4. EntryOf(r, j - a + 1) = EntryOf(q, (j - a + 1) + a - 1)
        BY <1>9, <2>3
    <2>5. EntryOf(r, j - a + 1) = e
        BY <2>1, <2>3, <2>4
    <2>. QED BY <1>6, <2>3, <2>5 DEF EntriesOf
<1>. QED BY <1>11, <1>12 DEF r

\* The deque holds frames that were fed, and the set is made of it.
DequeInv ==
    /\ deque \in Seq(Frames)
    /\ \A i \in 1..Len(deque) : deque[i].score \in Scores /\ deque[i].dt \in Dts
    /\ BufferIsTheDeque

\* What a frame does to the deque.
LEMMA DequeFed ==
    ASSUME DequeInv, NEW score \in Scores, NEW dt \in Dts, MCFeed(score, dt),
           NEW p, p = Append(deque, [score |-> score, dt |-> dt])
    PROVE  /\ DequeInv' /\ score \in Nat /\ dt \in Nat \ {0}
           /\ p \in Seq(Frames) /\ p # << >> /\ Len(p) = Len(deque) + 1
           /\ \A i \in 1..Len(p) : p[i].score \in Scores
           /\ deque' = LoopTrimmed(p) /\ deque'[Len(deque')].dt = dt /\ deque'[Len(deque')].score = score
           /\ \A i \in 1..(Len(deque) + 1) : /\ Cumulative(p, i) = Cumulative(deque, i) + dt
                                            /\ CumulativeMass(p, i) = CumulativeMass(deque, i) + score * dt
<1>1. score \in Nat /\ dt \in Nat \ {0} /\ dt \in Dts
    BY ConfigAssumption DEF MCFeed, Feed
<1>2. deque \in Seq(Frames) /\ buf = EntriesOf(deque)
    BY DEF DequeInv, BufferIsTheDeque, EntriesOf, EntryOf
<1>3. /\ p \in Seq(Frames) /\ EntriesOf(p) = Pushed(EntriesOf(deque), score, dt)
      /\ \A i \in 1..(Len(deque) + 1) : /\ Cumulative(p, i) = Cumulative(deque, i) + dt
                                       /\ CumulativeMass(p, i) = CumulativeMass(deque, i) + score * dt
    <2>1. score \in Nat /\ dt \in Nat \ {0} /\ deque \in Seq(Frames)
        BY <1>1, <1>2
    <2>2. LET r == Append(deque, [score |-> score, dt |-> dt])
          IN  /\ r \in Seq(Frames) /\ EntriesOf(r) = Pushed(EntriesOf(deque), score, dt)
              /\ \A i \in 1..(Len(deque) + 1) : /\ Cumulative(r, i) = Cumulative(deque, i) + dt
                                               /\ CumulativeMass(r, i) = CumulativeMass(deque, i) + score * dt
        BY <2>1, DequePushed
    <2>. QED BY <2>2
<1> DEFINE f == [score |-> score, dt |-> dt]
<1>11. f \in Frames /\ f.score = score /\ f.dt = dt
    BY <1>1 DEF Frames
<1>4. /\ Len(p) = Len(deque) + 1 /\ p # << >> /\ p[Len(deque) + 1] = f /\ Len(deque) \in Nat
      /\ \A i \in 1..Len(deque) : p[i] = deque[i]
    <2> HIDE DEF f
    <2>1. p = Append(deque, f)
        BY DEF f
    <2>. QED BY <1>2, <1>11, <2>1
<1>5. \A i \in 1..Len(p) : p[i].score \in Scores /\ p[i].dt \in Dts
    <2>1. \A i \in 1..Len(p) : i \in 1..Len(deque) \/ i = Len(deque) + 1
        BY <1>4
    <2>. QED BY <1>1, <1>4, <1>11, <2>1 DEF DequeInv
<1>6. deque' = LoopTrimmed(p) /\ buf' = Trimmed(Pushed(buf, score, dt))
    BY DEF MCFeed, Feed
<1>7. buf' = EntriesOf(deque')
    BY <1>2, <1>3, <1>4, <1>6, DequeTrimmed
<1> DEFINE a == TrimIndex(p)
<1>8. /\ deque' \in Seq(Frames) /\ Len(deque') = Len(p) - a + 1 /\ a \in 1..Len(p)
      /\ \A i \in 1..Len(deque') : deque'[i] = p[i + a - 1]
    BY <1>3, <1>4, <1>6, KeptSlice
<1> HIDE DEF a
<1>9. deque'[Len(deque')].dt = dt /\ deque'[Len(deque')].score = score
    <2>1. Len(deque') \in 1..Len(deque') /\ Len(deque') + a - 1 = Len(deque) + 1
        BY <1>4, <1>8
    <2>. QED BY <1>4, <1>8, <1>11, <2>1
<1>10. \A i \in 1..Len(deque') : deque'[i].score \in Scores /\ deque'[i].dt \in Dts
    <2>1. \A i \in 1..Len(deque') : i + a - 1 \in 1..Len(p)
        BY <1>4, <1>8
    <2>. QED BY <1>5, <1>8, <2>1
<1>12. DequeInv'
    BY <1>7, <1>8, <1>10 DEF DequeInv, BufferIsTheDeque, EntriesOf, EntryOf
<1>. QED BY <1>1, <1>3, <1>4, <1>5, <1>6, <1>9, <1>12

LEMMA DequeStepInv == DequeInv /\ [MCNext]_mcVars => DequeInv'
<1> SUFFICES ASSUME DequeInv, [MCNext]_mcVars PROVE DequeInv'
    OBVIOUS
<1>1. CASE UNCHANGED <<buf, deque>>
    BY <1>1 DEF DequeInv, BufferIsTheDeque
<1>2. ASSUME NEW dt \in Dts, NEW score \in Scores, MCFeed(score, dt) PROVE DequeInv'
    BY <1>2, DequeFed
<1>3. ASSUME NEW dt \in Dts, FeedRejected(dt), UNCHANGED <<deque, since, quiet>> PROVE DequeInv'
    BY <1>1, <1>3 DEF FeedRejected, vars
<1>. QED BY <1>1, <1>2, <1>3 DEF MCNext, mcVars

LEMMA DequeInitInv == MCInit => DequeInv
<1> SUFFICES ASSUME MCInit PROVE DequeInv
    OBVIOUS
<1>1. deque = << >> /\ buf = {}
    BY DEF MCInit, Init
<1>2. << >> \in Seq(Frames) /\ Len(<< >>) = 0 /\ DOMAIN << >> = {} /\ 1..0 = {}
    OBVIOUS
<1>. QED BY <1>1, <1>2 DEF DequeInv, BufferIsTheDeque

\* The set of suffix sums is the deque, whatever the window and the steps: what
\* _trim_consensus_buf keeps is what Trimmed keeps, and _consensus_score's sums over
\* it are the oldest entry's (state_machine.py 313-333).
THEOREM BufferStandsForDeque == MCSpec => []BufferIsTheDeque
<1>1. DequeInv => BufferIsTheDeque
    BY DEF DequeInv
<1>. QED BY <1>1, DequeInitInv, DequeStepInv, PTL DEF MCSpec

\* The machine with its history is the machine.
LEMMA HistoryOnly == MCSpec => []Inv
<1>1. MCInit => Init
    BY DEF MCInit
<1>2. [MCNext]_mcVars => [Next]_vars
    BY DEF MCNext, MCFeed, Next, mcVars, vars
<1>. QED BY <1>1, <1>2, SpecInv, PTL DEF MCSpec, Spec

-----------------------------------------------------------------------------
(* The dwell after a recovery.  What the average falls by is bounded by the    *)
(* time fed since: span0 is the span of the buffer at the recovery.            *)

\* The sums over the whole deque.
Span == Cumulative(deque, 1)
Mass == CumulativeMass(deque, 1)

\* The mass the buffer had at the recovery, less what it can have lost since.
DwellInv ==
    /\ since = NotRecovered \/ since \in 0..SinceMax
    /\ since >= 0 =>
          /\ UpperThreshold <= ScoreMax /\ deque # << >>
          /\ since < SinceMax =>
                \E span0 \in Nat : /\ span0 < Window + DtMax
                                   /\ Mass + ScoreMax * (span0 - Span + since) >= UpperThreshold * span0

\* The greatest score and step.
LEMMA Bounds ==
    /\ ScoreMax \in Scores /\ ScoreMax \in Nat /\ \A score \in Scores : score <= ScoreMax
    /\ DtMax \in Dts /\ DtMax \in Int /\ \A dt \in Dts : dt <= DtMax
<1>1. \E max \in Scores : \A score \in Scores : max >= score
    BY BoundsAssumption, ConfigAssumption
<1>2. \E max \in Dts : \A dt \in Dts : max >= dt
    BY BoundsAssumption, ConfigAssumption
<1>3. ScoreMax \in Scores /\ \A score \in Scores : ScoreMax >= score
    BY <1>1 DEF ScoreMax, F!Max
<1>4. DtMax \in Dts /\ \A dt \in Dts : DtMax >= dt
    BY <1>2 DEF DtMax, F!Max
<1>. QED BY <1>3, <1>4, ConfigAssumption

\* The oldest entry is the first of the deque.
LEMMA OldestIsFirst ==
    ASSUME NEW q \in Seq(Frames), q # << >>, \A i \in 1..Len(q) : q[i].score <= ScoreMax
    PROVE  /\ Cumulative(q, 1) \in Nat \ {0} /\ CumulativeMass(q, 1) \in Nat
           /\ CumulativeMass(q, 1) <= ScoreMax * Cumulative(q, 1)
           /\ \A threshold : AverageAtLeast(EntriesOf(q), threshold)
                                 <=> CumulativeMass(q, 1) >= threshold * Cumulative(q, 1)
           /\ BufferFull(EntriesOf(q)) <=> Cumulative(q, 1) >= Window
<1>1. Len(q) \in Nat \ {0} /\ DOMAIN q = 1..Len(q) /\ 1 \in 1..Len(q) /\ 1 \in 1..(Len(q) + 1)
      /\ Len(q) + 1 \in 1..(Len(q) + 1) /\ 1 < Len(q) + 1 /\ 1 <= Len(q) + 1
    BY FrameSums
<1>2. ScoreMax \in Nat
    BY Bounds
<1>3. /\ Cumulative(q, Len(q) + 1) < Cumulative(q, 1)
      /\ CumulativeMass(q, 1) - CumulativeMass(q, Len(q) + 1)
            <= ScoreMax * (Cumulative(q, 1) - Cumulative(q, Len(q) + 1))
    BY <1>1, <1>2, SumsFall
<1>4. /\ Cumulative(q, Len(q) + 1) = 0 /\ CumulativeMass(q, Len(q) + 1) = 0
      /\ \A i \in 1..Len(q) : Cumulative(q, i) \in Nat /\ CumulativeMass(q, i) \in Nat
    BY Sums, <1>1
<1>5. Cumulative(q, 1) \in Nat \ {0} /\ CumulativeMass(q, 1) \in Nat
    BY <1>1, <1>3, <1>4
<1>6. CumulativeMass(q, 1) <= ScoreMax * Cumulative(q, 1)
    <2>1. Cumulative(q, 1) - Cumulative(q, Len(q) + 1) = Cumulative(q, 1)
        BY <1>4, <1>5
    <2>2. CumulativeMass(q, 1) - CumulativeMass(q, Len(q) + 1) = CumulativeMass(q, 1)
        BY <1>4, <1>5
    <2>. QED BY <1>3, <2>1, <2>2
<1>7. ASSUME NEW i \in 1..Len(q), i # 1 PROVE Cumulative(q, i) < Cumulative(q, 1)
    <2>1. i \in 1..(Len(q) + 1) /\ 1 < i /\ 1 <= i
        BY <1>1, <1>7
    <2>. QED BY <1>1, <1>2, <2>1, SumsFall
<1> DEFINE C(i) == Cumulative(q, i)
           M(i) == CumulativeMass(q, i)
<1>8. \A i \in 1..Len(q) : EntryOf(q, i).span = C(i) /\ EntryOf(q, i).mass = M(i)
    BY DEF EntryOf
<1> HIDE DEF C, M
<1>9. \A i \in 1..Len(q) : C(i) \in Nat /\ C(i) <= C(1) /\ (i # 1 => C(i) < C(1))
    BY <1>1, <1>4, <1>5, <1>7 DEF C
<1>10. \A i \in 1..Len(q) : EntryOf(q, i) \in Oldest(EntriesOf(q)) <=> i = 1
    <2> SUFFICES ASSUME NEW i \in 1..Len(q) PROVE EntryOf(q, i) \in Oldest(EntriesOf(q)) <=> i = 1
        OBVIOUS
    <2>1. EntryOf(q, i) \in Oldest(EntriesOf(q)) <=> \A j \in 1..Len(q) : C(j) <= C(i)
        BY <1>1, <1>8 DEF Oldest, EntriesOf
    <2>2. CASE i = 1
        BY <1>9, <2>1, <2>2
    <2>3. CASE i # 1
        <3>1. ~(C(1) <= C(i))
            BY <1>1, <1>9, <2>3
        <3>. QED BY <1>1, <2>1, <2>3, <3>1
    <2>. QED BY <2>2, <2>3
<1>11. Oldest(EntriesOf(q)) = {EntryOf(q, 1)}
    <2>1. Oldest(EntriesOf(q)) \subseteq EntriesOf(q)
        BY DEF Oldest
    <2>2. \A e \in Oldest(EntriesOf(q)) : \E i \in 1..Len(q) : e = EntryOf(q, i)
        BY <1>1, <2>1 DEF EntriesOf
    <2>. QED BY <1>1, <1>10, <2>2
<1>12. \A threshold : AverageAtLeast(EntriesOf(q), threshold) <=> M(1) >= threshold * C(1)
    BY <1>1, <1>8, <1>11 DEF AverageAtLeast
<1>13. BufferFull(EntriesOf(q)) <=> C(1) >= Window
    <2>1. BufferFull(EntriesOf(q)) <=> \E i \in 1..Len(q) : C(i) >= Window
        BY <1>1, <1>8 DEF BufferFull, BufferCovers, EntriesOf
    <2>2. Window \in Nat
        BY ConfigAssumption
    <2>. QED BY <1>1, <1>9, <2>1, <2>2
<1>. QED BY <1>5, <1>6, <1>12, <1>13 DEF C, M

\* A frame takes from the bound no more than it adds to the time.
LEMMA BoundKept ==
    ASSUME NEW m \in Int, NEW c \in Int, NEW g \in Int, NEW s0 \in Int, NEW x \in Int, NEW u \in Int,
           NEW sd \in Int, NEW d \in Int, NEW m1 \in Int, NEW c1 \in Int,
           m + x * (s0 - c + g) >= u * s0, sd >= 0,
           (m + sd) - m1 <= x * ((c + d) - c1)
    PROVE  m1 + x * (s0 - c1 + (g + d)) >= u * s0
<1>1. x * (s0 - c1 + (g + d)) = x * (s0 - c + g) + x * ((c + d) - c1)
    <2>1. s0 - c1 + (g + d) = (s0 - c + g) + ((c + d) - c1)
        OBVIOUS
    <2>2. \A a, b \in Int : x * (a + b) = x * a + x * b
        OBVIOUS
    <2>3. s0 - c + g \in Int /\ (c + d) - c1 \in Int
        OBVIOUS
    <2>. QED BY <2>1, <2>2, <2>3
<1> DEFINE p == x * (s0 - c + g)
           r == x * ((c + d) - c1)
           y == u * s0
<1>2. p \in Int /\ r \in Int /\ y \in Int
    OBVIOUS
<1>3. m + p >= y /\ (m + sd) - m1 <= r
    OBVIOUS
<1> HIDE DEF p, r, y
<1>4. m1 + (p + r) >= y
    BY <1>2, <1>3
<1>. QED BY <1>1, <1>4 DEF p, r, y

\* To fall under the lower threshold the average needs the time the bound leaves it.
LEMMA BoundLeft ==
    ASSUME NEW m1 \in Int, NEW c1 \in Int, NEW s0 \in Int, NEW x \in Int, NEW u \in Int,
           NEW l \in Int, NEW w \in Int, NEW d \in Int, NEW t \in Int,
           m1 + x * (s0 - c1 + t) >= u * s0, m1 < l * c1,
           c1 >= w, s0 <= w + d, x >= u, u > l
    PROVE  t * x > (u - l) * w - (x - u) * d
<1>1. x * (s0 - c1 + t) = x * s0 - x * c1 + t * x
    OBVIOUS
<1>2. (x - l) * c1 >= (x - l) * w
    <2>1. (x - l) * (c1 - w) >= 0 /\ (x - l) * (c1 - w) = (x - l) * c1 - (x - l) * w
        OBVIOUS
    <2>. QED BY <2>1
<1>3. (x - u) * s0 <= (x - u) * (w + d)
    <2>1. (x - u) * ((w + d) - s0) >= 0 /\ (x - u) * ((w + d) - s0) = (x - u) * (w + d) - (x - u) * s0
        OBVIOUS
    <2>. QED BY <2>1
<1>4. (x - l) * c1 = x * c1 - l * c1 /\ (x - l) * w = x * w - l * w
    OBVIOUS
<1>5. (x - u) * s0 = x * s0 - u * s0 /\ (x - u) * (w + d) = x * w - u * w + (x - u) * d
    OBVIOUS
<1>6. (u - l) * w = u * w - l * w
    OBVIOUS
<1>7. /\ x * s0 \in Int /\ x * c1 \in Int /\ t * x \in Int /\ l * c1 \in Int /\ u * s0 \in Int
      /\ x * w \in Int /\ l * w \in Int /\ u * w \in Int /\ (x - u) * d \in Int
    OBVIOUS
<1> DEFINE xs == x * s0
           xc == x * c1
           tx == t * x
           lc == l * c1
           us == u * s0
           xw == x * w
           lw == l * w
           uw == u * w
           e == (x - u) * d
<1>8. /\ m1 + (xs - xc + tx) >= us /\ m1 < lc
      /\ xc - lc >= xw - lw /\ xs - us <= xw - uw + e
    BY <1>1, <1>2, <1>3, <1>4, <1>5
<1>9. xs \in Int /\ xc \in Int /\ tx \in Int /\ lc \in Int /\ us \in Int /\ xw \in Int /\ lw \in Int /\ uw \in Int /\ e \in Int
    BY <1>7
<1> HIDE DEF xs, xc, tx, lc, us, xw, lw, uw, e
<1>10. tx > (uw - lw) - e
    BY <1>8, <1>9
<1>. QED BY <1>6, <1>10 DEF tx, uw, lw, e

LEMMA Products ==
    ASSUME NEW a \in Int, NEW b \in Int, a > 0, b > 0
    PROVE  a * b > 0
OBVIOUS

\* The trimmed deque after a frame, against the deque before.
LEMMA FrameMoves ==
    ASSUME DequeInv, Inv', NEW score \in Scores, NEW dt \in Dts, MCFeed(score, dt)
    PROVE  /\ deque' # << >> /\ dt \in Nat \ {0} /\ score \in Nat
           /\ deque'[Len(deque')].dt = dt /\ deque'[Len(deque')].score = score
           /\ Span' \in Nat \ {0} /\ Mass' \in Nat /\ Mass' <= ScoreMax * Span'
           /\ Span' < Window + DtMax
           /\ \A threshold : AverageAtLeast(buf', threshold) <=> Mass' >= threshold * Span'
           /\ BufferFull(buf') <=> Span' >= Window
           /\ deque # << >> =>
                 /\ Span \in Nat /\ Mass \in Nat
                 /\ (Mass + score * dt) - Mass' <= ScoreMax * ((Span + dt) - Span')
<1> DEFINE p == Append(deque, [score |-> score, dt |-> dt])
           a == TrimIndex(p)
<1>1. /\ DequeInv' /\ score \in Nat /\ dt \in Nat \ {0}
      /\ p \in Seq(Frames) /\ p # << >> /\ Len(p) = Len(deque) + 1
      /\ \A i \in 1..Len(p) : p[i].score \in Scores
      /\ deque' = LoopTrimmed(p) /\ deque'[Len(deque')].dt = dt /\ deque'[Len(deque')].score = score
      /\ \A i \in 1..(Len(deque) + 1) : /\ Cumulative(p, i) = Cumulative(deque, i) + dt
                                       /\ CumulativeMass(p, i) = CumulativeMass(deque, i) + score * dt
    BY DequeFed
<1> HIDE DEF p
<1>2. /\ deque' \in Seq(Frames) /\ Len(deque') = Len(p) - a + 1 /\ a \in 1..Len(p)
      /\ \A i \in 1..Len(deque') : /\ Cumulative(deque', i) = Cumulative(p, i + a - 1)
                                   /\ CumulativeMass(deque', i) = CumulativeMass(p, i + a - 1)
    BY <1>1, KeptSlice
<1> HIDE DEF a
<1>3. Len(p) \in Nat /\ Len(deque') >= 1 /\ deque' # << >> /\ 1 \in 1..Len(deque') /\ 1 + a - 1 = a
    BY <1>1, <1>2
<1>4. Span' = Cumulative(deque', 1) /\ Mass' = CumulativeMass(deque', 1)
    BY DEF Span, Mass, Cumulative, CumulativeMass, Added
<1>5. Span' = Cumulative(p, a) /\ Mass' = CumulativeMass(p, a)
    BY <1>2, <1>3, <1>4
<1>6. \A i \in 1..Len(deque') : deque'[i].score \in Scores /\ deque'[i].dt \in Dts
    BY <1>1 DEF DequeInv
<1>7. \A i \in 1..Len(deque') : deque'[i].score <= ScoreMax
    BY <1>6, Bounds
<1>8. buf' = EntriesOf(deque')
    BY <1>1 DEF DequeInv, BufferIsTheDeque, EntriesOf, EntryOf, Cumulative, CumulativeMass, Added
<1>9. /\ Span' \in Nat \ {0} /\ Mass' \in Nat /\ Mass' <= ScoreMax * Span'
      /\ \A threshold : AverageAtLeast(buf', threshold) <=> Mass' >= threshold * Span'
      /\ BufferFull(buf') <=> Span' >= Window
    BY <1>2, <1>3, <1>4, <1>7, <1>8, OldestIsFirst
<1>10. Span' < Window + DtMax
    <2>1. EntryOf(deque', 1) \in buf'
        BY <1>2, <1>3, <1>8, FrameSums DEF EntriesOf
    <2>2. EntryOf(deque', 1).span - EntryOf(deque', 1).dt < Window
        BY <2>1 DEF Inv, WindowMinimal
    <2>3. EntryOf(deque', 1).span = Span' /\ EntryOf(deque', 1).dt = deque'[1].dt
        BY <1>4 DEF EntryOf
    <2>4. deque'[1].dt \in Nat /\ deque'[1].dt <= DtMax
        BY <1>2, <1>3, <1>6, FrameSums, Bounds
    <2>5. Window \in Nat /\ DtMax \in Int
        BY ConfigAssumption, Bounds
    <2>. QED BY <1>9, <2>2, <2>3, <2>4, <2>5
<1>11. ASSUME deque # << >>
       PROVE  /\ Span \in Nat /\ Mass \in Nat
              /\ (Mass + score * dt) - Mass' <= ScoreMax * ((Span + dt) - Span')
    <2>1. deque \in Seq(Frames) /\ 1 \in 1..(Len(deque) + 1)
        BY FrameSums DEF DequeInv
    <2>2. Span \in Nat /\ Mass \in Nat
        BY <2>1, Sums DEF Span, Mass
    <2>3. Cumulative(p, 1) = Span + dt /\ CumulativeMass(p, 1) = Mass + score * dt
        BY <1>1, <2>1 DEF Span, Mass
    <2>4. \A i \in 1..Len(p) : p[i].score <= ScoreMax
        BY <1>1, Bounds
    <2>5. 1 \in 1..(Len(p) + 1) /\ a \in 1..(Len(p) + 1) /\ 1 <= a
        BY <1>2, <1>3
    <2>6. CumulativeMass(p, 1) - CumulativeMass(p, a) <= ScoreMax * (Cumulative(p, 1) - Cumulative(p, a))
        BY <1>1, <2>4, <2>5, Bounds, SumsFall
    <2>. QED BY <1>5, <2>2, <2>3, <2>6
<1>. QED BY <1>1, <1>3, <1>9, <1>10, <1>11

\* Time is counted on from a recovery only.
LEMMA SinceMoves ==
    ASSUME DwellInv, NEW score \in Scores, NEW dt \in Nat \ {0}, MCFeed(score, dt), state' \in States
    PROVE  \/ since' = NotRecovered
           \/ since' = 0 /\ state' = "ON_DUTY" /\ Ticking(state)
           \/ since >= 0 /\ since' = SinceMax
           \/ since >= 0 /\ since' = since + dt /\ since' \in 0..SinceMax
<1>1. since' = SinceAfter(dt)
    BY DEF MCFeed
<1>2. since = NotRecovered \/ since \in 0..SinceMax
    BY DEF DwellInv
<1>3. SinceMax \in Nat
    BY BoundsAssumption
<1>4. CASE state' # "ON_DUTY"
    BY <1>1, <1>4 DEF SinceAfter, Ticking
<1>5. CASE state' = "ON_DUTY" /\ Ticking(state)
    BY <1>1, <1>5 DEF SinceAfter, Ticking
<1>6. CASE state' = "ON_DUTY" /\ ~Ticking(state) /\ state = "ON_DUTY" /\ since >= 0
    <2>1. since' = F!Min({since + dt, SinceMax})
        BY <1>1, <1>6 DEF SinceAfter, Ticking
    <2>2. since \in 0..SinceMax
        BY <1>2, <1>6 DEF NotRecovered
    <2>3. \E x \in {since + dt, SinceMax} : \A y \in {since + dt, SinceMax} : y >= x
        BY <1>3, <2>2
    <2>4. since' \in {since + dt, SinceMax} /\ \A y \in {since + dt, SinceMax} : y >= since'
        BY <2>1, <2>3 DEF F!Min
    <2>. QED BY <1>3, <1>6, <2>2, <2>4
<1>7. CASE state' = "ON_DUTY" /\ ~Ticking(state) /\ ~(state = "ON_DUTY" /\ since >= 0)
    BY <1>1, <1>7 DEF SinceAfter, Ticking
<1>. QED BY <1>4, <1>5, <1>6, <1>7

\* A recovery has a full buffer at the upper threshold.
LEMMA RecoveryIsStrong ==
    ASSUME NEW score, NEW dt, Feed(score, dt), Ticking(state), state' = "ON_DUTY"
    PROVE  StronglyPresent(buf')
<1>1. state' = NextState(state, score, buf', timer + dt)
    BY DEF Feed, Advance
<1>. QED BY <1>1 DEF NextState, Ticking

LEMMA DwellStepInv ==
    DequeInv /\ Inv' /\ DwellInv /\ [MCNext]_mcVars => DwellInv'
<1> SUFFICES ASSUME DequeInv, Inv', DwellInv, [MCNext]_mcVars PROVE DwellInv'
    OBVIOUS
<1>1. CASE UNCHANGED <<deque, since>>
    <2>1. Span' = Span
        BY <1>1 DEF Span, Cumulative, Added
    <2>2. Mass' = Mass
        BY <1>1 DEF Mass, CumulativeMass, Added
    <2>3. ScoreMax' = ScoreMax /\ DtMax' = DtMax
        BY DEF ScoreMax, DtMax, F!Max
    <2>. QED BY <1>1, <2>1, <2>2, <2>3 DEF DwellInv
<1>2. ASSUME NEW dt \in Dts, NEW score \in Scores, MCFeed(score, dt) PROVE DwellInv'
    <2>1. /\ deque' # << >> /\ dt \in Nat \ {0} /\ score \in Nat
          /\ Span' \in Nat \ {0} /\ Mass' \in Nat /\ Mass' <= ScoreMax * Span'
          /\ Span' < Window + DtMax
          /\ \A threshold : AverageAtLeast(buf', threshold) <=> Mass' >= threshold * Span'
          /\ BufferFull(buf') <=> Span' >= Window
          /\ deque # << >> =>
                /\ Span \in Nat /\ Mass \in Nat
                /\ (Mass + score * dt) - Mass' <= ScoreMax * ((Span + dt) - Span')
        BY <1>2, FrameMoves
    <2>2. ScoreMax \in Nat /\ UpperThreshold \in Nat /\ SinceMax \in Nat /\ DtMax \in Int /\ Window \in Nat
        BY Bounds, ConfigAssumption, BoundsAssumption
    <2> DEFINE Bound(span, mass, n) ==
                   \E span0 \in Nat : /\ span0 < Window + DtMax
                                      /\ mass + ScoreMax * (span0 - span + n) >= UpperThreshold * span0
    <2>3. CASE since' = NotRecovered
        BY <2>3 DEF DwellInv, NotRecovered
    <2>4. CASE since' = 0 /\ state' = "ON_DUTY" /\ Ticking(state)
        <3>1. StronglyPresent(buf')
            BY <1>2, <2>4, RecoveryIsStrong DEF MCFeed
        <3>2. Mass' >= UpperThreshold * Span'
            BY <2>1, <3>1 DEF StronglyPresent
        <3>3. UpperThreshold <= ScoreMax
            <4> SUFFICES ASSUME ScoreMax < UpperThreshold PROVE FALSE
                BY <2>2
            <4>1. (UpperThreshold - ScoreMax) * Span' > 0
                <5>1. UpperThreshold - ScoreMax \in Int /\ UpperThreshold - ScoreMax > 0 /\ Span' \in Int /\ Span' > 0
                    BY <2>1, <2>2
                <5>. QED BY <5>1, Products
            <4>2. (UpperThreshold - ScoreMax) * Span' = UpperThreshold * Span' - ScoreMax * Span'
                BY <2>1, <2>2
            <4>3. UpperThreshold * Span' \in Int /\ ScoreMax * Span' \in Int
                BY <2>1, <2>2
            <4>. QED BY <2>1, <3>2, <4>1, <4>2, <4>3
        <3>4. Mass' + ScoreMax * (Span' - Span' + 0) = Mass'
            <4>1. \A n \in Int : n - n + 0 = 0 /\ n + 0 = n /\ n * 0 = 0
                OBVIOUS
            <4>2. Span' \in Int /\ Mass' \in Int /\ ScoreMax \in Int
                BY <2>1, <2>2
            <4>. QED BY <4>1, <4>2
        <3>5. Bound(Span', Mass', 0)
            BY <2>1, <3>2, <3>4
        <3>6. since' \in 0..SinceMax
            BY <2>2, <2>4
        <3>. QED BY <2>1, <2>4, <3>3, <3>5, <3>6 DEF DwellInv
    <2>5. CASE since >= 0 /\ since' = SinceMax
        <3>1. UpperThreshold <= ScoreMax /\ SinceMax \in 0..SinceMax /\ ~(SinceMax < SinceMax)
            BY <2>2, <2>5 DEF DwellInv
        <3>. QED BY <2>1, <2>5, <3>1 DEF DwellInv
    <2>6. CASE since >= 0 /\ since' = since + dt /\ since' \in 0..SinceMax /\ since' < SinceMax
        <3>1. since \in 0..SinceMax /\ since < SinceMax
            BY <2>1, <2>2, <2>6 DEF DwellInv, NotRecovered
        <3>2. UpperThreshold <= ScoreMax /\ deque # << >> /\ Bound(Span, Mass, since)
            BY <2>6, <3>1 DEF DwellInv
        <3>3. PICK span0 \in Nat : /\ span0 < Window + DtMax
                                   /\ Mass + ScoreMax * (span0 - Span + since) >= UpperThreshold * span0
            BY <3>2
        <3>4. score * dt \in Int /\ score * dt >= 0
            BY <2>1
        <3>5. /\ Span \in Int /\ Mass \in Int /\ since \in Int /\ span0 \in Int /\ ScoreMax \in Int
              /\ UpperThreshold \in Int /\ dt \in Int /\ Mass' \in Int /\ Span' \in Int
              /\ (Mass + score * dt) - Mass' <= ScoreMax * ((Span + dt) - Span')
            BY <2>1, <2>2, <3>1, <3>2
        <3>6. Mass' + ScoreMax * (span0 - Span' + (since + dt)) >= UpperThreshold * span0
            BY <3>3, <3>4, <3>5, BoundKept
        <3>7. Bound(Span', Mass', since + dt)
            BY <3>3, <3>6
        <3>. QED BY <2>1, <2>6, <3>2, <3>7 DEF DwellInv
    <2>7. state' \in States
        BY DEF Inv, TypeOK
    <2>8. \/ since' = NotRecovered
          \/ since' = 0 /\ state' = "ON_DUTY" /\ Ticking(state)
          \/ since >= 0 /\ since' = SinceMax
          \/ since >= 0 /\ since' = since + dt /\ since' \in 0..SinceMax
        BY <1>2, <2>1, <2>7, SinceMoves
    <2>9. since' \in 0..SinceMax => since' < SinceMax \/ since' = SinceMax
        BY <2>2
    <2>. QED BY <2>3, <2>4, <2>5, <2>6, <2>8, <2>9
<1>3. ASSUME NEW dt \in Dts, FeedRejected(dt), UNCHANGED <<deque, since, quiet>> PROVE DwellInv'
    BY <1>1, <1>3
<1>. QED BY <1>1, <1>2, <1>3 DEF MCNext, mcVars

\* What HysteresisDwell says of a step.
Dwelt ==
    state = "ON_DUTY" /\ state' = "BRIEF_AWAY" /\ since >= 0 =>
        (since + deque'[Len(deque')].dt) * ScoreMax >
            (UpperThreshold - LowerThreshold) * Window
                - (ScoreMax - UpperThreshold) * DtMax

LEMMA DwellStep ==
    DequeInv /\ Inv' /\ DwellInv /\ [MCNext]_mcVars => [Dwelt]_mcVars
<1> SUFFICES ASSUME DequeInv, Inv', DwellInv, MCNext, state = "ON_DUTY", state' = "BRIEF_AWAY", since >= 0
             PROVE  (since + deque'[Len(deque')].dt) * ScoreMax >
                        (UpperThreshold - LowerThreshold) * Window - (ScoreMax - UpperThreshold) * DtMax
    BY DEF Dwelt
<1>1. PICK dt \in Dts, score \in Scores : MCFeed(score, dt)
    BY DEF MCNext, FeedRejected, vars
<1>2. /\ deque'[Len(deque')].dt = dt /\ dt \in Nat \ {0} /\ score \in Nat
      /\ Span' \in Nat \ {0} /\ Mass' \in Nat
      /\ \A threshold : AverageAtLeast(buf', threshold) <=> Mass' >= threshold * Span'
      /\ BufferFull(buf') <=> Span' >= Window
      /\ deque # << >> =>
            /\ Span \in Nat /\ Mass \in Nat
            /\ (Mass + score * dt) - Mass' <= ScoreMax * ((Span + dt) - Span')
    BY <1>1, FrameMoves
<1>3. /\ ScoreMax \in Nat /\ UpperThreshold \in Nat /\ LowerThreshold \in Nat /\ LowerThreshold < UpperThreshold
      /\ SinceMax \in Nat /\ SinceMax >= Window /\ DtMax \in Int /\ Window \in Nat \ {0} /\ 0 < LowerThreshold
      /\ DtMax >= dt
    BY Bounds, ConfigAssumption, BoundsAssumption
<1>4. Absent(buf')
    <2>1. state' = NextState(state, score, buf', timer)
        BY <1>1 DEF MCFeed, Feed, Advance, Ticking
    <2>. QED BY <2>1 DEF NextState, Ticking
<1>5. Mass' < LowerThreshold * Span' /\ Span' >= Window
    <2>1. ~(Mass' >= LowerThreshold * Span') /\ Span' >= Window
        BY <1>2, <1>4 DEF Absent
    <2>2. LowerThreshold * Span' \in Int
        BY <1>2, <1>3
    <2>. QED BY <1>2, <2>1, <2>2
<1>6. since \in 0..SinceMax /\ UpperThreshold <= ScoreMax /\ deque # << >>
    BY DEF DwellInv, NotRecovered
<1> DEFINE t == since + dt
<1>7. t * ScoreMax > (UpperThreshold - LowerThreshold) * Window - (ScoreMax - UpperThreshold) * DtMax
    <2>1. CASE since < SinceMax
        <3>1. PICK span0 \in Nat : /\ span0 < Window + DtMax
                                   /\ Mass + ScoreMax * (span0 - Span + since) >= UpperThreshold * span0
            BY <2>1 DEF DwellInv
        <3>2. score * dt \in Int /\ score * dt >= 0
            BY <1>2
        <3>3. /\ Span \in Int /\ Mass \in Int /\ since \in Int /\ span0 \in Int /\ ScoreMax \in Int
              /\ UpperThreshold \in Int /\ dt \in Int /\ Mass' \in Int /\ Span' \in Int
              /\ (Mass + score * dt) - Mass' <= ScoreMax * ((Span + dt) - Span')
            BY <1>2, <1>3, <1>6
        <3>4. Mass' + ScoreMax * (span0 - Span' + t) >= UpperThreshold * span0
            BY <3>1, <3>2, <3>3, BoundKept
        <3>5. /\ t \in Int /\ LowerThreshold \in Int /\ Window \in Int /\ DtMax \in Int
              /\ span0 <= Window + DtMax /\ ScoreMax >= UpperThreshold /\ UpperThreshold > LowerThreshold
            BY <1>3, <1>6, <3>1, <3>3
        <3> HIDE DEF t
        <3>. QED BY <1>5, <3>3, <3>4, <3>5, BoundLeft
    <2>2. CASE since = SinceMax
        <3>1. t >= Window /\ t \in Nat /\ t > Window
            BY <1>2, <1>3, <2>2
        <3> HIDE DEF t
        <3>2. (t - Window) * ScoreMax > 0
            <4>1. t - Window \in Int /\ t - Window > 0 /\ ScoreMax \in Int /\ ScoreMax > 0
                BY <1>3, <1>6, <3>1
            <4>. QED BY <4>1, Products
        <3>3. (t - Window) * ScoreMax = t * ScoreMax - Window * ScoreMax
            BY <1>3, <3>1
        <3>4. (ScoreMax - UpperThreshold) * Window >= 0
            BY <1>3, <1>6
        <3>5. LowerThreshold * Window >= 0
            BY <1>3
        <3>6. (ScoreMax - UpperThreshold) * DtMax >= 0
            BY <1>2, <1>3, <1>6
        <3>7. (UpperThreshold - LowerThreshold) * Window
                 = Window * ScoreMax - (ScoreMax - UpperThreshold) * Window - LowerThreshold * Window
            BY <1>3
        <3>8. /\ t * ScoreMax \in Int /\ Window * ScoreMax \in Int /\ LowerThreshold * Window \in Int
              /\ (ScoreMax - UpperThreshold) * Window \in Int /\ (ScoreMax - UpperThreshold) * DtMax \in Int
            BY <1>3, <3>1
        <3> DEFINE p == t * ScoreMax
                   r == Window * ScoreMax
                   l == LowerThreshold * Window
                   x == (ScoreMax - UpperThreshold) * Window
                   y == (ScoreMax - UpperThreshold) * DtMax
                   z == (UpperThreshold - LowerThreshold) * Window
        <3>9. /\ p - r > 0 /\ x >= 0 /\ l >= 0 /\ y >= 0 /\ z = r - x - l
              /\ p \in Int /\ r \in Int /\ l \in Int /\ x \in Int /\ y \in Int
            BY <3>2, <3>3, <3>4, <3>5, <3>6, <3>7, <3>8
        <3> HIDE DEF p, r, l, x, y, z
        <3>10. p > z - y
            BY <3>9
        <3>. QED BY <3>10 DEF p, z, y
    <2>3. since < SinceMax \/ since = SinceMax
        BY <1>3, <1>6
    <2>. QED BY <2>1, <2>2, <2>3
<1>. QED BY <1>2, <1>7

\* A recovered stream stays on duty for the time its thresholds dictate, whatever the
\* scores and steps: the buffer was full at the upper threshold when it recovered, and
\* every frame since can have lowered the average by a bounded amount only
\* (_next_state, state_machine.py 336-382).
THEOREM RecoveryLasts == MCSpec => HysteresisDwell
<1>1. MCInit => DwellInv
    BY DEF MCInit, DwellInv, NotRecovered
<1>2. [Dwelt]_mcVars => [state = "ON_DUTY" /\ state' = "BRIEF_AWAY" /\ since >= 0 =>
        (since + deque'[Len(deque')].dt) * ScoreMax >
            (UpperThreshold - LowerThreshold) * Window
                - (ScoreMax - UpperThreshold) * DtMax]_mcVars
    BY DEF Dwelt
<1>3. MCSpec => [](DequeInv /\ Inv)
    BY DequeInitInv, DequeStepInv, HistoryOnly, PTL DEF MCSpec
<1>4. MCSpec => []DwellInv
    BY <1>1, <1>3, DwellStepInv, PTL DEF MCSpec
<1>. QED BY <1>2, <1>3, <1>4, DwellStep, PTL DEF MCSpec, HysteresisDwell

-----------------------------------------------------------------------------
(* Answers in time.  While the scores stay under the lower threshold, the      *)
(* frames of the buffer that are as recent are what the average has fallen by, *)
(* and the timer has missed of that time no more than a window and a frame.    *)

\* The longest absence in LONG_AWAY.
LongLimit == BriefToLong + F!Max({LongToEscalate, DtMax})

QuietInv ==
    /\ quiet \in Nat
    /\ \A e \in buf : e.span - e.dt < quiet => e.mass < LowerThreshold * e.span
    /\ quiet > 0 => \E e \in buf : e.span >= quiet \/ e.span >= Window
    /\ quiet >= Window => state # "ON_DUTY"
    /\ quiet >= Window /\ Ticking(state) => timer + Window + DtMax > quiet
    /\ state = "LONG_AWAY" => timer < LongLimit
    /\ state # "IDLE" => DtMax > 0

\* The later of the two limits is one of them.
LEMMA TwoLimits ==
    /\ F!Max({LongToEscalate, DtMax}) \in Int
    /\ F!Max({LongToEscalate, DtMax}) >= LongToEscalate /\ F!Max({LongToEscalate, DtMax}) >= DtMax
<1>1. LongToEscalate \in Nat /\ DtMax \in Int
    BY ConfigAssumption, Bounds
<1>2. \E x \in {LongToEscalate, DtMax} : \A y \in {LongToEscalate, DtMax} : x >= y
    BY <1>1
<1>3. /\ F!Max({LongToEscalate, DtMax}) \in {LongToEscalate, DtMax}
      /\ \A y \in {LongToEscalate, DtMax} : F!Max({LongToEscalate, DtMax}) >= y
    BY <1>2 DEF F!Max
<1>. QED BY <1>1, <1>3

\* Time is counted while the scores stay low, at most as it passes.
LEMMA QuietMoves ==
    ASSUME QuietInv, NEW score \in Nat, NEW dt \in Dts, dt > 0, MCFeed(score, dt)
    PROVE  /\ quiet' \in Nat /\ quiet' <= quiet + dt
           /\ score >= LowerThreshold => quiet' = 0
<1>1. quiet' = QuietAfter(score, dt)
    BY DEF MCFeed
<1>2. quiet \in Nat /\ dt \in Nat /\ LowerThreshold \in Nat
    BY ConfigAssumption DEF QuietInv
<1>3. CASE score >= LowerThreshold
    BY <1>1, <1>2, <1>3 DEF QuietAfter
<1>4. CASE score < LowerThreshold
    <2>1. LatestEscalation \in Nat
        BY ConfigAssumption, Bounds, TwoLimits, <1>2 DEF LatestEscalation, LatestLong
    <2>2. \E x \in {quiet + dt, LatestEscalation} : \A y \in {quiet + dt, LatestEscalation} : y >= x
        BY <1>2, <2>1
    <2>3. quiet' = F!Min({quiet + dt, LatestEscalation})
        BY <1>1, <1>4 DEF QuietAfter
    <2>4. quiet' \in {quiet + dt, LatestEscalation} /\ \A y \in {quiet + dt, LatestEscalation} : y >= quiet'
        BY <2>2, <2>3 DEF F!Min
    <2>. QED BY <1>2, <1>4, <2>1, <2>4
<1>. QED BY <1>2, <1>3, <1>4

\* An entry that a low score ages stays under the lower threshold.
LEMMA LowStaysLow ==
    ASSUME NEW l \in Int, NEW m \in Int, NEW c \in Int, NEW s \in Int, NEW d \in Int,
           m < l * c, s < l, d > 0
    PROVE  m + s * d < l * (c + d)
<1>1. l * (c + d) = l * c + l * d
    BY Distributes
<1>2. (l - s) * d > 0 /\ (l - s) * d = l * d - s * d
    <2>1. l - s \in Int /\ l - s > 0
        OBVIOUS
    <2>2. (l - s) * d > 0
        BY <2>1, Products
    <2>. QED BY <2>2
<1>3. l * c \in Int /\ l * d \in Int /\ s * d \in Int
    OBVIOUS
<1>. QED BY <1>1, <1>2, <1>3

\* What the trimming leaves reaches as far back, or over the window.
LEMMA TrimmedReaches ==
    ASSUME NEW b \in SUBSET Entries, NEW n \in Nat, NEW e \in b, e.span >= n \/ e.span >= Window
    PROVE  \E f \in Trimmed(b) : f.span >= n \/ f.span >= Window
<1>1. \A f \in b : f.span \in Nat
    BY DEF Entries
<1>2. Window \in Nat
    BY ConfigAssumption
<1> DEFINE S == {f.span : f \in {g \in b : g.span >= Window}}
<1>3. CASE S = {}
    <2>1. \A f \in b : f.span < Window
        BY <1>1, <1>2, <1>3
    <2>2. e \in Trimmed(b)
        BY <2>1 DEF Trimmed
    <2>. QED BY <2>2
<1>4. CASE S # {}
    <2>1. S \in SUBSET Nat
        BY <1>1
    <2>2. PICK n0 \in S : \A m \in S : n0 <= m
        <3> HIDE DEF S
        <3>. QED BY <1>4, <2>1, LeastElement
    <2>3. PICK f \in b : f.span >= Window /\ f.span = n0
        BY <2>2
    <2>4. \A g \in b : g.span < f.span => g.span < Window
        <3> SUFFICES ASSUME NEW g \in b, g.span < f.span, g.span >= Window PROVE FALSE
            BY <1>1, <1>2
        <3>1. g.span \in S
            OBVIOUS
        <3>2. f.span <= g.span
            <4> HIDE DEF S
            <4>. QED BY <2>2, <2>3, <3>1
        <3>. QED BY <1>1, <3>2
    <2>5. f \in Trimmed(b)
        BY <2>4 DEF Trimmed
    <2>. QED BY <2>3, <2>5
<1>. QED BY <1>3, <1>4

\* A low score leaves the recent entries under the lower threshold, and the buffer
\* reaching over them.
LEMMA QuietFrame ==
    ASSUME QuietInv, buf \in SUBSET Entries, NEW score \in Nat, NEW dt \in Dts, dt > 0,
           MCFeed(score, dt), score < LowerThreshold
    PROVE  /\ \A e \in buf' : e.span - e.dt < quiet' => e.mass < LowerThreshold * e.span
           /\ quiet' > 0 => \E e \in buf' : e.span >= quiet' \/ e.span >= Window
<1>1. dt \in Nat \ {0} /\ LowerThreshold \in Int /\ Window \in Nat /\ quiet \in Nat
    BY ConfigAssumption DEF QuietInv
<1>2. quiet' \in Nat /\ quiet' <= quiet + dt
    BY QuietMoves
<1>3. buf' = Trimmed(Pushed(buf, score, dt))
    BY DEF MCFeed, Feed
<1>4. Pushed(buf, score, dt) \in SUBSET Entries
    BY <1>1, PushedType
<1>5. \A e \in buf : e.dt \in Int /\ e.span \in Int /\ e.mass \in Int
    BY DEF Entries
<1> DEFINE Aged(e) == [dt |-> e.dt, span |-> e.span + dt, mass |-> e.mass + score * dt]
           Low(e) == e.mass < LowerThreshold * e.span
<1>6. Low(Entry(score, dt))
    <2>1. 0 < LowerThreshold * 0 \/ 0 = LowerThreshold * 0
        BY <1>1
    <2>2. (LowerThreshold - score) * dt > 0 /\ (LowerThreshold - score) * dt = LowerThreshold * dt - score * dt
        <3>1. LowerThreshold - score \in Int /\ LowerThreshold - score > 0 /\ dt \in Int
            BY <1>1
        <3>2. (LowerThreshold - score) * dt > 0
            BY <1>1, <3>1, Products
        <3>. QED BY <1>1, <3>2
    <2>3. LowerThreshold * dt \in Int /\ score * dt \in Int
        BY <1>1
    <2>. QED BY <2>2, <2>3 DEF Entry
<1>7. ASSUME NEW e \in buf, Aged(e).span - Aged(e).dt < quiet' PROVE Low(Aged(e))
    <2>1. e.span - e.dt < quiet
        BY <1>1, <1>2, <1>5, <1>7
    <2>2. e.mass < LowerThreshold * e.span
        BY <2>1 DEF QuietInv
    <2>3. e.mass + score * dt < LowerThreshold * (e.span + dt)
        BY <1>1, <1>5, <2>2, LowStaysLow
    <2>. QED BY <2>3
<1>8. \A e \in Pushed(buf, score, dt) : e.span - e.dt < quiet' => Low(e)
    <2> HIDE DEF Low
    <2>. QED BY <1>6, <1>7 DEF Pushed
<1>9. quiet' > 0 => \E e \in Pushed(buf, score, dt) : e.span >= quiet' \/ e.span >= Window
    <2> SUFFICES ASSUME quiet' > 0
                 PROVE  \E e \in Pushed(buf, score, dt) : e.span >= quiet' \/ e.span >= Window
        OBVIOUS
    <2>1. CASE quiet = 0
        <3>1. Entry(score, dt) \in Pushed(buf, score, dt) /\ Entry(score, dt).span = dt
            BY DEF Pushed, Entry
        <3>. QED BY <1>1, <1>2, <2>1, <3>1
    <2>2. CASE quiet > 0
        <3>1. PICK e \in buf : e.span >= quiet \/ e.span >= Window
            BY <2>2 DEF QuietInv
        <3>2. Aged(e) \in Pushed(buf, score, dt) /\ Aged(e).span = e.span + dt
            BY DEF Pushed
        <3>. QED BY <1>1, <1>2, <1>5, <3>1, <3>2
    <2>. QED BY <1>1, <2>1, <2>2
<1>10. \A e \in buf' : e \in Pushed(buf, score, dt)
    BY <1>3 DEF Trimmed
<1>11. quiet' > 0 => \E e \in buf' : e.span >= quiet' \/ e.span >= Window
    <2> SUFFICES ASSUME quiet' > 0 PROVE \E e \in buf' : e.span >= quiet' \/ e.span >= Window
        OBVIOUS
    <2>1. PICK e \in Pushed(buf, score, dt) : e.span >= quiet' \/ e.span >= Window
        BY <1>9
    <2>. QED BY <1>2, <1>3, <1>4, <2>1, TrimmedReaches
<1>. QED BY <1>8, <1>10, <1>11

\* Once the scores have been low for a window, the buffer says absent and not present.
LEMMA QuietIsAbsent ==
    ASSUME NEW b \in SUBSET Entries, NEW q \in Nat, q >= Window,
           \A e \in b : e.span - e.dt < Window,
           \A e \in b : e.span - e.dt < q => e.mass < LowerThreshold * e.span,
           \E e \in b : e.span >= q \/ e.span >= Window
    PROVE  Absent(b) /\ ~AverageAtLeast(b, UpperThreshold)
<1>1. /\ Window \in Nat /\ LowerThreshold \in Nat /\ UpperThreshold \in Nat
      /\ LowerThreshold <= UpperThreshold
    BY ConfigAssumption
<1>2. \A e \in b : e.dt \in Nat /\ e.span \in Nat /\ e.mass \in Nat
    BY DEF Entries
<1>3. \A e \in b : e.mass < LowerThreshold * e.span
    BY <1>1, <1>2
<1>4. ASSUME NEW e \in b PROVE ~(e.mass >= LowerThreshold * e.span) /\ ~(e.mass >= UpperThreshold * e.span)
    <2>1. LowerThreshold * e.span <= UpperThreshold * e.span
        BY <1>1, <1>2, ProductsKeepOrder
    <2>2. LowerThreshold * e.span \in Int /\ UpperThreshold * e.span \in Int /\ e.mass \in Int
        BY <1>1, <1>2
    <2>. QED BY <1>3, <2>1, <2>2
<1>5. ~AverageAtLeast(b, LowerThreshold) /\ ~AverageAtLeast(b, UpperThreshold)
    BY <1>4 DEF AverageAtLeast, Oldest
<1>6. BufferFull(b)
    BY <1>1, <1>2 DEF BufferFull, BufferCovers
<1>. QED BY <1>5, <1>6 DEF Absent

LEMMA QuietFrameInv ==
    ASSUME QuietInv, Inv, Inv', NEW score \in Scores, NEW dt \in Dts, MCFeed(score, dt)
    PROVE  QuietInv'
<1> DEFINE t == IF Ticking(state) THEN timer + dt ELSE timer
<1>1. /\ dt \in Nat \ {0} /\ score \in Nat /\ DtMax \in Int /\ DtMax >= dt
      /\ Window \in Nat \ {0} /\ BriefToLong \in Nat /\ LongToEscalate \in Nat
      /\ LowerThreshold < UpperThreshold /\ LowerThreshold \in Nat /\ UpperThreshold \in Nat
    BY ConfigAssumption, Bounds DEF MCFeed, Feed
<1>2. /\ state' = NextState(state, score, buf', t)
      /\ timer' = IF state' = "ON_DUTY" /\ state' # state THEN 0 ELSE t
    BY DEF MCFeed, Feed, Advance, TimerAfter
<1>3. /\ state \in States /\ state' \in States /\ timer \in Nat /\ timer' \in Nat
      /\ buf \in SUBSET Entries /\ buf' \in SUBSET Entries
      /\ TimerMatchesState /\ \A e \in buf' : e.span - e.dt < Window
    BY DEF Inv, TypeOK, WindowMinimal
<1>4. quiet \in Nat /\ quiet' \in Nat /\ quiet' <= quiet + dt /\ (score >= LowerThreshold => quiet' = 0)
    BY <1>1, QuietMoves DEF QuietInv
<1>5. DtMax' = DtMax /\ LongLimit' = LongLimit
    BY DEF DtMax, LongLimit, F!Max
<1>6. /\ \A e \in buf' : e.span - e.dt < quiet' => e.mass < LowerThreshold * e.span
      /\ quiet' > 0 => \E e \in buf' : e.span >= quiet' \/ e.span >= Window
    <2>1. CASE score < LowerThreshold
        BY <1>1, <1>3, <2>1, QuietFrame
    <2>2. CASE score >= LowerThreshold
        <3>1. quiet' = 0
            BY <1>4, <2>2
        <3>2. \A e \in buf' : ~(e.span - e.dt < 0)
            <4>1. \A e \in buf' : e.span \in Nat /\ e.dt \in Nat
                BY <1>3 DEF Entries
            <4>2. \A e \in buf' : e.span = e.dt \/ \E f \in buf' : f.span = e.span - e.dt
                BY DEF Inv, Chained
            <4>. QED BY <4>1, <4>2
        <3>. QED BY <3>1, <3>2
    <2>. QED BY <1>1, <2>1, <2>2
<1>7. ASSUME quiet' >= Window
      PROVE  Absent(buf') /\ ~AverageAtLeast(buf', UpperThreshold) /\ score < UpperThreshold
    <2>1. quiet' > 0 /\ ~(score >= LowerThreshold)
        BY <1>1, <1>4, <1>7
    <2>. QED BY <1>1, <1>3, <1>4, <1>6, <1>7, <2>1, QuietIsAbsent
<1>8. quiet' >= Window => state' # "ON_DUTY"
    <2> SUFFICES ASSUME quiet' >= Window PROVE state' # "ON_DUTY"
        OBVIOUS
    <2>1. /\ Absent(buf') /\ ~AverageAtLeast(buf', UpperThreshold) /\ ~StronglyPresent(buf')
          /\ ~(score >= UpperThreshold)
        BY <1>1, <1>7 DEF StronglyPresent
    <2>. QED BY <1>2, <1>3, <2>1 DEF NextState, Ticking, States
<1>9. quiet' >= Window /\ Ticking(state') => timer' + Window + DtMax > quiet'
    <2>1. ASSUME quiet < Window PROVE timer' + Window + DtMax > quiet'
        <3>1. PICK n, m : n = quiet' /\ m = timer'
            OBVIOUS
        <3>2. n < Window + DtMax /\ m >= 0
            BY <1>1, <1>3, <1>4, <2>1, <3>1
        <3>3. m \in Int /\ n \in Int /\ Window \in Int /\ DtMax \in Int
            BY <1>1, <1>3, <1>4, <3>1
        <3>4. m + Window + DtMax > n
            BY <3>2, <3>3
        <3>. QED BY <3>1, <3>4
    <2>2. ASSUME quiet >= Window, quiet' >= Window, Ticking(state') PROVE timer' + Window + DtMax > quiet'
        <3>1. state # "ON_DUTY"
            BY <2>2 DEF QuietInv
        <3>2. Ticking(state)
            BY <1>2, <1>3, <2>2, <3>1 DEF NextState, Ticking, States
        <3>3. timer + Window + DtMax > quiet
            BY <2>2, <3>2 DEF QuietInv
        <3>4. timer' = timer + dt
            BY <1>2, <2>2, <3>2 DEF Ticking
        <3>. QED BY <1>1, <1>3, <1>4, <3>3, <3>4
    <2>. QED BY <1>1, <1>4, <2>1, <2>2
<1>10. state' = "LONG_AWAY" => timer' < LongLimit
    <2> SUFFICES ASSUME state' = "LONG_AWAY" PROVE timer' < LongLimit
        OBVIOUS
    <2>1. /\ LongLimit \in Int /\ LongLimit >= BriefToLong + LongToEscalate
          /\ LongLimit >= BriefToLong + DtMax
        BY <1>1, TwoLimits DEF LongLimit
    <2>2. timer' = t
        BY <1>2
    <2>3. CASE state = "BRIEF_AWAY"
        BY <1>1, <1>3, <2>1, <2>2, <2>3 DEF TimerMatchesState, Ticking
    <2>4. CASE state = "LONG_AWAY"
        <3>1. ~(t >= BriefToLong + LongToEscalate)
            BY <1>2, <2>4 DEF NextState, Ticking
        <3>2. t \in Nat
            BY <1>1, <1>3
        <3>. QED BY <1>1, <2>1, <2>2, <3>1, <3>2
    <2>5. state = "BRIEF_AWAY" \/ state = "LONG_AWAY"
        BY <1>2, <1>3 DEF NextState, Ticking, States
    <2>. QED BY <2>3, <2>4, <2>5
<1>11. DtMax > 0
    BY <1>1
<1>. QED BY <1>4, <1>5, <1>6, <1>8, <1>9, <1>10, <1>11 DEF QuietInv

LEMMA QuietStepInv ==
    QuietInv /\ Inv /\ Inv' /\ [MCNext]_mcVars => QuietInv'
<1> SUFFICES ASSUME QuietInv, Inv, Inv', [MCNext]_mcVars PROVE QuietInv'
    OBVIOUS
<1>1. CASE UNCHANGED <<state, timer, buf, quiet>>
    <2>1. DtMax' = DtMax /\ LongLimit' = LongLimit
        BY DEF DtMax, LongLimit, F!Max
    <2>. QED BY <1>1, <2>1 DEF QuietInv
<1>2. ASSUME NEW dt \in Dts, NEW score \in Scores, MCFeed(score, dt) PROVE QuietInv'
    BY <1>2, QuietFrameInv
<1>3. ASSUME NEW dt \in Dts, FeedRejected(dt), UNCHANGED <<deque, since, quiet>> PROVE QuietInv'
    BY <1>1, <1>3 DEF FeedRejected, vars
<1>. QED BY <1>1, <1>2, <1>3 DEF MCNext, mcVars

\* Where no score is under a threshold, no sum of the deque is.
LEMMA SumsReach ==
    ASSUME NEW q \in Seq(Frames), NEW min \in Nat, \A i \in 1..Len(q) : q[i].score >= min
    PROVE  CumulativeMass(q, 1) >= min * Cumulative(q, 1)
<1> DEFINE N == Len(q)
           C(k) == Cumulative(q, k)
           M(k) == CumulativeMass(q, k)
           T == {n \in Nat : n <= N => M(N + 1 - n) >= min * C(N + 1 - n)}
<1>1. /\ N \in Nat /\ \A k \in 1..(N + 1) : C(k) \in Nat /\ M(k) \in Nat
      /\ C(N + 1) = 0 /\ M(N + 1) = 0
    BY Sums, FrameSums
<1>2. \A k \in 1..N : /\ C(k) = q[k].dt + C(k + 1) /\ M(k) = q[k].score * q[k].dt + M(k + 1)
                      /\ q[k].dt \in Nat \ {0} /\ q[k].score \in Nat /\ q[k].score >= min
    BY Sums, FrameSums
<1> HIDE DEF N, C, M
<1>3. 0 \in T
    <2>1. N + 1 - 0 = N + 1 /\ min * 0 = 0
        BY <1>1
    <2>. QED BY <1>1, <2>1
<1>4. ASSUME NEW n \in Nat, n \in T PROVE n + 1 \in T
    <2> SUFFICES ASSUME n + 1 <= N PROVE M(N + 1 - (n + 1)) >= min * C(N + 1 - (n + 1))
        OBVIOUS
    <2> DEFINE k == N + 1 - (n + 1)
    <2>1. k \in 1..N /\ k \in 1..(N + 1) /\ k + 1 \in 1..(N + 1) /\ k + 1 = N + 1 - n /\ n <= N
        BY <1>1
    <2>2. M(k + 1) >= min * C(k + 1)
        BY <1>4, <2>1
    <2> HIDE DEF k
    <2>3. PICK d, s : d = q[k].dt /\ s = q[k].score
        OBVIOUS
    <2>4. /\ C(k) = d + C(k + 1) /\ M(k) = s * d + M(k + 1)
          /\ d \in Nat \ {0} /\ s \in Nat /\ min <= s
        BY <1>2, <2>1, <2>3
    <2>5. C(k + 1) \in Nat /\ M(k + 1) \in Nat
        BY <1>1, <2>1
    <2>6. min * d <= s * d
        BY <2>4, ProductsKeepOrder
    <2>7. min * C(k) = min * d + min * C(k + 1)
        BY <2>4, <2>5, Distributes
    <2>8. min * d \in Int /\ s * d \in Int /\ min * C(k + 1) \in Int
        BY <2>4, <2>5
    <2> DEFINE x == min * d
               y == s * d
               z == min * C(k + 1)
               m == M(k + 1)
    <2>9. x \in Int /\ y \in Int /\ z \in Int /\ m \in Int /\ x <= y /\ m >= z
        BY <2>2, <2>5, <2>6, <2>8
    <2>10. M(k) = y + m /\ min * C(k) = x + z
        BY <2>4, <2>7
    <2> HIDE DEF x, y, z, m
    <2>11. M(k) >= min * C(k)
        BY <2>9, <2>10
    <2>. QED BY <2>11 DEF k
<1>5. Nat \subseteq T
    <2> HIDE DEF T
    <2>. QED BY <1>3, <1>4, Induction
<1>6. N + 1 - N = 1
    BY <1>1
<1>7. M(1) >= min * C(1)
    <2>1. N \in T
        <3> HIDE DEF T
        <3>. QED BY <1>1, <1>5
    <2>. QED BY <1>1, <1>6, <2>1
<1>. QED BY <1>7 DEF C, M

\* What a window of strong frames finds.
StrongIsAnswered ==
    StrongWindow => state \in {"ON_DUTY", "ALERT_ESCALATED"} /\ event.to # "ALERT_ESCALATED"

LEMMA StrongFrame ==
    ASSUME DequeInv, Inv, Inv', NEW score \in Scores, NEW dt \in Dts, MCFeed(score, dt), StrongWindow'
    PROVE  /\ state' \in {"ON_DUTY", "ALERT_ESCALATED"}
           /\ state' = "ALERT_ESCALATED" => state = "ALERT_ESCALATED"
<1>1. /\ deque' # << >> /\ deque'[Len(deque')].score = score /\ dt \in Nat \ {0} /\ score \in Nat
      /\ Span' \in Nat \ {0} /\ Mass' \in Nat
      /\ \A threshold : AverageAtLeast(buf', threshold) <=> Mass' >= threshold * Span'
      /\ BufferFull(buf') <=> Span' >= Window
    BY FrameMoves
<1>2. LowerThreshold \in Nat /\ UpperThreshold \in Nat /\ LowerThreshold <= UpperThreshold
    BY ConfigAssumption
<1>3. deque' \in Seq(Frames)
    BY DequeFed DEF DequeInv
<1>4. DOMAIN deque' = 1..Len(deque') /\ Len(deque') \in 1..Len(deque')
    BY <1>1, <1>3
<1>5. Cumulative(deque', 1) >= Window /\ \A i \in 1..Len(deque') : deque'[i].score >= UpperThreshold
    BY <1>4 DEF StrongWindow, Cumulative, Added
<1>6. Span' = Cumulative(deque', 1) /\ Mass' = CumulativeMass(deque', 1)
    BY DEF Span, Mass, Cumulative, CumulativeMass, Added
<1>7. Mass' >= UpperThreshold * Span'
    BY <1>2, <1>3, <1>5, <1>6, SumsReach
<1>8. Mass' >= LowerThreshold * Span'
    <2>1. PICK c : c = Span'
        OBVIOUS
    <2>2. c \in Nat /\ LowerThreshold \in Int /\ UpperThreshold \in Int
        BY <1>1, <1>2, <2>1
    <2>3. LowerThreshold * c <= UpperThreshold * c
        BY <1>2, <2>2, ProductsKeepOrder
    <2>4. LowerThreshold * c \in Int /\ UpperThreshold * c \in Int
        BY <2>2
    <2>. QED BY <1>1, <1>7, <2>1, <2>3, <2>4
<1>9. StronglyPresent(buf') /\ ~Absent(buf') /\ score >= UpperThreshold
    BY <1>1, <1>4, <1>5, <1>6, <1>7, <1>8 DEF StronglyPresent, Absent
<1>10. PICK t : state' = NextState(state, score, buf', t)
    BY DEF MCFeed, Feed, Advance
<1>11. state \in States
    BY DEF Inv, TypeOK
<1>. QED BY <1>9, <1>10, <1>11 DEF NextState, Ticking, States

LEMMA StrongStepInv ==
    StrongIsAnswered /\ DequeInv /\ Inv /\ Inv' /\ [MCNext]_mcVars => StrongIsAnswered'
<1> SUFFICES ASSUME StrongIsAnswered, DequeInv, Inv, Inv', [MCNext]_mcVars PROVE StrongIsAnswered'
    OBVIOUS
<1>1. CASE UNCHANGED <<state, event, deque>>
    BY <1>1 DEF StrongIsAnswered, StrongWindow, Cumulative, Added
<1>2. ASSUME NEW dt \in Dts, NEW score \in Scores, MCFeed(score, dt), StrongWindow'
      PROVE  state' \in {"ON_DUTY", "ALERT_ESCALATED"} /\ event'.to # "ALERT_ESCALATED"
    <2>1. /\ state' \in {"ON_DUTY", "ALERT_ESCALATED"}
          /\ state' = "ALERT_ESCALATED" => state = "ALERT_ESCALATED"
        BY <1>2, StrongFrame
    <2>2. event'.to = IF state' = state THEN "none" ELSE state'
        BY <1>2 DEF MCFeed, Feed, Advance, NoEvent
    <2>. QED BY <2>1, <2>2
<1>3. ASSUME NEW dt \in Dts, FeedRejected(dt), UNCHANGED <<deque, since, quiet>> PROVE StrongIsAnswered'
    BY <1>1, <1>3 DEF FeedRejected, vars
<1>. QED BY <1>1, <1>2, <1>3 DEF MCNext, mcVars, StrongIsAnswered

\* For every window, threshold and limit: a stream whose scores stay low is off duty
\* within the window, and escalated within a window, both limits and two frames; one
\* whose scores stay high is on duty within the window, unless it had escalated before
\* (feed, _trim_consensus_buf and _next_state, state_machine.py 246-382).
THEOREM AnsweredInTime == MCSpec => []AnswersInTime
<1>1. MCInit => QuietInv /\ StrongIsAnswered
    <2> SUFFICES ASSUME MCInit PROVE QuietInv /\ StrongIsAnswered
        OBVIOUS
    <2>1. state = "IDLE" /\ buf = {} /\ quiet = 0 /\ deque = << >>
        BY DEF MCInit, Init
    <2>2. Window \in Nat \ {0}
        BY ConfigAssumption
    <2>3. Cumulative(<< >>, 1) = 0
        <3>1. << >> \in Seq(Frames) /\ Len(<< >>) + 1 = 1
            OBVIOUS
        <3>. QED BY <3>1, Sums
    <2>4. ~StrongWindow
        BY <2>1, <2>2, <2>3 DEF StrongWindow
    <2>. QED BY <2>1, <2>2, <2>4 DEF QuietInv, StrongIsAnswered, Ticking
<1>2. QuietInv /\ Inv /\ StrongIsAnswered => AnswersInTime
    <2> SUFFICES ASSUME QuietInv, Inv, StrongIsAnswered PROVE AnswersInTime
        OBVIOUS
    <2>1. /\ Window \in Nat \ {0} /\ BriefToLong \in Nat /\ DtMax \in Int /\ timer \in Nat /\ quiet \in Nat
          /\ F!Max({LongToEscalate, DtMax}) \in Int /\ F!Max({LongToEscalate, DtMax}) >= DtMax
        BY ConfigAssumption, Bounds, TwoLimits DEF Inv, TypeOK, QuietInv
    <2>2. ASSUME quiet >= LatestLong PROVE state # "BRIEF_AWAY"
        <3> SUFFICES ASSUME state = "BRIEF_AWAY" PROVE FALSE
            OBVIOUS
        <3>1. DtMax > 0 /\ timer < BriefToLong
            BY DEF QuietInv, Inv, TimerMatchesState
        <3>2. quiet >= Window
            BY <2>1, <2>2, <3>1 DEF LatestLong
        <3>3. timer + Window + DtMax > quiet
            BY <3>2 DEF QuietInv, Ticking
        <3>. QED BY <2>1, <2>2, <3>1, <3>3 DEF LatestLong
    <2>3. ASSUME quiet >= LatestEscalation PROVE state # "LONG_AWAY"
        <3> SUFFICES ASSUME state = "LONG_AWAY" PROVE FALSE
            OBVIOUS
        <3>1. DtMax > 0 /\ timer < LongLimit
            BY DEF QuietInv
        <3>2. quiet >= Window
            BY <2>1, <2>3, <3>1 DEF LatestEscalation, LatestLong
        <3>3. timer + Window + DtMax > quiet
            BY <3>2 DEF QuietInv, Ticking
        <3>. QED BY <2>1, <2>3, <3>1, <3>3 DEF LatestEscalation, LatestLong, LongLimit
    <2>. QED BY <2>2, <2>3 DEF AnswersInTime, QuietInv, StrongIsAnswered
<1>3. MCSpec => [](DequeInv /\ Inv)
    BY DequeInitInv, DequeStepInv, HistoryOnly, PTL DEF MCSpec
<1>. QED BY <1>1, <1>2, <1>3, QuietStepInv, StrongStepInv, PTL DEF MCSpec

=============================================================================
