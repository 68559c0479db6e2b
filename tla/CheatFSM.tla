------------------------------ MODULE CheatFSM ------------------------------
(***************************************************************************)
(* The anti-cheat detectors of one live stream                             *)
(* (algo/liveguard_algo/fusion/cheat_fsm.py, class CheatFSM).              *)
(*                                                                         *)
(* Five patterns, five independent detectors run by every feed.  STATIC_   *)
(* PHOTO, IMPERSONATION and LOOPED_VIDEO accumulate time while their own   *)
(* condition holds and start over on the first frame where it does not.    *)
(* DEEPFAKE_AVATAR and SCREEN_REPLAY fire on one frame over a threshold    *)
(* and clear under 0.8 of it.  A frame is what the detectors see of it:    *)
(* the accumulating patterns whose condition it meets, and where each of   *)
(* the two scores lies.                                                    *)
(***************************************************************************)
EXTENDS Integers

CONSTANTS PatternWindow,   \* time an accumulating pattern must last
          Dts,             \* the dt values feed may be called with
          TimerCap         \* timers are not counted beyond this (bound)

Windowed == {"STATIC_PHOTO", "IMPERSONATION", "LOOPED_VIDEO"}
Immediate == {"DEEPFAKE_AVATAR", "SCREEN_REPLAY"}
Patterns == Windowed \union Immediate

ASSUME CheatAssumption ==
    /\ PatternWindow \in [Windowed -> Nat \ {0}]
    /\ Dts \subseteq Int
    /\ TimerCap \in Nat
    /\ \A p \in Windowed : PatternWindow[p] <= TimerCap

VARIABLES timers,   \* _timers
          active,   \* _active
          flagged   \* the patterns of the flags the latest call returned

vars == <<timers, active, flagged>>

Levels == {"clear", "between", "hit"}   \* below 0.8 min, up to min, min and over

Capped(n) == IF n > TimerCap THEN TimerCap ELSE n

-----------------------------------------------------------------------------

\* A definition named Mutant... is the operator that follows it with a plausible
\* mistake, for checking the properties.
MutantTimersAssigned(suspect, dt) ==
    [p \in Patterns |-> IF p \in suspect THEN Capped(dt) ELSE 0]

\* The timers after the five detectors have run; the immediate ones have none.
TimersAfter(suspect, dt) ==
    [p \in Patterns |-> CASE p \in suspect            -> Capped(timers[p] + dt)
                          [] p \in Windowed \ suspect -> 0
                          [] p \in Immediate          -> timers[p]]

MutantRaised(suspect, level, clock) ==
    {p \in suspect : clock[p] >= PatternWindow[p]}
        \union {p \in Immediate : level[p] = "hit"}

\* The patterns that become active on this frame, each with one flag.
Raised(suspect, level, clock) ==
    {p \in suspect : clock[p] >= PatternWindow[p] /\ p \notin active}
        \union {p \in Immediate : level[p] = "hit" /\ p \notin active}

\* The patterns whose evidence is gone on this frame.
Cleared(suspect, level) ==
    (Windowed \ suspect) \union {p \in Immediate : level[p] = "clear"}

Feed(suspect, level, dt) ==
    /\ dt > 0
    /\ timers' = TimersAfter(suspect, dt)
    /\ flagged' = Raised(suspect, level, timers')
    /\ active' = (active \ Cleared(suspect, level)) \union flagged'

\* feed raises ValueError before it touches anything.
FeedRejected(dt) == dt <= 0 /\ UNCHANGED vars

MutantReset(P) ==
    /\ timers' = timers
    /\ active' = active \ P
    /\ flagged' = {}

\* reset(pattern), or reset() for all of them.
Reset(P) ==
    /\ timers' = [p \in Patterns |-> IF p \in P THEN 0 ELSE timers[p]]
    /\ active' = active \ P
    /\ flagged' = {}

Init ==
    /\ timers = [p \in Patterns |-> 0]
    /\ active = {}
    /\ flagged = {}

ResetScopes == {{p} : p \in Patterns} \union {Patterns}

Next ==
    \/ \E dt \in Dts :
          \/ FeedRejected(dt)
          \/ \E suspect \in SUBSET Windowed, level \in [Immediate -> Levels] :
                Feed(suspect, level, dt)
    \/ \E P \in ResetScopes : Reset(P)

Spec == Init /\ [][Next]_vars

-----------------------------------------------------------------------------
(* Properties *)

\* Every variable holds what the code can put in it.
TypeOK ==
    /\ timers \in [Patterns -> Nat]
    /\ active \subseteq Patterns
    /\ flagged \subseteq Patterns

\* An accumulating pattern is active exactly while its timer has reached its window:
\* the set and the timers, updated on different branches of each _check method and
\* by reset, never disagree.
ActiveIffWindowFull ==
    \A p \in Windowed : p \in active <=> timers[p] >= PatternWindow[p]

=============================================================================
