----------------------------- MODULE StreamFSM -----------------------------
(***************************************************************************)
(* The presence state machine of one live stream                           *)
(* (algo/liveguard_algo/fusion/state_machine.py, class StreamFSM).         *)
(*                                                                         *)
(* Times and scores are integers on a scale of the instance's choosing.    *)
(* The consensus buffer, a deque of (score, dt) pairs in the code, is the  *)
(* set of its entries, each carrying the suffix sums the code computes     *)
(* when it walks the deque from its newest end: span, the time from the    *)
(* entry to now, and mass, the score accumulated over that time.  Steps    *)
(* are positive, so spans are distinct and order the entries.              *)
(***************************************************************************)
EXTENDS Integers

CONSTANTS Window,           \* consensus_window_s
          BriefToLong,      \* brief_to_long_s
          LongToEscalate,   \* long_to_escalate_s
          UpperThreshold,   \* upper_threshold
          LowerThreshold,   \* lower_threshold
          Scores,           \* the fused scores a frame may have
          Dts               \* the dt values feed may be called with

ASSUME ConfigAssumption ==
    /\ {Window, BriefToLong, LongToEscalate} \subseteq Nat \ {0}
    /\ LowerThreshold \in Nat /\ UpperThreshold \in Nat
    /\ 0 < LowerThreshold /\ LowerThreshold < UpperThreshold
    /\ Scores \subseteq Nat
    /\ Dts \subseteq Int

VARIABLES state,       \* _state
          timer,       \* _timer_offline_s
          buf,         \* _consensus_buf
          lastScore,   \* _last_score
          event        \* what the latest feed returned and logged in _history

vars == <<state, timer, buf, lastScore, event>>

States == {"IDLE", "ON_DUTY", "BRIEF_AWAY", "LONG_AWAY", "ALERT_ESCALATED"}

Entries == [dt : Nat \ {0}, span : Nat \ {0}, mass : Nat]

NoEvent == [to |-> "none"]

Events == [from : States, to : States, severity : {"INFO", "P1", "P0"}, offline : Nat]

-----------------------------------------------------------------------------
(* The consensus buffer; a definition named Mutant... is the operator that
   follows it with a plausible mistake, for checking the properties. *)

Entry(score, dt) == [dt |-> dt, span |-> dt, mass |-> score * dt]

\* append: every older entry now reaches back dt further.
Pushed(b, score, dt) ==
    {[dt |-> e.dt, span |-> e.span + dt, mass |-> e.mass + score * dt] : e \in b}
        \union {Entry(score, dt)}

MutantTrimmed(b) == {e \in b : \A f \in b : f.span < e.span => f.span <= Window}

\* The newest entries that cover the window are kept; with less than a window
\* of samples, everything is.
Trimmed(b) == {e \in b : \A f \in b : f.span < e.span => f.span < Window}

Oldest(b) == {e \in b : \A f \in b : f.span <= e.span}

BufferCovers(b, seconds) == \E e \in b : e.span >= seconds

BufferFull(b) == BufferCovers(b, Window)

\* The dt-weighted average of the (non-empty) buffer against a threshold.
AverageAtLeast(b, threshold) == \E e \in Oldest(b) : e.mass >= threshold * e.span

-----------------------------------------------------------------------------
(* One frame *)

MutantPresentTwice(b) == AverageAtLeast(b, UpperThreshold) /\ BufferCovers(b, 2 * Window)
MutantPresentLow(b) == AverageAtLeast(b, LowerThreshold) /\ BufferFull(b)

StronglyPresent(b) == AverageAtLeast(b, UpperThreshold) /\ BufferFull(b)

Absent(b) == ~AverageAtLeast(b, LowerThreshold) /\ BufferFull(b)

MutantTicking(s) == s = "BRIEF_AWAY"

Ticking(s) == s \in {"BRIEF_AWAY", "LONG_AWAY"}

NextState(s, score, b, t) ==
    CASE s = "IDLE" /\ score >= UpperThreshold -> "ON_DUTY"
      [] s = "ON_DUTY" /\ Absent(b) -> "BRIEF_AWAY"
      [] Ticking(s) /\ StronglyPresent(b) -> "ON_DUTY"
      [] s = "BRIEF_AWAY" /\ ~StronglyPresent(b) /\ t >= BriefToLong -> "LONG_AWAY"
      [] s = "LONG_AWAY" /\ ~StronglyPresent(b) /\ t >= BriefToLong + LongToEscalate
            -> "ALERT_ESCALATED"
      [] s = "ALERT_ESCALATED" /\ AverageAtLeast(b, UpperThreshold)
            /\ BufferCovers(b, 2 * Window)
            -> "ON_DUTY"
      [] OTHER -> s

SeverityFor(to) ==
    CASE to = "ALERT_ESCALATED" -> "P0"
      [] to = "LONG_AWAY"       -> "P1"
      [] OTHER                  -> "INFO"

MutantTimerRestarted(to, t) == IF to # state THEN 0 ELSE t

\* _timer_offline_s after a step that ends in state `to`.
TimerAfter(to, t) == IF to = "ON_DUTY" /\ to # state THEN 0 ELSE t

Advance(score, b, t) ==
    LET to == NextState(state, score, b, t) IN
    /\ state' = to
    /\ timer' = TimerAfter(to, t)
    /\ event' = IF to = state THEN NoEvent
                ELSE [from |-> state, to |-> to, severity |-> SeverityFor(to),
                      offline |-> TimerAfter(to, t)]

Feed(score, dt) ==
    /\ dt > 0
    /\ buf' = Trimmed(Pushed(buf, score, dt))
    /\ lastScore' = score
    /\ Advance(score, buf', IF Ticking(state) THEN timer + dt ELSE timer)

\* feed raises ValueError before it touches anything.
FeedRejected(dt) == dt <= 0 /\ UNCHANGED vars

Init ==
    /\ state = "IDLE"
    /\ timer = 0
    /\ buf = {}
    /\ lastScore = 0
    /\ event = NoEvent

Next == \E dt \in Dts : FeedRejected(dt) \/ \E score \in Scores : Feed(score, dt)

Spec == Init /\ [][Next]_vars

\* Frames keep coming while the stream is live.
FairSpec == Spec /\ WF_vars(\E score \in Scores, dt \in Dts : Feed(score, dt))

-----------------------------------------------------------------------------
(* Properties *)

\* Every variable holds what the code can put in it.
TypeOK ==
    /\ state \in States
    /\ timer \in Nat
    /\ buf \subseteq Entries
    /\ lastScore \in Nat
    /\ event \in Events \union {NoEvent}

\* The offline timer and the state tell the same story: no time is counted while
\* the host is (thought) present, a brief absence is shorter than the P1 limit,
\* and neither alert is raised before its full time away.  It spans every branch
\* of _next_state, the accumulation in feed and the reset in _do_transition.
TimerMatchesState ==
    /\ state \in {"IDLE", "ON_DUTY"} => timer = 0
    /\ state = "BRIEF_AWAY" => timer < BriefToLong
    /\ state = "LONG_AWAY" => timer >= BriefToLong
    /\ state = "ALERT_ESCALATED" => timer >= BriefToLong + LongToEscalate

\* The entries form a chain: each starts where the next newer one ends, and the
\* newest ends now.  (No frame is lost or counted twice by _trim_consensus_buf.)
Chained ==
    \A e \in buf : e.span = e.dt \/ \E f \in buf : f.span = e.span - e.dt

\* The buffer never holds a frame it does not need: without its oldest frame it
\* would not cover the window.  This is what _trim_consensus_buf leaves behind.
WindowMinimal == \A e \in buf : e.span - e.dt < Window

\* No frame the service feeds stands for more than the window (ingest_service.py
\* clamps dt to 5.0 s, the window's own length).
StepsWithinWindow == \A dt \in Dts : dt <= Window

\* An escalated stream never leaves ALERT_ESCALATED, however strong the signals:
\* the recovery branch asks for twice the window of samples, and the trimming
\* done on the same frame never leaves that much.
EscalatedIsFinal == [][state = "ALERT_ESCALATED" => state' = "ALERT_ESCALATED"]_vars

\* The state machine implements the ladder of absence.
Ladder == INSTANCE PresenceLadder WITH away <- timer
ImplementsLadder == Ladder!Spec

\* If from some moment on every frame scores under the lower threshold, a stream
\* that was ever seen ends up escalated: nothing but a recovery stops the climb.
AbsenceIsEscalated ==
    <>[](lastScore < LowerThreshold) => <>[](state \in {"IDLE", "ALERT_ESCALATED"})

\* A host who comes back in time is not escalated: once a LONG_AWAY stream sees only
\* strong frames, and a window plus one frame still fits before the P0 limit, it
\* returns to duty.
TimelyReturnIsRecognised ==
    []( /\ state = "LONG_AWAY"
        /\ \A dt \in Dts : timer + Window + dt < BriefToLong + LongToEscalate
        /\ [](lastScore >= UpperThreshold)
       => <>(state = "ON_DUTY") )

\* What lasts is answered in the end, an absence and a return.
PresenceIsAnswered == AbsenceIsEscalated /\ TimelyReturnIsRecognised

\* What the comment on the last branch of _next_state (cooldown of twice the window)
\* and the design's transition table (S >= 0.65 for 10 s resolves) say of the code:
\* a strong signal that lasts brings a stream back on duty, escalated or not.
EscalationIsCleared ==
    <>[](lastScore >= UpperThreshold) => <>[](state = "ON_DUTY")

=============================================================================
