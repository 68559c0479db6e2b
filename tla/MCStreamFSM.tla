---------------------------- MODULE MCStreamFSM ----------------------------
(***************************************************************************)
(* StreamFSM for TLC, beside three history variables.  deque is the        *)
(* consensus buffer as the code keeps it, a sequence of (score, dt) pairs  *)
(* trimmed by the code's loop, so that the set of suffix sums StreamFSM    *)
(* works with can be compared with it.  since is the time on duty since    *)
(* the last recovery from an absence, or NotRecovered; quiet is the time   *)
(* all of whose frames scored under the lower threshold.                   *)
(***************************************************************************)
EXTENDS StreamFSM, Sequences

CONSTANTS SinceMax   \* since is not counted beyond this

VARIABLES deque, since, quiet

F == INSTANCE FiniteSetsExt

mcVars == <<state, timer, buf, lastScore, event, deque, since, quiet>>

\* Scores and steps have bounds, and since is counted at least for a window.
ASSUME BoundsAssumption ==
    /\ \E max \in Scores : \A score \in Scores : score <= max
    /\ \E max \in Dts : \A dt \in Dts : dt <= max
    /\ SinceMax \in Nat /\ SinceMax >= Window

NotRecovered == -1

ScoreMax == F!Max(Scores)
DtMax == F!Max(Dts)

\* The longest that a stream seen by nobody is away briefly, and that it is away for
\* long: a limit is found passed on a frame, up to DtMax after the one before, and on
\* the frame that makes an absence long the time may have passed both limits.
LatestLong == Window + DtMax + BriefToLong
LatestEscalation == LatestLong + F!Max({LongToEscalate, DtMax})

-----------------------------------------------------------------------------

\* What a loop over v from its newest end has added up when it has come down to index i.
Added(v, i) ==
    LET sum[n \in 0..Len(v)] == IF n = 0 THEN 0 ELSE sum[n - 1] + v[Len(v) + 1 - n]
    IN  sum[Len(v) + 1 - i]

\* cumulative of _trim_consensus_buf, and the score that goes with it.
Cumulative(q, i) == Added([j \in DOMAIN q |-> q[j].dt], i)

CumulativeMass(q, i) == Added([j \in DOMAIN q |-> q[j].score * q[j].dt], i)

\* The loop stops at the newest index that covers the window, or runs to the first.
TrimIndex(q) == F!Max({1} \union {i \in DOMAIN q : Cumulative(q, i) >= Window})

LoopTrimmed(q) == SubSeq(q, TrimIndex(q), Len(q))

MCInit == Init /\ deque = <<>> /\ since = NotRecovered /\ quiet = 0

SinceAfter(dt) ==
    IF state' = "ON_DUTY" /\ Ticking(state) THEN 0
    ELSE IF state' = "ON_DUTY" /\ state = "ON_DUTY" /\ since >= 0
         THEN F!Min({since + dt, SinceMax})
         ELSE NotRecovered

\* quiet is not counted beyond the latest escalation.
QuietAfter(score, dt) ==
    IF score < LowerThreshold THEN F!Min({quiet + dt, LatestEscalation}) ELSE 0

MCFeed(score, dt) ==
    /\ Feed(score, dt)
    /\ deque' = LoopTrimmed(Append(deque, [score |-> score, dt |-> dt]))
    /\ since' = SinceAfter(dt)
    /\ quiet' = QuietAfter(score, dt)

MCNext ==
    \E dt \in Dts :
        \/ FeedRejected(dt) /\ UNCHANGED <<deque, since, quiet>>
        \/ \E score \in Scores : MCFeed(score, dt)

MCSpec == MCInit /\ [][MCNext]_mcVars

\* Frames keep coming while the stream is live.
MCFairSpec == MCSpec /\ WF_mcVars(\E score \in Scores, dt \in Dts : MCFeed(score, dt))

-----------------------------------------------------------------------------

\* The suffix sums are the sums the code computes over its deque, entry by entry,
\* and the set kept by Trimmed is the slice kept by the loop of _trim_consensus_buf.
BufferIsTheDeque ==
    buf = {[dt |-> deque[i].dt, span |-> Cumulative(deque, i),
            mass |-> CumulativeMass(deque, i)] : i \in DOMAIN deque}

\* Anti-flapping: a stream that recovered from an absence stays on duty for a time
\* the thresholds dictate, even if every later frame scores zero.  The average has
\* to fall from the upper to the lower threshold, and each frame moves it by a
\* bounded amount.
HysteresisDwell ==
    [][state = "ON_DUTY" /\ state' = "BRIEF_AWAY" /\ since >= 0 =>
        (since + deque'[Len(deque')].dt) * ScoreMax >
            (UpperThreshold - LowerThreshold) * Window
                - (ScoreMax - UpperThreshold) * DtMax]_mcVars

\* Every frame that the window reaches back to was strong.
StrongWindow ==
    Cumulative(deque, 1) >= Window /\ \A i \in DOMAIN deque : deque[i].score >= UpperThreshold

\* The machine answers in a bounded time, whatever came before.  Frames that all score
\* under the lower threshold take a stream off duty within a window, although the
\* average began with stronger frames, and then raise P1 and P0 within the limits and
\* the delay of a frame or two, although the timer starts only when the average has
\* fallen.  Frames that all reach the upper threshold put a stream on duty within a
\* window, even on the frame on which its time away runs out; only one that had
\* escalated before is not answered.
AnswersInTime ==
    /\ quiet >= Window => state # "ON_DUTY"
    /\ quiet >= LatestLong => state # "BRIEF_AWAY"
    /\ quiet >= LatestEscalation => state # "LONG_AWAY"
    /\ StrongWindow =>
          state \in {"ON_DUTY", "ALERT_ESCALATED"} /\ event.to # "ALERT_ESCALATED"

=============================================================================
