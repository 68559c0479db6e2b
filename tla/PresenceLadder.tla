--------------------------- MODULE PresenceLadder ---------------------------
(***************************************************************************)
(* What the presence state machine promises to the rest of LiveGuard,      *)
(* without signals, scores or windows: a stream is on duty or climbs, one  *)
(* rung at a time, a ladder of absence whose rungs are fixed by the time   *)
(* spent away.  Which observations make a step possible is StreamFSM's     *)
(* business; this module fixes only the order of the states and the clock  *)
(* that separates them.                                                    *)
(***************************************************************************)
EXTENDS Integers

CONSTANTS BriefToLong,      \* time away after which BRIEF_AWAY becomes LONG_AWAY
          LongToEscalate,   \* further time away before ALERT_ESCALATED
          Dts               \* the time steps a frame may stand for

VARIABLES state,   \* the rung
          away     \* time since the stream left ON_DUTY

ladderVars == <<state, away>>

States == {"IDLE", "ON_DUTY", "BRIEF_AWAY", "LONG_AWAY", "ALERT_ESCALATED"}

Init == state = "IDLE" /\ away = 0

\* The host is seen for the first time.
Appear == state = "IDLE" /\ state' = "ON_DUTY" /\ away' = 0

\* The host is lost: the clock of the absence starts at zero.
Leave == state = "ON_DUTY" /\ state' = "BRIEF_AWAY" /\ away' = 0

\* The host is back: the absence is over, whatever rung it had reached.
Return ==
    /\ state \in {"BRIEF_AWAY", "LONG_AWAY", "ALERT_ESCALATED"}
    /\ state' = "ON_DUTY"
    /\ away' = 0

\* The absence goes on; the rung follows the clock, never skipping one.
StayAway(dt) ==
    /\ dt > 0
    /\ away' = away + dt
    /\ \/ /\ state = "BRIEF_AWAY"
          /\ state' = IF away' >= BriefToLong THEN "LONG_AWAY" ELSE "BRIEF_AWAY"
       \/ /\ state = "LONG_AWAY"
          /\ state' = IF away' >= BriefToLong + LongToEscalate
                      THEN "ALERT_ESCALATED" ELSE "LONG_AWAY"

Next == Appear \/ Leave \/ Return \/ \E dt \in Dts : StayAway(dt)

Spec == Init /\ [][Next]_ladderVars
=============================================================================
