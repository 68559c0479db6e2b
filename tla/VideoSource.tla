----------------------------- MODULE VideoSource -----------------------------
(***************************************************************************)
(* Where the edge agent's frames and their time come from: SyntheticSource *)
(* and CV2Source of source.py, driven by the command line (cli.py), which  *)
(* closes the source whatever ends the run.  CV2Source stamps a frame with *)
(* the wall clock, drops it when it comes less than DtMin after the last   *)
(* one it passed on, and reopens a broken stream once, ending the run when *)
(* that fails.  Time is counted in whole units.                            *)
(***************************************************************************)
EXTENDS Integers

CONSTANTS
    DtMin,        \* 1 / fps_cap, and the step of the synthetic source
    Reconnect,    \* CV2Source._reconnect
    MaxFrames,    \* run's max_frames, and the n_frames of a synthetic source
    MaxClock      \* bound on the wall clock

ASSUME SourceAssumption ==
    /\ DtMin \in Nat \ {0} /\ Reconnect \in Nat /\ MaxFrames \in Nat

VARIABLES
    kind,      \* the class of the source
    cap,       \* "closed", "open" or "released": _cap
    wall,      \* time.time(), a step or more after its epoch
    last,      \* CV2Source's last, 0 before its first frame; ts of SyntheticSource
    first,     \* the time stamp of the first frame
    passed,    \* frames handed to the agent
    fedTime,   \* the sum of their dt
    running    \* the agent's run has not ended

sourceVars == <<kind, cap, wall, last, first, passed, fedTime, running>>
------------------------------------------------------------------------------
(* _build_source *)
SourceKinds == {"SyntheticSource", "CV2Source"}

Yield(ts, dt) ==
    /\ last' = ts
    /\ first' = IF passed = 0 THEN ts ELSE first
    /\ fedTime' = fedTime + dt
    /\ passed' = passed + 1

(* The end of _amain: the source is closed however the run ended. *)
End == running' = FALSE /\ cap' = "closed"

Open ==
    /\ running /\ kind = "CV2Source" /\ cap = "closed"
    /\ \/ cap' = "open" /\ UNCHANGED running
       \/ End
    /\ UNCHANGED <<kind, wall, last, first, passed, fedTime>>

(* The step of a frame that arrives at the time now. *)
StepTo(ts) == IF last = 0 THEN DtMin ELSE ts - last

ReadFrame ==
    /\ running /\ kind = "CV2Source" /\ cap = "open"
    /\ passed < MaxFrames /\ wall - last >= DtMin
    /\ Yield(wall, StepTo(wall))
    /\ UNCHANGED <<kind, wall, cap, running>>

MutantLastAfterOutage == 0

(* The step after an outage is counted from the last frame before it. *)
LastAfterOutage == last

ReadFails ==
    /\ running /\ kind = "CV2Source" /\ cap = "open"
    /\ wall + Reconnect <= MaxClock
    /\ cap' = "released"
    /\ wall' = wall + Reconnect
    /\ last' = LastAfterOutage
    /\ UNCHANGED <<kind, first, passed, fedTime, running>>

(* A failing _open raises out of the generator and ends the agent. *)
Reopen ==
    /\ cap = "released"
    /\ \/ cap' = "open" /\ UNCHANGED running
       \/ End
    /\ UNCHANGED <<kind, wall, last, first, passed, fedTime>>

(* SyntheticSource reads the clock once and counts from there. *)
Synthesize ==
    /\ running /\ kind = "SyntheticSource" /\ passed < MaxFrames
    /\ LET ts == (IF passed = 0 THEN wall ELSE last) + DtMin IN Yield(ts, DtMin)
    /\ UNCHANGED <<kind, wall, cap, running>>

(* The limit of frames, stop(), an interrupt, and the end of a source. *)
RunEnds ==
    /\ running
    /\ End
    /\ UNCHANGED <<kind, wall, last, first, passed, fedTime>>

(* The clock goes on; an administrator may set it back. *)
Clock ==
    /\ running
    /\ \/ wall < MaxClock /\ wall' = wall + 1
       \/ wall > DtMin /\ wall' = wall - 1
    /\ UNCHANGED <<kind, cap, last, first, passed, fedTime, running>>

SourceInit ==
    /\ kind \in SourceKinds
    /\ cap = "closed" /\ wall = DtMin /\ last = 0 /\ first = 0
    /\ passed = 0 /\ fedTime = 0 /\ running = TRUE

SourceNext == Open \/ ReadFrame \/ ReadFails \/ Reopen \/ Synthesize \/ RunEnds \/ Clock

SourceSpec == SourceInit /\ [][SourceNext]_sourceVars
------------------------------------------------------------------------------
(* However the stream breaks and the clock is set, the time the pipeline is *)
(* fed is the time between its first and last frame (and one step for the   *)
(* first): an outage is charged to the frame after it, and no time is       *)
(* counted twice; and a run that has ended holds no stream open.            *)
SourceClockIsWall ==
    /\ passed > 0 => fedTime = last - first + DtMin
    /\ ~running => cap = "closed"

==============================================================================
