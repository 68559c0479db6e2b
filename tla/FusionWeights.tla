---------------------------- MODULE FusionWeights ----------------------------
(***************************************************************************)
(* The fused score of one frame: StreamFSM._adaptive_weights and the       *)
(* weighted sum of feed.  Signals are whole numbers from 0 to Unit for the *)
(* floats in [0, 1], weights whole numbers too.  A signal under the        *)
(* confidence floor keeps half of its vote; doubling every weight keeps    *)
(* the halves whole, and a score is the fraction Votes / Voices.           *)
(***************************************************************************)
EXTENDS Integers

CONSTANTS
    Unit,          \* the number that stands for 1.0
    Floor,         \* FusionWeights.confidence_floor
    Weight,        \* the six weights
    SignalLevels   \* the values a signal takes

Signal == {"face", "person", "reid", "liveness", "action", "audio"}

Sum6(f) == f["face"] + f["person"] + f["reid"] + f["liveness"] + f["action"] + f["audio"]

(* Weights sum to one, so they are not all zero; the floor is at most 0.5. *)
ASSUME FusionAssumption ==
    /\ Unit \in Nat \ {0}
    /\ Floor \in 0..Unit /\ 2 * Floor <= Unit
    /\ Weight \in [Signal -> Nat] /\ Sum6(Weight) > 0
    /\ SignalLevels \subseteq Int

VARIABLES
    frame,       \* the signals of the last frame the machine was fed
    fused        \* _last_score, as the pair of Votes and Voices

fusionVars == <<frame, fused>>
------------------------------------------------------------------------------
Frames == [Signal -> SignalLevels]

Valid(f) == \A c \in Signal : f[c] \in 0..Unit

MutantVote(f, c) == IF f[c] < Floor THEN 2 * Weight[c] ELSE Weight[c]

(* Twice the weight of channel c before normalisation. *)
Vote(f, c) == IF f[c] < Floor THEN Weight[c] ELSE 2 * Weight[c]

Voices(f) == Sum6([c \in Signal |-> Vote(f, c)])

Votes(f) == Sum6([c \in Signal |-> Vote(f, c) * f[c]])

NoScore == [votes |-> 0, voices |-> 1]

Fuse ==
    \E f \in Frames :
        IF Valid(f)
        THEN frame' = f /\ fused' = [votes |-> Votes(f), voices |-> Voices(f)]
        ELSE UNCHANGED fusionVars   \* SignalFrame raises: the machine never sees it

FusionInit == frame = [c \in Signal |-> 0] /\ fused = NoScore

FusionNext == Fuse

FusionSpec == FusionInit /\ [][FusionNext]_fusionVars
------------------------------------------------------------------------------
(* The sum that the fixed weights would give. *)
Plain(f) == Sum6([c \in Signal |-> Weight[c] * f[c]])

(* Halving the vote of weak signals never costs the host anything: the     *)
(* score is at least the plainly weighted one, whatever mixture of signals *)
(* is under the floor, and renormalising keeps it a number from 0 to 1.    *)
(* (_adaptive_weights, "避免误把 0 分被当作主播在岗信号缺失过度惩罚")          *)
LenientScore ==
    /\ fused.votes \in 0..(Unit * fused.voices)
    /\ fused.votes * Sum6(Weight) >= Plain(frame) * fused.voices

==============================================================================
