--------------------------- MODULE HardExampleMiner ---------------------------
(***************************************************************************)
(* HardExampleMiner of one stream: frames that puzzle the models are kept  *)
(* for the next training set, at most KeepMaxPerMinute in a minute; what   *)
(* an operator says of an event is kept without a limit.  A frame is the   *)
(* minute of its time stamp and the two answers the thresholds give.       *)
(***************************************************************************)
EXTENDS Integers, Sequences

CONSTANTS
    KeepMaxPerMinute,   \* MinerConfig.keep_max_per_minute
    SampleAll,          \* MinerConfig.sample_rate is 1.0
    LastMinute,         \* bound on time
    MaxConsidered       \* bound on the frames and events considered

ASSUME MinerAssumption ==
    KeepMaxPerMinute \in Nat \ {0} /\ SampleAll \in BOOLEAN /\ LastMinute \in Nat

VARIABLES
    windowIndex,     \* _window_index
    countInWindow,   \* _count_in_window
    keptExamples,    \* _kept
    minedIn,         \* frames kept of each minute, drained or not
    visits,          \* how often frames of each minute began to come, or came again
    considered       \* frames and events so far

minerVars == <<windowIndex, countInWindow, keptExamples, minedIn, visits, considered>>
------------------------------------------------------------------------------
Minutes == 0..LastMinute

MinedFrames == [minute : Minutes, uncertain : BOOLEAN, disagreeing : BOOLEAN]

Reason(f) == IF f.uncertain THEN "uncertainty" ELSE "disagreement"

Puzzling(f) == f.uncertain \/ f.disagreeing

(* _allow_window: the first frame of another minute starts the count again. *)
CountBefore(f) == IF f.minute = windowIndex THEN countInWindow ELSE 0

(* The samples consider may draw; with a rate of 1.0 it draws every frame.  *)
Draws == IF SampleAll THEN {TRUE} ELSE BOOLEAN

Kept(f, drawn) == CountBefore(f) < KeepMaxPerMinute /\ drawn /\ Puzzling(f)

Consider ==
    \E f \in MinedFrames, drawn \in Draws :
        /\ considered < MaxConsidered
        /\ windowIndex' = f.minute
        /\ visits' = IF f.minute = windowIndex THEN visits ELSE [visits EXCEPT ![f.minute] = @ + 1]
        /\ considered' = considered + 1
        /\ IF Kept(f, drawn)
           THEN /\ countInWindow' = CountBefore(f) + 1
                /\ keptExamples' = Append(keptExamples, [reason |-> Reason(f), weight |-> 1])
                /\ minedIn' = [minedIn EXCEPT ![f.minute] = @ + 1]
           ELSE countInWindow' = CountBefore(f) /\ UNCHANGED <<keptExamples, minedIn>>

(* What an operator answered about an event, and the weight it earns; an    *)
(* event that is no alarm cannot be a false one, and silence keeps nothing. *)
Feedback == {[reason |-> "user_feedback_false_alarm", weight |-> 3],
             [reason |-> "user_feedback_missed", weight |-> 5]}

ConsiderEvent ==
    /\ considered < MaxConsidered
    /\ \E e \in Feedback : keptExamples' = Append(keptExamples, e)
    /\ considered' = considered + 1
    /\ UNCHANGED <<windowIndex, countInWindow, minedIn, visits>>

MutantDrainedCount == 0

DrainedCount == countInWindow

Drain ==
    /\ keptExamples # << >>
    /\ keptExamples' = << >>
    /\ countInWindow' = DrainedCount
    /\ UNCHANGED <<windowIndex, minedIn, visits, considered>>

MinerInit ==
    /\ windowIndex = -1 /\ countInWindow = 0 /\ keptExamples = << >>
    /\ minedIn = [m \in Minutes |-> 0]
    /\ visits = [m \in Minutes |-> 0] /\ considered = 0

MinerNext == Consider \/ ConsiderEvent \/ Drain

MinerSpec == MinerInit /\ [][MinerNext]_minerVars
------------------------------------------------------------------------------
(* No minute gives more than its quota each time its frames come, however   *)
(* often the miner is drained and however much feedback comes between: once *)
(* while frames come in the order of their minutes ("节流：每分钟最多挖掘多少条，   *)
(* 避免存储爆炸"), and once more for each time that late ones take turns       *)
(* with those of another minute, which the one count does not remember.     *)
MinuteQuota == \A m \in Minutes : minedIn[m] <= KeepMaxPerMinute * visits[m]

(* What MinuteQuota rests on: the minute at hand has used no more of its    *)
(* last quota than the count says.                                          *)
CountIsOfTheMinute ==
    windowIndex \in Minutes =>
        minedIn[windowIndex] + KeepMaxPerMinute <= KeepMaxPerMinute * visits[windowIndex] + countInWindow

==============================================================================
