--------------------------- MODULE AlertSuppression ---------------------------
(***************************************************************************)
(* One stream of the simulation from which the suppression window of the   *)
(* alerts is recommended (06_dedup_suppression_sim.py): true and false     *)
(* alerts arrive, one within the window of the last one delivered is       *)
(* suppressed, and the adaptive window grows with the density of what is   *)
(* delivered.  Arrivals are drawn from a set of gaps instead of a Poisson  *)
(* process, time is kept since the last delivery, and a density in         *)
(* thousandths.                                                            *)
(***************************************************************************)
EXTENDS Integers

CONSTANTS
    Windows,         \* the windows in seconds
    Gaps,            \* the gaps between arrivals in seconds
    LongAgo,         \* seconds longer than every window can become
    MaxDelivered, MaxSuppressed   \* bounds on what arrives

ASSUME SuppressionAssumption ==
    /\ Windows \union Gaps \subseteq Nat \ {0}
    /\ LongAgo \in Nat /\ \A w \in Windows : 3 * w <= LongAgo
    /\ {MaxDelivered, MaxSuppressed} \subseteq Nat

VARIABLES
    window, adaptive,                  \* the strategy of this behaviour
    since,                             \* seconds since the last delivery
    lastTrue,                          \* last_delivered_is_true
    density,
    tally                              \* what simulate_one_stream returns

suppressionVars == <<window, adaptive, since, lastTrue, density, tally>>

AtMost(bound, n) == IF n > bound THEN bound ELSE n
------------------------------------------------------------------------------
MutantEffectiveWindow ==
    IF adaptive THEN window + (window * density) \div 5000 ELSE window

EffectiveWindow ==
    IF adaptive THEN window + (window * AtMost(7500, density)) \div 5000 ELSE window

Arrived(true) ==
    IF true THEN [tally EXCEPT !.trueTotal = @ + 1] ELSE [tally EXCEPT !.fpTotal = @ + 1]

Deliver(true) ==
    /\ tally.delivered < MaxDelivered
    /\ tally' = [Arrived(true) EXCEPT !.delivered = @ + 1]
    /\ since' = 0 /\ lastTrue' = true
    /\ density' = (density * 9) \div 10 + 1000

Suppress(true, at) ==
    /\ tally.suppressed < MaxSuppressed
    /\ tally' = [Arrived(true) EXCEPT !.suppressed = @ + 1,
                                      !.missed = IF true /\ ~lastTrue THEN @ + 1 ELSE @]
    /\ since' = at
    /\ UNCHANGED <<lastTrue, density>>

Arrive(gap, true) ==
    LET at == AtMost(LongAgo, since + gap)
    IN  /\ IF at < EffectiveWindow THEN Suppress(true, at) ELSE Deliver(true)
        /\ UNCHANGED <<window, adaptive>>

(* last_delivered_t = -1e9 *)
SuppressionInit ==
    /\ window \in Windows /\ adaptive \in BOOLEAN
    /\ since = LongAgo /\ lastTrue = FALSE /\ density = 0
    /\ tally = [delivered |-> 0, suppressed |-> 0, trueTotal |-> 0, fpTotal |-> 0, missed |-> 0]

SuppressionNext == \E gap \in Gaps, true \in BOOLEAN : Arrive(gap, true)

SuppressionSpec == SuppressionInit /\ [][SuppressionNext]_suppressionVars
------------------------------------------------------------------------------
(* What the recommendation of line 92 rests on: however dense the alerts    *)
(* become, the adaptive window stays within two and a half windows, so that *)
(* a stream that was silent for so long is heard again; a true alert is     *)
(* missed only behind a false one, so that without false alerts none is;    *)
(* and every alert is delivered or suppressed, once.                        *)
SuppressionIsBounded ==
    /\ 2 * EffectiveWindow <= 5 * window
    /\ tally.fpTotal = 0 => tally.missed = 0
    /\ tally.missed <= tally.suppressed /\ tally.missed <= tally.trueTotal
    /\ tally.delivered + tally.suppressed = tally.trueTotal + tally.fpTotal
==============================================================================
