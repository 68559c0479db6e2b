----------------------------- MODULE KellySizing -----------------------------
(***************************************************************************)
(* How much of a portfolio InvestMind advises each of three personas to    *)
(* put into an opportunity (09_user_profile_kelly.py), and the summary it  *)
(* keeps of a run of opportunities.  A chance is in percent, a ratio of    *)
(* profit to loss in tenths, a position in 1/10000 of the portfolio.       *)
(***************************************************************************)
EXTENDS Integers

CONSTANTS
    Chances,            \* the chances of winning an opportunity may have
    Ratios,             \* its ratios of profit to loss
    MaxOpportunities    \* N, the opportunities of a run

ASSUME KellyAssumption == Chances \subseteq 0..100 /\ Ratios \subseteq Nat /\ MaxOpportunities \in Nat

VARIABLES
    advised,    \* the opportunities considered
    advice,        \* persona -> what it is told of the last one
    summary        \* persona -> the counts of its recommendations

kellyVars == <<advised, advice, summary>>

Personas == {"A", "B", "C"}
Actions == {"avoid", "watch", "try", "build", "heavy"}
------------------------------------------------------------------------------
Factor == [A |-> 75, B |-> 50, C |-> 25]
Cap == [A |-> 2000, B |-> 1200, C |-> 500]
MinWinrate == [A |-> 20, B |-> 35, C |-> 50]
MinPnlRatio == [A |-> 14, B |-> 20, C |-> 30]

Larger(m, n) == IF m > n THEN m ELSE n
Smaller(m, n) == IF m > n THEN n ELSE m

(* (p (b + 1) - 1) / b, and no less than nothing *)
KellyFraction(p, b) ==
    IF b <= 0 \/ p <= 0 THEN 0 ELSE Larger(0, ((p * (b + 10) - 1000) * 100) \div b)

MutantPosition(n, p, b) == Smaller((KellyFraction(p, b) * Factor[n]) \div 100, Cap[n])

(* What persona n is advised to put in. *)
Position(n, p, b) ==
    IF p < MinWinrate[n] \/ b < MinPnlRatio[n] THEN 0
    ELSE Smaller((KellyFraction(p, b) * Factor[n]) \div 100, Cap[n])

ActionFor(n, p, b) ==
    LET rec == Position(n, p, b)
    IN  IF p < MinWinrate[n] \/ b < MinPnlRatio[n] THEN "avoid"
        ELSE IF rec < 50 THEN "watch"
        ELSE IF rec < 300 THEN "try"
        ELSE IF rec < 1000 THEN "build" ELSE "heavy"

Advise(p, b) ==
    /\ advised < MaxOpportunities
    /\ advised' = advised + 1
    /\ advice' = [n \in Personas |-> [position |-> Position(n, p, b), action |-> ActionFor(n, p, b)]]
    /\ summary' = [n \in Personas |->
           [actionable |-> summary[n].actionable + (IF advice'[n].position > 0 THEN 1 ELSE 0),
            largest    |-> Larger(summary[n].largest, advice'[n].position),
            actions    |-> [summary[n].actions EXCEPT ![advice'[n].action] = @ + 1]]]

KellyInit ==
    /\ advised = 0
    /\ advice = [n \in Personas |-> [position |-> 0, action |-> "avoid"]]
    /\ summary = [n \in Personas |-> [actionable |-> 0, largest |-> 0,
                                      actions |-> [a \in Actions |-> 0]]]

KellyNext == \E p \in Chances, b \in Ratios : Advise(p, b)

KellySpec == KellyInit /\ [][KellyNext]_kellyVars
------------------------------------------------------------------------------
(* The more careful persona is never advised the larger position, is told   *)
(* to avoid whatever a bolder one avoids, and has no more opportunities to  *)
(* act on; who is to avoid an opportunity has no position in it; and no     *)
(* position is ever over the persona's cap (09_user_profile_kelly.py:25-26). *)
SizingOrdered ==
    /\ advice["C"].position <= advice["B"].position
    /\ advice["B"].position <= advice["A"].position
    /\ advice["A"].action = "avoid" => advice["B"].action = "avoid"
    /\ advice["B"].action = "avoid" => advice["C"].action = "avoid"
    /\ summary["C"].actionable <= summary["B"].actionable
    /\ summary["B"].actionable <= summary["A"].actionable
    /\ \A n \in Personas :
          /\ advice[n].action = "avoid" => advice[n].position = 0
          /\ summary[n].largest <= Cap[n]
==============================================================================
