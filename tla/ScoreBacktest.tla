---------------------------- MODULE ScoreBacktest ----------------------------
(***************************************************************************)
(* InvestMind's two backtests of a score on a universe of deals: its       *)
(* quality (05_signal_quality_backtest.py: the area under the curve,       *)
(* counted in one pass over the sorted deals, the calibration bins and the *)
(* precision at the top) and the portfolios it picks                       *)
(* (04_winrate_pnl_engine.py).  Returns are in percent; the distributions  *)
(* the deals are drawn from are sets of values.                            *)
(***************************************************************************)
EXTENDS Integers, Sequences, FiniteSetsExt, Functions

CONSTANTS
    Deals,
    Scores,          \* the scores a deal may get, clipped to 0 .. 100
    Returns,         \* the returns a deal may have, in percent
    Shares,          \* the top shares whose precision is reported, in percent
    DrawPercent,     \* of the deals, from which a portfolio is picked
    PortfolioSize,
    Rankings         \* the rankings of the deals that are looked at

(* A draw has at least one deal; among a hundred deals one winner shows in  *)
(* the share in whole percents; argsort leaves no deal out.                 *)
ASSUME BacktestAssumption ==
    /\ Scores \subseteq 0..100 /\ \A r \in Returns : r >= -100 /\ r \in Int
    /\ IsFiniteSet(Deals) /\ Cardinality(Deals) * DrawPercent >= 100
    /\ PortfolioSize \in 1..100 /\ DrawPercent \in 1..100
    /\ \A o \in Rankings : o \in [1..Cardinality(Deals) -> Deals] /\ IsInjective(o)

VARIABLES
    score, return,     \* of every deal
    sorted,            \* the deals in the order of argsort
    seen,              \* deals the loop of auc has seen
    cumNeg, aucSum,
    curve,             \* calibration: the bins, NaN where one is empty
    portfolios         \* the portfolios drawn so far, evaluated

backtestVars == <<score, return, sorted, seen, cumNeg, aucSum, curve, portfolios>>

NaN == -1000    \* lower than every mean
Size == Cardinality(Deals)
Winner(d) == return[d] > 0
Winners(D) == {d \in D : Winner(d)}
Mean(f) ==
    IF DOMAIN f = {} THEN NaN
    ELSE MapThenSumSet(LAMBDA d : f[d], DOMAIN f) \div Cardinality(DOMAIN f)
------------------------------------------------------------------------------
(* The scores in ascending order; argsort is not stable, so that deals of   *)
(* one score may come in any order.                                         *)
Argsort(f) ==
    {o \in Rankings : \A i, j \in 1..Size : i < j => f[o[i]] <= f[o[j]]}

(* The universe: 05 draws the labels by the true chance, 04 the returns. *)
DrawDeals ==
    /\ sorted = << >>
    /\ score' \in [Deals -> Scores] /\ return' \in [Deals -> Returns]
    /\ sorted' \in Argsort(score')
    /\ UNCHANGED <<seen, cumNeg, aucSum, curve, portfolios>>

MutantCountDeal ==
    /\ cumNeg' = IF Winner(sorted[seen + 1]) THEN cumNeg ELSE cumNeg + 1
    /\ aucSum' = IF Winner(sorted[seen + 1]) THEN aucSum + seen ELSE aucSum

(* The loop of auc: a winner outranks the losers before it. *)
CountDeal ==
    /\ cumNeg' = IF Winner(sorted[seen + 1]) THEN cumNeg ELSE cumNeg + 1
    /\ aucSum' = IF Winner(sorted[seen + 1]) THEN aucSum + cumNeg ELSE aucSum

PassDeal ==
    /\ seen < Len(sorted)
    /\ CountDeal
    /\ seen' = seen + 1
    /\ UNCHANGED <<score, return, sorted, curve, portfolios>>

(* The share of winners in percent: the mean of labels. *)
Precision(T) == Mean([d \in T |-> IF Winner(d) THEN 100 ELSE 0])

Bins == 0..9

(* A bin holds its lower edge; nothing holds the score 100. *)
InBin(i) == {d \in Deals : score[d] >= 10 * i /\ score[d] < 10 * (i + 1)}

(* calibration_curve. *)
Calibrate ==
    /\ seen = Size /\ curve = << >>
    /\ curve' = [i \in 1..10 |-> Precision(InBin(i - 1))]
    /\ UNCHANGED <<score, return, sorted, seen, cumNeg, aucSum, portfolios>>

(* The k deals of D with the highest scores, in any order of equal ones.    *)
TopK(D, k) ==
    {T \in kSubset(IF k > Cardinality(D) THEN Cardinality(D) ELSE k, D) :
        \A t \in T, d \in D \ T : score[t] >= score[d]}

(* topk_precision: NaN where the share is less than one deal. *)
Precisions(share) == {Precision(T) : T \in TopK(Deals, (Size * share) \div 100)}

(* A row of evaluate: the multiple, whether its IRR is defined, the share   *)
(* of winners and the ratio of gain to loss, which is the average gain for  *)
(* a portfolio without a loser and NaN for one without a winner.            *)
Evaluated(held) ==
    LET gain   == Mean([d \in Winners(held) |-> return[d]])
        losers == {d \in held : return[d] < 0}
        loss   == Mean([d \in losers |-> -return[d]])
        moic   == 100 + Mean([d \in held |-> return[d]])
    IN [moic |-> moic,
        irr  |-> IF moic > 0 THEN "of the multiple" ELSE "-99%",
        wins |-> Precision(held),
        pnl  |-> IF gain = NaN THEN NaN
                 ELSE IF loss = NaN \/ loss = 0 THEN gain ELSE (100 * gain) \div loss]

(* One of the N_PORTFOLIOS: the best of six tenths of the deals. *)
DrawPortfolio ==
    /\ curve # << >> /\ portfolios = << >>
    /\ \E subset \in kSubset((Size * DrawPercent) \div 100, Deals) :
          \E held \in TopK(subset, PortfolioSize) :
              portfolios' = <<[from |-> subset, held |-> held, row |-> Evaluated(held)]>>
    /\ UNCHANGED <<score, return, sorted, seen, cumNeg, aucSum, curve>>

BacktestInit ==
    /\ score = [d \in Deals |-> 0] /\ return = [d \in Deals |-> 0] /\ sorted = << >>
    /\ seen = 0 /\ cumNeg = 0 /\ aucSum = 0 /\ curve = << >> /\ portfolios = << >>

BacktestNext == DrawDeals \/ PassDeal \/ Calibrate \/ DrawPortfolio

BacktestSpec == BacktestInit /\ [][BacktestNext]_backtestVars
------------------------------------------------------------------------------
SeenDeals == {sorted[i] : i \in 1..seen}

Pairs(D, above(_, _)) ==
    Cardinality({p \in Winners(D) \X (D \ Winners(D)) : above(score[p[1]], score[p[2]])})

Binned == LET sizes == [i \in Bins |-> Cardinality(InBin(i))]
          IN MapThenSumSet(LAMBDA i : sizes[i], Bins)

Perfect == \A w \in Winners(Deals), d \in Deals \ Winners(Deals) : score[w] > score[d]

(* Up to the pairs of equal score, at every point of the loop. *)
PairsAreCounted ==
    /\ aucSum >= Pairs(SeenDeals, LAMBDA x, y : x > y) /\ aucSum <= Pairs(SeenDeals, LAMBDA x, y : x >= y)
    /\ cumNeg = Cardinality(SeenDeals \ Winners(SeenDeals))

OnlyClippedAreUnbinned ==
    curve # << >> => (Binned < Size <=> \E d \in Deals : score[d] = 100)

WinnersAreOnTop ==
    curve # << >> /\ Perfect => \A share \in Shares :
        (Size * share) \div 100 \in 1..Cardinality(Winners(Deals)) => Precisions(share) = {100}

PortfoliosFollowTheRanking ==
    \A i \in DOMAIN portfolios :
        LET p == portfolios[i]
        IN  /\ Perfect /\ Cardinality(Winners(p.from)) >= PortfolioSize => p.row.wins = 100
            /\ p.row.pnl = NaN <=> p.row.wins = 0
            /\ p.row.moic >= 0

(* The one pass of auc counts the pairs of a winner and a loser that the    *)
(* score ranks rightly, up to those it ranks equal, at every point of the   *)
(* loop and whatever argsort does with equal scores; the bins leave out the *)
(* deals that were clipped to 100 and no others; a score that ranks every   *)
(* winner above every loser has only winners at its top, and fills every    *)
(* portfolio with winners as far as its draw has them, so that what 04      *)
(* reports as uplift is owed to the ranking; a portfolio without a winner   *)
(* drops out of the gain to loss ratio, but of nothing else.                *)
RankingIsCounted ==
    /\ PairsAreCounted /\ OnlyClippedAreUnbinned
    /\ WinnersAreOnTop /\ PortfoliosFollowTheRanking
==============================================================================
