------------------------------ MODULE MCBusiness ------------------------------
(***************************************************************************)
(* The business models and documents, for TLC: the runner of the models,   *)
(* the building of the plans, and the models that go through states of     *)
(* their own.  They share files, not variables: in a behaviour one lives.  *)
(***************************************************************************)
EXTENDS ModelRunner, PlanDocuments, AlertSuppression, CashRunway, KellySizing,
        ScoreBacktest, ReviewCapacity, Valuation

VARIABLE business    \* the one that lives

businessVars == <<business, runnerVars, documentVars, planVars, suppressionVars,
                  runwayVars, kellyVars, backtestVars, capacityVars, valuationVars>>

Businesses == {"runner", "documents", "plan", "suppression", "runway", "kelly",
               "backtest", "capacity", "valuation"}

(* The scripts that read or are read, in their order. *)
MCScripts ==
    [liveguard  |-> <<"10", "11", "12", "13", "14", "15", "18", "19">>,
     investmind |-> <<"i06", "i07", "i08", "i11">>]

MCReads ==
    [s \in {MCScripts.liveguard[k] : k \in 1..8} \union {MCScripts.investmind[k] : k \in 1..4} |->
        CASE s \in {"12", "13"} -> {"10"}
          [] s = "14"           -> {"10", "12", "13"}
          [] s = "15"           -> {"10", "12"}
          [] s \in {"18", "19"} -> {"11", "14"}
          [] s = "i08"          -> {"i07", "i11"}
          [] s = "i11"          -> {"i06"}
          [] OTHER              -> {}]

MCSummarised ==
    [liveguard |-> {"10", "11", "12", "14", "18", "19"}, investmind |-> {}]

(* The planned numbers of accounts, and fewer. *)
MCCustomers == <<{400, 800}, {2700, 5500}, {10000, 20000}, {27500, 55000}, {60000, 105000}>>

(* The rounds with shares whose denominators stay small. *)
MCRounds ==
    LET Shared(k, of, optionsPart, optionsOf) ==
            [PlannedRounds[k] EXCEPT !.share = [part |-> 1, of |-> of],
                                     !.options = [part |-> optionsPart, of |-> optionsOf]]
    IN <<Shared(1, 5, 1, 10), Shared(2, 5, 1, 20), Shared(3, 5, 0, 1), Shared(4, 8, 0, 1)>>

(* Every order of the deals; a total loss and a great success.              *)
MCRankings == {o \in [1..Cardinality(Deals) -> Deals] : IsInjective(o)}
MCReturns == {-100, 900}

(* The scenarios of the review capacity. *)
MCLoads ==
    <<[streams |-> 1,  perMinute |-> 3],  [streams |-> 5,  perMinute |-> 12],
      [streams |-> 10, perMinute |-> 22], [streams |-> 50, perMinute |-> 100]>>

BusinessInit ==
    /\ business \in Businesses
    /\ RunnerInit /\ (business # "runner" => library = "liveguard")
    /\ DocumentInit /\ (business # "documents" => plan = "liveguard")
    /\ PlanInit
    /\ SuppressionInit /\ (business # "suppression" => window = 600 /\ ~adaptive)
    /\ RunwayInit /\ KellyInit /\ BacktestInit /\ CapacityInit /\ ValuationInit

BusinessNext ==
    \/ /\ business = "runner" /\ RunnerNext
       /\ UNCHANGED <<business, documentVars, planVars, suppressionVars, runwayVars,
                      kellyVars, backtestVars, capacityVars, valuationVars>>
    \/ /\ business = "documents" /\ DocumentNext
       /\ UNCHANGED <<business, runnerVars, planVars, suppressionVars, runwayVars,
                      kellyVars, backtestVars, capacityVars, valuationVars>>
    \/ /\ business = "plan" /\ PlanNext
       /\ UNCHANGED <<business, runnerVars, documentVars, suppressionVars, runwayVars,
                      kellyVars, backtestVars, capacityVars, valuationVars>>
    \/ /\ business = "suppression" /\ SuppressionNext
       /\ UNCHANGED <<business, runnerVars, documentVars, planVars, runwayVars,
                      kellyVars, backtestVars, capacityVars, valuationVars>>
    \/ /\ business = "runway" /\ RunwayNext
       /\ UNCHANGED <<business, runnerVars, documentVars, planVars, suppressionVars,
                      kellyVars, backtestVars, capacityVars, valuationVars>>
    \/ /\ business = "kelly" /\ KellyNext
       /\ UNCHANGED <<business, runnerVars, documentVars, planVars, suppressionVars,
                      runwayVars, backtestVars, capacityVars, valuationVars>>
    \/ /\ business = "backtest" /\ BacktestNext
       /\ UNCHANGED <<business, runnerVars, documentVars, planVars, suppressionVars,
                      runwayVars, kellyVars, capacityVars, valuationVars>>
    \/ /\ business = "capacity" /\ CapacityNext
       /\ UNCHANGED <<business, runnerVars, documentVars, planVars, suppressionVars,
                      runwayVars, kellyVars, backtestVars, valuationVars>>
    \/ /\ business = "valuation" /\ ValuationNext
       /\ UNCHANGED <<business, runnerVars, documentVars, planVars, suppressionVars,
                      runwayVars, kellyVars, backtestVars, capacityVars>>

BusinessSpec == BusinessInit /\ [][BusinessNext]_businessVars
------------------------------------------------------------------------------
(* InvestMind's care never pays: the cash of a more careful scenario and    *)
(* the position of a more careful persona are never the larger, in any      *)
(* month and for any opportunity (08_funding_runway.py:30-33 and            *)
(* 09_user_profile_kelly.py:25-26).                                         *)
CautionNeverGainsMore == RunwayOrdered /\ SizingOrdered
(* The figures of the plans are what their definitions say: an alert is      *)
(* suppressed only for an alert that was delivered, the one pass of the     *)
(* backtest counts the pairs that the score ranks rightly, no fewer         *)
(* reviewers would do, and every driver of the tornado brackets the base    *)
(* (06_dedup_suppression_sim.py:48-64, 05_signal_quality_backtest.py:52-68, *)
(* 05_alerts_capacity_erlangc.py:48-59, 15_sensitivity_analysis.py:81-95).  *)
FiguresAreSound ==
    /\ SuppressionIsBounded
    /\ RankingIsCounted
    /\ FewestReviewersSuffice
    /\ DriversBracketTheBase

==============================================================================
