------------------------------ MODULE CashRunway ------------------------------
(***************************************************************************)
(* InvestMind's plan from its users to its cash: the growth of the three   *)
(* segments month by month (06_growth_cohort.py), the revenue lines of the *)
(* years (11_revenue_buildup.py) and the cash of the base, bull and stress *)
(* scenarios month by month (08_funding_runway.py), of one run of each.    *)
(*                                                                         *)
(* Users are whole numbers, money is in units of 10 000 yuan, rounded down. *)
(* How many of the planned new users come is chosen year by year.          *)
(***************************************************************************)
EXTENDS Integers

CONSTANTS
    Arrivals,      \* percents of the planned new users that may come
    Months         \* MONTHS, the horizon of both scripts

(* The plan has five years. *)
ASSUME RunwayAssumption == Arrivals \subseteq Nat /\ Months \in 0..60

VARIABLES
    grown,          \* the months script 06 has done
    comes,          \* the percent of the new users that comes this year
    active,         \* segment -> users
    subscription,   \* year -> subscription revenue
    spentMonths,    \* the months script 08 has done
    cash,           \* scenario -> cash
    funded          \* scenario -> the rounds that came in

runwayVars == <<grown, comes, active, subscription, spentMonths, cash, funded>>

Segments == {"Lite", "Pro", "Family"}
Scenarios == {"base", "bull", "stress"}

YearOf(m) == m \div 12 + 1
------------------------------------------------------------------------------
FirstNew == <<180, 800, 1500, 3500, 6500>>
LastNew == <<800, 1500, 3500, 6500, 9000>>

(* np.linspace over the twelve months *)
MonthlyNew(m) ==
    FirstNew[YearOf(m)] + ((LastNew[YearOf(m)] - FirstNew[YearOf(m)]) * (m % 12)) \div 11

(* in percent *)
Mix == [Lite   |-> <<75, 65, 55, 50, 45>>,
        Pro    |-> <<22, 30, 35, 38, 40>>,
        Family |-> <<3, 5, 10, 12, 15>>]

Retention == [Lite |-> 960, Pro |-> 970, Family |-> 985]   \* in thousandths
Arpu == [Lite |-> 99, Pro |-> 416, Family |-> 1666]

Mrr(users) ==
    (users.Lite * Arpu.Lite + users.Pro * Arpu.Pro + users.Family * Arpu.Family) \div 10000

(* One month of script 06. *)
Grow ==
    /\ grown < Months
    /\ grown' = grown + 1
    /\ comes' \in IF grown % 12 = 0 THEN Arrivals ELSE {comes}
    /\ active' = [s \in Segments |->
           (active[s] * Retention[s]) \div 1000
             + (MonthlyNew(grown) * Mix[s][YearOf(grown)] * comes') \div 10000]
    /\ subscription' = [subscription EXCEPT ![YearOf(grown)] = @ + Mrr(active')]
    /\ UNCHANGED <<spentMonths, cash, funded>>

(* The other revenue lines of script 11: data, research, matching, services. *)
DataApi == <<0, 480, 2100, 5600, 11000>>
ResearchMarket == <<0, 0, 800, 3800, 8500>>
Matchmaking == <<0, 0, 2600, 9500, 22000>>
ValueAdded == <<0, 600, 2200, 5500, 10500>>

GrossProfit(y) ==
    (subscription[y] * 80 + DataApi[y] * 78 + ResearchMarket[y] * 55
       + Matchmaking[y] * 75 + ValueAdded[y] * 50) \div 100

Opex == <<1800, 3800, 8600, 16800, 26400>>

(* A year's gross profit rises over its months from 0.5 to 1.5 of the mean. *)
MonthlyGrossProfit(m) == (GrossProfit(YearOf(m)) * (11 + 2 * (m % 12))) \div 264

FundingMonth == <<11, 23, 41, 59>>
FundingAmount == <<5000, 20000, 50000, 80000>>
FundingEvents == 1..4

ProfitPercent == [base |-> 100, bull |-> 125, stress |-> 75]
CostPercent == [base |-> 100, bull |-> 90, stress |-> 115]

MutantDelay == [base |-> 0, bull |-> 6, stress |-> 6]

Delay == [base |-> 0, bull |-> 0, stress |-> 6]

Net(s, m) ==
    (MonthlyGrossProfit(m) * ProfitPercent[s]) \div 100
      - ((Opex[YearOf(m)] \div 12) * CostPercent[s]) \div 100

Due(s, m) == {k \in FundingEvents : m = FundingMonth[k] + Delay[s]}

Funding(s, m) ==
    IF Due(s, m) = {} THEN 0 ELSE FundingAmount[CHOOSE k \in Due(s, m) : TRUE]

(* One month of simulate in each of the three scenarios. *)
Spend ==
    /\ grown = Months /\ spentMonths < Months
    /\ spentMonths' = spentMonths + 1
    /\ cash' = [s \in Scenarios |->
           cash[s] + Net(s, spentMonths) + Funding(s, spentMonths)]
    /\ funded' = [s \in Scenarios |-> funded[s] \union Due(s, spentMonths)]
    /\ UNCHANGED <<grown, comes, active, subscription>>

RunwayInit ==
    /\ grown = 0 /\ comes = 100
    /\ active = [s \in Segments |-> 0]
    /\ subscription = [y \in 1..5 |-> 0]
    /\ spentMonths = 0
    /\ cash = [s \in Scenarios |-> 1000]
    /\ funded = [s \in Scenarios |-> {}]

RunwayNext == Grow \/ Spend

RunwaySpec == RunwayInit /\ [][RunwayNext]_runwayVars
------------------------------------------------------------------------------
(* In every month the stress scenario has no more cash than the base, and   *)
(* the base no more than the bull, whatever number of users comes, and no   *)
(* round has come in that a more hopeful scenario still waits for           *)
(* (08_funding_runway.py:30-33).                                            *)
RunwayOrdered ==
    /\ cash["stress"] <= cash["base"] /\ cash["base"] <= cash["bull"]
    /\ funded["stress"] \subseteq funded["base"] /\ funded["base"] \subseteq funded["bull"]
==============================================================================
