------------------------------ MODULE Valuation ------------------------------
(***************************************************************************)
(* What LiveGuard's plan is worth: the two-stage discounted cash flow of   *)
(* its five years and five more (12_valuation_dcf.py), and the tornado of  *)
(* what moves the revenue and that value (15_sensitivity_analysis.py).     *)
(* Money as in FundingPlan, rates in thousandths, prices in yuan and       *)
(* mixes in percent.                                                       *)
(***************************************************************************)
EXTENDS FundingPlan

VARIABLES
    sold,        \* the accounts at the end of the years planned so far
    worth,       \* the payload of 12
    tornado      \* the two tables of 15

valuationVars == <<sold, worth, tornado>>

NotValued == [twoStage |-> 0]
NoTornado == [revenue |-> << >>, value |-> << >>]
------------------------------------------------------------------------------
(* Script 12 *)

Wacc == 155
TerminalGrowth == 25
ExitMultiple == 13
Growth == <<280, 240, 200, 170, 140>>
Margin == <<180, 200, 220, 240, 260>>

OfThousand(amount, thousandths) == (amount * thousandths) \div 1000

Discounted(amount, wacc, years) ==
    LET D[n \in 0..years] == IF n = 0 THEN amount ELSE (D[n - 1] * 1000) \div (1000 + wacc)
    IN D[years]

Total(f) == MapThenSumSet(LAMBDA y : f[y], Years)

(* fcf_CNY of script 10: the cash of operations and investments. *)
FreeCashFlow(accounts) ==
    LET Opening == [cash |-> 0, ar |-> 0, ppe |-> 0, ap |-> 0, paidIn |-> 0, retained |-> 0]
        B[y \in 0..5] ==
            IF y = 0 THEN Opening
            ELSE RollForward(B[y - 1], Flows(y, accounts[y], B[y - 1].ppe), 0)
    IN [y \in Years |-> B[y].cash - B[y - 1].cash]

Transition(revenue) ==
    LET R[t \in 0..5] == IF t = 0 THEN revenue ELSE OfThousand(R[t - 1], 1000 + Growth[t])
    IN [t \in Years |-> [fcf    |-> Percent(OfThousand(R[t], Margin[t]), 85),
                         ebitda |-> OfThousand(R[t], Margin[t] + 60)]]

PvTransition(later) == Total([t \in Years |-> Discounted(later[t].fcf, Wacc, 5 + t)])

Worth(accounts) ==
    LET fcf        == FreeCashFlow(accounts)
        later      == Transition(Revenue(accounts[5]))
        explicit   == Total([y \in Years |-> Discounted(fcf[y], Wacc, y)])
        transition == PvTransition(later)
        gordon     == (later[5].fcf * (1000 + TerminalGrowth)) \div (Wacc - TerminalGrowth)
    IN [explicit   |-> explicit,
        transition |-> transition,
        ebitda     |-> later[5].ebitda,
        twoStage   |-> explicit + transition + Discounted(ExitMultiple * later[5].ebitda, Wacc, 10),
        gordon     |-> explicit + transition + Discounted(gordon, Wacc, 10)]

AccountPlans ==
    {<<a, b, c, d, e>> : a \in Customers[1], b \in Customers[2], c \in Customers[3],
                         d \in Customers[4], e \in Customers[5]}

(* A plan for which the tornado is drawn comes to something: EBITDA of 300  *)
(* million yuan in the tenth year, and cash flows worth 80 million before   *)
(* the exit, of which a fifth is more than the rounding of that EBITDA to   *)
(* a decimal moves the value by.                                            *)
ASSUME ValuationAssumption ==
    \A accounts \in AccountPlans :
        /\ Worth(accounts).ebitda >= 30000
        /\ Worth(accounts).explicit + Worth(accounts).transition >= 8000
------------------------------------------------------------------------------
(* Script 15 *)

Prices == [Starter |-> 2388, Pro |-> 7188, Enterprise |-> 150000]
Mixes == [Starter |-> 68, Pro |-> 27, Enterprise |-> 5]

(* In tenths of a yuan. *)
ArpuOf(prices, mixes) ==
    (prices.Starter * mixes.Starter + prices.Pro * mixes.Pro + prices.Enterprise * mixes.Enterprise) \div 10

Priced(name, percent) == [Prices EXCEPT ![name] = Percent(@, percent)]

RevenueDrivers ==
    {[param |-> <<name, "price">>, low |-> ArpuOf(Priced(name, 80), Mixes), high |-> ArpuOf(Priced(name, 120), Mixes)] :
        name \in {"Enterprise", "Pro", "Starter"}}
    \union
    {[param |-> <<"Enterprise", "mix">>, low  |-> ArpuOf(Prices, [Mixes EXCEPT !.Enterprise = 3, !.Starter = 70]),
                                         high |-> ArpuOf(Prices, [Mixes EXCEPT !.Enterprise = 7, !.Starter = 66])],
     [param |-> <<"Pro", "mix">>, low  |-> ArpuOf(Prices, [Mixes EXCEPT !.Pro = 22, !.Starter = 73]),
                                  high |-> ArpuOf(Prices, [Mixes EXCEPT !.Pro = 32, !.Starter = 63])]}

(* terminal_ebitda_y10_yi comes with one decimal. *)
RoundedEbitda == ((worth.ebitda + 500) \div 1000) * 1000

(* ev_with, from the parts that 12 has written; the transition is moved by  *)
(* an average of seven years when the discount rate moves.                  *)
EvWith(exit, wacc, ebitda, percent) ==
    LET Scaled[n \in 0..7] ==
            IF n = 0 THEN worth.transition ELSE (Scaled[n - 1] * (1000 + Wacc)) \div (1000 + wacc)
    IN Percent(worth.explicit + Scaled[7], percent) + Discounted(exit * ebitda, wacc, 10)

Row(param, low, high) == [param |-> param, low |-> low, high |-> high]

ValueDrivers ==
    {Row("ebitda", EvWith(ExitMultiple, Wacc, Percent(RoundedEbitda, 75), 100),
                   EvWith(ExitMultiple, Wacc, Percent(RoundedEbitda, 125), 100)),
     Row("exit",   EvWith(ExitMultiple - 5, Wacc, RoundedEbitda, 100),
                   EvWith(ExitMultiple + 5, Wacc, RoundedEbitda, 100)),
     Row("fcf",    EvWith(ExitMultiple, Wacc, RoundedEbitda, 80),
                   EvWith(ExitMultiple, Wacc, RoundedEbitda, 120)),
     Row("wacc",   EvWith(ExitMultiple, Wacc + 20, RoundedEbitda, 100),
                   EvWith(ExitMultiple, Wacc - 20, RoundedEbitda, 100))}

(* range_pp, with the base left out. *)
Spread(row) == IF row.high > row.low THEN row.high - row.low ELSE row.low - row.high

(* drivers.sort(key=range_pp, reverse=True) *)
Sorted(rows) ==
    CHOOSE s \in [1..Cardinality(rows) -> rows] :
        /\ IsInjective(s)
        /\ \A i, j \in DOMAIN s : i < j => Spread(s[i]) >= Spread(s[j])
------------------------------------------------------------------------------
PlanAccounts ==
    /\ Len(sold) < 5
    /\ \E accounts \in Customers[Len(sold) + 1] : sold' = Append(sold, accounts)
    /\ UNCHANGED <<worth, tornado>>

Value ==
    /\ Len(sold) = 5 /\ worth = NotValued
    /\ worth' = Worth(sold)
    /\ UNCHANGED <<sold, tornado>>

Perturb ==
    /\ worth # NotValued /\ tornado = NoTornado
    /\ tornado' = [revenue |-> Sorted(RevenueDrivers), value |-> Sorted(ValueDrivers)]
    /\ UNCHANGED <<sold, worth>>

ValuationInit == sold = << >> /\ worth = NotValued /\ tornado = NoTornado

ValuationNext == PlanAccounts \/ Value \/ Perturb

ValuationSpec == ValuationInit /\ [][ValuationNext]_valuationVars
------------------------------------------------------------------------------
(* The tornado reads as one: whatever the accounts of the plan come to, the *)
(* low case of every driver lies below the base and the high case above it, *)
(* the widest first; although 15 puts the value together anew, from parts   *)
(* of 12 that were rounded to different decimals and with an approximation  *)
(* of the discounting, and although the explicit years lose money, so that  *)
(* more cash flow could mean less value.                                    *)
DriversBracketTheBase ==
    tornado # NoTornado =>
        /\ \A i \in DOMAIN tornado.value :
              tornado.value[i].low < worth.twoStage /\ worth.twoStage < tornado.value[i].high
        /\ \A i \in DOMAIN tornado.revenue :
              tornado.revenue[i].low < ArpuOf(Prices, Mixes) /\ ArpuOf(Prices, Mixes) < tornado.revenue[i].high
        /\ \A rows \in {tornado.value, tornado.revenue} :
              \A i, j \in DOMAIN rows : i < j => Spread(rows[i]) >= Spread(rows[j])
==============================================================================
