----------------------------- MODULE FundingPlan -----------------------------
(***************************************************************************)
(* LiveGuard's five-year plan in the order its scripts compute it: the     *)
(* rounds (11_fundraising_dilution.py and the loop of                      *)
(* 10_financial_projections.py), the three statements year by year (10),   *)
(* the resources they have to pay for (17_resource_requirements.py), and   *)
(* one path of the lead investor through the stage gates                   *)
(* (19_success_probability.py).                                            *)
(*                                                                         *)
(* Money is in units of 10 000 yuan and rounded down; a stake is a whole   *)
(* number of the parts the company is divided into, which every round      *)
(* multiplies.                                                             *)
(***************************************************************************)
EXTENDS Integers, Sequences, FiniteSetsExt

CONSTANTS
    Customers,     \* year -> the numbers of accounts it may end with
    Rounds,        \* the rounds in order: name, year, amount, and the fractions of
                   \* the company for the investor and for new options
    WeightedEV,    \* the weighted enterprise value of 14
    ExitPercents   \* an exit's value, in percent of it, as drawn

Terms ==
    [name : STRING, year : 1..5, amount : Nat,
     share : [part : Nat \ {0}, of : Nat \ {0}], options : [part : Nat, of : Nat \ {0}]]

ASSUME PlanAssumption ==
    /\ DOMAIN Customers = 1..5 /\ \A y \in 1..5 : Customers[y] \subseteq Nat
    /\ Rounds \in Seq(Terms)
    /\ \A k \in DOMAIN Rounds :
          /\ Rounds[k].share.part <= Rounds[k].share.of
          /\ Rounds[k].options.part <= Rounds[k].options.of
          /\ Rounds[k].name \notin {"Founders", "ESOP"}
          /\ \A j \in 1..(k - 1) : Rounds[j].name # Rounds[k].name

VARIABLES
    closed,       \* the rounds closed
    financing,    \* year -> what the rounds bring
    parts,        \* the parts the company is divided into
    stakes,       \* holder -> its parts
    leadPath,     \* what the lead holds after each round, in 1/10000
    year,         \* the years closed
    balance,      \* cash, receivables, plant, payables, capital, earnings
    spent,        \* the resources of the years closed
    gate,         \* the stage gate the company is at
    leadOutcome       \* how the lead investor's path ended

planVars == <<closed, financing, parts, stakes, leadPath, year, balance, spent, gate, leadOutcome>>

Years == 1..5
Holders == {"Founders", "ESOP"} \union {Rounds[k].name : k \in DOMAIN Rounds}
Percent(amount, percent) == (amount * percent) \div 100
NoLeadOutcome == [kind |-> "none"]
------------------------------------------------------------------------------
(* data_sources.py: the rounds and the most accounts of its plan. *)
PlannedRounds ==
    <<[name |-> "Seed", year |-> 1, amount |-> 2000,
       share |-> [part |-> 1, of |-> 5], options |-> [part |-> 1, of |-> 10]],
      [name |-> "A", year |-> 2, amount |-> 8000,
       share |-> [part |-> 8, of |-> 45], options |-> [part |-> 1, of |-> 20]],
      [name |-> "B", year |-> 3, amount |-> 20000,
       share |-> [part |-> 2, of |-> 13], options |-> [part |-> 3, of |-> 100]],
      [name |-> "C", year |-> 4, amount |-> 35000,
       share |-> [part |-> 7, of |-> 60], options |-> [part |-> 1, of |-> 50]]>>

PlannedAccounts == <<800, 5500, 20000, 55000, 105000>>

(* Its ratios, in percent of the revenue. *)
GrossMargin == <<70, 73, 76, 78, 80>>
Marketing == <<95, 80, 62, 48, 36>>
Research == <<85, 62, 45, 33, 24>>
Administration == <<35, 28, 22, 17, 13>>

(* 11 064.6 yuan of an account (the comment of the prices says 11 059.6),  *)
(* counted in hundreds of accounts.                                         *)
Revenue(accounts) == ((accounts \div 100) * 110646) \div 1000

(* What year y adds, having begun with the given plant. *)
Flows(y, accounts, plant) ==
    LET rev     == Revenue(accounts)
        gross   == Percent(rev, GrossMargin[y])
        ebit    == gross - Percent(rev, Marketing[y]) - Percent(rev, Research[y])
                         - Percent(rev, Administration[y])
        pretax  == ebit + (rev * 4) \div 1000
        capex   == Percent(rev, 6)
    IN [net   |-> IF pretax > 0 THEN pretax - Percent(pretax, 15) ELSE pretax,
        capex |-> capex,
        da    |-> Percent(plant + capex, 30),
        ar    |-> (rev * 50) \div 360,
        ap    |-> ((rev - gross) * 30) \div 360]

MutantRollForward(b, f, fin) ==
    [ppe      |-> b.ppe + f.capex - f.da,
     ar       |-> f.ar,
     ap       |-> f.ap,
     cash     |-> b.cash + f.net + f.da - f.capex + fin,
     paidIn   |-> b.paidIn + fin,
     retained |-> b.retained + f.net]

(* The cash flow statement and the balance sheet after it. *)
RollForward(b, f, fin) ==
    [ppe      |-> b.ppe + f.capex - f.da,
     ar       |-> f.ar,
     ap       |-> f.ap,
     cash     |-> b.cash + f.net + f.da - ((f.ar - f.ap) - (b.ar - b.ap)) - f.capex + fin,
     paidIn   |-> b.paidIn + fin,
     retained |-> b.retained + f.net]

Headcount == <<24, 67, 136, 229, 342>>
Salary == <<48, 52, 56, 60, 64>>
InferenceFen == <<24000, 17280, 12442, 8958, 6450>>   \* of one path a year
AnnotatedHours == <<40000, 110000, 250000, 600000, 1200000>>

(* People, 3.2 monitored paths per account, and annotation at 105 yuan an hour. *)
Resources(y, accounts) ==
    Headcount[y] * Salary[y]
    + ((((accounts \div 100) * 32) \div 10) * InferenceFen[y]) \div 10000
    + ((AnnotatedHours[y] \div 1000) * 105) \div 10

(* A round: the new investor's part is carved out of everybody's, then that *)
(* of the new options, which fall to those that were there.                 *)
CloseRound ==
    /\ closed < Len(Rounds)
    /\ LET r        == Rounds[closed + 1]
           invested == [h \in Holders |-> IF h = r.name THEN parts * r.share.part
                                         ELSE stakes[h] * (r.share.of - r.share.part)]
           kept     == [h \in Holders |-> invested[h] * (r.options.of - r.options.part)
                            + IF h = "ESOP" THEN parts * r.share.of * r.options.part ELSE 0]
       IN  /\ stakes' = kept
           /\ parts' = parts * r.share.of * r.options.of
           /\ financing' = [financing EXCEPT ![r.year] = @ + r.amount]
           /\ leadPath' = Append(leadPath, (kept[Rounds[1].name] * 10000) \div parts')
    /\ closed' = closed + 1
    /\ UNCHANGED <<year, balance, spent, gate, leadOutcome>>

CloseYear ==
    /\ closed = Len(Rounds) /\ year < 5
    /\ year' = year + 1
    /\ \E accounts \in Customers[year'] :
          /\ balance' = RollForward(balance, Flows(year', accounts, balance.ppe), financing[year'])
          /\ spent' = spent + Resources(year', accounts)
    /\ UNCHANGED <<closed, financing, parts, stakes, leadPath, gate, leadOutcome>>

(* STAGE_GATES: the year reached and what a partial exit recovers, in percent. *)
GateYear == <<1, 2, 3, 6>>
Recovered == <<35, 45, 50, 55>>
LastGate == 4

PostMoney(k) == (Rounds[k].amount * Rounds[k].share.of) \div Rounds[k].share.part

(* STAGE_REF_PREMONEY_CNY: of the last gate it is the value after round C. *)
RefPremoney(i) ==
    IF i = LastGate THEN PostMoney(LastGate) ELSE PostMoney(i + 1) - Rounds[i + 1].amount

StakeBefore(i) == leadPath[i]

Payout(i, ev) == (StakeBefore(i) * (ev \div 100)) \div 100

(* np.clip to 30 .. 400 percent of the weighted value *)
ExitEV(drawn) == (WeightedEV * (IF drawn < 30 THEN 30 ELSE IF drawn > 400 THEN 400 ELSE drawn)) \div 100

Ends(kind, payout) ==
    /\ leadOutcome' = [kind |-> kind, payout |-> payout, year |-> GateYear[gate], at |-> gate]
    /\ UNCHANGED gate

(* What a path meets at its gate: it goes on, exits in part, loses all, and *)
(* from the last gate on it succeeds.                                       *)
MeetGate ==
    /\ year = 5 /\ leadOutcome = NoLeadOutcome
    /\ \/ gate < LastGate /\ gate' = gate + 1 /\ UNCHANGED leadOutcome
       \/ gate = LastGate /\ \E x \in ExitPercents : Ends("success", Payout(gate, ExitEV(x)))
       \/ Ends("partial", Payout(gate, Percent(RefPremoney(gate), Recovered[gate])))
       \/ Ends("loss", 0)
    /\ UNCHANGED <<closed, financing, parts, stakes, leadPath, year, balance, spent>>

PlanInit ==
    /\ closed = 0 /\ financing = [y \in Years |-> 0]
    /\ parts = 1 /\ stakes = [h \in Holders |-> IF h = "Founders" THEN 1 ELSE 0]
    /\ leadPath = << >>
    /\ year = 0 /\ spent = 0
    /\ balance = [cash |-> 0, ar |-> 0, ppe |-> 0, ap |-> 0, paidIn |-> 0, retained |-> 0]
    /\ gate = 1 /\ leadOutcome = NoLeadOutcome

PlanNext == CloseRound \/ CloseYear \/ MeetGate

PlanSpec == PlanInit /\ [][PlanNext]_planVars
------------------------------------------------------------------------------
StatementsBalance ==
    balance.cash + balance.ar + balance.ppe = balance.ap + balance.paidIn + balance.retained

CapTableIsWhole ==
    parts = MapThenSumSet(LAMBDA h : stakes[h], Holders)

CapitalIsRaised ==
    LET amounts == [k \in DOMAIN Rounds |-> Rounds[k].amount]
    IN year = 5 => balance.paidIn = MapThenSumSet(LAMBDA k : amounts[k], DOMAIN Rounds)

OutcomesPartition ==
    leadOutcome # NoLeadOutcome => (leadOutcome.payout <= 0 <=> leadOutcome.kind = "loss")

CapitalPaysFourYears == year \in 1..4 => spent <= balance.paidIn

(* "资产负债表按构造勾稽：总资产 = 总负债 + 股东权益（精确成立）"             *)
(* (10_financial_projections.py:10) after every year, whatever the accounts *)
(* come to, although the statements are computed apart from each other and *)
(* carry plant, working capital and cash from year to year; the cap table   *)
(* is divided without rest after every round; the capital paid in is at the *)
(* end what the rounds of script 11 raised; and the three outcomes that 19  *)
(* counts apart (its lines 95 to 97) exclude each other, for what the lead  *)
(* still holds is worth something at every gate.  The capital pays for the  *)
(* resources of 17 in the first four years; in the fifth it does not.       *)
PlanAddsUp ==
    /\ StatementsBalance
    /\ CapTableIsWhole
    /\ CapitalIsRaised
    /\ OutcomesPartition
    /\ CapitalPaysFourYears
==============================================================================
