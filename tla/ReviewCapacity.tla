---------------------------- MODULE ReviewCapacity ----------------------------
(***************************************************************************)
(* How many reviewers the alerts of LiveGuard need                         *)
(* (05_alerts_capacity_erlangc.py): for each load the least number with    *)
(* which nine alerts in ten are taken up within a minute.  Numbers in      *)
(* thousandths.  Erlang-B is kept as its inverse, for which the recursion  *)
(* of the code reads 1 + k / (a * B).                                      *)
(***************************************************************************)
EXTENDS Integers, Sequences

CONSTANT Loads    \* the scenarios: streams in thousands, alerts a minute

ASSUME LoadsAssumption ==
    Loads \in Seq([streams : Nat \ {0}, perMinute : Nat \ {0}])

(* A load has so many fewer alerts for each stream than the load before it  *)
(* that it stays cheaper even with four agents, the most that can be needed *)
(* beyond the traffic, against the half of an agent that always is.         *)
ASSUME SublinearAssumption ==
    \A k \in DOMAIN Loads \ {1} :
        (3 * Loads[k].perMinute + 8) * Loads[k - 1].streams
            <= (3 * Loads[k - 1].perMinute + 1) * Loads[k].streams

VARIABLES
    agents,     \* n of min_agents, 0 before its first value
    staffed     \* agents_required of the scenarios settled

capacityVars == <<agents, staffed>>

Thousand == 1000

(* Twice the traffic in erlangs, an alert taking 90 seconds. *)
TwiceTraffic(k) == 3 * Loads[k].perMinute

InverseErlangB(k, n) ==
    LET I[m \in 0..n] ==
            IF m = 0 THEN Thousand
            ELSE Thousand + (2 * m * I[m - 1]) \div TwiceTraffic(k)
    IN I[n]

(* prob_wait, where there are more agents than traffic. *)
ProbWait(k, n) ==
    (2 * n * Thousand * Thousand) \div
        ((2 * n - TwiceTraffic(k)) * InverseErlangB(k, n) + TwiceTraffic(k) * Thousand)

(* exp(- m / 3): half an agent to spare, for 60 of the 90 seconds.          *)
Decay(m) ==
    LET D[i \in 0..m] == IF i = 0 THEN Thousand * 10 ELSE (D[i - 1] * 7165) \div 10000
    IN D[m]

(* Nobody waits for less than a minute when there is as much work as time. *)
ServiceLevel(k, n) ==
    IF 2 * n <= TwiceTraffic(k) THEN 0
    ELSE Thousand - (ProbWait(k, n) * Decay(2 * n - TwiceTraffic(k))) \div (10 * Thousand)

Target == 900

(* max(1, ceil(traffic)) *)
FirstTry(k) == (TwiceTraffic(k) + 1) \div 2

Scenario == Len(staffed) + 1

BeginScenario ==
    /\ Scenario \in DOMAIN Loads /\ agents = 0
    /\ agents' = FirstTry(Scenario)
    /\ UNCHANGED staffed

(* The loop of min_agents; its limit of 10 000 agents is far away. *)
AddAgent ==
    /\ agents > 0 /\ ServiceLevel(Scenario, agents) < Target
    /\ agents' = agents + 1
    /\ UNCHANGED staffed

SettleScenario ==
    /\ agents > 0 /\ ServiceLevel(Scenario, agents) >= Target
    /\ staffed' = Append(staffed, agents)
    /\ agents' = 0

CapacityInit == agents = 0 /\ staffed = << >>

CapacityNext == BeginScenario \/ AddAgent \/ SettleScenario

CapacitySpec == CapacityInit /\ [][CapacityNext]_capacityVars
------------------------------------------------------------------------------
FewerWouldNotDo ==
    \A k \in DOMAIN staffed :
        /\ ServiceLevel(k, staffed[k]) >= Target
        /\ \A fewer \in 1..(staffed[k] - 1) : ServiceLevel(k, fewer) < Target

CrowdsNeedFewerEach ==
    \A k \in DOMAIN staffed : k > 1 =>
        staffed[k] * Loads[k - 1].streams <= staffed[k - 1] * Loads[k].streams

(* One agent fewer would not do, in every scenario; and the more streams    *)
(* there are, the fewer agents a thousand of them need: the "sublinear"     *)
(* growth of the chart (line 101, "规模化坐席需求（亚线性增长）").               *)
FewestReviewersSuffice == FewerWouldNotDo /\ CrowdsNeedFewerEach
==============================================================================
