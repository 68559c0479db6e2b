---------------------------- MODULE BusinessProofs ----------------------------
(***************************************************************************)
(* What the business models promise for all their assumptions: that the    *)
(* plan adds up, that the suppression window stays bounded, that the more  *)
(* careful persona is never advised the larger position, that reports and  *)
(* documents are of the run they are taken for, that the more careful      *)
(* scenario never has the larger cash, that the backtest counts what its   *)
(* score ranks rightly, that no fewer reviewers would do and that every    *)
(* driver of the tornado brackets the base.  Induction, recursion and sums *)
(* over sets come first; the composition of MCBusiness comes last.         *)
(***************************************************************************)
EXTENDS MCBusiness, WellFoundedInduction, FiniteSetTheorems, TLAPS

(***************************************************************************)
(* Induction over the natural numbers, for sets: the theorems of the       *)
(* library that speak of operators cannot be used, but the one on minimal  *)
(* elements can.                                                           *)
(***************************************************************************)
Before == {p \in Nat \X Nat : p[1] < p[2]}

(* Every set of natural numbers has a least element. *)
LEMMA LeastElement ==
    ASSUME NEW S \in SUBSET Nat, S # {}
    PROVE  \E n \in S : \A m \in S : n <= m
<1>1. Before = OpToRel(<, Nat)
  BY DEF Before, OpToRel
<1>2. PICK n \in S : \A m \in S : <<m, n>> \notin Before
  BY <1>1, NatLessThanWellFounded, WFMin
<1>3. \A m \in S : ~(m < n)
  BY <1>2 DEF Before
<1> QED  BY <1>3

(* A set with zero and every successor of its elements has every number.    *)
LEMMA Induction ==
    ASSUME NEW S, 0 \in S, \A n \in Nat : n \in S => n + 1 \in S
    PROVE  Nat \subseteq S
<1> SUFFICES ASSUME ~(Nat \subseteq S) PROVE FALSE
  OBVIOUS
<1>1. PICK n \in Nat \ S : \A m \in Nat \ S : n <= m
  BY LeastElement
<1>2. n - 1 \in Nat /\ n - 1 \in S
  BY <1>1
<1>3. n - 1 + 1 \in S
  BY <1>2
<1> QED  BY <1>3
------------------------------------------------------------------------------
(***************************************************************************)
(* Recursion over 0..N: the functions that LET defines by their own values *)
(* exist, since one more step can always be taken.                         *)
(***************************************************************************)
StepsOf(V, N) == [1..N -> [V -> V]]

IsRun(f, V, N, base, step) ==
    f \in [0..N -> V] /\ f[0] = base /\ \A i \in 1..N : f[i] = step[i][f[i - 1]]

LEMMA RecursionExists ==
    ASSUME NEW V, NEW N \in Nat, NEW base \in V, NEW step \in StepsOf(V, N)
    PROVE  \E f : IsRun(f, V, N, base, step)
<1> USE DEF StepsOf
<1> DEFINE Runs(n, f) == f[0] = base /\ \A i \in 1..n : f[i] = step[i][f[i - 1]]
           S == {n \in Nat : n <= N => \E f \in [0..n -> V] : Runs(n, f)}
<1>1. 0 \in S
  <2> DEFINE f == [i \in 0..0 |-> base]
  <2>1. f \in [0..0 -> V] /\ f[0] = base
    OBVIOUS
  <2>2. 1..0 = {}
    OBVIOUS
  <2> QED  BY <2>1, <2>2
<1>2. ASSUME NEW n \in Nat, n \in S PROVE n + 1 \in S
  <2>1. CASE n + 1 <= N
    <3>1. PICK f \in [0..n -> V] : Runs(n, f)
      BY <1>2, <2>1
    <3> DEFINE last == step[n + 1][f[n]]
               g == [i \in 0..(n + 1) |-> IF i = n + 1 THEN last ELSE f[i]]
    <3>2. f[n] \in V /\ n + 1 \in 1..N
      BY <2>1, <3>1
    <3>3. last \in V
      BY <3>2
    <3> HIDE DEF last
    <3>4. g \in [0..(n + 1) -> V]
      BY <3>1, <3>3
    <3>5. g[0] = base
      BY <3>1
    <3>6. ASSUME NEW i \in 1..(n + 1) PROVE g[i] = step[i][g[i - 1]]
      <4>1. CASE i = n + 1
        BY <3>1, <4>1 DEF last
      <4>2. CASE i \in 1..n
        BY <3>1, <4>2
      <4> QED  BY <4>1, <4>2
    <3> HIDE DEF g
    <3> QED  BY <3>4, <3>5, <3>6
  <2>2. CASE ~(n + 1 <= N)
    BY <2>2
  <2> QED  BY <2>1, <2>2
<1> HIDE DEF S
<1>3. Nat \subseteq S
  BY <1>1, <1>2, Induction
<1>4. N \in S
  BY <1>3
<1>5. \E f \in [0..N -> V] : Runs(N, f)
  BY <1>4 DEF S
<1> QED  BY <1>5 DEF IsRun

(* What the steps of a recursion keep, all its values have. *)
LEMMA RecursionKeeps ==
    ASSUME NEW V, NEW N \in Nat, NEW D, D[0] \in V,
           \A i \in 1..N : D[i - 1] \in V => D[i] \in V
    PROVE  \A i \in 0..N : D[i] \in V
<1> DEFINE S == {n \in Nat : n <= N => D[n] \in V}
<1>1. 0 \in S
  OBVIOUS
<1>2. ASSUME NEW n \in Nat, n \in S PROVE n + 1 \in S
  <2>1. n + 1 <= N => n + 1 \in 1..N /\ D[n] \in V /\ (n + 1) - 1 = n
    BY <1>2
  <2>2. n + 1 <= N => D[n + 1] \in V
    BY <2>1
  <2> QED  BY <2>2
<1> HIDE DEF S
<1>3. Nat \subseteq S
  BY <1>1, <1>2, Induction
<1>4. \A n \in 0..N : n \in S
  BY <1>3
<1> QED  BY <1>4 DEF S
------------------------------------------------------------------------------
(***************************************************************************)
(* Sums over a finite set.  MapThenSumSet takes the elements out one by    *)
(* one, in the order of CHOOSE; Summed is the function it defines, on all  *)
(* the subsets of S, and its existence is shown by induction on their      *)
(* size.                                                                   *)
(***************************************************************************)
Picked(s) == CHOOSE x \in s : TRUE

SumStep(g, f, s) == IF s = {} THEN 0 ELSE f[Picked(s)] + g[s \ {Picked(s)}]

Summed(f, S) == CHOOSE g : g = [s \in SUBSET S |-> SumStep(g, f, s)]

SumOf(f, S) == Summed(f, S)[S]

LEMMA FewerWithoutPicked ==
    ASSUME NEW S, IsFiniteSet(S), NEW s \in SUBSET S, s # {}
    PROVE  /\ Picked(s) \in s /\ s \ {Picked(s)} \in SUBSET S
           /\ Cardinality(s) \in Nat \ {0}
           /\ Cardinality(s \ {Picked(s)}) = Cardinality(s) - 1
<1>1. Picked(s) \in s
  BY DEF Picked
<1>2. IsFiniteSet(s)
  BY FS_Subset
<1>3. Cardinality(s) \in Nat /\ Cardinality(s) # 0
  BY <1>2, FS_CardinalityType, FS_EmptySet
<1>4. Cardinality(s \ {Picked(s)}) = Cardinality(s) - 1
  BY <1>1, <1>2, FS_RemoveElement
<1> QED  BY <1>1, <1>3, <1>4

LEMMA SumsExist ==
    ASSUME NEW S, IsFiniteSet(S), NEW f
    PROVE  Summed(f, S) = [s \in SUBSET S |-> SumStep(Summed(f, S), f, s)]
<1> DEFINE Small(n) == {s \in SUBSET S : Cardinality(s) <= n}
           Good(g, n) == \A s \in Small(n) : g[s] = SumStep(g, f, s)
           T == {n \in Nat : \E g : Good(g, n)}
<1>1. 0 \in T
  <2> DEFINE g == [s \in SUBSET S |-> 0]
  <2>1. ASSUME NEW s \in Small(0) PROVE g[s] = SumStep(g, f, s)
    <3>1. s = {}
      <4> SUFFICES ASSUME s # {} PROVE FALSE
        OBVIOUS
      <4>1. Cardinality(s) \in Nat \ {0}
        BY FewerWithoutPicked
      <4> QED  BY <4>1
    <3> QED  BY <3>1 DEF SumStep
  <2>2. Good(g, 0)
    BY <2>1
  <2> HIDE DEF g, Good
  <2> QED  BY <2>2
<1>2. ASSUME NEW n \in Nat, n \in T PROVE n + 1 \in T
  <2>1. PICK g : Good(g, n)
    BY <1>2
  <2> DEFINE h == [s \in SUBSET S |-> IF s \in Small(n) THEN g[s] ELSE SumStep(g, f, s)]
  <2>2. ASSUME NEW s \in Small(n + 1), s # {}
        PROVE  s \ {Picked(s)} \in Small(n) /\ Picked(s) \in s
    <3>1. /\ Picked(s) \in s /\ s \ {Picked(s)} \in SUBSET S /\ Cardinality(s) \in Nat
          /\ Cardinality(s \ {Picked(s)}) = Cardinality(s) - 1
      BY <2>2, FewerWithoutPicked
    <3> QED  BY <3>1
  <2>3. ASSUME NEW s \in Small(n + 1) PROVE h[s] = SumStep(h, f, s)
    <3>1. h[s] = SumStep(g, f, s)
      <4>1. CASE s \in Small(n)
        BY <2>1, <4>1
      <4>2. CASE s \notin Small(n)
        BY <4>2
      <4> QED  BY <4>1, <4>2
    <3>2. CASE s = {}
      BY <3>1, <3>2 DEF SumStep
    <3>3. CASE s # {}
      <4>1. s \ {Picked(s)} \in Small(n)
        BY <2>2, <3>3
      <4>2. h[s \ {Picked(s)}] = g[s \ {Picked(s)}]
        BY <4>1
      <4> HIDE DEF h
      <4> QED  BY <3>1, <3>3, <4>2 DEF SumStep
    <3> QED  BY <3>2, <3>3
  <2>4. Good(h, n + 1)
    BY <2>3
  <2> HIDE DEF h, Good
  <2> QED  BY <2>4
<1>3. Nat \subseteq T
  <2> HIDE DEF T
  <2> QED  BY <1>1, <1>2, Induction
<1>4. Cardinality(S) \in Nat
  BY FS_CardinalityType
<1>5. PICK g : Good(g, Cardinality(S))
  BY <1>3, <1>4
<1>6. \A s \in SUBSET S : s \in Small(Cardinality(S))
  BY FS_Subset
<1>7. \A s \in SUBSET S : g[s] = SumStep(g, f, s)
  BY <1>5, <1>6
<1> DEFINE h == [s \in SUBSET S |-> SumStep(g, f, s)]
<1>8. \A s \in SUBSET S : h[s] = g[s]
  BY <1>7
<1>9. \A s \in SUBSET S : SumStep(h, f, s) = SumStep(g, f, s)
  <2> HIDE DEF h
  <2>1. \A s \in SUBSET S : s \ {Picked(s)} \in SUBSET S
    OBVIOUS
  <2> QED  BY <1>8, <2>1 DEF SumStep
<1>10. h = [s \in SUBSET S |-> SumStep(h, f, s)]
  <2>1. h = [s \in SUBSET S |-> SumStep(g, f, s)]
    OBVIOUS
  <2> HIDE DEF h
  <2> QED  BY <1>9, <2>1
<1> HIDE DEF h
<1> QED  BY <1>10 DEF Summed

(* What MapThenSumSet computes of a function is that sum. *)
LEMMA MapThenSumIsSum ==
    ASSUME NEW f, NEW S
    PROVE  MapThenSumSet(LAMBDA x : f[x], S) = SumOf(f, S)
  BY DEF MapThenSumSet, MapThenFoldSet, SumOf, Summed, SumStep, Picked

LEMMA SumSteps ==
    ASSUME NEW S, IsFiniteSet(S), NEW f
    PROVE  /\ Summed(f, S)[{}] = 0
           /\ \A s \in SUBSET S : s # {} =>
                Summed(f, S)[s] = f[Picked(s)] + Summed(f, S)[s \ {Picked(s)}]
<1> DEFINE g == Summed(f, S)
<1>1. g = [s \in SUBSET S |-> SumStep(g, f, s)]
  BY SumsExist
<1> HIDE DEF g
<1>2. \A s \in SUBSET S : g[s] = SumStep(g, f, s)
  BY <1>1
<1> QED  BY <1>2 DEF SumStep, g

(* A fact of the empty set, and of every set if it is of the set without    *)
(* the element that is picked, is one of all the subsets.                   *)
LEMMA SubsetInduction ==
    ASSUME NEW S, IsFiniteSet(S), NEW G \in SUBSET (SUBSET S), {} \in G,
           \A s \in SUBSET S : s # {} /\ s \ {Picked(s)} \in G => s \in G
    PROVE  G = SUBSET S
<1> DEFINE T == {n \in Nat : \A s \in SUBSET S : Cardinality(s) <= n => s \in G}
<1>1. 0 \in T
  <2> SUFFICES ASSUME NEW s \in SUBSET S, Cardinality(s) <= 0 PROVE s \in G
    OBVIOUS
  <2>1. s = {}
    <3> SUFFICES ASSUME s # {} PROVE FALSE
      OBVIOUS
    <3>1. Cardinality(s) \in Nat \ {0}
      BY FewerWithoutPicked
    <3> QED  BY <3>1
  <2> QED  BY <2>1
<1>2. ASSUME NEW n \in Nat, n \in T PROVE n + 1 \in T
  <2> SUFFICES ASSUME NEW s \in SUBSET S, Cardinality(s) <= n + 1 PROVE s \in G
    OBVIOUS
  <2>1. CASE s = {}
    BY <2>1
  <2>2. CASE s # {}
    <3>1. /\ s \ {Picked(s)} \in SUBSET S /\ Cardinality(s) \in Nat
          /\ Cardinality(s \ {Picked(s)}) = Cardinality(s) - 1
      BY <2>2, FewerWithoutPicked
    <3>2. Cardinality(s \ {Picked(s)}) <= n
      BY <3>1
    <3>3. s \ {Picked(s)} \in G
      BY <1>2, <3>1, <3>2
    <3> QED  BY <2>2, <3>3
  <2> QED  BY <2>1, <2>2
<1>3. Nat \subseteq T
  <2> HIDE DEF T
  <2> QED  BY <1>1, <1>2, Induction
<1>4. ASSUME NEW s \in SUBSET S PROVE s \in G
  <2>1. Cardinality(s) \in Nat
    BY FS_Subset, FS_CardinalityType
  <2>2. Cardinality(s) \in T
    BY <1>3, <2>1
  <2> QED  BY <2>1, <2>2
<1> QED  BY <1>4

LEMMA SumInInt ==
    ASSUME NEW S, IsFiniteSet(S), NEW f, \A x \in S : f[x] \in Int
    PROVE  \A s \in SUBSET S : Summed(f, S)[s] \in Int
<1> DEFINE G == {s \in SUBSET S : Summed(f, S)[s] \in Int}
<1>1. {} \in G
  BY SumSteps
<1>2. ASSUME NEW s \in SUBSET S, s # {}, s \ {Picked(s)} \in G PROVE s \in G
  <2>1. Summed(f, S)[s] = f[Picked(s)] + Summed(f, S)[s \ {Picked(s)}]
    BY <1>2, SumSteps
  <2>2. f[Picked(s)] \in Int
    BY <1>2, FewerWithoutPicked
  <2> QED  BY <1>2, <2>1, <2>2
<1>3. G = SUBSET S
  <2> HIDE DEF G
  <2>1. G \in SUBSET (SUBSET S)
    BY DEF G
  <2> QED  BY <1>1, <1>2, <2>1, SubsetInduction
<1> QED  BY <1>3

(* A function multiplied and changed at one element changes its sum alike.  *)
LEMMA SumLinear ==
    ASSUME NEW S, IsFiniteSet(S), NEW f, \A x \in S : f[x] \in Int,
           NEW c \in Int, NEW e \in S, NEW d \in Int,
           NEW h, \A x \in S : h[x] = f[x] * c + (IF x = e THEN d ELSE 0)
    PROVE  SumOf(h, S) = SumOf(f, S) * c + d /\ SumOf(f, S) \in Int
<1> DEFINE Here(s) == IF e \in s THEN d ELSE 0
           G == {s \in SUBSET S : Summed(h, S)[s] = Summed(f, S)[s] * c + Here(s)}
<1>1. \A s \in SUBSET S : Summed(f, S)[s] \in Int
  BY SumInInt
<1>2. {} \in G
  <2>1. Summed(h, S)[{}] = 0 /\ Summed(f, S)[{}] = 0
    BY SumSteps
  <2> QED  BY <2>1
<1>3. ASSUME NEW s \in SUBSET S, s # {}, s \ {Picked(s)} \in G PROVE s \in G
  <2> DEFINE x == Picked(s)
             t == s \ {x}
  <2>1. x \in s /\ x \in S /\ t \in SUBSET S
    BY <1>3, FewerWithoutPicked
  <2>2. Summed(h, S)[s] = h[x] + Summed(h, S)[t] /\ Summed(f, S)[s] = f[x] + Summed(f, S)[t]
    BY <1>3, SumSteps
  <2>3. Summed(h, S)[t] = Summed(f, S)[t] * c + Here(t)
    BY <1>3
  <2>4. f[x] \in Int /\ Summed(f, S)[t] \in Int /\ h[x] = f[x] * c + (IF x = e THEN d ELSE 0)
    BY <1>1, <2>1
  <2>5. Here(s) = Here(t) + (IF x = e THEN d ELSE 0)
    <3>1. CASE x = e
      <4>1. e \in s /\ e \notin t
        BY <2>1, <3>1
      <4> QED  BY <3>1, <4>1
    <3>2. CASE x # e
      <4>1. e \in s <=> e \in t
        BY <3>2
      <4> QED  BY <3>2, <4>1
    <3> QED  BY <3>1, <3>2
  <2>6. Here(s) \in Int /\ Here(t) \in Int
    OBVIOUS
  <2> DEFINE a == f[x]
             b == Summed(f, S)[t]
             k == IF x = e THEN d ELSE 0
             u == Here(t)
  <2>7. a \in Int /\ b \in Int /\ k \in Int /\ u \in Int
    BY <2>4, <2>6
  <2>8. (a * c + k) + (b * c + u) = (a + b) * c + (u + k)
    <3> HIDE DEF a, b, k, u
    <3>1. (a + b) * c = a * c + b * c
      BY <2>7
    <3>2. a * c \in Int /\ b * c \in Int
      BY <2>7
    <3> QED  BY <2>7, <3>1, <3>2
  <2>9. Summed(h, S)[s] = Summed(f, S)[s] * c + Here(s)
    <3> HIDE DEF Here, x, t
    <3> QED  BY <2>2, <2>3, <2>4, <2>5, <2>8
  <2> QED  BY <2>9
<1>4. G = SUBSET S
  <2> HIDE DEF G
  <2>1. G \in SUBSET (SUBSET S)
    BY DEF G
  <2> QED  BY <1>2, <1>3, <2>1, SubsetInduction
<1>5. S \in G /\ Here(S) = d
  BY <1>4
<1> QED  BY <1>1, <1>5 DEF SumOf
------------------------------------------------------------------------------

(***************************************************************************)
(* The statements.  The balance is inductive with the types: every flow    *)
(* appears in the roll-forward of two items or with both signs.            *)
(***************************************************************************)
Items == {"cash", "ar", "ppe", "ap", "paidIn", "retained"}

BalanceTypes ==
    /\ balance \in [cash : Int, ar : Int, ppe : Int, ap : Int, paidIn : Int, retained : Int]
    /\ financing \in [Years -> Int]
    /\ year \in 0..5 /\ closed \in 0..Len(Rounds)

BalanceInv == BalanceTypes /\ StatementsBalance

LEMMA ElementOfSeq ==
    ASSUME NEW S, NEW s \in Seq(S), NEW i \in 1..Len(s) PROVE s[i] \in S
BY SMT

LEMMA FlowsAreWhole ==
    ASSUME NEW y \in Years, NEW accounts \in Nat, NEW plant \in Int
    PROVE  Flows(y, accounts, plant)
             \in [net : Int, capex : Int, da : Int, ar : Int, ap : Int]
<1> DEFINE rev    == Revenue(accounts)
           gross  == Percent(rev, GrossMargin[y])
           ebit   == gross - Percent(rev, Marketing[y]) - Percent(rev, Research[y])
                           - Percent(rev, Administration[y])
           pretax == ebit + (rev * 4) \div 1000
           capex  == Percent(rev, 6)
           net    == IF pretax > 0 THEN pretax - Percent(pretax, 15) ELSE pretax
<1>1. ASSUME NEW a \in Int, NEW p \in Int PROVE Percent(a, p) \in Int
  <2>1. a * p \in Int  BY SMT
  <2> QED  BY <2>1, SMT DEF Percent
<1>2. rev \in Int
  BY SMT DEF Revenue
<1>3. /\ GrossMargin[y] \in Int /\ Marketing[y] \in Int
      /\ Research[y] \in Int /\ Administration[y] \in Int
  BY SMT DEF Years, GrossMargin, Marketing, Research, Administration
<1>4. gross \in Int /\ capex \in Int
  <2> HIDE DEF rev
  <2>1. Percent(rev, GrossMargin[y]) \in Int
    BY <1>1, <1>2, <1>3
  <2>2. Percent(rev, 6) \in Int
    <3>1. 6 \in Int  BY SMT
    <3> QED  BY <1>1, <1>2, <3>1
  <2> QED  BY <2>1, <2>2
<1>5. ebit \in Int
  <2>1. /\ Percent(rev, Marketing[y]) \in Int /\ Percent(rev, Research[y]) \in Int
        /\ Percent(rev, Administration[y]) \in Int
    BY <1>1, <1>2, <1>3
  <2> HIDE DEF rev, gross
  <2> QED  BY <1>4, <2>1, SMT
<1>6. pretax \in Int
  <2> HIDE DEF rev, ebit
  <2> QED  BY <1>2, <1>5, SMT
<1>7. net \in Int
  <2>1. Percent(pretax, 15) \in Int  BY <1>1, <1>6
  <2> HIDE DEF pretax
  <2> QED  BY <1>6, <2>1, SMT
<1>8. Percent(plant + capex, 30) \in Int
  BY <1>1, <1>4
<1>9. (rev * 50) \div 360 \in Int /\ ((rev - gross) * 30) \div 360 \in Int
  <2> HIDE DEF rev, gross
  <2> QED  BY <1>2, <1>4, SMT
<1>10. Flows(y, accounts, plant) =
          [net |-> net, capex |-> capex, da |-> Percent(plant + capex, 30),
           ar |-> (rev * 50) \div 360, ap |-> ((rev - gross) * 30) \div 360]
  BY DEF Flows
<1> HIDE DEF rev, gross, capex, net
<1> QED  BY <1>4, <1>7, <1>8, <1>9, <1>10

LEMMA RollForwardBalances ==
    ASSUME NEW b \in [cash : Int, ar : Int, ppe : Int, ap : Int, paidIn : Int, retained : Int],
           b.cash + b.ar + b.ppe = b.ap + b.paidIn + b.retained,
           NEW f \in [net : Int, capex : Int, da : Int, ar : Int, ap : Int],
           NEW fin \in Int,
           NEW c, c = RollForward(b, f, fin)
    PROVE  /\ c \in [cash : Int, ar : Int, ppe : Int, ap : Int, paidIn : Int, retained : Int]
           /\ c.cash + c.ar + c.ppe = c.ap + c.paidIn + c.retained
BY SMT DEF RollForward

LEMMA BalanceInitInv == PlanInit => BalanceInv
<1> SUFFICES ASSUME PlanInit PROVE BalanceInv  OBVIOUS
<1> QED  BY SMT DEF PlanInit, BalanceInv, BalanceTypes, StatementsBalance, Years

LEMMA BalanceStepInv == BalanceInv /\ [PlanNext]_planVars => BalanceInv'
<1> SUFFICES ASSUME BalanceInv, [PlanNext]_planVars PROVE BalanceInv'  OBVIOUS
<1>1. CASE CloseRound
  <2> DEFINE r == Rounds[closed + 1]
  <2>1. r.year \in Years /\ r.amount \in Int /\ closed + 1 \in 0..Len(Rounds)
    <3>1. closed \in Nat /\ closed < Len(Rounds) /\ Len(Rounds) \in Nat
      BY <1>1, PlanAssumption, SMT DEF CloseRound, BalanceInv, BalanceTypes
    <3>2. closed + 1 \in 1..Len(Rounds) /\ closed + 1 \in 0..Len(Rounds)
      BY <3>1, SMT
    <3>3. r \in Terms
      BY <3>2, PlanAssumption, ElementOfSeq
    <3> HIDE DEF r
    <3> QED  BY <3>2, <3>3, SMT DEF Years, Terms
  <2>2. /\ financing' = [financing EXCEPT ![r.year] = @ + r.amount]
        /\ closed' = closed + 1
        /\ balance' = balance /\ year' = year
    BY <1>1 DEF CloseRound
  <2> HIDE DEF r
  <2> QED  BY <2>1, <2>2, SMT DEF BalanceInv, BalanceTypes, StatementsBalance
<1>2. CASE CloseYear
  <2>1. year' \in Years /\ closed' = closed /\ financing' = financing
    BY <1>2, SMT DEF CloseYear, BalanceInv, BalanceTypes, Years
  <2>2. PICK accounts \in Customers[year'] :
           balance' = RollForward(balance, Flows(year', accounts, balance.ppe), financing[year'])
    BY <1>2 DEF CloseYear
  <2>3. accounts \in Nat
    BY <2>1, <2>2, PlanAssumption DEF Years
  <2>4. balance.ppe \in Int /\ financing[year'] \in Int
    BY <2>1 DEF BalanceInv, BalanceTypes
  <2>5. Flows(year', accounts, balance.ppe)
           \in [net : Int, capex : Int, da : Int, ar : Int, ap : Int]
    BY <2>1, <2>3, <2>4, FlowsAreWhole
  <2>6. /\ balance' \in [cash : Int, ar : Int, ppe : Int, ap : Int, paidIn : Int, retained : Int]
        /\ StatementsBalance'
    BY <2>2, <2>4, <2>5, RollForwardBalances DEF BalanceInv, BalanceTypes, StatementsBalance
  <2> QED  BY <2>1, <2>6, SMT DEF BalanceInv, BalanceTypes, Years
<1>3. CASE MeetGate \/ UNCHANGED planVars
  BY <1>3 DEF MeetGate, planVars, BalanceInv, BalanceTypes, StatementsBalance
<1> QED  BY <1>1, <1>2, <1>3 DEF PlanNext

(* Total assets are liabilities and equity after every year, for every     *)
(* number of accounts and every plan of rounds.                            *)
THEOREM StatementsAlwaysBalance == PlanSpec => []StatementsBalance
<1>1. BalanceInv => StatementsBalance  BY DEF BalanceInv
<1> QED  BY <1>1, BalanceInitInv, BalanceStepInv, PTL DEF PlanSpec

(***************************************************************************)
(* The cap table.  A holder that has no stake yet gets the new one; what   *)
(* all hold is multiplied as the parts are.                                *)
(***************************************************************************)
CapInv ==
    /\ closed \in 0..Len(Rounds)
    /\ parts \in Int /\ stakes \in [Holders -> Int]
    /\ \A k \in DOMAIN Rounds : k > closed => stakes[Rounds[k].name] = 0
    /\ parts = SumOf(stakes, Holders)

LEMMA RoundTerms ==
    /\ Len(Rounds) \in Nat /\ DOMAIN Rounds = 1..Len(Rounds)
    /\ \A k \in DOMAIN Rounds :
          /\ Rounds[k] \in Terms
          /\ Rounds[k].name \in Holders /\ Rounds[k].name # "Founders" /\ Rounds[k].name # "ESOP"
          /\ \A j \in DOMAIN Rounds : j # k => Rounds[j].name # Rounds[k].name
<1>1. Len(Rounds) \in Nat /\ DOMAIN Rounds = 1..Len(Rounds)
  BY PlanAssumption
<1>2. \A k \in DOMAIN Rounds : Rounds[k] \in Terms
  BY <1>1, PlanAssumption, ElementOfSeq
<1>3. \A k \in DOMAIN Rounds : /\ Rounds[k].name \notin {"Founders", "ESOP"}
                               /\ \A j \in 1..(k - 1) : Rounds[j].name # Rounds[k].name
  BY PlanAssumption
<1>4. \A k, j \in DOMAIN Rounds : j < k => Rounds[j].name # Rounds[k].name
  BY <1>1, <1>3
<1>5. \A k, j \in DOMAIN Rounds : j # k => Rounds[j].name # Rounds[k].name
  BY <1>1, <1>4
<1> QED  BY <1>1, <1>2, <1>3, <1>5 DEF Holders

LEMMA HoldersAreFew == IsFiniteSet(Holders)
<1> DEFINE Names == {Rounds[k].name : k \in DOMAIN Rounds}
           f == [k \in DOMAIN Rounds |-> Rounds[k].name]
<1>1. IsFiniteSet(DOMAIN Rounds)
  BY RoundTerms, FS_Interval
<1>2. f \in Surjection(DOMAIN Rounds, Names)
  BY DEF Surjection
<1>3. IsFiniteSet(Names)
  BY <1>1, <1>2, FS_Surjection
<1>4. IsFiniteSet({"Founders", "ESOP"})
  <2>1. IsFiniteSet({"Founders"})
    BY FS_Singleton
  <2>2. {"Founders", "ESOP"} = {"Founders"} \union {"ESOP"}
    OBVIOUS
  <2> QED  BY <2>1, <2>2, FS_AddElement
<1> QED  BY <1>3, <1>4, FS_Union DEF Holders

LEMMA CapInitInv == PlanInit => CapInv
<1> SUFFICES ASSUME PlanInit PROVE CapInv  OBVIOUS
<1> DEFINE none == [h \in Holders |-> 0]
<1>1. stakes = [h \in Holders |-> IF h = "Founders" THEN 1 ELSE 0] /\ parts = 1 /\ closed = 0
  BY DEF PlanInit
<1>2. "Founders" \in Holders
  BY DEF Holders
<1>3. \A h \in Holders : stakes[h] = none[h] * 0 + (IF h = "Founders" THEN 1 ELSE 0)
  BY <1>1
<1>4. SumOf(stakes, Holders) = SumOf(none, Holders) * 0 + 1 /\ SumOf(none, Holders) \in Int
  <2>1. \A h \in Holders : none[h] \in Int
    OBVIOUS
  <2> HIDE DEF none
  <2> QED  BY <1>2, <1>3, <2>1, HoldersAreFew, SumLinear
<1>5. \A k \in DOMAIN Rounds : stakes[Rounds[k].name] = 0
  BY <1>1, RoundTerms
<1>6. stakes \in [Holders -> Int]
  BY <1>1
<1>7. SumOf(stakes, Holders) = 1
  BY <1>4
<1> QED  BY <1>1, <1>5, <1>6, <1>7, RoundTerms DEF CapInv

LEMMA CapStepInv == CapInv /\ [PlanNext]_planVars => CapInv'
<1> SUFFICES ASSUME CapInv, [PlanNext]_planVars PROVE CapInv'  OBVIOUS
<1>1. CASE CloseRound
  <2> DEFINE r == Rounds[closed + 1]
             p == r.share.part
             o == r.share.of
             q == r.options.part
             s == r.options.of
             invested == [h \in Holders |-> IF h = r.name THEN parts * p ELSE stakes[h] * (o - p)]
             kept == [h \in Holders |-> invested[h] * (s - q) + IF h = "ESOP" THEN parts * o * q ELSE 0]
  <2>1. /\ stakes' = kept /\ parts' = parts * o * s /\ closed' = closed + 1
        /\ closed < Len(Rounds)
    BY <1>1 DEF CloseRound
  <2>2. closed + 1 \in DOMAIN Rounds /\ closed \in Nat
    BY <2>1, RoundTerms DEF CapInv
  <2>3. r \in Terms
    BY <2>2, RoundTerms
  <2>4. p \in Int /\ o \in Int /\ q \in Int /\ s \in Int
    BY <2>3 DEF Terms
  <2>5. r.name \in Holders /\ stakes[r.name] = 0
    <3>1. closed + 1 > closed
      BY <2>2
    <3> QED  BY <2>2, <3>1, RoundTerms DEF CapInv
  <2>6. \A h \in Holders : stakes[h] \in Int
    BY DEF CapInv
  <2>7. parts \in Int /\ parts * p \in Int /\ o - p \in Int /\ s - q \in Int /\ parts * o * q \in Int
    <3> HIDE DEF r, p, o, q, s
    <3>1. parts \in Int
      BY DEF CapInv
    <3>2. parts * p \in Int /\ parts * o \in Int
      BY <2>4, <3>1
    <3>3. parts * o * q \in Int
      BY <2>4, <3>2
    <3> QED  BY <2>4, <3>1, <3>2, <3>3
  <2>8. \A h \in Holders : invested[h] = stakes[h] * (o - p) + (IF h = r.name THEN parts * p ELSE 0)
    <3> HIDE DEF o, p
    <3> SUFFICES ASSUME NEW h \in Holders
                 PROVE  invested[h] = stakes[h] * (o - p) + (IF h = r.name THEN parts * p ELSE 0)
      OBVIOUS
    <3> DEFINE a == stakes[h] * (o - p)
    <3>1. a \in Int
      <4> HIDE DEF r
      <4> QED  BY <2>6, <2>7
    <3>2. CASE h = r.name
      <4> DEFINE b == parts * p
      <4>1. a = 0
        <5> HIDE DEF r
        <5> QED  BY <2>5, <2>7, <3>2
      <4>2. invested[h] = b
        BY <3>2
      <4>3. b \in Int
        BY <2>7
      <4>4. 0 + b = b
        <5> HIDE DEF b
        <5> QED  BY <4>3
      <4> HIDE DEF b, invested, r
      <4>5. (IF h = r.name THEN b ELSE 0) = b
        BY <3>2
      <4> QED  BY <4>1, <4>2, <4>4, <4>5 DEF b
    <3>3. CASE h # r.name
      <4>1. invested[h] = a
        BY <3>3
      <4> HIDE DEF invested, r
      <4>2. a + 0 = a
        <5> HIDE DEF a
        <5> QED  BY <3>1
      <4> QED  BY <3>3, <4>1, <4>2
    <3> QED  BY <3>2, <3>3
  <2>9. SumOf(invested, Holders) = SumOf(stakes, Holders) * (o - p) + parts * p
    <3> DEFINE c == o - p
               d == parts * p
               e == r.name
               f == invested
               g == stakes
    <3>1. c \in Int /\ d \in Int /\ e \in Holders
      BY <2>5, <2>7
    <3>2. \A h \in Holders : f[h] = g[h] * c + (IF h = e THEN d ELSE 0)
      BY <2>8
    <3>3. \A h \in Holders : g[h] \in Int
      BY <2>6
    <3> HIDE DEF c, d, e, f, g
    <3>4. SumOf(f, Holders) = SumOf(g, Holders) * c + d
      BY <3>1, <3>2, <3>3, HoldersAreFew, SumLinear
    <3> QED  BY <3>4 DEF c, d, f, g
  <2>10. \A h \in Holders : invested[h] \in Int
    <3> SUFFICES ASSUME NEW h \in Holders PROVE invested[h] \in Int
      OBVIOUS
    <3>1. invested[h] = IF h = r.name THEN parts * p ELSE stakes[h] * (o - p)
      OBVIOUS
    <3> HIDE DEF invested, o, p, r
    <3> QED  BY <2>6, <2>7, <3>1
  <2>11. \A h \in Holders : kept[h] = invested[h] * (s - q) + (IF h = "ESOP" THEN parts * o * q ELSE 0)
    OBVIOUS
  <2>12. "ESOP" \in Holders
    BY DEF Holders
  <2>13. SumOf(kept, Holders) = SumOf(invested, Holders) * (s - q) + parts * o * q
    <3> DEFINE c == s - q
               d == parts * o * q
               f == kept
               g == invested
    <3>1. c \in Int /\ d \in Int
      BY <2>7
    <3>2. \A h \in Holders : f[h] = g[h] * c + (IF h = "ESOP" THEN d ELSE 0)
      BY <2>11
    <3>3. \A h \in Holders : g[h] \in Int
      BY <2>10
    <3> HIDE DEF c, d, f, g
    <3>4. SumOf(f, Holders) = SumOf(g, Holders) * c + d
      BY <2>12, <3>1, <3>2, <3>3, HoldersAreFew, SumLinear
    <3> QED  BY <3>4 DEF c, d, f, g
  <2>14. parts' = SumOf(kept, Holders)
    <3> HIDE DEF invested, kept, o, p, q, s, r
    <3>1. parts * (o - p) + parts * p = parts * o
      BY <2>4, <2>7
    <3>2. SumOf(invested, Holders) = parts * o
      BY <2>9, <3>1 DEF CapInv
    <3> DEFINE t == parts * o
    <3>3. t \in Int
      BY <2>4, <2>7
    <3>4. t * (s - q) + t * q = t * s
      <4> HIDE DEF t
      <4> QED  BY <2>4, <3>3
    <3> QED  BY <2>1, <2>13, <3>2, <3>4
  <2>15. \A h \in Holders : kept[h] \in Int
    <3> SUFFICES ASSUME NEW h \in Holders PROVE kept[h] \in Int
      OBVIOUS
    <3>1. kept[h] = invested[h] * (s - q) + (IF h = "ESOP" THEN parts * o * q ELSE 0)
      OBVIOUS
    <3> HIDE DEF invested, kept, o, p, q, s, r
    <3>2. invested[h] \in Int
      BY <2>10
    <3>3. invested[h] * (s - q) \in Int
      BY <2>7, <3>2
    <3> QED  BY <2>7, <3>1, <3>3
  <2>16. parts' \in Int
    <3> HIDE DEF invested, kept, o, p, q, s, r
    <3>1. parts * o \in Int
      BY <2>4, <2>7
    <3> QED  BY <2>1, <2>4, <3>1
  <2>17. ASSUME NEW k \in DOMAIN Rounds, k > closed + 1 PROVE kept[Rounds[k].name] = 0
    <3>1. Rounds[k].name \in Holders /\ Rounds[k].name # "ESOP" /\ Rounds[k].name # r.name
      BY <2>2, <2>17, RoundTerms
    <3>2. stakes[Rounds[k].name] = 0
      BY <2>2, <2>17, RoundTerms DEF CapInv
    <3> DEFINE h == Rounds[k].name
    <3>3. invested[h] = stakes[h] * (o - p)
      BY <3>1
    <3>4. kept[h] = invested[h] * (s - q) + 0
      BY <3>1
    <3> HIDE DEF invested, kept, o, p, q, s, r, h
    <3>5. stakes[h] = 0
      BY <3>2 DEF h
    <3>6. invested[h] = 0
      BY <2>7, <3>3, <3>5
    <3>7. kept[h] = 0
      BY <2>7, <3>4, <3>6
    <3> QED  BY <3>7 DEF h
  <2>18. kept \in [Holders -> Int]
    BY <2>15
  <2>19. closed' \in 0..Len(Rounds)
    BY <2>1, <2>2, RoundTerms
  <2> HIDE DEF kept, r, p, o, q, s
  <2> QED  BY <2>1, <2>14, <2>16, <2>17, <2>18, <2>19 DEF CapInv
<1>2. CASE CloseYear \/ MeetGate \/ UNCHANGED planVars
  BY <1>2 DEF CloseYear, MeetGate, planVars, CapInv
<1> QED  BY <1>1, <1>2 DEF PlanNext

(* After every round of any plan the stakes are the whole company.         *)
THEOREM CapTableStaysWhole == PlanSpec => []CapTableIsWhole
<1>1. CapInv => CapTableIsWhole
  BY MapThenSumIsSum DEF CapInv, CapTableIsWhole
<1> QED  BY <1>1, CapInitInv, CapStepInv, PTL DEF PlanSpec

(***************************************************************************)
(* The capital.  What the rounds closed so far bring is spread over the    *)
(* years; what is paid in is the share of the years closed.                *)
(***************************************************************************)
Raised(n) == [k \in DOMAIN Rounds |-> IF k <= n THEN Rounds[k].amount ELSE 0]

InFiveYears(f) == f[1] + f[2] + f[3] + f[4] + f[5]

ByTheYear(f, n) ==
    (IF n >= 1 THEN f[1] ELSE 0) + (IF n >= 2 THEN f[2] ELSE 0) + (IF n >= 3 THEN f[3] ELSE 0)
      + (IF n >= 4 THEN f[4] ELSE 0) + (IF n >= 5 THEN f[5] ELSE 0)

CapitalInv ==
    /\ BalanceInv
    /\ InFiveYears(financing) = SumOf(Raised(closed), DOMAIN Rounds)
    /\ balance.paidIn = ByTheYear(financing, year)
    /\ year > 0 => closed = Len(Rounds)

LEMMA RoundsAreFew ==
    /\ IsFiniteSet(DOMAIN Rounds)
    /\ \A k \in DOMAIN Rounds : Rounds[k].amount \in Int /\ Rounds[k].year \in Years
<1>1. \A k \in DOMAIN Rounds : Rounds[k] \in Terms
  BY RoundTerms
<1>2. IsFiniteSet(DOMAIN Rounds)
  BY RoundTerms, FS_Interval
<1>3. ASSUME NEW t \in Terms PROVE t.amount \in Int /\ t.year \in Years
  BY DEF Terms, Years
<1> QED  BY <1>1, <1>2, <1>3

LEMMA SumAddsOne ==
    ASSUME NEW S, IsFiniteSet(S), NEW f, \A x \in S : f[x] \in Int,
           NEW e \in S, NEW d \in Int,
           NEW h, \A x \in S : h[x] = f[x] + (IF x = e THEN d ELSE 0)
    PROVE  SumOf(h, S) = SumOf(f, S) + d /\ SumOf(f, S) \in Int
<1>1. \A x \in S : h[x] = f[x] * 1 + (IF x = e THEN d ELSE 0)
  <2> SUFFICES ASSUME NEW x \in S PROVE h[x] = f[x] * 1 + (IF x = e THEN d ELSE 0)
    OBVIOUS
  <2>1. f[x] * 1 = f[x]
    OBVIOUS
  <2> QED  BY <2>1
<1>2. SumOf(h, S) = SumOf(f, S) * 1 + d /\ SumOf(f, S) \in Int
  BY <1>1, SumLinear
<1>3. SumOf(f, S) * 1 = SumOf(f, S)
  BY <1>2
<1> QED  BY <1>2, <1>3

LEMMA NothingRaised == SumOf(Raised(0), DOMAIN Rounds) = 0
<1> DEFINE f == Raised(0)
           S == DOMAIN Rounds
<1>1. \A k \in S : f[k] = 0
  BY RoundTerms DEF Raised
<1>2. CASE S = {}
  <2>1. SumOf(f, S) = Summed(f, S)[{}]
    BY <1>2 DEF SumOf
  <2>2. Summed(f, S)[{}] = 0
    BY RoundsAreFew, SumSteps
  <2> QED  BY <2>1, <2>2
<1>3. CASE S # {}
  <2>1. PICK e \in S : TRUE
    BY <1>3
  <2> HIDE DEF f, S
  <2>2. \A k \in S : f[k] \in Int /\ f[k] = f[k] * 0 + (IF k = e THEN 0 ELSE 0)
    BY <1>1
  <2>3. IsFiniteSet(S)
    BY RoundsAreFew DEF S
  <2>4. SumOf(f, S) = SumOf(f, S) * 0 + 0 /\ SumOf(f, S) \in Int
    BY <2>1, <2>2, <2>3, SumLinear
  <2>5. SumOf(f, S) = 0
    BY <2>4
  <2> QED  BY <2>5 DEF f, S
<1> QED  BY <1>2, <1>3

LEMMA NextRaised ==
    ASSUME NEW n \in 0..(Len(Rounds) - 1)
    PROVE  /\ SumOf(Raised(n + 1), DOMAIN Rounds)
                = SumOf(Raised(n), DOMAIN Rounds) + Rounds[n + 1].amount
           /\ SumOf(Raised(n), DOMAIN Rounds) \in Int
<1> DEFINE f == Raised(n)
           h == Raised(n + 1)
           e == n + 1
           d == Rounds[n + 1].amount
           S == DOMAIN Rounds
<1>1. e \in S /\ d \in Int /\ IsFiniteSet(S) /\ S \subseteq Nat
  BY RoundTerms, RoundsAreFew
<1>2. \A k \in S : Rounds[k].amount \in Int
  BY RoundsAreFew
<1>3. \A k \in S : f[k] = IF k <= n THEN Rounds[k].amount ELSE 0
  BY DEF Raised
<1>4. \A k \in S : h[k] = IF k <= n + 1 THEN Rounds[k].amount ELSE 0
  BY DEF Raised
<1>5. \A k \in S : f[k] \in Int
  BY <1>2, <1>3
<1>6. ASSUME NEW k \in S PROVE h[k] = f[k] + (IF k = e THEN d ELSE 0)
  <2>1. CASE k <= n
    <3>1. h[k] = f[k] /\ k # e /\ f[k] \in Int
      BY <1>1, <1>3, <1>4, <1>5, <2>1
    <3> HIDE DEF f, h, e, d
    <3> QED  BY <3>1
  <2>2. CASE k = e
    <3>1. h[k] = d /\ f[k] = 0
      BY <1>1, <1>3, <1>4, <2>2
    <3> HIDE DEF f, h, e, d
    <3> QED  BY <1>1, <2>2, <3>1
  <2>3. CASE ~(k <= n) /\ k # e
    <3>1. h[k] = 0 /\ f[k] = 0
      BY <1>1, <1>3, <1>4, <2>3
    <3> HIDE DEF f, h, e, d
    <3> QED  BY <2>3, <3>1
  <2> QED  BY <2>1, <2>2, <2>3
<1> HIDE DEF f, h, e, d, S
<1>7. SumOf(h, S) = SumOf(f, S) + d /\ SumOf(f, S) \in Int
  <2>1. IsFiniteSet(S) /\ e \in S /\ d \in Int
    BY <1>1
  <2>2. \A k \in S : h[k] = f[k] + (IF k = e THEN d ELSE 0)
    BY <1>6
  <2>3. SumOf(h, S) = SumOf(f, S) + d
    BY <1>5, <2>1, <2>2, SumAddsOne
  <2>4. SumOf(f, S) \in Int
    BY <1>5, <2>1, <2>2, SumAddsOne
  <2> QED  BY <2>3, <2>4
<1> QED  BY <1>7 DEF f, h, d, S

LEMMA CapitalInitInv == PlanInit => CapitalInv
<1> SUFFICES ASSUME PlanInit PROVE CapitalInv  OBVIOUS
<1>1. financing = [y \in Years |-> 0] /\ closed = 0 /\ year = 0 /\ balance.paidIn = 0
  BY DEF PlanInit
<1>2. InFiveYears(financing) = 0 /\ ByTheYear(financing, year) = 0
  BY <1>1 DEF InFiveYears, ByTheYear, Years
<1> QED  BY <1>1, <1>2, NothingRaised, BalanceInitInv DEF CapitalInv

LEMMA CapitalStepInv == CapitalInv /\ [PlanNext]_planVars => CapitalInv'
<1> SUFFICES ASSUME CapitalInv, [PlanNext]_planVars PROVE CapitalInv'  OBVIOUS
<1>1. BalanceInv /\ BalanceInv'
  BY BalanceStepInv DEF CapitalInv
<1>2. /\ financing \in [Years -> Int] /\ financing' \in [Years -> Int]
      /\ year \in 0..5 /\ closed \in 0..Len(Rounds)
  BY <1>1 DEF BalanceInv, BalanceTypes
<1>3. CASE CloseRound
  <2> DEFINE r == Rounds[closed + 1]
             y == r.year
             d == r.amount
  <2>1. /\ financing' = [financing EXCEPT ![y] = @ + d]
        /\ closed' = closed + 1 /\ closed < Len(Rounds)
        /\ balance' = balance /\ year' = year
    BY <1>3 DEF CloseRound
  <2>2. closed \in 0..(Len(Rounds) - 1) /\ closed + 1 \in DOMAIN Rounds
    BY <1>2, <2>1, RoundTerms
  <2>3. y \in 1..5 /\ d \in Int
    BY <2>2, RoundsAreFew DEF Years
  <2>4. /\ SumOf(Raised(closed'), DOMAIN Rounds) = SumOf(Raised(closed), DOMAIN Rounds) + d
        /\ SumOf(Raised(closed), DOMAIN Rounds) \in Int
    BY <2>1, <2>2, NextRaised
  <2>5. year = 0
    BY <1>2, <2>1, <2>2 DEF CapitalInv
  <2> HIDE DEF r, y, d
  <2>6. InFiveYears(financing') = InFiveYears(financing) + d
    <3>1. \A i \in 1..5 : financing[i] \in Int
      BY <1>2 DEF Years
    <3>2. \A i \in 1..5 : financing'[i] = IF i = y THEN financing[i] + d ELSE financing[i]
      BY <1>2, <2>1 DEF Years
    <3>3. /\ financing'[1] = IF 1 = y THEN financing[1] + d ELSE financing[1]
          /\ financing'[2] = IF 2 = y THEN financing[2] + d ELSE financing[2]
          /\ financing'[3] = IF 3 = y THEN financing[3] + d ELSE financing[3]
          /\ financing'[4] = IF 4 = y THEN financing[4] + d ELSE financing[4]
          /\ financing'[5] = IF 5 = y THEN financing[5] + d ELSE financing[5]
      BY <3>2
    <3>4. /\ financing[1] \in Int /\ financing[2] \in Int /\ financing[3] \in Int
          /\ financing[4] \in Int /\ financing[5] \in Int
      BY <3>1
    <3>5. y = 1 \/ y = 2 \/ y = 3 \/ y = 4 \/ y = 5
      BY <2>3
    <3> QED  BY <2>3, <3>3, <3>4, <3>5 DEF InFiveYears
  <2>7. ByTheYear(financing', year') = 0 /\ ByTheYear(financing, year) = 0
    BY <2>1, <2>5 DEF ByTheYear
  <2> QED  BY <1>1, <2>1, <2>4, <2>5, <2>6, <2>7 DEF CapitalInv
<1>4. CASE CloseYear
  <2>1. /\ closed = Len(Rounds) /\ year < 5 /\ year' = year + 1
        /\ closed' = closed /\ financing' = financing
    BY <1>4 DEF CloseYear
  <2>2. balance'.paidIn = balance.paidIn + financing[year + 1]
    BY <1>4 DEF CloseYear, RollForward
  <2>3. ByTheYear(financing', year') = ByTheYear(financing, year) + financing[year + 1]
    BY <1>2, <2>1 DEF ByTheYear, Years
  <2> QED  BY <1>1, <2>1, <2>2, <2>3 DEF CapitalInv
<1>5. CASE MeetGate \/ UNCHANGED planVars
  <2>1. UNCHANGED <<financing, closed, year, balance>>
    BY <1>5 DEF MeetGate, planVars
  <2> QED  BY <1>1, <2>1 DEF CapitalInv
<1> QED  BY <1>3, <1>4, <1>5 DEF PlanNext

(* When the last year is closed, what was paid in is what all the rounds of *)
(* the plan raised, whatever they are and in whichever years they fall.     *)
THEOREM CapitalIsWhatWasRaised == PlanSpec => []CapitalIsRaised
<1>1. ASSUME CapitalInv PROVE CapitalIsRaised
  <2> DEFINE amounts == [k \in DOMAIN Rounds |-> Rounds[k].amount]
  <2> SUFFICES ASSUME year = 5
               PROVE  balance.paidIn = MapThenSumSet(LAMBDA k : amounts[k], DOMAIN Rounds)
    BY DEF CapitalIsRaised
  <2>1. closed = Len(Rounds) /\ financing \in [Years -> Int]
    BY <1>1 DEF CapitalInv, BalanceInv, BalanceTypes
  <2>2. Raised(closed) = amounts
    BY <2>1, RoundTerms DEF Raised
  <2>3. balance.paidIn = InFiveYears(financing)
    BY <1>1, <2>1 DEF CapitalInv, ByTheYear, InFiveYears, Years
  <2>4. balance.paidIn = SumOf(amounts, DOMAIN Rounds)
    BY <1>1, <2>2, <2>3 DEF CapitalInv
  <2> HIDE DEF amounts
  <2> QED  BY <2>4, MapThenSumIsSum
<1> QED  BY <1>1, CapitalInitInv, CapitalStepInv, PTL DEF PlanSpec

(***************************************************************************)
(* The rounds as the plan has them.  How many are closed determines what    *)
(* the lead investor holds, which stays worth something at every gate; and *)
(* the accounts bound what a year spends.                                  *)
(***************************************************************************)
AsPlanned ==
    /\ Rounds = PlannedRounds
    /\ \A y \in Years : Customers[y] \subseteq 0..PlannedAccounts[y]
    /\ WeightedEV \in Nat /\ WeightedEV >= 1000 /\ ExitPercents \subseteq Int

PartsAfter == <<1, 5 * 10, 5 * 10 * 45 * 20, 5 * 10 * 45 * 20 * 13 * 100,
                5 * 10 * 45 * 20 * 13 * 100 * 60 * 50>>
LeadAfter == <<0, 9, 9 * 37 * 19, 9 * 37 * 19 * 11 * 97, 9 * 37 * 19 * 11 * 97 * 53 * 49>>
LeadShare == <<1800, 1406, 1154, 998>>

LeadInv ==
    /\ CapInv /\ year \in 0..5 /\ (year > 0 => closed = 4)
    /\ closed \in 0..4 /\ gate \in 1..4
    /\ parts = PartsAfter[closed + 1]
    /\ stakes["Seed"] = LeadAfter[closed + 1]
    /\ leadPath \in Seq(Int) /\ Len(leadPath) = closed
    /\ \A i \in 1..closed : leadPath[i] = LeadShare[i]
    /\ OutcomesPartition

LEMMA PlannedTerms ==
    ASSUME AsPlanned
    PROVE  /\ Len(Rounds) = 4 /\ "Seed" \in Holders /\ Rounds[1].name = "Seed"
           /\ Rounds[1].share = [part |-> 1, of |-> 5] /\ Rounds[1].options = [part |-> 1, of |-> 10]
           /\ Rounds[2].share = [part |-> 8, of |-> 45] /\ Rounds[2].options = [part |-> 1, of |-> 20]
           /\ Rounds[3].share = [part |-> 2, of |-> 13] /\ Rounds[3].options = [part |-> 3, of |-> 100]
           /\ Rounds[4].share = [part |-> 7, of |-> 60] /\ Rounds[4].options = [part |-> 1, of |-> 50]
           /\ Rounds[1].year = 1 /\ Rounds[2].year = 2 /\ Rounds[3].year = 3 /\ Rounds[4].year = 4
           /\ Rounds[1].amount = 2000 /\ Rounds[2].amount = 8000
           /\ Rounds[3].amount = 20000 /\ Rounds[4].amount = 35000
           /\ \A k \in 2..4 : Rounds[k].name # "Seed"
<1>1. Rounds = PlannedRounds
  BY DEF AsPlanned
<1>2. Len(Rounds) = 4 /\ Rounds[1].name = "Seed"
  BY <1>1 DEF PlannedRounds
<1>3. "Seed" \in Holders
  BY <1>2, RoundTerms
<1>4. /\ Rounds[1] = [name |-> "Seed", year |-> 1, amount |-> 2000,
            share |-> [part |-> 1, of |-> 5], options |-> [part |-> 1, of |-> 10]]
      /\ Rounds[2] = [name |-> "A", year |-> 2, amount |-> 8000,
            share |-> [part |-> 8, of |-> 45], options |-> [part |-> 1, of |-> 20]]
      /\ Rounds[3] = [name |-> "B", year |-> 3, amount |-> 20000,
            share |-> [part |-> 2, of |-> 13], options |-> [part |-> 3, of |-> 100]]
      /\ Rounds[4] = [name |-> "C", year |-> 4, amount |-> 35000,
            share |-> [part |-> 7, of |-> 60], options |-> [part |-> 1, of |-> 50]]
  BY <1>1 DEF PlannedRounds
<1>5. \A k \in 2..4 : Rounds[k].name # "Seed"
  <2>1. Rounds[2].name = "A" /\ Rounds[3].name = "B" /\ Rounds[4].name = "C"
    BY <1>4
  <2>2. ASSUME NEW k \in 2..4 PROVE k = 2 \/ k = 3 \/ k = 4
    OBVIOUS
  <2> QED  BY <2>1, <2>2
<1> QED  BY <1>2, <1>3, <1>4, <1>5

LEMMA LeadInitInv == AsPlanned /\ PlanInit => LeadInv
<1> SUFFICES ASSUME AsPlanned, PlanInit PROVE LeadInv  OBVIOUS
<1>1. CapInv
  BY CapInitInv
<1>2. /\ closed = 0 /\ parts = 1 /\ leadPath = << >> /\ year = 0 /\ gate = 1
      /\ leadOutcome = NoLeadOutcome
      /\ stakes = [h \in Holders |-> IF h = "Founders" THEN 1 ELSE 0]
  BY DEF PlanInit
<1>3. stakes["Seed"] = 0
  BY <1>2, PlannedTerms
<1>4. PartsAfter[1] = 1 /\ LeadAfter[1] = 0
  BY DEF PartsAfter, LeadAfter
<1>5. OutcomesPartition
  BY <1>2 DEF OutcomesPartition
<1> QED  BY <1>1, <1>2, <1>3, <1>4, <1>5 DEF LeadInv

(* A round multiplies the parts and the lead's, who pays for none but the  *)
(* first.                                                                  *)
LEMMA LeadAfterRound ==
    ASSUME AsPlanned, LeadInv, CloseRound
    PROVE  /\ parts' = PartsAfter[closed + 2] /\ stakes'["Seed"] = LeadAfter[closed + 2]
           /\ (stakes'["Seed"] * 10000) \div parts' = LeadShare[closed + 1]
<1> DEFINE r == Rounds[closed + 1]
           p == r.share.part
           o == r.share.of
           q == r.options.part
           s == r.options.of
<1>1. closed \in 0..3
  <2>1. closed < 4 /\ closed \in 0..4
    <3>1. closed < Len(Rounds)
      BY DEF CloseRound
    <3>2. Len(Rounds) = 4
      BY PlannedTerms
    <3> QED  BY <3>1, <3>2 DEF LeadInv
  <2> QED  BY <2>1
<1>2. /\ parts' = parts * o * s
      /\ stakes'["Seed"] = (IF "Seed" = r.name THEN parts * p ELSE stakes["Seed"] * (o - p)) * (s - q)
                             + IF "Seed" = "ESOP" THEN parts * o * q ELSE 0
  BY PlannedTerms DEF CloseRound
<1>3. stakes'["Seed"] = (IF "Seed" = r.name THEN parts * p ELSE stakes["Seed"] * (o - p)) * (s - q) + 0
  BY <1>2
<1>4. parts = PartsAfter[closed + 1] /\ stakes["Seed"] = LeadAfter[closed + 1]
  BY DEF LeadInv
<1>5. CASE closed = 0
  <2>1. p = 1 /\ o = 5 /\ q = 1 /\ s = 10 /\ r.name = "Seed"
    BY <1>5, PlannedTerms
  <2>2. parts = 1
    BY <1>4, <1>5 DEF PartsAfter
  <2>3. stakes'["Seed"] = (parts * p) * (s - q) + 0
    BY <1>3, <2>1
  <2> HIDE DEF r, p, o, q, s
  <2>4. parts' = 50 /\ stakes'["Seed"] = 9
    BY <1>2, <2>1, <2>2, <2>3
  <2> QED  BY <1>5, <2>4 DEF PartsAfter, LeadAfter, LeadShare
<1>6. CASE closed = 1
  <2>1. p = 8 /\ o = 45 /\ q = 1 /\ s = 20 /\ r.name # "Seed"
    BY <1>6, PlannedTerms
  <2>2. parts = 50 /\ stakes["Seed"] = 9
    BY <1>4, <1>6 DEF PartsAfter, LeadAfter
  <2>3. stakes'["Seed"] = (stakes["Seed"] * (o - p)) * (s - q) + 0
    BY <1>3, <2>1
  <2> HIDE DEF r, p, o, q, s
  <2>4. parts' = 5 * 10 * 45 * 20 /\ stakes'["Seed"] = 9 * 37 * 19
    BY <1>2, <2>1, <2>2, <2>3
  <2> QED  BY <1>6, <2>4 DEF PartsAfter, LeadAfter, LeadShare
<1>7. CASE closed = 2
  <2>1. p = 2 /\ o = 13 /\ q = 3 /\ s = 100 /\ r.name # "Seed"
    BY <1>7, PlannedTerms
  <2>2. parts = 5 * 10 * 45 * 20 /\ stakes["Seed"] = 9 * 37 * 19
    BY <1>4, <1>7 DEF PartsAfter, LeadAfter
  <2>3. stakes'["Seed"] = (stakes["Seed"] * (o - p)) * (s - q) + 0
    BY <1>3, <2>1
  <2> HIDE DEF r, p, o, q, s
  <2>4. parts' = 5 * 10 * 45 * 20 * 13 * 100 /\ stakes'["Seed"] = 9 * 37 * 19 * 11 * 97
    BY <1>2, <2>1, <2>2, <2>3
  <2>5. PartsAfter[4] = parts' /\ LeadAfter[4] = stakes'["Seed"]
    BY <2>4 DEF PartsAfter, LeadAfter
  <2>6. (stakes'["Seed"] * 10000) \div parts' = 1154
    BY <2>4
  <2>7. LeadShare[3] = 1154
    BY DEF LeadShare
  <2>8. closed + 1 = 3 /\ closed + 2 = 4
    BY <1>7
  <2> DEFINE v == (stakes'["Seed"] * 10000) \div parts'
  <2>9. v = 1154
    BY <2>6
  <2> HIDE DEF v
  <2>10. v = LeadShare[closed + 1]
    BY <2>7, <2>8, <2>9
  <2>11. parts' = PartsAfter[closed + 2] /\ stakes'["Seed"] = LeadAfter[closed + 2]
    BY <2>5, <2>8
  <2> QED  BY <2>10, <2>11 DEF v
<1>8. CASE closed = 3
  <2>1. p = 7 /\ o = 60 /\ q = 1 /\ s = 50 /\ r.name # "Seed"
    BY <1>8, PlannedTerms
  <2>2. parts = 5 * 10 * 45 * 20 * 13 * 100 /\ stakes["Seed"] = 9 * 37 * 19 * 11 * 97
    BY <1>4, <1>8 DEF PartsAfter, LeadAfter
  <2>3. stakes'["Seed"] = (stakes["Seed"] * (o - p)) * (s - q) + 0
    BY <1>3, <2>1
  <2> HIDE DEF r, p, o, q, s
  <2>4. parts' = 5 * 10 * 45 * 20 * 13 * 100 * 60 * 50 /\ stakes'["Seed"] = 9 * 37 * 19 * 11 * 97 * 53 * 49
    BY <1>2, <2>1, <2>2, <2>3
  <2>5. PartsAfter[5] = parts' /\ LeadAfter[5] = stakes'["Seed"]
    BY <2>4 DEF PartsAfter, LeadAfter
  <2>6. (stakes'["Seed"] * 10000) \div parts' = 998
    BY <2>4
  <2>7. LeadShare[4] = 998
    BY DEF LeadShare
  <2>8. closed + 1 = 4 /\ closed + 2 = 5
    BY <1>8
  <2> DEFINE v == (stakes'["Seed"] * 10000) \div parts'
  <2>9. v = 998
    BY <2>6
  <2> HIDE DEF v
  <2>10. v = LeadShare[closed + 1]
    BY <2>7, <2>8, <2>9
  <2>11. parts' = PartsAfter[closed + 2] /\ stakes'["Seed"] = LeadAfter[closed + 2]
    BY <2>5, <2>8
  <2> QED  BY <2>10, <2>11 DEF v
<1> QED  BY <1>1, <1>5, <1>6, <1>7, <1>8

(* Each exit from a gate is worth something but the loss.                  *)
LEMMA ExitsAreWorthIt ==
    ASSUME AsPlanned, LeadInv, MeetGate
    PROVE  OutcomesPartition'
<1>1. year = 5 /\ closed = 4 /\ gate \in 1..4
  BY DEF MeetGate, LeadInv
<1>2. leadPath[1] = 1800 /\ leadPath[2] = 1406 /\ leadPath[3] = 1154 /\ leadPath[4] = 998
  <2>1. \A i \in 1..4 : leadPath[i] = LeadShare[i]
    BY <1>1 DEF LeadInv
  <2> QED  BY <2>1 DEF LeadShare
<1>3. /\ PostMoney(1) = 10000 /\ PostMoney(2) = 45000
      /\ PostMoney(3) = 130000 /\ PostMoney(4) = 300000
  BY PlannedTerms DEF PostMoney
<1>4. /\ RefPremoney(1) = 37000 /\ RefPremoney(2) = 110000
      /\ RefPremoney(3) = 265000 /\ RefPremoney(4) = 300000
  BY <1>3, PlannedTerms DEF RefPremoney, LastGate
<1>5. Payout(gate, Percent(RefPremoney(gate), Recovered[gate])) \in Nat \ {0}
  <2>1. CASE gate = 1
    <3>1. Percent(RefPremoney(1), Recovered[1]) = 12950
      BY <1>4 DEF Percent, Recovered
    <3> QED  BY <1>2, <2>1, <3>1 DEF Payout, StakeBefore
  <2>2. CASE gate = 2
    <3>1. Percent(RefPremoney(2), Recovered[2]) = 49500
      BY <1>4 DEF Percent, Recovered
    <3> QED  BY <1>2, <2>2, <3>1 DEF Payout, StakeBefore
  <2>3. CASE gate = 3
    <3>1. Percent(RefPremoney(3), Recovered[3]) = 132500
      BY <1>4 DEF Percent, Recovered
    <3> QED  BY <1>2, <2>3, <3>1 DEF Payout, StakeBefore
  <2>4. CASE gate = 4
    <3>1. Percent(RefPremoney(4), Recovered[4]) = 165000
      BY <1>4 DEF Percent, Recovered
    <3> QED  BY <1>2, <2>4, <3>1 DEF Payout, StakeBefore
  <2> QED  BY <1>1, <2>1, <2>2, <2>3, <2>4
<1>6. ASSUME NEW x \in ExitPercents PROVE Payout(4, ExitEV(x)) \in Nat \ {0}
  <2> DEFINE drawn == IF x < 30 THEN 30 ELSE IF x > 400 THEN 400 ELSE x
  <2>1. drawn \in 30..400
    BY DEF AsPlanned
  <2>2. ExitEV(x) = (WeightedEV * drawn) \div 100
    BY DEF ExitEV
  <2> HIDE DEF drawn
  <2>3. WeightedEV * drawn \in Int /\ WeightedEV * drawn >= 30000
    <3>1. WeightedEV \in Nat /\ WeightedEV >= 1000
      BY DEF AsPlanned
    <3>2. WeightedEV * drawn >= WeightedEV * 30
      BY <2>1, <3>1
    <3> QED  BY <2>1, <3>1, <3>2
  <2> DEFINE w == WeightedEV * drawn
  <2>4. w \in Int /\ w >= 30000 /\ ExitEV(x) = w \div 100
    BY <2>2, <2>3
  <2> HIDE DEF w
  <2>5. ExitEV(x) \in Int /\ ExitEV(x) >= 300
    BY <2>4
  <2> DEFINE v == ExitEV(x)
             u == v \div 100
  <2>6. u \in Int /\ u >= 3
    BY <2>5
  <2>7. Payout(4, v) = (998 * u) \div 100
    BY <1>2 DEF Payout, StakeBefore
  <2> HIDE DEF u
  <2>8. (998 * u) \div 100 \in Nat \ {0}
    BY <2>6
  <2> QED  BY <2>7, <2>8
<1>7. CASE leadOutcome' = leadOutcome
  BY <1>7 DEF LeadInv, OutcomesPartition
<1>8. ASSUME NEW kind, NEW payout, Ends(kind, payout),
             \/ kind = "loss" /\ payout = 0
             \/ kind \in {"success", "partial"} /\ payout \in Nat \ {0}
      PROVE  OutcomesPartition'
  <2>1. leadOutcome'.kind = kind /\ leadOutcome'.payout = payout
    BY <1>8 DEF Ends
  <2>2. payout <= 0 <=> kind = "loss"
    BY <1>8
  <2> QED  BY <2>1, <2>2 DEF OutcomesPartition
<1>9. CASE gate < LastGate /\ gate' = gate + 1 /\ UNCHANGED leadOutcome
  BY <1>7, <1>9
<1>10. CASE gate = LastGate /\ \E x \in ExitPercents : Ends("success", Payout(gate, ExitEV(x)))
  <2>1. PICK x \in ExitPercents : Ends("success", Payout(gate, ExitEV(x)))
    BY <1>10
  <2>2. gate = 4
    BY <1>10 DEF LastGate
  <2>3. Payout(gate, ExitEV(x)) \in Nat \ {0}
    BY <1>6, <2>2
  <2> QED  BY <1>8, <2>1, <2>3
<1>11. CASE Ends("partial", Payout(gate, Percent(RefPremoney(gate), Recovered[gate])))
  BY <1>5, <1>8, <1>11
<1>12. CASE Ends("loss", 0)
  BY <1>8, <1>12
<1> QED  BY <1>9, <1>10, <1>11, <1>12 DEF MeetGate

LEMMA LeadStepInv == AsPlanned /\ LeadInv /\ [PlanNext]_planVars => LeadInv'
<1> SUFFICES ASSUME AsPlanned, LeadInv, [PlanNext]_planVars PROVE LeadInv'  OBVIOUS
<1>1. CapInv'
  BY CapStepInv DEF LeadInv
<1>2. CASE CloseRound
  <2>1. closed' = closed + 1 /\ UNCHANGED <<year, gate, leadOutcome>>
    BY <1>2 DEF CloseRound
  <2>2. closed \in 0..3
    <3>1. closed < Len(Rounds)
      BY <1>2 DEF CloseRound
    <3>2. Len(Rounds) = 4
      BY PlannedTerms
    <3> QED  BY <3>1, <3>2 DEF LeadInv
  <2>3. closed' + 1 = closed + 2
    BY <2>1, <2>2
  <2>4. leadPath' = Append(leadPath, (stakes'["Seed"] * 10000) \div parts')
    <3>1. leadPath' = Append(leadPath, (stakes'[Rounds[1].name] * 10000) \div parts')
      BY <1>2 DEF CloseRound
    <3>2. Rounds[1].name = "Seed"
      BY PlannedTerms
    <3> QED  BY <3>1, <3>2
  <2> DEFINE v == (stakes'["Seed"] * 10000) \div parts'
  <2>5. /\ parts' = PartsAfter[closed + 2] /\ stakes'["Seed"] = LeadAfter[closed + 2]
        /\ v = LeadShare[closed + 1]
    BY <1>2, LeadAfterRound
  <2>6. leadPath' = Append(leadPath, v)
    BY <2>4
  <2> HIDE DEF v
  <2>7. v \in Int
    BY <2>2, <2>5 DEF LeadShare
  <2>8. leadPath \in Seq(Int) /\ Len(leadPath) = closed /\ \A i \in 1..closed : leadPath[i] = LeadShare[i]
    BY DEF LeadInv
  <2>9. leadPath' \in Seq(Int) /\ Len(leadPath') = closed + 1
    BY <2>6, <2>7, <2>8
  <2>10. \A i \in 1..(closed + 1) : leadPath'[i] = LeadShare[i]
    <3> SUFFICES ASSUME NEW i \in 1..(closed + 1) PROVE leadPath'[i] = LeadShare[i]
      OBVIOUS
    <3>1. CASE i = closed + 1
      BY <2>5, <2>6, <2>7, <2>8, <3>1
    <3>2. CASE i # closed + 1
      <4>1. i \in 1..closed
        BY <2>2, <3>2
      <4>2. leadPath'[i] = leadPath[i]
        BY <2>6, <2>8, <4>1
      <4> QED  BY <2>8, <4>1, <4>2
    <3> QED  BY <3>1, <3>2
  <2>11. year' = 0
    BY <2>1, <2>2 DEF LeadInv
  <2>12. OutcomesPartition'
    BY <2>1 DEF LeadInv, OutcomesPartition
  <2>13. closed' \in 0..4 /\ gate' \in 1..4
    BY <2>1, <2>2 DEF LeadInv
  <2> QED  BY <1>1, <2>1, <2>3, <2>5, <2>9, <2>10, <2>11, <2>12, <2>13 DEF LeadInv
<1>3. CASE CloseYear
  <2>1. /\ closed = Len(Rounds) /\ year < 5 /\ year' = year + 1
        /\ UNCHANGED <<closed, parts, stakes, leadPath, gate, leadOutcome>>
    BY <1>3 DEF CloseYear
  <2>2. closed = 4
    <3>1. Len(Rounds) = 4
      BY PlannedTerms
    <3> QED  BY <2>1, <3>1
  <2>3. year' \in 0..5
    BY <2>1 DEF LeadInv
  <2> QED  BY <1>1, <2>1, <2>2, <2>3 DEF LeadInv, OutcomesPartition
<1>4. CASE MeetGate
  <2>1. UNCHANGED <<closed, parts, stakes, leadPath, year>>
    BY <1>4 DEF MeetGate
  <2>2. gate' \in 1..4
    BY <1>4 DEF MeetGate, Ends, LeadInv, LastGate
  <2>3. OutcomesPartition'
    BY <1>4, ExitsAreWorthIt
  <2> QED  BY <1>1, <2>1, <2>2, <2>3 DEF LeadInv
<1>5. CASE UNCHANGED planVars
  BY <1>1, <1>5 DEF planVars, LeadInv, OutcomesPartition
<1> QED  BY <1>2, <1>3, <1>4, <1>5 DEF PlanNext

(* What the years closed may have spent at the most.                       *)
SpentAtMost == <<0, 1632, 6575, 17612, 39228>>

SpendingInv ==
    /\ CapitalInv
    /\ year <= 4 => spent \in Int /\ spent <= SpentAtMost[year + 1]
    /\ financing = [y \in Years |-> IF y <= closed /\ y <= 4 THEN Rounds[y].amount ELSE 0]

LEMMA ResourcesAreBounded ==
    ASSUME NEW y \in 1..4, NEW accounts \in 0..PlannedAccounts[y]
    PROVE  /\ Resources(y, accounts) \in Int
           /\ Resources(y, accounts) <= SpentAtMost[y + 1] - SpentAtMost[y]
<1>1. CASE y = 1
  <2>1. accounts \in 0..800
    <3>1. PlannedAccounts[1] = 800
      BY DEF PlannedAccounts
    <3> QED  BY <1>1, <3>1
  <2>2. (accounts \div 100) \in 0..8
    BY <2>1
  <2> DEFINE a == accounts \div 100
  <2> HIDE DEF a
  <2>3. Resources(y, accounts) = 24 * 48 + (((a * 32) \div 10) * 24000) \div 10000 + (40 * 105) \div 10
    BY <1>1 DEF Resources, Headcount, Salary, InferenceFen, AnnotatedHours, a
  <2>4. (a * 32) \div 10 \in 0..25
    BY <2>2 DEF a
  <2> QED  BY <1>1, <2>3, <2>4 DEF SpentAtMost
<1>2. CASE y = 2
  <2>1. accounts \in 0..5500
    <3>1. PlannedAccounts[2] = 5500
      BY DEF PlannedAccounts
    <3> QED  BY <1>2, <3>1
  <2>2. (accounts \div 100) \in 0..55
    BY <2>1
  <2> DEFINE a == accounts \div 100
  <2> HIDE DEF a
  <2>3. Resources(y, accounts) = 67 * 52 + (((a * 32) \div 10) * 17280) \div 10000 + (110 * 105) \div 10
    BY <1>2 DEF Resources, Headcount, Salary, InferenceFen, AnnotatedHours, a
  <2>4. (a * 32) \div 10 \in 0..176
    BY <2>2 DEF a
  <2> QED  BY <1>2, <2>3, <2>4 DEF SpentAtMost
<1>3. CASE y = 3
  <2>1. accounts \in 0..20000
    <3>1. PlannedAccounts[3] = 20000
      BY DEF PlannedAccounts
    <3> QED  BY <1>3, <3>1
  <2>2. (accounts \div 100) \in 0..200
    BY <2>1
  <2> DEFINE a == accounts \div 100
  <2> HIDE DEF a
  <2>3. Resources(y, accounts) = 136 * 56 + (((a * 32) \div 10) * 12442) \div 10000 + (250 * 105) \div 10
    BY <1>3 DEF Resources, Headcount, Salary, InferenceFen, AnnotatedHours, a
  <2>4. (a * 32) \div 10 \in 0..640
    BY <2>2 DEF a
  <2> QED  BY <1>3, <2>3, <2>4 DEF SpentAtMost
<1>4. CASE y = 4
  <2>1. accounts \in 0..55000
    <3>1. PlannedAccounts[4] = 55000
      BY DEF PlannedAccounts
    <3> QED  BY <1>4, <3>1
  <2>2. (accounts \div 100) \in 0..550
    BY <2>1
  <2> DEFINE a == accounts \div 100
  <2> HIDE DEF a
  <2>3. Resources(y, accounts) = 229 * 60 + (((a * 32) \div 10) * 8958) \div 10000 + (600 * 105) \div 10
    BY <1>4 DEF Resources, Headcount, Salary, InferenceFen, AnnotatedHours, a
  <2>4. (a * 32) \div 10 \in 0..1760
    BY <2>2 DEF a
  <2> QED  BY <1>4, <2>3, <2>4 DEF SpentAtMost
<1> QED  BY <1>1, <1>2, <1>3, <1>4

(* The fifth year's resources are a number too. *)
LEMMA ResourcesAreInt ==
    ASSUME NEW y \in 1..5, NEW accounts \in Nat
    PROVE  Resources(y, accounts) \in Int
<1> DEFINE a == accounts \div 100
           n == (a * 32) \div 10
           i == InferenceFen[y]
<1>1. n \in Int
  BY SMT
<1>2. i \in Int /\ Headcount[y] * Salary[y] \in Int /\ ((AnnotatedHours[y] \div 1000) * 105) \div 10 \in Int
  BY DEF InferenceFen, Headcount, Salary, AnnotatedHours
<1>3. n * i \in Int
  <2> HIDE DEF n, i
  <2> QED  BY <1>1, <1>2
<1>4. (n * i) \div 10000 \in Int
  <2> DEFINE m == n * i
  <2>1. m \in Int
    BY <1>3
  <2> HIDE DEF m
  <2>2. m \div 10000 \in Int
    BY <2>1
  <2> QED  BY <2>2 DEF m
<1> DEFINE l == (n * i) \div 10000
           s == Headcount[y] * Salary[y]
           h == ((AnnotatedHours[y] \div 1000) * 105) \div 10
<1>5. Resources(y, accounts) = s + l + h
  BY DEF Resources
<1>6. s \in Int /\ l \in Int /\ h \in Int
  BY <1>2, <1>4
<1> HIDE DEF s, l, h
<1> QED  BY <1>5, <1>6

LEMMA SpendingInitInv == AsPlanned /\ PlanInit => SpendingInv
<1> SUFFICES ASSUME AsPlanned, PlanInit PROVE SpendingInv  OBVIOUS
<1>1. CapitalInv
  BY CapitalInitInv
<1>2. closed = 0 /\ year = 0 /\ spent = 0 /\ financing = [y \in Years |-> 0]
  BY DEF PlanInit
<1>3. financing = [y \in Years |-> IF y <= closed /\ y <= 4 THEN Rounds[y].amount ELSE 0]
  BY <1>2 DEF Years
<1> QED  BY <1>1, <1>2, <1>3 DEF SpendingInv, SpentAtMost

LEMMA SpendingStepInv == AsPlanned /\ SpendingInv /\ [PlanNext]_planVars => SpendingInv'
<1> SUFFICES ASSUME AsPlanned, SpendingInv, [PlanNext]_planVars PROVE SpendingInv'  OBVIOUS
<1>1. CapitalInv /\ CapitalInv'
  BY CapitalStepInv DEF SpendingInv
<1>2. year \in 0..5 /\ closed \in 0..4
  <2>1. Len(Rounds) = 4
    BY PlannedTerms
  <2> QED  BY <1>1, <2>1 DEF CapitalInv, BalanceInv, BalanceTypes
<1>3. CASE CloseRound
  <2> DEFINE r == Rounds[closed + 1]
             y == r.year
             d == r.amount
  <2>1. /\ financing' = [financing EXCEPT ![y] = @ + d]
        /\ closed' = closed + 1 /\ closed < Len(Rounds) /\ UNCHANGED <<year, spent>>
    BY <1>3 DEF CloseRound
  <2>2. closed \in 0..3
    <3>1. Len(Rounds) = 4
      BY PlannedTerms
    <3> QED  BY <1>2, <2>1, <3>1
  <2>3. y = closed + 1
    <3>1. closed = 0 \/ closed = 1 \/ closed = 2 \/ closed = 3
      BY <2>2
    <3>2. Rounds[1].year = 1 /\ Rounds[2].year = 2 /\ Rounds[3].year = 3 /\ Rounds[4].year = 4
      BY PlannedTerms
    <3> QED  BY <3>1, <3>2
  <2>4. d = Rounds[y].amount /\ d \in Int
    <3>1. closed + 1 \in DOMAIN Rounds
      BY <2>2, PlannedTerms, RoundTerms
    <3> QED  BY <2>3, <3>1, RoundsAreFew
  <2> HIDE DEF r, y, d
  <2>5. financing = [i \in Years |-> IF i <= closed /\ i <= 4 THEN Rounds[i].amount ELSE 0]
    BY DEF SpendingInv
  <2>6. financing' = [i \in Years |-> IF i <= closed + 1 /\ i <= 4 THEN Rounds[i].amount ELSE 0]
    <3>1. financing'[y] = d
      <4>1. y \in Years /\ financing[y] = 0
        BY <2>2, <2>3, <2>5 DEF Years
      <4> QED  BY <2>1, <2>4, <2>5, <4>1
    <3>2. ASSUME NEW i \in Years
          PROVE  financing'[i] = IF i <= closed + 1 /\ i <= 4 THEN Rounds[i].amount ELSE 0
      <4>1. CASE i = y
        BY <2>2, <2>3, <2>4, <3>1, <4>1
      <4>2. CASE i # y
        <5>1. financing'[i] = financing[i]
          BY <2>1, <2>5, <4>2
        <5>2. i <= closed + 1 <=> i <= closed
          BY <2>2, <2>3, <4>2 DEF Years
        <5> QED  BY <2>5, <5>1, <5>2
      <4> QED  BY <4>1, <4>2
    <3>3. financing' = [i \in Years |-> financing'[i]]
      BY <2>1, <2>5
    <3> QED  BY <3>2, <3>3
  <2> QED  BY <1>1, <2>1, <2>6 DEF SpendingInv
<1>4. CASE CloseYear
  <2>1. year < 5 /\ year' = year + 1 /\ UNCHANGED <<closed, financing>>
    BY <1>4 DEF CloseYear
  <2>2. PICK accounts \in Customers[year + 1] : spent' = spent + Resources(year + 1, accounts)
    BY <1>4 DEF CloseYear
  <2>3. ASSUME year <= 3 PROVE spent' \in Int /\ spent' <= SpentAtMost[year + 2]
    <3> DEFINE y == year + 1
    <3>1. y \in 1..4
      BY <1>2, <2>3
    <3>2. accounts \in 0..PlannedAccounts[y]
      BY <2>2, <3>1 DEF AsPlanned, Years
    <3>3. Resources(y, accounts) \in Int /\ Resources(y, accounts) <= SpentAtMost[y + 1] - SpentAtMost[y]
      BY <3>1, <3>2, ResourcesAreBounded
    <3> DEFINE a == SpentAtMost[year + 1]
               b == SpentAtMost[year + 2]
               u == Resources(y, accounts)
    <3>4. a \in Int /\ b \in Int
      <4>1. year = 0 \/ year = 1 \/ year = 2 \/ year = 3
        BY <1>2, <2>3
      <4> QED  BY <4>1 DEF SpentAtMost
    <3>5. y = year + 1 /\ y + 1 = year + 2
      BY <1>2
    <3>6. u \in Int /\ u <= b - a
      BY <3>3, <3>5
    <3>7. spent \in Int /\ spent <= a
      BY <1>2, <2>3 DEF SpendingInv
    <3>8. spent' = spent + u
      BY <2>2
    <3> HIDE DEF a, b, u
    <3>9. spent' \in Int /\ spent' <= b
      BY <3>4, <3>6, <3>7, <3>8
    <3> QED  BY <3>9 DEF b
  <2>4. year' <= 4 => year <= 3 /\ year' + 1 = year + 2
    BY <1>2, <2>1
  <2> QED  BY <1>1, <2>1, <2>3, <2>4 DEF SpendingInv
<1>5. CASE MeetGate \/ UNCHANGED planVars
  <2>1. UNCHANGED <<closed, financing, year, spent>>
    BY <1>5 DEF MeetGate, planVars
  <2> QED  BY <1>1, <2>1 DEF SpendingInv
<1> QED  BY <1>3, <1>4, <1>5 DEF PlanNext

LEMMA CapitalPays == AsPlanned /\ SpendingInv => CapitalPaysFourYears
<1> SUFFICES ASSUME AsPlanned, SpendingInv, year \in 1..4 PROVE spent <= balance.paidIn
  BY DEF CapitalPaysFourYears
<1>1. closed = 4 /\ balance.paidIn = ByTheYear(financing, year)
  <2>1. closed = Len(Rounds) /\ balance.paidIn = ByTheYear(financing, year)
    BY DEF SpendingInv, CapitalInv
  <2>2. Len(Rounds) = 4
    BY PlannedTerms
  <2> QED  BY <2>1, <2>2
<1>2. financing[1] = 2000 /\ financing[2] = 8000 /\ financing[3] = 20000 /\ financing[4] = 35000
  <2>1. \A y \in Years : financing[y] = IF y <= 4 /\ y <= 4 THEN Rounds[y].amount ELSE 0
    BY <1>1 DEF SpendingInv
  <2>2. \A y \in 1..4 : financing[y] = Rounds[y].amount
    BY <2>1 DEF Years
  <2>3. /\ Rounds[1].amount = 2000 /\ Rounds[2].amount = 8000
        /\ Rounds[3].amount = 20000 /\ Rounds[4].amount = 35000
    BY PlannedTerms
  <2> QED  BY <2>2, <2>3
<1>3. spent \in Int /\ spent <= SpentAtMost[year + 1]
  BY DEF SpendingInv
<1>4. year = 1 \/ year = 2 \/ year = 3 \/ year = 4
  OBVIOUS
<1>5. ByTheYear(financing, 1) = 2000 /\ ByTheYear(financing, 2) = 10000
  BY <1>2 DEF ByTheYear
<1>6. ByTheYear(financing, 3) = 30000 /\ ByTheYear(financing, 4) = 65000
  BY <1>2 DEF ByTheYear
<1> QED  BY <1>1, <1>3, <1>4, <1>5, <1>6 DEF SpentAtMost

(* With the rounds of data_sources.py, no more accounts than it plans and a *)
(* weighted value of ten million yuan or more, everything the plan adds up  *)
(* does: statements, cap table, capital, outcomes and resources.            *)
THEOREM PlanHolds == AsPlanned /\ PlanSpec => []PlanAddsUp
<1>1. AsPlanned /\ PlanInit => LeadInv /\ SpendingInv
  BY LeadInitInv, SpendingInitInv
<1>2. AsPlanned /\ LeadInv /\ SpendingInv /\ [PlanNext]_planVars => (LeadInv /\ SpendingInv)'
  BY LeadStepInv, SpendingStepInv
<1>3. AsPlanned /\ LeadInv /\ SpendingInv => StatementsBalance /\ OutcomesPartition /\ CapitalPaysFourYears
  BY CapitalPays DEF LeadInv, SpendingInv, CapitalInv, BalanceInv
<1>4. AsPlanned => AsPlanned'
  BY DEF AsPlanned
<1>5. AsPlanned /\ PlanSpec => [](StatementsBalance /\ OutcomesPartition /\ CapitalPaysFourYears)
  BY <1>1, <1>2, <1>3, <1>4, PTL DEF PlanSpec
<1> QED  BY <1>5, CapTableStaysWhole, CapitalIsWhatWasRaised, PTL DEF PlanAddsUp

(***************************************************************************)
(* The suppression window.  Without a false alert the last one delivered   *)
(* was true, or nothing was delivered yet and the next one will be: that   *)
(* makes the absence of missed alerts inductive.                           *)
(***************************************************************************)
TallyTypes == tally \in [delivered : Nat, suppressed : Nat, trueTotal : Nat, fpTotal : Nat, missed : Nat]

SuppressionTypes ==
    /\ window \in Windows /\ adaptive \in BOOLEAN
    /\ since \in 0..LongAgo /\ lastTrue \in BOOLEAN /\ density \in Nat
    /\ TallyTypes

NoneMissed ==
    tally.fpTotal = 0 => tally.missed = 0 /\ (lastTrue \/ since = LongAgo)

SuppressionInv == SuppressionTypes /\ SuppressionIsBounded /\ NoneMissed

LEMMA WindowBound ==
    ASSUME NEW w \in Nat \ {0}, NEW d \in Nat
    PROVE  /\ w + (w * AtMost(7500, d)) \div 5000 \in Nat
           /\ 2 * (w + (w * AtMost(7500, d)) \div 5000) <= 5 * w
<1> DEFINE m == AtMost(7500, d)
<1>1. m \in 0..7500  BY SMT DEF AtMost
<1> HIDE DEF m
<1>2. w * m \in Nat /\ w * m <= w * 7500  BY <1>1, SMT
<1> DEFINE p == w * m
<1> HIDE DEF p
<1>3. p \in Nat /\ p <= w * 7500  BY <1>2 DEF p
<1>4. p \div 5000 \in Nat /\ 2 * (w + p \div 5000) <= 5 * w  BY <1>3, SMT
<1> QED  BY <1>4 DEF p, m

LEMMA EffectiveBound ==
    ASSUME SuppressionTypes
    PROVE  /\ window \in Nat \ {0} /\ EffectiveWindow \in Nat
           /\ 2 * EffectiveWindow <= 5 * window /\ EffectiveWindow < LongAgo
<1>1. window \in Nat \ {0} /\ LongAgo \in Nat /\ 3 * window <= LongAgo
  BY SuppressionAssumption, SMT DEF SuppressionTypes
<1>2. EffectiveWindow \in Nat /\ 2 * EffectiveWindow <= 5 * window
  <2>1. CASE adaptive
    <3>1. EffectiveWindow = window + (window * AtMost(7500, density)) \div 5000
      BY <2>1 DEF EffectiveWindow
    <3>2. density \in Nat  BY DEF SuppressionTypes
    <3> QED  BY <1>1, <3>1, <3>2, WindowBound
  <2>2. CASE ~adaptive
    <3>1. EffectiveWindow = window  BY <2>2 DEF EffectiveWindow
    <3> QED  BY <1>1, <3>1, SMT
  <2> QED  BY <2>1, <2>2
<1> QED  BY <1>1, <1>2, SMT

(* The same bound after a step. *)
LEMMA EffectiveBoundNext ==
    ASSUME SuppressionTypes'
    PROVE  (2 * EffectiveWindow <= 5 * window)'
<1>1. window' \in Nat \ {0}
  BY SuppressionAssumption, SMT DEF SuppressionTypes
<1>2. CASE adaptive'
  <2>1. EffectiveWindow' = window' + (window' * AtMost(7500, density')) \div 5000
    BY <1>2 DEF EffectiveWindow, AtMost
  <2>2. density' \in Nat  BY DEF SuppressionTypes
  <2>3. 2 * (window' + (window' * AtMost(7500, density')) \div 5000) <= 5 * window'
    BY <1>1, <2>2, WindowBound
  <2> QED  BY <2>1, <2>3
<1>3. CASE ~adaptive'
  <2>1. EffectiveWindow' = window'  BY <1>3 DEF EffectiveWindow
  <2>2. \A w \in Nat \ {0} : 2 * w <= 5 * w  BY SMT
  <2> QED  BY <1>1, <2>1, <2>2
<1> QED  BY <1>2, <1>3

LEMMA ArrivedCounts ==
    ASSUME TallyTypes, NEW true \in BOOLEAN
    PROVE  /\ Arrived(true) \in [delivered : Nat, suppressed : Nat, trueTotal : Nat, fpTotal : Nat, missed : Nat]
           /\ Arrived(true).delivered = tally.delivered
           /\ Arrived(true).suppressed = tally.suppressed
           /\ Arrived(true).missed = tally.missed
           /\ Arrived(true).trueTotal + Arrived(true).fpTotal = tally.trueTotal + tally.fpTotal + 1
           /\ true => Arrived(true).trueTotal = tally.trueTotal + 1 /\ Arrived(true).fpTotal = tally.fpTotal
           /\ ~true => Arrived(true).trueTotal = tally.trueTotal /\ Arrived(true).fpTotal = tally.fpTotal + 1
<1>1. CASE true
  <2>1. Arrived(true) = [tally EXCEPT !.trueTotal = @ + 1]  BY <1>1 DEF Arrived
  <2> QED  BY <1>1, <2>1, SMT DEF TallyTypes
<1>2. CASE ~true
  <2>1. Arrived(true) = [tally EXCEPT !.fpTotal = @ + 1]  BY <1>2 DEF Arrived
  <2> QED  BY <1>2, <2>1, SMT DEF TallyTypes
<1> QED  BY <1>1, <1>2

LEMMA DeliverInv ==
    ASSUME SuppressionInv, NEW true \in BOOLEAN, Deliver(true), UNCHANGED <<window, adaptive>>
    PROVE  SuppressionInv'
<1>0. SuppressionTypes /\ TallyTypes /\ NoneMissed /\ SuppressionIsBounded
  BY DEF SuppressionInv, SuppressionTypes
<1> DEFINE a == Arrived(true)
<1>1. tally' = [a EXCEPT !.delivered = @ + 1]  BY DEF Deliver
<1>2. since' = 0 /\ lastTrue' = true /\ density' = (density * 9) \div 10 + 1000  BY DEF Deliver
<1>3. density' \in Nat
  BY <1>0, <1>2, SMT DEF SuppressionTypes
<1>4. /\ a \in [delivered : Nat, suppressed : Nat, trueTotal : Nat, fpTotal : Nat, missed : Nat]
      /\ a.delivered = tally.delivered /\ a.suppressed = tally.suppressed /\ a.missed = tally.missed
      /\ a.trueTotal + a.fpTotal = tally.trueTotal + tally.fpTotal + 1
      /\ a.fpTotal >= tally.fpTotal /\ a.trueTotal >= tally.trueTotal
  BY <1>0, ArrivedCounts, SMT DEF TallyTypes
<1>5. true \/ a.fpTotal # 0
  <2>1. CASE true  BY <2>1
  <2>2. CASE ~true
    <3>1. a.fpTotal = tally.fpTotal + 1  BY <1>0, <2>2, ArrivedCounts
    <3> QED  BY <1>0, <3>1, SMT DEF TallyTypes
  <2> QED  BY <2>1, <2>2
<1> HIDE DEF a
<1>6. TallyTypes'
  BY <1>1, <1>4, SMT DEF TallyTypes
<1>7. SuppressionTypes'
  BY <1>0, <1>2, <1>3, <1>6, SuppressionAssumption, SMT DEF SuppressionTypes
<1>8. /\ tally'.missed = tally.missed /\ tally'.fpTotal = a.fpTotal
      /\ tally'.trueTotal = a.trueTotal /\ tally'.suppressed = tally.suppressed
      /\ tally'.delivered = tally.delivered + 1
  BY <1>1, <1>4, SMT DEF TallyTypes
<1>9. tally'.fpTotal = 0 => tally'.missed = 0
  BY <1>0, <1>4, <1>8, SMT DEF TallyTypes, SuppressionIsBounded
<1>10. NoneMissed'
  BY <1>2, <1>5, <1>8, <1>9 DEF NoneMissed
<1>11. (2 * EffectiveWindow <= 5 * window)'
  BY <1>7, EffectiveBoundNext
<1>12. /\ tally'.missed <= tally'.suppressed /\ tally'.missed <= tally'.trueTotal
       /\ tally'.delivered + tally'.suppressed = tally'.trueTotal + tally'.fpTotal
  BY <1>0, <1>4, <1>8, SMT DEF TallyTypes, SuppressionIsBounded
<1> QED  BY <1>7, <1>9, <1>10, <1>11, <1>12 DEF SuppressionInv, SuppressionIsBounded

LEMMA SuppressInv ==
    ASSUME SuppressionInv, NEW true \in BOOLEAN, NEW moment \in 0..LongAgo,
           moment < EffectiveWindow, moment >= since,
           Suppress(true, moment), UNCHANGED <<window, adaptive>>
    PROVE  SuppressionInv'
<1>0. SuppressionTypes /\ TallyTypes /\ NoneMissed /\ SuppressionIsBounded
  BY DEF SuppressionInv, SuppressionTypes
<1> DEFINE a == Arrived(true)
           more == IF true /\ ~lastTrue THEN a.missed + 1 ELSE a.missed
<1>1. tally' = [a EXCEPT !.suppressed = @ + 1, !.missed = more]
  BY DEF Suppress
<1>2. since' = moment /\ lastTrue' = lastTrue /\ density' = density  BY DEF Suppress
<1>3. since # LongAgo
  BY <1>0, EffectiveBound, SuppressionAssumption, SMT DEF SuppressionTypes
<1>4. /\ a \in [delivered : Nat, suppressed : Nat, trueTotal : Nat, fpTotal : Nat, missed : Nat]
      /\ a.delivered = tally.delivered /\ a.suppressed = tally.suppressed /\ a.missed = tally.missed
      /\ a.trueTotal + a.fpTotal = tally.trueTotal + tally.fpTotal + 1
  BY <1>0, ArrivedCounts
<1>5. /\ a.fpTotal >= tally.fpTotal /\ a.trueTotal >= tally.trueTotal
      /\ true => a.trueTotal = tally.trueTotal + 1
  <2>1. CASE true
    <3>1. a.trueTotal = tally.trueTotal + 1 /\ a.fpTotal = tally.fpTotal
      BY <1>0, <2>1, ArrivedCounts
    <3> HIDE DEF a
    <3> QED  BY <1>0, <3>1, SMT DEF TallyTypes
  <2>2. CASE ~true
    <3>1. a.trueTotal = tally.trueTotal /\ a.fpTotal = tally.fpTotal + 1
      BY <1>0, <2>2, ArrivedCounts
    <3> HIDE DEF a
    <3> QED  BY <1>0, <2>2, <3>1, SMT DEF TallyTypes
  <2> QED  BY <2>1, <2>2
<1>6. /\ more \in Nat /\ more <= tally.missed + 1 /\ more >= tally.missed
      /\ ~true => more = tally.missed
      /\ lastTrue => more = tally.missed
  <2>1. CASE true /\ ~lastTrue
    <3>1. more = tally.missed + 1  BY <1>4, <2>1
    <3> HIDE DEF more
    <3> QED  BY <1>0, <2>1, <3>1, SMT DEF TallyTypes
  <2>2. CASE ~(true /\ ~lastTrue)
    <3>1. more = tally.missed  BY <1>4, <2>2
    <3> HIDE DEF more
    <3> QED  BY <1>0, <3>1, SMT DEF TallyTypes
  <2> QED  BY <2>1, <2>2
<1> HIDE DEF a, more
<1>7. /\ TallyTypes'
      /\ tally'.missed = more /\ tally'.suppressed = tally.suppressed + 1
      /\ tally'.delivered = tally.delivered
      /\ tally'.trueTotal = a.trueTotal /\ tally'.fpTotal = a.fpTotal
  <2> DEFINE b == [a EXCEPT !.suppressed = @ + 1]
  <2>1. /\ b \in [delivered : Nat, suppressed : Nat, trueTotal : Nat, fpTotal : Nat, missed : Nat]
        /\ b.suppressed = tally.suppressed + 1 /\ b.delivered = tally.delivered
        /\ b.trueTotal = a.trueTotal /\ b.fpTotal = a.fpTotal
    BY <1>4, SMT
  <2>2. tally' = [b EXCEPT !.missed = more]  BY <1>1, <1>4
  <2> HIDE DEF b
  <2> QED  BY <1>6, <2>1, <2>2 DEF TallyTypes
<1>8. SuppressionTypes'
  BY <1>0, <1>2, <1>7 DEF SuppressionTypes
<1>9. (2 * EffectiveWindow <= 5 * window)'
  BY <1>8, EffectiveBoundNext
<1>10. tally'.fpTotal = 0 => tally'.missed = 0 /\ lastTrue
  <2> SUFFICES ASSUME tally'.fpTotal = 0 PROVE tally'.missed = 0 /\ lastTrue  OBVIOUS
  <2>1. tally.fpTotal = 0
    BY <1>0, <1>5, <1>7, SMT DEF TallyTypes
  <2>2. lastTrue /\ tally.missed = 0
    BY <1>0, <1>3, <2>1 DEF NoneMissed
  <2> QED  BY <1>6, <1>7, <2>2
<1>11. tally'.missed <= tally'.trueTotal
  <2>1. CASE true
    BY <1>0, <1>5, <1>6, <1>7, <2>1, SMT DEF TallyTypes, SuppressionIsBounded
  <2>2. CASE ~true
    <3>1. more = tally.missed  BY <1>6, <2>2
    <3> QED  BY <1>0, <1>4, <1>5, <1>7, <3>1, SMT DEF TallyTypes, SuppressionIsBounded
  <2> QED  BY <2>1, <2>2
<1>12. /\ tally'.missed <= tally'.suppressed
       /\ tally'.delivered + tally'.suppressed = tally'.trueTotal + tally'.fpTotal
  BY <1>0, <1>4, <1>6, <1>7, SMT DEF TallyTypes, SuppressionIsBounded
<1>13. NoneMissed'
  BY <1>2, <1>10 DEF NoneMissed
<1> QED  BY <1>8, <1>9, <1>10, <1>11, <1>12, <1>13 DEF SuppressionInv, SuppressionIsBounded

LEMMA SuppressionInitInv == SuppressionInit => SuppressionInv
<1> SUFFICES ASSUME SuppressionInit PROVE SuppressionInv  OBVIOUS
<1>1. SuppressionTypes
  <2>1. since \in 0..LongAgo /\ density \in Nat
    BY SuppressionAssumption, SMT DEF SuppressionInit
  <2>2. TallyTypes
    BY SMT DEF SuppressionInit, TallyTypes
  <2> QED  BY <2>1, <2>2 DEF SuppressionInit, SuppressionTypes
<1>2. 2 * EffectiveWindow <= 5 * window  BY <1>1, EffectiveBound
<1>3. /\ tally.missed <= tally.suppressed /\ tally.missed <= tally.trueTotal
      /\ tally.delivered + tally.suppressed = tally.trueTotal + tally.fpTotal
      /\ tally.missed = 0 /\ since = LongAgo
  BY SMT DEF SuppressionInit
<1> QED  BY <1>1, <1>2, <1>3 DEF SuppressionInv, SuppressionIsBounded, NoneMissed

LEMMA SuppressionStepInv ==
    SuppressionInv /\ [SuppressionNext]_suppressionVars => SuppressionInv'
<1> SUFFICES ASSUME SuppressionInv, [SuppressionNext]_suppressionVars
             PROVE  SuppressionInv'
  OBVIOUS
<1>1. ASSUME NEW gap \in Gaps, NEW true \in BOOLEAN, Arrive(gap, true)
      PROVE  SuppressionInv'
  <2> DEFINE moment == AtMost(LongAgo, since + gap)
  <2>1. moment \in 0..LongAgo /\ moment >= since
    BY SuppressionAssumption, SMT DEF AtMost, SuppressionInv, SuppressionTypes
  <2>2. UNCHANGED <<window, adaptive>>  BY <1>1 DEF Arrive
  <2>3. CASE moment < EffectiveWindow
    <3>1. Suppress(true, moment)  BY <1>1, <2>3 DEF Arrive
    <3> QED  BY <2>1, <2>2, <2>3, <3>1, SuppressInv
  <2>4. CASE ~(moment < EffectiveWindow)
    <3>1. Deliver(true)  BY <1>1, <2>4 DEF Arrive
    <3> QED  BY <2>2, <3>1, DeliverInv
  <2> QED  BY <2>3, <2>4
<1>2. CASE UNCHANGED suppressionVars
  <2>1. SuppressionTypes' /\ NoneMissed' /\ tally' = tally
    BY <1>2 DEF suppressionVars, SuppressionInv, SuppressionTypes, TallyTypes, NoneMissed
  <2>2. (2 * EffectiveWindow <= 5 * window)'  BY <2>1, EffectiveBoundNext
  <2> QED  BY <2>1, <2>2 DEF SuppressionInv, SuppressionIsBounded
<1> QED  BY <1>1, <1>2 DEF SuppressionNext

(* For all windows, gaps and lengths of a run the suppression window stays  *)
(* within two and a half windows, and without false alerts none is missed. *)
THEOREM SuppressionStaysBounded == SuppressionSpec => []SuppressionIsBounded
<1>1. SuppressionInv => SuppressionIsBounded  BY DEF SuppressionInv
<1> QED  BY <1>1, SuppressionInitInv, SuppressionStepInv, PTL DEF SuppressionSpec

(***************************************************************************)
(* The positions.  The thresholds of a more careful persona are higher and *)
(* its share of the same fraction is smaller.                              *)
(***************************************************************************)
KellyTypes ==
    /\ advised \in Nat
    /\ advice \in [Personas -> [position : Nat, action : Actions]]
    /\ summary \in [Personas -> [actionable : Nat, largest : Nat, actions : [Actions -> Nat]]]

KellyInv == KellyTypes /\ SizingOrdered

LEMMA KellyFractionIsNat ==
    ASSUME NEW p \in Chances, NEW b \in Ratios PROVE KellyFraction(p, b) \in Nat
<1>1. p \in Nat /\ b \in Nat  BY KellyAssumption, SMT
<1>2. CASE b <= 0 \/ p <= 0
  BY <1>2, SMT DEF KellyFraction
<1>3. CASE ~(b <= 0 \/ p <= 0)
  <2>1. (p * (b + 10) - 1000) * 100 \in Int  BY <1>1, SMT
  <2>2. ((p * (b + 10) - 1000) * 100) \div b \in Int  BY <1>1, <1>3, <2>1, SMT
  <2>3. KellyFraction(p, b) = Larger(0, ((p * (b + 10) - 1000) * 100) \div b)
    BY <1>3 DEF KellyFraction
  <2>4. ASSUME NEW x \in Int PROVE Larger(0, x) \in Nat  BY SMT DEF Larger
  <2> QED  BY <2>2, <2>3, <2>4
<1> QED  BY <1>2, <1>3

(* What the three personas are told of one opportunity. *)
LEMMA PositionsAreOrdered ==
    ASSUME NEW p \in Chances, NEW b \in Ratios
    PROVE  /\ \A n \in Personas : /\ Position(n, p, b) \in Nat /\ Position(n, p, b) <= Cap[n]
                                  /\ ActionFor(n, p, b) \in Actions
                                  /\ ActionFor(n, p, b) = "avoid" => Position(n, p, b) = 0
           /\ Position("C", p, b) <= Position("B", p, b)
           /\ Position("B", p, b) <= Position("A", p, b)
           /\ ActionFor("A", p, b) = "avoid" => ActionFor("B", p, b) = "avoid"
           /\ ActionFor("B", p, b) = "avoid" => ActionFor("C", p, b) = "avoid"
<1> DEFINE f == KellyFraction(p, b)
           Avoided(n) == p < MinWinrate[n] \/ b < MinPnlRatio[n]
           Share(n) == Smaller((f * Factor[n]) \div 100, Cap[n])
<1>1. p \in Nat /\ b \in Nat /\ f \in Nat  BY KellyAssumption, KellyFractionIsNat, SMT
<1>2. \A n \in Personas : Position(n, p, b) = IF Avoided(n) THEN 0 ELSE Share(n)
  BY DEF Position
<1>3. \A n \in Personas : (ActionFor(n, p, b) = "avoid" <=> Avoided(n)) /\ ActionFor(n, p, b) \in Actions
  BY DEF ActionFor, Actions
<1> HIDE DEF f
<1>4. /\ Share("C") \in Nat /\ Share("B") \in Nat /\ Share("A") \in Nat
      /\ Share("C") <= Share("B") /\ Share("B") <= Share("A")
      /\ Share("C") <= Cap["C"] /\ Share("B") <= Cap["B"] /\ Share("A") <= Cap["A"]
  BY <1>1, SMT DEF Smaller, Factor, Cap
<1>5. (Avoided("A") => Avoided("B")) /\ (Avoided("B") => Avoided("C"))
  BY <1>1, SMT DEF MinWinrate, MinPnlRatio
<1>6. Cap["A"] \in Nat /\ Cap["B"] \in Nat /\ Cap["C"] \in Nat
  BY SMT DEF Cap
<1> HIDE DEF Avoided, Share
<1>7. \A n \in Personas : Position(n, p, b) \in Nat /\ Position(n, p, b) <= Cap[n]
  <2> SUFFICES ASSUME NEW n \in Personas
               PROVE  Position(n, p, b) \in Nat /\ Position(n, p, b) <= Cap[n]
    OBVIOUS
  <2>1. Share(n) \in Nat /\ Share(n) <= Cap[n] /\ Cap[n] \in Nat
    BY <1>4, <1>6 DEF Personas
  <2>2. CASE Avoided(n)
    <3>1. Position(n, p, b) = 0  BY <1>2, <2>2
    <3> QED  BY <2>1, <3>1, SMT
  <2>3. CASE ~Avoided(n)
    <3>1. Position(n, p, b) = Share(n)  BY <1>2, <2>3
    <3> QED  BY <2>1, <3>1
  <2> QED  BY <2>2, <2>3
<1>8. Position("C", p, b) <= Position("B", p, b)
  <2>1. CASE Avoided("C")
    <3>1. Position("C", p, b) = 0 /\ Position("B", p, b) \in Nat  BY <1>2, <1>7, <2>1 DEF Personas
    <3> QED  BY <3>1, SMT
  <2>2. CASE ~Avoided("C")
    BY <1>2, <1>4, <1>5, <2>2 DEF Personas
  <2> QED  BY <2>1, <2>2
<1>9. Position("B", p, b) <= Position("A", p, b)
  <2>1. CASE Avoided("B")
    <3>1. Position("B", p, b) = 0 /\ Position("A", p, b) \in Nat  BY <1>2, <1>7, <2>1 DEF Personas
    <3> QED  BY <3>1, SMT
  <2>2. CASE ~Avoided("B")
    BY <1>2, <1>4, <1>5, <2>2 DEF Personas
  <2> QED  BY <2>1, <2>2
<1> QED  BY <1>2, <1>3, <1>5, <1>7, <1>8, <1>9 DEF Personas

LEMMA KellyInitInv == KellyInit => KellyInv
BY SMT DEF KellyInit, KellyInv, KellyTypes, SizingOrdered, Personas, Actions, Cap

LEMMA AdviseInv ==
    ASSUME KellyInv, NEW p \in Chances, NEW b \in Ratios, Advise(p, b)
    PROVE  KellyInv'
<1>0. KellyTypes /\ SizingOrdered  BY DEF KellyInv
<1> DEFINE told(n) == [position |-> Position(n, p, b), action |-> ActionFor(n, p, b)]
<1>1. \A n \in Personas : advice'[n] = told(n)
  BY DEF Advise
<1>2. \A n \in Personas : advice'[n].position = Position(n, p, b) /\ advice'[n].action = ActionFor(n, p, b)
  <2> SUFFICES ASSUME NEW n \in Personas
               PROVE  advice'[n].position = Position(n, p, b) /\ advice'[n].action = ActionFor(n, p, b)
    OBVIOUS
  <2>1. advice'[n] = [position |-> Position(n, p, b), action |-> ActionFor(n, p, b)]  BY <1>1
  <2> QED  BY <2>1
<1>3. advice' \in [Personas -> [position : Nat, action : Actions]]
  BY PositionsAreOrdered DEF Advise
<1>4. advised' \in Nat
  BY <1>0, SMT DEF Advise, KellyTypes
<1>5. \A n \in Personas :
         /\ summary'[n].actionable = summary[n].actionable + (IF advice'[n].position > 0 THEN 1 ELSE 0)
         /\ summary'[n].largest = Larger(summary[n].largest, advice'[n].position)
         /\ summary'[n].actions = [summary[n].actions EXCEPT ![advice'[n].action] = @ + 1]
         /\ summary'[n] = [actionable |-> summary'[n].actionable, largest |-> summary'[n].largest,
                           actions |-> summary'[n].actions]
  BY DEF Advise
<1>6. \A n \in Personas : summary'[n].actionable \in Nat
  <2> SUFFICES ASSUME NEW n \in Personas PROVE summary'[n].actionable \in Nat  OBVIOUS
  <2>1. summary[n].actionable \in Nat /\ advice'[n].position \in Nat
    BY <1>0, <1>3 DEF KellyTypes
  <2>2. summary'[n].actionable = summary[n].actionable + (IF advice'[n].position > 0 THEN 1 ELSE 0)
    BY <1>5
  <2> QED  BY <2>1, <2>2, SMT
<1>7. \A n \in Personas : summary'[n].largest \in Nat /\ summary'[n].largest <= Cap[n]
  <2> SUFFICES ASSUME NEW n \in Personas
               PROVE  summary'[n].largest \in Nat /\ summary'[n].largest <= Cap[n]
    OBVIOUS
  <2>1. /\ summary[n].largest \in Nat /\ summary[n].largest <= Cap[n]
        /\ advice'[n].position \in Nat /\ advice'[n].position <= Cap[n]
    BY <1>0, <1>2, PositionsAreOrdered DEF KellyTypes, SizingOrdered
  <2>2. summary'[n].largest = Larger(summary[n].largest, advice'[n].position)  BY <1>5
  <2> QED  BY <2>1, <2>2 DEF Larger
<1>8. \A n \in Personas : summary'[n].actions \in [Actions -> Nat]
  <2> SUFFICES ASSUME NEW n \in Personas PROVE summary'[n].actions \in [Actions -> Nat]  OBVIOUS
  <2> DEFINE counts == summary[n].actions
             act == advice'[n].action
  <2>1. counts \in [Actions -> Nat] /\ act \in Actions
    BY <1>0, <1>3 DEF KellyTypes
  <2>2. summary'[n].actions = [counts EXCEPT ![act] = @ + 1]  BY <1>5
  <2> HIDE DEF counts, act
  <2> QED  BY <2>1, <2>2, SMT
<1>9. KellyTypes'
  <2>1. DOMAIN summary' = Personas /\ summary' = [n \in Personas |-> summary'[n]]
    BY DEF Advise
  <2>2. \A n \in Personas : summary'[n] \in [actionable : Nat, largest : Nat, actions : [Actions -> Nat]]
    <3> SUFFICES ASSUME NEW n \in Personas
                 PROVE  summary'[n] \in [actionable : Nat, largest : Nat, actions : [Actions -> Nat]]
      OBVIOUS
    <3>1. \A i \in Nat, j \in Nat, k \in [Actions -> Nat] :
             [actionable |-> i, largest |-> j, actions |-> k]
               \in [actionable : Nat, largest : Nat, actions : [Actions -> Nat]]
      OBVIOUS
    <3>2. summary'[n] = [actionable |-> summary'[n].actionable, largest |-> summary'[n].largest,
                         actions |-> summary'[n].actions]
      BY <1>5
    <3>3. /\ summary'[n].actionable \in Nat /\ summary'[n].largest \in Nat
          /\ summary'[n].actions \in [Actions -> Nat]
      BY <1>6, <1>7, <1>8
    <3> QED  BY <3>1, <3>2, <3>3
  <2>3. summary' \in [Personas -> [actionable : Nat, largest : Nat, actions : [Actions -> Nat]]]
    BY <2>1, <2>2
  <2> QED  BY <1>3, <1>4, <2>3 DEF KellyTypes
<1>10. /\ advice'["C"].position <= advice'["B"].position
       /\ advice'["B"].position <= advice'["A"].position
       /\ advice'["A"].action = "avoid" => advice'["B"].action = "avoid"
       /\ advice'["B"].action = "avoid" => advice'["C"].action = "avoid"
       /\ \A n \in Personas : advice'[n].action = "avoid" => advice'[n].position = 0
  BY <1>2, PositionsAreOrdered DEF Personas
<1>11. /\ summary'["C"].actionable <= summary'["B"].actionable
       /\ summary'["B"].actionable <= summary'["A"].actionable
  <2>1. /\ advice'["A"].position \in Nat /\ advice'["B"].position \in Nat
        /\ advice'["C"].position \in Nat
    BY <1>3 DEF Personas
  <2>2. /\ summary["A"].actionable \in Nat /\ summary["B"].actionable \in Nat
        /\ summary["C"].actionable \in Nat
        /\ summary["C"].actionable <= summary["B"].actionable
        /\ summary["B"].actionable <= summary["A"].actionable
    BY <1>0 DEF Personas, KellyTypes, SizingOrdered
  <2>3. /\ summary'["A"].actionable = summary["A"].actionable + (IF advice'["A"].position > 0 THEN 1 ELSE 0)
        /\ summary'["B"].actionable = summary["B"].actionable + (IF advice'["B"].position > 0 THEN 1 ELSE 0)
        /\ summary'["C"].actionable = summary["C"].actionable + (IF advice'["C"].position > 0 THEN 1 ELSE 0)
    BY <1>5 DEF Personas
  <2> QED  BY <1>10, <2>1, <2>2, <2>3, SMT
<1> QED  BY <1>7, <1>9, <1>10, <1>11 DEF KellyInv, SizingOrdered

LEMMA KellyStepInv == KellyInv /\ [KellyNext]_kellyVars => KellyInv'
<1> SUFFICES ASSUME KellyInv, [KellyNext]_kellyVars PROVE KellyInv'  OBVIOUS
<1>1. CASE KellyNext  BY <1>1, AdviseInv DEF KellyNext
<1>2. CASE UNCHANGED kellyVars
  BY <1>2 DEF kellyVars, KellyInv, KellyTypes, SizingOrdered
<1> QED  BY <1>1, <1>2

(* For all opportunities, however many, the more careful persona is never   *)
(* advised the larger position, and no position is over its cap.            *)
THEOREM SizingStaysOrdered == KellySpec => []SizingOrdered
<1>1. KellyInv => SizingOrdered  BY DEF KellyInv
<1> QED  BY <1>1, KellyInitInv, KellyStepInv, PTL DEF KellySpec

------------------------------------------------------------------------------
(***************************************************************************)
(* ModelRunner.  While a run goes on, the scripts behind it have files of  *)
(* this run or are noted as failed, those before it have files of earlier  *)
(* runs, and what a file of this run was computed from still lies beside   *)
(* it, for only the script the runner is at is written.                    *)
(***************************************************************************)
RunnerTypes ==
    /\ library \in Libraries /\ runs \in Nat
    /\ at \in Nat /\ at <= Len(Scripts[library]) + 1
    /\ DOMAIN files \subseteq Listed
    /\ \A s \in DOMAIN files : files[s].run \in Nat /\ files[s].run <= runs

BehindIsOfTheRun ==
    \A k \in DOMAIN Scripts[library] : k < at /\ Scripts[library][k] \notin failed =>
        /\ Scripts[library][k] \in DOMAIN files
        /\ files[Scripts[library][k]].run = runs /\ files[Scripts[library][k]].data = imported

AheadIsOlder ==
    \A k \in DOMAIN Scripts[library] : k >= at /\ Scripts[library][k] \in DOMAIN files =>
        files[Scripts[library][k]].run < runs

InputsLieBeside ==
    \A s \in DOMAIN files : files[s].run = runs => \A i \in Reads[s] :
        /\ i \in DOMAIN files
        /\ IF PositionOf(i) < PositionOf(s) THEN files[s].from[i] = files[i].run
           ELSE files[s].from[i] < runs

RunIsCoherent ==
    /\ library \in Separate => version = imported
    /\ BehindIsOfTheRun /\ AheadIsOlder /\ InputsLieBeside

RunnerInv ==
    /\ RunnerTypes
    /\ at # 0 => RunIsCoherent
    /\ ReportIsOfItsRun

LEMMA Positions ==
    ASSUME library \in Libraries
    PROVE  /\ DOMAIN Scripts[library] = 1..Len(Scripts[library]) /\ Len(Scripts[library]) \in Nat
           /\ \A k \in DOMAIN Scripts[library] :
                 Scripts[library][k] \in Listed /\ PositionOf(Scripts[library][k]) = k
           /\ \A s \in Listed : /\ PositionOf(s) \in DOMAIN Scripts[library]
                                /\ Scripts[library][PositionOf(s)] = s
                                /\ Reads[s] \subseteq Listed
<1>1. /\ Scripts[library] \in Seq(Listed)
      /\ \A j, k \in DOMAIN Scripts[library] : Scripts[library][j] = Scripts[library][k] => j = k
      /\ \A s \in Listed : Reads[s] \subseteq Listed
  BY ScriptsAssumption DEF Listed
<1>2. \A k \in DOMAIN Scripts[library] : Scripts[library][k] \in Listed
  BY DEF Listed, ScriptsOf
<1>3. \A s \in Listed : /\ PositionOf(s) \in DOMAIN Scripts[library]
                        /\ Scripts[library][PositionOf(s)] = s
  BY DEF Listed, ScriptsOf, PositionOf
<1>4. \A k \in DOMAIN Scripts[library] : PositionOf(Scripts[library][k]) = k
  BY <1>1, <1>2, <1>3
<1> QED  BY <1>1, <1>2, <1>3, <1>4

(* The script the runner is at writes its file, and the runner goes on.     *)
LEMMA ScriptWrites ==
    ASSUME RunnerInv, NEW s \in Listed, AtScript(s), Readable(s),
           files' = With(s, Output(s, runs, Assumptions, TRUE)),
           at' = at + 1, failed \subseteq failed',
           UNCHANGED <<library, runs, version, imported, report>>
    PROVE  RunnerInv'
<1> DEFINE file == Output(s, runs, Assumptions, TRUE)
<1>1. RunnerTypes /\ at # 0 /\ at \in DOMAIN Scripts[library] /\ s = Scripts[library][at]
  <2>1. RunnerTypes /\ at \in DOMAIN Scripts[library] /\ s = Scripts[library][at]
    BY DEF RunnerInv, AtScript
  <2>2. 0 \notin DOMAIN Scripts[library]
    BY <2>1, Positions DEF RunnerTypes
  <2> QED  BY <2>1, <2>2
<1>2. library \in Libraries /\ runs \in Nat /\ at \in Nat /\ RunIsCoherent
  BY <1>1 DEF RunnerInv, RunnerTypes
<1>3. /\ DOMAIN Scripts[library] = 1..Len(Scripts[library]) /\ Len(Scripts[library]) \in Nat
      /\ \A k \in DOMAIN Scripts[library] :
            Scripts[library][k] \in Listed /\ PositionOf(Scripts[library][k]) = k
      /\ \A x \in Listed : /\ PositionOf(x) \in DOMAIN Scripts[library]
                           /\ Scripts[library][PositionOf(x)] = x
                           /\ Reads[x] \subseteq Listed
  BY <1>2, Positions
<1>4. Assumptions = imported
  BY <1>2 DEF Assumptions, RunIsCoherent
<1>5. /\ file.run = runs /\ file.data = imported
      /\ \A i \in Reads[s] : file.from[i] = files[i].run
  BY <1>4 DEF Output
<1>6. \A i \in Reads[s] : i \in DOMAIN files
  BY DEF Readable
<1> HIDE DEF file
<1>7. /\ DOMAIN files' = DOMAIN files \union {s} /\ files'[s] = file
      /\ \A x \in DOMAIN files : x # s => files'[x] = files[x]
  <2>1. files' = With(s, file)
    BY DEF file
  <2>2. /\ DOMAIN With(s, file) = DOMAIN files \union {s} /\ With(s, file)[s] = file
        /\ \A x \in DOMAIN files : x # s => With(s, file)[x] = files[x]
    BY DEF With
  <2> QED  BY <2>1, <2>2
<1>8. PositionOf(s) = at
  BY <1>1, <1>3
<1>9. \A x : PositionOf(x)' = PositionOf(x)
  BY DEF PositionOf
<1>10. s \in DOMAIN files => files[s].run < runs
  BY <1>1, <1>2 DEF RunIsCoherent, AheadIsOlder
<1>11. RunnerTypes'
  <2>1. Listed' = Listed /\ Len(Scripts[library'])  = Len(Scripts[library])
    BY DEF Listed
  <2>2. at' \in Nat /\ at' <= Len(Scripts[library']) + 1
    BY <1>1, <1>2, <1>3, <2>1
  <2>3. \A x \in DOMAIN files' : files'[x].run \in Nat /\ files'[x].run <= runs
    <3> SUFFICES ASSUME NEW x \in DOMAIN files' PROVE files'[x].run \in Nat /\ files'[x].run <= runs
      OBVIOUS
    <3>1. CASE x = s
      <4>1. files'[x].run = runs
        BY <1>5, <1>7, <3>1
      <4>2. runs \in Nat /\ runs <= runs
        BY <1>2
      <4> QED  BY <4>1, <4>2
    <3>2. CASE x # s  BY <1>1, <1>7, <3>2 DEF RunnerTypes
    <3> QED  BY <3>1, <3>2
  <2> QED  BY <1>1, <1>2, <1>7, <2>1, <2>2, <2>3 DEF RunnerTypes
<1>12. BehindIsOfTheRun'
  <2> SUFFICES ASSUME NEW k \in DOMAIN Scripts[library], k < at + 1, Scripts[library][k] \notin failed'
               PROVE  /\ Scripts[library][k] \in DOMAIN files'
                      /\ files'[Scripts[library][k]].run = runs
                      /\ files'[Scripts[library][k]].data = imported
    BY DEF BehindIsOfTheRun
  <2>1. CASE k = at
    BY <1>1, <1>5, <1>7, <2>1
  <2>2. CASE k # at
    <3>1. Scripts[library][k] # s
      BY <1>3, <1>8, <2>2
    <3>2. k < at /\ Scripts[library][k] \notin failed
      BY <1>2, <1>3, <2>2
    <3>3. /\ Scripts[library][k] \in DOMAIN files
          /\ files[Scripts[library][k]].run = runs /\ files[Scripts[library][k]].data = imported
      BY <1>2, <3>2 DEF RunIsCoherent, BehindIsOfTheRun
    <3> QED  BY <1>7, <3>1, <3>3
  <2> QED  BY <2>1, <2>2
<1>13. AheadIsOlder'
  <2> SUFFICES ASSUME NEW k \in DOMAIN Scripts[library], k >= at + 1, Scripts[library][k] \in DOMAIN files'
               PROVE  files'[Scripts[library][k]].run < runs
    BY DEF AheadIsOlder
  <2>1. Scripts[library][k] # s
    BY <1>2, <1>3, <1>8
  <2>2. k >= at
    BY <1>2, <1>3
  <2> QED  BY <1>2, <1>7, <2>1, <2>2 DEF RunIsCoherent, AheadIsOlder
<1>14. InputsLieBeside'
  <2> SUFFICES ASSUME NEW x \in DOMAIN files', files'[x].run = runs, NEW i \in Reads[x]
               PROVE  /\ i \in DOMAIN files'
                      /\ IF PositionOf(i) < PositionOf(x) THEN files'[x].from[i] = files'[i].run
                         ELSE files'[x].from[i] < runs
    BY <1>9 DEF InputsLieBeside
  <2>0. x \in Listed /\ i \in Listed
    BY <1>1, <1>3, <1>7 DEF RunnerTypes
  <2>1. CASE x = s
    <3>1. i \in DOMAIN files /\ files'[x].from[i] = files[i].run
      BY <1>5, <1>6, <1>7, <2>1
    <3>2. CASE PositionOf(i) < PositionOf(x)
      <4>1. i # s
        BY <1>3, <2>0, <2>1, <3>2
      <4> QED  BY <1>7, <3>1, <3>2, <4>1
    <3>3. CASE ~(PositionOf(i) < PositionOf(x))
      <4>1. PositionOf(i) >= at /\ Scripts[library][PositionOf(i)] = i /\ PositionOf(i) \in DOMAIN Scripts[library]
        BY <1>2, <1>3, <1>8, <2>0, <2>1, <3>3
      <4>2. files[i].run < runs
        BY <1>2, <3>1, <4>1 DEF RunIsCoherent, AheadIsOlder
      <4> QED  BY <1>7, <3>1, <3>3, <4>2
    <3> QED  BY <3>2, <3>3
  <2>2. CASE x # s
    <3>1. x \in DOMAIN files /\ files'[x] = files[x]
      BY <1>7, <2>2
    <3>2. PositionOf(x) < at
      <4>1. Scripts[library][PositionOf(x)] = x /\ PositionOf(x) \in DOMAIN Scripts[library]
        BY <1>3, <2>0
      <4>2. ~(PositionOf(x) >= at)
        <5>1. files[x].run = runs
          BY <3>1
        <5>2. PositionOf(x) >= at => files[x].run < runs
          BY <1>2, <3>1, <4>1 DEF RunIsCoherent, AheadIsOlder
        <5> QED  BY <1>2, <5>1, <5>2
      <4> QED  BY <1>2, <1>3, <4>1, <4>2
    <3>3. /\ i \in DOMAIN files
          /\ IF PositionOf(i) < PositionOf(x) THEN files[x].from[i] = files[i].run
             ELSE files[x].from[i] < runs
      BY <1>2, <3>1 DEF RunIsCoherent, InputsLieBeside
    <3>4. PositionOf(i) < PositionOf(x) => i # s
      BY <1>2, <1>3, <1>8, <2>0, <3>2
    <3> QED  BY <1>7, <3>1, <3>3, <3>4
  <2> QED  BY <2>1, <2>2
<1>15. (library \in Separate => version = imported)'
  BY <1>2 DEF RunIsCoherent
<1>16. ReportIsOfItsRun'
  <2>1. Listed' = Listed
    BY DEF Listed
  <2> QED  BY <1>9, <2>1 DEF RunnerInv, ReportIsOfItsRun
<1> QED  BY <1>11, <1>12, <1>13, <1>14, <1>15, <1>16 DEF RunnerInv, RunIsCoherent

(* Steps that end the run or happen between runs, and leave report alone.   *)
LEMMA NoRunInv ==
    ASSUME RunnerInv, at' = 0, UNCHANGED <<library, report>>, runs' \in Nat, runs' >= runs,
           \/ files' = files
           \/ \E s \in Listed : \E assumed, whole : files' = With(s, Output(s, runs', assumed, whole))
    PROVE  RunnerInv'
<1>1. RunnerTypes /\ ReportIsOfItsRun
  BY DEF RunnerInv
<1>2. Listed' = Listed /\ \A x : PositionOf(x)' = PositionOf(x)
  BY DEF Listed, PositionOf
<1>3. ReportIsOfItsRun'
  BY <1>1, <1>2 DEF ReportIsOfItsRun
<1>4. DOMAIN files' \subseteq Listed /\ \A x \in DOMAIN files' : files'[x].run \in Nat /\ files'[x].run <= runs'
  <2>1. CASE files' = files
    BY <1>1, <2>1 DEF RunnerTypes
  <2>2. ASSUME NEW s \in Listed, NEW assumed, NEW whole, files' = With(s, Output(s, runs', assumed, whole))
        PROVE  DOMAIN files' \subseteq Listed /\ \A x \in DOMAIN files' : files'[x].run \in Nat /\ files'[x].run <= runs'
    <3> DEFINE file == Output(s, runs', assumed, whole)
    <3>1. file.run = runs' /\ files' = With(s, file)
      BY <2>2 DEF Output
    <3> HIDE DEF file
    <3>2. /\ DOMAIN files' = DOMAIN files \union {s} /\ files'[s] = file
          /\ \A x \in DOMAIN files : x # s => files'[x] = files[x]
      <4>1. files' = With(s, file)
        BY <3>1
      <4>2. /\ DOMAIN With(s, file) = DOMAIN files \union {s} /\ With(s, file)[s] = file
            /\ \A x \in DOMAIN files : x # s => With(s, file)[x] = files[x]
        BY DEF With
      <4> QED  BY <4>1, <4>2
    <3>3. ASSUME NEW x \in DOMAIN files' PROVE files'[x].run \in Nat /\ files'[x].run <= runs'
      <4>1. CASE x = s  BY <3>1, <3>2, <4>1
      <4>2. CASE x # s  BY <1>1, <3>2, <4>2 DEF RunnerTypes
      <4> QED  BY <4>1, <4>2
    <3> QED  BY <1>1, <3>2, <3>3 DEF RunnerTypes
  <2> QED  BY <2>1, <2>2
<1>5. at' <= Len(Scripts[library]) + 1
  BY <1>1, Positions DEF RunnerTypes
<1> QED  BY <1>1, <1>2, <1>3, <1>4, <1>5 DEF RunnerInv, RunnerTypes

(* A script that raised before it wrote.                                    *)
LEMMA ScriptRaises ==
    ASSUME RunnerInv, NEW s \in Listed, AtScript(s), at' = at + 1, failed' = failed \union {s},
           UNCHANGED <<library, files, runs, version, imported, report>>
    PROVE  RunnerInv'
<1>1. RunnerTypes /\ at \in DOMAIN Scripts[library] /\ s = Scripts[library][at] /\ ReportIsOfItsRun
  BY DEF RunnerInv, AtScript
<1>2. /\ DOMAIN Scripts[library] = 1..Len(Scripts[library]) /\ Len(Scripts[library]) \in Nat
      /\ at \in Nat /\ runs \in Nat /\ library \in Libraries
  BY <1>1, Positions DEF RunnerTypes
<1>3. RunIsCoherent
  BY <1>1, <1>2 DEF RunnerInv
<1>4. Listed' = Listed /\ \A x : PositionOf(x)' = PositionOf(x)
  BY DEF Listed, PositionOf
<1>5. BehindIsOfTheRun'
  <2> SUFFICES ASSUME NEW k \in DOMAIN Scripts[library], k < at + 1, Scripts[library][k] \notin failed'
               PROVE  /\ Scripts[library][k] \in DOMAIN files
                      /\ files[Scripts[library][k]].run = runs
                      /\ files[Scripts[library][k]].data = imported
    BY DEF BehindIsOfTheRun
  <2>1. k # at
    BY <1>1
  <2>2. k < at /\ Scripts[library][k] \notin failed
    BY <1>2, <2>1
  <2> QED  BY <1>3, <2>2 DEF RunIsCoherent, BehindIsOfTheRun
<1>6. AheadIsOlder'
  BY <1>2, <1>3 DEF RunIsCoherent, AheadIsOlder
<1>7. InputsLieBeside'
  BY <1>3, <1>4 DEF RunIsCoherent, InputsLieBeside
<1>8. RunnerTypes'
  BY <1>1, <1>2, <1>4 DEF RunnerTypes
<1>9. ReportIsOfItsRun'
  BY <1>1, <1>4 DEF ReportIsOfItsRun
<1>10. RunIsCoherent'
  BY <1>3, <1>5, <1>6, <1>7 DEF RunIsCoherent
<1> QED  BY <1>8, <1>9, <1>10 DEF RunnerInv

(* The last script is done: what is reported is what the run left.          *)
LEMMA SummariseInv ==
    ASSUME RunnerInv, Summarise
    PROVE  RunnerInv'
<1>1. /\ RunnerTypes /\ ReportIsOfItsRun /\ at = Len(Scripts[library]) + 1 /\ at' = 0
      /\ UNCHANGED <<library, files, runs, failed, version, imported, faults>>
      /\ \/ report' = report
         \/ report' = [run |-> runs, data |-> imported, failed |-> failed, files |-> files]
  BY DEF RunnerInv, Summarise
<1>2. /\ DOMAIN Scripts[library] = 1..Len(Scripts[library]) /\ Len(Scripts[library]) \in Nat
      /\ \A s \in Listed : /\ PositionOf(s) \in DOMAIN Scripts[library]
                           /\ Scripts[library][PositionOf(s)] = s
  BY <1>1, Positions DEF RunnerTypes
<1>3. RunIsCoherent
  BY <1>1, <1>2 DEF RunnerInv
<1>4. Listed' = Listed /\ \A x : PositionOf(x)' = PositionOf(x)
  BY <1>1 DEF Listed, PositionOf
<1>5. CASE report' = report
  BY <1>1, <1>4, <1>5 DEF RunnerInv, RunnerTypes, ReportIsOfItsRun
<1>6. CASE report' = [run |-> runs, data |-> imported, failed |-> failed, files |-> files]
  <2>1. ASSUME NEW s \in Listed, s \notin failed
        PROVE  s \in DOMAIN files /\ files[s].run = runs /\ files[s].data = imported
    <3>1. PositionOf(s) < at
      BY <1>1, <1>2
    <3> QED  BY <1>2, <1>3, <2>1, <3>1 DEF RunIsCoherent, BehindIsOfTheRun
  <2>2. \A s \in DOMAIN files : \A i \in Reads[s] : files[s].run = runs =>
            IF PositionOf(i) < PositionOf(s) THEN files[s].from[i] = files[i].run ELSE files[s].from[i] < runs
    BY <1>3 DEF RunIsCoherent, InputsLieBeside
  <2>3. report'.run = runs /\ report'.data = imported /\ report'.failed = failed /\ report'.files = files
    BY <1>6
  <2>4. ReportIsOfItsRun'
    BY <1>4, <2>1, <2>2, <2>3 DEF ReportIsOfItsRun
  <2> QED  BY <1>1, <1>2, <1>4, <2>4 DEF RunnerInv, RunnerTypes
<1> QED  BY <1>1, <1>5, <1>6

LEMMA RunnerStepInv == RunnerInv /\ [RunnerNext]_runnerVars => RunnerInv'
<1> SUFFICES ASSUME RunnerInv, [RunnerNext]_runnerVars PROVE RunnerInv'  OBVIOUS
<1>1. RunnerTypes /\ ReportIsOfItsRun /\ library \in Libraries /\ runs \in Nat /\ at \in Nat
  BY DEF RunnerInv, RunnerTypes
<1>2. CASE Start
  <2>1. /\ at = 0 /\ runs' = runs + 1 /\ at' = 1 /\ imported' = version
        /\ UNCHANGED <<library, files, version, report>>
    BY <1>2 DEF Start, NoRun
  <2>2. Listed' = Listed /\ \A x : PositionOf(x)' = PositionOf(x)
    BY <2>1 DEF Listed, PositionOf
  <2>3. Len(Scripts[library]) \in Nat /\ DOMAIN Scripts[library] = 1..Len(Scripts[library])
    BY <1>1, Positions
  <2>4. \A x \in DOMAIN files : files[x].run \in Nat /\ files[x].run < runs + 1
    BY <1>1 DEF RunnerTypes
  <2>5. RunnerTypes'
    BY <1>1, <2>1, <2>2, <2>3, <2>4 DEF RunnerTypes
  <2>6. BehindIsOfTheRun' /\ AheadIsOlder'
    BY <2>1, <2>3, <2>4 DEF BehindIsOfTheRun, AheadIsOlder
  <2>7. InputsLieBeside'
    BY <1>1, <2>1, <2>4 DEF InputsLieBeside
  <2>8. ReportIsOfItsRun'
    BY <1>1, <2>1, <2>2 DEF ReportIsOfItsRun
  <2> QED  BY <2>1, <2>5, <2>6, <2>7, <2>8 DEF RunnerInv, RunIsCoherent
<1>3. CASE KillRunner
  <2>1. /\ at' = 0 /\ UNCHANGED <<library, report>> /\ runs' = runs
        /\ \/ files' = files
           \/ \E s \in Listed : \E assumed, whole : files' = With(s, Output(s, runs', assumed, whole))
    BY <1>3 DEF KillRunner
  <2> QED  BY <1>1, <2>1, NoRunInv
<1>4. CASE EditAssumptions
  <2>1. /\ library \in Separate => at = 0
        /\ UNCHANGED <<library, files, runs, at, failed, imported, report>>
    BY <1>4 DEF EditAssumptions, NoRun
  <2>2. Listed' = Listed /\ \A x : PositionOf(x)' = PositionOf(x)
    BY <2>1 DEF Listed, PositionOf
  <2> QED  BY <1>1, <2>1, <2>2
           DEF RunnerInv, RunnerTypes, RunIsCoherent, BehindIsOfTheRun, AheadIsOlder, InputsLieBeside, ReportIsOfItsRun
<1>5. CASE Clean
  <2>1. at = 0 /\ at' = 0 /\ files' = << >> /\ report' = NoReport /\ UNCHANGED <<library, runs>>
    BY <1>5 DEF Clean, NoRun
  <2>2. DOMAIN files' = {}
    BY <2>1
  <2> QED  BY <1>1, <2>1, <2>2 DEF RunnerInv, RunnerTypes, ReportIsOfItsRun
<1>6. ASSUME NEW s \in Listed, Succeed(s) PROVE RunnerInv'
  <2>1. /\ AtScript(s) /\ Readable(s) /\ files' = With(s, Output(s, runs, Assumptions, TRUE))
        /\ at' = at + 1 /\ failed' = failed
        /\ UNCHANGED <<library, runs, version, imported, report>>
    BY <1>6 DEF Succeed
  <2> QED  BY <2>1, ScriptWrites
<1>7. ASSUME NEW s \in Listed, ChartFails(s) PROVE RunnerInv'
  <2>1. /\ AtScript(s) /\ Readable(s) /\ files' = With(s, Output(s, runs, Assumptions, TRUE))
        /\ failed' = failed \union {s} /\ at' = (IF library \in Separate THEN 0 ELSE at + 1)
        /\ UNCHANGED <<library, runs, version, imported, report>>
    BY <1>7 DEF ChartFails, NoteFailure
  <2>2. CASE library \in Separate
    <3>1. at' = 0 /\ runs' \in Nat /\ runs' >= runs
      BY <1>1, <2>1, <2>2
    <3>2. \E assumed, whole : files' = With(s, Output(s, runs', assumed, whole))
      BY <2>1
    <3> QED  BY <2>1, <3>1, <3>2, NoRunInv
  <2>3. CASE library \notin Separate
    <3>1. at' = at + 1 /\ failed \subseteq failed'
      BY <2>1, <2>3
    <3> QED  BY <2>1, <3>1, ScriptWrites
  <2> QED  BY <2>2, <2>3
<1>8. ASSUME NEW s \in Listed, Raise(s) PROVE RunnerInv'
  <2>1. /\ AtScript(s) /\ failed' = failed \union {s} /\ at' = (IF library \in Separate THEN 0 ELSE at + 1)
        /\ UNCHANGED <<library, files, runs, version, imported, report>>
    BY <1>8 DEF Raise, NoteFailure
  <2>2. CASE library \in Separate
    BY <1>1, <2>1, <2>2, NoRunInv
  <2>3. CASE library \notin Separate
    BY <2>1, <2>3, ScriptRaises
  <2> QED  BY <2>2, <2>3
<1>9. ASSUME NEW s \in Listed, RunByHand(s) PROVE RunnerInv'
  <2>1. /\ at' = 0 /\ UNCHANGED <<library, report>> /\ runs' = runs + 1
        /\ files' = With(s, Output(s, runs', version, TRUE))
    BY <1>9 DEF RunByHand, NoRun
  <2>2. \E assumed, whole : files' = With(s, Output(s, runs', assumed, whole))
    BY <2>1
  <2>3. runs' \in Nat /\ runs' >= runs
    BY <1>1, <2>1
  <2> QED  BY <2>1, <2>2, <2>3, NoRunInv
<1>10. CASE UNCHANGED runnerVars
  <2>1. UNCHANGED <<library, files, runs, at, failed, version, imported, report>>
    BY <1>10 DEF runnerVars
  <2>2. Listed' = Listed /\ \A x : PositionOf(x)' = PositionOf(x)
    BY <2>1 DEF Listed, PositionOf
  <2> QED  BY <1>1, <2>1, <2>2
           DEF RunnerInv, RunnerTypes, RunIsCoherent, BehindIsOfTheRun, AheadIsOlder, InputsLieBeside, ReportIsOfItsRun
<1> QED  BY <1>2, <1>3, <1>4, <1>5, <1>6, <1>7, <1>8, <1>9, <1>10, SummariseInv DEF RunnerNext

(* Whatever fails, is killed, edited or run by hand, what the summary names *)
(* as computed is of its run, and of the files that lie beside it.          *)
THEOREM ReportsAreTrue == RunnerSpec => []ReportIsOfItsRun
<1>1. RunnerInit => RunnerInv
  <2> SUFFICES ASSUME RunnerInit PROVE RunnerInv  OBVIOUS
  <2>1. library \in Libraries /\ files = << >> /\ runs = 0 /\ at = 0 /\ report = NoReport
    BY DEF RunnerInit
  <2>2. DOMAIN files = {} /\ Len(Scripts[library]) \in Nat
    BY <2>1, Positions
  <2> QED  BY <2>1, <2>2 DEF RunnerInv, RunnerTypes, ReportIsOfItsRun
<1>2. RunnerInv => ReportIsOfItsRun
  BY DEF RunnerInv
<1> QED  BY <1>1, <1>2, RunnerStepInv, PTL DEF RunnerSpec

------------------------------------------------------------------------------
(***************************************************************************)
(* PlanDocuments.  What a build has made so far is of the text as it was   *)
(* when the build began, or of a later one: the Markdown once it is past   *)
(* the assembly, the PDF once the browser has been started.                *)
(***************************************************************************)
JobRecords ==
    [kind : {"docx", "pdf"}, by : {"make", "ps1"},
     step : {"assemble", "reference", "convert", "page", "poll"},
     began : Nat, last : Nat, stable : Nat, polls : Nat]

DocumentTypes ==
    /\ text \in Nat /\ md \in Nat /\ docx \in Nat /\ pdf \in [of : Nat, size : Nat]
    /\ job \in JobRecords \union {NoJob}
    /\ ended \in [kind : {"none", "docx", "pdf"}, by : {"make", "ps1"}, began : Nat, ok : BOOLEAN]

JobIsUpToDate ==
    /\ job.began <= text
    /\ job.kind = "docx" <=> job.step \in {"assemble", "reference", "convert"}
    /\ job.kind = "pdf" => plan # "liveguard"
    /\ job.by = "make" /\ job.step \in {"reference", "convert"} => md >= job.began
    /\ job.step = "poll" => pdf.of >= job.began

DocumentInv ==
    /\ DocumentTypes
    /\ docx <= md /\ md <= text /\ (plan # "liveguard" => md = text)
    /\ Busy => JobIsUpToDate
    /\ DocumentIsOfItsBuild

LEMMA BusyRecord ==
    ASSUME NEW r \in JobRecords
    PROVE  r # NoJob
<1>1. r.step # "none" /\ NoJob.step = "none"
  BY DEF JobRecords, NoJob
<1> QED  BY <1>1

(* A build goes on to its next step. *)
LEMMA ContinueInv ==
    ASSUME DocumentTypes, Busy, NEW step \in {"assemble", "reference", "convert", "page", "poll"}, Continue(step)
    PROVE  /\ job' \in JobRecords /\ job'.step = step /\ job'.began = job.began
           /\ job'.kind = job.kind /\ job'.by = job.by /\ job' # NoJob /\ ended' = ended
<1>1. job \in JobRecords
  BY DEF DocumentTypes, Busy
<1>2. job' = [job EXCEPT !.step = step] /\ ended' = ended
  BY DEF Continue
<1>3. job' \in JobRecords /\ job'.step = step /\ job'.began = job.began /\ job'.kind = job.kind /\ job'.by = job.by
  BY <1>1, <1>2 DEF JobRecords
<1> QED  BY <1>2, <1>3, BusyRecord

LEMMA EndBuildInv ==
    ASSUME DocumentTypes, Busy, NEW ok \in BOOLEAN, EndBuild(ok)
    PROVE  /\ job' = NoJob
           /\ ended' \in [kind : {"none", "docx", "pdf"}, by : {"make", "ps1"}, began : Nat, ok : BOOLEAN]
           /\ ended'.kind = job.kind /\ ended'.by = job.by /\ ended'.began = job.began /\ ended'.ok = ok
<1>1. job \in JobRecords
  BY DEF DocumentTypes, Busy
<1>2. job' = NoJob /\ ended' = [kind |-> job.kind, by |-> job.by, began |-> job.began, ok |-> ok]
  BY DEF EndBuild
<1>3. job.kind \in {"docx", "pdf"} /\ job.by \in {"make", "ps1"} /\ job.began \in Nat
  BY <1>1 DEF JobRecords
<1> QED  BY <1>2, <1>3

LEMMA AssembleInv ==
    ASSUME DocumentInv, Assemble
    PROVE  DocumentInv'
<1>1. /\ DocumentTypes /\ Busy /\ JobIsUpToDate /\ docx <= md /\ md <= text
      /\ (plan # "liveguard" => md = text)
      /\ job \in JobRecords /\ job.step = "assemble" /\ job.kind = "docx" /\ job.began \in Nat
      /\ job.began <= text
  BY DEF DocumentInv, Assemble, DocumentTypes, Busy, JobIsUpToDate, JobRecords
<1>2. /\ (md' = md \/ md' = text)
      /\ UNCHANGED <<plan, text, images, docx, pdf, browser, jobs>>
  BY DEF Assemble
<1>3. /\ text \in Nat /\ md \in Nat /\ docx \in Nat /\ pdf \in [of : Nat, size : Nat]
  BY <1>1 DEF DocumentTypes
<1>4. docx' <= md' /\ md' <= text' /\ (plan' # "liveguard" => md' = text') /\ md' \in Nat
  BY <1>1, <1>2, <1>3
<1>5. CASE Continue("reference") /\ (job.by = "make" => md' = text)
  <2>1. /\ job' \in JobRecords /\ job'.step = "reference" /\ job'.began = job.began
        /\ job'.kind = job.kind /\ job'.by = job.by /\ job' # NoJob /\ ended' = ended
    BY <1>1, <1>5, ContinueInv
  <2>2. JobIsUpToDate'
    BY <1>1, <1>2, <1>3, <1>5, <2>1 DEF JobIsUpToDate
  <2> QED  BY <1>1, <1>2, <1>3, <1>4, <2>1, <2>2 DEF DocumentInv, DocumentTypes, Busy, DocumentIsOfItsBuild
<1>6. CASE EndBuild(FALSE)
  <2>1. /\ job' = NoJob /\ ~ended'.ok
        /\ ended' \in [kind : {"none", "docx", "pdf"}, by : {"make", "ps1"}, began : Nat, ok : BOOLEAN]
    BY <1>1, <1>6, EndBuildInv
  <2> QED  BY <1>1, <1>2, <1>3, <1>4, <2>1 DEF DocumentInv, DocumentTypes, Busy, DocumentIsOfItsBuild
<1>7. \/ Continue("reference") /\ (job.by = "make" => md' = text)
      \/ EndBuild(FALSE)
  BY DEF Assemble, Failed
<1> QED  BY <1>5, <1>6, <1>7

LEMMA ConvertInv ==
    ASSUME DocumentInv, Convert
    PROVE  DocumentInv'
<1>1. /\ DocumentTypes /\ Busy /\ JobIsUpToDate /\ docx <= md /\ md <= text
      /\ (plan # "liveguard" => md = text)
      /\ job \in JobRecords /\ job.step = "convert" /\ job.kind = "docx" /\ job.began \in Nat
      /\ job.by = "make" => md >= job.began
  BY DEF DocumentInv, Convert, DocumentTypes, Busy, JobIsUpToDate, JobRecords
<1>2. /\ \/ docx' = md /\ EndBuild(TRUE)
         \/ docx' = docx /\ EndBuild(FALSE)
      /\ UNCHANGED <<plan, text, images, md, pdf, browser, jobs>>
  BY DEF Convert
<1>3. PICK ok \in BOOLEAN : EndBuild(ok) /\ docx' = IF ok THEN md ELSE docx
  BY <1>2
<1>4. /\ job' = NoJob
      /\ ended' \in [kind : {"none", "docx", "pdf"}, by : {"make", "ps1"}, began : Nat, ok : BOOLEAN]
      /\ ended'.kind = job.kind /\ ended'.by = job.by /\ ended'.began = job.began /\ ended'.ok = ok
  BY <1>1, <1>3, EndBuildInv
<1>5. docx' \in Nat /\ docx' <= md
  BY <1>1, <1>3 DEF DocumentTypes
<1>6. DocumentIsOfItsBuild'
  BY <1>1, <1>2, <1>3, <1>4, <1>5 DEF DocumentIsOfItsBuild
<1> QED  BY <1>1, <1>2, <1>4, <1>5, <1>6 DEF DocumentInv, DocumentTypes, Busy

LEMMA DocumentStepInv == DocumentInv /\ [DocumentNext]_documentVars => DocumentInv'
<1> SUFFICES ASSUME DocumentInv, [DocumentNext]_documentVars PROVE DocumentInv'  OBVIOUS
<1>1. /\ DocumentTypes /\ docx <= md /\ md <= text /\ (plan # "liveguard" => md = text)
      /\ (Busy => JobIsUpToDate /\ job \in JobRecords) /\ DocumentIsOfItsBuild
      /\ text \in Nat /\ md \in Nat /\ docx \in Nat /\ pdf \in [of : Nat, size : Nat]
  BY DEF DocumentInv, DocumentTypes, Busy
<1>2. ASSUME NEW there \in BOOLEAN, EditText(there) PROVE DocumentInv'
  <2>1. /\ text' = text + 1 /\ md' = (IF plan = "liveguard" THEN md ELSE text')
        /\ UNCHANGED <<plan, docx, pdf, browser, job, jobs, ended>>
    BY <1>2 DEF EditText
  <2>2. md' \in Nat /\ md' >= md /\ md' <= text'
    BY <1>1, <2>1
  <2>3. ASSUME Busy PROVE JobIsUpToDate'
    <3>1. job.began \in Nat /\ JobIsUpToDate
      BY <1>1, <2>3 DEF JobRecords
    <3> QED  BY <1>1, <2>1, <2>2, <3>1 DEF JobIsUpToDate
  <2> QED  BY <1>1, <2>1, <2>2, <2>3 DEF DocumentInv, DocumentTypes, Busy, DocumentIsOfItsBuild
<1>3. CASE BeginDocx \/ BeginPdf
  <2>1. PICK how \in {"docx", "pdf"}, who \in {"make", "ps1"}, step \in {"assemble", "reference", "page"} :
            /\ BeginBuild(how, who, step)
            /\ how = "docx" <=> step \in {"assemble", "reference"}
            /\ step # "assemble" => plan = "investmind"
    BY <1>3 DEF BeginDocx, BeginPdf
  <2>2. /\ job' = [kind |-> how, by |-> who, step |-> step, began |-> text, last |-> 0, stable |-> 0, polls |-> 0]
        /\ UNCHANGED <<plan, text, images, md, docx, pdf, browser, ended>>
    BY <2>1 DEF BeginBuild
  <2>3. job' \in JobRecords
    BY <1>1, <2>2 DEF JobRecords
  <2>4. job' # NoJob
    BY <2>3, BusyRecord
  <2>5. JobIsUpToDate'
    BY <1>1, <2>1, <2>2 DEF JobIsUpToDate
  <2> QED  BY <1>1, <2>2, <2>3, <2>4, <2>5 DEF DocumentInv, DocumentTypes, Busy, DocumentIsOfItsBuild
<1>4. CASE BuildReference
  <2>1. /\ Busy /\ job.step = "reference" /\ Continue("convert")
        /\ UNCHANGED <<plan, text, images, md, docx, pdf, browser, jobs>>
    BY <1>4 DEF BuildReference
  <2>2. /\ job' \in JobRecords /\ job'.step = "convert" /\ job'.began = job.began
        /\ job'.kind = job.kind /\ job'.by = job.by /\ job' # NoJob /\ ended' = ended
    BY <1>1, <2>1, ContinueInv
  <2>3. JobIsUpToDate'
    BY <1>1, <2>1, <2>2 DEF JobIsUpToDate
  <2> QED  BY <1>1, <2>1, <2>2, <2>3 DEF DocumentInv, DocumentTypes, Busy, DocumentIsOfItsBuild
<1>5. CASE PrintPage
  <2>1. /\ Busy /\ job.step = "page" /\ UNCHANGED <<plan, text, images, md, docx, jobs>>
        /\ \/ EndBuild(FALSE) /\ UNCHANGED <<pdf, browser>>
           \/ Continue("poll") /\ pdf' = [NoPdf EXCEPT !.of = md]
    BY <1>5 DEF PrintPage
  <2>2. CASE EndBuild(FALSE) /\ UNCHANGED <<pdf, browser>>
    <3>1. /\ job' = NoJob /\ ~ended'.ok
          /\ ended' \in [kind : {"none", "docx", "pdf"}, by : {"make", "ps1"}, began : Nat, ok : BOOLEAN]
      BY <1>1, <2>1, <2>2, EndBuildInv
    <3> QED  BY <1>1, <2>1, <2>2, <3>1 DEF DocumentInv, DocumentTypes, Busy, DocumentIsOfItsBuild
  <2>3. CASE Continue("poll") /\ pdf' = [NoPdf EXCEPT !.of = md]
    <3>1. /\ job' \in JobRecords /\ job'.step = "poll" /\ job'.began = job.began
          /\ job'.kind = job.kind /\ job'.by = job.by /\ job' # NoJob /\ ended' = ended
      BY <1>1, <2>1, <2>3, ContinueInv
    <3>2. pdf' \in [of : Nat, size : Nat] /\ pdf'.of = md
      BY <1>1, <2>3 DEF NoPdf
    <3>3. JobIsUpToDate'
      BY <1>1, <2>1, <3>1, <3>2 DEF JobIsUpToDate, JobRecords
    <3> QED  BY <1>1, <2>1, <3>1, <3>2, <3>3 DEF DocumentInv, DocumentTypes, Busy, DocumentIsOfItsBuild
  <2> QED  BY <2>1, <2>2, <2>3
<1>6. CASE BrowserStep
  <2>1. /\ browser = "printing" /\ UNCHANGED <<plan, text, images, md, docx, job, jobs, ended>>
        /\ pdf' = pdf \/ pdf' = [pdf EXCEPT !.size = @ + 1]
    BY <1>6 DEF BrowserStep
  <2>2. pdf' \in [of : Nat, size : Nat] /\ pdf'.of = pdf.of
    BY <1>1, <2>1
  <2>3. JobIsUpToDate => JobIsUpToDate'
    BY <2>1, <2>2 DEF JobIsUpToDate
  <2>4. DocumentIsOfItsBuild'
    BY <1>1, <2>1 DEF DocumentIsOfItsBuild, Busy
  <2> QED  BY <1>1, <2>1, <2>2, <2>3, <2>4 DEF DocumentInv, DocumentTypes, Busy
<1>7. CASE Poll
  <2>1. /\ Busy /\ job \in JobRecords /\ UNCHANGED <<plan, text, images, md, docx, pdf, browser, jobs, ended>>
        /\ job' = [job EXCEPT !.polls = @ + 1, !.last = pdf.size,
                              !.stable = IF pdf.size >= Noticeable /\ pdf.size = job.last THEN @ + 1 ELSE @]
    BY <1>1, <1>7 DEF Poll
  <2>2. /\ job' \in JobRecords /\ job'.step = job.step /\ job'.began = job.began
        /\ job'.kind = job.kind /\ job'.by = job.by
    <3>1. PICK size \in Nat, n \in Nat, turn \in Nat :
              job' = [job EXCEPT !.polls = turn, !.last = size, !.stable = n]
      <4>1. job.polls + 1 \in Nat /\ pdf.size \in Nat
        BY <1>1, <2>1 DEF JobRecords
      <4>2. (IF pdf.size >= Noticeable /\ pdf.size = job.last THEN job.stable + 1 ELSE job.stable) \in Nat
        BY <2>1 DEF JobRecords
      <4> QED  BY <2>1, <4>1, <4>2
    <3> QED  BY <2>1, <3>1 DEF JobRecords
  <2>3. job' # NoJob
    BY <2>2, BusyRecord
  <2>4. JobIsUpToDate'
    BY <1>1, <2>1, <2>2 DEF JobIsUpToDate
  <2> QED  BY <1>1, <2>1, <2>2, <2>3, <2>4 DEF DocumentInv, DocumentTypes, Busy, DocumentIsOfItsBuild
<1>8. CASE FinishPdf
  <2> DEFINE ok == pdf.size >= Enough
  <2>0. ok \in BOOLEAN
    OBVIOUS
  <2>1. /\ Busy /\ job.step = "poll" /\ browser' = "none" /\ EndBuild(ok)
        /\ UNCHANGED <<plan, text, images, md, docx, pdf, jobs>>
    BY <1>8 DEF FinishPdf
  <2>2. /\ job' = NoJob
        /\ ended' \in [kind : {"none", "docx", "pdf"}, by : {"make", "ps1"}, began : Nat, ok : BOOLEAN]
        /\ ended'.kind = job.kind /\ ended'.by = job.by /\ ended'.began = job.began /\ ended'.ok = ok
    BY <1>1, <2>0, <2>1, EndBuildInv
  <2>3. job.kind # "docx" /\ pdf.of >= job.began
    BY <1>1, <2>1 DEF JobIsUpToDate
  <2>4. DocumentIsOfItsBuild'
    BY <1>1, <2>1, <2>2, <2>3 DEF DocumentIsOfItsBuild
  <2> QED  BY <1>1, <2>1, <2>2, <2>4 DEF DocumentInv, DocumentTypes, Busy
<1>9. CASE UNCHANGED documentVars
  BY <1>1, <1>9 DEF documentVars, DocumentInv, DocumentTypes, Busy, JobIsUpToDate, DocumentIsOfItsBuild
<1> QED  BY <1>2, <1>3, <1>4, <1>5, <1>6, <1>7, <1>8, <1>9, AssembleInv, ConvertInv DEF DocumentNext

(* A build that make reports as good leaves a document of the text as it    *)
(* was when the build began or later, whatever is edited, fails or hangs.   *)
THEOREM DocumentsAreFresh == DocumentSpec => []DocumentIsOfItsBuild
<1>1. DocumentInit => DocumentInv
  BY DEF DocumentInit, DocumentInv, DocumentTypes, NoPdf, NoJob, Busy, DocumentIsOfItsBuild
<1>2. DocumentInv => DocumentIsOfItsBuild
  BY DEF DocumentInv
<1> QED  BY <1>1, <1>2, DocumentStepInv, PTL DEF DocumentSpec

------------------------------------------------------------------------------
(***************************************************************************)
(* CashRunway.  A careful scenario earns no more and spends no less in     *)
(* every month, and what it has in cash is behind by the round it still    *)
(* waits for, one at a time: the rounds are further apart than the delay.  *)
(***************************************************************************)
Waiting(m) == {k \in FundingEvents : FundingMonth[k] < m /\ m <= FundingMonth[k] + 6}

Awaited(m) ==
    IF \E k \in FundingEvents : k \in Waiting(m)
    THEN FundingAmount[CHOOSE k \in FundingEvents : k \in Waiting(m)] ELSE 0

CameIn(s, m) == {k \in FundingEvents : FundingMonth[k] + Delay[s] < m}

RunwayInv ==
    /\ grown \in 0..Months /\ spentMonths \in 0..Months /\ comes \in Nat
    /\ active \in [Segments -> Nat] /\ subscription \in [1..5 -> Nat]
    /\ cash \in [Scenarios -> Int]
    /\ funded = [s \in Scenarios |-> CameIn(s, spentMonths)]
    /\ cash["stress"] + Awaited(spentMonths) <= cash["base"] /\ cash["base"] <= cash["bull"]

LEMMA YearsOfMonths == ASSUME NEW m \in 0..59 PROVE YearOf(m) \in 1..5
  BY DEF YearOf

LEMMA NewUsersAreNat == ASSUME NEW m \in 0..59 PROVE MonthlyNew(m) \in Nat
<1>1. FirstNew[YearOf(m)] \in Nat /\ LastNew[YearOf(m)] - FirstNew[YearOf(m)] \in Nat
  BY YearsOfMonths DEF FirstNew, LastNew
<1> DEFINE rise == LastNew[YearOf(m)] - FirstNew[YearOf(m)]
<1>2. rise * (m % 12) \in Nat
  <2>1. m % 12 \in Nat
    OBVIOUS
  <2> HIDE DEF rise
  <2> QED  BY <1>1, <2>1 DEF rise
<1>3. (rise * (m % 12)) \div 11 \in Nat
  <2> HIDE DEF rise
  <2> QED  BY <1>2
<1> QED  BY <1>1, <1>3 DEF MonthlyNew

LEMMA GrossProfitIsNat ==
    ASSUME subscription \in [1..5 -> Nat], NEW y \in 1..5 PROVE GrossProfit(y) \in Nat
<1>1. DataApi[y] \in Nat /\ ResearchMarket[y] \in Nat /\ Matchmaking[y] \in Nat /\ ValueAdded[y] \in Nat
  BY DEF DataApi, ResearchMarket, Matchmaking, ValueAdded
<1>2. subscription[y] \in Nat
  OBVIOUS
<1> QED  BY <1>1, <1>2 DEF GrossProfit

LEMMA NetIsOrdered ==
    ASSUME subscription \in [1..5 -> Nat], NEW m \in 0..59
    PROVE  /\ \A s \in Scenarios : Net(s, m) \in Int
           /\ Net("stress", m) <= Net("base", m) /\ Net("base", m) <= Net("bull", m)
<1> DEFINE profit == MonthlyGrossProfit(m)
           cost   == Opex[YearOf(m)] \div 12
<1>1. profit \in Nat
  <2> DEFINE gross == GrossProfit(YearOf(m))
  <2>1. gross \in Nat
    BY YearsOfMonths, GrossProfitIsNat
  <2>2. 11 + 2 * (m % 12) \in Nat
    OBVIOUS
  <2> HIDE DEF gross
  <2>3. gross * (11 + 2 * (m % 12)) \in Nat
    BY <2>1, <2>2
  <2>4. (gross * (11 + 2 * (m % 12))) \div 264 \in Nat
    BY <2>3
  <2> QED  BY <2>4 DEF MonthlyGrossProfit, gross
<1>2. cost \in Nat
  BY YearsOfMonths DEF Opex
<1> HIDE DEF profit, cost
<1>3. /\ (profit * 75) \div 100 <= (profit * 100) \div 100
      /\ (profit * 100) \div 100 <= (profit * 125) \div 100
      /\ (cost * 90) \div 100 <= (cost * 100) \div 100
      /\ (cost * 100) \div 100 <= (cost * 115) \div 100
  BY <1>1, <1>2
<1>4. \A s \in Scenarios : Net(s, m) = (profit * ProfitPercent[s]) \div 100 - (cost * CostPercent[s]) \div 100
  BY DEF Net, profit, cost
<1> QED  BY <1>1, <1>2, <1>3, <1>4 DEF Scenarios, ProfitPercent, CostPercent

(* What the base gets and the stress scenario does not get in a month       *)
(* changes what the latter waits for.                                       *)
LEMMA RoundsComeLate ==
    ASSUME NEW m \in 0..59
    PROVE  /\ \A s \in Scenarios : Funding(s, m) \in Nat
           /\ Awaited(m) \in Nat /\ Awaited(m + 1) \in Nat
           /\ Funding("base", m) = Funding("bull", m)
           /\ Funding("stress", m) + Awaited(m + 1) = Funding("base", m) + Awaited(m)
<1>1. FundingEvents = {1, 2, 3, 4}
  BY DEF FundingEvents
<1>2. /\ FundingMonth[1] = 11 /\ FundingMonth[2] = 23 /\ FundingMonth[3] = 41 /\ FundingMonth[4] = 59
      /\ FundingAmount[1] = 5000 /\ FundingAmount[2] = 20000
      /\ FundingAmount[3] = 50000 /\ FundingAmount[4] = 80000
  BY DEF FundingMonth, FundingAmount
<1>3. Delay["base"] = 0 /\ Delay["bull"] = 0 /\ Delay["stress"] = 6
  BY DEF Delay
<1>4. \A k \in FundingEvents :
        \A d \in {0, 6} : m = FundingMonth[k] + d =>
            \A j \in FundingEvents : m = FundingMonth[j] + d => j = k
  BY <1>1, <1>2
<1>5. \A n \in {m, m + 1} : \A k \in FundingEvents : k \in Waiting(n) =>
            \A j \in FundingEvents : j \in Waiting(n) => j = k
  BY <1>1, <1>2 DEF Waiting
<1>6. ASSUME NEW s \in Scenarios, NEW k \in Due(s, m) PROVE Funding(s, m) = FundingAmount[k]
  <2>1. Delay[s] \in {0, 6}
    BY <1>3 DEF Scenarios
  <2>2. \A j \in Due(s, m) : j = k
    BY <1>4, <1>6, <2>1 DEF Due
  <2>3. (CHOOSE j \in Due(s, m) : TRUE) = k
    BY <1>6, <2>2
  <2> QED  BY <1>6, <2>3 DEF Funding
<1>7. ASSUME NEW n \in {m, m + 1}, NEW k \in Waiting(n) PROVE Awaited(n) = FundingAmount[k]
  <2>1. k \in FundingEvents
    BY <1>7 DEF Waiting
  <2>2. (CHOOSE j \in FundingEvents : j \in Waiting(n)) = k
    BY <1>5, <1>7, <2>1
  <2> QED  BY <1>7, <2>1, <2>2 DEF Awaited
<1>8. \A s \in Scenarios : Due(s, m) = {} => Funding(s, m) = 0
  BY DEF Funding
<1>9. \A n \in {m, m + 1} : Waiting(n) = {} => Awaited(n) = 0
  BY DEF Awaited
<1>10. \A s \in Scenarios : \A k \in Due(s, m) : k \in FundingEvents
  BY DEF Due
<1>11. \A n \in {m, m + 1} : \A k \in Waiting(n) : k \in FundingEvents
  BY DEF Waiting
<1>12. \A k \in FundingEvents : FundingAmount[k] \in Nat
  BY <1>1, <1>2
<1>13. (\A s \in Scenarios : Funding(s, m) \in Nat) /\ Awaited(m) \in Nat /\ Awaited(m + 1) \in Nat
  BY <1>6, <1>7, <1>8, <1>9, <1>10, <1>11, <1>12
<1>14. Funding("base", m) = Funding("bull", m)
  BY <1>3 DEF Funding, Due
<1>15. Funding("stress", m) + Awaited(m + 1) = Funding("base", m) + Awaited(m)
  <2>1. \A k \in FundingEvents : /\ k \in Due("base", m) <=> m = FundingMonth[k]
                                 /\ k \in Due("stress", m) <=> m = FundingMonth[k] + 6
                                 /\ k \in Waiting(m) <=> FundingMonth[k] < m /\ m <= FundingMonth[k] + 6
                                 /\ k \in Waiting(m + 1) <=> FundingMonth[k] <= m /\ m < FundingMonth[k] + 6
    BY <1>1, <1>2, <1>3 DEF Due, Waiting
  <2>2. CASE \E k \in FundingEvents : m = FundingMonth[k]
    <3>1. PICK k \in FundingEvents : m = FundingMonth[k]
      BY <2>2
    <3>2. k \in Due("base", m) /\ k \in Waiting(m + 1)
      BY <1>1, <1>2, <2>1, <3>1
    <3>3. Due("stress", m) = {} /\ Waiting(m) = {}
      BY <1>1, <1>2, <1>10, <1>11, <2>1, <3>1 DEF Scenarios
    <3> QED  BY <1>6, <1>7, <1>8, <1>9, <1>12, <3>2, <3>3 DEF Scenarios
  <2>3. CASE \E k \in FundingEvents : m = FundingMonth[k] + 6
    <3>1. PICK k \in FundingEvents : m = FundingMonth[k] + 6
      BY <2>3
    <3>2. k \in Due("stress", m) /\ k \in Waiting(m)
      BY <1>1, <1>2, <2>1, <3>1
    <3>3. Due("base", m) = {} /\ Waiting(m + 1) = {}
      BY <1>1, <1>2, <1>10, <1>11, <2>1, <3>1 DEF Scenarios
    <3> QED  BY <1>6, <1>7, <1>8, <1>9, <1>12, <3>2, <3>3 DEF Scenarios
  <2>4. CASE \A k \in FundingEvents : m # FundingMonth[k] /\ m # FundingMonth[k] + 6
    <3>1. Due("base", m) = {} /\ Due("stress", m) = {}
      BY <1>10, <2>1, <2>4 DEF Scenarios
    <3>2. Waiting(m) = Waiting(m + 1)
      BY <1>1, <1>2, <2>4 DEF Waiting
    <3>3. Awaited(m) = Awaited(m + 1)
      BY <3>2 DEF Awaited
    <3> QED  BY <1>8, <1>13, <3>1, <3>3 DEF Scenarios
  <2> QED  BY <2>2, <2>3, <2>4
<1> QED  BY <1>13, <1>14, <1>15

LEMMA RunwayInitInv == RunwayInit => RunwayInv
<1> SUFFICES ASSUME RunwayInit PROVE RunwayInv
  OBVIOUS
<1>1. Waiting(0) = {} /\ \A s \in Scenarios : CameIn(s, 0) = {}
  BY DEF Waiting, CameIn, FundingEvents, FundingMonth, Scenarios, Delay
<1>2. Awaited(0) = 0
  BY <1>1 DEF Awaited
<1> QED  BY <1>1, <1>2, RunwayAssumption DEF RunwayInit, RunwayInv, Scenarios

LEMMA GrowInv == ASSUME RunwayInv, Grow PROVE RunwayInv'
<1>1. grown \in 0..59 /\ grown' \in 0..Months
  BY RunwayAssumption DEF RunwayInv, Grow
<1>2. comes' \in Nat
  BY RunwayAssumption DEF RunwayInv, Grow
<1>3. ASSUME NEW s \in Segments
      PROVE  (active[s] * Retention[s]) \div 1000
               + (MonthlyNew(grown) * Mix[s][YearOf(grown)] * comes') \div 10000 \in Nat
  <2>1. active[s] \in Nat /\ Retention[s] \in Nat /\ Mix[s][YearOf(grown)] \in Nat
    BY <1>1, YearsOfMonths DEF RunwayInv, Segments, Retention, Mix
  <2>2. MonthlyNew(grown) \in Nat
    BY <1>1, NewUsersAreNat
  <2>3. \A a, b \in Nat : a * b \in Nat
    OBVIOUS
  <2>4. active[s] * Retention[s] \in Nat /\ MonthlyNew(grown) * Mix[s][YearOf(grown)] * comes' \in Nat
    BY <1>2, <2>1, <2>2, <2>3
  <2>5. \A a, b \in Nat : a \div 1000 + b \div 10000 \in Nat
    OBVIOUS
  <2> QED  BY <2>4, <2>5
<1>4. active' \in [Segments -> Nat]
  BY <1>3 DEF Grow
<1>5. Mrr(active') \in Nat
  <2>1. active'.Lite \in Nat /\ active'.Pro \in Nat /\ active'.Family \in Nat
    BY <1>4 DEF Segments
  <2> QED  BY <2>1 DEF Mrr, Arpu
<1>6. subscription' \in [1..5 -> Nat]
  <2>1. subscription' = [subscription EXCEPT ![YearOf(grown)] = @ + Mrr(active')]
    BY DEF Grow
  <2>2. YearOf(grown) \in 1..5
    BY <1>1, YearsOfMonths
  <2>3. subscription[YearOf(grown)] + Mrr(active') \in Nat
    BY <1>5, <2>2 DEF RunwayInv
  <2> QED  BY <2>1, <2>2, <2>3 DEF RunwayInv
<1> QED  BY <1>1, <1>2, <1>4, <1>6 DEF RunwayInv, Grow

LEMMA SpendInv == ASSUME RunwayInv, Spend PROVE RunwayInv'
<1> DEFINE m == spentMonths
<1>1. m \in 0..59 /\ m + 1 \in 0..Months /\ spentMonths' = m + 1
  BY RunwayAssumption DEF RunwayInv, Spend
<1>2. subscription \in [1..5 -> Nat]
  BY DEF RunwayInv
<1>3. \A s \in Scenarios : cash'[s] = cash[s] + Net(s, m) + Funding(s, m)
  BY DEF Spend
<1>4. /\ \A s \in Scenarios : Net(s, m) \in Int
      /\ Net("stress", m) <= Net("base", m) /\ Net("base", m) <= Net("bull", m)
  BY <1>1, <1>2, NetIsOrdered
<1>5. /\ \A s \in Scenarios : Funding(s, m) \in Nat
      /\ Awaited(m) \in Nat /\ Awaited(m + 1) \in Nat
      /\ Funding("base", m) = Funding("bull", m)
      /\ Funding("stress", m) + Awaited(m + 1) = Funding("base", m) + Awaited(m)
  BY <1>1, RoundsComeLate
<1>6. cash' \in [Scenarios -> Int]
  BY <1>4, <1>5 DEF Spend, RunwayInv
<1>7. \A s \in Scenarios : CameIn(s, m) \union Due(s, m) = CameIn(s, m + 1)
  <2>1. \A s \in Scenarios : \A k \in FundingEvents : FundingMonth[k] + Delay[s] \in Int
    BY DEF FundingEvents, FundingMonth, Scenarios, Delay
  <2>2. m \in Int
    BY <1>1
  <2> HIDE DEF m
  <2> QED  BY <2>1, <2>2 DEF CameIn, Due
<1>8. funded' = [s \in Scenarios |-> CameIn(s, m + 1)]
  BY <1>7 DEF Spend, RunwayInv
<1>9. cash'["stress"] + Awaited(m + 1) <= cash'["base"] /\ cash'["base"] <= cash'["bull"]
  <2>1. /\ cash["stress"] \in Int /\ cash["base"] \in Int /\ cash["bull"] \in Int
        /\ cash["stress"] + Awaited(m) <= cash["base"] /\ cash["base"] <= cash["bull"]
    BY DEF RunwayInv, Scenarios
  <2>2. {"stress", "base", "bull"} \subseteq Scenarios
    BY DEF Scenarios
  <2> HIDE DEF m
  <2> QED  BY <1>3, <1>4, <1>5, <2>1, <2>2
<1> QED  BY <1>1, <1>6, <1>8, <1>9 DEF RunwayInv, Spend

LEMMA RunwayStepInv == RunwayInv /\ [RunwayNext]_runwayVars => RunwayInv'
<1> SUFFICES ASSUME RunwayInv, [RunwayNext]_runwayVars PROVE RunwayInv'
  OBVIOUS
<1>1. CASE Grow
  BY <1>1, GrowInv
<1>2. CASE Spend
  BY <1>2, SpendInv
<1>3. CASE UNCHANGED runwayVars
  BY <1>3 DEF runwayVars, RunwayInv
<1> QED  BY <1>1, <1>2, <1>3 DEF RunwayNext

(* The stress scenario has no more cash than the base and the base no more  *)
(* than the bull, and no round comes in earlier for the more careful one,   *)
(* whatever the users that come (08_funding_runway.py:30-33).               *)
THEOREM RunwayStaysOrdered == RunwaySpec => []RunwayOrdered
<1>1. RunwayInv => RunwayOrdered
  <2> SUFFICES ASSUME RunwayInv PROVE RunwayOrdered
    OBVIOUS
  <2>1. Awaited(spentMonths) \in Nat
    <3>1. CASE spentMonths \in 0..59
      BY <3>1, RoundsComeLate
    <3>2. CASE spentMonths = 60
      <4>1. 60 = 59 + 1 /\ 59 \in 0..59
        OBVIOUS
      <4> QED  BY <3>2, <4>1, RoundsComeLate
    <3> QED  BY <3>1, <3>2, RunwayAssumption DEF RunwayInv
  <2>2. cash["stress"] <= cash["base"] /\ cash["base"] <= cash["bull"]
    BY <2>1 DEF RunwayInv, Scenarios
  <2>3. CameIn("stress", spentMonths) \subseteq CameIn("base", spentMonths)
    BY DEF RunwayInv, CameIn, FundingEvents, FundingMonth, Delay
  <2>4. CameIn("base", spentMonths) \subseteq CameIn("bull", spentMonths)
    BY DEF CameIn, Delay
  <2> QED  BY <2>2, <2>3, <2>4 DEF RunwayInv, RunwayOrdered, Scenarios
<1> QED  BY <1>1, RunwayInitInv, RunwayStepInv, PTL DEF RunwaySpec

------------------------------------------------------------------------------
(***************************************************************************)
(* ScoreBacktest.  The sum of a function that is c on a part of a set and  *)
(* zero elsewhere, and the least sum of one that is c or more.             *)
(***************************************************************************)
LEMMA SumOfPart ==
    ASSUME NEW S, IsFiniteSet(S), NEW A \in SUBSET S, NEW c \in Int,
           NEW f, \A x \in S : f[x] = IF x \in A THEN c ELSE 0
    PROVE  SumOf(f, S) = c * Cardinality(A)
<1> DEFINE Count(s) == Cardinality(s \intersect A)
           G == {s \in SUBSET S : Summed(f, S)[s] = c * Count(s)}
<1>1. {} \in G
  <2>1. Summed(f, S)[{}] = 0
    BY SumSteps
  <2>2. {} \intersect A = {} /\ Cardinality({}) = 0
    BY FS_EmptySet
  <2> QED  BY <2>1, <2>2
<1>2. ASSUME NEW s \in SUBSET S, s # {}, s \ {Picked(s)} \in G PROVE s \in G
  <2> DEFINE x == Picked(s)
             t == s \ {x}
             u == t \intersect A
  <2>1. x \in s /\ x \in S /\ t \in SUBSET S
    BY <1>2, FewerWithoutPicked
  <2>2. Summed(f, S)[s] = f[x] + Summed(f, S)[t]
    BY <1>2, SumSteps
  <2>3. Summed(f, S)[t] = c * Cardinality(u)
    BY <1>2
  <2>4. IsFiniteSet(u) /\ Cardinality(u) \in Nat
    BY <2>1, FS_Subset, FS_CardinalityType
  <2> HIDE DEF x
  <2>5. CASE x \in A
    <3>1. s \intersect A = u \union {x} /\ x \notin u
      BY <2>1, <2>5
    <3> HIDE DEF u
    <3>2. Cardinality(s \intersect A) = Cardinality(u) + 1
      BY <2>4, <3>1, FS_AddElement
    <3>3. f[x] = c
      BY <2>1, <2>5
    <3>4. Summed(f, S)[s] = c + c * Cardinality(u)
      BY <2>2, <2>3, <3>3
    <3>5. c + c * Cardinality(u) = c * (Cardinality(u) + 1)
      BY <2>4
    <3> QED  BY <3>2, <3>4, <3>5
  <2>6. CASE x \notin A
    <3>1. s \intersect A = u
      BY <2>1, <2>6
    <3> HIDE DEF u
    <3>2. f[x] = 0
      BY <2>1, <2>6
    <3>3. c * Cardinality(u) \in Int
      BY <2>4
    <3>4. Summed(f, S)[s] = c * Cardinality(u)
      BY <2>2, <2>3, <3>2, <3>3
    <3> QED  BY <3>1, <3>4
  <2> QED  BY <2>5, <2>6
<1>3. G = SUBSET S
  <2> HIDE DEF G
  <2>1. G \in SUBSET (SUBSET S)
    BY DEF G
  <2> QED  BY <1>1, <1>2, <2>1, SubsetInduction
<1>4. S \in G /\ S \intersect A = A
  BY <1>3
<1> QED  BY <1>4 DEF SumOf

LEMMA SumAtLeast ==
    ASSUME NEW S, IsFiniteSet(S), NEW c \in Int,
           NEW f, \A x \in S : f[x] \in Int /\ f[x] >= c
    PROVE  SumOf(f, S) \in Int /\ SumOf(f, S) >= c * Cardinality(S)
<1> DEFINE G == {s \in SUBSET S : Summed(f, S)[s] >= c * Cardinality(s)}
<1>1. \A s \in SUBSET S : Summed(f, S)[s] \in Int
  BY SumInInt
<1>2. {} \in G
  <2>1. Summed(f, S)[{}] = 0 /\ Cardinality({}) = 0
    BY SumSteps, FS_EmptySet
  <2> QED  BY <2>1
<1>3. ASSUME NEW s \in SUBSET S, s # {}, s \ {Picked(s)} \in G PROVE s \in G
  <2> DEFINE x == Picked(s)
             t == s \ {x}
             n == Cardinality(t)
             sum == Summed(f, S)[t]
  <2>1. /\ x \in S /\ t \in SUBSET S /\ Cardinality(s) \in Nat \ {0}
        /\ n = Cardinality(s) - 1
    BY <1>3, FewerWithoutPicked
  <2>2. Summed(f, S)[s] = f[x] + sum
    BY <1>3, SumSteps
  <2>3. sum \in Int /\ sum >= c * n
    BY <1>1, <1>3, <2>1
  <2>4. f[x] \in Int /\ f[x] >= c
    BY <2>1
  <2>5. Cardinality(s) = n + 1 /\ n \in Nat
    BY <2>1
  <2> HIDE DEF x, t, n, sum
  <2>6. c * (n + 1) = c * n + c /\ c * n \in Int
    BY <2>5
  <2>7. f[x] + sum >= c * n + c
    BY <2>3, <2>4, <2>6
  <2> QED  BY <2>2, <2>5, <2>6, <2>7
<1>4. G = SUBSET S
  <2> HIDE DEF G
  <2>1. G \in SUBSET (SUBSET S)
    BY DEF G
  <2> QED  BY <1>2, <1>3, <2>1, SubsetInduction
<1>5. S \in G
  BY <1>4
<1> QED  BY <1>1, <1>5 DEF SumOf

(* Division of whole numbers, rounded down. *)
LEMMA QuotientAtLeast ==
    ASSUME NEW a \in Int, NEW n \in Nat \ {0}, NEW c \in Int, a >= c * n
    PROVE  a \div n \in Int /\ a \div n >= c
<1> DEFINE q == a \div n
<1>1. q \in Int /\ n * q <= a /\ a < n * q + n
  BY SMTT(30)
<1> HIDE DEF q
<1>2. CASE q < c
  <2>1. n * (c - q - 1) >= 0
    BY <1>1, <1>2
  <2>2. n * (c - q - 1) = c * n - n * q - n
    BY <1>1
  <2>3. n * q \in Int /\ c * n \in Int
    BY <1>1
  <2> QED  BY <1>1, <2>1, <2>2, <2>3
<1>3. CASE q >= c
  BY <1>1, <1>3 DEF q
<1> QED  BY <1>1, <1>2, <1>3

LEMMA QuotientIs ==
    ASSUME NEW n \in Nat \ {0}, NEW c \in Int
    PROVE  (c * n) \div n = c
<1> DEFINE q == (c * n) \div n
<1>1. q \in Int /\ q >= c /\ c * n \in Int
  BY QuotientAtLeast
<1>2. n * q <= c * n
  BY SMTT(30)
<1> HIDE DEF q
<1>3. CASE q > c
  <2>1. n * (q - c - 1) >= 0
    BY <1>1, <1>3
  <2>2. n * (q - c - 1) = n * q - c * n - n
    BY <1>1
  <2>3. n * q \in Int
    BY <1>1
  <2> QED  BY <1>1, <1>2, <2>1, <2>2, <2>3
<1>4. CASE q = c
  BY <1>4 DEF q
<1> QED  BY <1>1, <1>3, <1>4

(***************************************************************************)
(* The loop of auc.  Above and NotBelow are the pairs it counts without    *)
(* and with the equal scores.  A deal of the highest score so far adds, if *)
(* it is a winner, the losers seen to the second and no more than them to  *)
(* the first; if it is a loser, nothing to the first.                      *)
(***************************************************************************)
Losers(D) == D \ Winners(D)
Above(D) == {p \in Winners(D) \X Losers(D) : score[p[1]] > score[p[2]]}
NotBelow(D) == {p \in Winners(D) \X Losers(D) : score[p[1]] >= score[p[2]]}

LEMMA DealsAreFew ==
    /\ IsFiniteSet(Deals) /\ Size \in Nat \ {0}
    /\ \A D \in SUBSET Deals : IsFiniteSet(D) /\ Cardinality(D) \in Nat /\ Cardinality(D) <= Size
<1>1. IsFiniteSet(Deals) /\ Size \in Nat
  BY BacktestAssumption, FS_CardinalityType DEF Size
<1>2. Size # 0
  <2>1. Size * DrawPercent >= 100
    BY BacktestAssumption DEF Size
  <2>2. DrawPercent \in Int
    BY BacktestAssumption
  <2> QED  BY <2>1, <2>2
<1> QED  BY <1>1, <1>2, FS_Subset, FS_CardinalityType DEF Size

LEMMA PairsWithOne ==
    ASSUME NEW d, NEW L, IsFiniteSet(L)
    PROVE  IsFiniteSet({d} \X L) /\ Cardinality({d} \X L) = Cardinality(L)
<1>1. IsFiniteSet({d}) /\ Cardinality({d}) = 1
  BY FS_Singleton
<1>2. IsFiniteSet({d} \X L) /\ Cardinality({d} \X L) = Cardinality({d}) * Cardinality(L)
  BY <1>1, FS_Product
<1>3. Cardinality(L) \in Nat
  BY FS_CardinalityType
<1> QED  BY <1>1, <1>2, <1>3

LEMMA DisjointUnion ==
    ASSUME NEW S, IsFiniteSet(S), NEW T, IsFiniteSet(T), S \intersect T = {}
    PROVE  /\ IsFiniteSet(S \union T)
           /\ Cardinality(S \union T) = Cardinality(S) + Cardinality(T)
<1>1. Cardinality(S \union T) = Cardinality(S) + Cardinality(T) - Cardinality(S \intersect T)
  BY FS_Union
<1>2. Cardinality(S \intersect T) = 0
  BY FS_EmptySet
<1>3. Cardinality(S) \in Nat /\ Cardinality(T) \in Nat
  BY FS_CardinalityType
<1> QED  BY <1>1, <1>2, <1>3, FS_Union

LEMMA PairsAreFew ==
    ASSUME NEW D \in SUBSET Deals
    PROVE  /\ IsFiniteSet(Above(D)) /\ Cardinality(Above(D)) \in Nat
           /\ IsFiniteSet(NotBelow(D)) /\ Cardinality(NotBelow(D)) \in Nat
           /\ IsFiniteSet(Losers(D)) /\ Cardinality(Losers(D)) \in Nat
           /\ Pairs(D, LAMBDA x, y : x > y) = Cardinality(Above(D))
           /\ Pairs(D, LAMBDA x, y : x >= y) = Cardinality(NotBelow(D))
<1> DEFINE W == Winners(D)
           L == Losers(D)
<1>1. W \in SUBSET Deals /\ L \in SUBSET Deals
  BY DEF Winners, Losers
<1>2. IsFiniteSet(W) /\ IsFiniteSet(L) /\ Cardinality(L) \in Nat
  BY <1>1, DealsAreFew
<1>3. IsFiniteSet(W \X L)
  BY <1>2, FS_Product
<1>4. Above(D) \in SUBSET (W \X L) /\ NotBelow(D) \in SUBSET (W \X L)
  BY DEF Above, NotBelow
<1>5. Pairs(D, LAMBDA x, y : x > y) = Cardinality(Above(D))
  BY DEF Pairs, Above, Losers
<1>6. Pairs(D, LAMBDA x, y : x >= y) = Cardinality(NotBelow(D))
  BY DEF Pairs, NotBelow, Losers
<1> QED  BY <1>2, <1>3, <1>4, <1>5, <1>6, FS_Subset, FS_CardinalityType

LEMMA NextDeal ==
    ASSUME NEW D \in SUBSET Deals, NEW d \in Deals, d \notin D,
           score \in [Deals -> Int], \A x \in D : score[x] <= score[d]
    PROVE  LET E == D \union {d}
           IN  /\ Cardinality(Losers(E)) = Cardinality(Losers(D)) + (IF Winner(d) THEN 0 ELSE 1)
               /\ Winner(d) =>
                    /\ Cardinality(Above(E)) <= Cardinality(Above(D)) + Cardinality(Losers(D))
                    /\ Cardinality(NotBelow(E)) = Cardinality(NotBelow(D)) + Cardinality(Losers(D))
               /\ ~Winner(d) =>
                    /\ Cardinality(Above(E)) = Cardinality(Above(D))
                    /\ Cardinality(NotBelow(E)) >= Cardinality(NotBelow(D))
<1> DEFINE E == D \union {d}
           N == {d} \X Losers(D)
<1>1. E \in SUBSET Deals
  OBVIOUS
<1>2. /\ IsFiniteSet(Losers(D)) /\ Cardinality(Losers(D)) \in Nat
      /\ IsFiniteSet(Above(D)) /\ Cardinality(Above(D)) \in Nat
      /\ IsFiniteSet(NotBelow(D)) /\ Cardinality(NotBelow(D)) \in Nat
  BY PairsAreFew
<1>3. /\ IsFiniteSet(Above(E)) /\ Cardinality(Above(E)) \in Nat
      /\ IsFiniteSet(NotBelow(E)) /\ Cardinality(NotBelow(E)) \in Nat
  BY <1>1, PairsAreFew
<1>4. IsFiniteSet(N) /\ Cardinality(N) = Cardinality(Losers(D))
  BY <1>2, PairsWithOne
<1>5. CASE Winner(d)
  <2>1. Winners(E) = Winners(D) \union {d} /\ Losers(E) = Losers(D)
    BY <1>5 DEF Winners, Losers
  <2>2. Above(E) \subseteq Above(D) \union N
    BY <2>1 DEF Above
  <2>3. NotBelow(E) = NotBelow(D) \union N
    <3>1. \A x \in Losers(D) : score[d] >= score[x] /\ score[x] \in Int
      BY DEF Losers
    <3> QED  BY <2>1, <3>1 DEF NotBelow
  <2>4. NotBelow(D) \intersect N = {}
    BY DEF NotBelow, Winners
  <2>5. /\ IsFiniteSet(Above(D) \union N)
        /\ Cardinality(Above(D) \union N) <= Cardinality(Above(D)) + Cardinality(N)
    <3>1. /\ IsFiniteSet(Above(D) \union N)
          /\ Cardinality(Above(D) \union N)
                = Cardinality(Above(D)) + Cardinality(N) - Cardinality(Above(D) \intersect N)
      BY <1>2, <1>4, FS_Union
    <3>2. Cardinality(Above(D) \intersect N) \in Nat
      BY <1>2, FS_Subset, FS_CardinalityType
    <3> QED  BY <1>2, <1>4, <3>1, <3>2
  <2>6. Cardinality(NotBelow(E)) = Cardinality(NotBelow(D)) + Cardinality(N)
    <3> HIDE DEF E, N
    <3> QED  BY <1>2, <1>4, <2>3, <2>4, DisjointUnion
  <2>7. Cardinality(Above(E)) <= Cardinality(Above(D) \union N)
    BY <2>2, <2>5, FS_Subset
  <2>8. Cardinality(Above(D) \union N) \in Nat
    BY <2>5, FS_CardinalityType
  <2> QED  BY <1>2, <1>3, <1>4, <1>5, <2>1, <2>5, <2>6, <2>7, <2>8
<1>6. CASE ~Winner(d)
  <2>1. Winners(E) = Winners(D) /\ Losers(E) = Losers(D) \union {d}
    BY <1>6 DEF Winners, Losers
  <2>2. Above(E) = Above(D)
    <3>1. \A x \in Winners(D) : ~(score[x] > score[d])
      BY DEF Winners
    <3> QED  BY <2>1, <3>1 DEF Above
  <2>3. NotBelow(D) \in SUBSET NotBelow(E)
    BY <2>1 DEF NotBelow
  <2>4. Cardinality(NotBelow(D)) <= Cardinality(NotBelow(E))
    BY <1>3, <2>3, FS_Subset
  <2>5. Cardinality(Losers(E)) = Cardinality(Losers(D)) + 1
    <3>1. d \notin Losers(D)
      BY DEF Losers
    <3> QED  BY <1>2, <2>1, <3>1, FS_AddElement
  <2> QED  BY <1>2, <1>3, <1>6, <2>2, <2>4, <2>5
<1> QED  BY <1>5, <1>6
------------------------------------------------------------------------------
(***************************************************************************)
(* The states of the backtest: scores and returns in their ranges, deals   *)
(* in the order of their scores once they are drawn, and nothing counted,  *)
(* calibrated or picked before.                                            *)
(***************************************************************************)
BacktestTypes ==
    /\ score \in [Deals -> 0..100]
    /\ return \in [Deals -> {r \in Int : r >= -100}]
    /\ seen \in 0..Size /\ cumNeg \in Nat /\ aucSum \in Nat
    /\ \/ sorted = << >> /\ seen = 0 /\ curve = << >> /\ portfolios = << >>
       \/ sorted \in Argsort(score)

LoopInv ==
    /\ Cardinality(Above(SeenDeals)) <= aucSum
    /\ aucSum <= Cardinality(NotBelow(SeenDeals))
    /\ cumNeg = Cardinality(Losers(SeenDeals))

BacktestInv == BacktestTypes /\ LoopInv /\ PortfoliosFollowTheRanking

LEMMA ScoresAreWhole ==
    ASSUME BacktestTypes
    PROVE  /\ score \in [Deals -> Int]
           /\ \A d \in Deals : score[d] \in 0..100 /\ score[d] \in Int
<1>1. score \in [Deals -> 0..100]
  BY DEF BacktestTypes
<1>2. \A d \in Deals : score[d] \in 0..100
  BY <1>1
<1>3. \A d \in Deals : score[d] \in Int
  BY <1>2
<1>4. score = [d \in Deals |-> score[d]]
  BY <1>1
<1> QED  BY <1>2, <1>3, <1>4

LEMMA RankedDeals ==
    ASSUME BacktestTypes, sorted \in Argsort(score)
    PROVE  /\ sorted \in [1..Size -> Deals] /\ Len(sorted) = Size /\ sorted # << >>
           /\ \A i, j \in 1..Size : sorted[i] = sorted[j] => i = j
           /\ \A i, j \in 1..Size : i < j => score[sorted[i]] <= score[sorted[j]]
<1>1. sorted \in Rankings /\ \A i, j \in 1..Size : i < j => score[sorted[i]] <= score[sorted[j]]
  BY DEF Argsort
<1>2. sorted \in [1..Size -> Deals] /\ IsInjective(sorted)
  BY <1>1, BacktestAssumption DEF Size
<1>3. Size \in Nat \ {0}
  BY DealsAreFew
<1>4. \A i, j \in 1..Size : sorted[i] = sorted[j] => i = j
  BY <1>2 DEF IsInjective
<1>5. Len(sorted) = Size
  <2> DEFINE n == Size
  <2>1. n \in Nat /\ sorted \in [1..n -> Deals]
    BY <1>2, <1>3
  <2> HIDE DEF n
  <2>2. Len(sorted) = n
    BY <2>1
  <2> QED  BY <2>2 DEF n
<1>6. sorted # << >>
  <2>1. Len(<< >>) = 0
    OBVIOUS
  <2> QED  BY <1>3, <1>5, <2>1
<1> QED  BY <1>1, <1>2, <1>4, <1>5, <1>6

(* The deal that the loop takes next is new and has the highest score yet.  *)
LEMMA SeenNext ==
    ASSUME BacktestTypes, PassDeal
    PROVE  /\ sorted \in Argsort(score) /\ seen \in Nat /\ seen + 1 \in 1..Size
           /\ SeenDeals \in SUBSET Deals
           /\ sorted[seen + 1] \in Deals /\ sorted[seen + 1] \notin SeenDeals
           /\ \A x \in SeenDeals : score[x] <= score[sorted[seen + 1]]
           /\ SeenDeals' = SeenDeals \union {sorted[seen + 1]}
<1>1. seen < Len(sorted) /\ seen' = seen + 1 /\ sorted' = sorted
  BY DEF PassDeal
<1>2. sorted \in Argsort(score)
  <2> SUFFICES ASSUME sorted = << >> /\ seen = 0 PROVE FALSE
    BY DEF BacktestTypes
  <2>1. Len(<< >>) = 0
    OBVIOUS
  <2> QED  BY <1>1, <2>1
<1>3. /\ sorted \in [1..Size -> Deals] /\ Len(sorted) = Size
      /\ \A i, j \in 1..Size : sorted[i] = sorted[j] => i = j
      /\ \A i, j \in 1..Size : i < j => score[sorted[i]] <= score[sorted[j]]
  BY <1>2, RankedDeals
<1>4. Size \in Nat /\ seen \in Nat /\ seen + 1 \in 1..Size /\ 1..seen \subseteq 1..Size
  BY <1>1, <1>3, DealsAreFew DEF BacktestTypes
<1>5. SeenDeals \in SUBSET Deals /\ sorted[seen + 1] \in Deals
  BY <1>3, <1>4 DEF SeenDeals
<1>6. \A i \in 1..seen : i \in 1..Size /\ i < seen + 1
  BY <1>4
<1>7. sorted[seen + 1] \notin SeenDeals
  BY <1>3, <1>4, <1>6 DEF SeenDeals
<1>8. \A x \in SeenDeals : score[x] <= score[sorted[seen + 1]]
  BY <1>3, <1>4, <1>6 DEF SeenDeals
<1>9. SeenDeals' = SeenDeals \union {sorted[seen + 1]}
  <2>1. 1..(seen + 1) = (1..seen) \union {seen + 1}
    BY <1>4
  <2>2. SeenDeals' = {sorted[i] : i \in 1..(seen + 1)}
    BY <1>1 DEF SeenDeals
  <2> QED  BY <2>1, <2>2 DEF SeenDeals
<1> QED  BY <1>2, <1>4, <1>5, <1>7, <1>8, <1>9

LEMMA PassDealKeeps ==
    ASSUME BacktestTypes, LoopInv, PassDeal
    PROVE  BacktestTypes' /\ LoopInv'
<1> DEFINE d == sorted[seen + 1]
           D == SeenDeals
           E == D \union {d}
<1>1. /\ score' = score /\ return' = return /\ sorted' = sorted /\ curve' = curve
      /\ portfolios' = portfolios /\ seen' = seen + 1
      /\ cumNeg' = IF Winner(d) THEN cumNeg ELSE cumNeg + 1
      /\ aucSum' = IF Winner(d) THEN aucSum + cumNeg ELSE aucSum
  BY DEF PassDeal, CountDeal
<1>2. /\ sorted \in Argsort(score) /\ seen \in Nat /\ seen + 1 \in 1..Size
      /\ D \in SUBSET Deals /\ d \in Deals /\ d \notin D
      /\ \A x \in D : score[x] <= score[d]
      /\ SeenDeals' = E
  BY SeenNext
<1>3. score \in [Deals -> Int]
  BY ScoresAreWhole
<1>4. E \in SUBSET Deals
  BY <1>2
<1>5. /\ Cardinality(Above(D)) \in Nat /\ Cardinality(NotBelow(D)) \in Nat
      /\ Cardinality(Losers(D)) \in Nat
  BY <1>2, PairsAreFew
<1>6. /\ Cardinality(Above(E)) \in Nat /\ Cardinality(NotBelow(E)) \in Nat
      /\ Cardinality(Losers(E)) \in Nat
  BY <1>4, PairsAreFew
<1> HIDE DEF d, D
<1>7. /\ Cardinality(Losers(E)) = Cardinality(Losers(D)) + (IF Winner(d) THEN 0 ELSE 1)
      /\ Winner(d) =>
           /\ Cardinality(Above(E)) <= Cardinality(Above(D)) + Cardinality(Losers(D))
           /\ Cardinality(NotBelow(E)) = Cardinality(NotBelow(D)) + Cardinality(Losers(D))
      /\ ~Winner(d) =>
           /\ Cardinality(Above(E)) = Cardinality(Above(D))
           /\ Cardinality(NotBelow(E)) >= Cardinality(NotBelow(D))
  BY <1>2, <1>3, NextDeal
<1> HIDE DEF E
<1>8. /\ Cardinality(Above(D)) <= aucSum /\ aucSum <= Cardinality(NotBelow(D))
      /\ cumNeg = Cardinality(Losers(D)) /\ aucSum \in Nat
  BY DEF LoopInv, BacktestTypes, D
<1>9. /\ Cardinality(Above(E)) <= aucSum' /\ aucSum' <= Cardinality(NotBelow(E))
      /\ cumNeg' = Cardinality(Losers(E)) /\ aucSum' \in Nat
  BY <1>1, <1>5, <1>6, <1>7, <1>8
<1>10. BacktestTypes'
  <2>1. /\ (score \in [Deals -> 0..100])' /\ (return \in [Deals -> {r \in Int : r >= -100}])'
        /\ (sorted \in Argsort(score))'
    BY <1>1, <1>2 DEF BacktestTypes, Argsort
  <2>2. seen' \in 0..Size
    BY <1>1, <1>2, DealsAreFew
  <2> QED  BY <1>6, <1>9, <2>1, <2>2 DEF BacktestTypes
<1>11. LoopInv'
  <2>1. /\ Above(SeenDeals)' = Above(E) /\ NotBelow(SeenDeals)' = NotBelow(E)
        /\ Losers(SeenDeals)' = Losers(E)
    BY <1>1, <1>2 DEF Above, NotBelow, Losers, Winners, Winner
  <2> QED  BY <1>9, <2>1 DEF LoopInv
<1> QED  BY <1>10, <1>11
(***************************************************************************)
(* calibration_curve.  The bins are disjoint and hold the scores below     *)
(* 100.                                                                    *)
(***************************************************************************)
Held(s) == {d \in Deals : \E i \in s : d \in InBin(i)}
BinSizes == [i \in Bins |-> Cardinality(InBin(i))]

LEMMA BinsHoldDeals ==
    ASSUME BacktestTypes
    PROVE  Binned = Cardinality(Held(Bins))
<1>1. IsFiniteSet(Bins)
  <2>1. 0 \in Int /\ 9 \in Int
    OBVIOUS
  <2> QED  BY <2>1, FS_Interval DEF Bins
<1> DEFINE G == {s \in SUBSET Bins : Summed(BinSizes, Bins)[s] = Cardinality(Held(s))}
<1>2. {} \in G
  <2>1. Summed(BinSizes, Bins)[{}] = 0
    BY <1>1, SumSteps
  <2>2. Held({}) = {} /\ Cardinality({}) = 0
    BY FS_EmptySet DEF Held
  <2> QED  BY <2>1, <2>2
<1>3. ASSUME NEW s \in SUBSET Bins, s # {}, s \ {Picked(s)} \in G PROVE s \in G
  <2> DEFINE x == Picked(s)
             t == s \ {x}
  <2>1. x \in s /\ x \in Bins /\ t \in SUBSET Bins
    BY <1>1, <1>3, FewerWithoutPicked
  <2>2. Summed(BinSizes, Bins)[s] = BinSizes[x] + Summed(BinSizes, Bins)[t]
    BY <1>1, <1>3, SumSteps
  <2>3. Summed(BinSizes, Bins)[t] = Cardinality(Held(t))
    BY <1>3
  <2>4. BinSizes[x] = Cardinality(InBin(x))
    BY <2>1 DEF BinSizes
  <2> HIDE DEF x
  <2>5. Held(s) = InBin(x) \union Held(t)
    BY <2>1 DEF Held, InBin
  <2>6. InBin(x) \intersect Held(t) = {}
    <3> SUFFICES ASSUME NEW d \in Deals, d \in InBin(x), NEW i \in t, d \in InBin(i) PROVE FALSE
      BY DEF Held, InBin
    <3>1. i \in 0..9 /\ x \in 0..9 /\ i # x
      BY <2>1 DEF Bins
    <3>2. score[d] \in Int
      BY ScoresAreWhole
    <3>3. /\ score[d] >= 10 * i /\ score[d] < 10 * (i + 1)
          /\ score[d] >= 10 * x /\ score[d] < 10 * (x + 1)
      BY DEF InBin
    <3> QED  BY <3>1, <3>2, <3>3
  <2>7. InBin(x) \in SUBSET Deals /\ Held(t) \in SUBSET Deals
    BY DEF InBin, Held
  <2>8. IsFiniteSet(InBin(x)) /\ IsFiniteSet(Held(t))
    BY <2>7, DealsAreFew
  <2>9. Cardinality(Held(s)) = Cardinality(InBin(x)) + Cardinality(Held(t))
    BY <2>5, <2>6, <2>8, DisjointUnion
  <2> QED  BY <2>2, <2>3, <2>4, <2>9
<1>4. G = SUBSET Bins
  <2> HIDE DEF G
  <2>1. G \in SUBSET (SUBSET Bins)
    BY DEF G
  <2> QED  BY <1>1, <1>2, <1>3, <2>1, SubsetInduction
<1>5. SumOf(BinSizes, Bins) = Cardinality(Held(Bins))
  BY <1>4 DEF SumOf
<1> QED  BY <1>5, MapThenSumIsSum DEF Binned, BinSizes

LEMMA ClippedAreUnbinned ==
    ASSUME BacktestTypes
    PROVE  OnlyClippedAreUnbinned
<1>1. ASSUME NEW d \in Deals PROVE d \in Held(Bins) <=> score[d] # 100
  <2> DEFINE x == score[d]
             k == x \div 10
  <2>1. x \in 0..100
    BY DEF BacktestTypes
  <2>2. k \in Int /\ 10 * k <= x /\ x < 10 * (k + 1)
    <3> HIDE DEF x
    <3> QED  BY <2>1
  <2> HIDE DEF k
  <2>3. x < 100 => k \in Bins
    <3> HIDE DEF x
    <3> QED  BY <2>1, <2>2 DEF Bins
  <2>4. x < 100 => d \in Held(Bins)
    BY <2>2, <2>3 DEF Held, InBin
  <2>5. d \in Held(Bins) => x < 100
    <3> SUFFICES ASSUME NEW i \in 0..9, x < 10 * (i + 1) PROVE x < 100
      BY DEF Held, InBin, Bins
    <3> HIDE DEF x
    <3> QED  BY <2>1
  <2>6. x < 100 <=> x # 100
    <3> HIDE DEF x
    <3> QED  BY <2>1
  <2> QED  BY <2>4, <2>5, <2>6
<1>2. Held(Bins) \in SUBSET Deals
  BY DEF Held
<1>3. /\ Cardinality(Held(Bins)) \in Nat /\ Cardinality(Held(Bins)) <= Size /\ Size \in Nat
      /\ Cardinality(Held(Bins)) = Size => Held(Bins) = Deals
  BY <1>2, DealsAreFew, FS_Subset DEF Size
<1>4. Held(Bins) = Deals => Cardinality(Held(Bins)) = Size
  BY DEF Size
<1>5. Cardinality(Held(Bins)) < Size <=> Held(Bins) # Deals
  BY <1>3, <1>4
<1>6. Held(Bins) # Deals <=> \E d \in Deals : score[d] = 100
  BY <1>1, <1>2
<1> QED  BY <1>5, <1>6, BinsHoldDeals DEF OnlyClippedAreUnbinned

(***************************************************************************)
(* The top of a ranking.  There is always one of the size wanted, found by *)
(* adding a best deal to a smaller one; under a perfect score it takes     *)
(* winners while there are any.                                            *)
(***************************************************************************)
LEMMA BestDeal ==
    ASSUME BacktestTypes, NEW D \in SUBSET Deals, D # {}
    PROVE  \E b \in D : \A d \in D : score[b] >= score[d]
<1> DEFINE S == {100 - score[d] : d \in D}
<1>1. \A d \in D : score[d] \in 0..100
  BY ScoresAreWhole
<1>2. S \in SUBSET Nat /\ S # {}
  BY <1>1
<1>3. PICK n \in S : \A m \in S : n <= m
  <2> HIDE DEF S
  <2> QED  BY <1>2, LeastElement
<1>4. PICK b \in D : n = 100 - score[b]
  BY <1>3
<1>5. \A d \in D : 100 - score[b] <= 100 - score[d]
  BY <1>3, <1>4
<1>6. \A x, y \in 0..100 : 100 - x <= 100 - y => x >= y
  OBVIOUS
<1>7. \A d \in D : score[b] >= score[d]
  BY <1>1, <1>4, <1>5, <1>6
<1> QED  BY <1>4, <1>7

LEMMA TopExists ==
    ASSUME BacktestTypes, NEW D \in SUBSET Deals, NEW k \in 0..Cardinality(D)
    PROVE  TopK(D, k) # {}
<1> DEFINE N == Cardinality(D)
           Top(T) == \A t \in T, d \in D \ T : score[t] >= score[d]
           K == {n \in Nat : n <= N => \E T \in SUBSET D : Cardinality(T) = n /\ Top(T)}
<1>1. IsFiniteSet(D) /\ N \in Nat
  BY DealsAreFew
<1>2. \A d \in D : score[d] \in 0..100
  BY ScoresAreWhole
<1>3. 0 \in K
  <2>1. Cardinality({}) = 0 /\ {} \in SUBSET D /\ Top({})
    BY FS_EmptySet
  <2> QED  BY <2>1
<1>4. ASSUME NEW n \in Nat, n \in K PROVE n + 1 \in K
  <2> SUFFICES ASSUME n + 1 <= N PROVE \E T \in SUBSET D : Cardinality(T) = n + 1 /\ Top(T)
    OBVIOUS
  <2>1. n <= N
    BY <1>1
  <2>2. PICK T \in SUBSET D : Cardinality(T) = n /\ Top(T)
    BY <1>4, <2>1
  <2>3. D \ T # {} /\ D \ T \in SUBSET Deals
    <3> SUFFICES ASSUME D \ T = {} PROVE FALSE
      OBVIOUS
    <3>1. T = D
      OBVIOUS
    <3> QED  BY <1>1, <2>2, <3>1
  <2>4. PICK b \in D \ T : \A d \in D \ T : score[b] >= score[d]
    BY <2>3, BestDeal
  <2> DEFINE U == T \union {b}
  <2>5. U \in SUBSET D
    BY <2>4
  <2>6. Cardinality(U) = n + 1
    <3>1. IsFiniteSet(T) /\ b \notin T
      BY <1>1, <2>4, FS_Subset
    <3> QED  BY <2>2, <3>1, FS_AddElement
  <2>7. Top(U)
    BY <1>2, <2>2, <2>4
  <2> QED  BY <2>5, <2>6, <2>7
<1>5. Nat \subseteq K
  <2> HIDE DEF K
  <2> QED  BY <1>3, <1>4, Induction
<1>6. k \in Nat /\ k <= N /\ ~(k > N)
  BY <1>1
<1>7. PICK T \in SUBSET D : Cardinality(T) = k /\ Top(T)
  BY <1>5, <1>6
<1>8. T \in kSubset(IF k > Cardinality(D) THEN Cardinality(D) ELSE k, D)
  BY <1>6, <1>7 DEF kSubset
<1> QED  BY <1>7, <1>8 DEF TopK

LEMMA TopIsSmall ==
    ASSUME NEW D \in SUBSET Deals, NEW k \in Nat, NEW T \in TopK(D, k)
    PROVE  /\ T \in SUBSET D /\ IsFiniteSet(T)
           /\ Cardinality(T) = IF k > Cardinality(D) THEN Cardinality(D) ELSE k
           /\ \A t \in T, d \in D \ T : score[t] >= score[d]
<1>1. /\ T \in SUBSET D
      /\ Cardinality(T) = IF k > Cardinality(D) THEN Cardinality(D) ELSE k
      /\ \A t \in T, d \in D \ T : score[t] >= score[d]
  BY DEF TopK, kSubset
<1> QED  BY <1>1, DealsAreFew

LEMMA WinnersFirst ==
    ASSUME BacktestTypes, Perfect, NEW D \in SUBSET Deals,
           NEW k \in 1..Cardinality(Winners(D)), NEW T \in TopK(D, k)
    PROVE  T \in SUBSET Deals /\ T # {} /\ \A t \in T : Winner(t)
<1> DEFINE W == Winners(D)
<1>1. W \in SUBSET D /\ IsFiniteSet(W) /\ Cardinality(W) \in Nat
  BY DealsAreFew DEF Winners
<1>2. k \in Nat \ {0} /\ k <= Cardinality(W)
  BY <1>1
<1>3. Cardinality(W) <= Cardinality(D) /\ Cardinality(D) \in Nat
  BY <1>1, DealsAreFew, FS_Subset
<1>4. /\ T \in SUBSET D /\ IsFiniteSet(T) /\ Cardinality(T) = k
      /\ \A t \in T, d \in D \ T : score[t] >= score[d]
  <2>1. k \in Nat /\ ~(k > Cardinality(D))
    BY <1>1, <1>2, <1>3
  <2> HIDE DEF W
  <2> QED  BY <2>1, TopIsSmall
<1>5. T # {}
  BY <1>2, <1>4, FS_EmptySet
<1>6. ASSUME NEW t \in T, ~Winner(t) PROVE FALSE
  <2>1. t \notin W
    BY <1>6 DEF Winners
  <2> HIDE DEF W
  <2>2. PICK w \in W : w \notin T
    <3> SUFFICES ASSUME W \subseteq T PROVE FALSE
      OBVIOUS
    <3>1. Cardinality(W \union {t}) = Cardinality(W) + 1
      BY <1>1, <2>1, FS_AddElement
    <3>2. W \union {t} \in SUBSET T
      BY <1>6
    <3>3. Cardinality(W \union {t}) <= k
      BY <1>4, <3>2, FS_Subset
    <3> QED  BY <1>1, <1>2, <3>1, <3>3
  <2>3. score[t] >= score[w]
    BY <1>1, <1>4, <2>2
  <2>4. score[w] > score[t]
    BY <1>1, <1>4, <1>6, <2>2 DEF Perfect, W, Winners
  <2>5. score[w] \in Int /\ score[t] \in Int
    BY <1>1, <1>4, <2>2, ScoresAreWhole
  <2> QED  BY <2>3, <2>4, <2>5
<1> QED  BY <1>4, <1>5, <1>6

(***************************************************************************)
(* The shares, gains and losses of a portfolio.  Means are quotients       *)
(* rounded down, which a bound of every element in whole numbers is safe   *)
(* from.                                                                   *)
(***************************************************************************)
LEMMA NaNIsLow == NaN \in Int /\ \A n \in Nat : n # NaN
BY SMT DEF NaN

LEMMA MeanAtLeast ==
    ASSUME NEW T, IsFiniteSet(T), T # {}, NEW c \in Int,
           NEW f, DOMAIN f = T, \A x \in T : f[x] \in Int /\ f[x] >= c
    PROVE  Mean(f) \in Int /\ Mean(f) >= c
<1>1. Cardinality(T) \in Nat \ {0}
  BY FS_CardinalityType, FS_EmptySet
<1>2. SumOf(f, T) \in Int /\ SumOf(f, T) >= c * Cardinality(T)
  BY SumAtLeast
<1>3. Mean(f) = SumOf(f, T) \div Cardinality(T)
  BY MapThenSumIsSum DEF Mean
<1> QED  BY <1>1, <1>2, <1>3, QuotientAtLeast

LEMMA PrecisionIs ==
    ASSUME NEW T \in SUBSET Deals, T # {}
    PROVE  Precision(T) = (100 * Cardinality(Winners(T))) \div Cardinality(T)
<1> DEFINE f == [d \in T |-> IF Winner(d) THEN 100 ELSE 0]
           W == Winners(T)
<1>1. IsFiniteSet(T) /\ W \in SUBSET T
  BY DealsAreFew DEF Winners
<1>2. DOMAIN f = T /\ \A d \in T : f[d] = IF d \in W THEN 100 ELSE 0
  BY DEF Winners
<1>3. Precision(T) = Mean(f)
  BY DEF Precision
<1> HIDE DEF f, W
<1>4. SumOf(f, T) = 100 * Cardinality(W)
  <2>1. 100 \in Int
    OBVIOUS
  <2> QED  BY <1>1, <1>2, <2>1, SumOfPart
<1>5. Mean(f) = SumOf(f, T) \div Cardinality(T)
  BY <1>2, MapThenSumIsSum DEF Mean
<1> QED  BY <1>3, <1>4, <1>5 DEF W

LEMMA AllWinners ==
    ASSUME NEW T \in SUBSET Deals, T # {}, \A t \in T : Winner(t)
    PROVE  Precision(T) = 100
<1>1. Winners(T) = T
  BY DEF Winners
<1>2. Cardinality(T) \in Nat \ {0}
  BY DealsAreFew, FS_EmptySet
<1>3. 100 \in Int
  OBVIOUS
<1>4. (100 * Cardinality(T)) \div Cardinality(T) = 100
  BY <1>2, <1>3, QuotientIs
<1> QED  BY <1>1, <1>4, PrecisionIs

LEMMA TopPrecision ==
    ASSUME BacktestTypes
    PROVE  WinnersAreOnTop
<1> SUFFICES ASSUME Perfect, NEW share \in Shares,
                    (Size * share) \div 100 \in 1..Cardinality(Winners(Deals))
             PROVE  Precisions(share) = {100}
  BY DEF WinnersAreOnTop
<1> DEFINE k == (Size * share) \div 100
           n == Cardinality(Winners(Deals))
<1>1. Winners(Deals) \in SUBSET Deals
  BY DEF Winners
<1>2. n \in Nat /\ n <= Cardinality(Deals) /\ Cardinality(Deals) \in Nat
  BY <1>1, DealsAreFew DEF Size
<1>3. k \in 1..n
  OBVIOUS
<1> HIDE DEF k, n
<1>4. k \in 0..Cardinality(Deals)
  BY <1>2, <1>3
<1>5. TopK(Deals, k) # {}
  BY <1>4, TopExists
<1>6. \A T \in TopK(Deals, k) : Precision(T) = 100
  <2> TAKE T \in TopK(Deals, k)
  <2>1. T \in SUBSET Deals /\ T # {} /\ \A t \in T : Winner(t)
    BY <1>3, WinnersFirst DEF n
  <2> QED  BY <2>1, AllWinners
<1> QED  BY <1>5, <1>6 DEF Precisions, k

LEMMA EvaluationIsSound ==
    ASSUME BacktestTypes, NEW T \in SUBSET Deals, T # {}, Cardinality(T) <= 100
    PROVE  /\ Evaluated(T).wins = Precision(T)
           /\ Evaluated(T).pnl = NaN <=> Evaluated(T).wins = 0
           /\ Evaluated(T).moic >= 0
<1> DEFINE W == Winners(T)
           L == {d \in T : return[d] < 0}
           gain == Mean([d \in W |-> return[d]])
           loss == Mean([d \in L |-> -return[d]])
           mean == Mean([d \in T |-> return[d]])
           pnl == IF gain = NaN THEN NaN
                  ELSE IF loss = NaN \/ loss = 0 THEN gain ELSE (100 * gain) \div loss
<1>1. \A d \in Deals : return[d] \in Int /\ return[d] >= -100
  BY DEF BacktestTypes
<1>2. W \in SUBSET T /\ L \in SUBSET T
  BY DEF Winners
<1>3. IsFiniteSet(T) /\ IsFiniteSet(W) /\ IsFiniteSet(L)
  BY <1>2, DealsAreFew
<1>4. Evaluated(T).wins = Precision(T) /\ Evaluated(T).pnl = pnl /\ Evaluated(T).moic = 100 + mean
  BY DEF Evaluated
<1>5. mean \in Int /\ mean >= -100
  <2> DEFINE f == [d \in T |-> return[d]]
  <2>1. DOMAIN f = T /\ \A d \in T : f[d] \in Int /\ f[d] >= -100
    BY <1>1
  <2>2. -100 \in Int
    OBVIOUS
  <2> HIDE DEF f
  <2>3. Mean(f) \in Int /\ Mean(f) >= -100
    BY <1>3, <2>1, <2>2, MeanAtLeast
  <2> QED  BY <2>3 DEF f
<1>6. W # {} => gain \in Int /\ gain >= 1
  <2> DEFINE f == [d \in W |-> return[d]]
  <2>1. DOMAIN f = W /\ \A d \in W : f[d] \in Int /\ f[d] >= 1
    BY <1>1, <1>2 DEF Winners, Winner
  <2>2. 1 \in Int
    OBVIOUS
  <2> HIDE DEF f
  <2>3. W # {} => Mean(f) \in Int /\ Mean(f) >= 1
    BY <1>3, <2>1, <2>2, MeanAtLeast
  <2> QED  BY <2>3 DEF f
<1>7. L # {} => loss \in Int /\ loss >= 1
  <2> DEFINE f == [d \in L |-> -return[d]]
  <2>1. DOMAIN f = L /\ \A d \in L : f[d] \in Int /\ f[d] >= 1
    BY <1>1, <1>2
  <2>2. 1 \in Int
    OBVIOUS
  <2> HIDE DEF f
  <2>3. L # {} => Mean(f) \in Int /\ Mean(f) >= 1
    BY <1>3, <2>1, <2>2, MeanAtLeast
  <2> QED  BY <2>3 DEF f
<1>8. W = {} => gain = NaN
  <2>1. W = {} => DOMAIN [d \in W |-> return[d]] = {}
    OBVIOUS
  <2> QED  BY <2>1 DEF Mean
<1>9. L = {} => loss = NaN
  <2>1. L = {} => DOMAIN [d \in L |-> -return[d]] = {}
    OBVIOUS
  <2> QED  BY <2>1 DEF Mean
<1>10. pnl = NaN <=> W = {}
  <2> HIDE DEF gain, loss, W, L
  <2>1. CASE W = {}
    BY <1>8, <2>1
  <2>2. CASE W # {} /\ L = {}
    <3>1. gain \in Nat /\ gain # NaN
      BY <1>6, <2>2, NaNIsLow
    <3> QED  BY <1>9, <2>2, <3>1
  <2>3. CASE W # {} /\ L # {}
    <3>1. gain \in Nat /\ gain # NaN
      BY <1>6, <2>3, NaNIsLow
    <3>2. loss \in Nat \ {0} /\ loss # NaN
      BY <1>7, <2>3, NaNIsLow
    <3>3. (100 * gain) \div loss \in Nat
      <4>1. 100 * gain \in Int /\ 100 * gain >= 0 * loss /\ 0 \in Int
        BY <3>1, <3>2
      <4>2. (100 * gain) \div loss \in Int /\ (100 * gain) \div loss >= 0
        BY <3>2, <4>1, QuotientAtLeast
      <4> QED  BY <4>2
    <3>4. pnl = (100 * gain) \div loss
      BY <3>1, <3>2
    <3>5. (100 * gain) \div loss # NaN
      BY <3>3, NaNIsLow
    <3> QED  BY <2>3, <3>4, <3>5
  <2> QED  BY <2>1, <2>2, <2>3
<1>11. Precision(T) = 0 <=> W = {}
  <2> DEFINE n == Cardinality(T)
             w == Cardinality(W)
  <2>1. n \in Nat \ {0} /\ n <= 100 /\ w \in Nat /\ (w = 0 <=> W = {})
    BY <1>3, FS_CardinalityType, FS_EmptySet
  <2>2. Precision(T) = (100 * w) \div n
    BY PrecisionIs
  <2> HIDE DEF n, w
  <2>3. CASE w = 0
    <3>1. 100 * w = 0 * n /\ 0 \in Int
      BY <2>1, <2>3
    <3>2. (0 * n) \div n = 0
      BY <2>1, <3>1, QuotientIs
    <3> QED  BY <2>1, <2>2, <2>3, <3>1, <3>2
  <2>4. CASE w # 0
    <3>1. 100 * w \in Int /\ 100 * w >= 1 * n /\ 1 \in Int
      BY <2>1, <2>4
    <3>2. (100 * w) \div n \in Int /\ (100 * w) \div n >= 1
      BY <2>1, <3>1, QuotientAtLeast
    <3> QED  BY <2>1, <2>2, <2>4, <3>2
  <2> QED  BY <2>3, <2>4
<1>12. 100 + mean >= 0
  <2> HIDE DEF mean
  <2> QED  BY <1>5
<1> HIDE DEF pnl, mean, W
<1> QED  BY <1>4, <1>10, <1>11, <1>12

LEMMA DrawPortfolioKeeps ==
    ASSUME BacktestTypes, DrawPortfolio
    PROVE  PortfoliosFollowTheRanking'
<1>1. /\ score' = score /\ return' = return
      /\ \E subset \in kSubset((Size * DrawPercent) \div 100, Deals) :
            \E held \in TopK(subset, PortfolioSize) :
                portfolios' = <<[from |-> subset, held |-> held, row |-> Evaluated(held)]>>
  BY DEF DrawPortfolio
<1>2. PICK subset \in kSubset((Size * DrawPercent) \div 100, Deals) :
          \E held \in TopK(subset, PortfolioSize) :
              portfolios' = <<[from |-> subset, held |-> held, row |-> Evaluated(held)]>>
  BY <1>1
<1>3. PICK held \in TopK(subset, PortfolioSize) :
          portfolios' = <<[from |-> subset, held |-> held, row |-> Evaluated(held)]>>
  BY <1>2
<1>4. /\ PortfolioSize \in 1..100 /\ Size * DrawPercent >= 100 /\ DrawPercent \in 1..100
      /\ Size \in Nat
  BY BacktestAssumption, DealsAreFew DEF Size
<1>5. subset \in SUBSET Deals /\ Cardinality(subset) \in Nat /\ Cardinality(subset) >= 1
  <2>1. subset \in SUBSET Deals /\ Cardinality(subset) = (Size * DrawPercent) \div 100
    BY DEF kSubset
  <2>2. /\ Size * DrawPercent \in Int /\ Size * DrawPercent >= 1 * 100 /\ 1 \in Int
        /\ 100 \in Nat \ {0}
    BY <1>4
  <2>3. (Size * DrawPercent) \div 100 >= 1
    BY <2>2, QuotientAtLeast
  <2> QED  BY <2>1, <2>3, DealsAreFew
<1>6. /\ held \in SUBSET subset /\ IsFiniteSet(held)
      /\ Cardinality(held) = IF PortfolioSize > Cardinality(subset)
                             THEN Cardinality(subset) ELSE PortfolioSize
  <2>1. PortfolioSize \in Nat
    BY <1>4
  <2> QED  BY <1>5, <2>1, TopIsSmall
<1>7. held \in SUBSET Deals /\ held # {} /\ Cardinality(held) <= 100
  <2>1. Cardinality(held) >= 1 /\ Cardinality(held) <= 100
    BY <1>4, <1>5, <1>6
  <2> QED  BY <1>5, <1>6, <2>1, FS_EmptySet
<1>8. /\ Evaluated(held).wins = Precision(held)
      /\ Evaluated(held).pnl = NaN <=> Evaluated(held).wins = 0
      /\ Evaluated(held).moic >= 0
  BY <1>7, EvaluationIsSound
<1>9. Perfect /\ Cardinality(Winners(subset)) >= PortfolioSize => Evaluated(held).wins = 100
  <2> SUFFICES ASSUME Perfect, Cardinality(Winners(subset)) >= PortfolioSize
               PROVE  Precision(held) = 100
    BY <1>8
  <2>1. Winners(subset) \in SUBSET Deals
    BY <1>5 DEF Winners
  <2>2. PortfolioSize \in 1..Cardinality(Winners(subset))
    BY <1>4, <2>1, DealsAreFew
  <2>3. held \in SUBSET Deals /\ held # {} /\ \A t \in held : Winner(t)
    BY <1>5, <2>2, WinnersFirst
  <2> QED  BY <2>3, AllWinners
<1>10. Perfect' <=> Perfect
  BY <1>1 DEF Perfect, Winners, Winner
<1> DEFINE p == [from |-> subset, held |-> held, row |-> Evaluated(held)]
<1>11. p.from = subset /\ p.row = Evaluated(held)
  OBVIOUS
<1>12. portfolios' = <<p>>
  BY <1>3
<1> HIDE DEF p
<1>13. DOMAIN portfolios' = {1} /\ portfolios'[1] = p
  BY <1>12
<1>14. /\ Perfect /\ Cardinality(Winners(p.from)) >= PortfolioSize => p.row.wins = 100
       /\ p.row.pnl = NaN <=> p.row.wins = 0
       /\ p.row.moic >= 0
  BY <1>8, <1>9, <1>11
<1> SUFFICES ASSUME NEW i \in DOMAIN portfolios'
             PROVE  LET q == portfolios'[i]
                    IN  /\ Perfect' /\ Cardinality({d \in q.from : return'[d] > 0}) >= PortfolioSize
                              => q.row.wins = 100
                        /\ q.row.pnl = NaN <=> q.row.wins = 0
                        /\ q.row.moic >= 0
  BY DEF PortfoliosFollowTheRanking, Winners, Winner
<1>15. portfolios'[i] = p
  BY <1>13
<1>16. {d \in p.from : return'[d] > 0} = Winners(p.from)
  BY <1>1 DEF Winners, Winner
<1> QED  BY <1>10, <1>14, <1>15, <1>16

LEMMA BacktestInitInv == BacktestInit => BacktestInv
<1> SUFFICES ASSUME BacktestInit PROVE BacktestInv
  OBVIOUS
<1>1. /\ score = [d \in Deals |-> 0] /\ return = [d \in Deals |-> 0] /\ sorted = << >>
      /\ seen = 0 /\ cumNeg = 0 /\ aucSum = 0 /\ curve = << >> /\ portfolios = << >>
  BY DEF BacktestInit
<1>2. BacktestTypes
  <2>1. score \in [Deals -> 0..100] /\ return \in [Deals -> {r \in Int : r >= -100}]
    BY <1>1
  <2>2. seen \in 0..Size
    BY <1>1, DealsAreFew
  <2> QED  BY <1>1, <2>1, <2>2 DEF BacktestTypes
<1>3. LoopInv
  <2>1. SeenDeals = {}
    BY <1>1 DEF SeenDeals
  <2>2. Above(SeenDeals) = {} /\ NotBelow(SeenDeals) = {} /\ Losers(SeenDeals) = {}
    BY <2>1 DEF Above, NotBelow, Losers, Winners
  <2>3. Cardinality({}) = 0
    BY FS_EmptySet
  <2>4. 0 <= aucSum /\ aucSum <= 0 /\ cumNeg = 0
    BY <1>1
  <2> QED  BY <2>2, <2>3, <2>4 DEF LoopInv
<1>4. PortfoliosFollowTheRanking
  <2>1. DOMAIN portfolios = {}
    BY <1>1
  <2> QED  BY <2>1 DEF PortfoliosFollowTheRanking
<1> QED  BY <1>2, <1>3, <1>4 DEF BacktestInv

LEMMA DrawDealsKeeps ==
    ASSUME BacktestInv, DrawDeals
    PROVE  BacktestInv'
<1>1. /\ sorted = << >> /\ score' \in [Deals -> Scores] /\ return' \in [Deals -> Returns]
      /\ sorted' \in Argsort(score') /\ seen' = seen /\ cumNeg' = cumNeg /\ aucSum' = aucSum
      /\ curve' = curve /\ portfolios' = portfolios
  BY DEF DrawDeals
<1>2. BacktestTypes
  BY DEF BacktestInv
<1>3. seen = 0 /\ curve = << >> /\ portfolios = << >>
  <2> SUFFICES ASSUME sorted \in Argsort(score) PROVE FALSE
    BY <1>2 DEF BacktestTypes
  <2> QED  BY <1>1, <1>2, RankedDeals
<1>4. BacktestTypes'
  <2>1. score' \in [Deals -> 0..100] /\ return' \in [Deals -> {r \in Int : r >= -100}]
    BY <1>1, BacktestAssumption
  <2>2. (sorted \in Argsort(score))'
    BY <1>1 DEF Argsort
  <2> QED  BY <1>1, <1>2, <2>1, <2>2 DEF BacktestTypes
<1>5. SeenDeals = {} /\ SeenDeals' = {}
  BY <1>1, <1>3 DEF SeenDeals
<1>6. /\ Above({}) = {} /\ NotBelow({}) = {} /\ Losers({}) = {}
      /\ Above({})' = {} /\ NotBelow({})' = {} /\ Losers({})' = {}
  BY DEF Above, NotBelow, Losers, Winners
<1>7. LoopInv'
  <2>1. /\ Above(SeenDeals)' = {} /\ NotBelow(SeenDeals)' = {} /\ Losers(SeenDeals)' = {}
    BY <1>5, <1>6 DEF Above, NotBelow, Losers, Winners
  <2>2. Cardinality({}) <= aucSum /\ aucSum <= Cardinality({}) /\ cumNeg = Cardinality({})
    BY <1>5, <1>6 DEF BacktestInv, LoopInv
  <2> QED  BY <1>1, <2>1, <2>2 DEF LoopInv
<1>8. PortfoliosFollowTheRanking'
  <2>1. DOMAIN portfolios' = {}
    BY <1>1, <1>3
  <2> QED  BY <2>1 DEF PortfoliosFollowTheRanking
<1> QED  BY <1>4, <1>7, <1>8 DEF BacktestInv

LEMMA BacktestStepInv == BacktestInv /\ [BacktestNext]_backtestVars => BacktestInv'
<1> SUFFICES ASSUME BacktestInv, [BacktestNext]_backtestVars PROVE BacktestInv'
  OBVIOUS
<1>1. CASE DrawDeals
  BY <1>1, DrawDealsKeeps
<1>2. CASE PassDeal
  <2>1. BacktestTypes' /\ LoopInv'
    BY <1>2, PassDealKeeps DEF BacktestInv
  <2>2. PortfoliosFollowTheRanking'
    <3>1. /\ score' = score /\ return' = return /\ portfolios' = portfolios
      BY <1>2 DEF PassDeal
    <3> QED  BY <3>1 DEF BacktestInv, PortfoliosFollowTheRanking, Perfect, Winners, Winner
  <2> QED  BY <2>1, <2>2 DEF BacktestInv
<1>3. ASSUME Calibrate \/ DrawPortfolio
      PROVE  BacktestTypes' /\ LoopInv'
  <2>1. /\ score' = score /\ return' = return /\ sorted' = sorted /\ seen' = seen
        /\ cumNeg' = cumNeg /\ aucSum' = aucSum
    BY <1>3 DEF Calibrate, DrawPortfolio
  <2>2. sorted # << >>
    <3> SUFFICES ASSUME sorted = << >> PROVE FALSE
      OBVIOUS
    <3>1. ~(sorted \in Argsort(score))
      BY RankedDeals DEF BacktestInv
    <3>2. seen = 0 /\ curve = << >>
      BY <3>1 DEF BacktestInv, BacktestTypes
    <3> QED  BY <1>3, <3>2, DealsAreFew DEF Calibrate, DrawPortfolio
  <2>3. BacktestTypes'
    <3>1. sorted \in Argsort(score)
      BY <2>2 DEF BacktestInv, BacktestTypes
    <3>2. (sorted \in Argsort(score))'
      BY <2>1, <3>1 DEF Argsort
    <3> QED  BY <2>1, <3>2 DEF BacktestInv, BacktestTypes
  <2>4. LoopInv'
    BY <2>1 DEF BacktestInv, LoopInv, SeenDeals, Above, NotBelow, Losers, Winners, Winner
  <2> QED  BY <2>3, <2>4
<1>4. CASE Calibrate
  <2>1. /\ score' = score /\ return' = return /\ portfolios' = portfolios
    BY <1>4 DEF Calibrate
  <2>2. PortfoliosFollowTheRanking'
    BY <2>1 DEF BacktestInv, PortfoliosFollowTheRanking, Perfect, Winners, Winner
  <2> QED  BY <1>3, <1>4, <2>2 DEF BacktestInv
<1>5. CASE DrawPortfolio
  BY <1>3, <1>5, DrawPortfolioKeeps DEF BacktestInv
<1>6. CASE UNCHANGED backtestVars
  <2>1. /\ score' = score /\ return' = return /\ sorted' = sorted /\ seen' = seen
        /\ cumNeg' = cumNeg /\ aucSum' = aucSum /\ curve' = curve /\ portfolios' = portfolios
    BY <1>6 DEF backtestVars
  <2>2. BacktestTypes'
    BY <2>1 DEF BacktestInv, BacktestTypes, Argsort
  <2>3. LoopInv'
    BY <2>1 DEF BacktestInv, LoopInv, SeenDeals, Above, NotBelow, Losers, Winners, Winner
  <2>4. PortfoliosFollowTheRanking'
    BY <2>1 DEF BacktestInv, PortfoliosFollowTheRanking, Perfect, Winners, Winner
  <2> QED  BY <2>2, <2>3, <2>4 DEF BacktestInv
<1> QED  BY <1>1, <1>2, <1>4, <1>5, <1>6 DEF BacktestNext

LEMMA InvCountsTheRanking == BacktestInv => RankingIsCounted
<1> SUFFICES ASSUME BacktestInv PROVE RankingIsCounted
  OBVIOUS
<1>1. BacktestTypes
  BY DEF BacktestInv
<1>2. SeenDeals \in SUBSET Deals
  <2>1. CASE sorted = << >> /\ seen = 0
    BY <2>1 DEF SeenDeals
  <2>2. CASE sorted \in Argsort(score)
    <3>1. sorted \in [1..Size -> Deals]
      BY <1>1, <2>2, RankedDeals
    <3>2. 1..seen \subseteq 1..Size
      BY <1>1, DealsAreFew DEF BacktestTypes
    <3> QED  BY <3>1, <3>2 DEF SeenDeals
  <2> QED  BY <1>1, <2>1, <2>2 DEF BacktestTypes
<1>3. PairsAreCounted
  <2> DEFINE D == SeenDeals
  <2>1. /\ Pairs(D, LAMBDA x, y : x > y) = Cardinality(Above(D))
        /\ Pairs(D, LAMBDA x, y : x >= y) = Cardinality(NotBelow(D))
        /\ Cardinality(Above(D)) \in Nat /\ Cardinality(NotBelow(D)) \in Nat
    BY <1>2, PairsAreFew
  <2>2. /\ Cardinality(Above(D)) <= aucSum /\ aucSum <= Cardinality(NotBelow(D))
        /\ cumNeg = Cardinality(D \ Winners(D)) /\ aucSum \in Nat
    BY DEF BacktestInv, BacktestTypes, LoopInv, Losers
  <2>3. Cardinality(Above(D)) <= aucSum <=> aucSum >= Cardinality(Above(D))
    BY <2>1, <2>2
  <2> QED  BY <2>1, <2>2, <2>3 DEF PairsAreCounted
<1> QED  BY <1>1, <1>3, ClippedAreUnbinned, TopPrecision DEF RankingIsCounted, BacktestInv

(* Whatever deals, scores and returns are drawn, the one pass counts the   *)
(* pairs that are ranked rightly, the bins leave out the clipped, and a    *)
(* perfect score has winners at its top and in its portfolios.             *)
THEOREM RankingHolds == BacktestSpec => []RankingIsCounted
  BY BacktestInitInv, BacktestStepInv, InvCountsTheRanking, PTL DEF BacktestSpec
------------------------------------------------------------------------------
(***************************************************************************)
(* ReviewCapacity.  The loop starts from the traffic: as many agents as    *)
(* there is work, or fewer, keep nobody's waiting short.  What it has      *)
(* tried since fell short, so the number it settles is the least.          *)
(***************************************************************************)
TriedInVain ==
    agents > 0 => /\ Scenario \in DOMAIN Loads
                  /\ \A fewer \in 1..(agents - 1) : ServiceLevel(Scenario, fewer) < Target

CapacityTypes == agents \in Nat /\ staffed \in Seq(Nat) /\ DOMAIN staffed \subseteq DOMAIN Loads

CapacityInv == CapacityTypes /\ TriedInVain /\ FewerWouldNotDo

LEMMA TooFewForTheTraffic ==
    ASSUME NEW k \in DOMAIN Loads
    PROVE  /\ FirstTry(k) \in Nat \ {0}
           /\ \A n \in 1..(FirstTry(k) - 1) : ServiceLevel(k, n) < Target
<1> DEFINE traffic == TwiceTraffic(k)
<1>1. traffic \in Nat \ {0}
  <2>1. k \in 1..Len(Loads)
    BY LoadsAssumption
  <2>2. Loads[k] \in [streams : Nat \ {0}, perMinute : Nat \ {0}]
    BY <2>1, LoadsAssumption, ElementOfSeq
  <2>3. Loads[k].perMinute \in Nat \ {0}
    BY <2>2
  <2> QED  BY <2>3 DEF TwiceTraffic
<1>2. FirstTry(k) = (traffic + 1) \div 2
  BY DEF FirstTry
<1> HIDE DEF traffic
<1>3. FirstTry(k) \in Nat \ {0} /\ 2 * FirstTry(k) <= traffic + 1
  BY <1>1, <1>2
<1>4. \A n \in 1..(FirstTry(k) - 1) : 2 * n <= traffic
  BY <1>1, <1>3
<1>5. \A n \in 1..(FirstTry(k) - 1) : ServiceLevel(k, n) = 0
  BY <1>4 DEF ServiceLevel, traffic
<1> QED  BY <1>3, <1>5 DEF Target

LEMMA CapacityInitInv == CapacityInit => CapacityInv
<1> SUFFICES ASSUME CapacityInit PROVE CapacityInv
  OBVIOUS
<1>1. agents = 0 /\ staffed = << >>
  BY DEF CapacityInit
<1>2. DOMAIN staffed = {} /\ staffed \in Seq(Nat)
  BY <1>1
<1> QED  BY <1>1, <1>2 DEF CapacityInv, CapacityTypes, TriedInVain, FewerWouldNotDo

LEMMA CapacityStepInv == CapacityInv /\ [CapacityNext]_capacityVars => CapacityInv'
<1> SUFFICES ASSUME CapacityInv, [CapacityNext]_capacityVars PROVE CapacityInv'
  OBVIOUS
<1>1. /\ agents \in Nat /\ staffed \in Seq(Nat) /\ DOMAIN staffed \subseteq DOMAIN Loads
      /\ TriedInVain /\ FewerWouldNotDo
  BY DEF CapacityInv, CapacityTypes
<1>2. CASE BeginScenario
  <2>1. Scenario \in DOMAIN Loads /\ agents' = FirstTry(Scenario) /\ staffed' = staffed
    BY <1>2 DEF BeginScenario
  <2>2. Scenario' = Scenario
    BY <2>1 DEF Scenario
  <2>3. /\ agents' \in Nat
        /\ \A fewer \in 1..(agents' - 1) : ServiceLevel(Scenario, fewer) < Target
    BY <2>1, TooFewForTheTraffic
  <2>4. TriedInVain'
    BY <2>1, <2>2, <2>3 DEF TriedInVain
  <2> QED  BY <1>1, <2>1, <2>3, <2>4 DEF CapacityInv, CapacityTypes, FewerWouldNotDo
<1>3. CASE AddAgent
  <2>1. /\ agents > 0 /\ ServiceLevel(Scenario, agents) < Target
        /\ agents' = agents + 1 /\ staffed' = staffed
    BY <1>3 DEF AddAgent
  <2>2. Scenario' = Scenario
    BY <2>1 DEF Scenario
  <2>3. \A fewer \in 1..(agents' - 1) : fewer \in 1..(agents - 1) \/ fewer = agents
    BY <1>1, <2>1
  <2>4. \A fewer \in 1..(agents' - 1) : ServiceLevel(Scenario, fewer) < Target
    BY <1>1, <2>1, <2>3 DEF TriedInVain
  <2>5. TriedInVain'
    BY <1>1, <2>1, <2>2, <2>4 DEF TriedInVain
  <2> QED  BY <1>1, <2>1, <2>5 DEF CapacityInv, CapacityTypes, FewerWouldNotDo
<1>4. CASE SettleScenario
  <2>1. /\ agents > 0 /\ ServiceLevel(Scenario, agents) >= Target
        /\ staffed' = Append(staffed, agents) /\ agents' = 0
    BY <1>4 DEF SettleScenario
  <2>2. /\ staffed' \in Seq(Nat) /\ Len(staffed') = Len(staffed) + 1
        /\ staffed'[Len(staffed) + 1] = agents
        /\ \A k \in DOMAIN staffed : staffed'[k] = staffed[k]
        /\ \A k \in DOMAIN staffed' : k \in DOMAIN staffed \/ k = Len(staffed) + 1
    BY <1>1, <2>1
  <2>3. ASSUME NEW k \in DOMAIN staffed'
        PROVE  /\ ServiceLevel(k, staffed'[k]) >= Target
               /\ \A fewer \in 1..(staffed'[k] - 1) : ServiceLevel(k, fewer) < Target
    <3>1. CASE k \in DOMAIN staffed
      BY <1>1, <2>2, <3>1 DEF FewerWouldNotDo
    <3>2. CASE k = Scenario
      BY <1>1, <2>1, <2>2, <3>2 DEF TriedInVain, Scenario
    <3> QED  BY <2>2, <3>1, <3>2 DEF Scenario
  <2>4. FewerWouldNotDo'
    BY <2>3 DEF FewerWouldNotDo
  <2>5. TriedInVain'
    BY <2>1 DEF TriedInVain
  <2>6. DOMAIN staffed' \subseteq DOMAIN Loads
    BY <1>1, <2>1, <2>2 DEF TriedInVain, Scenario
  <2> QED  BY <2>1, <2>2, <2>4, <2>5, <2>6 DEF CapacityInv, CapacityTypes
<1>5. CASE UNCHANGED capacityVars
  BY <1>1, <1>5 DEF capacityVars, CapacityInv, CapacityTypes, TriedInVain, Scenario, FewerWouldNotDo
<1> QED  BY <1>2, <1>3, <1>4, <1>5 DEF CapacityNext

(***************************************************************************)
(* How many that number is: exp(-7/3) and exp(-8/3) of those who wait are  *)
(* few enough, so four agents beyond the traffic always suffice, and half  *)
(* of one is always needed.                                                *)
(***************************************************************************)
Fade(v) == (v * 7165) \div 10000

LEMMA DecaySteps ==
    ASSUME NEW m \in Nat
    PROVE  \E D \in [0..m -> Nat] : /\ D[0] = 10 * Thousand
                                    /\ \A i \in 1..m : D[i] = Fade(D[i - 1])
                                    /\ Decay(m) = D[m]
<1> DEFINE step == [i \in 1..m |-> [v \in Nat |-> Fade(v)]]
           base == Thousand * 10
           Runs(f) == f = [i \in 0..m |-> IF i = 0 THEN Thousand * 10 ELSE (f[i - 1] * 7165) \div 10000]
           D == CHOOSE f : Runs(f)
<1>1. base \in Nat /\ base = 10 * Thousand /\ \A v \in Nat : Fade(v) \in Nat
  BY DEF Thousand, Fade
<1>2. step \in StepsOf(Nat, m)
  BY <1>1 DEF StepsOf
<1>3. \A i \in 1..m, v \in Nat : step[i][v] = Fade(v)
  OBVIOUS
<1> HIDE DEF step, base
<1>4. PICK f : IsRun(f, Nat, m, base, step)
  BY <1>1, <1>2, RecursionExists
<1>5. f \in [0..m -> Nat] /\ f[0] = base /\ \A i \in 1..m : f[i] = step[i][f[i - 1]]
  BY <1>4 DEF IsRun
<1>6. \A i \in 1..m : f[i - 1] \in Nat
  BY <1>5
<1>7. \A i \in 1..m : f[i] = Fade(f[i - 1])
  BY <1>3, <1>5, <1>6
<1>8. Runs(f)
  BY <1>5, <1>7 DEF base, Fade
<1> HIDE DEF Runs
<1>9. Runs(D)
  BY <1>8
<1> USE DEF Runs
<1>10. Decay(m) = D[m]
  BY DEF Decay
<1> HIDE DEF D
<1>11. /\ D = [i \in 0..m |-> D[i]] /\ D[0] = base
       /\ \A i \in 1..m : D[i] = Fade(D[i - 1])
  <2>1. D = [i \in 0..m |-> IF i = 0 THEN base ELSE Fade(D[i - 1])]
    BY <1>9 DEF base, Fade
  <2> HIDE DEF Runs
  <2> QED  BY <2>1
<1>12. \A i \in 0..m : D[i] \in Nat
  <2>1. D[0] \in Nat /\ \A i \in 1..m : D[i - 1] \in Nat => D[i] \in Nat
    BY <1>1, <1>11
  <2> HIDE DEF Runs
  <2> QED  BY <2>1, RecursionKeeps
<1> HIDE DEF Runs
<1>13. D \in [0..m -> Nat]
  BY <1>11, <1>12
<1> QED  BY <1>1, <1>10, <1>11, <1>13

LEMMA DecayIs == Decay(7) = 968 /\ Decay(8) = 693
<1>1. /\ Fade(10000) = 7165 /\ Fade(7165) = 5133 /\ Fade(5133) = 3677 /\ Fade(3677) = 2634
      /\ Fade(2634) = 1887 /\ Fade(1887) = 1352 /\ Fade(1352) = 968 /\ Fade(968) = 693
  BY SMT DEF Fade
<1>2. ASSUME NEW m \in Nat, m >= 7
      PROVE  /\ m = 7 => Decay(m) = 968
             /\ m = 8 => Decay(m) = 693
  <2>1. PICK D \in [0..m -> Nat] : /\ D[0] = 10 * Thousand
                                   /\ \A i \in 1..m : D[i] = Fade(D[i - 1])
                                   /\ Decay(m) = D[m]
    BY DecaySteps
  <2>2. /\ D[1] = Fade(D[0]) /\ D[2] = Fade(D[1]) /\ D[3] = Fade(D[2]) /\ D[4] = Fade(D[3])
        /\ D[5] = Fade(D[4]) /\ D[6] = Fade(D[5]) /\ D[7] = Fade(D[6])
        /\ m = 8 => D[8] = Fade(D[7])
    BY <1>2, <2>1, SMT
  <2>3. D[7] = 968 /\ (m = 8 => D[8] = 693)
    BY <1>1, <2>1, <2>2, SMT DEF Thousand
  <2> QED  BY <2>1, <2>3
<1> QED  BY <1>2

(* A scenario has streams, alerts and so traffic. *)
LEMMA TrafficIsSome ==
    ASSUME NEW k \in DOMAIN Loads
    PROVE  /\ k \in 1..Len(Loads)
           /\ Loads[k].perMinute \in Nat \ {0} /\ Loads[k].streams \in Nat \ {0}
           /\ TwiceTraffic(k) \in Nat \ {0}
<1>1. k \in 1..Len(Loads)
  BY LoadsAssumption
<1>2. Loads[k] \in [streams : Nat \ {0}, perMinute : Nat \ {0}]
  BY <1>1, LoadsAssumption, ElementOfSeq
<1> QED  BY <1>1, <1>2 DEF TwiceTraffic

(* A busy line is never likelier than certain. *)
LEMMA InverseAtLeastOne ==
    ASSUME NEW k \in DOMAIN Loads, NEW n \in Nat
    PROVE  InverseErlangB(k, n) \in Nat /\ InverseErlangB(k, n) >= Thousand
<1> DEFINE traffic == TwiceTraffic(k)
           V == {v \in Nat : v >= Thousand}
           Next(v, m) == Thousand + (2 * m * v) \div traffic
           step == [m \in 1..n |-> [v \in V |-> Next(v, m)]]
           Runs(f) == f = [m \in 0..n |->
                               IF m = 0 THEN Thousand
                               ELSE Thousand + (2 * m * f[m - 1]) \div TwiceTraffic(k)]
           I == CHOOSE f : Runs(f)
<1>1. traffic \in Nat \ {0}
  BY TrafficIsSome
<1> HIDE DEF traffic
<1>2. ASSUME NEW v \in V, NEW m \in 1..n PROVE Next(v, m) \in V
  <2>1. 2 * m * v \in Nat
    OBVIOUS
  <2>2. (2 * m * v) \div traffic \in Int /\ (2 * m * v) \div traffic >= 0
    BY <1>1, <2>1, QuotientAtLeast
  <2> QED  BY <2>2 DEF Thousand
<1> HIDE DEF Next
<1>3. step \in StepsOf(V, n)
  BY <1>2 DEF StepsOf
<1>4. \A v \in V, m \in 1..n : step[m][v] = Next(v, m)
  OBVIOUS
<1>5. Thousand \in V
  BY DEF Thousand
<1> HIDE DEF step, V
<1>6. PICK f : IsRun(f, V, n, Thousand, step)
  BY <1>3, <1>5, RecursionExists
<1>7. f \in [0..n -> V] /\ f[0] = Thousand /\ \A m \in 1..n : f[m] = step[m][f[m - 1]]
  BY <1>6 DEF IsRun
<1>8. \A m \in 1..n : f[m - 1] \in V
  BY <1>7
<1>9. \A m \in 1..n : f[m] = Next(f[m - 1], m)
  BY <1>7, <1>4, <1>8
<1>10. Runs(f)
  BY <1>7, <1>9 DEF Next, traffic
<1> HIDE DEF Runs
<1>11. Runs(I)
  BY <1>10
<1> USE DEF Runs
<1>12. InverseErlangB(k, n) = I[n]
  BY DEF InverseErlangB
<1> HIDE DEF I
<1>13. I[0] = Thousand /\ \A m \in 1..n : I[m] = Next(I[m - 1], m)
  BY <1>11 DEF Next, traffic
<1>14. \A m \in 0..n : I[m] \in V
  BY <1>2, <1>5, <1>13, RecursionKeeps
<1> USE DEF V
<1> QED  BY <1>12, <1>14

(* Three and a half or four agents more than the work is worth suffice.     *)
LEMMA FourToSpareSuffice ==
    ASSUME NEW k \in DOMAIN Loads, NEW n \in Nat, 2 * n - TwiceTraffic(k) \in {7, 8}
    PROVE  ServiceLevel(k, n) \in Int /\ ServiceLevel(k, n) >= Target
<1> DEFINE traffic == TwiceTraffic(k)
           spare == 2 * n - traffic
           inverse == InverseErlangB(k, n)
           divisor == spare * inverse + traffic * Thousand
           wait == ProbWait(k, n)
           late == wait * Decay(spare)
<1>1. traffic \in Nat \ {0} /\ spare \in {7, 8} /\ 2 * n = traffic + spare
  BY TrafficIsSome
<1>2. inverse \in Nat /\ inverse >= 1000
  BY InverseAtLeastOne DEF Thousand
<1>3. wait = (2 * n * Thousand * Thousand) \div divisor
  BY DEF ProbWait
<1>4. Decay(spare) \in Nat /\ Decay(spare) <= 968
  BY <1>1, DecayIs
<1>5. ~(2 * n <= traffic)
  BY <1>1
<1>6. ServiceLevel(k, n) = Thousand - late \div (10 * Thousand)
  BY <1>5 DEF ServiceLevel
<1> HIDE DEF traffic, spare, inverse, wait
<1>7. divisor \in Nat /\ divisor >= 2 * n * 1000 /\ divisor > 0
  <2>1. spare * inverse \in Nat /\ spare * inverse >= spare * 1000
    BY <1>1, <1>2
  <2> QED  BY <1>1, <2>1 DEF Thousand
<1> HIDE DEF divisor
<1>8. wait \in Int /\ wait <= 1000 /\ wait >= 0
  <2>1. 2 * n * Thousand * Thousand = 2000000 * n /\ 2000000 * n <= divisor * 1000
    BY <1>7, SMT DEF Thousand
  <2>2. wait \in Int /\ divisor * wait <= 2000000 * n
    BY <1>3, <1>7, <2>1, SMT
  <2>3. CASE wait >= 1001
    <3>1. divisor * (wait - 1001) >= 0
      BY <1>7, <2>2, <2>3, SMT
    <3>2. divisor * (wait - 1001) = divisor * wait - divisor * 1001
      BY <1>7, <2>2, SMT
    <3> QED  BY <1>7, <2>1, <2>2, <3>1, <3>2, SMT
  <2>4. wait >= 0
    BY <1>3, <1>7, <2>1, QuotientAtLeast, SMT
  <2> QED  BY <2>2, <2>3, <2>4
<1>9. late \in Int /\ late <= 968000 /\ late >= 0
  BY <1>4, <1>8, SMT
<1> HIDE DEF late
<1>10. late \div (10 * Thousand) \in Int /\ late \div (10 * Thousand) <= 96
  BY <1>9, SMT DEF Thousand
<1> QED  BY <1>6, <1>10, SMT DEF Target, Thousand

(* What is settled is more than the work, and four agents more at the most. *)
LEMMA StaffedForTraffic ==
    ASSUME CapacityTypes, FewerWouldNotDo, NEW k \in DOMAIN staffed
    PROVE  /\ staffed[k] \in Nat
           /\ TwiceTraffic(k) + 1 <= 2 * staffed[k] /\ 2 * staffed[k] <= TwiceTraffic(k) + 8
<1> DEFINE traffic == TwiceTraffic(k)
           s == staffed[k]
<1>1. k \in DOMAIN Loads /\ traffic \in Nat \ {0} /\ s \in Nat
  BY TrafficIsSome DEF CapacityTypes
<1>2. ServiceLevel(k, s) >= Target /\ \A fewer \in 1..(s - 1) : ServiceLevel(k, fewer) < Target
  BY DEF FewerWouldNotDo
<1>3. 2 * s > traffic
  <2>1. CASE 2 * s <= traffic
    <3>1. ServiceLevel(k, s) = 0
      BY <2>1 DEF ServiceLevel
    <3> QED  BY <1>2, <3>1 DEF Target
  <2> HIDE DEF s, traffic
  <2> QED  BY <1>1, <2>1
<1>4. 2 * s <= traffic + 8
  <2>1. CASE 2 * s > traffic + 8
    <3> DEFINE n == (traffic + 8) \div 2
    <3> HIDE DEF s, traffic
    <3>1. n \in Nat /\ 2 * n - traffic \in {7, 8} /\ n \in 1..(s - 1)
      BY <1>1, <2>1
    <3> HIDE DEF n
    <3>2. ServiceLevel(k, n) \in Int /\ ServiceLevel(k, n) >= Target
      BY <1>1, <3>1, FourToSpareSuffice DEF traffic
    <3>3. ServiceLevel(k, n) < Target
      BY <1>2, <3>1
    <3> QED  BY <3>2, <3>3 DEF Target
  <2> HIDE DEF s, traffic
  <2> QED  BY <1>1, <2>1
<1> HIDE DEF s, traffic
<1>5. traffic + 1 <= 2 * s
  BY <1>1, <1>3
<1> QED  BY <1>1, <1>4, <1>5 DEF s, traffic

(* So the more streams there are, the fewer agents a thousand of them need. *)
LEMMA SettledGrowSlower ==
    CapacityTypes /\ FewerWouldNotDo => CrowdsNeedFewerEach
<1> SUFFICES ASSUME CapacityTypes, FewerWouldNotDo, NEW k \in DOMAIN staffed, k > 1
             PROVE  staffed[k] * Loads[k - 1].streams <= staffed[k - 1] * Loads[k].streams
  BY DEF CrowdsNeedFewerEach
<1> DEFINE a == staffed[k]        p == Loads[k].perMinute      x == Loads[k].streams
           b == staffed[k - 1]    q == Loads[k - 1].perMinute  y == Loads[k - 1].streams
<1>1. k \in DOMAIN Loads /\ k - 1 \in DOMAIN staffed /\ k - 1 \in DOMAIN Loads
  BY DEF CapacityTypes
<1>2. a \in Nat /\ b \in Nat /\ 2 * a <= 3 * p + 8 /\ 3 * q + 1 <= 2 * b
  BY <1>1, StaffedForTraffic DEF TwiceTraffic
<1>3. x \in Nat /\ y \in Nat /\ p \in Nat /\ q \in Nat
  BY <1>1, TrafficIsSome
<1>4. (3 * p + 8) * y <= (3 * q + 1) * x
  BY <1>1, SublinearAssumption
<1> HIDE DEF a, b, p, q, x, y
<1>5. (2 * a) * y <= (3 * p + 8) * y
  BY <1>2, <1>3
<1>6. (3 * q + 1) * x <= (2 * b) * x
  BY <1>2, <1>3
<1>7. (2 * a) * y = 2 * (a * y) /\ (2 * b) * x = 2 * (b * x) /\ a * y \in Int /\ b * x \in Int
  BY <1>2, <1>3
<1>8. (3 * p + 8) * y \in Int /\ (3 * q + 1) * x \in Int
  BY <1>2, <1>3
<1>9. a * y <= b * x
  BY <1>4, <1>5, <1>6, <1>7, <1>8
<1> QED  BY <1>9 DEF a, b, x, y

(* In every scenario the reviewers suffice and any smaller number does not, *)
(* and a thousand streams need the fewer of them the more streams there     *)
(* are (05_alerts_capacity_erlangc.py:48-59 and 101), for all loads that    *)
(* grow sublinearly themselves.                                            *)
THEOREM FewestReviewersAreSettled == CapacitySpec => []FewestReviewersSuffice
<1>1. CapacityInv => FewestReviewersSuffice
  BY SettledGrowSlower DEF CapacityInv, FewestReviewersSuffice
<1> QED  BY <1>1, CapacityInitInv, CapacityStepInv, PTL DEF CapacitySpec

------------------------------------------------------------------------------
(***************************************************************************)
(* Valuation.  The tornado puts the value together anew, from rounded      *)
(* parts.  Each of its drivers moves what comes before the exit or what is *)
(* discounted over ten years, and by more than the rounding does: the      *)
(* discounting keeps the order of two amounts that differ by twenty after  *)
(* the first year, and makes 1542 of the 6500 that rounding can add to the *)
(* value of the exit.                                                      *)
(***************************************************************************)
(* A year's discounting of a whole amount: it keeps the order and a margin, *)
(* the more the lower the rate, and adds no more than one by rounding.      *)
Rates == {135, 155, 175}

OneYear(amount, wacc) == (amount * 1000) \div (1000 + wacc)

LEMMA OneYearIs ==
    ASSUME NEW a \in Int, NEW w \in Rates
    PROVE  OneYear(a, w) \in Int /\ (a >= 0 => OneYear(a, w) >= 0)
<1>1. CASE w = 135
  BY <1>1, SMT DEF OneYear
<1>2. CASE w = 155
  BY <1>2, SMT DEF OneYear
<1>3. CASE w = 175
  BY <1>3, SMT DEF OneYear
<1> QED  BY <1>1, <1>2, <1>3 DEF Rates

LEMMA OneYearKeepsMargin ==
    ASSUME NEW low \in Rates, NEW high \in Rates, low <= high,
           NEW x \in Nat, NEW y \in Int, NEW margin \in Nat, y >= x + margin
    PROVE  OneYear(y, low) >= OneYear(x, high) + OneYear(margin, 175)
<1>1. \A a \in Nat : OneYear(a, 135) >= OneYear(a, 155) /\ OneYear(a, 155) >= OneYear(a, 175)
  BY SMT DEF OneYear
<1>2. \A w \in Rates : OneYear(y, w) >= OneYear(x, w) + OneYear(margin, w)
  <2>1. OneYear(y, 135) >= OneYear(x, 135) + OneYear(margin, 135)
    BY SMT DEF OneYear
  <2>2. OneYear(y, 155) >= OneYear(x, 155) + OneYear(margin, 155)
    BY SMT DEF OneYear
  <2>3. OneYear(y, 175) >= OneYear(x, 175) + OneYear(margin, 175)
    BY SMT DEF OneYear
  <2> QED  BY <2>1, <2>2, <2>3 DEF Rates
<1>3. OneYear(x, low) >= OneYear(x, high)
  <2>1. low = high \/ (low = 135 /\ high \in {155, 175}) \/ (low = 155 /\ high = 175)
    BY DEF Rates
  <2>2. OneYear(x, 135) \in Int /\ OneYear(x, 155) \in Int /\ OneYear(x, 175) \in Int
    BY OneYearIs, SMT DEF Rates
  <2>3. OneYear(x, 135) >= OneYear(x, 155) /\ OneYear(x, 155) >= OneYear(x, 175)
    BY <1>1
  <2>4. CASE low = high
    BY <2>4, OneYearIs, SMT
  <2> QED  BY <2>1, <2>2, <2>3, <2>4
<1>4. OneYear(margin, low) >= OneYear(margin, 175)
  BY <1>1, OneYearIs, SMT DEF Rates
<1>5. /\ OneYear(y, low) \in Int /\ OneYear(x, low) \in Int /\ OneYear(x, high) \in Int
      /\ OneYear(margin, low) \in Int /\ OneYear(margin, 175) \in Int
  BY OneYearIs, SMT DEF Rates
<1>6. OneYear(y, low) >= OneYear(x, low) + OneYear(margin, low)
  BY <1>2
<1> QED  BY <1>3, <1>4, <1>5, <1>6

LEMMA OneYearAddsLittle ==
    ASSUME NEW x \in Nat, NEW y \in Int, NEW more \in Nat, y <= x + more
    PROVE  OneYear(y, Wacc) <= OneYear(x, Wacc) + OneYear(more, Wacc) + 1
BY SMT DEF OneYear, Wacc

IsDiscounting(D, V, amount, wacc, years) ==
    /\ D \in [0..years -> V] /\ D[0] = amount
    /\ \A n \in 1..years : D[n] = OneYear(D[n - 1], wacc)
    /\ Discounted(amount, wacc, years) = D[years]

LEMMA DiscountedSteps ==
    ASSUME NEW V \in {Int, Nat}, NEW amount \in V, NEW w \in Rates, NEW years \in Nat
    PROVE  \E D : IsDiscounting(D, V, amount, w, years)
<1> DEFINE step == [n \in 1..years |-> [v \in V |-> OneYear(v, w)]]
           Runs(f) == f = [n \in 0..years |-> IF n = 0 THEN amount ELSE (f[n - 1] * 1000) \div (1000 + w)]
           D == CHOOSE f : Runs(f)
<1>1. \A v \in V : OneYear(v, w) \in V
  BY OneYearIs
<1>2. step \in StepsOf(V, years)
  BY <1>1 DEF StepsOf
<1>3. \A n \in 1..years, v \in V : step[n][v] = OneYear(v, w)
  OBVIOUS
<1> HIDE DEF step
<1>4. PICK f : IsRun(f, V, years, amount, step)
  BY <1>2, RecursionExists
<1>5. f \in [0..years -> V] /\ f[0] = amount /\ \A n \in 1..years : f[n] = step[n][f[n - 1]]
  BY <1>4 DEF IsRun
<1>6. \A n \in 1..years : f[n - 1] \in V
  BY <1>5
<1>7. \A n \in 1..years : f[n] = OneYear(f[n - 1], w)
  BY <1>3, <1>5, <1>6
<1>8. Runs(f)
  BY <1>5, <1>7 DEF OneYear
<1> HIDE DEF Runs
<1>9. Runs(D)
  BY <1>8
<1> USE DEF Runs
<1>10. Discounted(amount, w, years) = D[years]
  BY DEF Discounted
<1> HIDE DEF D
<1>11. /\ D = [n \in 0..years |-> D[n]] /\ D[0] = amount
       /\ \A n \in 1..years : D[n] = OneYear(D[n - 1], w)
  <2>1. D = [n \in 0..years |-> IF n = 0 THEN amount ELSE OneYear(D[n - 1], w)]
    BY <1>9 DEF OneYear
  <2> HIDE DEF Runs
  <2> QED  BY <2>1
<1>12. \A n \in 0..years : D[n] \in V
  <2>1. D[0] \in V /\ \A n \in 1..years : D[n - 1] \in V => D[n] \in V
    BY <1>1, <1>11
  <2> HIDE DEF Runs
  <2> QED  BY <2>1, RecursionKeeps
<1> HIDE DEF Runs
<1>13. D \in [0..years -> V]
  BY <1>11, <1>12
<1> QED  BY <1>10, <1>11, <1>13 DEF IsDiscounting

IsDecade(D, amount, wacc) ==
    /\ D \in [0..10 -> Nat] /\ D[0] = amount
    /\ \A n \in 1..10 : D[n] = OneYear(D[n - 1], wacc)
    /\ Discounted(amount, wacc, 10) = D[10]

LEMMA DecadeSteps ==
    ASSUME NEW amount \in Nat, NEW w \in Rates
    PROVE  \E D : IsDecade(D, amount, w)
<1>1. \A years \in Nat : \E D : IsDiscounting(D, Nat, amount, w, years)
  BY DiscountedSteps
<1>2. PICK D : IsDiscounting(D, Nat, amount, w, 10)
  BY <1>1
<1> QED  BY <1>2 DEF IsDiscounting, IsDecade

(* Ten years with a margin of twenty after the first, or with an amount of  *)
(* 6500, what thirteen times the rounding of the EBITDA comes to, added.    *)
LEMMA Margins ==
    /\ OneYear(20, 175) = 17 /\ OneYear(17, 175) = 14 /\ OneYear(14, 175) = 11
    /\ OneYear(11, 175) = 9 /\ OneYear(9, 175) = 7 /\ OneYear(7, 175) = 5
    /\ OneYear(5, 175) = 4 /\ OneYear(4, 175) = 3 /\ OneYear(3, 175) = 2
  BY SMT DEF OneYear

LEMMA TenYearsKeepMargin ==
    ASSUME NEW low \in Rates, NEW high \in Rates, low <= high, NEW x \in Nat, NEW y \in Nat,
           OneYear(y, low) >= OneYear(x, high) + 20
    PROVE  /\ Discounted(y, low, 10) \in Nat /\ Discounted(x, high, 10) \in Nat
           /\ Discounted(x, high, 10) < Discounted(y, low, 10)
<1>1. PICK X : IsDecade(X, x, high)
  BY DecadeSteps
<1>2. PICK Y : IsDecade(Y, y, low)
  BY DecadeSteps
<1>3. ASSUME NEW n \in 1..9, NEW m \in Nat, Y[n] >= X[n] + m
      PROVE  Y[n + 1] >= X[n + 1] + OneYear(m, 175)
  <2>1. /\ n + 1 \in 1..10 /\ (n + 1) - 1 = n /\ X[n] \in Nat /\ Y[n] \in Nat
        /\ X[n + 1] = OneYear(X[n], high) /\ Y[n + 1] = OneYear(Y[n], low)
    BY <1>1, <1>2 DEF IsDecade
  <2> QED  BY <1>3, <2>1, OneYearKeepsMargin
<1>4. Y[1] >= X[1] + 20
  BY <1>1, <1>2 DEF IsDecade
<1>5. Y[4] >= X[4] + 11
  <2>1. Y[2] >= X[2] + 17  BY <1>3, <1>4, Margins
  <2>2. Y[3] >= X[3] + 14  BY <1>3, <2>1, Margins
  <2> QED  BY <1>3, <2>2, Margins
<1>6. Y[7] >= X[7] + 5
  <2>1. Y[5] >= X[5] + 9  BY <1>3, <1>5, Margins
  <2>2. Y[6] >= X[6] + 7  BY <1>3, <2>1, Margins
  <2> QED  BY <1>3, <2>2, Margins
<1>7. Y[10] >= X[10] + 2
  <2>1. Y[8] >= X[8] + 4  BY <1>3, <1>6, Margins
  <2>2. Y[9] >= X[9] + 3  BY <1>3, <2>1, Margins
  <2> QED  BY <1>3, <2>2, Margins
<1>8. X[10] \in Nat /\ Y[10] \in Nat
  BY <1>1, <1>2 DEF IsDecade
<1> QED  BY <1>1, <1>2, <1>7, <1>8 DEF IsDecade

Adds(x, y, a, b) ==
    /\ y <= x + 6500 => b <= a + 5628
    /\ y <= x + 5628 => b <= a + 4873
    /\ y <= x + 4873 => b <= a + 4220
    /\ y <= x + 4220 => b <= a + 3654
    /\ y <= x + 3654 => b <= a + 3164
    /\ y <= x + 3164 => b <= a + 2740
    /\ y <= x + 2740 => b <= a + 2373
    /\ y <= x + 2373 => b <= a + 2055
    /\ y <= x + 2055 => b <= a + 1780
    /\ y <= x + 1780 => b <= a + 1542

LEMMA Additions ==
    ASSUME NEW x \in Nat, NEW y \in Nat, NEW a \in Nat, NEW b \in Nat,
           b = OneYear(y, Wacc), a = OneYear(x, Wacc)
    PROVE  Adds(x, y, a, b)
  BY SMT DEF Adds, OneYear, Wacc

LEMMA TenYearsAddLittle ==
    ASSUME NEW x \in Nat, NEW y \in Nat, y <= x + 6500
    PROVE  Discounted(y, Wacc, 10) <= Discounted(x, Wacc, 10) + 1542
<1>1. Wacc \in Rates
  BY DEF Rates, Wacc
<1>2. PICK X : IsDecade(X, x, Wacc)
  BY <1>1, DecadeSteps
<1>3. PICK Y : IsDecade(Y, y, Wacc)
  BY <1>1, DecadeSteps
<1>4. ASSUME NEW n \in 0..9
      PROVE  Adds(X[n], Y[n], X[n + 1], Y[n + 1])
  <2>1. /\ n + 1 \in 1..10 /\ (n + 1) - 1 = n /\ X[n] \in Nat /\ Y[n] \in Nat
        /\ X[n + 1] \in Nat /\ X[n + 1] = OneYear(X[n], Wacc)
        /\ Y[n + 1] \in Nat /\ Y[n + 1] = OneYear(Y[n], Wacc)
    BY <1>2, <1>3 DEF IsDecade
  <2> QED  BY <2>1, Additions
<1>5. Y[0] <= X[0] + 6500
  BY <1>2, <1>3 DEF IsDecade
<1>6. Y[5] <= X[5] + 3164
  BY <1>4, <1>5, SMT DEF Adds
<1>7. Y[10] <= X[10] + 1542
  BY <1>4, <1>6, SMT DEF Adds
<1> QED  BY <1>2, <1>3, <1>7, SMT DEF IsDecade

LEMMA PartsAreWhole ==
    ASSUME NEW a \in Int, NEW p \in Nat
    PROVE  /\ Percent(a, p) \in Int /\ (a >= 0 => Percent(a, p) >= 0)
           /\ OfThousand(a, p) \in Int /\ (a >= 0 => OfThousand(a, p) >= 0)
<1> DEFINE q == a * p
<1>1. q \in Int /\ (a >= 0 => q >= 0)
  BY SMT
<1> HIDE DEF q
<1>2. /\ q \div 100 \in Int /\ (q >= 0 => q \div 100 >= 0)
      /\ q \div 1000 \in Int /\ (q >= 0 => q \div 1000 >= 0)
  BY <1>1, SMT
<1> QED  BY <1>1, <1>2 DEF q, Percent, OfThousand

LEMMA YearsAreFew == IsFiniteSet(Years)
<1>1. 1 \in Int /\ 5 \in Int
  OBVIOUS
<1> QED  BY <1>1, FS_Interval DEF Years

LEMMA TotalsAreWhole ==
    ASSUME NEW f, \A y \in Years : f[y] \in Int
    PROVE  Total(f) \in Int /\ ((\A y \in Years : f[y] >= 0) => Total(f) >= 0)
<1>1. Total(f) = SumOf(f, Years)
  BY MapThenSumIsSum DEF Total
<1>2. SumOf(f, Years) \in Int
  BY YearsAreFew, SumInInt DEF SumOf
<1>3. (\A y \in Years : f[y] >= 0) => SumOf(f, Years) >= 0
  <2>1. Cardinality(Years) \in Nat /\ 0 * Cardinality(Years) = 0 /\ 0 \in Int
    BY YearsAreFew, FS_CardinalityType
  <2>2. (\A y \in Years : f[y] >= 0) => SumOf(f, Years) >= 0 * Cardinality(Years)
    BY <2>1, YearsAreFew, SumAtLeast
  <2> QED  BY <2>1, <2>2
<1> QED  BY <1>1, <1>2, <1>3

LEMMA DiscountedIsWhole ==
    ASSUME NEW a \in Int, NEW years \in Nat
    PROVE  Discounted(a, Wacc, years) \in Int /\ (a >= 0 => Discounted(a, Wacc, years) >= 0)
<1>1. Wacc \in Rates
  BY DEF Rates, Wacc
<1>2. PICK D : IsDiscounting(D, Int, a, Wacc, years)
  BY <1>1, DiscountedSteps
<1>3. Discounted(a, Wacc, years) \in Int
  BY <1>2 DEF IsDiscounting
<1>4. CASE a >= 0
  <2>1. a \in Nat
    BY <1>4
  <2>2. PICK E : IsDiscounting(E, Nat, a, Wacc, years)
    BY <1>1, <2>1, DiscountedSteps
  <2>3. Discounted(a, Wacc, years) \in Nat
    BY <2>2 DEF IsDiscounting
  <2> QED  BY <1>3, <2>3
<1> QED  BY <1>3, <1>4

(* The cash of the five years, from balances that are whole.                *)
Balances == [cash : Int, ar : Int, ppe : Int, ap : Int, paidIn : Int, retained : Int]

LEMMA FreeCashFlowIsWhole ==
    ASSUME NEW accounts, \A y \in Years : accounts[y] \in Nat
    PROVE  \A y \in Years : FreeCashFlow(accounts)[y] \in Int
<1> DEFINE Opening == [cash |-> 0, ar |-> 0, ppe |-> 0, ap |-> 0, paidIn |-> 0, retained |-> 0]
           Next(y, b) == RollForward(b, Flows(y, accounts[y], b.ppe), 0)
           step == [y \in 1..5 |-> [b \in Balances |-> Next(y, b)]]
           Runs(f) == f = [y \in 0..5 |-> IF y = 0 THEN Opening ELSE RollForward(f[y - 1], Flows(y, accounts[y], f[y - 1].ppe), 0)]
           B == CHOOSE f : Runs(f)
           five == 5
<1>1. Opening \in Balances
  BY DEF Balances
<1>2. ASSUME NEW y \in 1..5, NEW b \in Balances PROVE Next(y, b) \in Balances
  <2>1. y \in Years /\ accounts[y] \in Nat /\ b.ppe \in Int
    BY DEF Years, Balances
  <2>2. Flows(y, accounts[y], b.ppe) \in [net : Int, capex : Int, da : Int, ar : Int, ap : Int]
    BY <2>1, FlowsAreWhole
  <2> DEFINE f == Flows(y, accounts[y], b.ppe)
  <2> HIDE DEF f
  <2>3. RollForward(b, f, 0) \in Balances
    BY <2>2, SMT DEF RollForward, Balances, f
  <2> QED  BY <2>3 DEF f
<1>3. five \in Nat /\ step \in StepsOf(Balances, five)
  BY <1>2 DEF StepsOf
<1>4. \A y \in 1..5, b \in Balances : step[y][b] = Next(y, b)
  OBVIOUS
<1> HIDE DEF step, Opening, Next, five
<1>5. PICK f : IsRun(f, Balances, five, Opening, step)
  BY <1>1, <1>3, RecursionExists
<1>6. f \in [0..5 -> Balances] /\ f[0] = Opening /\ \A y \in 1..5 : f[y] = step[y][f[y - 1]]
  BY <1>5 DEF IsRun, five
<1>7. \A y \in 1..5 : f[y - 1] \in Balances
  BY <1>6
<1>8. \A y \in 1..5 : f[y] = Next(y, f[y - 1])
  BY <1>4, <1>6, <1>7
<1>9. Runs(f)
  BY <1>6, <1>8 DEF Next
<1> HIDE DEF Runs
<1>10. Runs(B)
  BY <1>9
<1> USE DEF Runs, Opening
<1>11. FreeCashFlow(accounts) = [y \in Years |-> B[y].cash - B[y - 1].cash]
  BY DEF FreeCashFlow
<1> HIDE DEF B, Opening
<1>12. B[0] = Opening /\ \A y \in 1..5 : B[y] = Next(y, B[y - 1])
  <2>1. B = [y \in 0..5 |-> IF y = 0 THEN Opening ELSE Next(y, B[y - 1])]
    BY <1>10 DEF Next
  <2> HIDE DEF Runs
  <2> QED  BY <2>1
<1> HIDE DEF Runs
<1>13. \A y \in 0..five : B[y] \in Balances
  <2>1. B[0] \in Balances /\ \A y \in 1..five : B[y - 1] \in Balances => B[y] \in Balances
    BY <1>1, <1>2, <1>12 DEF five
  <2> QED  BY <1>3, <2>1, RecursionKeeps
<1>14. ASSUME NEW y \in Years PROVE FreeCashFlow(accounts)[y] \in Int
  <2>1. y \in 0..five /\ y - 1 \in 0..five
    BY DEF Years, five
  <2>2. B[y].cash \in Int /\ B[y - 1].cash \in Int
    BY <1>13, <2>1 DEF Balances
  <2> QED  BY <1>11, <2>2
<1> QED  BY <1>14

LEMMA TransitionIsWhole ==
    ASSUME NEW revenue \in Nat
    PROVE  \A t \in Years : /\ Transition(revenue)[t].fcf \in Nat
                            /\ Transition(revenue)[t].ebitda \in Nat
<1> DEFINE Next(t, v) == OfThousand(v, 1000 + Growth[t])
           step == [t \in 1..5 |-> [v \in Nat |-> Next(t, v)]]
           Runs(f) == f = [t \in 0..5 |-> IF t = 0 THEN revenue ELSE OfThousand(f[t - 1], 1000 + Growth[t])]
           R == CHOOSE f : Runs(f)
           five == 5
<1>1. \A t \in Years : Growth[t] \in Nat /\ Margin[t] \in Nat
  BY SMT DEF Years, Growth, Margin
<1>2. ASSUME NEW t \in 1..5, NEW v \in Nat PROVE Next(t, v) \in Nat
  <2>1. 1000 + Growth[t] \in Nat
    BY <1>1, SMT DEF Years
  <2>2. v \in Int /\ v >= 0
    OBVIOUS
  <2>3. \A p \in Nat : OfThousand(v, p) \in Int /\ OfThousand(v, p) >= 0
    BY <2>2, PartsAreWhole
  <2> QED  BY <2>1, <2>3
<1>3. five \in Nat /\ step \in StepsOf(Nat, five)
  BY <1>2 DEF StepsOf
<1>4. \A t \in 1..5, v \in Nat : step[t][v] = Next(t, v)
  OBVIOUS
<1> HIDE DEF step, Next, five
<1>5. PICK f : IsRun(f, Nat, five, revenue, step)
  BY <1>3, RecursionExists
<1>6. f \in [0..5 -> Nat] /\ f[0] = revenue /\ \A t \in 1..5 : f[t] = step[t][f[t - 1]]
  BY <1>5 DEF IsRun, five
<1>7. \A t \in 1..5 : f[t - 1] \in Nat
  BY <1>6
<1>8. \A t \in 1..5 : f[t] = Next(t, f[t - 1])
  BY <1>4, <1>6, <1>7
<1>9. Runs(f)
  BY <1>6, <1>8 DEF Next
<1> HIDE DEF Runs
<1>10. Runs(R)
  BY <1>9
<1> USE DEF Runs
<1>11. Transition(revenue) =
          [t \in Years |-> [fcf    |-> Percent(OfThousand(R[t], Margin[t]), 85),
                            ebitda |-> OfThousand(R[t], Margin[t] + 60)]]
  BY DEF Transition
<1> HIDE DEF R
<1>12. R[0] = revenue /\ \A t \in 1..5 : R[t] = Next(t, R[t - 1])
  <2>1. R = [t \in 0..5 |-> IF t = 0 THEN revenue ELSE Next(t, R[t - 1])]
    BY <1>10 DEF Next
  <2> HIDE DEF Runs
  <2> QED  BY <2>1
<1> HIDE DEF Runs
<1>13. \A t \in 0..five : R[t] \in Nat
  <2>1. R[0] \in Nat /\ \A t \in 1..five : R[t - 1] \in Nat => R[t] \in Nat
    BY <1>2, <1>12 DEF five
  <2> QED  BY <1>3, <2>1, RecursionKeeps
<1>14. ASSUME NEW t \in Years
       PROVE  Transition(revenue)[t].fcf \in Nat /\ Transition(revenue)[t].ebitda \in Nat
  <2>1. R[t] \in Nat /\ Margin[t] \in Nat /\ Margin[t] + 60 \in Nat
    BY <1>1, <1>13 DEF Years, five
  <2> DEFINE kept == OfThousand(R[t], Margin[t])
             ebitda == OfThousand(R[t], Margin[t] + 60)
             fcf == Percent(kept, 85)
  <2>2. kept \in Int /\ kept >= 0 /\ ebitda \in Int /\ ebitda >= 0
    <3>1. R[t] \in Int /\ R[t] >= 0
      BY <2>1
    <3>2. \A p \in Nat : OfThousand(R[t], p) \in Int /\ OfThousand(R[t], p) >= 0
      BY <3>1, PartsAreWhole
    <3> QED  BY <2>1, <3>2
  <2>3. fcf \in Int /\ fcf >= 0
    <3> HIDE DEF kept
    <3>1. \A p \in Nat : Percent(kept, p) \in Int /\ Percent(kept, p) >= 0
      BY <2>2, PartsAreWhole
    <3> QED  BY <3>1
  <2>4. Transition(revenue)[t] = [fcf |-> fcf, ebitda |-> ebitda]
    BY <1>11
  <2> HIDE DEF fcf, ebitda
  <2> QED  BY <2>2, <2>3, <2>4
<1> QED  BY <1>14

(* What 12 writes is whole, and the cash flows to come are no loss.         *)
LEMMA WorthIsWhole ==
    ASSUME NEW accounts, \A y \in Years : accounts[y] \in Nat
    PROVE  LET w == Worth(accounts)
           IN  /\ w.explicit \in Int /\ w.transition \in Nat /\ w.ebitda \in Nat
               /\ w.twoStage = w.explicit + w.transition + Discounted(ExitMultiple * w.ebitda, Wacc, 10)
<1> DEFINE fcf        == FreeCashFlow(accounts)
           later      == Transition(Revenue(accounts[5]))
           yearly     == [y \in Years |-> Discounted(fcf[y], Wacc, y)]
           afterwards == [t \in Years |-> Discounted(later[t].fcf, Wacc, 5 + t)]
           explicit   == Total(yearly)
           transition == Total(afterwards)
           gordon     == (later[5].fcf * (1000 + TerminalGrowth)) \div (Wacc - TerminalGrowth)
           terminal   == Discounted(ExitMultiple * later[5].ebitda, Wacc, 10)
           perpetual  == Discounted(gordon, Wacc, 10)
<1>1. explicit \in Int
  <2>1. \A y \in Years : fcf[y] \in Int /\ y \in Nat
    BY FreeCashFlowIsWhole DEF Years
  <2> HIDE DEF fcf
  <2>2. \A y \in Years : yearly[y] \in Int
    BY <2>1, DiscountedIsWhole
  <2> HIDE DEF yearly
  <2> QED  BY <2>2, TotalsAreWhole
<1>2. \A t \in Years : later[t].fcf \in Nat /\ later[t].ebitda \in Nat
  <2>1. accounts[5] \in Nat
    BY DEF Years
  <2>2. Revenue(accounts[5]) \in Nat
    BY <2>1, SMT DEF Revenue
  <2> QED  BY <2>2, TransitionIsWhole
<1>3. transition \in Nat
  <2> HIDE DEF later
  <2>1. \A t \in Years : later[t].fcf \in Int /\ later[t].fcf >= 0 /\ 5 + t \in Nat
    BY <1>2 DEF Years
  <2>2. \A t \in Years : afterwards[t] \in Int /\ afterwards[t] >= 0
    BY <2>1, DiscountedIsWhole
  <2> HIDE DEF afterwards
  <2> QED  BY <2>2, TotalsAreWhole
<1>4. Worth(accounts) =
        [explicit |-> explicit, transition |-> transition, ebitda |-> later[5].ebitda,
         twoStage |-> explicit + transition + terminal,
         gordon   |-> explicit + transition + perpetual]
  BY DEF Worth, PvTransition
<1>5. later[5].ebitda \in Nat
  BY <1>2 DEF Years
<1> HIDE DEF explicit, transition, later, perpetual
<1> QED  BY <1>1, <1>3, <1>4, <1>5

(* Another rate: the transition is worth the same at the rate of the plan,  *)
(* no more at a higher one and no less at a lower.                          *)
Shift(v, wacc) == (v * (1000 + Wacc)) \div (1000 + wacc)

Shifted(t, wacc) ==
    {v \in Nat : /\ wacc = 155 => v = t
                 /\ wacc = 175 => v <= t
                 /\ wacc = 135 => v >= t}

LEMMA ShiftKeeps ==
    ASSUME NEW t \in Nat, NEW w \in Rates, NEW v \in Shifted(t, w)
    PROVE  Shift(v, w) \in Shifted(t, w)
<1>1. CASE w = 135
  BY <1>1, SMT DEF Shift, Shifted, Wacc
<1>2. CASE w = 155
  BY <1>2, SMT DEF Shift, Shifted, Wacc
<1>3. CASE w = 175
  BY <1>3, SMT DEF Shift, Shifted, Wacc
<1> QED  BY <1>1, <1>2, <1>3 DEF Rates

LEMMA EvWithIs ==
    ASSUME NEW t \in Nat, t = worth.transition, NEW w \in Rates, NEW exit, NEW ebitda, NEW percent
    PROVE  \E s \in Shifted(t, w) :
              EvWith(exit, w, ebitda, percent)
                = Percent(worth.explicit + s, percent) + Discounted(exit * ebitda, w, 10)
<1> DEFINE V == Shifted(t, w)
           step == [n \in 1..7 |-> [v \in V |-> Shift(v, w)]]
           Runs(f) == f = [n \in 0..7 |-> IF n = 0 THEN worth.transition ELSE (f[n - 1] * (1000 + Wacc)) \div (1000 + w)]
           Scaled == CHOOSE f : Runs(f)
           seven == 7
<1>1. t \in V
  BY SMT DEF Shifted
<1>2. \A v \in V : Shift(v, w) \in V
  BY ShiftKeeps
<1> HIDE DEF V
<1>3. seven \in Nat /\ step \in StepsOf(V, seven)
  BY <1>2 DEF StepsOf
<1>4. \A n \in 1..7, v \in V : step[n][v] = Shift(v, w)
  OBVIOUS
<1> HIDE DEF step, seven
<1>5. PICK f : IsRun(f, V, seven, t, step)
  BY <1>1, <1>3, RecursionExists
<1>6. f \in [0..7 -> V] /\ f[0] = t /\ \A n \in 1..7 : f[n] = step[n][f[n - 1]]
  BY <1>5 DEF IsRun, seven
<1>7. \A n \in 1..7 : f[n - 1] \in V
  BY <1>6
<1>8. \A n \in 1..7 : f[n] = Shift(f[n - 1], w)
  BY <1>4, <1>6, <1>7
<1>9. Runs(f)
  BY <1>6, <1>8 DEF Shift
<1> HIDE DEF Runs
<1>10. Runs(Scaled)
  BY <1>9
<1> USE DEF Runs
<1>11. EvWith(exit, w, ebitda, percent)
          = Percent(worth.explicit + Scaled[7], percent) + Discounted(exit * ebitda, w, 10)
  BY DEF EvWith
<1> HIDE DEF Scaled
<1>12. Scaled[0] = t /\ \A n \in 1..7 : Scaled[n] = Shift(Scaled[n - 1], w)
  <2>1. Scaled = [n \in 0..7 |-> IF n = 0 THEN t ELSE Shift(Scaled[n - 1], w)]
    BY <1>10 DEF Shift
  <2> HIDE DEF Runs
  <2> QED  BY <2>1
<1> HIDE DEF Runs
<1>13. \A n \in 0..seven : Scaled[n] \in V
  <2>1. Scaled[0] \in V /\ \A n \in 1..seven : Scaled[n - 1] \in V => Scaled[n] \in V
    BY <1>1, <1>2, <1>12 DEF seven
  <2> QED  BY <1>3, <2>1, RecursionKeeps
<1>14. Scaled[7] \in V
  BY <1>13 DEF seven
<1> QED  BY <1>11, <1>14 DEF V

LEMMA MoreIsWorthMore ==
    ASSUME NEW x \in Nat, NEW y \in Nat, y >= x + 24
    PROVE  /\ Discounted(x, Wacc, 10) \in Nat /\ Discounted(y, Wacc, 10) \in Nat
           /\ Discounted(x, Wacc, 10) < Discounted(y, Wacc, 10)
<1>1. Wacc \in Rates
  BY DEF Rates, Wacc
<1>2. OneYear(24, 175) = 20
  BY SMT DEF OneYear
<1>3. OneYear(y, Wacc) >= OneYear(x, Wacc) + 20
  BY SMT DEF OneYear, Wacc
<1> QED  BY <1>1, <1>3, TenYearsKeepMargin, SMT DEF Wacc

------------------------------------------------------------------------------
(* The four drivers of the value: b is what comes before the exit, r the    *)
(* rounded EBITDA.                                                          *)
LEMMA ExitBrackets ==
    ASSUME NEW e \in Nat, NEW r \in Nat, e >= 30000, e <= r + 500, r <= e + 500
    PROVE  /\ Discounted(13 * Percent(r, 75), Wacc, 10) < Discounted(13 * e, Wacc, 10)
           /\ Discounted(13 * e, Wacc, 10) < Discounted(13 * Percent(r, 125), Wacc, 10)
           /\ Discounted(8 * r, Wacc, 10) < Discounted(13 * e, Wacc, 10)
           /\ Discounted(13 * e, Wacc, 10) < Discounted(18 * r, Wacc, 10)
           /\ Discounted(13 * Percent(r, 75), Wacc, 10) \in Int /\ Discounted(13 * Percent(r, 125), Wacc, 10) \in Int
           /\ Discounted(8 * r, Wacc, 10) \in Int /\ Discounted(18 * r, Wacc, 10) \in Int
<1> DEFINE less == Percent(r, 75)
           more == Percent(r, 125)
           y == 13 * e     a == 13 * less     b == 13 * more     c == 8 * r     d == 18 * r
<1>1. less \in Nat /\ more \in Nat /\ e >= less + 10 /\ more >= e + 10
  BY SMT DEF Percent
<1> HIDE DEF less, more
<1>2. /\ y \in Nat /\ a \in Nat /\ b \in Nat /\ c \in Nat /\ d \in Nat
      /\ y >= a + 24 /\ b >= y + 24 /\ y >= c + 24 /\ d >= y + 24
  BY <1>1, SMT
<1> HIDE DEF y, a, b, c, d
<1>3. /\ Discounted(a, Wacc, 10) < Discounted(y, Wacc, 10) /\ Discounted(a, Wacc, 10) \in Nat
      /\ Discounted(y, Wacc, 10) < Discounted(b, Wacc, 10) /\ Discounted(b, Wacc, 10) \in Nat
      /\ Discounted(c, Wacc, 10) < Discounted(y, Wacc, 10) /\ Discounted(c, Wacc, 10) \in Nat
      /\ Discounted(y, Wacc, 10) < Discounted(d, Wacc, 10) /\ Discounted(d, Wacc, 10) \in Nat
  BY <1>2, MoreIsWorthMore
<1> QED  BY <1>3 DEF y, a, b, c, d, less, more

LEMMA CashBrackets ==
    ASSUME NEW e \in Nat, NEW r \in Nat, e >= 30000, e <= r + 500, r <= e + 500,
           NEW s \in Int, s >= 8000
    PROVE  /\ Percent(s, 80) + Discounted(13 * r, Wacc, 10) < s + Discounted(13 * e, Wacc, 10)
           /\ s + Discounted(13 * e, Wacc, 10) < Percent(s, 120) + Discounted(13 * r, Wacc, 10)
<1> DEFINE x == 13 * e     y == 13 * r
           dx == Discounted(x, Wacc, 10)     dy == Discounted(y, Wacc, 10)
<1>1. x \in Nat /\ y \in Nat /\ y <= x + 6500 /\ x <= y + 6500
  BY SMT
<1> HIDE DEF x, y
<1>2. dy <= dx + 1542 /\ dx <= dy + 1542
  BY <1>1, TenYearsAddLittle
<1>3. dx \in Int /\ dy \in Int
  <2>1. \A years \in Nat : Discounted(x, Wacc, years) \in Int /\ Discounted(y, Wacc, years) \in Int
    BY <1>1, DiscountedIsWhole
  <2> QED  BY <2>1
<1> HIDE DEF dx, dy
<1>4. /\ Percent(s, 80) \in Int /\ Percent(s, 80) + 1600 <= s
      /\ Percent(s, 120) \in Int /\ Percent(s, 120) >= s + 1600
  BY SMT DEF Percent
<1>5. /\ Percent(s, 80) + dy < s + dx
      /\ s + dx < Percent(s, 120) + dy
  BY <1>2, <1>3, <1>4, SMT
<1> QED  BY <1>5 DEF dx, dy, x, y

LEMMA RateBrackets ==
    ASSUME NEW e \in Nat, NEW r \in Nat, e >= 30000, e <= r + 500, r <= e + 500
    PROVE  /\ Discounted(13 * r, Wacc + 20, 10) < Discounted(13 * e, Wacc, 10)
           /\ Discounted(13 * e, Wacc, 10) < Discounted(13 * r, Wacc - 20, 10)
           /\ Discounted(13 * r, Wacc + 20, 10) \in Int /\ Discounted(13 * r, Wacc - 20, 10) \in Int
<1> DEFINE x == 13 * e     y == 13 * r    up == Wacc + 20   down == Wacc - 20
<1>1. x \in Nat /\ y \in Nat
  BY SMT
<1>2. OneYear(x, Wacc) >= OneYear(y, up) + 20
  BY SMT DEF OneYear, Wacc
<1>3. OneYear(y, down) >= OneYear(x, Wacc) + 20
  BY SMT DEF OneYear, Wacc
<1>4. up \in Rates /\ down \in Rates /\ Wacc \in Rates /\ down <= Wacc /\ Wacc <= up
  BY SMT DEF Rates, Wacc
<1> HIDE DEF x, y, up, down
<1>5. /\ Discounted(y, up, 10) < Discounted(x, Wacc, 10) /\ Discounted(y, up, 10) \in Nat
      /\ Discounted(x, Wacc, 10) < Discounted(y, down, 10) /\ Discounted(y, down, 10) \in Nat
  BY <1>1, <1>2, <1>3, <1>4, TenYearsKeepMargin
<1> QED  BY <1>5 DEF x, y, up, down

(* A valuation of a plan that comes to something.                           *)
IsSound(w) ==
    /\ w.explicit \in Int /\ w.transition \in Nat /\ w.ebitda \in Nat
    /\ w.twoStage = w.explicit + w.transition + Discounted(ExitMultiple * w.ebitda, Wacc, 10)
    /\ w.ebitda >= 30000 /\ w.explicit + w.transition >= 8000

Brackets(row, base) ==
    row.low \in Int /\ row.high \in Int /\ row.low < base /\ base < row.high

LEMMA ValuesBracketTheBase ==
    ASSUME IsSound(worth), NEW row \in ValueDrivers
    PROVE  Brackets(row, worth.twoStage)
<1> DEFINE e == worth.ebitda   x == worth.explicit   t == worth.transition
           r == RoundedEbitda  s == x + t            y == Discounted(13 * e, Wacc, 10)
           base == worth.twoStage
<1>1. /\ e \in Nat /\ x \in Int /\ t \in Nat /\ s \in Int /\ s = x + t
      /\ e >= 30000 /\ s >= 8000 /\ base = s + y
  BY DEF IsSound, ExitMultiple
<1>2. y \in Nat
  <2>1. 13 * e \in Int /\ 13 * e >= 0
    BY <1>1
  <2>2. \A years \in Nat : Discounted(13 * e, Wacc, years) \in Int /\ Discounted(13 * e, Wacc, years) >= 0
    BY <2>1, DiscountedIsWhole
  <2> QED  BY <2>2
<1>3. r \in Nat /\ e <= r + 500 /\ r <= e + 500
  BY <1>1, SMT DEF RoundedEbitda
<1>4. t = worth.transition /\ x = worth.explicit
  OBVIOUS
<1> HIDE DEF e, x, t, r, s, y, base
<1>5. ASSUME NEW exit, NEW ebitda, NEW percent
      PROVE  EvWith(exit, Wacc, ebitda, percent) = Percent(s, percent) + Discounted(exit * ebitda, Wacc, 10)
  <2>1. Wacc \in Rates /\ Wacc = 155
    BY DEF Rates, Wacc
  <2>2. PICK v \in Shifted(t, Wacc) :
              EvWith(exit, Wacc, ebitda, percent)
                = Percent(worth.explicit + v, percent) + Discounted(exit * ebitda, Wacc, 10)
    BY <1>1, <1>4, <2>1, EvWithIs
  <2>3. v = t
    BY <2>1 DEF Shifted
  <2> QED  BY <1>1, <1>4, <2>2, <2>3
<1>6. \A v \in Int : Percent(v, 100) = v
  BY SMT DEF Percent
<1>7. CASE row.param = "ebitda"
  <2>1. row = Row("ebitda", EvWith(ExitMultiple, Wacc, Percent(r, 75), 100),
                            EvWith(ExitMultiple, Wacc, Percent(r, 125), 100))
    BY <1>7 DEF ValueDrivers, Row, r
  <2>2. /\ row.low = s + Discounted(13 * Percent(r, 75), Wacc, 10)
        /\ row.high = s + Discounted(13 * Percent(r, 125), Wacc, 10)
    BY <1>1, <1>5, <1>6, <2>1 DEF Row, ExitMultiple
  <2>3. /\ Discounted(13 * Percent(r, 75), Wacc, 10) < y /\ y < Discounted(13 * Percent(r, 125), Wacc, 10)
        /\ Discounted(13 * Percent(r, 75), Wacc, 10) \in Int /\ Discounted(13 * Percent(r, 125), Wacc, 10) \in Int
    BY <1>1, <1>3, ExitBrackets DEF y
  <2> QED  BY <1>1, <1>2, <2>2, <2>3 DEF Brackets, base
<1>8. CASE row.param = "exit"
  <2>1. row = Row("exit", EvWith(ExitMultiple - 5, Wacc, r, 100), EvWith(ExitMultiple + 5, Wacc, r, 100))
    BY <1>8 DEF ValueDrivers, Row, r
  <2>2. ExitMultiple - 5 = 8 /\ ExitMultiple + 5 = 18
    BY DEF ExitMultiple
  <2>3. row.low = s + Discounted(8 * r, Wacc, 10) /\ row.high = s + Discounted(18 * r, Wacc, 10)
    BY <1>1, <1>5, <1>6, <2>1, <2>2 DEF Row
  <2>4. /\ Discounted(8 * r, Wacc, 10) < y /\ y < Discounted(18 * r, Wacc, 10)
        /\ Discounted(8 * r, Wacc, 10) \in Int /\ Discounted(18 * r, Wacc, 10) \in Int
    BY <1>1, <1>3, ExitBrackets DEF y
  <2> QED  BY <1>1, <1>2, <2>3, <2>4 DEF Brackets, base
<1>9. CASE row.param = "fcf"
  <2>1. row = Row("fcf", EvWith(ExitMultiple, Wacc, r, 80), EvWith(ExitMultiple, Wacc, r, 120))
    BY <1>9 DEF ValueDrivers, Row, r
  <2> DEFINE low == Percent(s, 80) + Discounted(13 * r, Wacc, 10)
             high == Percent(s, 120) + Discounted(13 * r, Wacc, 10)
  <2>2. row.low = low /\ row.high = high
    BY <1>5, <2>1 DEF Row, ExitMultiple
  <2>3. low < s + y /\ s + y < high
    BY <1>1, <1>3, CashBrackets DEF y
  <2>4. low \in Int /\ high \in Int
    <3>1. 13 * r \in Int
      BY <1>3
    <3>2. \A years \in Nat : Discounted(13 * r, Wacc, years) \in Int
      BY <3>1, DiscountedIsWhole
    <3>3. \A p \in Nat : Percent(s, p) \in Int
      BY <1>1, PartsAreWhole
    <3> QED  BY <3>2, <3>3
  <2> HIDE DEF low, high
  <2> QED  BY <1>1, <2>2, <2>3, <2>4 DEF Brackets, base
<1>10. CASE row.param = "wacc"
  <2>1. row = Row("wacc", EvWith(ExitMultiple, Wacc + 20, r, 100), EvWith(ExitMultiple, Wacc - 20, r, 100))
    BY <1>10 DEF ValueDrivers, Row, r
  <2>2. /\ Wacc + 20 \in Rates /\ Wacc + 20 = 175
        /\ Wacc - 20 \in Rates /\ Wacc - 20 = 135
    BY DEF Rates, Wacc
  <2>3. ASSUME NEW w \in Rates
        PROVE  \E v \in Shifted(t, w) :
                  EvWith(ExitMultiple, w, r, 100)
                    = Percent(worth.explicit + v, 100) + Discounted(ExitMultiple * r, w, 10)
    BY <1>1, <1>4, EvWithIs
  <2>4. PICK u \in Shifted(t, Wacc + 20) :
              EvWith(ExitMultiple, Wacc + 20, r, 100)
                = Percent(worth.explicit + u, 100) + Discounted(ExitMultiple * r, Wacc + 20, 10)
    BY <2>2, <2>3
  <2>5. PICK v \in Shifted(t, Wacc - 20) :
              EvWith(ExitMultiple, Wacc - 20, r, 100)
                = Percent(worth.explicit + v, 100) + Discounted(ExitMultiple * r, Wacc - 20, 10)
    BY <2>2, <2>3
  <2>6. u \in Nat /\ u <= t /\ v \in Nat /\ v >= t
    BY <2>2 DEF Shifted
  <2>7. /\ row.low = x + u + Discounted(13 * r, Wacc + 20, 10)
        /\ row.high = x + v + Discounted(13 * r, Wacc - 20, 10)
    BY <1>1, <1>4, <1>6, <2>1, <2>4, <2>5, <2>6 DEF Row, ExitMultiple
  <2> DEFINE low == Discounted(13 * r, Wacc + 20, 10)     high == Discounted(13 * r, Wacc - 20, 10)
  <2>8. low < y /\ y < high /\ low \in Int /\ high \in Int
    BY <1>1, <1>3, RateBrackets DEF y
  <2> HIDE DEF low, high
  <2>9. x + u + low < s + y /\ s + y < x + v + high /\ x + u + low \in Int /\ x + v + high \in Int
    BY <1>1, <1>2, <2>6, <2>8
  <2> QED  BY <1>1, <2>7, <2>9 DEF Brackets, base, low, high
<1> QED  BY <1>7, <1>8, <1>9, <1>10 DEF ValueDrivers, Row

LEMMA RevenuesBracketTheBase ==
    ASSUME NEW row \in RevenueDrivers
    PROVE  Brackets(row, ArpuOf(Prices, Mixes))
<1>1. ArpuOf(Prices, Mixes) = 110646
  BY SMT DEF ArpuOf, Prices, Mixes
<1>2. ASSUME NEW name \in {"Enterprise", "Pro", "Starter"},
             row = [param |-> <<name, "price">>, low |-> ArpuOf(Priced(name, 80), Mixes),
                    high |-> ArpuOf(Priced(name, 120), Mixes)]
      PROVE  Brackets(row, 110646)
  <2>1. CASE name = "Enterprise"
    BY <1>2, <2>1, SMT DEF Brackets, ArpuOf, Priced, Prices, Mixes, Percent
  <2>2. CASE name = "Pro"
    BY <1>2, <2>2, SMT DEF Brackets, ArpuOf, Priced, Prices, Mixes, Percent
  <2>3. CASE name = "Starter"
    BY <1>2, <2>3, SMT DEF Brackets, ArpuOf, Priced, Prices, Mixes, Percent
  <2> QED  BY <2>1, <2>2, <2>3
<1>3. ASSUME \/ row = [param |-> <<"Enterprise", "mix">>,
                       low   |-> ArpuOf(Prices, [Mixes EXCEPT !.Enterprise = 3, !.Starter = 70]),
                       high  |-> ArpuOf(Prices, [Mixes EXCEPT !.Enterprise = 7, !.Starter = 66])]
             \/ row = [param |-> <<"Pro", "mix">>,
                       low   |-> ArpuOf(Prices, [Mixes EXCEPT !.Pro = 22, !.Starter = 73]),
                       high  |-> ArpuOf(Prices, [Mixes EXCEPT !.Pro = 32, !.Starter = 63])]
      PROVE  Brackets(row, 110646)
  BY <1>3, SMT DEF Brackets, ArpuOf, Prices, Mixes
<1> QED  BY <1>1, <1>2, <1>3 DEF RevenueDrivers

(* The rows of a table can be put in the order of their spreads: the rows   *)
(* without the one of the least spread, and then that one.                  *)
InOrder(s, n, rows) ==
    /\ s \in [1..n -> rows] /\ IsInjective(s)
    /\ \A i, j \in DOMAIN s : i < j => Spread(s[i]) >= Spread(s[j])

LEMMA OrdersExist ==
    ASSUME NEW rows, IsFiniteSet(rows), \A row \in rows : Spread(row) \in Nat
    PROVE  \E s : InOrder(s, Cardinality(rows), rows)
<1> DEFINE S == {n \in Nat : \A T \in SUBSET rows : Cardinality(T) = n => \E s : InOrder(s, n, T)}
<1>1. 0 \in S
  <2> SUFFICES ASSUME NEW T \in SUBSET rows, Cardinality(T) = 0 PROVE \E s : InOrder(s, 0, T)
    OBVIOUS
  <2> DEFINE s == [i \in 1..0 |-> 0]
  <2>1. DOMAIN s = {} /\ 1..0 = {}
    OBVIOUS
  <2>2. s \in [1..0 -> T]
    OBVIOUS
  <2> HIDE DEF s
  <2>3. InOrder(s, 0, T)
    BY <2>1, <2>2 DEF InOrder, IsInjective
  <2> QED  BY <2>3
<1>2. ASSUME NEW n \in Nat, n \in S PROVE n + 1 \in S
  <2> SUFFICES ASSUME NEW T \in SUBSET rows, Cardinality(T) = n + 1 PROVE \E s : InOrder(s, n + 1, T)
    OBVIOUS
  <2>1. IsFiniteSet(T) /\ T # {}
    <3>1. IsFiniteSet(T)
      BY FS_Subset
    <3>2. T # {}
      BY FS_EmptySet
    <3> QED  BY <3>1, <3>2
  <2> DEFINE spreads == {Spread(row) : row \in T}
  <2>2. PICK least \in T : \A row \in T : Spread(least) <= Spread(row)
    <3>1. spreads \in SUBSET Nat /\ spreads # {}
      BY <2>1
    <3>2. PICK m \in spreads : \A k \in spreads : m <= k
      <4> HIDE DEF spreads
      <4> QED  BY <3>1, LeastElement
    <3> QED  BY <3>2
  <2> DEFINE R == T \ {least}
  <2>3. Cardinality(R) = n /\ R \in SUBSET rows
    <3>1. Cardinality(R) = Cardinality(T) - 1
      BY <2>1, FS_RemoveElement
    <3> QED  BY <3>1
  <2>4. PICK s : InOrder(s, n, R)
    BY <1>2, <2>3
  <2>5. /\ s \in [1..n -> R] /\ DOMAIN s = 1..n
        /\ \A i, j \in 1..n : s[i] = s[j] => i = j
        /\ \A i, j \in 1..n : i < j => Spread(s[i]) >= Spread(s[j])
    BY <2>4 DEF InOrder, IsInjective
  <2> DEFINE t == [i \in 1..(n + 1) |-> IF i = n + 1 THEN least ELSE s[i]]
  <2>6. t \in [1..(n + 1) -> T] /\ t[n + 1] = least /\ \A i \in 1..n : t[i] = s[i] /\ s[i] \in R
    BY <2>5
  <2>7. ASSUME NEW i \in 1..(n + 1), NEW j \in 1..(n + 1)
        PROVE  (t[i] = t[j] => i = j) /\ (i < j => Spread(t[i]) >= Spread(t[j]))
    <3>1. (i \in 1..n \/ i = n + 1) /\ (j \in 1..n \/ j = n + 1)
      OBVIOUS
    <3>2. \A row \in T : Spread(row) \in Nat
      OBVIOUS
    <3> HIDE DEF t
    <3>3. CASE i \in 1..n /\ j \in 1..n
      BY <2>5, <2>6, <3>3
    <3>4. CASE i = n + 1 /\ j \in 1..n
      BY <2>6, <3>4
    <3>5. CASE i \in 1..n /\ j = n + 1
      BY <2>2, <2>6, <3>2, <3>5
    <3>6. CASE i = n + 1 /\ j = n + 1
      BY <3>6
    <3> QED  BY <3>1, <3>3, <3>4, <3>5, <3>6
  <2>8. DOMAIN t = 1..(n + 1)
    OBVIOUS
  <2> HIDE DEF t
  <2>9. InOrder(t, n + 1, T)
    BY <2>6, <2>7, <2>8 DEF InOrder, IsInjective
  <2> QED  BY <2>9
<1> HIDE DEF S
<1>3. Nat \subseteq S
  BY <1>1, <1>2, Induction
<1>4. Cardinality(rows) \in S
  BY <1>3, FS_CardinalityType
<1> QED  BY <1>4 DEF S

LEMMA SortedIsInOrder ==
    ASSUME NEW rows, IsFiniteSet(rows), NEW base, \A row \in rows : Brackets(row, base)
    PROVE  /\ \A i \in DOMAIN Sorted(rows) : Sorted(rows)[i] \in rows
           /\ \A i, j \in DOMAIN Sorted(rows) : i < j => Spread(Sorted(rows)[i]) >= Spread(Sorted(rows)[j])
<1>1. \A row \in rows : Spread(row) \in Nat
  BY SMT DEF Spread, Brackets
<1>2. PICK s : InOrder(s, Cardinality(rows), rows)
  BY <1>1, OrdersExist
<1>3. InOrder(Sorted(rows), Cardinality(rows), rows)
  BY <1>2 DEF InOrder, Sorted
<1> QED  BY <1>3 DEF InOrder

LEMMA DriversAreFew == IsFiniteSet(RevenueDrivers) /\ IsFiniteSet(ValueDrivers)
<1> DEFINE names == {"Enterprise", "Pro", "Starter"}
           f == [name \in names |-> [param |-> <<name, "price">>, low |-> ArpuOf(Priced(name, 80), Mixes),
                                     high |-> ArpuOf(Priced(name, 120), Mixes)]]
           enterprise == [param |-> <<"Enterprise", "mix">>,
                          low   |-> ArpuOf(Prices, [Mixes EXCEPT !.Enterprise = 3, !.Starter = 70]),
                          high  |-> ArpuOf(Prices, [Mixes EXCEPT !.Enterprise = 7, !.Starter = 66])]
           pro == [param |-> <<"Pro", "mix">>,
                   low   |-> ArpuOf(Prices, [Mixes EXCEPT !.Pro = 22, !.Starter = 73]),
                   high  |-> ArpuOf(Prices, [Mixes EXCEPT !.Pro = 32, !.Starter = 63])]
           prices == {f[name] : name \in names}
<1>1. \A a, b, c, d : IsFiniteSet({a, b, c, d})
  <2> TAKE a, b, c, d
  <2>1. IsFiniteSet({a}) /\ IsFiniteSet({b}) /\ IsFiniteSet({c}) /\ IsFiniteSet({d})
    BY FS_Singleton
  <2>2. IsFiniteSet({a} \union {b}) /\ IsFiniteSet({c} \union {d})
    BY <2>1, FS_Union
  <2>3. IsFiniteSet(({a} \union {b}) \union ({c} \union {d}))
    BY <2>2, FS_Union
  <2>4. ({a} \union {b}) \union ({c} \union {d}) = {a, b, c, d}
    OBVIOUS
  <2> QED  BY <2>3, <2>4
<1>2. IsFiniteSet(ValueDrivers)
  BY <1>1 DEF ValueDrivers
<1>3. IsFiniteSet(names)
  <2>1. names = {"Enterprise", "Pro", "Starter", "Starter"}
    OBVIOUS
  <2> QED  BY <1>1, <2>1
<1>4. RevenueDrivers = prices \union {enterprise, pro}
  <2>1. prices = {[param |-> <<name, "price">>, low |-> ArpuOf(Priced(name, 80), Mixes),
                   high |-> ArpuOf(Priced(name, 120), Mixes)] : name \in names}
    OBVIOUS
  <2> HIDE DEF prices, enterprise, pro, f
  <2> QED  BY <2>1 DEF RevenueDrivers, enterprise, pro
<1>5. IsFiniteSet(prices)
  <2>1. DOMAIN f = names
    OBVIOUS
  <2> HIDE DEF f, names
  <2>2. f \in [names -> prices] /\ \A p \in prices : \E name \in names : f[name] = p
    <3>1. f = [name \in names |-> f[name]]
      BY <2>1 DEF f
    <3> QED  BY <3>1
  <2>3. f \in Surjection(names, prices)
    BY <2>2 DEF Surjection
  <2> QED  BY <1>3, <2>3, FS_Surjection
<1> HIDE DEF f, names, enterprise, pro
<1>6. IsFiniteSet({enterprise, pro})
  <2>1. {enterprise, pro} = {enterprise, pro, pro, pro}
    OBVIOUS
  <2> QED  BY <1>1, <2>1
<1> HIDE DEF prices
<1> QED  BY <1>2, <1>4, <1>5, <1>6, FS_Union

(***************************************************************************)
(* A plan that is valued is one of five years' accounts, and the tornado   *)
(* is of what it is worth.                                                 *)
(***************************************************************************)
SoldAsPlanned ==
    /\ sold \in Seq(Nat) /\ Len(sold) <= 5
    /\ \A y \in DOMAIN sold : sold[y] \in Customers[y]

WorthOfThePlan == worth # NotValued => Len(sold) = 5 /\ worth = Worth(sold)

TornadoOfTheWorth ==
    tornado # NoTornado =>
        /\ worth # NotValued
        /\ tornado = [revenue |-> Sorted(RevenueDrivers), value |-> Sorted(ValueDrivers)]

ValuationInv == SoldAsPlanned /\ WorthOfThePlan /\ TornadoOfTheWorth

LEMMA ValuationInitInv == ValuationInit => ValuationInv
<1> SUFFICES ASSUME ValuationInit PROVE ValuationInv
  OBVIOUS
<1>1. sold = << >> /\ worth = NotValued /\ tornado = NoTornado
  BY DEF ValuationInit
<1>2. DOMAIN sold = {} /\ Len(sold) = 0 /\ sold \in Seq(Nat)
  BY <1>1
<1> QED  BY <1>1, <1>2 DEF ValuationInv, SoldAsPlanned, WorthOfThePlan, TornadoOfTheWorth

LEMMA DriversUnchanged == worth' = worth => ValueDrivers' = ValueDrivers
  BY DEF ValueDrivers, EvWith, RoundedEbitda

LEMMA ValuationStepInv == ValuationInv /\ [ValuationNext]_valuationVars => ValuationInv'
<1> SUFFICES ASSUME ValuationInv, [ValuationNext]_valuationVars PROVE ValuationInv'
  OBVIOUS
<1>1. SoldAsPlanned /\ WorthOfThePlan /\ TornadoOfTheWorth
  BY DEF ValuationInv
<1>2. CASE PlanAccounts
  <2>1. Len(sold) < 5 /\ worth' = worth /\ tornado' = tornado
    BY <1>2 DEF PlanAccounts
  <2>2. PICK accounts \in Customers[Len(sold) + 1] : sold' = Append(sold, accounts)
    BY <1>2 DEF PlanAccounts
  <2>3. worth = NotValued /\ tornado = NoTornado
    BY <1>1, <2>1 DEF WorthOfThePlan, TornadoOfTheWorth
  <2>4. accounts \in Nat
    <3>1. Len(sold) + 1 \in 1..5
      BY <1>1, <2>1 DEF SoldAsPlanned
    <3> QED  BY <3>1, PlanAssumption
  <2>5. /\ sold' \in Seq(Nat) /\ Len(sold') = Len(sold) + 1
        /\ sold'[Len(sold) + 1] = accounts /\ \A y \in DOMAIN sold : sold'[y] = sold[y]
        /\ \A y \in DOMAIN sold' : y \in DOMAIN sold \/ y = Len(sold) + 1
    BY <1>1, <2>2, <2>4 DEF SoldAsPlanned
  <2>6. SoldAsPlanned'
    BY <1>1, <2>1, <2>2, <2>5 DEF SoldAsPlanned
  <2> QED  BY <2>1, <2>3, <2>6 DEF ValuationInv, WorthOfThePlan, TornadoOfTheWorth
<1>3. CASE Value
  <2>1. /\ Len(sold) = 5 /\ worth = NotValued /\ worth' = Worth(sold)
        /\ sold' = sold /\ tornado' = tornado
    BY <1>3 DEF Value
  <2>2. tornado' = NoTornado
    BY <1>1, <2>1 DEF TornadoOfTheWorth
  <2>3. SoldAsPlanned'
    BY <1>1, <2>1 DEF SoldAsPlanned
  <2> QED  BY <2>1, <2>2, <2>3 DEF ValuationInv, WorthOfThePlan, TornadoOfTheWorth
<1>4. CASE Perturb
  <2>1. /\ worth # NotValued /\ sold' = sold /\ worth' = worth
        /\ tornado' = [revenue |-> Sorted(RevenueDrivers), value |-> Sorted(ValueDrivers)]
    BY <1>4 DEF Perturb
  <2>2. SoldAsPlanned'
    BY <1>1, <2>1 DEF SoldAsPlanned
  <2> QED  BY <1>1, <2>1, <2>2, DriversUnchanged DEF ValuationInv, WorthOfThePlan, TornadoOfTheWorth
<1>5. CASE UNCHANGED valuationVars
  <2>1. sold' = sold /\ worth' = worth /\ tornado' = tornado
    BY <1>5 DEF valuationVars
  <2>2. SoldAsPlanned'
    BY <1>1, <2>1 DEF SoldAsPlanned
  <2> QED  BY <1>1, <2>1, <2>2, DriversUnchanged DEF ValuationInv, WorthOfThePlan, TornadoOfTheWorth
<1> QED  BY <1>2, <1>3, <1>4, <1>5 DEF ValuationNext

(* The plan that is valued comes to something.                              *)
LEMMA WorthIsSound ==
    ASSUME ValuationInv, worth # NotValued
    PROVE  IsSound(worth)
<1>1. worth = Worth(sold) /\ Len(sold) = 5 /\ SoldAsPlanned
  BY DEF ValuationInv, WorthOfThePlan
<1>2. sold \in Seq(Nat) /\ \A y \in Years : y \in DOMAIN sold /\ sold[y] \in Nat /\ sold[y] \in Customers[y]
  <2>1. /\ sold \in Seq(Nat) /\ Len(sold) = 5 /\ \A y \in DOMAIN sold : sold[y] \in Customers[y]
    BY <1>1 DEF SoldAsPlanned
  <2>2. \A y \in Years : y \in DOMAIN sold
    BY <2>1 DEF Years
  <2>3. \A y \in Years : sold[y] \in Nat
    BY <2>1, <2>2, PlanAssumption DEF Years
  <2> QED  BY <2>1, <2>2, <2>3
<1>3. sold \in AccountPlans
  <2>1. /\ sold[1] \in Customers[1] /\ sold[2] \in Customers[2] /\ sold[3] \in Customers[3]
        /\ sold[4] \in Customers[4] /\ sold[5] \in Customers[5]
    BY <1>2 DEF Years
  <2>2. sold = <<sold[1], sold[2], sold[3], sold[4], sold[5]>>
    BY <1>1, <1>2
  <2> QED  BY <2>1, <2>2 DEF AccountPlans
<1>4. Worth(sold).ebitda >= 30000 /\ Worth(sold).explicit + Worth(sold).transition >= 8000
  BY <1>3, ValuationAssumption
<1>5. LET w == Worth(sold)
      IN  /\ w.explicit \in Int /\ w.transition \in Nat /\ w.ebitda \in Nat
          /\ w.twoStage = w.explicit + w.transition + Discounted(ExitMultiple * w.ebitda, Wacc, 10)
  BY <1>2, WorthIsWhole
<1> QED  BY <1>1, <1>4, <1>5 DEF IsSound

LEMMA InvBracketsTheBase == ValuationInv => DriversBracketTheBase
<1> SUFFICES ASSUME ValuationInv, tornado # NoTornado PROVE DriversBracketTheBase
  BY DEF DriversBracketTheBase
<1>1. /\ worth # NotValued
      /\ tornado.revenue = Sorted(RevenueDrivers) /\ tornado.value = Sorted(ValueDrivers)
  BY DEF ValuationInv, TornadoOfTheWorth
<1>2. \A row \in ValueDrivers : Brackets(row, worth.twoStage)
  BY <1>1, WorthIsSound, ValuesBracketTheBase
<1>3. \A row \in RevenueDrivers : Brackets(row, ArpuOf(Prices, Mixes))
  BY RevenuesBracketTheBase
<1>4. /\ \A i \in DOMAIN tornado.value : tornado.value[i] \in ValueDrivers
      /\ \A i, j \in DOMAIN tornado.value : i < j => Spread(tornado.value[i]) >= Spread(tornado.value[j])
  BY <1>1, <1>2, DriversAreFew, SortedIsInOrder
<1>5. /\ \A i \in DOMAIN tornado.revenue : tornado.revenue[i] \in RevenueDrivers
      /\ \A i, j \in DOMAIN tornado.revenue : i < j => Spread(tornado.revenue[i]) >= Spread(tornado.revenue[j])
  BY <1>1, <1>3, DriversAreFew, SortedIsInOrder
<1>6. \A i \in DOMAIN tornado.value : Brackets(tornado.value[i], worth.twoStage)
  BY <1>2, <1>4
<1>7. \A i \in DOMAIN tornado.revenue : Brackets(tornado.revenue[i], ArpuOf(Prices, Mixes))
  BY <1>3, <1>5
<1> QED  BY <1>4, <1>5, <1>6, <1>7 DEF DriversBracketTheBase, Brackets

(* Every driver of the tornado brackets the base, the widest first, for     *)
(* every plan that comes to something (15_sensitivity_analysis.py:81-95).   *)
THEOREM TornadoBracketsTheBase == ValuationSpec => []DriversBracketTheBase
  BY ValuationInitInv, ValuationStepInv, InvBracketsTheBase, PTL DEF ValuationSpec

------------------------------------------------------------------------------
(***************************************************************************)
(* MCBusiness.  One model lives in a behaviour: a step of the businesses   *)
(* is a step of that one and leaves the others alone.                      *)
(***************************************************************************)
LEMMA BusinessLives ==
    ASSUME BusinessNext
    PROVE  /\ [RunnerNext]_runnerVars /\ [DocumentNext]_documentVars
           /\ [PlanNext]_planVars /\ [SuppressionNext]_suppressionVars
           /\ [RunwayNext]_runwayVars /\ [KellyNext]_kellyVars
           /\ [BacktestNext]_backtestVars /\ [CapacityNext]_capacityVars
           /\ [ValuationNext]_valuationVars
  BY DEF BusinessNext

LEMMA BusinessStepsAreTheirs ==
    ASSUME [BusinessNext]_businessVars
    PROVE  /\ [RunnerNext]_runnerVars /\ [DocumentNext]_documentVars
           /\ [PlanNext]_planVars /\ [SuppressionNext]_suppressionVars
           /\ [RunwayNext]_runwayVars /\ [KellyNext]_kellyVars
           /\ [BacktestNext]_backtestVars /\ [CapacityNext]_capacityVars
           /\ [ValuationNext]_valuationVars
<1>1. CASE BusinessNext
  BY <1>1, BusinessLives
<1>2. CASE UNCHANGED businessVars
  BY <1>2 DEF businessVars
<1> QED  BY <1>1, <1>2

LEMMA PartsOfTheBusiness ==
    BusinessSpec => /\ RunnerSpec /\ DocumentSpec /\ PlanSpec /\ SuppressionSpec
                    /\ RunwaySpec /\ KellySpec /\ BacktestSpec /\ CapacitySpec
                    /\ ValuationSpec
<1>1. BusinessInit => /\ RunnerInit /\ DocumentInit /\ PlanInit /\ SuppressionInit
                      /\ RunwayInit /\ KellyInit /\ BacktestInit /\ CapacityInit
                      /\ ValuationInit
  BY DEF BusinessInit
<1> QED  BY <1>1, BusinessStepsAreTheirs, PTL
         DEF BusinessSpec, RunnerSpec, DocumentSpec, PlanSpec, SuppressionSpec, RunwaySpec, KellySpec,
             BacktestSpec, CapacitySpec, ValuationSpec

(* The careful scenario never has the larger cash and the careful persona   *)
(* never the larger position, for any users, rounds and opportunities       *)
(* (08_funding_runway.py:30-33, 09_user_profile_kelly.py:25-26).            *)
THEOREM CarefulGainsNoMore == BusinessSpec => []CautionNeverGainsMore
  BY PartsOfTheBusiness, RunwayStaysOrdered, SizingStaysOrdered, PTL DEF CautionNeverGainsMore

(* The figures of the plans are what their definitions say, for all         *)
(* windows, deals, loads that grow sublinearly and plans that come to       *)
(* something (06_dedup_suppression_sim.py:48-64,                            *)
(* 05_signal_quality_backtest.py:52-68,                                     *)
(* 05_alerts_capacity_erlangc.py:48-59, 15_sensitivity_analysis.py:81-95).  *)
THEOREM FiguresHold == BusinessSpec => []FiguresAreSound
  BY PartsOfTheBusiness, SuppressionStaysBounded, RankingHolds, FewestReviewersAreSettled,
     TornadoBracketsTheBase, PTL DEF FiguresAreSound

=============================================================================
