---------------------------- MODULE PlatformProofs ----------------------------
(***************************************************************************)
(* The parts of the platform that MCPlatform lets live one at a time, each *)
(* for every value of its constants.                                       *)
(***************************************************************************)
EXTENDS MCPlatform, AlertLifecycleProofs, BusinessProofs, TLAPS

(***************************************************************************)
(* FusionWeights.  LenientScore for every choice of weights, floor and     *)
(* unit.  Each vote is split into the plain weight and a bonus: what a     *)
(* strong channel has over its plain weight.  The bonuses belong to        *)
(* signals at or above the floor, the rest to signals under it, so the     *)
(* bonus only moves the mean up.                                           *)
(***************************************************************************)
Weak(f, c) == f[c] < Floor

(* Weights, and weighted signals, of the strong and of the weak channels. *)
StrongWeight(f) == [c \in Signal |-> IF Weak(f, c) THEN 0 ELSE Weight[c]]
WeakWeight(f)   == [c \in Signal |-> IF Weak(f, c) THEN Weight[c] ELSE 0]
StrongSum(f)    == [c \in Signal |-> IF Weak(f, c) THEN 0 ELSE Weight[c] * f[c]]
WeakSum(f)      == [c \in Signal |-> IF Weak(f, c) THEN Weight[c] * f[c] ELSE 0]

(* Products of whole numbers keep an order. *)
LEMMA TimesKeepsOrder ==
    ASSUME NEW a \in Int, NEW b \in Int, NEW k \in Nat, a <= b
    PROVE  k * a <= k * b
<1>1. k * (b - a) >= 0  BY SMT
<1>2. k * (b - a) = k * b - k * a  BY SMT
<1> QED  BY <1>1, <1>2, SMT

(* The arithmetic of the argument: with w the weak and s the strong weight,*)
(* l and h their weighted signals, adding s voices and h votes to the plain *)
(* ones does not lower the mean.                                            *)
LEMMA BonusLiftsMean ==
    ASSUME NEW s \in Nat, NEW u \in Nat, NEW h \in Int, NEW l \in Int, NEW k \in Int,
           h >= k * s, l <= k * u
    PROVE  (l + h + h) * (s + u) >= (l + h) * (s + u + s)
<1>1. u * (k * s) <= u * h  BY TimesKeepsOrder
<1>2. s * l <= s * (k * u)  BY TimesKeepsOrder
<1>3. u * (k * s) = s * (k * u)  BY SMT
<1>4. (l + h + h) * (s + u) = (l + h) * (s + u) + (h * s + h * u)  BY SMT
<1>5. (l + h) * (s + u + s) = (l + h) * (s + u) + (l * s + h * s)  BY SMT
<1>6. u * h = h * u /\ s * l = l * s  BY SMT
<1>7. u * h \in Int /\ s * l \in Int /\ h * s \in Int /\ (l + h) * (s + u) \in Int
      /\ u * (k * s) \in Int  BY SMT
<1>8. l * s <= h * u  BY <1>1, <1>2, <1>3, <1>6, <1>7, SMT
<1> QED  BY <1>4, <1>5, <1>6, <1>7, <1>8, SMT

(* Sums over the channels: they add up, keep an order, and are numbers. *)
LEMMA SumAdds ==
    ASSUME NEW f \in [Signal -> Int], NEW g \in [Signal -> Int], NEW h \in [Signal -> Int],
           \A c \in Signal : h[c] = f[c] + g[c]
    PROVE  Sum6(h) = Sum6(f) + Sum6(g)
BY SMT DEF Sum6, Signal

LEMMA SumIsNat ==
    ASSUME NEW f \in [Signal -> Nat]
    PROVE  Sum6(f) \in Nat
BY SMT DEF Sum6, Signal

LEMMA SumIsInt ==
    ASSUME NEW f \in [Signal -> Int]
    PROVE  Sum6(f) \in Int
BY SMT DEF Sum6, Signal

LEMMA SumKeepsOrder ==
    ASSUME NEW k \in Int, NEW f \in [Signal -> Int], NEW g \in [Signal -> Int],
           \A c \in Signal : f[c] <= k * g[c]
    PROVE  Sum6(f) <= k * Sum6(g)
<1> DEFINE kg == [c \in Signal |-> k * g[c]]
<1>1. kg \in [Signal -> Int]  BY SMT
<1>2. Sum6(kg) = k * Sum6(g)
  BY SMT DEF Sum6, Signal
<1>3. Sum6(f) <= Sum6(kg)
  <2>1. \A c \in Signal : f[c] <= kg[c]  OBVIOUS
  <2> HIDE DEF kg
  <2> QED  BY <1>1, <2>1, SMT DEF Sum6, Signal
<1> QED  BY <1>2, <1>3

LEMMA SumKeepsOrderBelow ==
    ASSUME NEW k \in Int, NEW f \in [Signal -> Int], NEW g \in [Signal -> Int],
           \A c \in Signal : f[c] >= k * g[c]
    PROVE  Sum6(f) >= k * Sum6(g)
<1> DEFINE kg == [c \in Signal |-> k * g[c]]
<1>1. kg \in [Signal -> Int]  BY SMT
<1>2. Sum6(kg) = k * Sum6(g)
  BY SMT DEF Sum6, Signal
<1>3. Sum6(f) >= Sum6(kg)
  <2>1. \A c \in Signal : f[c] >= kg[c]  OBVIOUS
  <2> HIDE DEF kg
  <2> QED  BY <1>1, <2>1, SMT DEF Sum6, Signal
<1> QED  BY <1>2, <1>3
------------------------------------------------------------------------------
(* What one channel contributes, strong or weak. *)
LEMMA ChannelParts ==
    ASSUME NEW f \in Frames, Valid(f)
    PROVE  /\ StrongWeight(f) \in [Signal -> Nat] /\ WeakWeight(f) \in [Signal -> Nat]
           /\ StrongSum(f) \in [Signal -> Int] /\ WeakSum(f) \in [Signal -> Int]
           /\ \A c \in Signal :
                 /\ Weight[c] = WeakWeight(f)[c] + StrongWeight(f)[c]
                 /\ Weight[c] * f[c] = WeakSum(f)[c] + StrongSum(f)[c]
                 /\ Vote(f, c) = Weight[c] + StrongWeight(f)[c]
                 /\ Vote(f, c) * f[c] = Weight[c] * f[c] + StrongSum(f)[c]
                 /\ StrongSum(f)[c] >= Floor * StrongWeight(f)[c]
                 /\ WeakSum(f)[c] <= Floor * WeakWeight(f)[c]
<1>1. \A c \in Signal : f[c] \in 0..Unit /\ f[c] \in Int /\ Weight[c] \in Nat /\ Weight[c] * f[c] \in Int
  BY FusionAssumption, SMT DEF Valid
<1>2. Floor \in Int  BY FusionAssumption, SMT
<1>3. StrongWeight(f) \in [Signal -> Nat] /\ WeakWeight(f) \in [Signal -> Nat]
  BY <1>1, SMT DEF StrongWeight, WeakWeight
<1>4. StrongSum(f) \in [Signal -> Int] /\ WeakSum(f) \in [Signal -> Int]
  BY <1>1, SMT DEF StrongSum, WeakSum
<1>5. ASSUME NEW c \in Signal
      PROVE  /\ Weight[c] = WeakWeight(f)[c] + StrongWeight(f)[c]
             /\ Weight[c] * f[c] = WeakSum(f)[c] + StrongSum(f)[c]
             /\ Vote(f, c) = Weight[c] + StrongWeight(f)[c]
             /\ Vote(f, c) * f[c] = Weight[c] * f[c] + StrongSum(f)[c]
             /\ StrongSum(f)[c] >= Floor * StrongWeight(f)[c]
             /\ WeakSum(f)[c] <= Floor * WeakWeight(f)[c]
  <2>1. CASE Weak(f, c)
    <3>1. Weight[c] * f[c] <= Weight[c] * Floor
      BY <1>1, <1>2, <2>1, TimesKeepsOrder, SMT DEF Weak
    <3>2. Weight[c] * Floor = Floor * Weight[c]
      BY <1>1, <1>2, SMT
    <3>3. StrongWeight(f)[c] = 0 /\ StrongSum(f)[c] = 0 /\ WeakWeight(f)[c] = Weight[c]
          /\ WeakSum(f)[c] = Weight[c] * f[c] /\ Vote(f, c) = Weight[c]
      BY <2>1 DEF StrongWeight, StrongSum, WeakWeight, WeakSum, Vote, Weak
    <3> QED  BY <1>1, <1>2, <3>1, <3>2, <3>3, SMT
  <2>2. CASE ~Weak(f, c)
    <3>1. Weight[c] * Floor <= Weight[c] * f[c]
      BY <1>1, <1>2, <2>2, TimesKeepsOrder, SMT DEF Weak
    <3>2. Weight[c] * Floor = Floor * Weight[c] /\ (2 * Weight[c]) * f[c] = Weight[c] * f[c] + Weight[c] * f[c]
      BY <1>1, <1>2, SMT
    <3>3. StrongWeight(f)[c] = Weight[c] /\ StrongSum(f)[c] = Weight[c] * f[c] /\ WeakWeight(f)[c] = 0
          /\ WeakSum(f)[c] = 0 /\ Vote(f, c) = 2 * Weight[c]
      BY <2>2 DEF StrongWeight, StrongSum, WeakWeight, WeakSum, Vote, Weak
    <3> QED  BY <1>1, <1>2, <3>1, <3>2, <3>3, SMT
  <2> QED  BY <2>1, <2>2
<1> QED  BY <1>3, <1>4, <1>5

(* The score of a valid frame is a fraction from 0 to 1, and no less than   *)
(* the plainly weighted one.                                                *)
LEMMA ScoreOfValidFrame ==
    ASSUME NEW f \in Frames, Valid(f)
    PROVE  /\ Votes(f) \in 0..(Unit * Voices(f))
           /\ Votes(f) * Sum6(Weight) >= Plain(f) * Voices(f)
<1> DEFINE vote     == [c \in Signal |-> Vote(f, c)]
           votes    == [c \in Signal |-> Vote(f, c) * f[c]]
           weighted == [c \in Signal |-> Weight[c] * f[c]]
           s == Sum6(StrongWeight(f))
           u == Sum6(WeakWeight(f))
           h == Sum6(StrongSum(f))
           l == Sum6(WeakSum(f))
<1>1. /\ \A c \in Signal : f[c] \in 0..Unit /\ Vote(f, c) \in Nat /\ Weight[c] * f[c] \in Int
      /\ Weight \in [Signal -> Int] /\ Unit \in Int /\ Floor \in Int
  BY FusionAssumption, SMT DEF Valid, Vote
<1>2. vote \in [Signal -> Int] /\ votes \in [Signal -> Int] /\ weighted \in [Signal -> Int]
  BY <1>1, SMT
<1>3. s \in Nat /\ u \in Nat /\ h \in Int /\ l \in Int
  BY ChannelParts, SumIsNat, SumIsInt
<1>4. Sum6(Weight) = u + s /\ Sum6(weighted) = l + h
  <2>1. \A c \in Signal : weighted[c] = WeakSum(f)[c] + StrongSum(f)[c]  BY ChannelParts
  <2>2. Sum6(weighted) = l + h  BY <1>2, <2>1, ChannelParts, SumAdds
  <2>3. /\ StrongWeight(f) \in [Signal -> Int] /\ WeakWeight(f) \in [Signal -> Int]
        /\ \A c \in Signal : Weight[c] = WeakWeight(f)[c] + StrongWeight(f)[c]
    BY ChannelParts, SMT
  <2>4. Sum6(Weight) = u + s  BY <1>1, <2>3, SumAdds
  <2> QED  BY <2>2, <2>4
<1>5. Voices(f) = Sum6(Weight) + s
  <2>1. /\ StrongWeight(f) \in [Signal -> Int]
        /\ \A c \in Signal : vote[c] = Weight[c] + StrongWeight(f)[c]
    BY ChannelParts, SMT
  <2>2. Sum6(vote) = Sum6(Weight) + s  BY <1>1, <1>2, <2>1, SumAdds
  <2> QED  BY <2>2 DEF Voices
<1>6. Votes(f) = Sum6(weighted) + h
  <2>1. \A c \in Signal : votes[c] = weighted[c] + StrongSum(f)[c]  BY ChannelParts
  <2>2. Sum6(votes) = Sum6(weighted) + h  BY <1>2, <2>1, ChannelParts, SumAdds
  <2> QED  BY <2>2 DEF Votes
<1>7. h >= Floor * s /\ l <= Floor * u
  <2>1. /\ StrongWeight(f) \in [Signal -> Int] /\ WeakWeight(f) \in [Signal -> Int]
        /\ \A c \in Signal : StrongSum(f)[c] >= Floor * StrongWeight(f)[c]
                             /\ WeakSum(f)[c] <= Floor * WeakWeight(f)[c]
    BY ChannelParts, SMT
  <2> QED  BY <1>1, <2>1, ChannelParts, SumKeepsOrder, SumKeepsOrderBelow
<1>8. Plain(f) = Sum6(weighted)  BY DEF Plain
<1>9. Votes(f) * Sum6(Weight) >= Plain(f) * Voices(f)
  <2>1. (l + h + h) * (s + u) >= (l + h) * (s + u + s)
    BY <1>1, <1>3, <1>7, BonusLiftsMean
  <2>2. u + s = s + u /\ u + s + s = s + u + s  BY <1>3, SMT
  <2> QED  BY <1>4, <1>5, <1>6, <1>8, <2>1, <2>2
<1>10. Votes(f) >= 0 /\ Votes(f) <= Unit * Voices(f)
  <2>1. ASSUME NEW c \in Signal
        PROVE  votes[c] >= 0 * vote[c] /\ votes[c] <= Unit * vote[c]
    <3>1. Vote(f, c) * 0 <= Vote(f, c) * f[c] /\ Vote(f, c) * f[c] <= Vote(f, c) * Unit
      BY <1>1, TimesKeepsOrder, SMT
    <3>2. Vote(f, c) * 0 = 0 /\ 0 * Vote(f, c) = 0 /\ Vote(f, c) * Unit = Unit * Vote(f, c)
      BY <1>1, SMT
    <3> QED  BY <1>1, <3>1, <3>2, SMT
  <2>2. Sum6(votes) >= 0 * Sum6(vote)  BY <1>2, <2>1, SumKeepsOrderBelow
  <2>3. Sum6(votes) <= Unit * Sum6(vote)  BY <1>1, <1>2, <2>1, SumKeepsOrder
  <2>4. Sum6(vote) \in Int /\ 0 * Sum6(vote) = 0  BY <1>2, SumIsInt, SMT
  <2> QED  BY <2>2, <2>3, <2>4 DEF Votes, Voices
<1>11. Votes(f) \in Int /\ Unit * Voices(f) \in Int
  <2>1. Sum6(votes) \in Int /\ Sum6(vote) \in Int  BY <1>2, SumIsInt
  <2> QED  BY <1>1, <2>1, SMT DEF Votes, Voices
<1> QED  BY <1>9, <1>10, <1>11, SMT
------------------------------------------------------------------------------
(* Whatever the weights, the floor and the frames, _adaptive_weights and    *)
(* feed give a score from 0 to 1 that is no less than the plain one.        *)
THEOREM ScoreIsLenient == FusionSpec => []LenientScore
<1>1. FusionInit => LenientScore
  <2> SUFFICES ASSUME FusionInit PROVE LenientScore  OBVIOUS
  <2>1. fused.votes = 0 /\ fused.voices = 1  BY DEF FusionInit, NoScore
  <2>2. \A c \in Signal : Weight[c] * frame[c] = 0
    BY FusionAssumption, SMT DEF FusionInit
  <2>3. Plain(frame) = 0
    BY <2>2, SMT DEF Plain, Sum6, Signal
  <2>4. Sum6(Weight) \in Nat  BY FusionAssumption, SumIsNat
  <2> QED  BY <2>1, <2>3, <2>4, FusionAssumption, SMT DEF LenientScore
<1>2. LenientScore /\ [FusionNext]_fusionVars => LenientScore'
  <2> SUFFICES ASSUME LenientScore, [FusionNext]_fusionVars PROVE LenientScore'  OBVIOUS
  <2>1. CASE UNCHANGED fusionVars
    BY <2>1 DEF fusionVars, LenientScore, Plain
  <2>2. ASSUME NEW f \in Frames, Valid(f), frame' = f, fused' = [votes |-> Votes(f), voices |-> Voices(f)]
        PROVE  LenientScore'
    BY <2>2, ScoreOfValidFrame DEF LenientScore, Plain
  <2> QED  BY <2>1, <2>2 DEF FusionNext, Fuse
<1> QED  BY <1>1, <1>2, PTL DEF FusionSpec

(***************************************************************************)
(* HardExampleMiner.  The throttle keeps one count, so the quota of every  *)
(* minute rests on what that count says of the minute at hand: how much of *)
(* the quota it was given last is used.                                    *)
(***************************************************************************)
MinerTypes ==
    /\ windowIndex \in Int
    /\ countInWindow \in 0..KeepMaxPerMinute
    /\ minedIn \in [Minutes -> Nat] /\ visits \in [Minutes -> Nat]

MinerInv == MinerTypes /\ CountIsOfTheMinute /\ MinuteQuota

LEMMA NoQuotaYet == KeepMaxPerMinute * 0 = 0
  BY MinerAssumption

LEMMA AnotherQuota == ASSUME NEW v \in Nat PROVE KeepMaxPerMinute * (v + 1) = KeepMaxPerMinute * v + KeepMaxPerMinute
  BY MinerAssumption

LEMMA QuotaIsNatural == ASSUME NEW v \in Nat PROVE KeepMaxPerMinute * v \in Nat
<1>1. ASSUME NEW k \in Nat PROVE k * v \in Nat
  OBVIOUS
<1> QED  BY <1>1, MinerAssumption

LEMMA MinerInitInv == MinerInit => MinerInv
BY MinerAssumption, NoQuotaYet, SMT
   DEF MinerInit, MinerInv, MinerTypes, CountIsOfTheMinute, MinuteQuota, Minutes

(* A frame: it is kept only when the count of its minute is under the quota.*)
LEMMA ConsiderInv ==
    ASSUME MinerInv, NEW f \in MinedFrames, NEW drawn \in Draws,
           windowIndex' = f.minute,
           visits' = IF f.minute = windowIndex THEN visits ELSE [visits EXCEPT ![f.minute] = @ + 1],
           IF Kept(f, drawn)
           THEN /\ countInWindow' = CountBefore(f) + 1
                /\ minedIn' = [minedIn EXCEPT ![f.minute] = @ + 1]
           ELSE countInWindow' = CountBefore(f) /\ minedIn' = minedIn
    PROVE  MinerInv'
<1>1. f.minute \in Minutes /\ f.minute \in Int
  BY MinerAssumption, SMT DEF MinedFrames, Minutes
<1>2. PICK w : w = f.minute
  OBVIOUS
<1>3. PICK q \in [Nat -> Nat] : q = [v \in Nat |-> KeepMaxPerMinute * v]
  <2>1. [v \in Nat |-> KeepMaxPerMinute * v] \in [Nat -> Nat]
    BY QuotaIsNatural
  <2> QED  BY <2>1
<1>4. /\ \A v \in Nat : q[v] = KeepMaxPerMinute * v
      /\ \A v \in Nat : q[v + 1] = q[v] + KeepMaxPerMinute
  BY <1>3, AnotherQuota
<1>5. /\ minedIn \in [Minutes -> Nat] /\ visits \in [Minutes -> Nat] /\ countInWindow \in 0..KeepMaxPerMinute
      /\ \A m \in Minutes : minedIn[m] <= q[visits[m]]
      /\ windowIndex \in Minutes => minedIn[windowIndex] + KeepMaxPerMinute <= q[visits[windowIndex]] + countInWindow
  BY <1>4 DEF MinerInv, MinerTypes, MinuteQuota, CountIsOfTheMinute
<1>6. PICK before : before = CountBefore(f)
  OBVIOUS
<1>7. before = IF w = windowIndex THEN countInWindow ELSE 0
  BY <1>2, <1>6 DEF CountBefore
<1>8. \E one \in {0, 1} : /\ countInWindow' = before + one /\ before + one <= KeepMaxPerMinute
                          /\ minedIn' = [minedIn EXCEPT ![w] = @ + one]
  <2>1. CASE Kept(f, drawn)
    <3>1. before + 1 <= KeepMaxPerMinute
      BY <1>5, <1>6, <1>7, <2>1, MinerAssumption DEF Kept
    <3> QED  BY <1>2, <1>6, <2>1, <3>1
  <2>2. CASE ~Kept(f, drawn)
    <3>1. before + 0 <= KeepMaxPerMinute /\ before + 0 = before
      BY <1>5, <1>7, MinerAssumption
    <3>2. minedIn = [minedIn EXCEPT ![w] = @ + 0]
      BY <1>1, <1>2, <1>5
    <3> QED  BY <1>6, <2>2, <3>1, <3>2
  <2> QED  BY <2>1, <2>2
<1>9. PICK one \in {0, 1} : /\ countInWindow' = before + one /\ before + one <= KeepMaxPerMinute
                            /\ minedIn' = [minedIn EXCEPT ![w] = @ + one]
  BY <1>8
<1>10. visits' \in [Minutes -> Nat] /\ minedIn' \in [Minutes -> Nat]
  BY <1>1, <1>2, <1>5, <1>9
<1>11. /\ \A m \in Minutes : m # w => minedIn'[m] = minedIn[m] /\ visits'[m] = visits[m]
       /\ minedIn'[w] = minedIn[w] + one
       /\ visits'[w] = IF w = windowIndex THEN visits[w] ELSE visits[w] + 1
  BY <1>1, <1>2, <1>5, <1>9
<1>12. w \in Minutes /\ minedIn[w] \in Nat /\ visits[w] \in Nat /\ q[visits[w]] \in Nat
  BY <1>1, <1>2, <1>3, <1>5
<1>13. minedIn'[w] + KeepMaxPerMinute <= q[visits'[w]] + countInWindow'
  <2>1. CASE w = windowIndex
    BY <1>5, <1>7, <1>9, <1>11, <1>12, <2>1, MinerAssumption
  <2>2. CASE w # windowIndex
    <3>1. q[visits'[w]] = q[visits[w]] + KeepMaxPerMinute
      BY <1>4, <1>11, <1>12, <2>2
    <3>2. minedIn[w] <= q[visits[w]] /\ before = 0
      BY <1>5, <1>7, <1>12, <2>2
    <3> QED  BY <1>9, <1>11, <1>12, <3>1, <3>2, MinerAssumption
  <2> QED  BY <2>1, <2>2
<1>14. countInWindow' \in 0..KeepMaxPerMinute
  BY <1>5, <1>7, <1>9, MinerAssumption
<1>15. minedIn'[w] <= q[visits'[w]]
  <2>1. minedIn'[w] \in Nat /\ q[visits'[w]] \in Nat
    BY <1>3, <1>10, <1>12
  <2> QED  BY <1>13, <1>14, <2>1, MinerAssumption
<1>16. \A m \in Minutes : minedIn'[m] <= q[visits'[m]]
  BY <1>5, <1>11, <1>15
<1>17. MinuteQuota'
  BY <1>4, <1>10, <1>16 DEF MinuteQuota
<1>18. CountIsOfTheMinute'
  BY <1>2, <1>4, <1>10, <1>12, <1>13 DEF CountIsOfTheMinute
<1> QED  BY <1>1, <1>10, <1>14, <1>17, <1>18 DEF MinerInv, MinerTypes

LEMMA MinerStepInv == MinerInv /\ [MinerNext]_minerVars => MinerInv'
<1> SUFFICES ASSUME MinerInv, [MinerNext]_minerVars PROVE MinerInv'  OBVIOUS
<1>1. CASE Consider
  BY <1>1, ConsiderInv DEF Consider
<1>2. CASE ConsiderEvent \/ Drain \/ UNCHANGED minerVars
  BY <1>2 DEF ConsiderEvent, Drain, DrainedCount, minerVars,
              MinerInv, MinerTypes, CountIsOfTheMinute, MinuteQuota
<1> QED  BY <1>1, <1>2 DEF MinerNext

(* consider keeps at most keep_max_per_minute frames of a minute each time  *)
(* its frames come, in any order of frames and whatever is drained between. *)
THEOREM QuotaHolds == MinerSpec => []MinuteQuota
<1>1. MinerInv => MinuteQuota  BY DEF MinerInv
<1> QED  BY <1>1, MinerInitInv, MinerStepInv, PTL DEF MinerSpec

(* The count of the throttle tells how much of the last quota is used.      *)
THEOREM CountIsRight == MinerSpec => []CountIsOfTheMinute
<1>1. MinerInv => CountIsOfTheMinute  BY DEF MinerInv
<1> QED  BY <1>1, MinerInitInv, MinerStepInv, PTL DEF MinerSpec

(***************************************************************************)
(* The agreement of the caches is inductive with the types and with what   *)
(* is stored of a revived key: a key on which the caches agree either has  *)
(* one entry in both, or is gone in both whatever is still stored, and an  *)
(* entry that is gone stays gone while time goes by.                       *)
(***************************************************************************)
Entries == [value : Int, expires : Int]

CacheTypes ==
    /\ memory \in [CacheKeys -> Entries] /\ redis \in [CacheKeys -> Entries]
    /\ now \in Nat
    /\ revived \in SUBSET CacheKeys

(* Redis counts a revived key for ever; the fallback has nothing to show of *)
(* it, or fewer counts for ever.                                            *)
Behind(m, r) ==
    /\ r.expires = Forever /\ r.value >= 1
    /\ m = Missing \/ Expired(m) \/ (m.expires = Forever /\ m.value < r.value)

CacheInv ==
    /\ CacheTypes
    /\ \A k \in CacheKeys \ revived : Live(memory[k]) = Live(redis[k])
    /\ \A k \in DOMAIN answers \ revived : answers[k][1] = answers[k][2]
    /\ \A k \in revived : Behind(memory[k], redis[k])

LEMMA EntriesStay ==
    ASSUME NEW entry \in Entries, NEW by \in Int
    PROVE  /\ Missing \in Entries /\ Live(entry) \in Entries
           /\ Counted(entry, by) \in Entries /\ IncrBy(entry, by) \in Entries
<1>1. Missing \in Entries  BY SMT DEF Entries, Missing
<1>2. Live(entry) \in Entries  BY <1>1 DEF Live
<1>3. Counted(entry, by) \in Entries /\ IncrBy(entry, by) \in Entries
  BY CacheAssumption, SMT DEF Entries, Counted, IncrBy, Forever
<1> QED  BY <1>1, <1>2, <1>3

(* What is behind shows less. *)
LEMMA BehindShowsLess ==
    ASSUME NEW m \in Entries, NEW r \in Entries, Behind(m, r) PROVE Live(m).value < Live(r).value
<1>1. Live(r) = r
  BY DEF Behind, Live, Expired
<1>2. r.value \in Int /\ r.value >= 1 /\ Missing.value = -1
  BY DEF Behind, Entries, Missing
<1>3. CASE m = Missing \/ Expired(m)
  <2>1. Live(m) = Missing
    BY <1>3 DEF Live
  <2> QED  BY <1>1, <1>2, <2>1
<1>4. CASE m.expires = Forever /\ m.value < r.value
  <2>1. Live(m) = m
    BY <1>4 DEF Live, Expired
  <2> QED  BY <1>1, <1>4, <2>1
<1> QED  BY <1>3, <1>4 DEF Behind

LEMMA CacheInvAgrees == CacheInv => MemoryAgreesWithRedis
<1> SUFFICES ASSUME CacheInv, NEW k \in revived PROVE Live(memory[k]).value < Live(redis[k]).value
  BY DEF CacheInv, MemoryAgreesWithRedis
<1>1. memory[k] \in Entries /\ redis[k] \in Entries /\ Behind(memory[k], redis[k])
  BY DEF CacheInv, CacheTypes
<1> QED  BY <1>1, BehindShowsLess

LEMMA CacheInitInv == CacheInit => CacheInv
<1>1. DOMAIN NoAnswer = {}
  BY DEF NoAnswer
<1> QED  BY <1>1, SMT DEF CacheInit, CacheInv, CacheTypes, Entries, Missing

LEMMA GetInv == ASSUME CacheInv, NEW k \in CacheKeys, Get(k) PROVE CacheInv'
<1>1. CacheTypes'
  BY EntriesStay DEF CacheInv, CacheTypes, Get
<1>2. \A j \in CacheKeys : Live(Live(memory[j])) = Live(memory[j])
  BY DEF Live, Expired
<1>3. \A j \in CacheKeys : Live(memory[j])' = Live(memory'[j])
  BY DEF Live, Expired, Get
<1>4. \A j \in CacheKeys : Live(memory[j])' = Live(memory[j]) /\ Live(redis[j])' = Live(redis[j])
  BY <1>2 DEF CacheInv, CacheTypes, Get, Live, Expired
<1>5. revived' = revived  BY DEF Get
<1>6. \A j \in DOMAIN answers' \ revived' : answers'[j][1] = answers'[j][2]
  BY <1>5 DEF CacheInv, Get
<1>7. \A j \in revived' : Behind(memory[j], redis[j])'
  BY <1>5 DEF CacheInv, CacheTypes, Get, Behind, Live, Expired, Missing, Forever
<1> QED  BY <1>1, <1>4, <1>5, <1>6, <1>7 DEF CacheInv

LEMMA WriteInv ==
    ASSUME CacheInv, NEW k \in CacheKeys, NEW entry \in Entries,
           memory' = [memory EXCEPT ![k] = entry], redis' = [redis EXCEPT ![k] = entry],
           revived' = revived \ {k}, now' = now, answers' = NoAnswer
    PROVE  CacheInv'
<1>1. CacheTypes'  BY DEF CacheInv, CacheTypes
<1>2. ASSUME NEW j \in CacheKeys, j # k
      PROVE  memory'[j] = memory[j] /\ redis'[j] = redis[j] /\ (j \in revived' <=> j \in revived)
  BY <1>2 DEF CacheInv, CacheTypes
<1>3. ASSUME NEW j \in CacheKeys, j \notin revived'
      PROVE  Live(memory[j])' = Live(redis[j])'
  <2>1. CASE j = k  BY <2>1 DEF CacheInv, CacheTypes, Live, Expired
  <2>2. CASE j # k
    BY <1>2, <1>3, <2>2 DEF CacheInv, Live, Expired
  <2> QED  BY <2>1, <2>2
<1>4. ASSUME NEW j \in revived' PROVE Behind(memory[j], redis[j])'
  <2>1. j \in CacheKeys /\ j # k /\ j \in revived
    BY <1>4 DEF CacheInv, CacheTypes
  <2>2. Behind(memory[j], redis[j])
    BY <2>1 DEF CacheInv
  <2> QED  BY <1>2, <2>1, <2>2 DEF Behind, Expired, Forever, Missing
<1>5. DOMAIN answers' = {}
  BY DEF NoAnswer
<1> QED  BY <1>1, <1>3, <1>4, <1>5 DEF CacheInv

(* Counting up the key that is behind, or that was found expired. *)
LEMMA IncrBehind ==
    ASSUME NEW m \in Entries, NEW r \in Entries, (Expired(m) /\ Live(r) = Missing) \/ Behind(m, r)
    PROVE  Behind(Counted(m, 1), IncrBy(Live(r), 1))
<1>1. Forever \in Int /\ Missing.value = -1
  BY CacheAssumption DEF Forever, Missing
<1>2. CASE Expired(m) /\ Live(r) = Missing
  <2>1. IncrBy(Live(r), 1).expires = Forever /\ IncrBy(Live(r), 1).value = 1
    BY <1>2 DEF IncrBy
  <2>2. Counted(m, 1) = Missing \/ Expired(Counted(m, 1))
    BY <1>2 DEF Counted, IncrBy, Expired
  <2> QED  BY <2>1, <2>2 DEF Behind
<1>3. CASE Behind(m, r)
  <2>1. r.value \in Int /\ r.value >= 1 /\ r.expires = Forever /\ Live(r) = r /\ r # Missing
    BY <1>1, <1>3 DEF Behind, Entries, Live, Expired, Missing
  <2>2. IncrBy(Live(r), 1).expires = Forever /\ IncrBy(Live(r), 1).value = r.value + 1
    BY <2>1 DEF IncrBy
  <2>3. CASE m = Missing
    <3>1. Counted(m, 1).expires = Forever /\ Counted(m, 1).value = 1
      BY <2>3 DEF Counted, IncrBy
    <3> QED  BY <2>1, <2>2, <3>1 DEF Behind
  <2>4. CASE m # Missing /\ Expired(m)
    <3>1. Counted(m, 1) = Missing \/ Expired(Counted(m, 1))
      BY <2>4 DEF Counted, IncrBy, Expired
    <3> QED  BY <2>1, <2>2, <3>1 DEF Behind
  <2>5. CASE m # Missing /\ m.expires = Forever /\ m.value < r.value
    <3>1. Counted(m, 1).expires = Forever /\ Counted(m, 1).value = m.value + 1 /\ m.value \in Int
      BY <2>5 DEF Counted, IncrBy, Entries
    <3> QED  BY <2>1, <2>2, <2>5, <3>1 DEF Behind
  <2> QED  BY <1>3, <2>3, <2>4, <2>5 DEF Behind
<1> QED  BY <1>2, <1>3

LEMMA IncrInv == ASSUME CacheInv, NEW k \in CacheKeys, Incr(k, 1) PROVE CacheInv'
<1>1. CacheTypes'
  <2>1. \A j \in CacheKeys : Live(redis[j]) \in Entries
    BY EntriesStay DEF CacheInv, CacheTypes
  <2>2. Counted(memory[k], 1) \in Entries /\ IncrBy(Live(redis[k]), 1) \in Entries
    <3>1. memory[k] \in Entries /\ Live(redis[k]) \in Entries /\ 1 \in Int
      BY <2>1 DEF CacheInv, CacheTypes
    <3> HIDE DEF CacheInv
    <3> QED  BY <3>1, EntriesStay
  <2> QED  BY <2>2 DEF CacheInv, CacheTypes, Incr
<1>2. /\ memory'[k] = Counted(memory[k], 1) /\ redis'[k] = IncrBy(Live(redis[k]), 1)
      /\ now' = now /\ answers' = [j \in {k} |-> <<memory'[k].value, redis'[k].value>>]
  BY DEF CacheInv, CacheTypes, Incr
<1>3. k \notin revived' => memory'[k] = redis'[k]
  <2> SUFFICES ASSUME k \notin revived' PROVE memory'[k] = redis'[k]  OBVIOUS
  <2>1. k \notin revived /\ ~Expired(memory[k])  BY DEF Incr
  <2>2. Live(redis[k]) = memory[k]
    BY <2>1 DEF CacheInv, Live
  <2> QED  BY <1>2, <2>2 DEF Counted, IncrBy
<1>4. ASSUME NEW j \in CacheKeys, j # k
      PROVE  memory'[j] = memory[j] /\ redis'[j] = redis[j] /\ (j \in revived' <=> j \in revived)
  BY <1>4 DEF CacheInv, CacheTypes, Incr
<1>5. ASSUME NEW j \in CacheKeys, j \notin revived'
      PROVE  Live(memory[j])' = Live(redis[j])'
  <2>1. CASE j = k  BY <1>2, <1>3, <1>5, <2>1 DEF Live, Expired
  <2>2. CASE j # k
    BY <1>2, <1>4, <1>5, <2>2 DEF CacheInv, Live, Expired
  <2> QED  BY <2>1, <2>2
<1>6. ASSUME NEW j \in revived' PROVE Behind(memory[j], redis[j])'
  <2>1. CASE j = k
    <3>1. k \in revived \/ Expired(memory[k])
      BY <1>6, <2>1 DEF Incr
    <3>2. k \in revived => Behind(memory[k], redis[k])
      BY DEF CacheInv
    <3>3. k \notin revived /\ Expired(memory[k]) => Live(redis[k]) = Missing
      BY DEF CacheInv, Live
    <3>4. memory[k] \in Entries /\ redis[k] \in Entries
      BY DEF CacheInv, CacheTypes
    <3>5. Behind(Counted(memory[k], 1), IncrBy(Live(redis[k]), 1))
      BY <3>1, <3>2, <3>3, <3>4, IncrBehind
    <3> QED  BY <1>2, <2>1, <3>5 DEF Behind, Expired, Forever, Missing
  <2>2. CASE j # k
    <3>1. j \in CacheKeys /\ j \in revived
      BY <1>1, <1>4, <1>6, <2>2 DEF CacheTypes
    <3>2. Behind(memory[j], redis[j])
      BY <3>1 DEF CacheInv
    <3> QED  BY <1>2, <1>4, <2>2, <3>1, <3>2 DEF Behind, Expired, Forever, Missing
  <2> QED  BY <2>1, <2>2
<1>7. \A j \in DOMAIN answers' \ revived' : answers'[j][1] = answers'[j][2]
  BY <1>2, <1>3
<1> QED  BY <1>1, <1>5, <1>6, <1>7 DEF CacheInv

(* An entry that is gone stays gone. *)
LEMMA PassInv == ASSUME CacheInv, Pass PROVE CacheInv'
<1>1. now \in Nat /\ now' = now + 1 /\ memory' = memory /\ redis' = redis /\ revived' = revived
      /\ answers' = NoAnswer
  BY DEF Pass, CacheInv, CacheTypes
<1>2. CacheTypes'  BY <1>1 DEF CacheInv, CacheTypes
<1>3. ASSUME NEW entry \in Entries, Expired(entry)
      PROVE  entry # Missing /\ entry.expires # Forever /\ now + 1 > entry.expires
  BY <1>1, <1>3, SMT DEF Expired, Entries
<1>4. ASSUME NEW j \in CacheKeys, j \notin revived
      PROVE  Live(memory[j])' = Live(redis[j])'
  <2>1. Live(memory[j]) = Live(redis[j]) /\ memory[j] \in Entries /\ redis[j] \in Entries
    BY <1>4 DEF CacheInv, CacheTypes
  <2>3. CASE memory[j] = redis[j]  BY <1>1, <2>3 DEF Live, Expired
  <2>4. CASE memory[j] # redis[j]
    <3>1. /\ memory[j] = Missing \/ Expired(memory[j])
          /\ redis[j] = Missing \/ Expired(redis[j])
      BY <2>1, <2>4 DEF Live
    <3>2. Live(memory[j])' = Missing /\ Live(redis[j])' = Missing
      BY <1>1, <1>3, <2>1, <3>1 DEF Live, Expired, Forever, Missing
    <3> QED  BY <3>2
  <2> QED  BY <2>3, <2>4
<1>5. ASSUME NEW j \in revived' PROVE Behind(memory[j], redis[j])'
  <2>1. Behind(memory[j], redis[j]) /\ memory[j] \in Entries
    BY <1>1, <1>5 DEF CacheInv, CacheTypes
  <2>2. CASE Expired(memory[j])
    <3>1. memory[j] # Missing /\ memory[j].expires # Forever /\ now + 1 > memory[j].expires
      BY <1>3, <2>1, <2>2
    <3>2. Expired(memory[j])'
      BY <1>1, <3>1 DEF Expired, Forever, Missing
    <3> QED  BY <1>1, <2>1, <3>2 DEF Behind, Forever, Missing
  <2>3. CASE ~Expired(memory[j])
    BY <1>1, <2>1, <2>3 DEF Behind, Forever, Missing
  <2> QED  BY <2>2, <2>3
<1>6. DOMAIN answers' = {}
  BY <1>1 DEF NoAnswer
<1> QED  BY <1>1, <1>2, <1>4, <1>5, <1>6 DEF CacheInv

LEMMA CacheStepInv == CacheInv /\ [CacheNext]_cacheVars => CacheInv'
<1> SUFFICES ASSUME CacheInv, [CacheNext]_cacheVars PROVE CacheInv'  OBVIOUS
<1>1. ASSUME NEW k \in CacheKeys, Get(k) PROVE CacheInv'  BY <1>1, GetInv
<1>2. ASSUME NEW k \in CacheKeys, Delete(k) PROVE CacheInv'
  <2>1. Missing \in Entries  BY SMT DEF Missing, Entries
  <2> QED  BY <1>2, <2>1, WriteInv DEF Delete
<1>3. ASSUME NEW k \in CacheKeys, NEW v \in 0..1, NEW ttl \in 0..MaxTtl, Set(k, v, ttl)
      PROVE  CacheInv'
  <2>1. [value |-> v, expires |-> Deadline(ttl)] \in Entries
    BY CacheAssumption, SMT DEF Entries, Deadline, Forever, CacheInv, CacheTypes
  <2> QED  BY <1>3, <2>1, WriteInv DEF Set
<1>4. ASSUME NEW k \in CacheKeys, Incr(k, 1) PROVE CacheInv'  BY <1>4, IncrInv
<1>5. CASE Pass  BY <1>5, PassInv
<1>6. CASE UNCHANGED cacheVars
  BY <1>6 DEF cacheVars, CacheInv, CacheTypes, Behind, Live, Expired
<1> QED  BY <1>1, <1>2, <1>3, <1>4, <1>5, <1>6 DEF CacheNext

(* InMemoryCache gives RedisCache's answers, and of keys counted up after   *)
(* they had expired it shows fewer counts, never an old one.                *)
THEOREM CachesAgree == CacheSpec => []MemoryAgreesWithRedis
<1> QED  BY CacheInvAgrees, CacheInitInv, CacheStepInv, PTL DEF CacheSpec

(***************************************************************************)
(* VideoSource.  The time fed is a sum, so it is the time between the      *)
(* first and the last frame only together with what the sum starts from:   *)
(* before the first frame nothing is counted, and the last time stamp is   *)
(* zero then and only then.                                                *)
(***************************************************************************)
SourceTypes ==
    /\ kind \in SourceKinds /\ cap \in {"closed", "open", "released"}
    /\ wall \in Nat /\ wall >= DtMin
    /\ last \in Nat /\ first \in Nat /\ passed \in Nat /\ fedTime \in Int
    /\ running \in BOOLEAN

SumStartsAtFirst ==
    /\ passed = 0 => last = 0 /\ fedTime = 0
    /\ passed > 0 => last > 0

SourceInv == SourceTypes /\ SumStartsAtFirst /\ SourceClockIsWall

LEMMA SourceInitInv == SourceInit => SourceInv
BY SourceAssumption DEF SourceInit, SourceInv, SourceTypes, SourceKinds, SumStartsAtFirst, SourceClockIsWall

(* A frame passed on with its time stamp and step. *)
LEMMA YieldInv ==
    ASSUME SourceInv, NEW ts \in Nat, ts > 0, NEW dt \in Int, Yield(ts, dt),
           dt = (IF passed = 0 THEN DtMin ELSE ts - last),
           UNCHANGED <<kind, wall, cap, running>>
    PROVE  SourceInv'
<1>1. /\ last' = ts /\ fedTime' = fedTime + dt /\ passed' = passed + 1
      /\ first' = IF passed = 0 THEN ts ELSE first
  BY DEF Yield
<1>2. SourceTypes' /\ SumStartsAtFirst'
  BY <1>1 DEF SourceInv, SourceTypes, SumStartsAtFirst
<1>3. SourceClockIsWall'
  <2>1. DtMin \in Nat  BY SourceAssumption
  <2>2. CASE passed = 0
    BY <1>1, <2>1, <2>2 DEF SourceInv, SourceTypes, SumStartsAtFirst, SourceClockIsWall
  <2>3. CASE passed # 0
    BY <1>1, <2>1, <2>3 DEF SourceInv, SourceTypes, SumStartsAtFirst, SourceClockIsWall
  <2> QED  BY <2>2, <2>3
<1> QED  BY <1>2, <1>3 DEF SourceInv

LEMMA SourceStepInv == SourceInv /\ [SourceNext]_sourceVars => SourceInv'
<1> SUFFICES ASSUME SourceInv, [SourceNext]_sourceVars PROVE SourceInv'  OBVIOUS
<1>1. DtMin \in Nat \ {0} /\ Reconnect \in Nat
  BY SourceAssumption
<1>2. /\ SourceTypes /\ wall \in Nat /\ wall >= DtMin /\ last \in Nat /\ passed \in Nat
      /\ passed = 0 <=> last = 0
  BY DEF SourceInv, SourceTypes, SumStartsAtFirst
<1>3. CASE ReadFrame
  <2>1. /\ wall > 0 /\ StepTo(wall) \in Int
        /\ StepTo(wall) = (IF passed = 0 THEN DtMin ELSE wall - last)
    BY <1>1, <1>2 DEF StepTo
  <2> QED  BY <1>2, <1>3, <2>1, YieldInv DEF ReadFrame
<1>4. CASE Synthesize
  <2> DEFINE ts == (IF passed = 0 THEN wall ELSE last) + DtMin
  <2>1. /\ ts \in Nat /\ ts > 0 /\ DtMin \in Int
        /\ DtMin = (IF passed = 0 THEN DtMin ELSE ts - last)
    BY <1>1, <1>2
  <2>2. Yield(ts, DtMin) /\ UNCHANGED <<kind, wall, cap, running>>
    BY <1>4 DEF Synthesize
  <2> QED  BY <2>1, <2>2, YieldInv
<1>5. CASE Open \/ Reopen \/ RunEnds
  BY <1>5 DEF Open, Reopen, RunEnds, End, SourceInv, SourceTypes, SumStartsAtFirst, SourceClockIsWall
<1>6. CASE ReadFails
  BY <1>1, <1>2, <1>6
     DEF ReadFails, LastAfterOutage, SourceInv, SourceTypes, SumStartsAtFirst, SourceClockIsWall
<1>7. CASE Clock
  BY <1>1, <1>2, <1>7 DEF Clock, SourceInv, SourceTypes, SumStartsAtFirst, SourceClockIsWall
<1>8. CASE UNCHANGED sourceVars
  BY <1>8 DEF sourceVars, SourceInv, SourceTypes, SumStartsAtFirst, SourceClockIsWall
<1> QED  BY <1>3, <1>4, <1>5, <1>6, <1>7, <1>8 DEF SourceNext

(* However often the stream breaks and the clock is set, the time fed is    *)
(* that between the first and the last frame, and an ended run holds no     *)
(* stream.                                                                  *)
THEOREM SourceClockHolds == SourceSpec => []SourceClockIsWall
<1>1. SourceInv => SourceClockIsWall  BY DEF SourceInv
<1> QED  BY <1>1, SourceInitInv, SourceStepInv, PTL DEF SourceSpec

(***************************************************************************)
(* Accounts.  An address of a tenant stays with one user because a flushed *)
(* row clashes with no committed one and with no other flushed one; what   *)
(* was checked when it was flushed still holds when it is committed.       *)
(***************************************************************************)
NewRows ==
    {<<"tenant", t>> : t \in TenantIds} \union {<<"user", u>> : u \in UserRecords}
        \union {<<"stream", s>> : s \in [id : Nat, tenant : TenantIds]}

(* The seed's owner has his role whichever roles may be given later. *)
Roles == UserRoles \union {"owner"}

AccountTypes ==
    /\ userRows \subseteq [id : Nat, tenant : TenantIds, email : Emails, role : Roles]
    /\ tokens \subseteq [sub : Nat, tid : TenantIds, role : Roles]
    /\ lastId \in Nat
    /\ requests \in [RequestSlots -> {NoRequest} \union [phase : {"begun", "flushed"}, row : NewRows]]

IsUser(i) == requests[i].phase = "flushed" /\ requests[i].row[1] = "user"

SameAddress(u, v) == u.tenant = v.tenant /\ u.email = v.email

FlushedIsFree ==
    \A i \in RequestSlots : IsUser(i) =>
        /\ \A u \in userRows : ~SameAddress(requests[i].row[2], u)
        /\ \A j \in RequestSlots \ {i} :
              IsUser(j) => ~SameAddress(requests[i].row[2], requests[j].row[2])

AccountInv == AccountTypes /\ FlushedIsFree /\ EmailFindsOneUser

LEMMA AccountInitInv == AccountInit => AccountInv
<1> SUFFICES ASSUME AccountInit PROVE AccountInv  OBVIOUS
<1>1. AccountTypes
  BY AccountsAssumption DEF AccountInit, AccountTypes, Roles
<1>2. FlushedIsFree /\ EmailFindsOneUser
  BY DEF AccountInit, FlushedIsFree, IsUser, NoRequest, EmailFindsOneUser
<1> QED  BY <1>1, <1>2 DEF AccountInv

(* A step that stores no user and flushes no row. *)
LEMMA NothingFlushed ==
    ASSUME AccountInv, AccountTypes', userRows' = userRows,
           \A i \in RequestSlots : requests'[i] = requests[i] \/ requests'[i].phase # "flushed",
           \A t \in tokens' : \E u \in userRows : u.id = t.sub /\ u.tenant = t.tid /\ u.role = t.role
    PROVE  AccountInv'
<1>1. \A i \in RequestSlots : IsUser(i)' => IsUser(i) /\ requests'[i] = requests[i]
  BY DEF IsUser
<1>2. FlushedIsFree'
  BY <1>1 DEF AccountInv, FlushedIsFree
<1> QED  BY <1>2 DEF AccountInv, EmailFindsOneUser

LEMMA AskedRows ==
    ASSUME AccountTypes, NEW t \in tokens,
           NEW added \in TenantAsked(t) \cup UserAsked(t) \cup StreamAsked(t)
    PROVE  added \in NewRows
<1>1. t.tid \in TenantIds /\ lastId + 1 \in Nat
  BY DEF AccountTypes
<1>2. ASSUME NEW id \in TenantIds PROVE <<"tenant", id>> \in NewRows
  BY DEF NewRows
<1>3. ASSUME NEW tenant \in TenantIds, NEW email \in Emails, NEW role \in UserRoles
      PROVE  <<"user", [id |-> lastId + 1, tenant |-> tenant, email |-> email, role |-> role]>> \in NewRows
  BY <1>1 DEF NewRows, UserRecords
<1>4. <<"stream", [id |-> lastId + 1, tenant |-> t.tid]>> \in NewRows
  BY <1>1 DEF NewRows
<1> QED  BY <1>2, <1>3, <1>4 DEF TenantAsked, UserAsked, StreamAsked

LEMMA FlushInv ==
    ASSUME AccountInv, NEW i \in RequestSlots, Flush(i)
    PROVE  AccountInv'
<1> DEFINE added == requests[i].row
<1>1. /\ AccountTypes /\ requests[i].phase = "begun" /\ MayFlush(added)
      /\ UNCHANGED <<tenantRows, userRows, streamRows, tokens, lastId>>
  BY DEF Flush, AccountInv
<1>2. requests[i] # NoRequest /\ added \in NewRows
  BY <1>1 DEF NoRequest, AccountTypes
<1>3. CASE Referred(added) /\ \A other \in Committed : ~Clash(added, other)
  <2>1. requests' = [requests EXCEPT ![i] = [phase |-> "flushed", row |-> added]]
    BY <1>3 DEF Flush
  <2>2. /\ requests'[i] = [phase |-> "flushed", row |-> added]
        /\ \A j \in RequestSlots \ {i} : requests'[j] = requests[j]
    BY <1>1, <2>1 DEF AccountTypes
  <2>3. AccountTypes'
    BY <1>1, <1>2, <2>1 DEF AccountTypes
  <2>4. ASSUME added[1] = "user"
        PROVE  /\ \A u \in userRows : ~SameAddress(added[2], u)
               /\ \A j \in RequestSlots \ {i} :
                     IsUser(j) => ~SameAddress(added[2], requests[j].row[2])
    <3>1. ASSUME NEW u \in userRows, SameAddress(added[2], u) PROVE FALSE
      <4>1. <<"user", u>> \in Committed  BY DEF Committed
      <4>2. Clash(added, <<"user", u>>)  BY <2>4, <3>1 DEF Clash, SameAddress
      <4> QED  BY <1>3, <4>1, <4>2
    <3>2. ASSUME NEW j \in RequestSlots \ {i}, IsUser(j), SameAddress(added[2], requests[j].row[2])
          PROVE  FALSE
      <4>1. requests[j].row \in Flushed  BY <3>2 DEF Flushed, IsUser
      <4>2. Clash(added, requests[j].row)  BY <2>4, <3>2 DEF Clash, SameAddress, IsUser
      <4> QED  BY <1>1, <4>1, <4>2 DEF MayFlush
    <3> QED  BY <3>1, <3>2
  <2>5. FlushedIsFree'
    <3> SUFFICES ASSUME NEW k \in RequestSlots, IsUser(k)'
                 PROVE  /\ \A u \in userRows : ~SameAddress(requests'[k].row[2], u)
                        /\ \A j \in RequestSlots \ {k} :
                              IsUser(j)' => ~SameAddress(requests'[k].row[2], requests'[j].row[2])
      BY <1>1 DEF FlushedIsFree
    <3>1. CASE k = i
      BY <2>2, <2>4, <3>1 DEF IsUser
    <3>2. CASE k # i
      <4>1. IsUser(k) /\ requests'[k] = requests[k]
        BY <2>2, <3>2 DEF IsUser
      <4>2. \A u \in userRows : ~SameAddress(requests[k].row[2], u)
        BY <4>1 DEF AccountInv, FlushedIsFree
      <4>3. ASSUME NEW j \in RequestSlots \ {k}, IsUser(j)'
            PROVE  ~SameAddress(requests'[k].row[2], requests'[j].row[2])
        <5>1. CASE j = i
          BY <2>2, <2>4, <3>2, <4>1, <4>3, <5>1 DEF IsUser, SameAddress
        <5>2. CASE j # i
          BY <2>2, <4>1, <4>3, <5>2 DEF IsUser, AccountInv, FlushedIsFree
        <5> QED  BY <5>1, <5>2
      <4> QED  BY <4>1, <4>2, <4>3
    <3> QED  BY <3>1, <3>2
  <2> QED  BY <1>1, <2>3, <2>5 DEF AccountInv, EmailFindsOneUser
<1>4. CASE ~(Referred(added) /\ \A other \in Committed : ~Clash(added, other))
  <2>1. requests' = [requests EXCEPT ![i] = NoRequest]
    BY <1>4 DEF Flush
  <2>2. AccountTypes' /\ \A j \in RequestSlots : requests'[j] = requests[j] \/ requests'[j].phase # "flushed"
    BY <1>1, <2>1 DEF AccountTypes, NoRequest
  <2> QED  BY <1>1, <2>2, NothingFlushed DEF AccountInv, EmailFindsOneUser
<1> QED  BY <1>3, <1>4

LEMMA CommitRowInv ==
    ASSUME AccountInv, NEW i \in RequestSlots, CommitRow(i)
    PROVE  AccountInv'
<1> DEFINE added == requests[i].row
<1>1. /\ AccountTypes /\ requests[i].phase = "flushed"
      /\ userRows' = (IF added[1] = "user" THEN userRows \cup {added[2]} ELSE userRows)
      /\ requests' = [requests EXCEPT ![i] = NoRequest]
      /\ tokens' = tokens /\ lastId' = lastId
  BY DEF CommitRow, Added, AccountInv
<1>2. added \in NewRows
  BY <1>1 DEF NoRequest, AccountTypes
<1>3. added[1] = "user" => added[2] \in [id : Nat, tenant : TenantIds, email : Emails, role : Roles]
  BY <1>2 DEF NewRows, UserRecords, Roles
<1>4. AccountTypes'
  BY <1>1, <1>3 DEF AccountTypes
<1>5. /\ ~IsUser(i)'
      /\ \A j \in RequestSlots \ {i} : requests'[j] = requests[j]
  BY <1>1 DEF AccountTypes, IsUser, NoRequest
<1>6. EmailFindsOneUser'
  BY <1>1 DEF AccountInv, FlushedIsFree, EmailFindsOneUser, IsUser, SameAddress
<1>7. FlushedIsFree'
  <2> SUFFICES ASSUME NEW k \in RequestSlots \ {i}, IsUser(k)'
               PROVE  /\ \A u \in userRows' : ~SameAddress(requests'[k].row[2], u)
                      /\ \A j \in RequestSlots \ {k} :
                            IsUser(j)' => ~SameAddress(requests'[k].row[2], requests'[j].row[2])
    BY <1>5 DEF FlushedIsFree
  <2>1. IsUser(k) /\ requests'[k] = requests[k]
    BY <1>5 DEF IsUser
  <2>2. /\ \A u \in userRows : ~SameAddress(requests[k].row[2], u)
        /\ \A j \in RequestSlots \ {k} :
              IsUser(j) => ~SameAddress(requests[k].row[2], requests[j].row[2])
    BY <2>1 DEF AccountInv, FlushedIsFree
  <2>3. added[1] = "user" => ~SameAddress(requests[k].row[2], added[2])
    BY <1>1, <2>2 DEF IsUser
  <2> QED  BY <1>1, <1>5, <2>1, <2>2, <2>3 DEF IsUser
<1> QED  BY <1>4, <1>6, <1>7 DEF AccountInv

LEMMA AccountStepInv == AccountInv /\ [AccountNext]_accountVars => AccountInv'
<1> SUFFICES ASSUME AccountInv, [AccountNext]_accountVars PROVE AccountInv'  OBVIOUS
<1>1. AccountTypes /\ EmailFindsOneUser
  BY DEF AccountInv
<1>2. CASE Login
  <2>1. PICK tenant \in TenantIds, email \in Emails : \E u \in Found(tenant, email) :
              /\ tokens' = tokens \cup {[sub |-> u.id, tid |-> u.tenant, role |-> u.role]}
              /\ UNCHANGED <<tenantRows, userRows, streamRows, requests, lastId>>
    BY <1>2 DEF Login
  <2>2. PICK u \in userRows :
              /\ tokens' = tokens \cup {[sub |-> u.id, tid |-> u.tenant, role |-> u.role]}
              /\ UNCHANGED <<tenantRows, userRows, streamRows, requests, lastId>>
    BY <2>1 DEF Found
  <2>3. AccountTypes'
    BY <1>1, <2>2 DEF AccountTypes
  <2> QED  BY <1>1, <2>2, <2>3, NothingFlushed DEF EmailFindsOneUser
<1>3. CASE Refresh \/ Expire
  <2>1. /\ UNCHANGED <<tenantRows, userRows, streamRows, requests, lastId>>
        /\ \/ \E t \in tokens : tokens' = tokens \cup {[sub |-> t.sub, tid |-> t.tid, role |-> t.role]}
           \/ tokens' \subseteq tokens
    BY <1>3 DEF Refresh, Refreshed, Expire
  <2>2. AccountTypes'
    BY <1>1, <2>1 DEF AccountTypes
  <2> QED  BY <1>1, <2>1, <2>2, NothingFlushed DEF EmailFindsOneUser
<1>4. ASSUME NEW i \in RequestSlots, Ask(i) PROVE AccountInv'
  <2>1. PICK t \in tokens : \E added \in TenantAsked(t) \cup UserAsked(t) \cup StreamAsked(t) :
            requests' = [requests EXCEPT ![i] = [phase |-> "begun", row |-> added]]
    BY <1>4 DEF Ask, Begun
  <2>2. PICK added \in NewRows : requests' = [requests EXCEPT ![i] = [phase |-> "begun", row |-> added]]
    BY <1>1, <2>1, AskedRows
  <2>3. lastId' = lastId + 1 /\ UNCHANGED <<tenantRows, userRows, streamRows, tokens>>
    BY <1>4 DEF Ask
  <2>4. AccountTypes' /\ \A j \in RequestSlots : requests'[j] = requests[j] \/ requests'[j].phase # "flushed"
    BY <1>1, <2>2, <2>3 DEF AccountTypes
  <2> QED  BY <1>1, <2>3, <2>4, NothingFlushed DEF EmailFindsOneUser
<1>5. ASSUME NEW i \in RequestSlots, Rollback(i) PROVE AccountInv'
  <2>1. /\ requests' = [requests EXCEPT ![i] = NoRequest]
        /\ UNCHANGED <<tenantRows, userRows, streamRows, tokens, lastId>>
    BY <1>5 DEF Rollback
  <2>2. AccountTypes' /\ \A j \in RequestSlots : requests'[j] = requests[j] \/ requests'[j].phase # "flushed"
    BY <1>1, <2>1 DEF AccountTypes, NoRequest
  <2> QED  BY <1>1, <2>1, <2>2, NothingFlushed DEF EmailFindsOneUser
<1>6. CASE UNCHANGED accountVars
  BY <1>1, <1>6 DEF accountVars, AccountInv, AccountTypes, FlushedIsFree, IsUser, EmailFindsOneUser
<1> QED  BY <1>2, <1>3, <1>4, <1>5, <1>6, FlushInv, CommitRowInv DEF AccountNext

(* However requests overlap and fail, an address of a tenant is one user's, *)
(* and every token believed names a stored user in his tenant and role.     *)
THEOREM AddressesAreUnique == AccountSpec => []EmailFindsOneUser
<1>1. AccountInv => EmailFindsOneUser  BY DEF AccountInv
<1> QED  BY <1>1, AccountInitInv, AccountStepInv, PTL DEF AccountSpec

------------------------------------------------------------------------------
(***************************************************************************)
(* AlertViews.  The alerts only close, so what was open when the server    *)
(* read them lies between what was open when the load began and what is    *)
(* open now, for a load on its way and for the screen.                     *)
(***************************************************************************)
LoadRecords ==
    [phase : {"none", "asked", "answered"}, answer : SUBSET (ViewAlerts \union MadeUp),
     openBefore : SUBSET ViewAlerts, served : BOOLEAN]

ViewTypes ==
    /\ openAlerts \subseteq ViewAlerts
    /\ loads \in [LoadSlots -> LoadRecords]
    /\ shownBy \in LoadRecords

(* A load that was served is between the two sets; one that waits for its   *)
(* answer began when at least as much was open; a failed one has MOCK.      *)
Truthful(load) ==
    /\ load.served => load.answer \subseteq load.openBefore /\ openAlerts \subseteq load.answer
    /\ load.answer \subseteq ViewAlerts \/ load.answer = MadeUp
    /\ load.phase # "answered" => ~load.served
    /\ load.phase = "asked" => openAlerts \subseteq load.openBefore

ViewInv ==
    /\ ViewTypes
    /\ \A i \in LoadSlots : Truthful(loads[i])
    /\ Truthful([shownBy EXCEPT !.phase = "answered"]) /\ items = shownBy.answer
    /\ loading => \E i \in LoadSlots : loads[i].phase # "none"

LEMMA ViewInitInv == ViewInit => ViewInv
BY DEF ViewInit, ViewInv, ViewTypes, LoadRecords, Truthful, NoLoad

LEMMA ViewStepInv == ViewInv /\ [ViewNext]_viewVars => ViewInv'
<1> SUFFICES ASSUME ViewInv, [ViewNext]_viewVars PROVE ViewInv'  OBVIOUS
<1> USE DEF ViewTypes
<1>0. ViewTypes
  BY DEF ViewInv
<1>1. ASSUME NEW i \in LoadSlots, StartLoad(i) PROVE ViewInv'
  <2>1. [NoLoad EXCEPT !.phase = "asked", !.openBefore = openAlerts] \in LoadRecords
    BY <1>0 DEF LoadRecords, NoLoad
  <2>2. PICK fresh \in LoadRecords :
              /\ loads' = [loads EXCEPT ![i] = fresh]
              /\ fresh.phase = "asked" /\ fresh.answer = {}
              /\ fresh.openBefore = openAlerts /\ ~fresh.served
    BY <1>1, <2>1 DEF StartLoad, NoLoad
  <2>3. UNCHANGED <<openAlerts, items, shownBy>>
    BY <1>1 DEF StartLoad
  <2>4. loads'[i] = fresh /\ \A j \in LoadSlots \ {i} : loads'[j] = loads[j]
    BY <1>0, <2>2
  <2>5. Truthful(fresh)'
    BY <2>2, <2>3 DEF Truthful
  <2> QED  BY <1>0, <2>2, <2>3, <2>4, <2>5 DEF ViewInv, Truthful
<1>2. ASSUME NEW i \in LoadSlots, Served(i) \/ FetchFails(i) PROVE ViewInv'
  <2> DEFINE load == loads[i]
  <2>1. /\ load \in LoadRecords /\ load.phase = "asked" /\ Truthful(load)
        /\ UNCHANGED <<openAlerts, items, loading, shownBy>>
    BY <1>0, <1>2 DEF ViewInv, Served, FetchFails
  <2>2. PICK answered \in LoadRecords :
              /\ loads' = [loads EXCEPT ![i] = answered]
              /\ answered.phase = "answered" /\ answered.openBefore = load.openBefore
              /\ \/ answered.answer = openAlerts /\ answered.served
                 \/ answered.answer = MadeUp /\ ~answered.served
    <3>1. CASE Served(i)
      <4>1. [load EXCEPT !.phase = "answered", !.answer = ListOpen, !.served = TRUE] \in LoadRecords
        BY <1>0, <2>1 DEF LoadRecords, ListOpen
      <4> QED  BY <2>1, <3>1, <4>1 DEF LoadRecords, ListOpen, Served
    <3>2. CASE FetchFails(i)
      <4>1. [load EXCEPT !.phase = "answered", !.answer = MadeUp] \in LoadRecords
        BY <1>0, <2>1 DEF LoadRecords
      <4>2. ~load.served
        BY <2>1 DEF Truthful
      <4> QED  BY <2>1, <3>2, <4>1, <4>2 DEF LoadRecords, FetchFails
    <3> QED  BY <1>2, <3>1, <3>2
  <2>3. loads'[i] = answered /\ \A j \in LoadSlots \ {i} : loads'[j] = loads[j]
    BY <1>0, <2>2
  <2>4. Truthful(answered)'
    BY <1>0, <2>1, <2>2 DEF Truthful
  <2> QED  BY <1>0, <2>1, <2>2, <2>3, <2>4 DEF ViewInv, Truthful
<1>3. ASSUME NEW i \in LoadSlots, Show(i) PROVE ViewInv'
  <2>1. /\ loads[i].phase = "answered" /\ items' = loads[i].answer /\ shownBy' = loads[i]
        /\ ~loading' /\ loads' = [loads EXCEPT ![i] = NoLoad] /\ openAlerts' = openAlerts
    BY <1>3 DEF Show
  <2>2. NoLoad \in LoadRecords /\ Truthful(NoLoad)'
    BY DEF NoLoad, LoadRecords, Truthful
  <2>3. loads'[i] = NoLoad /\ \A j \in LoadSlots \ {i} : loads'[j] = loads[j]
    BY <1>0, <2>1
  <2>4. shownBy' \in LoadRecords /\ Truthful(shownBy)' /\ [shownBy EXCEPT !.phase = "answered"]' = shownBy'
    BY <1>0, <2>1 DEF ViewInv, Truthful, LoadRecords
  <2> QED  BY <1>0, <2>1, <2>2, <2>3, <2>4 DEF ViewInv, Truthful
<1>4. ASSUME NEW a \in ViewAlerts, Close(a) PROVE ViewInv'
  BY <1>0, <1>4 DEF Close, ViewInv, Truthful
<1>5. CASE UNCHANGED viewVars
  BY <1>0, <1>5 DEF viewVars, ViewInv, Truthful
<1> QED  BY <1>1, <1>2, <1>3, <1>4, <1>5 DEF ViewNext

(* Whatever loads overlap, fail or come late, a served one leaves a true    *)
(* screen, and the spinner never turns without a load behind it.            *)
THEOREM ScreenIsTrue == ViewSpec => []ServedLoadShowsTheTruth
<1>1. ViewInv => ServedLoadShowsTheTruth
  <2> SUFFICES ASSUME ViewInv PROVE ServedLoadShowsTheTruth  OBVIOUS
  <2>1. loading => InProgress # {}
    BY DEF ViewInv, ViewTypes, InProgress, NoLoad
  <2>2. [shownBy EXCEPT !.phase = "answered"].served = shownBy.served
        /\ [shownBy EXCEPT !.phase = "answered"].answer = shownBy.answer
        /\ [shownBy EXCEPT !.phase = "answered"].openBefore = shownBy.openBefore
    BY DEF ViewInv, ViewTypes, LoadRecords
  <2> QED  BY <2>1, <2>2 DEF ViewInv, Truthful, ServedLoadShowsTheTruth
<1> QED  BY <1>1, ViewInitInv, ViewStepInv, PTL DEF ViewSpec

------------------------------------------------------------------------------
(***************************************************************************)
(* ExtensionClient.  The colours go through calls and then replies, and    *)
(* the texts they turn into go through calls again, each queue in order.   *)
(* So the newest colour on its way is that of the state told last, and     *)
(* behind it only its own text can come.                                   *)
(***************************************************************************)
Told == {"IDLE", "BRIEF_AWAY", "ON_DUTY", "LONG_AWAY"}
Painting == [set : {"color", "text"}, of : Told]
Badges == [color : {"none", "green", "amber", "orange", "red", "grey"}, text : {""} \union Told]
Messages == [type : {"LG_STATE", "LG_SIGNAL"}, state : Told]

(* The newest call of a kind in a queue is for state s; there is none.      *)
Newest(queue, what, s) ==
    \E k \in DOMAIN queue :
        /\ queue[k].set = what /\ queue[k].of = s
        /\ \A j \in DOMAIN queue : j > k => queue[j].set # what

Lacks(queue, what) == \A k \in DOMAIN queue : queue[k].set # what

LEMMA AppendPainting ==
    ASSUME NEW queue \in Seq(Painting), NEW tint \in Painting, NEW what
    PROVE  /\ Append(queue, tint) \in Seq(Painting)
           /\ tint.set = what => Newest(Append(queue, tint), what, tint.of)
           /\ tint.set # what =>
                 /\ Lacks(queue, what) => Lacks(Append(queue, tint), what)
                 /\ \A s : Newest(queue, what, s) => Newest(Append(queue, tint), what, s)
<1> DEFINE longer == Append(queue, tint)
<1>1. longer \in Seq(Painting)  OBVIOUS
<1>2. /\ DOMAIN queue = 1..Len(queue) /\ Len(queue) \in Nat
      /\ DOMAIN longer = 1..(Len(queue) + 1)
      /\ longer[Len(queue) + 1] = tint
      /\ \A k \in 1..Len(queue) : longer[k] = queue[k]
  OBVIOUS
<1> HIDE DEF longer
<1>3. tint.set = what => Newest(longer, what, tint.of)
  BY <1>2 DEF Newest
<1>4. tint.set # what /\ Lacks(queue, what) => Lacks(longer, what)
  BY <1>2 DEF Lacks
<1>5. ASSUME tint.set # what, NEW s, Newest(queue, what, s) PROVE Newest(longer, what, s)
  <2>1. PICK k \in 1..Len(queue) : /\ queue[k].set = what /\ queue[k].of = s
                                   /\ \A j \in 1..Len(queue) : j > k => queue[j].set # what
    BY <1>2, <1>5 DEF Newest
  <2>2. k \in DOMAIN longer /\ longer[k] = queue[k]
    BY <1>2
  <2>3. ASSUME NEW j \in DOMAIN longer, j > k PROVE longer[j].set # what
    <3>1. CASE j = Len(queue) + 1  BY <1>2, <1>5, <3>1
    <3>2. CASE j # Len(queue) + 1  BY <1>2, <2>1, <2>3, <3>2
    <3> QED  BY <3>1, <3>2
  <2> QED  BY <2>1, <2>2, <2>3 DEF Newest
<1> QED  BY <1>1, <1>3, <1>4, <1>5 DEF longer

LEMMA TailPainting ==
    ASSUME NEW queue \in Seq(Painting), queue # << >>, NEW what
    PROVE  /\ Head(queue) \in Painting /\ Tail(queue) \in Seq(Painting)
           /\ Lacks(queue, what) => Head(queue).set # what /\ Lacks(Tail(queue), what)
           /\ \A s : Newest(queue, what, s) =>
                 \/ Newest(Tail(queue), what, s)
                 \/ Lacks(Tail(queue), what) /\ Head(queue).set = what /\ Head(queue).of = s
<1> DEFINE rest == Tail(queue)
<1>1. /\ DOMAIN queue = 1..Len(queue) /\ Len(queue) \in Nat /\ Len(queue) >= 1
      /\ rest \in Seq(Painting) /\ DOMAIN rest = 1..(Len(queue) - 1)
      /\ \A k \in 1..(Len(queue) - 1) : rest[k] = queue[k + 1]
      /\ Head(queue) = queue[1]
  OBVIOUS
<1>2. queue[1] \in Painting
  BY <1>1
<1> HIDE DEF rest
<1>3. ASSUME Lacks(queue, what) PROVE Head(queue).set # what /\ Lacks(rest, what)
  <2>1. 1 \in DOMAIN queue /\ \A k \in DOMAIN rest : k + 1 \in DOMAIN queue /\ rest[k] = queue[k + 1]
    BY <1>1
  <2> QED  BY <1>1, <1>3, <2>1 DEF Lacks
<1>4. ASSUME NEW s, Newest(queue, what, s)
      PROVE  \/ Newest(rest, what, s)
             \/ Lacks(rest, what) /\ Head(queue).set = what /\ Head(queue).of = s
  <2>1. PICK k \in 1..Len(queue) : /\ queue[k].set = what /\ queue[k].of = s
                                   /\ \A j \in 1..Len(queue) : j > k => queue[j].set # what
    BY <1>1, <1>4 DEF Newest
  <2>2. \A j \in DOMAIN rest : j + 1 > k => rest[j].set # what
    BY <1>1, <2>1
  <2>3. CASE k = 1
    BY <1>1, <2>1, <2>2, <2>3 DEF Lacks
  <2>4. CASE k > 1
    <3>1. k - 1 \in DOMAIN rest /\ rest[k - 1] = queue[k]
      BY <1>1, <2>4
    <3>2. \A j \in DOMAIN rest : j > k - 1 => rest[j].set # what
      BY <1>1, <2>2
    <3> QED  BY <2>1, <3>1, <3>2 DEF Newest
  <2> QED  BY <2>1, <2>3, <2>4
<1> QED  BY <1>1, <1>2, <1>3, <1>4 DEF rest

ExtensionTypes ==
    /\ outbox \in [Tabs -> Seq(Messages)]
    /\ calls \in Seq(Painting) /\ replies \in Seq(Painting)
    /\ badge \in Badges

(* The colour the badge will have at last, and the text.                    *)
ColorComing ==
    \/ Newest(calls, "color", told)
    \/ Lacks(calls, "color") /\ badge.color = ColorFromState(told)

TextComing ==
    \/ Newest(calls, "color", told)
    \/ Lacks(calls, "color") /\ Newest(replies, "color", told)
    \/ Lacks(calls, "color") /\ Lacks(replies, "color") /\ Newest(calls, "text", told)
    \/ Lacks(calls, "color") /\ Lacks(replies, "color") /\ Lacks(calls, "text") /\ badge.text = told

ExtensionInv ==
    /\ ExtensionTypes
    /\ told # "nothing" => ColorComing /\ TextComing
    /\ popup \notin {"closed", "-"} => popup = told

LEMMA ExtensionInitInv == ExtensionInit => ExtensionInv
<1> SUFFICES ASSUME ExtensionInit PROVE ExtensionInv  OBVIOUS
<1>1. << >> \in Seq(Messages) /\ << >> \in Seq(Painting)  OBVIOUS
<1>2. ExtensionTypes
  BY <1>1 DEF ExtensionInit, ExtensionTypes, Badges
<1> QED  BY <1>2 DEF ExtensionInit, ExtensionInv

LEMMA MessageArrivesInv ==
    ASSUME ExtensionInv, NEW tab \in Tabs, DeliverMessage(tab)
    PROVE  ExtensionInv'
<1>1. ExtensionTypes /\ outbox[tab] # << >> /\ outbox[tab] \in Seq(Messages)
  BY DEF ExtensionInv, ExtensionTypes, DeliverMessage
<1>2. Tail(outbox[tab]) \in Seq(Messages) /\ Head(outbox[tab]) \in Messages
  BY <1>1
<1>2a. PICK msg \in Messages : msg = Head(outbox[tab])
  BY <1>2
<1>3. /\ IF msg.type = "LG_STATE" THEN StateArrives(msg.state) ELSE SignalArrives
      /\ outbox' = [outbox EXCEPT ![tab] = Tail(@)]
      /\ UNCHANGED <<replies, badge>>
  BY <1>2a DEF DeliverMessage
<1>4. outbox' \in [Tabs -> Seq(Messages)]
  BY <1>1, <1>2, <1>3 DEF ExtensionTypes
<1>5. CASE msg.type = "LG_STATE"
  <2>1. /\ calls' = Append(calls, [set |-> "color", of |-> msg.state])
        /\ popup' = IF popup = "closed" THEN "closed" ELSE msg.state
        /\ told' = msg.state
    BY <1>3, <1>5 DEF StateArrives, UpdateBadge
  <2>2. [set |-> "color", of |-> msg.state] \in Painting
    BY DEF Messages, Painting
  <2>3. calls' \in Seq(Painting) /\ Newest(calls', "color", told')
    BY <1>1, <2>1, <2>2, AppendPainting DEF ExtensionTypes
  <2>4. ColorComing' /\ TextComing'
    BY <2>3 DEF ColorComing, TextComing
  <2> QED  BY <1>1, <1>3, <1>4, <2>1, <2>3, <2>4 DEF ExtensionInv, ExtensionTypes
<1>6. CASE msg.type # "LG_STATE"
  <2>1. UNCHANGED <<calls, popup, told>>
    BY <1>3, <1>6 DEF SignalArrives
  <2>2. ColorComing' = ColorComing /\ TextComing' = TextComing
    BY <1>3, <2>1 DEF ColorComing, TextComing
  <2> QED  BY <1>1, <1>3, <1>4, <2>1, <2>2 DEF ExtensionInv, ExtensionTypes
<1> QED  BY <1>5, <1>6

LEMMA PerformInv ==
    ASSUME ExtensionInv, PerformCall
    PROVE  ExtensionInv'
<1> DEFINE tint == Head(calls)
<1>1. /\ ExtensionTypes /\ calls # << >>
      /\ badge' = IF tint.set = "color" THEN [badge EXCEPT !.color = ColorFromState(tint.of)]
                  ELSE [badge EXCEPT !.text = tint.of]
      /\ replies' = Append(replies, tint) /\ calls' = Tail(calls)
      /\ UNCHANGED <<outbox, popup, told>>
  BY DEF PerformCall, ExtensionInv
<1>2. tint \in Painting /\ calls' \in Seq(Painting)
  BY <1>1, TailPainting DEF ExtensionTypes
<1>3. /\ Lacks(calls, "color") => tint.set # "color" /\ Lacks(calls', "color")
      /\ Newest(calls, "color", told) =>
            \/ Newest(calls', "color", told)
            \/ Lacks(calls', "color") /\ tint.set = "color" /\ tint.of = told
  BY <1>1, TailPainting DEF ExtensionTypes
<1>4. /\ Lacks(calls, "text") => tint.set # "text" /\ Lacks(calls', "text")
      /\ Newest(calls, "text", told) =>
            \/ Newest(calls', "text", told)
            \/ Lacks(calls', "text") /\ tint.set = "text" /\ tint.of = told
  BY <1>1, TailPainting DEF ExtensionTypes
<1>5. /\ replies' \in Seq(Painting)
      /\ tint.set = "color" => Newest(replies', "color", tint.of)
      /\ tint.set # "color" => /\ Lacks(replies, "color") => Lacks(replies', "color")
                               /\ Newest(replies, "color", told) => Newest(replies', "color", told)
  BY <1>1, <1>2, AppendPainting DEF ExtensionTypes
<1> HIDE DEF tint
<1>6. /\ badge' \in Badges
      /\ tint.set = "color" => badge'.color = ColorFromState(tint.of)
      /\ tint.set = "text" => badge'.text = tint.of /\ badge'.color = badge.color
  <2>1. CASE tint.set = "color"
    BY <1>1, <1>2, <2>1 DEF ExtensionTypes, Badges, Painting, Told, ColorFromState
  <2>2. CASE tint.set = "text"
    BY <1>1, <1>2, <2>2 DEF ExtensionTypes, Badges, Painting
  <2> QED  BY <1>2, <2>1, <2>2 DEF Painting
<1>7. tint.set = "color" \/ tint.set = "text"
  BY <1>2 DEF Painting
<1>8. ASSUME told # "nothing" PROVE ColorComing'
  <2>1. ColorComing
    BY <1>8 DEF ExtensionInv
  <2> QED  BY <1>1, <1>3, <1>6, <1>7, <2>1 DEF ColorComing
<1>9. ASSUME told # "nothing" PROVE TextComing'
  <2>1. TextComing
    BY <1>9 DEF ExtensionInv
  <2> QED  BY <1>1, <1>3, <1>4, <1>5, <1>6, <1>7, <2>1 DEF TextComing
<1> QED  BY <1>1, <1>2, <1>5, <1>6, <1>8, <1>9 DEF ExtensionInv, ExtensionTypes

LEMMA ResumeInv ==
    ASSUME ExtensionInv, Resume
    PROVE  ExtensionInv'
<1> DEFINE reply == Head(replies)
<1>1. /\ ExtensionTypes /\ replies # << >>
      /\ calls' = IF reply.set = "color" THEN Append(calls, [reply EXCEPT !.set = "text"]) ELSE calls
      /\ replies' = Tail(replies)
      /\ UNCHANGED <<outbox, badge, popup, told>>
  BY DEF Resume, ExtensionInv
<1>2. reply \in Painting /\ replies' \in Seq(Painting)
  BY <1>1, TailPainting DEF ExtensionTypes
<1>3. /\ Lacks(replies, "color") => reply.set # "color" /\ Lacks(replies', "color")
      /\ Newest(replies, "color", told) =>
            \/ Newest(replies', "color", told)
            \/ Lacks(replies', "color") /\ reply.set = "color" /\ reply.of = told
  BY <1>1, TailPainting DEF ExtensionTypes
<1> HIDE DEF reply
<1>4. CASE reply.set = "color"
  <2>1. PICK tint \in Painting : /\ tint = [reply EXCEPT !.set = "text"]
                                 /\ tint.set = "text" /\ tint.of = reply.of
    <3>1. [set |-> "text", of |-> reply.of] \in Painting
      BY <1>2 DEF Painting
    <3>2. [reply EXCEPT !.set = "text"] = [set |-> "text", of |-> reply.of]
      BY <1>2 DEF Painting
    <3> QED  BY <3>1, <3>2
  <2>2. calls' = Append(calls, tint)
    BY <1>1, <1>4, <2>1
  <2>3. /\ calls' \in Seq(Painting) /\ Newest(calls', "text", reply.of)
        /\ Lacks(calls, "color") => Lacks(calls', "color")
        /\ Newest(calls, "color", told) => Newest(calls', "color", told)
    BY <1>1, <2>1, <2>2, AppendPainting DEF ExtensionTypes
  <2>4. ColorComing => ColorComing'
    BY <1>1, <2>3 DEF ColorComing
  <2>5. TextComing => TextComing'
    BY <1>1, <1>3, <1>4, <2>3 DEF TextComing
  <2> QED  BY <1>1, <1>2, <2>3, <2>4, <2>5 DEF ExtensionInv, ExtensionTypes
<1>5. CASE reply.set # "color"
  <2>1. ColorComing => ColorComing'
    BY <1>1, <1>5 DEF ColorComing
  <2>2. TextComing => TextComing'
    BY <1>1, <1>3, <1>5 DEF TextComing
  <2> QED  BY <1>1, <1>2, <1>5, <2>1, <2>2 DEF ExtensionInv, ExtensionTypes
<1> QED  BY <1>4, <1>5

LEMMA ExtensionStepInv == ExtensionInv /\ [ExtensionNext]_extensionVars => ExtensionInv'
<1> SUFFICES ASSUME ExtensionInv, [ExtensionNext]_extensionVars PROVE ExtensionInv'  OBVIOUS
<1>1. ExtensionTypes
  BY DEF ExtensionInv
<1>2. ASSUME NEW tab \in Tabs, Tick(tab) PROVE ExtensionInv'
  <2>1. PICK sample \in Samples :
            outbox' = [outbox EXCEPT ![tab] = @ \o
                <<[type |-> "LG_STATE", state |-> ClassifyState(sample, prevGray[tab])],
                  [type |-> "LG_SIGNAL", state |-> ClassifyState(sample, prevGray[tab])]>>]
    BY <1>2 DEF Tick
  <2>2. PICK s \in Told : s = ClassifyState(sample, prevGray[tab])
    BY <2>1 DEF ClassifyState, Samples, Told
  <2>3. /\ [type |-> "LG_STATE", state |-> s] \in Messages
        /\ [type |-> "LG_SIGNAL", state |-> s] \in Messages
    BY DEF Messages
  <2>4. outbox[tab] \o <<[type |-> "LG_STATE", state |-> s], [type |-> "LG_SIGNAL", state |-> s]>> \in Seq(Messages)
    BY <1>1, <2>3 DEF ExtensionTypes
  <2>5. outbox' \in [Tabs -> Seq(Messages)]
    BY <1>1, <2>1, <2>2, <2>4 DEF ExtensionTypes
  <2>6. UNCHANGED <<calls, replies, badge, popup, told>>
    BY <1>2 DEF Tick
  <2> QED  BY <1>1, <2>5, <2>6 DEF ExtensionInv, ExtensionTypes, ColorComing, TextComing
<1>3. ASSUME NEW tab \in Tabs, Reload(tab) PROVE ExtensionInv'
  BY <1>1, <1>3 DEF Reload, ExtensionInv, ExtensionTypes, ColorComing, TextComing
<1>4. CASE OpenOrClosePopup
  BY <1>1, <1>4 DEF OpenOrClosePopup, ExtensionInv, ExtensionTypes, ColorComing, TextComing
<1>5. CASE UNCHANGED extensionVars
  BY <1>1, <1>5 DEF extensionVars, ExtensionInv, ExtensionTypes, ColorComing, TextComing
<1>6. ASSUME NEW tab \in Tabs, DeliverMessage(tab) PROVE ExtensionInv'
  BY <1>6, MessageArrivesInv
<1>7. CASE PerformCall
  BY <1>7, PerformInv
<1>8. CASE Resume
  BY <1>8, ResumeInv
<1> QED  BY <1>2, <1>3, <1>4, <1>5, <1>6, <1>7, <1>8 DEF ExtensionNext

(* However the updates of several tabs overlap, the badge and the popup     *)
(* show the state told last once nothing is under way.                      *)
THEOREM BadgeIsTrue == ExtensionSpec => []BadgeOfLastMessage
<1>1. ExtensionInv => BadgeOfLastMessage
  <2> SUFFICES ASSUME ExtensionInv, told # "nothing", calls = << >>, replies = << >>
               PROVE  badge = [color |-> ColorFromState(told), text |-> told]
    BY DEF ExtensionInv, BadgeOfLastMessage
  <2>1. ~Newest(<< >>, "color", told) /\ ~Newest(<< >>, "text", told)
    BY DEF Newest
  <2>2. badge.color = ColorFromState(told) /\ badge.text = told
    BY <2>1 DEF ExtensionInv, ColorComing, TextComing
  <2> QED  BY <2>2 DEF ExtensionInv, ExtensionTypes, Badges
<1> QED  BY <1>1, ExtensionInitInv, ExtensionStepInv, PTL DEF ExtensionSpec

------------------------------------------------------------------------------
(***************************************************************************)
(* EventTrail.  A request puts its transition on the bus in the step that  *)
(* moves the machine, so that what it still has to publish are flags, and  *)
(* a flag does not change where the log leaves the stream.                 *)
(***************************************************************************)
StreamStates == {"IDLE", "ON_DUTY", "BRIEF_AWAY", "LONG_AWAY", "ALERT_ESCALATED"}

MoveEnvelopes == {EnvelopeOf(n, s, t) : n \in Nat, s \in StreamStates, t \in StreamStates}
BusMessages ==
    {m \in MoveEnvelopes : m.to \in Moves(m.from)} \union {FlagEnvelope(n, p) : n \in Nat, p \in Patterns}

RowsOnTheTable ==
    {RecordOf(n, s, t) : n \in Nat, s \in StreamStates, t \in StreamStates}
        \union {FlagRecord(n, p) : n \in Nat, p \in Patterns}

IngestRecords ==
    [phase : {"none", "publishing", "answered"}, left : Seq(BusMessages), rows : Seq(RowsOnTheTable)]

TrailTypes ==
    /\ machineState \in StreamStates /\ fed \in Nat /\ counted \in Nat
    /\ published \in Seq(BusMessages)
    /\ ingests \in [IngestSlots -> IngestRecords]

(* The row's message is among those of the log. *)
ToldIn(log, r) ==
    IF IsMove(r) THEN \E k \in DOMAIN log : log[k] = r
    ELSE \E k \in DOMAIN log : log[k].id = <<"evt_cheat", r.id[2], r.id[3]>> /\ log[k].type = r.type

(* The messages that a request has still to publish, without the one that   *)
(* its subscribers are busy with.                                           *)
Unsent(ingest) == IF ingest.left = << >> THEN 0 ELSE Len(ingest.left) - 1

Coherent(ingest, log) ==
    /\ \A k \in DOMAIN ingest.left : k > 1 => ~IsMove(ingest.left[k])
    /\ ingest.phase = "answered" => ingest.left = << >>
    /\ \A k \in DOMAIN ingest.rows :
          \/ ToldIn(log, ingest.rows[k])
          \/ ~IsMove(ingest.rows[k]) /\ ToldIn(ingest.left, ingest.rows[k])
    /\ ingest.phase = "publishing" => ingest.left # << >> /\ \E k \in DOMAIN log : log[k] = ingest.left[1]

Story(log, s) ==
    /\ \A k \in DOMAIN log : IsMove(log[k]) => LeavesIn(log, k, log[k].from)
    /\ LeavesIn(log, Len(log) + 1, s)

TrailInv ==
    /\ TrailTypes
    /\ Story(published, machineState)
    /\ \A i \in IngestSlots : Coherent(ingests[i], published)
    /\ \A r \in storedEvents : ToldIn(published, r)
    /\ Len(published) + Unsent(ingests[1]) + Unsent(ingests[2]) <= counted

LEMMA MessageParts ==
    ASSUME NEW m \in BusMessages
    PROVE  IF IsMove(m)
           THEN /\ m.from \in StreamStates /\ m.to \in Moves(m.from)
                /\ m.severity = Severity(m.to)
           ELSE m.from = "ANY"
<1>1. CASE m \in MoveEnvelopes /\ m.to \in Moves(m.from)
  <2>1. PICK n \in Nat, s \in StreamStates, t \in StreamStates : m = EnvelopeOf(n, s, t)
    BY <1>1 DEF MoveEnvelopes
  <2>2. m.from = s /\ m.to = t /\ m.severity = Severity(t)
    BY <2>1 DEF EnvelopeOf
  <2> QED  BY <1>1, <2>2 DEF IsMove, StreamStates
<1>2. ASSUME NEW n \in Nat, NEW p \in Patterns, m = FlagEnvelope(n, p)
      PROVE  m.from = "ANY"
  BY <1>2 DEF FlagEnvelope
<1> QED  BY <1>1, <1>2 DEF BusMessages, IsMove

(* A log that grows keeps its story, and a flag adds nothing to it.         *)
LEMMA StoryGrows ==
    ASSUME NEW log \in Seq(BusMessages), NEW m \in BusMessages, NEW s \in StreamStates, Story(log, s)
    PROVE  /\ ~IsMove(m) => Story(Append(log, m), s)
           /\ IsMove(m) /\ m.from = s => Story(Append(log, m), m.to)
<1> DEFINE longer == Append(log, m)
           n == Len(log)
<1>1. /\ n \in Nat /\ DOMAIN log = 1..n /\ DOMAIN longer = 1..(n + 1)
      /\ Len(longer) = n + 1 /\ longer[n + 1] = m
      /\ \A k \in 1..n : longer[k] = log[k]
  OBVIOUS
<1> HIDE DEF longer, n
<1>2. \A j \in 1..n, k \in 1..(n + 1) : PrecedesIn(log, j, k) => PrecedesIn(longer, j, k)
  <2> SUFFICES ASSUME NEW j \in 1..n, NEW k \in 1..(n + 1), PrecedesIn(log, j, k)
               PROVE  PrecedesIn(longer, j, k)
    OBVIOUS
  <2>1. ASSUME NEW between \in 1..(n + 1), j < between, between < k
        PROVE  ~IsMove(longer[between])
    <3>1. between \in 1..n
      BY <1>1, <2>1
    <3> QED  BY <1>1, <2>1, <3>1 DEF PrecedesIn
  <2>2. longer[j] = log[j] /\ j < k /\ IsMove(log[j])
    BY <1>1 DEF PrecedesIn
  <2> QED  BY <1>1, <2>1, <2>2 DEF PrecedesIn
<1>3. ASSUME NEW k \in 1..(n + 1), NEW before, LeavesIn(log, k, before)
      PROVE  LeavesIn(longer, k, before)
  <2>1. CASE \E j \in DOMAIN log : PrecedesIn(log, j, k) /\ log[j].to = before
    <3>1. PICK j \in 1..n : PrecedesIn(log, j, k) /\ log[j].to = before
      BY <1>1, <2>1
    <3>2. j \in DOMAIN longer /\ PrecedesIn(longer, j, k) /\ longer[j].to = before
      BY <1>1, <1>2, <3>1
    <3> QED  BY <3>2 DEF LeavesIn
  <2>2. CASE before = "IDLE" /\ \A j \in DOMAIN log : j < k => ~IsMove(log[j])
    <3>1. ASSUME NEW j \in 1..(n + 1), j < k PROVE ~IsMove(longer[j])
      <4>1. j \in 1..n
        BY <1>1, <3>1
      <4> QED  BY <1>1, <2>2, <3>1, <4>1
    <3> QED  BY <1>1, <2>2, <3>1 DEF LeavesIn
  <2> QED  BY <1>3, <2>1, <2>2 DEF LeavesIn
<1>4. LeavesIn(longer, n + 1, s)
  BY <1>1, <1>3 DEF Story, n
<1>5. ASSUME IsMove(m) => m.from = s, NEW k \in DOMAIN longer, IsMove(longer[k])
      PROVE  LeavesIn(longer, k, longer[k].from)
  <2>1. CASE k = n + 1
    BY <1>1, <1>4, <1>5, <2>1
  <2>2. CASE k # n + 1
    <3>1. k \in 1..n /\ longer[k] = log[k]
      BY <1>1, <2>2
    <3>2. LeavesIn(log, k, log[k].from)
      BY <1>1, <1>5, <3>1 DEF Story
    <3> QED  BY <1>1, <1>3, <3>1, <3>2
  <2> QED  BY <2>1, <2>2
<1>6. ASSUME ~IsMove(m) PROVE LeavesIn(longer, n + 2, s)
  <2>1. ASSUME NEW j \in 1..(n + 1), PrecedesIn(longer, j, n + 1) PROVE PrecedesIn(longer, j, n + 2)
    BY <1>1, <1>6, <2>1 DEF PrecedesIn
  <2>2. CASE \E j \in DOMAIN longer : PrecedesIn(longer, j, n + 1) /\ longer[j].to = s
    BY <1>1, <2>1, <2>2 DEF LeavesIn
  <2>3. CASE s = "IDLE" /\ \A j \in DOMAIN longer : j < n + 1 => ~IsMove(longer[j])
    BY <1>1, <1>6, <2>3 DEF LeavesIn
  <2> QED  BY <1>4, <2>2, <2>3 DEF LeavesIn
<1>7. ASSUME IsMove(m) PROVE LeavesIn(longer, n + 2, m.to)
  <2>1. PrecedesIn(longer, n + 1, n + 2)
    BY <1>1, <1>7 DEF PrecedesIn
  <2> QED  BY <1>1, <2>1 DEF LeavesIn
<1>8. Len(longer) + 1 = n + 2
  BY <1>1
<1> QED  BY <1>5, <1>6, <1>7, <1>8 DEF Story, longer

LEMMA ToldGrows ==
    ASSUME NEW log \in Seq(BusMessages), NEW m, NEW r, ToldIn(log, r)
    PROVE  ToldIn(Append(log, m), r)
<1>1. \A k \in DOMAIN log : k \in DOMAIN Append(log, m) /\ Append(log, m)[k] = log[k]
  OBVIOUS
<1> QED  BY <1>1 DEF ToldIn

(* What a frame has for the bus and for the table, as messages and rows.    *)
FrameShape(out, rows, s, move) ==
    /\ out \in Seq(BusMessages) /\ rows \in Seq(RowsOnTheTable)
    /\ Len(out) = Len(rows)
    /\ \A k \in DOMAIN out : k > 1 => ~IsMove(out[k])
    /\ \A k \in DOMAIN rows :
          IF IsMove(rows[k]) THEN out # << >> /\ out[1] = rows[k] ELSE ToldIn(out, rows[k])
    /\ IF move = <<>> THEN \A k \in DOMAIN out : ~IsMove(out[k])
       ELSE /\ out # << >> /\ IsMove(out[1]) /\ out[1].from = s
            /\ out[1].to = move[2] /\ move[2] \in StreamStates

LEMMA SameElements ==
    ASSUME NEW S, NEW left \in Seq(S), NEW right \in Seq(S), Len(left) = Len(right),
           \A k \in 1..Len(left) : left[k] = right[k]
    PROVE  left = right
OBVIOUS

LEMMA Joined ==
    ASSUME NEW S, NEW a \in S, NEW b \in S
    PROVE  <<a>> \o << >> = <<a>> /\ << >> \o <<a>> = <<a>> /\ <<a>> \o <<b>> = <<a, b>>
<1> DEFINE left == <<a>> \o <<b>>
           right == <<a, b>>
<1>1. left \in Seq(S) /\ Len(left) = 2 /\ left[1] = a /\ left[2] = b  OBVIOUS
<1>2. right \in Seq(S) /\ Len(right) = 2 /\ right[1] = a /\ right[2] = b  OBVIOUS
<1> HIDE DEF left, right
<1>3. \A k \in 1..2 : left[k] = right[k]
  BY <1>1, <1>2
<1>4. left = right
  BY <1>1, <1>2, <1>3, SameElements
<1>5. <<a>> \o << >> = <<a>> /\ << >> \o <<a>> = <<a>>  OBVIOUS
<1> QED  BY <1>4, <1>5 DEF left, right

LEMMA FrameShapes ==
    ASSUME NEW n \in Nat, NEW s \in StreamStates, NEW move \in Transitions(s),
           NEW flags \in {<<>>} \cup {<<p>> : p \in Patterns}
    PROVE  FrameShape(Envelopes(n, move, flags), EventRows(n, move, flags), s, move)
<1> DEFINE out == Envelopes(n, move, flags)
           rows == EventRows(n, move, flags)
           flagsOut == [i \in DOMAIN flags |-> FlagEnvelope(n, flags[i])]
           flagsRows == [i \in DOMAIN flags |-> FlagRecord(n, flags[i])]
<1>1. /\ flags = <<>> => flagsOut = << >> /\ flagsRows = << >>
      /\ \A p \in Patterns : flags = <<p>> => flagsOut = <<FlagEnvelope(n, p)>> /\ flagsRows = <<FlagRecord(n, p)>>
  OBVIOUS
<1>2. ASSUME NEW p \in Patterns
      PROVE  /\ FlagEnvelope(n, p) \in BusMessages /\ ~IsMove(FlagEnvelope(n, p))
             /\ FlagRecord(n, p) \in RowsOnTheTable /\ ~IsMove(FlagRecord(n, p))
             /\ FlagEnvelope(n, p).id = <<"evt_cheat", FlagRecord(n, p).id[2], FlagRecord(n, p).id[3]>>
             /\ FlagEnvelope(n, p).type = FlagRecord(n, p).type
  <2>1. FlagEnvelope(n, p) \in BusMessages /\ FlagRecord(n, p) \in RowsOnTheTable
    BY DEF BusMessages, RowsOnTheTable
  <2> QED  BY <2>1 DEF FlagEnvelope, FlagRecord, IsMove
<1>3. CASE move = <<>> /\ flags = <<>>
  <2>1. out = << >> /\ rows = << >>
    BY <1>1, <1>3 DEF Envelopes, EventRows
  <2>2. /\ << >> \in Seq(BusMessages) /\ << >> \in Seq(RowsOnTheTable)
        /\ Len(<< >>) = 0 /\ DOMAIN << >> = {}
    OBVIOUS
  <2>3. FrameShape(<< >>, << >>, s, <<>>)
    BY <2>2 DEF FrameShape
  <2> QED  BY <1>3, <2>1, <2>3
<1>4. ASSUME NEW p \in Patterns, move = <<>>, flags = <<p>>
      PROVE  FrameShape(out, rows, s, move)
  <2>1. PICK f \in BusMessages, g \in RowsOnTheTable :
              /\ f = FlagEnvelope(n, p) /\ g = FlagRecord(n, p) /\ ~IsMove(f) /\ ~IsMove(g)
              /\ f.id = <<"evt_cheat", g.id[2], g.id[3]>> /\ f.type = g.type
    BY <1>2
  <2>2. flagsOut = <<f>> /\ flagsRows = <<g>>
    BY <1>1, <1>4, <2>1
  <2>3. out = << >> \o flagsOut /\ rows = << >> \o flagsRows
    BY <1>4 DEF Envelopes, EventRows
  <2>4. << >> \o <<f>> = <<f>> /\ << >> \o <<g>> = <<g>>
    BY Joined
  <2>5. out = <<f>> /\ rows = <<g>>
    BY <2>2, <2>3, <2>4
  <2>6. <<f>> \in Seq(BusMessages) /\ <<g>> \in Seq(RowsOnTheTable)
    OBVIOUS
  <2>7. ToldIn(<<f>>, g)
    BY <2>1 DEF ToldIn
  <2>8. FrameShape(<<f>>, <<g>>, s, <<>>)
    BY <2>1, <2>6, <2>7 DEF FrameShape
  <2> QED  BY <1>4, <2>5, <2>8
<1>5. CASE move # <<>>
  <2>1. PICK t \in Moves(s) : move = <<s, t>>
    BY <1>5 DEF Transitions
  <2>2. t \in StreamStates
    BY <2>1 DEF Moves, StreamStates
  <2>3. RecordOf(n, s, t) = EnvelopeOf(n, s, t)
    BY <2>1, <2>2 DEF RecordOf, EnvelopeOf, RecordType, EnvelopeType
  <2>4. EnvelopeOf(n, s, t).from = s /\ EnvelopeOf(n, s, t).to = t
    BY DEF EnvelopeOf
  <2>5. EnvelopeOf(n, s, t) \in BusMessages
    <3>1. EnvelopeOf(n, s, t) \in MoveEnvelopes
      BY <2>2 DEF MoveEnvelopes
    <3> QED  BY <2>1, <2>4, <3>1 DEF BusMessages
  <2>6. RecordOf(n, s, t) \in RowsOnTheTable
    BY <2>2 DEF RowsOnTheTable
  <2>7. PICK m \in BusMessages : /\ m = EnvelopeOf(n, s, t) /\ m = RecordOf(n, s, t)
                                 /\ m \in RowsOnTheTable
                                 /\ m.from = s /\ m.to = t /\ IsMove(m)
    BY <2>3, <2>4, <2>5, <2>6 DEF IsMove, StreamStates
  <2>8. CASE flags = <<>>
    <3>1. flagsOut = << >> /\ flagsRows = << >>
      BY <1>1, <2>8
    <3>2. out = <<m>> \o flagsOut /\ rows = <<m>> \o flagsRows
      BY <2>1, <2>7 DEF Envelopes, EventRows
    <3>3. out = <<m>> /\ rows = <<m>>
      BY <3>1, <3>2
    <3>4. <<m>> \in Seq(BusMessages) /\ <<m>> \in Seq(RowsOnTheTable)
      BY <2>7
    <3> QED  BY <2>1, <2>2, <2>7, <3>3, <3>4 DEF FrameShape
  <2>9. ASSUME NEW p \in Patterns, flags = <<p>> PROVE FrameShape(out, rows, s, move)
    <3>1. PICK f \in BusMessages, g \in RowsOnTheTable :
              /\ f = FlagEnvelope(n, p) /\ g = FlagRecord(n, p) /\ ~IsMove(f) /\ ~IsMove(g)
              /\ f.id = <<"evt_cheat", g.id[2], g.id[3]>> /\ f.type = g.type
      BY <1>2
    <3>2. flagsOut = <<f>> /\ flagsRows = <<g>>
      BY <1>1, <2>9, <3>1
    <3>3. out = <<m>> \o flagsOut /\ rows = <<m>> \o flagsRows
      BY <2>1, <2>7 DEF Envelopes, EventRows
    <3>4. out = <<m, f>> /\ rows = <<m, g>>
      <4>1. <<m>> \o <<f>> = <<m, f>>
        BY <2>7, <3>1, Joined
      <4>2. <<m>> \o <<g>> = <<m, g>>
        BY <2>7, <3>1, Joined
      <4> QED  BY <3>2, <3>3, <4>1, <4>2
    <3>5. ToldIn(<<m, f>>, g)
      BY <3>1 DEF ToldIn
    <3>6. /\ <<m, f>> \in Seq(BusMessages) /\ <<m, g>> \in Seq(RowsOnTheTable)
          /\ Len(<<m, f>>) = 2 /\ Len(<<m, g>>) = 2
          /\ \A k \in DOMAIN <<m, f>> : k > 1 => ~IsMove(<<m, f>>[k])
      BY <2>7, <3>1
    <3>7. \A k \in DOMAIN <<m, g>> : IF IsMove(<<m, g>>[k]) THEN m = <<m, g>>[k] ELSE ToldIn(<<m, f>>, <<m, g>>[k])
      BY <2>7, <3>1, <3>5
    <3>8. FrameShape(<<m, f>>, <<m, g>>, s, <<s, t>>)
      <4>1. <<m, f>> # << >> /\ <<m, f>>[1] = m /\ <<s, t>> # <<>> /\ <<s, t>>[2] = t
        OBVIOUS
      <4> QED  BY <2>2, <2>7, <3>6, <3>7, <4>1 DEF FrameShape
    <3> QED  BY <2>1, <3>4, <3>8
  <2> QED  BY <2>8, <2>9
<1>6. flags = <<>> \/ \E p \in Patterns : flags = <<p>>
  OBVIOUS
<1>7. CASE move = <<>>
  <2>1. CASE flags = <<>>  BY <1>3, <1>7, <2>1
  <2>2. CASE flags # <<>>  BY <1>4, <1>6, <1>7, <2>2
  <2> QED  BY <2>1, <2>2
<1> QED  BY <1>5, <1>7

LEMMA AppendedKeeps ==
    ASSUME NEW log \in Seq(BusMessages), NEW out \in Seq(BusMessages)
    PROVE  /\ Appended(log, out) \in Seq(BusMessages)
           /\ Len(Appended(log, out)) = IF out = << >> THEN Len(log) ELSE Len(log) + 1
           /\ \A r : ToldIn(log, r) => ToldIn(Appended(log, out), r)
           /\ \A g : Coherent(g, log) => Coherent(g, Appended(log, out))
           /\ out # << >> => \E k \in DOMAIN Appended(log, out) : Appended(log, out)[k] = out[1]
<1>1. CASE out = << >>
  BY <1>1 DEF Appended
<1>2. CASE out # << >>
  <2>1. PICK m \in BusMessages : m = out[1] /\ m = Head(out)
    BY <1>2
  <2> DEFINE longer == Append(log, m)
  <2>2. longer \in Seq(BusMessages)
    OBVIOUS
  <2>3. /\ Appended(log, out) = longer /\ Len(longer) = Len(log) + 1
        /\ Len(log) + 1 \in DOMAIN longer /\ longer[Len(log) + 1] = m
        /\ \A k \in DOMAIN log : k \in DOMAIN longer /\ longer[k] = log[k]
    BY <1>2, <2>1, <2>2 DEF Appended
  <2>4. \A r : ToldIn(log, r) => ToldIn(longer, r)
    BY ToldGrows
  <2> HIDE DEF longer
  <2>5. \A g : Coherent(g, log) => Coherent(g, longer)
    BY <2>3, <2>4 DEF Coherent
  <2> QED  BY <1>2, <2>1, <2>2, <2>3, <2>4, <2>5
<1> QED  BY <1>1, <1>2

(* The steps that give a request its next record and publish the head of it. *)
LEMMA PublishInv ==
    ASSUME TrailInv, NEW i \in IngestSlots, NEW next \in IngestRecords,
           ingests' = [ingests EXCEPT ![i] = next],
           published' = Appended(published, next.left),
           Story(published', machineState'), Coherent(next, published'),
           machineState' \in StreamStates, fed' \in Nat, counted' \in Nat, storedEvents' = storedEvents,
           (IF next.left = << >> THEN 0 ELSE Len(next.left)) - Unsent(ingests[i]) <= counted' - counted
    PROVE  TrailInv'
<1>1. /\ TrailTypes /\ \A j \in IngestSlots : Coherent(ingests[j], published)
      /\ \A r \in storedEvents : ToldIn(published, r)
      /\ Len(published) + Unsent(ingests[1]) + Unsent(ingests[2]) <= counted
  BY DEF TrailInv
<1>2. next.left \in Seq(BusMessages) /\ published \in Seq(BusMessages) /\ counted \in Nat
  BY <1>1 DEF TrailTypes, IngestRecords
<1>3. /\ published' \in Seq(BusMessages)
      /\ Len(published') = IF next.left = << >> THEN Len(published) ELSE Len(published) + 1
      /\ \A r : ToldIn(published, r) => ToldIn(published', r)
      /\ \A g : Coherent(g, published) => Coherent(g, published')
  BY <1>2, AppendedKeeps
<1>4. ingests'[i] = next /\ \A j \in IngestSlots \ {i} : ingests'[j] = ingests[j]
  BY <1>1 DEF TrailTypes
<1>5. ingests' \in [IngestSlots -> IngestRecords]
  BY <1>1 DEF TrailTypes
<1>6. \A j \in IngestSlots : Coherent(ingests'[j], published')
  BY <1>1, <1>3, <1>4
<1>7. \A j \in IngestSlots : Unsent(ingests[j]) \in Nat /\ Unsent(next) \in Nat
  <2> SUFFICES ASSUME NEW g \in IngestRecords PROVE Unsent(g) \in Nat
    BY <1>1 DEF TrailTypes
  <2>1. g.left \in Seq(BusMessages)
    BY DEF IngestRecords
  <2>2. g.left = << >> \/ Len(g.left) \in Nat \ {0}
    BY <2>1
  <2> QED  BY <2>2 DEF Unsent
<1>8. Len(published') + Unsent(next) - Len(published) - Unsent(ingests[i]) <= counted' - counted
  <2>1. Len(published) \in Nat /\ Unsent(ingests[i]) \in Nat
    BY <1>2, <1>7
  <2>2. CASE next.left = << >>
    <3>1. Unsent(next) = 0 /\ Len(published') = Len(published)
      BY <1>3, <2>2 DEF Unsent
    <3> QED  BY <2>1, <2>2, <3>1
  <2>3. CASE next.left # << >>
    <3>1. Unsent(next) = Len(next.left) - 1 /\ Len(next.left) \in Nat /\ Len(published') = Len(published) + 1
      BY <1>2, <1>3, <2>3 DEF Unsent
    <3> QED  BY <2>1, <2>3, <3>1
  <2> QED  BY <2>2, <2>3
<1>9. Len(published') + Unsent(ingests'[1]) + Unsent(ingests'[2]) <= counted'
  <2>1. Unsent(ingests'[i]) = Unsent(next) /\ \A j \in IngestSlots \ {i} : Unsent(ingests'[j]) = Unsent(ingests[j])
    BY <1>4
  <2>2. /\ Unsent(ingests[1]) \in Nat /\ Unsent(ingests[2]) \in Nat /\ Unsent(next) \in Nat
        /\ Len(published) \in Nat /\ Len(published') \in Nat
    BY <1>2, <1>3, <1>7 DEF IngestSlots
  <2>3. CASE i = 1
    <3>1. Unsent(ingests'[1]) = Unsent(next) /\ Unsent(ingests'[2]) = Unsent(ingests[2])
      BY <2>1, <2>3 DEF IngestSlots
    <3> QED  BY <1>1, <1>2, <1>8, <2>2, <2>3, <3>1
  <2>4. CASE i = 2
    <3>1. Unsent(ingests'[2]) = Unsent(next) /\ Unsent(ingests'[1]) = Unsent(ingests[1])
      BY <2>1, <2>4 DEF IngestSlots
    <3> QED  BY <1>1, <1>2, <1>8, <2>2, <2>4, <3>1
  <2> QED  BY <2>3, <2>4 DEF IngestSlots
<1>10. (\A r \in storedEvents : ToldIn(published, r))'
  BY <1>1, <1>3
<1>11. TrailTypes'
  BY <1>3, <1>5 DEF TrailTypes
<1> QED  BY <1>6, <1>9, <1>10, <1>11 DEF TrailInv

LEMMA FrameInv ==
    ASSUME TrailInv, NEW i \in IngestSlots, IngestFrame(i)
    PROVE  TrailInv'
<1>1. /\ TrailTypes /\ Story(published, machineState) /\ ingests[i] = NoIngest
      /\ fed \in Nat /\ counted \in Nat /\ machineState \in StreamStates /\ published \in Seq(BusMessages)
  BY DEF TrailInv, TrailTypes, IngestFrame
<1>2. PICK move \in Transitions(machineState), flags \in {<<>>} \cup {<<p>> : p \in Patterns} :
          /\ machineState' = IF move = <<>> THEN machineState ELSE move[2]
          /\ published' = Appended(published, Envelopes(fed, move, flags))
          /\ ingests' = [ingests EXCEPT ![i] =
                            Publishing(Envelopes(fed, move, flags), EventRows(fed, move, flags))]
          /\ counted' = counted + Len(EventRows(fed, move, flags))
  BY DEF IngestFrame
<1>3. fed' = fed + 1 /\ storedEvents' = storedEvents
  BY DEF IngestFrame
<1>4. FrameShape(Envelopes(fed, move, flags), EventRows(fed, move, flags), machineState, move)
  BY <1>1, FrameShapes
<1>5. PICK out \in Seq(BusMessages), rows \in Seq(RowsOnTheTable) :
          out = Envelopes(fed, move, flags) /\ rows = EventRows(fed, move, flags)
  BY <1>4 DEF FrameShape
<1>6. PICK next \in IngestRecords : /\ next = Publishing(out, rows) /\ next.left = out /\ next.rows = rows
                                    /\ next.phase = IF out = << >> THEN "answered" ELSE "publishing"
  <2>1. Publishing(out, rows) \in IngestRecords
    BY DEF Publishing, IngestRecords
  <2> QED  BY <2>1 DEF Publishing
<1>7. /\ published' \in Seq(BusMessages)
      /\ \A r : ToldIn(published, r) => ToldIn(published', r)
      /\ out # << >> => \E k \in DOMAIN published' : published'[k] = out[1]
  BY <1>1, <1>2, <1>5, AppendedKeeps
<1>8. machineState' \in StreamStates /\ Story(published', machineState')
  <2>1. CASE out = << >>
    <3>1. move = <<>>
      BY <1>4, <1>5, <2>1 DEF FrameShape
    <3> QED  BY <1>1, <1>2, <1>5, <2>1, <3>1 DEF Appended
  <2>2. CASE out # << >>
    <3>1. PICK m \in BusMessages : m = out[1] /\ published' = Append(published, m)
      BY <1>2, <1>5, <2>2 DEF Appended
    <3>2. CASE move = <<>>
      <4>1. ~IsMove(m)
        BY <1>4, <1>5, <2>2, <3>1, <3>2 DEF FrameShape
      <4> QED  BY <1>1, <1>2, <3>1, <3>2, <4>1, StoryGrows
    <3>3. CASE move # <<>>
      <4>1. IsMove(m) /\ m.from = machineState /\ m.to = move[2] /\ move[2] \in StreamStates
        BY <1>4, <1>5, <3>1, <3>3 DEF FrameShape
      <4> QED  BY <1>1, <1>2, <3>1, <3>3, <4>1, StoryGrows
    <3> QED  BY <3>2, <3>3
  <2> QED  BY <2>1, <2>2
<1>9. Coherent(next, published')
  <2>1. \A k \in DOMAIN out : k > 1 => ~IsMove(out[k])
    BY <1>4, <1>5 DEF FrameShape
  <2>2. ASSUME NEW k \in DOMAIN rows
        PROVE  ToldIn(published', rows[k]) \/ (~IsMove(rows[k]) /\ ToldIn(out, rows[k]))
    <3>1. IF IsMove(rows[k]) THEN out # << >> /\ out[1] = rows[k] ELSE ToldIn(out, rows[k])
      BY <1>4, <1>5 DEF FrameShape
    <3> QED  BY <1>7, <3>1 DEF ToldIn
  <2> QED  BY <1>6, <1>7, <2>1, <2>2 DEF Coherent
<1>10. Len(rows) = Len(out) /\ Len(out) \in Nat
  BY <1>4, <1>5 DEF FrameShape
<1>11. Unsent(ingests[i]) = 0
  BY <1>1 DEF Unsent, NoIngest
<1>12. (IF next.left = << >> THEN 0 ELSE Len(next.left)) - Unsent(ingests[i]) <= counted' - counted
  BY <1>1, <1>2, <1>5, <1>6, <1>10, <1>11
<1>13. fed' \in Nat /\ counted' \in Nat
  BY <1>1, <1>2, <1>3, <1>5, <1>10
<1> QED  BY <1>2, <1>3, <1>5, <1>6, <1>8, <1>9, <1>12, <1>13, PublishInv

LEMMA PublishedInv ==
    ASSUME TrailInv, NEW i \in IngestSlots, Published(i)
    PROVE  TrailInv'
<1> DEFINE old == ingests[i]
<1>1. /\ TrailTypes /\ Story(published, machineState) /\ Coherent(old, published)
      /\ published \in Seq(BusMessages) /\ counted \in Nat /\ fed \in Nat /\ machineState \in StreamStates
      /\ old \in IngestRecords
  BY DEF TrailInv, TrailTypes
<1>2. /\ old.phase = "publishing"
      /\ published' = Appended(published, Tail(old.left))
      /\ ingests' = [ingests EXCEPT ![i] = Publishing(Tail(old.left), old.rows)]
      /\ UNCHANGED <<machineState, fed, storedEvents, counted>>
  BY DEF Published
<1>3. /\ old.left \in Seq(BusMessages) /\ old.rows \in Seq(RowsOnTheTable) /\ old.left # << >>
      /\ \E k \in DOMAIN published : published[k] = old.left[1]
      /\ \A k \in DOMAIN old.left : k > 1 => ~IsMove(old.left[k])
      /\ \A k \in DOMAIN old.rows :
            \/ ToldIn(published, old.rows[k])
            \/ ~IsMove(old.rows[k]) /\ ToldIn(old.left, old.rows[k])
  BY <1>1, <1>2 DEF IngestRecords, Coherent
<1> DEFINE waiting == Tail(old.left)
<1>4. /\ waiting \in Seq(BusMessages) /\ Len(waiting) = Len(old.left) - 1
      /\ Len(old.left) \in Nat \ {0}
      /\ \A k \in DOMAIN waiting : k + 1 \in DOMAIN old.left /\ waiting[k] = old.left[k + 1] /\ k + 1 > 1
      /\ \A k \in DOMAIN old.left : k = 1 \/ (k - 1 \in DOMAIN waiting /\ waiting[k - 1] = old.left[k])
  BY <1>3
<1>5. \A k \in DOMAIN waiting : ~IsMove(waiting[k])
  BY <1>3, <1>4
<1>6. PICK rows \in Seq(RowsOnTheTable) : rows = old.rows
  BY <1>3
<1>7. PICK out \in Seq(BusMessages) : out = waiting
  BY <1>4
<1>8. PICK next \in IngestRecords : /\ next = Publishing(out, rows) /\ next.left = out /\ next.rows = rows
                                    /\ next.phase = IF out = << >> THEN "answered" ELSE "publishing"
  <2>1. Publishing(out, rows) \in IngestRecords
    BY DEF Publishing, IngestRecords
  <2> QED  BY <2>1 DEF Publishing
<1>9. /\ published' = Appended(published, out) /\ published' \in Seq(BusMessages)
      /\ \A r : ToldIn(published, r) => ToldIn(published', r)
      /\ out # << >> => \E k \in DOMAIN published' : published'[k] = out[1]
  BY <1>1, <1>2, <1>7, AppendedKeeps
<1>10. Story(published', machineState')
  <2>1. CASE out = << >>
    BY <1>1, <1>2, <1>9, <2>1 DEF Appended
  <2>2. CASE out # << >>
    <3>1. PICK m \in BusMessages : m = out[1] /\ published' = Append(published, m)
      BY <1>9, <2>2 DEF Appended
    <3>2. ~IsMove(m)
      <4>1. 1 \in DOMAIN out
        BY <2>2
      <4> QED  BY <1>5, <1>7, <3>1, <4>1
    <3> QED  BY <1>1, <1>2, <3>1, <3>2, StoryGrows
  <2> QED  BY <2>1, <2>2
<1>11. Coherent(next, published')
  <2>1. ASSUME NEW k \in DOMAIN rows
        PROVE  ToldIn(published', rows[k]) \/ (~IsMove(rows[k]) /\ ToldIn(out, rows[k]))
    <3>1. CASE ToldIn(published, rows[k])
      BY <1>9, <3>1
    <3>2. CASE ~IsMove(rows[k]) /\ ToldIn(old.left, rows[k])
      <4>1. PICK j \in DOMAIN old.left : /\ old.left[j].id = <<"evt_cheat", rows[k].id[2], rows[k].id[3]>>
                                         /\ old.left[j].type = rows[k].type
        BY <3>2 DEF ToldIn
      <4>2. CASE j = 1
        <5>1. ToldIn(published, rows[k])
          BY <1>3, <3>2, <4>1, <4>2 DEF ToldIn
        <5> QED  BY <1>9, <5>1
      <4>3. CASE j # 1
        BY <1>4, <1>7, <3>2, <4>1, <4>3 DEF ToldIn
      <4> QED  BY <4>2, <4>3
    <3> QED  BY <1>3, <1>6, <3>1, <3>2
  <2> QED  BY <1>5, <1>7, <1>8, <1>9, <2>1 DEF Coherent
<1>12. (IF next.left = << >> THEN 0 ELSE Len(next.left)) - Unsent(ingests[i]) <= counted' - counted
  <2>1. Unsent(ingests[i]) = Len(out) /\ Len(out) \in Nat
    BY <1>3, <1>4, <1>7 DEF Unsent
  <2>2. next.left = out /\ counted' = counted
    BY <1>2, <1>8
  <2> QED  BY <1>1, <2>1, <2>2
<1>13. ingests' = [ingests EXCEPT ![i] = next]
  BY <1>2, <1>6, <1>7, <1>8
<1> QED  BY <1>1, <1>2, <1>8, <1>9, <1>10, <1>11, <1>12, <1>13, PublishInv

(* The steps that end a request.                                            *)
LEMMA IngestEndsInv ==
    ASSUME TrailInv, NEW i \in IngestSlots, SubscriberRaises(i) \/ StoreRows(i) \/ StoreFails(i)
    PROVE  TrailInv'
<1>1. /\ TrailTypes /\ Story(published, machineState) /\ counted \in Nat
      /\ \A j \in IngestSlots : Coherent(ingests[j], published)
      /\ \A r \in storedEvents : ToldIn(published, r)
      /\ Len(published) + Unsent(ingests[1]) + Unsent(ingests[2]) <= counted
  BY DEF TrailInv, TrailTypes
<1>2. /\ ingests' = [ingests EXCEPT ![i] = NoIngest]
      /\ UNCHANGED <<machineState, fed, published, counted>>
  BY DEF SubscriberRaises, StoreRows, StoreFails
<1>3. /\ ingests'[i] = NoIngest /\ \A j \in IngestSlots \ {i} : ingests'[j] = ingests[j]
      /\ ingests' \in [IngestSlots -> IngestRecords]
  <2>1. << >> \in Seq(BusMessages) /\ << >> \in Seq(RowsOnTheTable)  OBVIOUS
  <2>2. NoIngest \in IngestRecords
    BY <2>1 DEF NoIngest, IngestRecords
  <2> QED  BY <1>1, <1>2, <2>2 DEF TrailTypes
<1>4. \A j \in IngestSlots : Coherent(ingests'[j], published')
  BY <1>1, <1>2, <1>3 DEF Coherent, NoIngest
<1>5. \A r \in storedEvents' : ToldIn(published', r)
  <2>1. CASE storedEvents' = storedEvents
    BY <1>1, <1>2, <2>1
  <2>2. CASE StoreRows(i)
    <3>1. ingests[i].phase = "answered" /\ storedEvents' = storedEvents \cup ToSet(ingests[i].rows)
      BY <2>2 DEF StoreRows
    <3>2. ASSUME NEW k \in DOMAIN ingests[i].rows PROVE ToldIn(published, ingests[i].rows[k])
      <4>1. ingests[i].left = << >> /\ DOMAIN << >> = {}
        BY <1>1, <3>1 DEF Coherent
      <4>2. ~IsMove(ingests[i].rows[k]) => ~ToldIn(ingests[i].left, ingests[i].rows[k])
        BY <4>1 DEF ToldIn
      <4> QED  BY <1>1, <4>2 DEF Coherent
    <3> QED  BY <1>1, <1>2, <3>1, <3>2 DEF ToSet
  <2> QED  BY <2>1, <2>2 DEF SubscriberRaises, StoreFails
<1>6. Len(published') + Unsent(ingests'[1]) + Unsent(ingests'[2]) <= counted'
  <2>1. \A j \in IngestSlots : Unsent(ingests[j]) \in Nat
    <3> SUFFICES ASSUME NEW j \in IngestSlots PROVE Unsent(ingests[j]) \in Nat  OBVIOUS
    <3>1. ingests[j].left \in Seq(BusMessages)
      BY <1>1 DEF TrailTypes, IngestRecords
    <3>2. ingests[j].left = << >> \/ Len(ingests[j].left) \in Nat \ {0}
      BY <3>1
    <3> QED  BY <3>2 DEF Unsent
  <2>2. Unsent(ingests'[i]) = 0 /\ \A j \in IngestSlots \ {i} : Unsent(ingests'[j]) = Unsent(ingests[j])
    BY <1>3 DEF Unsent, NoIngest
  <2>3. Len(published) \in Nat
    BY <1>1 DEF TrailTypes
  <2>4. CASE i = 1
    <3>1. Unsent(ingests'[1]) = 0 /\ Unsent(ingests'[2]) = Unsent(ingests[2])
      BY <2>2, <2>4 DEF IngestSlots
    <3> QED  BY <1>1, <1>2, <2>1, <2>3, <3>1 DEF IngestSlots
  <2>5. CASE i = 2
    <3>1. Unsent(ingests'[2]) = 0 /\ Unsent(ingests'[1]) = Unsent(ingests[1])
      BY <2>2, <2>5 DEF IngestSlots
    <3> QED  BY <1>1, <1>2, <2>1, <2>3, <3>1 DEF IngestSlots
  <2> QED  BY <2>4, <2>5 DEF IngestSlots
<1>7. TrailTypes'
  BY <1>1, <1>2, <1>3 DEF TrailTypes
<1> QED  BY <1>1, <1>2, <1>4, <1>5, <1>6, <1>7 DEF TrailInv

LEMMA TrailInitInv == TrailInit => TrailInv
<1> SUFFICES ASSUME TrailInit PROVE TrailInv  OBVIOUS
<1>1. /\ << >> \in Seq(BusMessages) /\ << >> \in Seq(RowsOnTheTable) /\ Len(<< >>) = 0 /\ DOMAIN << >> = {}
  OBVIOUS
<1>2. NoIngest \in IngestRecords
  BY <1>1 DEF NoIngest, IngestRecords
<1>3. /\ machineState = "IDLE" /\ fed = 0 /\ published = << >> /\ storedEvents = {} /\ counted = 0
      /\ ingests = [i \in IngestSlots |-> NoIngest]
  BY DEF TrailInit
<1>4. TrailTypes
  BY <1>1, <1>2, <1>3 DEF TrailTypes, StreamStates
<1>5. Story(published, machineState)
  BY <1>1, <1>3 DEF Story, LeavesIn
<1>6. \A i \in IngestSlots : Coherent(ingests[i], published)
  BY <1>1, <1>3 DEF Coherent, NoIngest
<1>7. Unsent(ingests[1]) = 0 /\ Unsent(ingests[2]) = 0
  BY <1>3 DEF Unsent, NoIngest, IngestSlots
<1> QED  BY <1>1, <1>3, <1>4, <1>5, <1>6, <1>7 DEF TrailInv

LEMMA TrailStepInv == TrailInv /\ [TrailNext]_trailVars => TrailInv'
<1> SUFFICES ASSUME TrailInv, [TrailNext]_trailVars PROVE TrailInv'  OBVIOUS
<1>1. ASSUME NEW i \in IngestSlots, IngestFrame(i) PROVE TrailInv'
  BY <1>1, FrameInv
<1>2. ASSUME NEW i \in IngestSlots, Published(i) PROVE TrailInv'
  BY <1>2, PublishedInv
<1>3. ASSUME NEW i \in IngestSlots, SubscriberRaises(i) \/ StoreRows(i) \/ StoreFails(i) PROVE TrailInv'
  BY <1>3, IngestEndsInv
<1>4. CASE UNCHANGED trailVars
  BY <1>4 DEF trailVars, TrailInv, TrailTypes
<1> QED  BY <1>1, <1>2, <1>3, <1>4 DEF TrailNext

(* Before a message the stream was left in one state only.                  *)
LEMMA PrecedesOnce ==
    ASSUME NEW log \in Seq(BusMessages), NEW k \in 1..(Len(log) + 1),
           NEW j \in DOMAIN log, PrecedesIn(log, j, k), NEW s, LeavesIn(log, k, s)
    PROVE  log[j].to = s
<1>1. DOMAIN log = 1..Len(log) /\ Len(log) \in Nat  OBVIOUS
<1>2. PICK i \in DOMAIN log : PrecedesIn(log, i, k) /\ log[i].to = s
  BY <1>1 DEF LeavesIn, PrecedesIn
<1>3. i = j
  BY <1>1, <1>2 DEF PrecedesIn
<1> QED  BY <1>2, <1>3

(* The bus tells the life of the stream, and what it tells is explained     *)
(* rightly, however requests overlap and subscribers raise.                 *)
THEOREM BusIsTheStory == TrailSpec => []BusTellsTheStory
<1>1. TrailInv => BusTellsTheStory
  <2> SUFFICES ASSUME TrailInv PROVE BusTellsTheStory  OBVIOUS
  <2>1. /\ published \in Seq(BusMessages) /\ counted \in Nat
        /\ Story(published, machineState) /\ \A r \in storedEvents : ToldIn(published, r)
        /\ TrailTypes /\ Len(published) + Unsent(ingests[1]) + Unsent(ingests[2]) <= counted
    BY DEF TrailInv, TrailTypes
  <2>2. \A r \in storedEvents :
            IF IsMove(r) THEN r \in ToSet(published)
            ELSE \E e \in ToSet(published) : e.id = <<"evt_cheat", r.id[2], r.id[3]>> /\ e.type = r.type
    BY <2>1 DEF ToldIn, ToSet
  <2>3. Len(published) <= counted
    <3>1. \A j \in IngestSlots : Unsent(ingests[j]) \in Nat
      <4> SUFFICES ASSUME NEW j \in IngestSlots PROVE Unsent(ingests[j]) \in Nat  OBVIOUS
      <4>1. ingests[j].left \in Seq(BusMessages)
        BY <2>1 DEF TrailTypes, IngestRecords
      <4>2. ingests[j].left = << >> \/ Len(ingests[j].left) \in Nat \ {0}
        BY <4>1
      <4> QED  BY <4>2 DEF Unsent
    <3>2. Len(published) \in Nat /\ Unsent(ingests[1]) \in Nat /\ Unsent(ingests[2]) \in Nat
      BY <2>1, <3>1 DEF IngestSlots
    <3> QED  BY <2>1, <3>2
  <2>4. ASSUME NEW k \in DOMAIN published, IsMove(published[k])
        PROVE  LET account == Explained(published[k])
               IN  /\ account.headline = published[k].severity
                   /\ published[k].severity # "INFO" => account.actions # {}
                   /\ "archive" \in account.actions <=>
                         /\ published[k].severity = "INFO"
                         /\ \E j \in DOMAIN published :
                               PrecedesIn(published, j, k) /\ published[j].severity # "INFO"
    <3> DEFINE m == published[k]
               alerted == \E j \in DOMAIN published : PrecedesIn(published, j, k) /\ published[j].severity # "INFO"
    <3>1. m \in BusMessages /\ k \in 1..(Len(published) + 1)
      BY <2>1
    <3>2. m.from \in StreamStates /\ m.to \in Moves(m.from) /\ m.severity = Severity(m.to)
      BY <2>4, <3>1, MessageParts
    <3>3. LeavesIn(published, k, m.from)
      BY <2>1, <2>4 DEF Story
    <3>4. \A s : Severity(s) # "INFO" <=> s \in {"LONG_AWAY", "ALERT_ESCALATED"}
      BY DEF Severity
    <3>5. alerted <=> m.from \in {"LONG_AWAY", "ALERT_ESCALATED"}
      <4>1. ASSUME NEW j \in DOMAIN published, PrecedesIn(published, j, k)
            PROVE  published[j].severity = Severity(m.from) /\ published[j].to = m.from
        <5>1. published[j] \in BusMessages /\ IsMove(published[j])
          BY <2>1, <4>1 DEF PrecedesIn
        <5>2. published[j].to = m.from
          BY <2>1, <3>1, <3>3, <4>1, PrecedesOnce
        <5> QED  BY <5>1, <5>2, MessageParts
      <4>2. CASE \E j \in DOMAIN published : PrecedesIn(published, j, k) /\ published[j].to = m.from
        BY <3>4, <4>1, <4>2
      <4>3. CASE m.from = "IDLE" /\ \A j \in DOMAIN published : j < k => ~IsMove(published[j])
        BY <4>3 DEF PrecedesIn
      <4> QED  BY <3>3, <4>2, <4>3 DEF LeavesIn
    <3>6. Headline(m.to) = m.severity
      BY <3>2 DEF Headline, Severity
    <3>7. m.severity # "INFO" => Recommended(m.from, m.to) # {}
      BY <3>2, <3>4 DEF Recommended
    <3>8. "archive" \in Recommended(m.from, m.to) <=>
             m.severity = "INFO" /\ m.from \in {"LONG_AWAY", "ALERT_ESCALATED"}
      BY <3>2, <3>4 DEF Recommended, Moves, StreamStates
    <3> QED  BY <3>5, <3>6, <3>7, <3>8 DEF Explained
  <2> QED  BY <2>1, <2>2, <2>3, <2>4 DEF BusTellsTheStory, Story
<1> QED  BY <1>1, TrailInitInv, TrailStepInv, PTL DEF TrailSpec

(***************************************************************************)
(* SchemaMigrations.  A step of a command does the statements of its plan  *)
(* that become durable at once, so the plan is followed statement by       *)
(* statement.  The invariant says of every plan not yet done what makes it *)
(* harmless: Alembic stamps a revision once each table and index is there  *)
(* or created by the plan before, a plan that drops ends with no revision, *)
(* create_all creates whatever tables are missing unless some were dropped *)
(* meanwhile, and only the seed stores rows.                               *)
(***************************************************************************)
(* The greatest of a set of positions. *)
LEMMA GreatestElement ==
    ASSUME NEW n \in Nat, NEW s \in SUBSET (1..n), s # {}
    PROVE  Max(s) \in s /\ \A i \in s : i <= Max(s)
<1> DEFINE mirrored == {n - i : i \in s}
<1>1. mirrored \in SUBSET Nat /\ mirrored # {}
  <2>1. \A i \in s : n - i \in Nat
    OBVIOUS
  <2> QED  BY <2>1
<1>2. PICK least \in mirrored : \A j \in mirrored : least <= j
  BY <1>1, LeastElement
<1>3. PICK top \in s : least = n - top
  BY <1>2
<1>4. \A i \in s : n - top <= n - i
  BY <1>2, <1>3
<1>5. \A i \in s : i <= top
  BY <1>4
<1>6. \E x \in s : \A y \in s : x >= y
  BY <1>5
<1> QED  BY <1>6 DEF Max

LastOf(s) == Max(s)

FoldStep(g, db, todo, s) ==
    IF s = {} THEN db ELSE ExecuteIn(g[s \ {LastOf(s)}], todo[LastOf(s)])

(* The fold over a plan goes through its statements one after the other. *)
LEMMA FoldsExist ==
    ASSUME NEW db, NEW todo, NEW n \in Nat
    PROVE  \E g : g = [s \in SUBSET (1..n) |-> FoldStep(g, db, todo, s)]
<1> DEFINE Good(g, k) == \A s \in SUBSET (1..n) : s \subseteq 1..k => g[s] = FoldStep(g, db, todo, s)
           T == {k \in Nat : \E g : Good(g, k)}
<1>1. 0 \in T
  <2> DEFINE g == [s \in SUBSET (1..n) |-> db]
  <2>1. Good(g, 0)
    <3> SUFFICES ASSUME NEW s \in SUBSET (1..n), s \subseteq 1..0 PROVE g[s] = FoldStep(g, db, todo, s)
      OBVIOUS
    <3>1. s = {}
      OBVIOUS
    <3> QED  BY <3>1 DEF FoldStep
  <2> QED  BY <2>1
<1>2. ASSUME NEW k \in Nat, k \in T PROVE k + 1 \in T
  <2>1. PICK g : Good(g, k)
    BY <1>2
  <2> DEFINE h == [s \in SUBSET (1..n) |-> FoldStep(g, db, todo, s)]
  <2>2. ASSUME NEW s \in SUBSET (1..n), s \subseteq 1..(k + 1), s # {}
        PROVE  h[s] = FoldStep(h, db, todo, s)
    <3> DEFINE less == s \ {LastOf(s)}
    <3>1. less \in SUBSET (1..n) /\ less \subseteq 1..k
      <4>1. LastOf(s) \in s /\ \A i \in s : i <= LastOf(s)
        BY <2>2, GreatestElement DEF LastOf
      <4>2. \A i \in s : i \in 1..n /\ i \in 1..(k + 1)
        BY <2>2
      <4>3. ASSUME NEW i \in s, i # LastOf(s) PROVE i \in 1..k
        <5>1. LastOf(s) \in 1..(k + 1) /\ i \in 1..(k + 1) /\ i <= LastOf(s)
          BY <4>1, <4>2
        <5> QED  BY <4>3, <5>1
      <4> QED  BY <4>2, <4>3
    <3>2. h[less] = g[less]
      BY <2>1, <3>1
    <3>3. h[s] = FoldStep(g, db, todo, s)
      BY <2>2
    <3> HIDE DEF h, Good
    <3> QED  BY <3>2, <3>3 DEF FoldStep
  <2>3. \A s \in SUBSET (1..n) : s = {} => h[s] = FoldStep(h, db, todo, s)
    BY DEF FoldStep
  <2>4. Good(h, k + 1)
    <3> HIDE DEF h
    <3> QED  BY <2>2, <2>3
  <2>5. \E f : Good(f, k + 1)
    <3> HIDE DEF h, Good
    <3> QED  BY <2>4
  <2> QED  BY <2>5
<1>3. Nat \subseteq T
  <2> HIDE DEF T
  <2> QED  BY <1>1, <1>2, Induction
<1>4. PICK g : Good(g, n)
  BY <1>3
<1> DEFINE h == [s \in SUBSET (1..n) |-> FoldStep(g, db, todo, s)]
<1>5. \A s \in SUBSET (1..n) : h[s] = g[s]
  BY <1>4
<1>6. \A s \in SUBSET (1..n) : FoldStep(h, db, todo, s) = FoldStep(g, db, todo, s)
  <2> HIDE DEF h
  <2>1. \A s \in SUBSET (1..n) : s \ {LastOf(s)} \in SUBSET (1..n)
    OBVIOUS
  <2> QED  BY <1>5, <2>1 DEF FoldStep
<1>7. h = [s \in SUBSET (1..n) |-> FoldStep(h, db, todo, s)]
  <2>1. h = [s \in SUBSET (1..n) |-> FoldStep(g, db, todo, s)]
    OBVIOUS
  <2> HIDE DEF h
  <2> QED  BY <1>6, <2>1
<1> QED  BY <1>7

Folded(db, todo, n) ==
    CHOOSE g : g = [s \in SUBSET (1..n) |-> FoldStep(g, db, todo, s)]

(* What MapThenFoldSet computes of a plan is that fold.                     *)
LEMMA FoldIsFolded ==
    ASSUME NEW db, NEW todo, NEW n \in Nat, DOMAIN todo = 1..n
    PROVE  FoldLeft(ExecuteIn, db, todo) = Folded(db, todo, n)[1..n]
  BY DEF FoldLeft, MapThenFoldSet, Folded, FoldStep, LastOf

(* The fold after k statements is the k-th done after the others.           *)
LEMMA FoldedStep ==
    ASSUME NEW db, NEW todo, NEW n \in Nat
    PROVE  /\ Folded(db, todo, n)[1..0] = db
           /\ \A k \in 1..n : Folded(db, todo, n)[1..k] = ExecuteIn(Folded(db, todo, n)[1..(k - 1)], todo[k])
<1> DEFINE g == Folded(db, todo, n)
<1>1. g = [s \in SUBSET (1..n) |-> FoldStep(g, db, todo, s)]
  BY FoldsExist DEF Folded
<1> HIDE DEF g
<1>2. g[1..0] = db
  <2>1. 1..0 = {} 
    OBVIOUS
  <2>2. {} \in SUBSET (1..n)
    OBVIOUS
  <2>3. g[{}] = FoldStep(g, db, todo, {})
    BY <1>1, <2>2
  <2> QED  BY <2>1, <2>3 DEF FoldStep
<1>3. ASSUME NEW k \in 1..n PROVE g[1..k] = ExecuteIn(g[1..(k - 1)], todo[k])
  <2>1. 1..k \in SUBSET (1..n) /\ 1..k # {}
    OBVIOUS
  <2>2. LastOf(1..k) = k
    <3>1. Max(1..k) \in 1..k /\ \A i \in 1..k : i <= Max(1..k)
      BY <2>1, GreatestElement
    <3> QED  BY <3>1 DEF LastOf
  <2>3. (1..k) \ {k} = 1..(k - 1)
    OBVIOUS
  <2>4. g[1..k] = FoldStep(g, db, todo, 1..k)
    BY <1>1, <2>1
  <2> QED  BY <2>1, <2>2, <2>3, <2>4 DEF FoldStep
<1> QED  BY <1>2, <1>3 DEF g

Statement ==
    [op : {"create", "drop"}, arg : Relations] \union [op : {"stamp"}, arg : 0..2]
        \union [op : {"extend"}, arg : {WantedExtensions}]
        \union [op : {"partition"}, arg : {EventsKey}] \union [op : {"rows"}, arg : BOOLEAN]

(* Where a relation stands in CreationOrder, which goes through them all.   *)
Place(r) ==
    CASE r = "tenants" -> 1
      [] r = "users" -> 2
      [] r = "ix_users_tenant_email" -> 3
      [] r = "hosts" -> 4
      [] r = "ix_hosts_tenant" -> 5
      [] r = "streams" -> 6
      [] r = "ix_streams_tenant" -> 7
      [] r = "ix_streams_host" -> 8
      [] r = "events" -> 9
      [] r = "ix_events_stream_time" -> 10
      [] r = "ix_events_tenant_time" -> 11
      [] r = "alerts" -> 12
      [] r = "ix_alerts_tenant_state" -> 13
      [] r = "ix_alerts_stream" -> 14
      [] r = "api_keys" -> 15
      [] r = "usage_counters" -> 16
      [] r = "ix_usage_tenant_bucket" -> 17

LEMMA RelationsInOrder ==
    /\ Len(CreationOrder) = 17 /\ DOMAIN CreationOrder = 1..17 /\ CreationOrder \in Seq(Relations)
    /\ \A i \in 1..17 : CreationOrder[i] \in Relations /\ Place(CreationOrder[i]) = i
    /\ \A r \in Relations : Place(r) \in 1..17 /\ CreationOrder[Place(r)] = r
<1>1. Len(CreationOrder) = 17 /\ DOMAIN CreationOrder = 1..17
  BY DEF CreationOrder
<1>2. Relations = {CreationOrder[i] : i \in 1..17}
  BY <1>1 DEF Relations, ToSet
<1>3. \A i \in 1..17 : Place(CreationOrder[i]) = i
  BY DEF CreationOrder, Place
<1>4. \A i \in 1..17 : CreationOrder[i] \in Relations
  BY <1>2
<1>5. CreationOrder \in Seq(Relations)
  <2>1. CreationOrder = [i \in 1..17 |-> CreationOrder[i]]
    BY DEF CreationOrder
  <2>2. PICK w : w = CreationOrder
    OBVIOUS
  <2>3. w = [i \in 1..17 |-> w[i]] /\ \A i \in 1..17 : w[i] \in Relations
    BY <1>4, <2>1, <2>2
  <2> QED  BY <2>2, <2>3
<1> QED  BY <1>1, <1>2, <1>3, <1>5

(* Between an index and its table come only indexes of that table.          *)
LEMMA IndexesFollow ==
    /\ \A r \in Relations : TableOf(r) \in Tables /\ TableOf(TableOf(r)) = TableOf(r)
    /\ \A r \in Indexes : /\ r # TableOf(r) /\ Place(TableOf(r)) < Place(r)
                           /\ \A x \in Relations : Place(TableOf(r)) < Place(x) /\ Place(x) <= Place(r) =>
                                 x \in Indexes /\ TableOf(x) = TableOf(r)
<1>1. Relations = {CreationOrder[i] : i \in 1..17}
  BY RelationsInOrder DEF Relations, ToSet
<1>2. Relations = {"tenants", "users", "ix_users_tenant_email", "hosts", "ix_hosts_tenant",
                   "streams", "ix_streams_tenant", "ix_streams_host", "events",
                   "ix_events_stream_time", "ix_events_tenant_time", "alerts",
                   "ix_alerts_tenant_state", "ix_alerts_stream", "api_keys",
                   "usage_counters", "ix_usage_tenant_bucket"}
  BY <1>1 DEF CreationOrder
<1>3. Tables = {"tenants", "users", "hosts", "streams", "events", "alerts", "api_keys", "usage_counters"}
  BY <1>2 DEF Tables, TableOf
<1>4. Indexes = {"ix_users_tenant_email", "ix_hosts_tenant", "ix_streams_tenant", "ix_streams_host",
                 "ix_events_stream_time", "ix_events_tenant_time", "ix_alerts_tenant_state",
                 "ix_alerts_stream", "ix_usage_tenant_bucket"}
  BY <1>2, <1>3 DEF Indexes
<1>5. ASSUME NEW r \in Relations PROVE TableOf(r) \in Tables /\ TableOf(TableOf(r)) = TableOf(r)
  BY <1>2, <1>3 DEF TableOf
<1>6. ASSUME NEW r \in Indexes PROVE r # TableOf(r) /\ Place(TableOf(r)) < Place(r)
  BY <1>4 DEF TableOf, Place
<1>7. ASSUME NEW r \in Indexes, NEW x \in Relations, Place(TableOf(r)) < Place(x), Place(x) <= Place(r)
      PROVE  x \in Indexes /\ TableOf(x) = TableOf(r)
  <2>1. CASE r = "ix_users_tenant_email"
    BY <1>2, <1>4, <1>7, <2>1 DEF TableOf, Place
  <2>2. CASE r = "ix_hosts_tenant"
    BY <1>2, <1>4, <1>7, <2>2 DEF TableOf, Place
  <2>3. CASE r \in {"ix_streams_tenant", "ix_streams_host"}
    BY <1>2, <1>4, <1>7, <2>3 DEF TableOf, Place
  <2>4. CASE r \in {"ix_events_stream_time", "ix_events_tenant_time"}
    BY <1>2, <1>4, <1>7, <2>4 DEF TableOf, Place
  <2>5. CASE r \in {"ix_alerts_tenant_state", "ix_alerts_stream"}
    BY <1>2, <1>4, <1>7, <2>5 DEF TableOf, Place
  <2>6. CASE r = "ix_usage_tenant_bucket"
    BY <1>2, <1>4, <1>7, <2>6 DEF TableOf, Place
  <2> QED  BY <1>4, <2>1, <2>2, <2>3, <2>4, <2>5, <2>6
<1> QED  BY <1>5, <1>6, <1>7

(* A set of relations, each once and in the order of creation.              *)
EachOnce(s, wanted) ==
    /\ s \in Seq(Relations)
    /\ \A i \in 1..Len(s) : s[i] \in wanted
    /\ \A r \in wanted : \E i \in 1..Len(s) : s[i] = r
    /\ \A i, j \in 1..Len(s) : i < j => Place(s[i]) < Place(s[j])

(* What create_all is going to create: the tables that are not there, and   *)
(* their indexes.                                                           *)
MissingStep(M, db, i) ==
    IF i = 0 THEN << >>
    ELSE IF TableOf(CreationOrder[i]) \in db.relations THEN M[i - 1]
    ELSE Append(M[i - 1], CreationOrder[i])

MissingWith(db) == {r \in Relations : TableOf(r) \notin db.relations}

LEMMA MissingTables == ASSUME NEW db PROVE EachOnce(NotThere(db), MissingWith(db))
<1> DEFINE Steps(M, k) == M[0] = << >> /\ \A i \in 1..k : M[i] = MissingStep(M, db, i)
           T == {k \in Nat : \E M : Steps(M, k)}
<1>1. 0 \in T
  <2> DEFINE M == [i \in 0..0 |-> << >>]
  <2>1. Steps(M, 0)
    OBVIOUS
  <2> QED  BY <2>1
<1>2. ASSUME NEW k \in Nat, k \in T PROVE k + 1 \in T
  <2>1. PICK M : Steps(M, k)
    BY <1>2
  <2> DEFINE N == [i \in 0..(k + 1) |-> MissingStep(M, db, i)]
  <2>2. N[0] = << >>
    BY DEF MissingStep
  <2>3. ASSUME NEW i \in 1..(k + 1) PROVE N[i] = MissingStep(N, db, i)
    <3>1. i - 1 \in 0..k /\ i - 1 \in 0..(k + 1) /\ i \in 0..(k + 1) /\ i # 0
      OBVIOUS
    <3>2. N[i - 1] = M[i - 1]
      <4>1. CASE i - 1 = 0
        BY <2>1, <2>2, <4>1
      <4>2. CASE i - 1 \in 1..k
        BY <2>1, <3>1, <4>2
      <4> QED  BY <3>1, <4>1, <4>2
    <3>3. N[i] = MissingStep(M, db, i)
      BY <3>1
    <3> HIDE DEF N
    <3> QED  BY <3>1, <3>2, <3>3 DEF MissingStep
  <2>4. Steps(N, k + 1)
    <3> HIDE DEF N
    <3> QED  BY <2>2, <2>3
  <2>5. \E f : Steps(f, k + 1)
    <3> HIDE DEF N, Steps
    <3> QED  BY <2>4
  <2> QED  BY <2>5
<1>3. Nat \subseteq T
  <2> HIDE DEF T
  <2> QED  BY <1>1, <1>2, Induction
<1>4. PICK M : Steps(M, 17)
  BY <1>3
<1>5. \E f : f = [i \in 0..17 |-> MissingStep(f, db, i)]
  <2> DEFINE N == [i \in 0..17 |-> MissingStep(M, db, i)]
  <2>1. ASSUME NEW i \in 0..17 PROVE N[i] = M[i]
    <3>1. N[i] = MissingStep(M, db, i)
      OBVIOUS
    <3>2. CASE i = 0
      BY <1>4, <3>1, <3>2 DEF MissingStep
    <3>3. CASE i \in 1..17
      BY <1>4, <3>1, <3>3
    <3> QED  BY <3>2, <3>3
  <2>2. \A i \in 0..17 : MissingStep(N, db, i) = MissingStep(M, db, i)
    <3> HIDE DEF N
    <3> QED  BY <2>1 DEF MissingStep
  <2>3. N = [i \in 0..17 |-> MissingStep(M, db, i)]
    OBVIOUS
  <2>4. N = [i \in 0..17 |-> MissingStep(N, db, i)]
    <3> HIDE DEF N
    <3> QED  BY <2>2, <2>3
  <2> QED  BY <2>4
<1> DEFINE F == CHOOSE f : f = [i \in 0..17 |-> MissingStep(f, db, i)]
<1>6. F = [i \in 0..17 |-> MissingStep(F, db, i)]
  BY <1>5
<1>12. \A i \in 0..17 : F[i] = MissingStep(F, db, i)
  <2> HIDE DEF F
  <2> QED  BY <1>6
<1>7. NotThere(db) = F[17]
  BY RelationsInOrder DEF NotThere, MissingStep
<1> HIDE DEF F
<1> DEFINE W(k) == {r \in MissingWith(db) : Place(r) <= k}
           G == {k \in Nat : k <= 17 => EachOnce(F[k], W(k))}
<1>8. 0 \in G
  <2>1. F[0] = << >>
    <3>1. F[0] = MissingStep(F, db, 0)
      BY <1>12
    <3> QED  BY <3>1 DEF MissingStep
  <2>2. << >> \in Seq(Relations) /\ Len(<< >>) = 0 /\ 1..0 = {}
    OBVIOUS
  <2>3. W(0) = {}
    BY RelationsInOrder DEF MissingWith
  <2>4. EachOnce(<< >>, {})
    BY <2>2 DEF EachOnce
  <2> QED  BY <2>1, <2>3, <2>4
<1>9. ASSUME NEW k \in Nat, k \in G PROVE k + 1 \in G
  <2> SUFFICES ASSUME k + 1 <= 17 PROVE EachOnce(F[k + 1], W(k + 1))
    OBVIOUS
  <2> DEFINE x == CreationOrder[k + 1]
  <2>1. EachOnce(F[k], W(k))
    BY <1>9
  <2>2. x \in Relations /\ Place(x) = k + 1 /\ \A r \in Relations : Place(r) = k + 1 => r = x
    BY RelationsInOrder
  <2>3. F[k + 1] = IF TableOf(x) \in db.relations THEN F[k] ELSE Append(F[k], x)
    <3>1. k + 1 \in 0..17 /\ k + 1 # 0 /\ (k + 1) - 1 = k
      OBVIOUS
    <3>2. F[k + 1] = MissingStep(F, db, k + 1)
      BY <1>12, <3>1
    <3> QED  BY <3>1, <3>2 DEF MissingStep
  <2> HIDE DEF x
  <2>4. \A r \in Relations : Place(r) \in Nat
    BY RelationsInOrder
  <2>5. W(k + 1) = W(k) \union {r \in {x} : TableOf(x) \notin db.relations}
    BY <2>2, <2>4 DEF MissingWith
  <2>6. CASE TableOf(x) \in db.relations
    <3>1. W(k + 1) = W(k)
      BY <2>5, <2>6
    <3> QED  BY <2>1, <2>3, <2>6, <3>1
  <2>7. CASE TableOf(x) \notin db.relations
    <3> DEFINE s == F[k]
               s2 == Append(F[k], x)
    <3>1. W(k + 1) = W(k) \union {x} /\ \A r \in W(k) : Place(r) < Place(x)
      BY <2>2, <2>4, <2>5, <2>7 DEF MissingWith
    <3>2. /\ s \in Seq(Relations) /\ \A i \in 1..Len(s) : s[i] \in W(k)
          /\ \A r \in W(k) : \E i \in 1..Len(s) : s[i] = r
          /\ \A i, j \in 1..Len(s) : i < j => Place(s[i]) < Place(s[j])
      BY <2>1 DEF EachOnce
    <3>3. /\ s2 \in Seq(Relations) /\ Len(s2) = Len(s) + 1 /\ s2[Len(s) + 1] = x
          /\ Len(s) \in Nat
      BY <2>2, <3>2
    <3>4. \A i \in 1..Len(s) : s2[i] = s[i]
      BY <2>2, <3>2
    <3>5. F[k + 1] = s2
      BY <2>3, <2>7
    <3> HIDE DEF s, s2, W
    <3>6. \A i \in 1..Len(s2) : i \in 1..Len(s) \/ i = Len(s) + 1
      BY <3>3
    <3>7. \A i \in 1..Len(s2) : s2[i] \in W(k + 1)
      BY <3>1, <3>2, <3>3, <3>4, <3>6
    <3>8. ASSUME NEW r \in W(k + 1) PROVE \E i \in 1..Len(s2) : s2[i] = r
      <4>1. CASE r = x
        BY <3>3, <4>1
      <4>2. CASE r \in W(k)
        <5>1. PICK i \in 1..Len(s) : s[i] = r
          BY <3>2, <4>2
        <5>2. i \in 1..Len(s2)
          BY <3>3
        <5> QED  BY <3>4, <5>1, <5>2
      <4> QED  BY <3>1, <4>1, <4>2
    <3>9. ASSUME NEW i \in 1..Len(s2), NEW j \in 1..Len(s2), i < j PROVE Place(s2[i]) < Place(s2[j])
      <4>1. i \in 1..Len(s)
        BY <3>3, <3>9
      <4>2. CASE j \in 1..Len(s)
        BY <3>2, <3>4, <3>9, <4>1, <4>2
      <4>3. CASE j = Len(s) + 1
        BY <3>1, <3>2, <3>3, <3>4, <4>1, <4>3
      <4> QED  BY <3>6, <4>2, <4>3
    <3> QED  BY <3>3, <3>5, <3>7, <3>8, <3>9 DEF EachOnce
  <2> QED  BY <2>6, <2>7
<1>10. Nat \subseteq G
  <2> HIDE DEF G
  <2> QED  BY <1>8, <1>9, Induction
<1>11. EachOnce(F[17], W(17))
  <2>1. 17 \in G
    BY <1>10
  <2> QED  BY <2>1
<1>13. W(17) = MissingWith(db)
  BY RelationsInOrder DEF MissingWith
<1> QED  BY <1>7, <1>11, <1>13

Databases == [relations : SUBSET Relations, version : 0..2, entities : BOOLEAN, demoEvents : Nat]

LEMMA StatementShapes ==
    ASSUME NEW s \in Statement
    PROVE  /\ s.op \in {"create", "drop", "stamp", "extend", "partition", "rows"}
           /\ s.op \in {"create", "drop"} => s.arg \in Relations
           /\ s.op = "stamp" => s.arg \in 0..2
           /\ s.op = "rows" => s.arg \in BOOLEAN
<1>1. CASE s \in [op : {"create", "drop"}, arg : Relations]
  BY <1>1
<1>2. CASE s \in [op : {"stamp"}, arg : 0..2]
  BY <1>2
<1>3. CASE s \in [op : {"extend"}, arg : {WantedExtensions}]
  BY <1>3
<1>4. CASE s \in [op : {"partition"}, arg : {EventsKey}]
  BY <1>4
<1>5. CASE s \in [op : {"rows"}, arg : BOOLEAN]
  BY <1>5
<1> QED  BY <1>1, <1>2, <1>3, <1>4, <1>5 DEF Statement

(* What one statement does to a database.                                   *)
LEMMA StatementEffects ==
    ASSUME NEW db \in Databases, NEW s \in Statement
    PROVE  /\ Executed(s, db) \in Databases /\ Executed(s, db) # Refused /\ db # Refused
           /\ s.op = "create" => Executed(s, db).relations = db.relations \union {s.arg}
           /\ s.op = "drop" => Executed(s, db).relations =
                                 {r \in db.relations : r # s.arg /\ TableOf(r) # s.arg}
           /\ s.op \notin {"create", "drop"} => Executed(s, db).relations = db.relations
           /\ s.op = "stamp" => Executed(s, db).version = s.arg
           /\ s.op # "stamp" => Executed(s, db).version = db.version
           /\ s.op \notin {"drop", "rows"} => /\ Executed(s, db).entities = db.entities
                                              /\ Executed(s, db).demoEvents = db.demoEvents
           /\ s.op = "rows" => /\ Executed(s, db).entities
                               /\ Executed(s, db).demoEvents = db.demoEvents + 3
<1>1. db.version # -1 /\ Refused.version = -1
  BY DEF Databases, Refused, NothingStored
<1>2. db # Refused
  BY <1>1
<1>3. CASE s.op = "create"
  BY <1>1, <1>3, StatementShapes DEF Executed, Databases
<1>4. CASE s.op = "drop"
  BY <1>1, <1>4, StatementShapes DEF Executed, Databases
<1>5. CASE s.op = "stamp"
  BY <1>1, <1>5, StatementShapes DEF Executed, Databases
<1>6. CASE s.op = "rows"
  <2>1. Executed(s, db) = Seeded(db)
    BY <1>6 DEF Executed
  <2>2. /\ Seeded(db).relations = db.relations /\ Seeded(db).version = db.version
        /\ Seeded(db).demoEvents = db.demoEvents + 3
    BY DEF Seeded, Databases
  <2>5. Seeded(db).entities
    BY DEF Seeded, Databases
  <2>3. Seeded(db) \in Databases
    <3>1. [db EXCEPT !.entities = TRUE] \in Databases
      BY DEF Databases
    <3>2. db.demoEvents + 3 \in Nat
      BY DEF Databases
    <3>3. [[db EXCEPT !.entities = TRUE] EXCEPT !.demoEvents = db.demoEvents + 3] \in Databases
      BY <3>1, <3>2 DEF Databases
    <3>4. Seeded(db) = [[db EXCEPT !.entities = TRUE] EXCEPT !.demoEvents = db.demoEvents + 3]
      BY DEF Seeded
    <3> QED  BY <3>3, <3>4
  <2>4. Seeded(db) # Refused
    BY <1>1, <2>3 DEF Databases
  <2> QED  BY <1>2, <1>6, <2>1, <2>2, <2>3, <2>4, <2>5
<1>7. CASE s.op \in {"extend", "partition"}
  <2>1. Executed(s, db) = db
    BY <1>7 DEF Executed
  <2> QED  BY <1>2, <1>7, <2>1
<1> QED  BY <1>2, <1>3, <1>4, <1>5, <1>6, <1>7, StatementShapes

(* A plan that is not refused has executed its statements one by one.       *)
LEMMA RunOfPlan ==
    ASSUME NEW db \in Databases, NEW todo \in Seq(Statement), FoldLeft(ExecuteIn, db, todo) # Refused
    PROVE  \E R : /\ R[0] = db /\ R[Len(todo)] = FoldLeft(ExecuteIn, db, todo)
                  /\ \A k \in 0..Len(todo) : R[k] \in Databases
                  /\ \A k \in 1..Len(todo) : R[k] = Executed(todo[k], R[k - 1])
<1> DEFINE n == Len(todo)
           G == Folded(db, todo, n)
           R == [k \in 0..n |-> G[1..k]]
<1>1. n \in Nat /\ DOMAIN todo = 1..n
  OBVIOUS
<1>2. R[n] = FoldLeft(ExecuteIn, db, todo)
  BY <1>1, FoldIsFolded
<1>3. R[0] = db /\ \A k \in 1..n : R[k] = ExecuteIn(R[k - 1], todo[k])
  <2> HIDE DEF G
  <2>1. G[1..0] = db /\ \A k \in 1..n : G[1..k] = ExecuteIn(G[1..(k - 1)], todo[k])
    BY <1>1, FoldedStep DEF G
  <2>2. \A k \in 1..n : k \in 0..n /\ k - 1 \in 0..n
    BY <1>1
  <2>3. 0 \in 0..n
    BY <1>1
  <2> QED  BY <2>1, <2>2, <2>3
<1> HIDE DEF R, n
<1>4. \A k \in 1..n : R[k] # Refused =>
         R[k - 1] # Refused /\ R[k] = Executed(todo[k], R[k - 1])
  BY <1>3 DEF ExecuteIn
<1> DEFINE T == {k \in Nat : k <= n => R[n - k] # Refused}
<1>5. 0 \in T
  BY <1>1, <1>2
<1>6. ASSUME NEW k \in Nat, k \in T PROVE k + 1 \in T
  <2> SUFFICES ASSUME k + 1 <= n PROVE R[n - (k + 1)] # Refused
    OBVIOUS
  <2>1. n - k \in 1..n /\ (n - k) - 1 = n - (k + 1) /\ R[n - k] # Refused
    BY <1>1, <1>6
  <2> QED  BY <1>4, <2>1
<1>7. Nat \subseteq T
  <2> HIDE DEF T
  <2> QED  BY <1>5, <1>6, Induction
<1>8. ASSUME NEW k \in 0..n PROVE R[k] # Refused
  <2>1. n - k \in Nat /\ n - k <= n /\ n - (n - k) = k
    BY <1>1
  <2>2. n - k \in T
    BY <1>7, <2>1
  <2> QED  BY <2>1, <2>2
<1>9. \A k \in 1..n : R[k] = Executed(todo[k], R[k - 1])
  <2>1. \A k \in 1..n : k \in 0..n
    OBVIOUS
  <2> QED  BY <1>4, <1>8, <2>1
<1> DEFINE D == {k \in Nat : k <= n => R[k] \in Databases}
<1>10. 0 \in D
  BY <1>3
<1>11. ASSUME NEW k \in Nat, k \in D PROVE k + 1 \in D
  <2> SUFFICES ASSUME k + 1 <= n PROVE R[k + 1] \in Databases
    OBVIOUS
  <2>1. k + 1 \in 1..n /\ (k + 1) - 1 = k /\ R[k] \in Databases
    BY <1>1, <1>11
  <2>2. todo[k + 1] \in Statement
    BY <1>1, <2>1, ElementOfSeq DEF n
  <2> QED  BY <1>9, <2>1, <2>2, StatementEffects
<1>12. Nat \subseteq D
  <2> HIDE DEF D
  <2> QED  BY <1>10, <1>11, Induction
<1>13. \A k \in 0..n : R[k] \in Databases
  BY <1>1, <1>12
<1> QED  BY <1>2, <1>3, <1>9, <1>13 DEF n

(* A run of statements of one kind.                                         *)
LEMMA StatementsOf ==
    ASSUME NEW op, NEW A, NEW args \in Seq(A), \A a \in A : [op |-> op, arg |-> a] \in Statement
    PROVE  /\ Statements(op, args) \in Seq(Statement) /\ Len(Statements(op, args)) = Len(args)
           /\ \A k \in 1..Len(args) : Statements(op, args)[k] = [op |-> op, arg |-> args[k]]
<1> DEFINE n == Len(args)
           s == Statements(op, args)
<1>1. n \in Nat /\ DOMAIN args = 1..n
  OBVIOUS
<1>2. s = [k \in 1..n |-> [op |-> op, arg |-> args[k]]]
  BY <1>1 DEF Statements
<1>3. \A k \in 1..n : args[k] \in A
  BY ElementOfSeq
<1> HIDE DEF n
<1>4. s \in [1..n -> Statement]
  BY <1>2, <1>3
<1>5. s \in Seq(Statement) /\ Len(s) = n
  BY <1>1, <1>4, <1>2
<1> QED  BY <1>2, <1>5 DEF n

(* A plan after another.                                                    *)
LEMMA Concatenated ==
    ASSUME NEW S, NEW s \in Seq(S), NEW t \in Seq(S)
    PROVE  /\ s \o t \in Seq(S) /\ Len(s \o t) = Len(s) + Len(t)
           /\ \A k \in 1..Len(s) : (s \o t)[k] = s[k]
           /\ \A k \in (Len(s) + 1)..(Len(s) + Len(t)) : (s \o t)[k] = t[k - Len(s)]
  OBVIOUS

(* A plan of one statement.                                                 *)
LEMMA OneStatement ==
    ASSUME NEW op, NEW a, [op |-> op, arg |-> a] \in Statement
    PROVE  /\ Statements(op, <<a>>) \in Seq(Statement) /\ Len(Statements(op, <<a>>)) = 1
           /\ Statements(op, <<a>>)[1] = [op |-> op, arg |-> a]
<1> DEFINE s == Statements(op, <<a>>)
<1>1. s = [k \in 1..1 |-> [op |-> op, arg |-> a]]
  <2>1. DOMAIN <<a>> = 1..1 /\ \A k \in 1..1 : <<a>>[k] = a
    OBVIOUS
  <2> QED  BY <2>1 DEF Statements
<1> HIDE DEF s
<1>2. s \in Seq(Statement) /\ Len(s) = 1 /\ s[1] = [op |-> op, arg |-> a]
  BY <1>1
<1> QED  BY <1>2 DEF s

(* The parts the plans are put together from. *)
LEMMA StampPlan ==
    ASSUME NEW r \in 0..2
    PROVE  /\ Stamp(r) \in Seq(Statement) /\ Len(Stamp(r)) = 1
           /\ Stamp(r)[1].op = "stamp" /\ Stamp(r)[1].arg = r
<1>1. [op |-> "stamp", arg |-> r] \in Statement
  BY DEF Statement
<1> QED  BY <1>1, OneStatement DEF Stamp

(* 0001 creates every table and stamps 1; its downgrade drops and stamps 0. *)
LEMMA FirstUpgradePlan ==
    /\ FirstUpgrade \in Seq(Statement) /\ Len(FirstUpgrade) = 18
    /\ \A k \in 1..17 : FirstUpgrade[k] = [op |-> "create", arg |-> CreationOrder[k]]
    /\ FirstUpgrade[18].op = "stamp" /\ FirstUpgrade[18].arg = 1
<1> DEFINE s == Statements("create", CreationOrder)
<1>1. \A a \in Relations : [op |-> "create", arg |-> a] \in Statement
  BY DEF Statement
<1>2. /\ s \in Seq(Statement) /\ Len(s) = 17
      /\ \A k \in 1..17 : s[k] = [op |-> "create", arg |-> CreationOrder[k]]
  BY <1>1, RelationsInOrder, StatementsOf
<1>3. Stamp(1) \in Seq(Statement) /\ Len(Stamp(1)) = 1 /\ Stamp(1)[1].op = "stamp" /\ Stamp(1)[1].arg = 1
  BY StampPlan
<1> HIDE DEF s
<1>4. /\ s \o Stamp(1) \in Seq(Statement) /\ Len(s \o Stamp(1)) = Len(s) + Len(Stamp(1))
      /\ \A k \in 1..Len(s) : (s \o Stamp(1))[k] = s[k]
      /\ \A k \in (Len(s) + 1)..(Len(s) + Len(Stamp(1))) : (s \o Stamp(1))[k] = Stamp(1)[k - Len(s)]
  BY <1>2, <1>3, Concatenated
<1>5. FirstUpgrade = s \o Stamp(1)
  BY DEF FirstUpgrade, s
<1>6. (s \o Stamp(1))[18] = Stamp(1)[1]
  BY <1>2, <1>3, <1>4
<1> QED  BY <1>2, <1>3, <1>4, <1>5, <1>6

LEMMA FirstDowngradePlan ==
    /\ FirstDowngrade \in Seq(Statement) /\ Len(FirstDowngrade) = 18
    /\ \A k \in 1..17 : FirstDowngrade[k].op = "drop"
    /\ FirstDowngrade[18].op = "stamp" /\ FirstDowngrade[18].arg = 0
<1> DEFINE back == Reverse(CreationOrder)
           s == Statements("drop", back)
<1>1. \A a \in Relations : [op |-> "drop", arg |-> a] \in Statement
  BY DEF Statement
<1>2. back \in Seq(Relations) /\ Len(back) = 17
  <2>1. back = [i \in 1..17 |-> CreationOrder[17 - i + 1]]
    BY RelationsInOrder DEF Reverse
  <2>2. \A i \in 1..17 : 17 - i + 1 \in 1..17
    OBVIOUS
  <2>3. back \in [1..17 -> Relations]
    BY <2>1, <2>2, RelationsInOrder
  <2> HIDE DEF back
  <2> QED  BY <2>1, <2>3
<1> HIDE DEF back
<1>3. /\ s \in Seq(Statement) /\ Len(s) = 17
      /\ \A k \in 1..17 : s[k] = [op |-> "drop", arg |-> back[k]]
  BY <1>1, <1>2, StatementsOf
<1>4. Stamp(0) \in Seq(Statement) /\ Len(Stamp(0)) = 1 /\ Stamp(0)[1].op = "stamp" /\ Stamp(0)[1].arg = 0
  BY StampPlan
<1> HIDE DEF s
<1>5. /\ s \o Stamp(0) \in Seq(Statement) /\ Len(s \o Stamp(0)) = Len(s) + Len(Stamp(0))
      /\ \A k \in 1..Len(s) : (s \o Stamp(0))[k] = s[k]
      /\ \A k \in (Len(s) + 1)..(Len(s) + Len(Stamp(0))) : (s \o Stamp(0))[k] = Stamp(0)[k - Len(s)]
  BY <1>3, <1>4, Concatenated
<1>6. FirstDowngrade = s \o Stamp(0)
  BY DEF FirstDowngrade, s, back
<1>7. (s \o Stamp(0))[18] = Stamp(0)[1]
  BY <1>3, <1>4, <1>5
<1>8. \A k \in 1..17 : FirstDowngrade[k] = s[k] /\ s[k].op = "drop"
  BY <1>3, <1>5, <1>6
<1>9. Len(FirstDowngrade) = 18 /\ FirstDowngrade \in Seq(Statement)
  <2>1. Len(s) + Len(Stamp(0)) = 18
    <3>1. Len(s) = 17
      BY <1>3
    <3>2. Len(Stamp(0)) = 1
      BY <1>4
    <3>3. \A a, b : a = 17 /\ b = 1 => a + b = 18
      OBVIOUS
    <3> QED  BY <3>1, <3>2, <3>3, Zenon
  <2>2. PICK w : w = s \o Stamp(0)
    OBVIOUS
  <2>3. w \in Seq(Statement) /\ Len(w) = Len(s) + Len(Stamp(0))
    BY <1>5, <2>2
  <2> QED  BY <1>6, <2>1, <2>2, <2>3
<1> QED  BY <1>4, <1>6, <1>7, <1>8, <1>9

(* 0002 touches no table.                                                   *)
LEMMA SecondUpgradePlan ==
    /\ SecondUpgrade \in Seq(Statement)
    /\ \A k \in 1..Len(SecondUpgrade) : SecondUpgrade[k].op \in {"extend", "partition", "stamp"}
<1>1. Stamp(2) \in Seq(Statement) /\ Len(Stamp(2)) = 1 /\ Stamp(2)[1].op = "stamp"
  BY StampPlan
<1>2. /\ Enhancements \in Seq(Statement)
      /\ \A k \in 1..Len(Enhancements) : Enhancements[k].op \in {"extend", "partition"}
  <2>1. CASE dialect = "sqlite"
    BY <2>1 DEF Enhancements
  <2>2. CASE dialect # "sqlite"
    <3> DEFINE s == Statements("extend", <<WantedExtensions>>)
               t == Statements("partition", <<EventsKey>>)
    <3>1. [op |-> "extend", arg |-> WantedExtensions] \in Statement
      BY DEF Statement
    <3>2. [op |-> "partition", arg |-> EventsKey] \in Statement
      BY DEF Statement
    <3>5. s \in Seq(Statement) /\ Len(s) = 1 /\ s[1].op = "extend"
      BY <3>1, OneStatement
    <3>6. t \in Seq(Statement) /\ Len(t) = 1 /\ t[1].op = "partition"
      BY <3>2, OneStatement
    <3>7. Enhancements = s \o t
      BY <2>2 DEF Enhancements
    <3> HIDE DEF s, t
    <3>8. /\ s \o t \in Seq(Statement) /\ Len(s \o t) = Len(s) + Len(t)
          /\ \A k \in 1..Len(s) : (s \o t)[k] = s[k]
          /\ \A k \in (Len(s) + 1)..(Len(s) + Len(t)) : (s \o t)[k] = t[k - Len(s)]
      BY <3>5, <3>6, Concatenated
    <3>9. (s \o t)[1] = s[1] /\ (s \o t)[2] = t[1]
      BY <3>5, <3>6, <3>8
    <3> QED  BY <3>5, <3>6, <3>7, <3>8, <3>9
  <2> QED  BY <2>1, <2>2
<1> DEFINE s == Enhancements
           t == Stamp(2)
<1>3. SecondUpgrade = s \o t
  BY DEF SecondUpgrade
<1> HIDE DEF s, t
<1>4. /\ s \o t \in Seq(Statement) /\ Len(s \o t) = Len(s) + Len(t)
      /\ \A k \in 1..Len(s) : (s \o t)[k] = s[k]
      /\ \A k \in (Len(s) + 1)..(Len(s) + Len(t)) : (s \o t)[k] = t[k - Len(s)]
  BY <1>1, <1>2, Concatenated DEF s, t
<1>5. Len(s) \in Nat /\ Len(t) = 1 /\ (s \o t)[Len(s) + 1] = t[1]
  BY <1>1, <1>2, <1>4 DEF s, t
<1>6. \A k \in 1..Len(s \o t) : k \in 1..Len(s) \/ k = Len(s) + 1
  BY <1>4, <1>5
<1> QED  BY <1>1, <1>2, <1>3, <1>4, <1>5, <1>6 DEF s, t

Excused == halfDropped /\ dialect = "sqlite"

(* What is wanted is there or created by one of the first statements.       *)
Covered(wanted, relations, todo, n) ==
    \A r \in wanted : r \in relations \/ \E m \in 1..n : todo[m].op = "create" /\ todo[m].arg = r

(* An Alembic command stamps a revision when the tables are there, unless   *)
(* they were dropped, and one that drops tables ends with no revision.      *)
AlembicTodo(todo, relations, excused) ==
    /\ \A n \in 1..Len(todo) : todo[n].op # "rows"
    /\ \A n \in 1..Len(todo) :
          todo[n].op = "stamp" /\ todo[n].arg # 0 => excused \/ Covered(Relations, relations, todo, n - 1)
    /\ \A m \in 1..Len(todo) : todo[m].op = "drop" =>
          /\ todo[Len(todo)].op = "stamp"
          /\ \A n \in m..Len(todo) : todo[n].op = "stamp" => todo[n].arg = 0

(* create_all makes what is missing, unless it is dropped meanwhile.        *)
CreateTodo(todo, relations, half) ==
    /\ \A n \in 1..Len(todo) : todo[n].op = "create"
    /\ half \/ Covered(Tables, relations, todo, Len(todo))

RowsTodo(todo) == Len(todo) <= 1 /\ \A n \in 1..Len(todo) : todo[n].op = "rows"

AlembicKinds == {"upgrade", "downgrade"}

TodoInv(c) ==
    /\ c.kind \in AlembicKinds => AlembicTodo(c.todo, database.relations, Excused)
    /\ c.kind \in {"start", "seed"} => CreateTodo(c.todo, database.relations, halfDropped)
    /\ c.kind = "seeding" => RowsTodo(c.todo)
    /\ c.kind = "none" => c.todo = << >>

Commands == [kind : Kinds \union {"none", "seeding"}, todo : Seq(Statement), clean : BOOLEAN]

SchemaTypes ==
    /\ database \in Databases /\ seedings \in Nat
    /\ halfDropped \in BOOLEAN /\ everDropped \in BOOLEAN
    /\ command \in [Slots -> Commands]

SchemaInv ==
    /\ SchemaTypes
    /\ \A i \in Slots : TodoInv(command[i])
    /\ \A i, j \in Slots : command[i].kind \in AlembicKinds /\ command[j].kind \in AlembicKinds => i = j
    /\ database.version # 0 => Whole \/ Excused
    /\ ServedByTables
    /\ SeededWhole

(* A plan that creates some relations first, and none after them.           *)
Creates(todo, s) ==
    /\ Len(todo) >= Len(s)
    /\ \A k \in 1..Len(s) : todo[k].op = "create" /\ todo[k].arg = s[k]
    /\ \A k \in (Len(s) + 1)..Len(todo) : todo[k].op # "create"

(* Each command begins with a plan that keeps to its kind.                  *)
LEMMA UpgradePlan ==
    ASSUME NEW v \in 0..2, database.version = v, v # 0 => Whole \/ Excused, database \in Databases
    PROVE  /\ Upgrade(v) \in Seq(Statement) /\ AlembicTodo(Upgrade(v), database.relations, Excused)
           /\ v = 0 => Creates(Upgrade(v), CreationOrder)
           /\ v # 0 => \A k \in 1..Len(Upgrade(v)) : Upgrade(v)[k].op # "create"
<1> DEFINE s == FirstUpgrade
           t == SecondUpgrade
<1>1. /\ s \in Seq(Statement) /\ Len(s) = 18
      /\ \A k \in 1..17 : s[k] = [op |-> "create", arg |-> CreationOrder[k]]
      /\ s[18].op = "stamp" /\ s[18].arg = 1
  BY FirstUpgradePlan
<1>2. /\ t \in Seq(Statement)
      /\ \A k \in 1..Len(t) : t[k].op \in {"extend", "partition", "stamp"}
  BY SecondUpgradePlan
<1> HIDE DEF s, t
<1>3. << >> \in Seq(Statement) /\ Len(<< >>) = 0 /\ 1..0 = {}
  OBVIOUS
<1>4. CASE v = 2
  <2>1. Upgrade(v) = << >> \o << >>
    BY <1>4 DEF Upgrade
  <2>2. << >> \o << >> = << >>
    OBVIOUS
  <2>3. Upgrade(v) = << >>
    BY <2>1, <2>2
  <2>4. AlembicTodo(<< >>, database.relations, Excused)
    BY <1>3 DEF AlembicTodo
  <2>5. Len(Upgrade(v)) = 0
    BY <1>3, <2>3
  <2>6. \A k \in 1..Len(Upgrade(v)) : Upgrade(v)[k].op # "create"
    BY <2>5
  <2>7. Upgrade(v) \in Seq(Statement)
    BY <1>3, <2>3
  <2>8. AlembicTodo(Upgrade(v), database.relations, Excused)
    BY <2>3, <2>4
  <2> QED  BY <1>4, <2>6, <2>7, <2>8
<1>5. CASE v = 1
  <2>1. Upgrade(v) = << >> \o t
    BY <1>5 DEF Upgrade, t
  <2>2. << >> \o t = t
    BY <1>2
  <2>3. Excused \/ \A n \in Nat : Covered(Relations, database.relations, t, n)
    BY <1>5 DEF Covered, Whole
  <2>4. \A n \in 1..Len(t) : n - 1 \in Nat
    BY <1>2
  <2>5. AlembicTodo(t, database.relations, Excused)
    BY <1>2, <2>3, <2>4 DEF AlembicTodo
  <2>6. \A k \in 1..Len(t) : t[k].op # "create"
    BY <1>2
  <2> QED  BY <1>2, <1>5, <2>1, <2>2, <2>5, <2>6
<1>6. CASE v = 0
  <2> DEFINE u == s \o t
  <2>1. Upgrade(v) = u
    BY <1>6 DEF Upgrade, s, t
  <2>2. /\ u \in Seq(Statement) /\ Len(u) = 18 + Len(t) /\ Len(t) \in Nat
        /\ \A k \in 1..18 : u[k] = s[k]
        /\ \A k \in 19..(18 + Len(t)) : u[k] = t[k - 18]
    <3>1. /\ s \o t \in Seq(Statement) /\ Len(s \o t) = Len(s) + Len(t)
          /\ \A k \in 1..Len(s) : (s \o t)[k] = s[k]
          /\ \A k \in (Len(s) + 1)..(Len(s) + Len(t)) : (s \o t)[k] = t[k - Len(s)]
      BY <1>1, <1>2, Concatenated
    <3>2. Len(t) \in Nat
      BY <1>2
    <3> QED  BY <1>1, <3>1, <3>2
  <2> HIDE DEF u
  <2>3. \A n \in 1..17 : u[n].op = "create" /\ u[n].arg = CreationOrder[n]
    BY <1>1, <2>2
  <2>4. u[18].op = "stamp"
    BY <1>1, <2>2
  <2>5. ASSUME NEW n \in 19..(18 + Len(t)) PROVE u[n].op \in {"extend", "partition", "stamp"}
    <3>1. n - 18 \in 1..Len(t) /\ u[n] = t[n - 18]
      BY <2>2
    <3> QED  BY <1>2, <3>1
  <2>6. \A n \in 1..Len(u) : n \in 1..17 \/ n = 18 \/ n \in 19..(18 + Len(t))
    BY <2>2
  <2>7. \A n \in 18..Len(u) : Covered(Relations, database.relations, u, n - 1)
    <3> SUFFICES ASSUME NEW n \in 18..Len(u), NEW x \in Relations
                 PROVE  \E m \in 1..(n - 1) : u[m].op = "create" /\ u[m].arg = x
      BY DEF Covered
    <3>1. PICK m \in 1..17 : CreationOrder[m] = x
      BY RelationsInOrder
    <3>2. m \in 1..(n - 1)
      BY <2>2
    <3> QED  BY <2>3, <3>1, <3>2
  <2>8. \A n \in 1..Len(u) : u[n].op = "stamp" => n \in 18..Len(u)
    BY <2>2, <2>3, <2>6
  <2>9. \A n \in 1..Len(u) : u[n].op \notin {"rows", "drop"}
    BY <2>3, <2>4, <2>5, <2>6
  <2>10. AlembicTodo(u, database.relations, Excused)
    BY <2>7, <2>8, <2>9 DEF AlembicTodo
  <2>11. Creates(u, CreationOrder)
    <3>1. \A k \in (17 + 1)..Len(u) : k = 18 \/ k \in 19..(18 + Len(t))
      BY <2>2
    <3>2. \A k \in (17 + 1)..Len(u) : u[k].op # "create"
      BY <2>4, <2>5, <3>1
    <3> QED  BY <2>2, <2>3, <3>2, RelationsInOrder DEF Creates
  <2> QED  BY <1>6, <2>1, <2>2, <2>10, <2>11
<1> QED  BY <1>4, <1>5, <1>6

LEMMA DowngradePlan ==
    ASSUME NEW v \in 0..2, database.version = v, v # 0 => Whole \/ Excused
    PROVE  /\ Downgrade(v) \in Seq(Statement) /\ AlembicTodo(Downgrade(v), database.relations, Excused)
           /\ \A k \in 1..Len(Downgrade(v)) : Downgrade(v)[k].op # "create"
<1> DEFINE s == FirstDowngrade
           f == Stamp(1)
<1>1. /\ s \in Seq(Statement) /\ Len(s) = 18
      /\ \A k \in 1..17 : s[k].op = "drop"
      /\ s[18].op = "stamp" /\ s[18].arg = 0
  BY FirstDowngradePlan
<1>2. f \in Seq(Statement) /\ Len(f) = 1 /\ f[1].op = "stamp" /\ f[1].arg = 1
  BY StampPlan
<1>3. << >> \in Seq(Statement) /\ Len(<< >>) = 0 /\ 1..0 = {}
  OBVIOUS
<1>4. SecondDowngrade = f
  BY DEF SecondDowngrade
<1> HIDE DEF s, f
<1>5. CASE v = 0
  <2>1. Downgrade(v) = << >> \o << >>
    BY <1>5 DEF Downgrade
  <2>2. << >> \o << >> = << >>
    OBVIOUS
  <2> QED  BY <1>3, <2>1, <2>2 DEF AlembicTodo
<1>6. CASE v = 1
  <2>1. Downgrade(v) = << >> \o s
    BY <1>6 DEF Downgrade, s
  <2>2. << >> \o s = s
    BY <1>1
  <2>3. \A n \in 1..18 : n \in 1..17 \/ n = 18
    OBVIOUS
  <2>4. \A n \in 1..18 : s[n].op # "rows" /\ (s[n].op = "stamp" => s[n].arg = 0)
    BY <1>1, <2>3
  <2>5. \A m \in 1..18 : \A n \in m..18 : n \in 1..18
    OBVIOUS
  <2>6. AlembicTodo(s, database.relations, Excused)
    BY <1>1, <2>4, <2>5 DEF AlembicTodo
  <2>7. \A k \in 1..18 : s[k].op # "create"
    BY <1>1, <2>3
  <2> QED  BY <1>1, <2>1, <2>2, <2>6, <2>7
<1>7. CASE v = 2
  <2> DEFINE u == f \o s
  <2>1. Downgrade(v) = u
    BY <1>4, <1>7 DEF Downgrade, s
  <2>2. /\ u \in Seq(Statement) /\ Len(u) = 19 /\ u[1] = f[1]
        /\ \A k \in 2..19 : u[k] = s[k - 1]
    <3>1. /\ f \o s \in Seq(Statement) /\ Len(f \o s) = Len(f) + Len(s)
          /\ \A k \in 1..Len(f) : (f \o s)[k] = f[k]
          /\ \A k \in (Len(f) + 1)..(Len(f) + Len(s)) : (f \o s)[k] = s[k - Len(f)]
      BY <1>1, <1>2, Concatenated
    <3>2. Len(s) = 18 /\ Len(f) = 1
      BY <1>1, <1>2
    <3> HIDE DEF u
    <3>3. /\ u \in Seq(Statement) /\ Len(u) = Len(f) + Len(s)
          /\ \A k \in 1..Len(f) : u[k] = f[k]
          /\ \A k \in (Len(f) + 1)..(Len(f) + Len(s)) : u[k] = s[k - Len(f)]
      BY <3>1 DEF u
    <3>4. Len(f) + Len(s) = 19 /\ Len(f) + 1 = 2
      BY <3>2
    <3> QED  BY <3>2, <3>3, <3>4
  <2> HIDE DEF u
  <2>3. u[1].op = "stamp"
    BY <1>2, <2>2
  <2>4. ASSUME NEW n \in 2..18 PROVE u[n].op = "drop"
    <3>1. n - 1 \in 1..17 /\ u[n] = s[n - 1]
      BY <2>2
    <3> QED  BY <1>1, <3>1
  <2>5. u[19].op = "stamp" /\ u[19].arg = 0
    BY <1>1, <2>2
  <2>6. \A n \in 1..19 : n = 1 \/ n \in 2..18 \/ n = 19
    OBVIOUS
  <2>7. \A n \in Nat : Excused \/ Covered(Relations, database.relations, u, n)
    BY <1>7 DEF Covered, Whole
  <2>8. \A n \in 1..19 : u[n].op = "stamp" /\ u[n].arg # 0 => Excused \/ Covered(Relations, database.relations, u, n - 1)
    <3>1. \A n \in 1..19 : n - 1 \in Nat
      OBVIOUS
    <3> QED  BY <2>7, <3>1
  <2>9. \A n \in 1..19 : u[n].op # "rows"
    BY <2>3, <2>4, <2>5, <2>6
  <2>10. ASSUME NEW m \in 1..19, u[m].op = "drop", NEW n \in m..19, u[n].op = "stamp" PROVE u[n].arg = 0
    <3>1. m \in 2..18
      BY <2>3, <2>5, <2>6, <2>10
    <3>2. n \in 2..18 \/ n = 19
      BY <3>1
    <3> QED  BY <2>4, <2>5, <2>10, <3>2
  <2>11. AlembicTodo(u, database.relations, Excused)
    BY <2>2, <2>5, <2>8, <2>9, <2>10 DEF AlembicTodo
  <2>12. \A k \in 1..19 : u[k].op # "create"
    BY <2>3, <2>4, <2>5, <2>6
  <2> QED  BY <2>1, <2>2, <2>11, <2>12
<1> QED  BY <1>5, <1>6, <1>7

LEMMA CreateAllPlan ==
    ASSUME NEW db, db = database
    PROVE  /\ CreateAll(db) \in Seq(Statement) /\ CreateTodo(CreateAll(db), database.relations, halfDropped)
           /\ Creates(CreateAll(db), NotThere(db))
<1> DEFINE s == NotThere(db)
           u == CreateAll(db)
<1>1. s \in Seq(Relations) /\ \A t \in Tables : t \in db.relations \/ \E i \in DOMAIN s : s[i] = t
  <2>1. EachOnce(s, MissingWith(db))
    BY MissingTables
  <2>2. \A t \in Tables : t \in db.relations \/ t \in MissingWith(db)
    BY DEF Tables, MissingWith
  <2> HIDE DEF s
  <2>3. s \in Seq(Relations) /\ DOMAIN s = 1..Len(s)
    BY <2>1 DEF EachOnce
  <2> QED  BY <2>1, <2>2, <2>3 DEF EachOnce
<1>2. \A a \in Relations : [op |-> "create", arg |-> a] \in Statement
  BY DEF Statement
<1> HIDE DEF s
<1>3. /\ u \in Seq(Statement) /\ Len(u) = Len(s)
      /\ \A k \in 1..Len(s) : u[k] = [op |-> "create", arg |-> s[k]]
  <2>1. /\ Statements("create", s) \in Seq(Statement) /\ Len(Statements("create", s)) = Len(s)
        /\ \A k \in 1..Len(s) : Statements("create", s)[k] = [op |-> "create", arg |-> s[k]]
    BY <1>1, <1>2, StatementsOf
  <2>2. u = Statements("create", s)
    BY DEF CreateAll, s
  <2> QED  BY <2>1, <2>2
<1> HIDE DEF u
<1>7. /\ u \in Seq(Statement) /\ 1..Len(u) = 1..Len(s)
      /\ \A k \in 1..Len(s) : u[k].op = "create" /\ u[k].arg = s[k]
  <2>1. ASSUME NEW k \in 1..Len(s) PROVE u[k].op = "create" /\ u[k].arg = s[k]
    <3>1. u[k] = [op |-> "create", arg |-> s[k]]
      BY <1>3
    <3> QED  BY <3>1
  <2>2. u \in Seq(Statement) /\ Len(u) = Len(s)
    BY <1>3
  <2> QED  BY <2>1, <2>2
<1>4. DOMAIN s = 1..Len(s)
  BY <1>1
<1>5. Covered(Tables, database.relations, u, Len(u))
  <2> SUFFICES ASSUME NEW t \in Tables, t \notin database.relations
               PROVE  \E m \in 1..Len(u) : u[m].op = "create" /\ u[m].arg = t
    BY DEF Covered
  <2>1. PICK i \in 1..Len(s) : s[i] = t
    BY <1>1, <1>4
  <2>2. i \in 1..Len(u)
    BY <1>7
  <2> QED  BY <1>7, <2>1, <2>2
<1>6. \A k \in 1..Len(u) : u[k].op = "create"
  BY <1>7
<1>8. Creates(u, s)
  <2>1. Len(u) = Len(s) /\ Len(s) \in Nat
    BY <1>1, <1>3
  <2> QED  BY <1>7, <2>1 DEF Creates
<1> QED  BY <1>3, <1>5, <1>6, <1>8 DEF CreateTodo, u, s

(* What a run of statements leaves. *)
LEMMA RunLeaves ==
    ASSUME NEW db \in Databases, NEW todo \in Seq(Statement), FoldLeft(ExecuteIn, db, todo) # Refused,
           NEW result, result = FoldLeft(ExecuteIn, db, todo)
    PROVE  /\ result \in Databases
           /\ (\A k \in 1..Len(todo) : todo[k].op # "drop") =>
                 /\ db.relations \subseteq result.relations
                 /\ \A m \in 1..Len(todo) : todo[m].op = "create" => todo[m].arg \in result.relations
           /\ (\A k \in 1..Len(todo) : todo[k].op \notin {"drop", "rows"}) =>
                 result.entities = db.entities /\ result.demoEvents = db.demoEvents
           /\ result.version # 0 =>
                 db.version # 0 \/ \E m \in 1..Len(todo) : todo[m].op = "stamp" /\ todo[m].arg # 0
           /\ Len(todo) > 0 /\ todo[Len(todo)].op = "stamp" => result.version = todo[Len(todo)].arg
           /\ Len(todo) = 1 => result = Executed(todo[1], db)
           /\ \A r \in result.relations :
                 r \in db.relations \/ \E m \in 1..Len(todo) : todo[m].op = "create" /\ todo[m].arg = r
<1> DEFINE n == Len(todo)
<1>1. n \in Nat /\ \A k \in 1..n : todo[k] \in Statement
  BY ElementOfSeq
<1>2. PICK R : /\ R[0] = db /\ R[n] = result
               /\ \A k \in 0..n : R[k] \in Databases
               /\ \A k \in 1..n : R[k] = Executed(todo[k], R[k - 1])
  BY RunOfPlan
<1> HIDE DEF n
<1>3. ASSUME NEW k \in 1..n
      PROVE  /\ k - 1 \in 0..n /\ R[k - 1] \in Databases /\ todo[k] \in Statement
             /\ R[k] = Executed(todo[k], R[k - 1])
  <2>1. k - 1 \in 0..n
    BY <1>1
  <2> QED  BY <1>1, <1>2, <2>1
<1> DEFINE Grown(k) == \/ \E m \in 1..n : todo[m].op = "drop"
                      \/ /\ db.relations \subseteq R[k].relations
                         /\ \A m \in 1..k : todo[m].op = "create" => todo[m].arg \in R[k].relations
           Still(k) == \/ \E m \in 1..n : todo[m].op \in {"drop", "rows"}
                       \/ R[k].entities = db.entities /\ R[k].demoEvents = db.demoEvents
           Stamped(k) == R[k].version # 0 =>
                            db.version # 0 \/ \E m \in 1..n : todo[m].op = "stamp" /\ todo[m].arg # 0
           Came(k) == \A r \in R[k].relations :
                         r \in db.relations \/ \E m \in 1..n : todo[m].op = "create" /\ todo[m].arg = r
           T == {k \in Nat : k <= n => Grown(k) /\ Still(k) /\ Stamped(k) /\ Came(k)}
<1>4. 0 \in T
  <2>1. Grown(0) /\ Still(0) /\ Stamped(0) /\ Came(0)
    BY <1>2
  <2> QED  BY <2>1
<1>5. ASSUME NEW k \in Nat, k \in T PROVE k + 1 \in T
  <2> SUFFICES ASSUME k + 1 <= n PROVE Grown(k + 1) /\ Still(k + 1) /\ Stamped(k + 1) /\ Came(k + 1)
    OBVIOUS
  <2> DEFINE s == todo[k + 1]
             old == R[k]
             new == R[k + 1]
  <2>1. k + 1 \in 1..n /\ Grown(k) /\ Still(k) /\ Stamped(k) /\ Came(k) /\ (k + 1) - 1 = k
    BY <1>1, <1>5
  <2>2. old \in Databases /\ s \in Statement /\ new = Executed(s, old)
    BY <1>3, <2>1
  <2>3. /\ s.op = "create" => new.relations = old.relations \union {s.arg}
        /\ s.op = "drop" => new.relations \subseteq old.relations
        /\ s.op \notin {"create", "drop"} => new.relations = old.relations
        /\ s.op = "stamp" => new.version = s.arg
        /\ s.op # "stamp" => new.version = old.version
        /\ s.op \notin {"drop", "rows"} => new.entities = old.entities /\ new.demoEvents = old.demoEvents
    <3> HIDE DEF s, old, new
    <3> QED  BY <2>2, StatementEffects
  <2>4. Grown(k + 1)
    <3>1. CASE \E m \in 1..n : todo[m].op = "drop"
      BY <3>1
    <3>2. CASE \A m \in 1..n : todo[m].op # "drop"
      <4>1. s.op # "drop" /\ old.relations \subseteq new.relations
            /\ (s.op = "create" => s.arg \in new.relations)
        BY <2>1, <2>3, <3>2
      <4>2. db.relations \subseteq old.relations
            /\ \A m \in 1..k : todo[m].op = "create" => todo[m].arg \in old.relations
        BY <2>1, <3>2
      <4>3. \A m \in 1..(k + 1) : m \in 1..k \/ m = k + 1
        OBVIOUS
      <4> QED  BY <4>1, <4>2, <4>3
    <3> QED  BY <3>1, <3>2
  <2>5. Still(k + 1)
    BY <2>1, <2>3
  <2>6. Stamped(k + 1)
    BY <2>1, <2>3
  <2>7. Came(k + 1)
    <3> SUFFICES ASSUME NEW r \in new.relations, r \notin db.relations
                 PROVE  \E m \in 1..n : todo[m].op = "create" /\ todo[m].arg = r
      OBVIOUS
    <3>1. CASE r \in old.relations
      BY <2>1, <3>1
    <3>2. CASE r \notin old.relations
      <4>1. s.op = "create" /\ s.arg = r
        BY <2>3, <3>2
      <4> QED  BY <2>1, <4>1
    <3> QED  BY <3>1, <3>2
  <2> QED  BY <2>4, <2>5, <2>6, <2>7
<1>6. Nat \subseteq T
  <2> HIDE DEF T
  <2> QED  BY <1>4, <1>5, Induction
<1>7. Grown(n) /\ Still(n) /\ Stamped(n) /\ Came(n)
  BY <1>1, <1>6
<1>8. result \in Databases
  <2>1. n \in 0..n
    BY <1>1
  <2> QED  BY <1>2, <2>1
<1>9. n > 0 /\ todo[n].op = "stamp" => result.version = todo[n].arg
  <2> SUFFICES ASSUME n > 0, todo[n].op = "stamp" PROVE result.version = todo[n].arg
    OBVIOUS
  <2>1. n \in 1..n
    BY <1>1
  <2>2. R[n - 1] \in Databases /\ todo[n] \in Statement /\ R[n] = Executed(todo[n], R[n - 1])
    BY <1>3, <2>1
  <2>3. Executed(todo[n], R[n - 1]).version = todo[n].arg
    BY <2>2, StatementEffects
  <2> QED  BY <1>2, <2>2, <2>3
<1>10. n = 1 => result = Executed(todo[1], db)
  <2> SUFFICES ASSUME n = 1 PROVE result = Executed(todo[1], db)
    OBVIOUS
  <2>1. 1 \in 1..n /\ 1 - 1 = 0
    OBVIOUS
  <2> QED  BY <1>2, <1>3, <2>1
<1> QED  BY <1>2, <1>7, <1>8, <1>9, <1>10 DEF n

(* What a step makes durable is the beginning of the plan. *)
LEMMA DurablePart ==
    ASSUME NEW todo \in Seq(Statement), todo # << >>
    PROVE  /\ Durable(todo) \in Seq(Statement) /\ Len(Durable(todo)) \in 1..Len(todo)
           /\ \A k \in 1..Len(Durable(todo)) : Durable(todo)[k] = todo[k]
           /\ IF dialect = "sqlite" THEN Len(Durable(todo)) = 1 ELSE Len(Durable(todo)) = Len(todo)
           /\ Rest(todo) \in Seq(Statement)
           /\ Len(Rest(todo)) = Len(todo) - Len(Durable(todo))
           /\ \A k \in 1..Len(Rest(todo)) : Rest(todo)[k] = todo[k + Len(Durable(todo))]
<1>1. Len(todo) \in Nat \ {0}
  OBVIOUS
<1>2. /\ Durable(todo) \in Seq(Statement) /\ Len(Durable(todo)) \in 1..Len(todo)
      /\ \A k \in 1..Len(Durable(todo)) : Durable(todo)[k] = todo[k]
      /\ IF dialect = "sqlite" THEN Len(Durable(todo)) = 1 ELSE Len(Durable(todo)) = Len(todo)
  <2>1. CASE dialect = "sqlite"
    <3>1. SubSeq(todo, 1, 1) \in Seq(Statement) /\ Len(SubSeq(todo, 1, 1)) = 1
          /\ SubSeq(todo, 1, 1)[1] = todo[1]
      BY <1>1
    <3> QED  BY <1>1, <2>1, <3>1 DEF Durable
  <2>2. CASE dialect # "sqlite"
    BY <1>1, <2>2 DEF Durable
  <2> QED  BY <2>1, <2>2
<1> DEFINE d == Len(Durable(todo))
           r == SubSeq(todo, d + 1, Len(todo))
<1>3. d \in 1..Len(todo)
  BY <1>2
<1> HIDE DEF d
<1>4. r \in Seq(Statement) /\ Len(r) = Len(todo) - d /\ \A k \in 1..Len(r) : r[k] = todo[k + d]
  <2>1. Len(r) = Len(todo) - d
    BY <1>1, <1>3
  <2>2. r \in Seq(Statement)
    BY <1>1, <1>3
  <2>3. ASSUME NEW k \in 1..Len(r) PROVE r[k] = todo[k + d]
    BY <1>1, <1>3, <2>1
  <2> QED  BY <2>1, <2>2, <2>3
<1>5. Rest(todo) = r
  BY DEF Rest, d
<1> QED  BY <1>2, <1>4, <1>5 DEF d

(* The plans of the commands while tables come, and after a first part of   *)
(* theirs is done.                                                          *)
LEMMA AlembicGrows ==
    ASSUME NEW todo, NEW from \in SUBSET Relations, NEW to \in SUBSET Relations,
           NEW was \in BOOLEAN, NEW is \in BOOLEAN, AlembicTodo(todo, from, was),
           from \subseteq to, was => is \/ to = Relations
    PROVE  AlembicTodo(todo, to, is)
<1>1. \A n : Covered(Relations, from, todo, n) => Covered(Relations, to, todo, n)
  BY DEF Covered
<1>2. \A n : to = Relations => Covered(Relations, to, todo, n)
  BY DEF Covered
<1> QED  BY <1>1, <1>2 DEF AlembicTodo

(* create_all's plan stays good when the tables grow or are dropped again.  *)
LEMMA CreateGrows ==
    ASSUME NEW todo, NEW from \in SUBSET Relations, NEW to \in SUBSET Relations,
           NEW was \in BOOLEAN, NEW is \in BOOLEAN, CreateTodo(todo, from, was),
           is \/ to = Relations \/ (from \subseteq to /\ ~was)
    PROVE  CreateTodo(todo, to, is)
<1>1. \A n : from \subseteq to /\ Covered(Tables, from, todo, n) => Covered(Tables, to, todo, n)
  BY DEF Covered
<1>2. \A n : to = Relations => Covered(Tables, to, todo, n)
  BY DEF Covered, Tables
<1> QED  BY <1>1, <1>2 DEF CreateTodo

(* What is left of a plan after d statements, and what they have done if    *)
(* they dropped nothing.                                                    *)
RestAfter(todo, rest, d) ==
    /\ d \in 1..Len(todo) /\ Len(rest) = Len(todo) - d
    /\ \A k \in 1..Len(rest) : rest[k] = todo[k + d]

DropsIn(todo, d) == \E k \in 1..d : todo[k].op = "drop"

Advanced(todo, d, from, to) ==
    /\ from \subseteq to
    /\ \A k \in 1..d : todo[k].op = "create" => todo[k].arg \in to

(* What is left of an Alembic plan after its first statements.              *)
LEMMA RestOfAlembic ==
    ASSUME NEW todo \in Seq(Statement), NEW rest \in Seq(Statement), NEW d, RestAfter(todo, rest, d),
           NEW from \in SUBSET Relations, NEW to \in SUBSET Relations,
           NEW was \in BOOLEAN, NEW is \in BOOLEAN, AlembicTodo(todo, from, was),
           was => is \/ to = Relations, DropsIn(todo, d) \/ Advanced(todo, d, from, to)
    PROVE  AlembicTodo(rest, to, is)
<1> DEFINE n == Len(todo)
           r == Len(rest)
<1>1. n \in Nat /\ r \in Nat /\ r = n - d /\ d \in 1..n /\ \A k \in 1..r : k + d \in 1..n
  BY DEF RestAfter
<1>2. \A k \in 1..r : rest[k] = todo[k + d]
  BY DEF RestAfter
<1>3. /\ \A k \in 1..n : todo[k].op # "rows"
      /\ \A k \in 1..n : todo[k].op = "stamp" /\ todo[k].arg # 0 => was \/ Covered(Relations, from, todo, k - 1)
      /\ \A m \in 1..n : todo[m].op = "drop" =>
            /\ todo[n].op = "stamp"
            /\ \A k \in m..n : todo[k].op = "stamp" => todo[k].arg = 0
  BY DEF AlembicTodo
<1> HIDE DEF n, r
<1>4. \A k \in 1..r : rest[k].op # "rows"
  BY <1>1, <1>2, <1>3
<1>5. ASSUME NEW k \in 1..r, rest[k].op = "stamp", rest[k].arg # 0 PROVE is \/ Covered(Relations, to, rest, k - 1)
  <2>1. k + d \in 1..n /\ todo[k + d].op = "stamp" /\ todo[k + d].arg # 0
    BY <1>1, <1>2, <1>5
  <2>2. ASSUME NEW m \in 1..d PROVE todo[m].op # "drop"
    <3>1. m \in 1..n /\ k + d \in m..n
      BY <1>1
    <3> QED  BY <1>3, <2>1, <3>1
  <2>3. /\ from \subseteq to
        /\ was => is \/ to = Relations
        /\ \A m \in 1..d : todo[m].op = "create" => todo[m].arg \in to
    BY <2>2 DEF DropsIn, Advanced
  <2>4. was \/ Covered(Relations, from, todo, (k + d) - 1)
    BY <1>3, <2>1
  <2>5. CASE to = Relations
    BY <2>5 DEF Covered
  <2>6. CASE Covered(Relations, from, todo, (k + d) - 1)
    <3> SUFFICES ASSUME NEW t \in Relations, t \notin to
                 PROVE  \E m \in 1..(k - 1) : rest[m].op = "create" /\ rest[m].arg = t
      BY DEF Covered
    <3>5. t \notin from
      BY <2>3
    <3>1. PICK m \in 1..((k + d) - 1) : todo[m].op = "create" /\ todo[m].arg = t
      BY <2>6, <3>5 DEF Covered
    <3>2. m \notin 1..d
      BY <2>3, <3>1
    <3>3. m - d \in 1..(k - 1) /\ m - d \in 1..r /\ (m - d) + d = m
      BY <1>1, <3>2
    <3>4. rest[m - d] = todo[m]
      BY <1>2, <3>3
    <3> QED  BY <3>1, <3>3, <3>4
  <2>7. was => is \/ to = Relations
    BY <2>3
  <2>8. is \/ to = Relations \/ Covered(Relations, from, todo, (k + d) - 1)
    BY <2>4, <2>7, Zenon
  <2> QED  BY <2>5, <2>6, <2>8, Zenon
<1>6. ASSUME NEW m \in 1..r, rest[m].op = "drop"
      PROVE  /\ rest[r].op = "stamp"
             /\ \A k \in m..r : rest[k].op = "stamp" => rest[k].arg = 0
  <2>1. m + d \in 1..n /\ todo[m + d].op = "drop"
    BY <1>1, <1>2, <1>6
  <2>2. /\ todo[n].op = "stamp"
        /\ \A k \in (m + d)..n : todo[k].op = "stamp" => todo[k].arg = 0
    BY <1>3, <2>1
  <2>3. r \in 1..r /\ r + d = n
    BY <1>1
  <2>4. \A k \in m..r : k \in 1..r /\ k + d \in (m + d)..n
    BY <1>1
  <2> QED  BY <1>2, <2>2, <2>3, <2>4
<1> QED  BY <1>4, <1>5, <1>6 DEF AlembicTodo, r

(* What is left of create_all's plan.                                       *)
LEMMA RestOfCreateAll ==
    ASSUME NEW todo \in Seq(Statement), NEW rest \in Seq(Statement), NEW d, RestAfter(todo, rest, d),
           NEW from \in SUBSET Relations, NEW to \in SUBSET Relations,
           NEW was \in BOOLEAN, NEW is \in BOOLEAN, CreateTodo(todo, from, was),
           was => is \/ to = Relations, Advanced(todo, d, from, to)
    PROVE  CreateTodo(rest, to, is)
<1>1. Len(todo) \in Nat /\ Len(rest) \in Nat /\ d \in 1..Len(todo)
      /\ Len(rest) = Len(todo) - d
      /\ \A k \in 1..Len(rest) : k + d \in 1..Len(todo) /\ rest[k] = todo[k + d]
  BY DEF RestAfter
<1>2. \A k \in 1..Len(rest) : rest[k].op = "create"
  BY <1>1 DEF CreateTodo
<1>3. ASSUME Covered(Tables, from, todo, Len(todo)) PROVE Covered(Tables, to, rest, Len(rest))
  <2> SUFFICES ASSUME NEW t \in Tables, t \notin to
               PROVE  \E m \in 1..Len(rest) : rest[m].op = "create" /\ rest[m].arg = t
    BY DEF Covered
  <2>1. PICK m \in 1..Len(todo) : todo[m].op = "create" /\ todo[m].arg = t
    BY <1>3 DEF Covered, Advanced
  <2>2. m \notin 1..d
    BY <2>1 DEF Advanced
  <2>3. m - d \in 1..Len(rest) /\ (m - d) + d = m
    BY <1>1, <2>2
  <2>4. rest[m - d] = todo[m]
    BY <1>1, <2>3
  <2> QED  BY <2>1, <2>3, <2>4
<1>4. to = Relations => Covered(Tables, to, rest, Len(rest))
  BY DEF Covered, Tables
<1> QED  BY <1>2, <1>3, <1>4 DEF CreateTodo

(* A slot that runs nothing.                                                *)
LEMMA IdleCommand == Idle \in Commands /\ Idle.kind = "none" /\ Idle.todo = << >> /\ TodoInv(Idle)
<1>1. << >> \in Seq(Statement)
  OBVIOUS
<1> QED  BY <1>1 DEF Idle, Commands, TodoInv, AlembicKinds

(* The empty database, and the steps of the commands, keep the invariant.   *)
LEMMA SchemaInitInv == SchemaInit => SchemaInv
<1> SUFFICES ASSUME SchemaInit PROVE SchemaInv
  OBVIOUS
<1>1. \A i \in Slots : command[i] = Idle
  BY DEF SchemaInit
<1>2. \A i \in Slots : command[i].kind = "none" /\ TodoInv(command[i])
  BY <1>1, IdleCommand
<1>3. command \in [Slots -> Commands]
  BY IdleCommand DEF SchemaInit
<1>4. NothingStored \in Databases /\ NothingStored.version = 0
      /\ NothingStored.demoEvents = 0 /\ NothingStored.entities = FALSE
  BY DEF NothingStored, Databases
<1>5. SeededWhole
  BY <1>4 DEF SchemaInit, SeededWhole
<1>6. SchemaTypes
  BY <1>3, <1>4 DEF SchemaInit, SchemaTypes
<1>7. database.version = 0 /\ backend = "down"
  BY <1>4 DEF SchemaInit
<1> QED  BY <1>2, <1>5, <1>6, <1>7 DEF SchemaInv, AlembicKinds, ServedByTables

(* Actions that leave the database alone, and one command changed. *)
LEMMA QuietStep ==
    ASSUME SchemaInv, UNCHANGED <<database, dialect, halfDropped, everDropped, seedings>>,
           NEW i \in Slots, command' \in [Slots -> Commands], TodoInv(command[i])',
           \A j \in Slots : j # i => /\ command'[j].kind = command[j].kind
                                     /\ command'[j].todo = command[j].todo,
           command'[i].kind \in AlembicKinds =>
               \A j \in Slots : j # i => command[j].kind \notin AlembicKinds,
           ServedByTables => ServedByTables'
    PROVE  SchemaInv'
<1>1. SchemaTypes'
  BY DEF SchemaInv, SchemaTypes
<1>2. ASSUME NEW j \in Slots PROVE TodoInv(command[j])'
  <2>1. CASE j = i
    BY <2>1
  <2>2. CASE j # i
    <3>1. TodoInv(command[j])
      BY DEF SchemaInv
    <3> QED  BY <2>2, <3>1 DEF TodoInv, Excused
  <2> QED  BY <2>1, <2>2
<1>3. (\A j, k \in Slots : command[j].kind \in AlembicKinds /\ command[k].kind \in AlembicKinds => j = k)'
  BY DEF SchemaInv
<1>4. (database.version # 0 => Whole \/ Excused)' /\ SeededWhole'
  BY DEF SchemaInv, SeededWhole, Whole, Excused
<1> QED  BY <1>1, <1>2, <1>3, <1>4 DEF SchemaInv

LEMMA BeginInv ==
    ASSUME SchemaInv, NEW i \in Slots, NEW new \in Kinds, Begin(i, new) PROVE SchemaInv'
<1> DEFINE todo == Plan(new, database)
           c == [kind |-> new, todo |-> todo, clean |-> database = NothingStored /\ \A k \in Slots : command[k] = Idle]
<1>1. database \in Databases /\ command \in [Slots -> Commands]
      /\ (database.version # 0 => Whole \/ Excused)
  BY DEF SchemaInv, SchemaTypes
<1>2. todo \in Seq(Statement)
      /\ (new \in AlembicKinds => AlembicTodo(todo, database.relations, Excused))
      /\ (new \in {"start", "seed"} => CreateTodo(todo, database.relations, halfDropped))
  <2>1. database.version \in 0..2
    BY <1>1 DEF Databases
  <2>2. CASE new = "upgrade"
    <3>1. todo = Upgrade(database.version)
      BY <2>2 DEF Plan
    <3> QED  BY <1>1, <2>1, <2>2, <3>1, UpgradePlan
  <2>3. CASE new = "downgrade"
    <3>1. todo = Downgrade(database.version)
      BY <2>3 DEF Plan
    <3> QED  BY <1>1, <2>1, <2>3, <3>1, DowngradePlan
  <2>4. CASE new \in {"start", "seed"}
    <3>1. todo = CreateAll(database)
      BY <2>4 DEF Plan
    <3>2. CreateAll(database) \in Seq(Statement) /\ CreateTodo(CreateAll(database), database.relations, halfDropped)
      BY CreateAllPlan
    <3> QED  BY <2>4, <3>1, <3>2 DEF AlembicKinds
  <2> QED  BY <2>2, <2>3, <2>4 DEF Kinds
<1> HIDE DEF todo
<1>3. c \in Commands
  BY <1>2 DEF Commands
<1>4. command' = [j \in Slots |-> IF j = i THEN c ELSE [command[j] EXCEPT !.clean = FALSE]]
  BY DEF Begin, todo
<1>5. \A j \in Slots : j # i => /\ command'[j] \in Commands
                                /\ command'[j].kind = command[j].kind
                                /\ command'[j].todo = command[j].todo
  <2>1. \A d \in Commands : [d EXCEPT !.clean = FALSE] \in Commands
                            /\ [d EXCEPT !.clean = FALSE].kind = d.kind
                            /\ [d EXCEPT !.clean = FALSE].todo = d.todo
    BY DEF Commands
  <2> HIDE DEF c
  <2> QED  BY <1>1, <1>4, <2>1
<1>6. command'[i] = c
  BY <1>4
<1>7. command' \in [Slots -> Commands]
  <2> HIDE DEF c
  <2> QED  BY <1>3, <1>4, <1>5, <1>6
<1>8. UNCHANGED <<database, dialect, halfDropped, everDropped, seedings, backend>>
  BY DEF Begin
<1>9. TodoInv(command[i])'
  <2>1. command'[i].kind = new /\ command'[i].todo = todo
    BY <1>6
  <2>2. new \notin {"none", "seeding"}
    BY DEF Kinds
  <2> QED  BY <1>2, <1>8, <2>1, <2>2 DEF TodoInv, Excused
<1>10. new \in AlembicKinds => \A j \in Slots : j # i => command[j].kind \notin AlembicKinds
  BY DEF Begin, AlembicKinds
<1>11. command'[i].kind = new
  BY <1>6
<1>12. ServedByTables'
  BY <1>8 DEF SchemaInv, ServedByTables
<1> QED  BY <1>5, <1>7, <1>8, <1>9, <1>10, <1>11, <1>12, QuietStep

LEMMA KillInv == ASSUME SchemaInv, NEW i \in Slots, Kill(i) PROVE SchemaInv'
<1>1. command' = [command EXCEPT ![i] = Idle] /\ command \in [Slots -> Commands]
  BY DEF Kill, SchemaInv, SchemaTypes
<1>2. UNCHANGED <<database, dialect, halfDropped, everDropped, seedings, backend>>
  BY DEF Kill
<1>3. command'[i] = Idle /\ command' \in [Slots -> Commands] /\ \A j \in Slots : j # i => command'[j] = command[j]
  BY <1>1, IdleCommand
<1>4. TodoInv(command[i])'
  BY <1>3, IdleCommand DEF TodoInv, AlembicKinds
<1>5. command'[i].kind \notin AlembicKinds
  BY <1>3, IdleCommand DEF AlembicKinds
<1>6. ServedByTables'
  BY <1>2 DEF SchemaInv, ServedByTables
<1> QED  BY <1>2, <1>3, <1>4, <1>5, <1>6, QuietStep

LEMMA FinishInv == ASSUME SchemaInv, NEW i \in Slots, Finish(i) PROVE SchemaInv'
<1> DEFINE c == command[i]
<1>1. command \in [Slots -> Commands] /\ c \in Commands /\ c.todo = << >> /\ TodoInv(c)
  BY DEF Finish, SchemaInv, SchemaTypes
<1>2. UNCHANGED <<database, dialect, halfDropped, everDropped, seedings>>
  BY DEF Finish
<1>3. ServedByTables'
  <2>1. CASE c.kind = "start"
    <3>1. CreateTodo(c.todo, database.relations, halfDropped) /\ Len(c.todo) = 0
      BY <1>1, <2>1 DEF TodoInv
    <3>2. halfDropped \/ Tables \subseteq database.relations
      BY <3>1 DEF CreateTodo, Covered
    <3> QED  BY <1>2, <3>2 DEF ServedByTables
  <2>2. CASE c.kind # "start"
    BY <1>2, <2>2 DEF Finish, SchemaInv, ServedByTables
  <2> QED  BY <2>1, <2>2
<1>4. CASE c.kind = "seed"
  <2> DEFINE s == SeedRows(database)
  <2>1. s \in Seq(Statement) /\ Len(s) = 1 /\ s[1].op = "rows"
    <3>1. [op |-> "rows", arg |-> ~database.entities] \in Statement
      BY DEF Statement
    <3> QED  BY <3>1, OneStatement DEF SeedRows
  <2> HIDE DEF s
  <2>2. command' = [command EXCEPT ![i].kind = "seeding", ![i].todo = s]
    BY <1>4 DEF Finish, s
  <2>3. command'[i].kind = "seeding" /\ command'[i].todo = s
    BY <1>1, <2>2 DEF Commands
  <2>4. command' \in [Slots -> Commands]
    <3>1. \A d \in Commands : [d EXCEPT !.kind = "seeding", !.todo = s] \in Commands
      BY <2>1 DEF Commands
    <3>2. command' = [command EXCEPT ![i] = [c EXCEPT !.kind = "seeding", !.todo = s]]
      BY <1>1, <2>2
    <3> QED  BY <1>1, <3>1, <3>2
  <2>5. \A j \in Slots : j # i => command'[j] = command[j]
    BY <1>1, <2>2
  <2>6. RowsTodo(s)
    BY <2>1 DEF RowsTodo
  <2>7. TodoInv(command[i])' /\ command'[i].kind \notin AlembicKinds
    BY <2>3, <2>6 DEF TodoInv, AlembicKinds
  <2> QED  BY <1>2, <1>3, <2>4, <2>5, <2>7, QuietStep
<1>5. CASE c.kind # "seed"
  <2>1. command' = [command EXCEPT ![i] = Idle]
    BY <1>5 DEF Finish
  <2>2. command'[i] = Idle /\ command' \in [Slots -> Commands] /\ \A j \in Slots : j # i => command'[j] = command[j]
    BY <1>1, <2>1, IdleCommand
  <2>3. TodoInv(command[i])' /\ command'[i].kind \notin AlembicKinds
    BY <2>2, IdleCommand DEF TodoInv, AlembicKinds
  <2> QED  BY <1>2, <1>3, <2>2, <2>3, QuietStep
<1> QED  BY <1>4, <1>5

LEMMA ExecuteInv == ASSUME SchemaInv, NEW i \in Slots, Execute(i) PROVE SchemaInv'
<1> DEFINE c == command[i]
           done == Durable(c.todo)
           left == Rest(c.todo)
           result == FoldLeft(ExecuteIn, database, done)
<1>1. /\ command \in [Slots -> Commands] /\ c \in Commands /\ TodoInv(c)
      /\ c.todo # << >> /\ c.todo \in Seq(Statement) /\ c.kind \in Kinds \union {"none", "seeding"}
      /\ database \in Databases
  BY DEF Execute, SchemaInv, SchemaTypes, Commands
<1>2. UNCHANGED <<dialect, begun, backend>>
  BY DEF Execute
<1>3. CASE result = Refused
  <2>1. command' = [command EXCEPT ![i] = Idle] /\ UNCHANGED <<database, everDropped, halfDropped>>
        /\ seedings' = seedings
    BY <1>3 DEF Execute
  <2>2. command'[i] = Idle /\ command' \in [Slots -> Commands] /\ \A j \in Slots : j # i => command'[j] = command[j]
    BY <1>1, <2>1, IdleCommand
  <2>3. TodoInv(command[i])' /\ command'[i].kind \notin AlembicKinds
    BY <2>2, IdleCommand DEF TodoInv, AlembicKinds
  <2>4. ServedByTables'
    BY <1>2, <2>1 DEF SchemaInv, ServedByTables
  <2> QED  BY <1>2, <2>1, <2>2, <2>3, <2>4, QuietStep
<1>4. CASE result # Refused
  <2> DEFINE n == Len(c.todo)
             d == Len(done)
  <2>1. /\ done \in Seq(Statement) /\ d \in 1..n
        /\ \A k \in 1..d : done[k] = c.todo[k]
        /\ IF dialect = "sqlite" THEN d = 1 ELSE d = n
        /\ left \in Seq(Statement) /\ Len(left) = n - d
        /\ \A k \in 1..Len(left) : left[k] = c.todo[k + d]
    BY <1>1, DurablePart
  <2>2. /\ result \in Databases
        /\ (\A k \in 1..d : done[k].op # "drop") =>
              /\ database.relations \subseteq result.relations
              /\ \A m \in 1..d : done[m].op = "create" => done[m].arg \in result.relations
        /\ (\A k \in 1..d : done[k].op \notin {"drop", "rows"}) =>
              result.entities = database.entities /\ result.demoEvents = database.demoEvents
        /\ result.version # 0 =>
              database.version # 0 \/ \E m \in 1..d : done[m].op = "stamp" /\ done[m].arg # 0
        /\ d > 0 /\ done[d].op = "stamp" => result.version = done[d].arg
        /\ d = 1 => result = Executed(done[1], database)
    BY <1>1, <1>4, <2>1, RunLeaves
  <2>3. /\ database' = result /\ command' = [command EXCEPT ![i].todo = left]
        /\ everDropped' = (everDropped \/ Drops(done))
        /\ halfDropped' = ((halfDropped \/ Drops(done)) /\ result.relations # Relations)
        /\ seedings' = IF c.todo[1].op = "rows" THEN seedings + 1 ELSE seedings
    BY <1>4 DEF Execute
  <2>4. Drops(done) <=> \E k \in 1..d : c.todo[k].op = "drop"
    <3>1. DOMAIN done = 1..d
      BY <2>1
    <3> HIDE DEF done, c
    <3> QED  BY <2>1, <3>1 DEF Drops
  <2>5. n \in Nat /\ 1 \in 1..d /\ done[1] = c.todo[1] /\ d \in Nat
    BY <1>1, <2>1
  <2> HIDE DEF n, d, result, done, left
  <2>6. /\ command' \in [Slots -> Commands] /\ command'[i].kind = c.kind /\ command'[i].todo = left
        /\ \A j \in Slots : j # i => command'[j] = command[j]
    <3>1. \A x \in Commands : /\ [x EXCEPT !.todo = left] \in Commands
                              /\ [x EXCEPT !.todo = left].kind = x.kind
                              /\ [x EXCEPT !.todo = left].todo = left
      BY <2>1 DEF Commands
    <3>2. command' = [command EXCEPT ![i] = [c EXCEPT !.todo = left]]
      BY <1>1, <2>3
    <3> HIDE DEF c
    <3>3. command'[i] = [c EXCEPT !.todo = left]
      BY <1>1, <3>2
    <3> QED  BY <1>1, <3>1, <3>2, <3>3
  <2> DEFINE from == database.relations
             to == result.relations
             was == Excused
             is == halfDropped' /\ dialect = "sqlite"
  <2>7. from \in SUBSET Relations /\ to \in SUBSET Relations /\ halfDropped \in BOOLEAN /\ halfDropped' \in BOOLEAN
        /\ everDropped' \in BOOLEAN
    BY <1>1, <2>2, <2>3 DEF Databases, SchemaInv, SchemaTypes
  <2>8. halfDropped => halfDropped' \/ to = Relations
    BY <2>3
  <2>9. Drops(done) => halfDropped' \/ to = Relations
    BY <2>3
  <2>10. ~Drops(done) => /\ from \subseteq to
                         /\ \A k \in 1..d : c.todo[k].op = "create" => c.todo[k].arg \in to
    BY <2>1, <2>2, <2>4
  <2>18. /\ c.todo \in Seq(Statement) /\ left \in Seq(Statement) /\ RestAfter(c.todo, left, d)
         /\ IF Drops(done) THEN DropsIn(c.todo, d) ELSE Advanced(c.todo, d, from, to)
    BY <1>1, <2>1, <2>4, <2>10 DEF n, RestAfter, DropsIn, Advanced
  <2>11. Drops(done) => c.kind \in AlembicKinds
    <3>1. \A k \in 1..d : k \in 1..n
      BY <2>1, <2>5
    <3> QED  BY <1>1, <2>4, <3>1 DEF TodoInv, CreateTodo, RowsTodo, Kinds, AlembicKinds, n
  <2>12. ASSUME NEW j \in Slots PROVE TodoInv(command[j])'
    <3>1. CASE j = i
      <4>1. ASSUME c.kind \in AlembicKinds PROVE AlembicTodo(left, to, is)
        <5>1. AlembicTodo(c.todo, from, was)
          BY <1>1, <4>1 DEF TodoInv
        <5>2. was \in BOOLEAN /\ is \in BOOLEAN /\ (was => is \/ to = Relations)
          BY <2>7, <2>8 DEF Excused
        <5> HIDE DEF is, was, from, to, c
        <5> QED  BY <2>7, <2>18, <5>1, <5>2, RestOfAlembic DEF from, to
      <4>2. ASSUME c.kind \in {"start", "seed"} PROVE CreateTodo(left, to, halfDropped')
        <5>1. CreateTodo(c.todo, from, halfDropped)
          BY <1>1, <4>2 DEF TodoInv
        <5>2. ~Drops(done)
          BY <2>11, <4>2 DEF AlembicKinds
        <5> HIDE DEF from, to, c
        <5> QED  BY <2>7, <2>8, <2>18, <5>1, <5>2, RestOfCreateAll DEF from, to
      <4>3. ASSUME c.kind = "seeding" PROVE RowsTodo(left)
        <5>1. n <= 1
          BY <1>1, <4>3 DEF TodoInv, RowsTodo, n
        <5>2. Len(left) = 0
          BY <2>1, <2>5, <5>1
        <5> QED  BY <5>2 DEF RowsTodo
      <4>4. c.kind # "none"
        BY <1>1 DEF TodoInv
      <4> QED  BY <1>2, <2>3, <2>6, <3>1, <4>1, <4>2, <4>3, <4>4 DEF TodoInv, Excused
    <3>2. CASE j # i
      <4> DEFINE o == command[j]
      <4>1. TodoInv(o) /\ command'[j] = o
        BY <2>6, <3>2 DEF SchemaInv
      <4>2. ASSUME o.kind \in AlembicKinds PROVE AlembicTodo(o.todo, to, is)
        <5>1. ~Drops(done)
          BY <2>11, <3>2, <4>2 DEF SchemaInv
        <5>2. AlembicTodo(o.todo, from, was)
          BY <4>1, <4>2 DEF TodoInv
        <5>3. was \in BOOLEAN /\ is \in BOOLEAN /\ (was => is \/ to = Relations)
          BY <2>7, <2>8 DEF Excused
        <5> HIDE DEF is, was, from, to, o
        <5> QED  BY <2>7, <2>10, <5>1, <5>2, <5>3, AlembicGrows DEF from, to
      <4>3. ASSUME o.kind \in {"start", "seed"} PROVE CreateTodo(o.todo, to, halfDropped')
        <5>1. CreateTodo(o.todo, from, halfDropped)
          BY <4>1, <4>3 DEF TodoInv
        <5>2. halfDropped' \/ to = Relations \/ (from \subseteq to /\ ~halfDropped)
          BY <2>8, <2>9, <2>10
        <5> HIDE DEF from, to, o
        <5> QED  BY <2>7, <5>1, <5>2, CreateGrows DEF from, to
      <4>4. o.kind = "seeding" => RowsTodo(o.todo)
        BY <4>1 DEF TodoInv
      <4>5. o.kind = "none" => o.todo = << >>
        BY <4>1 DEF TodoInv
      <4> QED  BY <1>2, <2>3, <4>1, <4>2, <4>3, <4>4, <4>5 DEF TodoInv, Excused
    <3> QED  BY <3>1, <3>2
  <2>13. (database.version # 0 => Whole \/ Excused)'
    <3> SUFFICES ASSUME result.version # 0 PROVE to = Relations \/ is
      BY <1>2, <2>3 DEF Whole, Excused
    <3>1. CASE Drops(done)
      <4>1. CASE dialect = "sqlite"
        BY <2>9, <3>1, <4>1
      <4>2. CASE dialect # "sqlite"
        <5>1. d = n /\ c.kind \in AlembicKinds
          BY <2>1, <2>11, <3>1, <4>2
        <5>2. PICK k \in 1..n : c.todo[k].op = "drop"
          BY <2>4, <3>1, <5>1
        <5>3. AlembicTodo(c.todo, from, was)
          BY <1>1, <5>1 DEF TodoInv
        <5>4. c.todo[n].op = "stamp" /\ \A m \in k..n : c.todo[m].op = "stamp" => c.todo[m].arg = 0
          BY <5>2, <5>3 DEF AlembicTodo, n
        <5>5. n \in k..n /\ n \in 1..n /\ n > 0
          BY <2>5, <5>2
        <5>6. done[n] = c.todo[n]
          BY <2>1, <5>1, <5>5
        <5>7. result.version = c.todo[n].arg /\ c.todo[n].arg = 0
          BY <2>2, <5>1, <5>4, <5>5, <5>6
        <5> QED  BY <5>7
      <4> QED  BY <4>1, <4>2
    <3>2. CASE ~Drops(done)
      <4>1. CASE database.version # 0
        <5>1. from = Relations \/ Excused
          BY <4>1 DEF SchemaInv, Whole
        <5> QED  BY <2>7, <2>8, <2>10, <3>2, <5>1 DEF Excused
      <4>2. CASE database.version = 0
        <5>1. PICK m \in 1..d : done[m].op = "stamp" /\ done[m].arg # 0
          BY <2>2, <4>2
        <5>2. m \in 1..n /\ c.todo[m].op = "stamp" /\ c.todo[m].arg # 0
          BY <2>1, <2>5, <5>1
        <5>3. AlembicTodo(c.todo, from, was)
          BY <1>1, <5>2 DEF TodoInv, CreateTodo, RowsTodo, Kinds, AlembicKinds, n
        <5>4. was \/ Covered(Relations, from, c.todo, m - 1)
          BY <5>2, <5>3 DEF AlembicTodo, n
        <5>5. CASE was
          BY <2>8, <5>5 DEF Excused
        <5>6. CASE Covered(Relations, from, c.todo, m - 1)
          <6>1. \A k \in 1..(m - 1) : k \in 1..d
            BY <2>5
          <6>2. \A t \in Relations : t \in to
            BY <2>10, <3>2, <5>6, <6>1 DEF Covered
          <6> QED  BY <2>7, <6>2
        <5> QED  BY <5>4, <5>5, <5>6
      <4> QED  BY <4>1, <4>2
    <3> QED  BY <3>1, <3>2
  <2>14. ServedByTables'
    <3>1. backend = "serving" => Tables \subseteq from \/ halfDropped
      BY DEF SchemaInv, ServedByTables
    <3>2. Tables \subseteq Relations
      BY DEF Tables
    <3> QED  BY <1>2, <2>3, <2>7, <2>8, <2>9, <2>10, <3>1, <3>2 DEF ServedByTables
  <2>15. SeededWhole' /\ seedings' \in Nat
    <3>1. seedings \in Nat /\ SeededWhole
      BY DEF SchemaInv, SchemaTypes
    <3>2. CASE Drops(done)
      <4>1. everDropped'
        BY <2>3, <3>2
      <4>2. seedings' = seedings \/ seedings' = seedings + 1
        BY <2>3
      <4> QED  BY <3>1, <4>1, <4>2 DEF SeededWhole
    <3>3. CASE ~Drops(done) /\ c.todo[1].op = "rows"
      <4>1. 1 \in 1..n
        BY <2>1, <2>5
      <4>2. c.kind = "seeding"
        BY <1>1, <3>3, <4>1 DEF TodoInv, CreateTodo, AlembicTodo, Kinds, AlembicKinds, n
      <4>3. d = 1
        BY <1>1, <2>1, <2>5, <4>2 DEF TodoInv, RowsTodo, n
      <4>4. done[1] \in Statement
        BY <2>1, <2>5, ElementOfSeq DEF d
      <4>5. result.entities /\ result.demoEvents = database.demoEvents + 3
        BY <1>1, <2>2, <2>5, <3>3, <4>3, <4>4, StatementEffects
      <4>6. database.demoEvents \in Nat
        BY <1>1 DEF Databases
      <4>7. seedings' = seedings + 1 /\ database' = result /\ (everDropped => everDropped')
        BY <2>3, <3>3
      <4>8. seedings' \in Nat /\ seedings' > 0
        BY <3>1, <4>7
      <4>9. ~everDropped' => database'.demoEvents = 3 * seedings'
        BY <3>1, <4>5, <4>6, <4>7 DEF SeededWhole
      <4>10. database'.entities
        BY <4>5, <4>7
      <4> QED  BY <4>8, <4>9, <4>10 DEF SeededWhole
    <3>4. CASE ~Drops(done) /\ c.todo[1].op # "rows"
      <4>1. ASSUME NEW k \in 1..d PROVE done[k].op \notin {"drop", "rows"}
        <5>1. k \in 1..n /\ done[k] = c.todo[k] /\ 1 \in 1..n
          BY <2>1, <2>5
        <5>2. c.kind # "seeding"
          BY <1>1, <3>4, <5>1 DEF TodoInv, RowsTodo, n
        <5>3. c.todo[k].op # "rows"
          BY <1>1, <5>1, <5>2 DEF TodoInv, AlembicTodo, CreateTodo, Kinds, AlembicKinds, n
        <5> QED  BY <2>4, <3>4, <5>1, <5>3
      <4>2. result.entities = database.entities /\ result.demoEvents = database.demoEvents
        BY <2>2, <4>1
      <4>3. seedings' = seedings /\ database' = result /\ (everDropped => everDropped')
        BY <2>3, <3>4
      <4>4. ~everDropped' => database'.demoEvents = 3 * seedings'
        BY <3>1, <4>2, <4>3 DEF SeededWhole
      <4>5. ~everDropped' => (database'.entities <=> seedings' > 0)
        BY <3>1, <4>2, <4>3 DEF SeededWhole
      <4> QED  BY <3>1, <4>3, <4>4, <4>5 DEF SeededWhole
    <3> QED  BY <3>2, <3>3, <3>4
  <2>16. (\A j, k \in Slots : command[j].kind \in AlembicKinds /\ command[k].kind \in AlembicKinds => j = k)'
    <3>1. \A j \in Slots : command'[j].kind = command[j].kind
      BY <2>6
    <3> QED  BY <3>1 DEF SchemaInv
  <2>17. SchemaTypes'
    BY <2>2, <2>3, <2>6, <2>7, <2>15 DEF SchemaTypes
  <2> QED  BY <2>12, <2>13, <2>14, <2>15, <2>16, <2>17 DEF SchemaInv
<1> QED  BY <1>3, <1>4

LEMMA SchemaStepInv == SchemaInv /\ [SchemaNext]_schemaVars => SchemaInv'
<1> SUFFICES ASSUME SchemaInv, [SchemaNext]_schemaVars PROVE SchemaInv'
  OBVIOUS
<1>1. CASE Stop \/ UNCHANGED schemaVars
  <2>1. UNCHANGED <<database, dialect, halfDropped, everDropped, seedings, command>>
        /\ (backend' = "serving" => backend = "serving")
    BY <1>1 DEF Stop, schemaVars
  <2> QED  BY <2>1 DEF SchemaInv, SchemaTypes, TodoInv, Excused, Whole, SeededWhole, ServedByTables
<1>2. CASE \E i \in Slots : Execute(i) \/ Finish(i) \/ Kill(i)
  BY <1>2, ExecuteInv, FinishInv, KillInv
<1>3. CASE \E i \in Slots : \E new \in Kinds : Begin(i, new)
  BY <1>3, BeginInv
<1> QED  BY <1>1, <1>2, <1>3 DEF SchemaNext

(* The indexes.  A plan that creates a table goes on with its indexes, and  *)
(* no other command plans to create what this one is about to, as long as   *)
(* nothing has been dropped.                                                *)
Creating(todo, n, r) == todo[n].op = "create" /\ todo[n].arg = r

CreatesIndex(s) == s.op = "create" /\ s.arg \in Indexes

Orderly(todo) ==
    /\ \A n \in 1..Len(todo) : \A r \in Indexes :
          Creating(todo, n, TableOf(r)) => \E m \in (n + 1)..Len(todo) : Creating(todo, m, r)
    /\ \A n, m \in 1..Len(todo) : \A r \in Indexes :
          n < m /\ todo[n].op = "create" /\ TableOf(todo[n].arg) = TableOf(r) /\ Creating(todo, m, r) =>
             CreatesIndex(todo[n + 1]) /\ TableOf(todo[n + 1].arg) = TableOf(r)
    /\ \A n \in 1..Len(todo) : n > 1 /\ CreatesIndex(todo[n]) =>
          todo[n - 1].op = "create" /\ TableOf(todo[n - 1].arg) = TableOf(todo[n].arg)
    /\ \A n, m \in 1..Len(todo) :
          todo[n].op = "create" /\ todo[m].op = "create" /\ todo[n].arg = todo[m].arg => n = m

LEMMA NoCreates ==
    ASSUME NEW todo \in Seq(Statement), \A k \in 1..Len(todo) : todo[k].op # "create"
    PROVE  Orderly(todo) /\ Coming(todo) = {}
<1>1. Orderly(todo)
  BY DEF Orderly, Creating, CreatesIndex
<1>2. todo # << >> => 1 \in 1..Len(todo)
  OBVIOUS
<1> QED  BY <1>1, <1>2 DEF Coming

(* Relations in the order of creation, tables with all their indexes.       *)
LEMMA OrderlyPlan ==
    ASSUME NEW todo \in Seq(Statement), NEW s, NEW wanted \in SUBSET Relations, EachOnce(s, wanted),
           \A r \in Relations : r \in wanted <=> TableOf(r) \in wanted, Creates(todo, s)
    PROVE  Orderly(todo) /\ Coming(todo) = {}
<1> DEFINE n == Len(s)
<1>1. n \in Nat /\ Len(todo) \in Nat /\ n <= Len(todo)
  BY DEF EachOnce, Creates
<1>2. \A k \in 1..n : todo[k].op = "create" /\ todo[k].arg = s[k]
  BY DEF Creates
<1>3. \A k \in 1..Len(todo) : k > n => todo[k].op # "create"
  BY <1>1 DEF Creates
<1>4. /\ \A k \in 1..n : s[k] \in wanted /\ s[k] \in Relations /\ Place(s[k]) \in Nat
      /\ \A r \in wanted : \E k \in 1..n : s[k] = r
      /\ \A j, k \in 1..n : j < k => Place(s[j]) < Place(s[k])
  <2>1. \A k \in 1..n : s[k] \in wanted
    BY DEF EachOnce
  <2>2. \A r \in Relations : Place(r) \in Nat
    BY RelationsInOrder
  <2>3. /\ \A r \in wanted : \E k \in 1..n : s[k] = r
        /\ \A j, k \in 1..n : j < k => Place(s[j]) < Place(s[k])
    BY DEF EachOnce
  <2> HIDE DEF n
  <2> QED  BY <2>1, <2>2, <2>3
<1>5. \A r \in Relations : Place(r) \in Nat /\ CreationOrder[Place(r)] = r
  BY RelationsInOrder
<1>6. \A r \in Indexes : r \in Relations /\ TableOf(r) \in Tables /\ TableOf(r) \in Relations
  BY IndexesFollow DEF Indexes, Tables
<1> HIDE DEF n
<1>7. \A k \in 1..Len(todo) : todo[k].op = "create" => k \in 1..n
  BY <1>1, <1>3
<1>8. ASSUME NEW j \in 1..n, NEW k \in 1..n, Place(s[j]) < Place(s[k]) PROVE j < k
  <2>1. CASE k < j
    <3>1. Place(s[k]) < Place(s[j]) /\ Place(s[j]) \in Nat /\ Place(s[k]) \in Nat
      BY <1>4, <2>1
    <3> QED  BY <1>8, <3>1
  <2>2. CASE k = j
    <3>1. Place(s[j]) < Place(s[j]) /\ Place(s[j]) \in Nat
      BY <1>4, <1>8, <2>2
    <3> QED  BY <3>1
  <2> QED  BY <1>1, <2>1, <2>2
<1>9. ASSUME NEW j \in 1..n, NEW r \in Indexes, s[j] = TableOf(r)
      PROVE  \E k \in 1..n : j < k /\ s[k] = r
  <2>1. r \in wanted
    BY <1>4, <1>6, <1>9
  <2>2. PICK k \in 1..n : s[k] = r
    BY <1>4, <2>1
  <2>3. Place(s[j]) < Place(s[k])
    BY <1>9, <2>2, IndexesFollow
  <2> QED  BY <1>8, <2>2, <2>3
<1>10. ASSUME NEW j \in 1..n, NEW k \in 1..n, NEW r \in Indexes, j < k, TableOf(s[j]) = TableOf(r), s[k] = r
       PROVE  j + 1 \in 1..n /\ s[j + 1] \in Indexes /\ TableOf(s[j + 1]) = TableOf(r)
  <2>1. j + 1 \in 1..n /\ j < j + 1 /\ (j + 1 < k \/ j + 1 = k)
    BY <1>1, <1>10
  <2>2. Place(TableOf(r)) <= Place(s[j])
    <3>1. CASE s[j] \in Indexes
      BY <1>4, <1>5, <1>6, <1>10, <3>1, IndexesFollow
    <3>2. CASE s[j] \notin Indexes
      <4>1. s[j] = TableOf(s[j])
        BY <1>4, <3>2 DEF Indexes, Tables
      <4> QED  BY <1>4, <1>10, <4>1
    <3> QED  BY <3>1, <3>2
  <2>3. Place(s[j]) < Place(s[j + 1]) /\ Place(s[j + 1]) <= Place(s[k])
    BY <1>4, <2>1
  <2>4. s[j + 1] \in Relations /\ Place(TableOf(r)) < Place(s[j + 1]) /\ Place(s[j + 1]) <= Place(r)
    <3>1. Place(TableOf(r)) \in Nat /\ Place(s[j]) \in Nat /\ Place(s[j + 1]) \in Nat
      BY <1>4, <1>5, <1>6, <2>1
    <3> QED  BY <1>4, <1>10, <2>1, <2>2, <2>3, <3>1
  <2> QED  BY <2>1, <2>4, IndexesFollow
<1>11. ASSUME NEW k \in 1..n, s[k] \in Indexes
       PROVE  k > 1 /\ TableOf(s[k - 1]) = TableOf(s[k])
  <2> DEFINE r == s[k]
             t == TableOf(s[k])
  <2>1. t \in wanted /\ Place(t) < Place(r)
    BY <1>4, <1>6, <1>11, IndexesFollow
  <2>2. PICK j \in 1..n : s[j] = t
    BY <1>4, <2>1
  <2>3. j < k
    BY <1>8, <2>1, <2>2
  <2>4. k > 1 /\ k - 1 \in 1..n /\ k - 1 < k /\ (j < k - 1 \/ j = k - 1)
    BY <1>1, <2>3
  <2>5. CASE j = k - 1
    <3>1. TableOf(t) = t
      BY <1>4, IndexesFollow
    <3> QED  BY <2>2, <2>4, <2>5, <3>1
  <2>6. CASE j < k - 1
    <3>1. s[k - 1] \in Relations /\ Place(t) < Place(s[k - 1]) /\ Place(s[k - 1]) < Place(r)
      BY <1>4, <2>2, <2>4, <2>6
    <3>2. Place(s[k - 1]) \in Nat /\ Place(r) \in Nat
      BY <1>4, <2>4
    <3>3. TableOf(s[k - 1]) = TableOf(r)
      BY <1>11, <3>1, <3>2, IndexesFollow
    <3> QED  BY <2>4, <3>3
  <2> QED  BY <2>4, <2>5, <2>6
<1>12. ASSUME NEW j \in 1..n, NEW k \in 1..n, s[j] = s[k] PROVE j = k
  <2>1. Place(s[j]) \in Nat
    BY <1>4
  <2>2. ~(j < k) /\ ~(k < j)
    BY <1>4, <1>12, <2>1
  <2> QED  BY <1>1, <2>2
<1>13. Orderly(todo)
  <2>1. ASSUME NEW j \in 1..Len(todo), NEW r \in Indexes, Creating(todo, j, TableOf(r))
        PROVE  \E m \in (j + 1)..Len(todo) : Creating(todo, m, r)
    <3>1. j \in 1..n /\ s[j] = TableOf(r)
      BY <1>2, <1>7, <2>1 DEF Creating
    <3>2. PICK k \in 1..n : j < k /\ s[k] = r
      BY <1>9, <3>1
    <3>3. k \in (j + 1)..Len(todo)
      BY <1>1, <3>2
    <3> QED  BY <1>2, <3>2, <3>3 DEF Creating
  <2>2. ASSUME NEW j \in 1..Len(todo), NEW m \in 1..Len(todo), NEW r \in Indexes, j < m,
               todo[j].op = "create", TableOf(todo[j].arg) = TableOf(r), Creating(todo, m, r)
        PROVE  CreatesIndex(todo[j + 1]) /\ TableOf(todo[j + 1].arg) = TableOf(r)
    <3>1. j \in 1..n /\ m \in 1..n /\ TableOf(s[j]) = TableOf(r) /\ s[m] = r
      BY <1>2, <1>7, <2>2 DEF Creating
    <3>2. j + 1 \in 1..n /\ s[j + 1] \in Indexes /\ TableOf(s[j + 1]) = TableOf(r)
      BY <1>10, <2>2, <3>1
    <3> QED  BY <1>2, <3>2 DEF CreatesIndex
  <2>3. ASSUME NEW k \in 1..Len(todo), k > 1, CreatesIndex(todo[k])
        PROVE  todo[k - 1].op = "create" /\ TableOf(todo[k - 1].arg) = TableOf(todo[k].arg)
    <3>1. k \in 1..n /\ s[k] \in Indexes /\ todo[k].arg = s[k]
      BY <1>2, <1>7, <2>3 DEF CreatesIndex
    <3>2. k - 1 \in 1..n /\ TableOf(s[k - 1]) = TableOf(s[k])
      BY <1>1, <1>11, <2>3, <3>1
    <3> QED  BY <1>2, <3>1, <3>2
  <2>4. ASSUME NEW j \in 1..Len(todo), NEW k \in 1..Len(todo),
               todo[j].op = "create", todo[k].op = "create", todo[j].arg = todo[k].arg
        PROVE  j = k
    BY <1>2, <1>7, <1>12, <2>4
  <2> QED  BY <2>1, <2>2, <2>3, <2>4 DEF Orderly
<1>14. Coming(todo) = {}
  <2>1. ASSUME todo # << >>, todo[1].op = "create", todo[1].arg \in Indexes PROVE FALSE
    <3>1. 1 \in 1..n
      <4>1. 1 \in 1..Len(todo)
        BY <2>1
      <4> QED  BY <1>7, <2>1, <4>1
    <3> QED  BY <1>2, <1>11, <2>1, <3>1
  <2> QED  BY <2>1 DEF Coming
<1> QED  BY <1>13, <1>14

(* What is left of an orderly plan.                                         *)
LEMMA OrderlyRest ==
    ASSUME NEW todo \in Seq(Statement), NEW rest \in Seq(Statement), NEW d,
           RestAfter(todo, rest, d), Orderly(todo)
    PROVE  Orderly(rest)
<1> DEFINE n == Len(todo)
           l == Len(rest)
<1>1. n \in Nat /\ l \in Nat /\ d \in 1..n /\ l = n - d
      /\ \A k \in 1..l : k + d \in 1..n /\ rest[k] = todo[k + d]
  BY DEF RestAfter
<1>2. ASSUME NEW j \in 1..l, NEW r \in Indexes, Creating(rest, j, TableOf(r))
      PROVE  \E m \in (j + 1)..l : Creating(rest, m, r)
  <2>1. j + d \in 1..n /\ Creating(todo, j + d, TableOf(r))
    BY <1>1, <1>2 DEF Creating
  <2>2. PICK m \in ((j + d) + 1)..n : Creating(todo, m, r)
    BY <2>1 DEF Orderly
  <2>3. m - d \in (j + 1)..l /\ m - d \in 1..l /\ (m - d) + d = m
    BY <1>1
  <2> QED  BY <1>1, <2>2, <2>3 DEF Creating
<1>3. ASSUME NEW j \in 1..l, NEW m \in 1..l, NEW r \in Indexes, j < m,
             rest[j].op = "create", TableOf(rest[j].arg) = TableOf(r), Creating(rest, m, r)
      PROVE  CreatesIndex(rest[j + 1]) /\ TableOf(rest[j + 1].arg) = TableOf(r)
  <2>1. /\ j + d \in 1..n /\ m + d \in 1..n /\ j + d < m + d /\ rest[j] = todo[j + d]
        /\ Creating(todo, m + d, r)
    BY <1>1, <1>3 DEF Creating
  <2>2. CreatesIndex(todo[(j + d) + 1]) /\ TableOf(todo[(j + d) + 1].arg) = TableOf(r)
    BY <1>3, <2>1 DEF Orderly
  <2>3. j + 1 \in 1..l /\ (j + 1) + d = (j + d) + 1
    BY <1>1, <1>3
  <2>4. rest[j + 1] = todo[(j + d) + 1]
    BY <1>1, <2>3
  <2> QED  BY <2>2, <2>4
<1>4. ASSUME NEW k \in 1..l, k > 1, CreatesIndex(rest[k])
      PROVE  rest[k - 1].op = "create" /\ TableOf(rest[k - 1].arg) = TableOf(rest[k].arg)
  <2>1. k + d \in 1..n /\ k + d > 1 /\ rest[k] = todo[k + d]
    BY <1>1
  <2>2. todo[(k + d) - 1].op = "create" /\ TableOf(todo[(k + d) - 1].arg) = TableOf(todo[k + d].arg)
    BY <1>4, <2>1 DEF Orderly
  <2>3. k - 1 \in 1..l /\ (k - 1) + d = (k + d) - 1
    BY <1>1, <1>4
  <2> QED  BY <1>1, <2>1, <2>2, <2>3
<1>5. ASSUME NEW j \in 1..l, NEW k \in 1..l,
             rest[j].op = "create", rest[k].op = "create", rest[j].arg = rest[k].arg
      PROVE  j = k
  <2>1. j + d \in 1..n /\ k + d \in 1..n /\ rest[j] = todo[j + d] /\ rest[k] = todo[k + d]
    BY <1>1
  <2>2. j + d = k + d
    BY <1>5, <2>1 DEF Orderly
  <2> QED  BY <1>1, <2>2
<1> QED  BY <1>2, <1>3, <1>4, <1>5 DEF Orderly

(* Every command begins with an orderly plan, at no index. *)
LEMMA PlansAreOrderly ==
    ASSUME SchemaInv, NEW new \in Kinds
    PROVE  Orderly(Plan(new, database)) /\ Coming(Plan(new, database)) = {}
<1>1. database \in Databases /\ (database.version # 0 => Whole \/ Excused)
  BY DEF SchemaInv, SchemaTypes
<1>2. database.version \in 0..2
  BY <1>1 DEF Databases
<1>3. CASE new = "upgrade"
  <2> DEFINE todo == Upgrade(database.version)
  <2>1. /\ todo \in Seq(Statement)
        /\ database.version = 0 => Creates(todo, CreationOrder)
        /\ database.version # 0 => \A k \in 1..Len(todo) : todo[k].op # "create"
    BY <1>1, <1>2, UpgradePlan
  <2>2. Plan(new, database) = todo
    BY <1>3 DEF Plan
  <2> HIDE DEF todo
  <2>3. CASE database.version = 0
    <3>1. EachOnce(CreationOrder, Relations)
      <4>1. \A i, j \in 1..17 : i < j => Place(CreationOrder[i]) < Place(CreationOrder[j])
        BY RelationsInOrder
      <4>2. \A r \in Relations : \E i \in 1..17 : CreationOrder[i] = r
        BY RelationsInOrder
      <4> QED  BY <4>1, <4>2, RelationsInOrder DEF EachOnce
    <3>2. \A r \in Relations : r \in Relations <=> TableOf(r) \in Relations
      BY IndexesFollow DEF Tables
    <3> QED  BY <2>1, <2>2, <2>3, <3>1, <3>2, OrderlyPlan
  <2>4. CASE database.version # 0
    BY <2>1, <2>2, <2>4, NoCreates
  <2> QED  BY <2>3, <2>4
<1>4. CASE new = "downgrade"
  <2>1. /\ Downgrade(database.version) \in Seq(Statement)
        /\ \A k \in 1..Len(Downgrade(database.version)) : Downgrade(database.version)[k].op # "create"
    BY <1>1, <1>2, DowngradePlan
  <2>2. Plan(new, database) = Downgrade(database.version)
    BY <1>4 DEF Plan
  <2> QED  BY <2>1, <2>2, NoCreates
<1>5. CASE new \in {"start", "seed"}
  <2>1. CreateAll(database) \in Seq(Statement) /\ Creates(CreateAll(database), NotThere(database))
    BY CreateAllPlan
  <2>2. EachOnce(NotThere(database), MissingWith(database))
    BY MissingTables
  <2>3. \A r \in Relations : r \in MissingWith(database) <=> TableOf(r) \in MissingWith(database)
    BY IndexesFollow DEF MissingWith, Tables
  <2>4. MissingWith(database) \in SUBSET Relations
    BY DEF MissingWith
  <2>5. Plan(new, database) = CreateAll(database)
    BY <1>5 DEF Plan
  <2> QED  BY <2>1, <2>2, <2>3, <2>4, <2>5, OrderlyPlan
<1> QED  BY <1>3, <1>4, <1>5 DEF Kinds

Pending(i) == Coming(command[i].todo)

IndexInv ==
    /\ \A i \in Slots : Orderly(command[i].todo)
    /\ dialect # "sqlite" => \A i \in Slots : Pending(i) = {}
    /\ dialect = "sqlite" => \A r \in Indexes : r \in database.relations => TableOf(r) \in database.relations
    /\ everDropped \/ \A i \in Slots : Pending(i) \subseteq Bare(database)
    /\ everDropped \/ \A i, j \in Slots : i # j => Pending(i) \intersect Pending(j) = {}
    /\ everDropped /\ ~halfDropped => Whole
    /\ IndexesComeWithTables

LEMMA IndexInitInv == SchemaInit => IndexInv
<1> SUFFICES ASSUME SchemaInit PROVE IndexInv
  OBVIOUS
<1>1. \A i \in Slots : command[i].todo = << >>
  BY DEF SchemaInit, Idle
<1>2. << >> \in Seq(Statement) /\ \A k \in 1..Len(<< >>) : << >>[k].op # "create"
  OBVIOUS
<1>3. \A i \in Slots : Orderly(command[i].todo) /\ Pending(i) = {}
  BY <1>1, <1>2, NoCreates DEF Pending
<1>4. database.relations = {} /\ ~everDropped
  BY DEF SchemaInit, NothingStored
<1>5. Bare(database) = {}
  BY <1>4 DEF Bare
<1> QED  BY <1>3, <1>4, <1>5 DEF IndexInv, IndexesComeWithTables

(* A plan that is cut short or begun, and nothing else: what it was about   *)
(* to create is lost, or it was about to create no index.                   *)
LEMMA QuietIndexes ==
    ASSUME SchemaInv, IndexInv, UNCHANGED <<database, dialect, halfDropped, everDropped>>,
           NEW i \in Slots, command[i].todo \in Seq(Statement),
           \A j \in Slots : j # i => command'[j].todo = command[j].todo,
           Orderly(command'[i].todo), Coming(command'[i].todo) = {},
           lost \subseteq lost', ~halfDropped => Pending(i) \intersect Bare(database) \subseteq lost'
    PROVE  IndexInv'
<1>1. \A j \in Slots : Orderly(command'[j].todo)
  BY DEF IndexInv
<1>2. \A j \in Slots : IF j = i THEN Pending(j)' = {} ELSE Pending(j)' = Pending(j)
  BY DEF Pending
<1>3. Bare(database)' = Bare(database) /\ (Whole => Whole')
  BY DEF Bare, Whole
<1>4. IndexesComeWithTables'
  <2> SUFFICES ASSUME ~halfDropped, NEW r \in Bare(database), r \notin lost'
               PROVE  r \in UNION {Pending(j)' : j \in Slots}
    BY <1>3 DEF IndexesComeWithTables, Pending
  <2>1. r \notin lost
    OBVIOUS
  <2>2. PICK j \in Slots : r \in Pending(j)
    BY <2>1 DEF IndexInv, IndexesComeWithTables, Pending
  <2>3. j # i
    BY <2>2
  <2> QED  BY <1>2, <2>2, <2>3
<1> QED  BY <1>1, <1>2, <1>3, <1>4 DEF IndexInv

(* One statement more of an orderly plan.                                   *)
LEMMA NextComing ==
    ASSUME NEW todo \in Seq(Statement), NEW rest \in Seq(Statement), RestAfter(todo, rest, 1), Orderly(todo)
    PROVE  /\ \A r \in Coming(rest) : /\ todo[1].op = "create" /\ TableOf(todo[1].arg) = TableOf(r)
                                      /\ r # todo[1].arg
           /\ \A r \in Indexes : Creating(todo, 1, TableOf(r)) => r \in Coming(rest)
           /\ \A r \in Coming(todo) : r = todo[1].arg \/ r \in Coming(rest)
           /\ CreatesIndex(todo[1]) => todo[1].arg \in Coming(todo) /\ Coming(rest) \subseteq Coming(todo)
<1> DEFINE n == Len(todo)
           l == Len(rest)
<1>1. /\ n \in Nat /\ l \in Nat /\ 1 \in 1..n /\ l = n - 1 /\ DOMAIN todo = 1..n /\ DOMAIN rest = 1..l
      /\ \A k \in 1..l : k + 1 \in 1..n /\ rest[k] = todo[k + 1]
      /\ todo # << >>
  BY DEF RestAfter
<1>2. rest # << >> => 1 \in 1..l
  OBVIOUS
<1> HIDE DEF n, l
<1>3. ASSUME NEW r \in Coming(rest)
      PROVE  /\ todo[1].op = "create" /\ TableOf(todo[1].arg) = TableOf(r) /\ r # todo[1].arg
             /\ \E m \in 1..n : Creating(todo, m, r)
  <2>1. /\ r \in Indexes /\ 1 \in 1..l /\ CreatesIndex(rest[1]) /\ TableOf(rest[1].arg) = TableOf(r)
        /\ \E k \in 1..l : rest[k].op = "create" /\ rest[k].arg = r
    BY <1>1, <1>2 DEF Coming, CreatesIndex
  <2>2. PICK k \in 1..l : rest[k].op = "create" /\ rest[k].arg = r
    BY <2>1
  <2>3. k + 1 \in 1..n /\ k + 1 # 1 /\ todo[k + 1].op = "create" /\ todo[k + 1].arg = r
    BY <1>1, <2>2
  <2>4. 2 \in 1..n /\ rest[1] = todo[2]
    <3>1. 1 + 1 = 2
      OBVIOUS
    <3> QED  BY <1>1, <2>1, <3>1
  <2>5. todo[1].op = "create" /\ TableOf(todo[1].arg) = TableOf(todo[2].arg)
    <3>1. 2 - 1 = 1 /\ 2 > 1
      OBVIOUS
    <3>2. todo[2 - 1].op = "create" /\ TableOf(todo[2 - 1].arg) = TableOf(todo[2].arg)
      BY <2>1, <2>4, <3>1 DEF Orderly, n
    <3> QED  BY <3>1, <3>2
  <2>6. r # todo[1].arg
    BY <1>1, <2>3, <2>5 DEF Orderly, n
  <2> QED  BY <2>1, <2>3, <2>4, <2>5, <2>6 DEF Creating
<1>4. ASSUME NEW r \in Indexes, NEW m \in 1..n, m # 1, Creating(todo, m, r),
             todo[1].op = "create", TableOf(todo[1].arg) = TableOf(r)
      PROVE  r \in Coming(rest)
  <2>1. 1 < m
    BY <1>1, <1>4
  <2>2. CreatesIndex(todo[1 + 1]) /\ TableOf(todo[1 + 1].arg) = TableOf(r)
    BY <1>1, <1>4, <2>1 DEF Orderly, n
  <2>3. 1 \in 1..l /\ m - 1 \in 1..l /\ (m - 1) + 1 = m
    BY <1>1, <2>1
  <2>4. rest[1] = todo[1 + 1] /\ rest[m - 1] = todo[m]
    BY <1>1, <2>3
  <2>5. rest # << >>
    BY <1>1, <2>3
  <2> QED  BY <1>1, <1>4, <2>2, <2>3, <2>4, <2>5 DEF Coming, Creating, CreatesIndex
<1>5. ASSUME NEW r \in Indexes, Creating(todo, 1, TableOf(r)) PROVE r \in Coming(rest)
  <2>1. PICK m \in (1 + 1)..n : Creating(todo, m, r)
    BY <1>1, <1>5 DEF Orderly, n
  <2>2. m \in 1..n /\ m # 1
    BY <1>1
  <2>3. TableOf(TableOf(r)) = TableOf(r)
    BY IndexesFollow DEF Indexes
  <2> QED  BY <1>4, <1>5, <2>1, <2>2, <2>3 DEF Creating
<1>6. ASSUME NEW r \in Coming(todo), r # todo[1].arg PROVE r \in Coming(rest)
  <2>1. /\ r \in Indexes /\ todo[1].op = "create" /\ TableOf(todo[1].arg) = TableOf(r)
        /\ \E m \in 1..n : todo[m].op = "create" /\ todo[m].arg = r
    BY <1>1 DEF Coming
  <2>2. PICK m \in 1..n : todo[m].op = "create" /\ todo[m].arg = r
    BY <2>1
  <2>3. m # 1
    BY <1>6, <2>2
  <2> QED  BY <1>4, <2>1, <2>2, <2>3 DEF Creating
<1>7. ASSUME CreatesIndex(todo[1]) PROVE todo[1].arg \in Coming(todo) /\ Coming(rest) \subseteq Coming(todo)
  <2>1. todo[1].arg \in Coming(todo)
    BY <1>1, <1>7 DEF Coming, CreatesIndex
  <2>2. ASSUME NEW r \in Coming(rest) PROVE r \in Coming(todo)
    <3>1. r \in Indexes
      BY DEF Coming
    <3> QED  BY <1>1, <1>3, <1>7, <3>1 DEF Coming, CreatesIndex, Creating
  <2> QED  BY <2>1, <2>2
<1> QED  BY <1>3, <1>5, <1>6, <1>7

LEMMA OneStatementDone ==
    ASSUME NEW db, NEW todo, DOMAIN todo = 1..1
    PROVE  FoldLeft(ExecuteIn, db, todo) = ExecuteIn(db, todo[1])
<1>1. PICK n \in Nat : n = 1
  OBVIOUS
<1>2. FoldLeft(ExecuteIn, db, todo) = Folded(db, todo, n)[1..n]
  BY <1>1, FoldIsFolded
<1>3. PICK g : g = Folded(db, todo, n)
  OBVIOUS
<1>4. g[1..0] = db /\ \A k \in 1..n : g[1..k] = ExecuteIn(g[1..(k - 1)], todo[k])
  BY <1>3, FoldedStep
<1>5. n \in 1..n /\ n - 1 = 0
  BY <1>1
<1>6. g[1..n] = ExecuteIn(g[1..0], todo[n])
  BY <1>4, <1>5
<1> QED  BY <1>1, <1>2, <1>3, <1>4, <1>6

(* A refused step loses no index that was about to come. *)
LEMMA RefusedIndexes ==
    ASSUME SchemaInv, IndexInv, NEW i \in Slots, Execute(i),
           FoldLeft(ExecuteIn, database, Durable(command[i].todo)) = Refused
    PROVE  IndexInv'
<1> DEFINE c == command[i]
           todo == c.todo
<1>1. /\ command \in [Slots -> Commands] /\ todo \in Seq(Statement) /\ todo # << >> /\ database \in Databases
  BY DEF Execute, SchemaInv, SchemaTypes, Commands
<1>2. command' = [command EXCEPT ![i] = Idle]
      /\ UNCHANGED <<database, everDropped, halfDropped, lost, dialect>>
  BY DEF Execute
<1>3. command'[i] = Idle /\ \A j \in Slots : j # i => command'[j] = command[j]
  BY <1>1, <1>2
<1>4. Orderly(Idle.todo) /\ Coming(Idle.todo) = {}
  <2>1. << >> \in Seq(Statement) /\ \A k \in 1..Len(<< >>) : << >>[k].op # "create"
    OBVIOUS
  <2> QED  BY <2>1, NoCreates, IdleCommand
<1>5. ~halfDropped => Pending(i) \intersect Bare(database) \subseteq lost
  <2> SUFFICES ASSUME ~halfDropped, NEW r \in Pending(i), r \in Bare(database) PROVE FALSE
    OBVIOUS
  <2>1. ~everDropped
    <3>1. Whole => r \in database.relations
      BY DEF Whole, Bare, Indexes
    <3> QED  BY <3>1 DEF IndexInv, Bare
  <2>2. dialect = "sqlite"
    BY DEF IndexInv
  <2>3. CreatesIndex(todo[1]) /\ todo[1].arg \in Pending(i)
    <3>1. 1 \in DOMAIN todo
      BY <1>1
    <3> HIDE DEF c
    <3> QED  BY <3>1 DEF Pending, Coming, CreatesIndex, c
  <2>4. todo[1].arg \in Indexes /\ todo[1].arg \notin database.relations
        /\ TableOf(todo[1].arg) \in database.relations
    BY <2>1, <2>3 DEF IndexInv, Bare
  <2>5. Accepted(todo[1], database)
    BY <2>2, <2>3, <2>4 DEF Accepted, Refers, CreatesIndex
  <2>6. todo[1] \in Statement
    BY <1>1, ElementOfSeq
  <2>7. ExecuteIn(database, todo[1]) # Refused
    BY <1>1, <2>5, <2>6, StatementEffects DEF ExecuteIn
  <2>8. DOMAIN Durable(todo) = 1..1 /\ Durable(todo)[1] = todo[1]
    <3>1. /\ Durable(todo) \in Seq(Statement) /\ Len(Durable(todo)) = 1
          /\ \A k \in 1..Len(Durable(todo)) : Durable(todo)[k] = todo[k]
      BY <1>1, <2>2, DurablePart
    <3> QED  BY <3>1
  <2>9. FoldLeft(ExecuteIn, database, Durable(todo)) = ExecuteIn(database, todo[1])
    BY <2>8, OneStatementDone
  <2> QED  BY <2>7, <2>9
<1> HIDE DEF c
<1> QED  BY <1>1, <1>2, <1>3, <1>4, <1>5, QuietIndexes DEF c

(* The facts of a step that is not refused. *)
AcceptedFacts(i, todo, left, done, result) ==
    /\ todo = command[i].todo /\ todo \in Seq(Statement) /\ left \in Seq(Statement)
    /\ \A j \in Slots : command'[j].todo = IF j = i THEN left ELSE command[j].todo
    /\ RestAfter(todo, left, done) /\ (dialect # "sqlite" => done = Len(todo)) /\ Orderly(todo)
    /\ result = database' /\ database \in Databases /\ result \in Databases /\ dialect' = dialect
    /\ dialect = "sqlite" => /\ done = 1 /\ todo[1] \in Statement
                             /\ result = Executed(todo[1], database) /\ Accepted(todo[1], database)
    /\ \A r \in result.relations :
          r \in database.relations \/ \E m \in 1..done : todo[m].op = "create" /\ todo[m].arg = r
    /\ ~DropsIn(todo, done) => Advanced(todo, done, database.relations, result.relations)
    /\ everDropped' = (everDropped \/ DropsIn(todo, done))
    /\ halfDropped' = ((halfDropped \/ DropsIn(todo, done)) /\ result.relations # Relations)
    /\ lost' = lost \cap Bare(result)

LEMMA AcceptedStep ==
    ASSUME SchemaInv, IndexInv, NEW i \in Slots, Execute(i),
           FoldLeft(ExecuteIn, database, Durable(command[i].todo)) # Refused
    PROVE  \E todo, left, done, result : AcceptedFacts(i, todo, left, done, result)
<1> DEFINE c == command[i]
           todo == c.todo
           parcel == Durable(todo)
           left == Rest(todo)
           d == Len(parcel)
           result == FoldLeft(ExecuteIn, database, parcel)
<1>1. /\ command \in [Slots -> Commands] /\ c \in Commands
      /\ todo # << >> /\ todo \in Seq(Statement) /\ database \in Databases
  BY DEF Execute, SchemaInv, SchemaTypes, Commands
<1>2. /\ parcel \in Seq(Statement) /\ d \in 1..Len(todo)
      /\ \A k \in 1..d : parcel[k] = todo[k]
      /\ IF dialect = "sqlite" THEN d = 1 ELSE d = Len(todo)
      /\ left \in Seq(Statement) /\ Len(left) = Len(todo) - d
      /\ \A k \in 1..Len(left) : left[k] = todo[k + d]
  BY <1>1, DurablePart
<1>3. /\ result \in Databases
      /\ (\A k \in 1..d : parcel[k].op # "drop") =>
            /\ database.relations \subseteq result.relations
            /\ \A m \in 1..d : parcel[m].op = "create" => parcel[m].arg \in result.relations
      /\ \A r \in result.relations :
            r \in database.relations \/ \E m \in 1..d : parcel[m].op = "create" /\ parcel[m].arg = r
  BY <1>1, <1>2, RunLeaves
<1>4. /\ database' = result /\ command' = [command EXCEPT ![i].todo = left]
      /\ everDropped' = (everDropped \/ Drops(parcel))
      /\ halfDropped' = ((halfDropped \/ Drops(parcel)) /\ result.relations # Relations)
      /\ lost' = lost \cap Bare(result) /\ dialect' = dialect
  BY DEF Execute
<1>5. Drops(parcel) <=> DropsIn(todo, d)
  <2>1. DOMAIN parcel = 1..d
    BY <1>2
  <2> HIDE DEF parcel, todo
  <2> QED  BY <1>2, <2>1 DEF Drops, DropsIn
<1>6. dialect = "sqlite" => /\ d = 1 /\ todo[1] \in Statement
                            /\ result = Executed(todo[1], database) /\ Accepted(todo[1], database)
  <2> SUFFICES ASSUME dialect = "sqlite"
               PROVE  /\ d = 1 /\ todo[1] \in Statement
                      /\ result = Executed(todo[1], database) /\ Accepted(todo[1], database)
    OBVIOUS
  <2>1. d = 1 /\ parcel[1] = todo[1] /\ 1 \in 1..Len(todo) /\ DOMAIN parcel = 1..1
    BY <1>2
  <2>2. todo[1] \in Statement
    BY <1>1, <2>1, ElementOfSeq
  <2>3. result = ExecuteIn(database, parcel[1])
    BY <2>1, OneStatementDone
  <2>4. result # Refused
    OBVIOUS
  <2> HIDE DEF result, parcel, todo, d
  <2> QED  BY <2>1, <2>2, <2>3, <2>4 DEF ExecuteIn
<1> HIDE DEF result, parcel, left, d
<1>7. \A j \in Slots : command'[j].todo = IF j = i THEN left ELSE command[j].todo
  <2>1. \A x \in Commands : [x EXCEPT !.todo = left].todo = left
    BY DEF Commands
  <2>2. command' = [command EXCEPT ![i] = [c EXCEPT !.todo = left]]
    BY <1>1, <1>4
  <2> HIDE DEF c
  <2> QED  BY <1>1, <2>1, <2>2
<1>8. RestAfter(todo, left, d) /\ Orderly(todo)
  BY <1>2 DEF RestAfter, IndexInv
<1>9. ~DropsIn(todo, d) => Advanced(todo, d, database.relations, result.relations)
  BY <1>2, <1>3 DEF DropsIn, Advanced
<1>10. \A r \in result.relations :
          r \in database.relations \/ \E m \in 1..d : todo[m].op = "create" /\ todo[m].arg = r
  BY <1>2, <1>3
<1> HIDE DEF c
<1>11. AcceptedFacts(i, todo, left, d, result)
  BY <1>1, <1>2, <1>3, <1>4, <1>5, <1>6, <1>7, <1>8, <1>9, <1>10 DEF AcceptedFacts, c
<1> HIDE DEF todo
<1> QED  BY <1>11

(* What holds of either dialect: after a drop an unexcused database is      *)
(* whole, and without one a table that is bare now was bare before or is    *)
(* new.                                                                     *)
LEMMA AcceptedEither ==
    ASSUME SchemaInv, IndexInv, NEW i \in Slots, NEW todo, NEW left, NEW done, NEW result,
           AcceptedFacts(i, todo, left, done, result)
    PROVE  /\ everDropped' /\ ~halfDropped' => Whole'
           /\ ~everDropped' => ~everDropped /\ ~DropsIn(todo, done)
           /\ ~halfDropped' => \A r \in Bare(result) :
                 /\ ~everDropped' /\ ~DropsIn(todo, done) /\ r \notin database.relations /\ r \in Indexes
                 /\ r \in lost' \/ (\E j \in Slots : r \in Pending(j)) \/ TableOf(r) \notin database.relations
<1> DEFINE from == database.relations
           to == result.relations
<1>1. from \in SUBSET Relations /\ to \in SUBSET Relations /\ Whole = (from = Relations) /\ Whole' = (to = Relations)
  BY DEF AcceptedFacts, Databases, Whole
<1>2. ~DropsIn(todo, done) => from \subseteq to
  BY DEF AcceptedFacts, Advanced
<1>3. everDropped' = (everDropped \/ DropsIn(todo, done))
      /\ halfDropped' = ((halfDropped \/ DropsIn(todo, done)) /\ to # Relations)
  BY DEF AcceptedFacts
<1>4. everDropped /\ ~halfDropped => from = Relations
  BY <1>1 DEF IndexInv
<1>5. everDropped' /\ ~halfDropped' => to = Relations
  BY <1>1, <1>2, <1>3, <1>4
<1>6. ASSUME ~halfDropped', NEW r \in Bare(result)
      PROVE  /\ ~everDropped' /\ ~DropsIn(todo, done) /\ r \notin from /\ r \in Indexes
             /\ r \in lost' \/ (\E j \in Slots : r \in Pending(j)) \/ TableOf(r) \notin from
  <2>1. r \in Indexes /\ r \in Relations /\ r \notin to
    BY DEF Bare, Indexes
  <2>2. to # Relations
    BY <2>1
  <2>3. ~everDropped' /\ ~DropsIn(todo, done) /\ ~halfDropped
    BY <1>3, <1>5, <1>6, <2>2
  <2>4. r \notin from
    BY <1>2, <2>1, <2>3
  <2>5. ASSUME TableOf(r) \in from PROVE r \in lost' \/ \E j \in Slots : r \in Pending(j)
    <3>1. r \in Bare(database)
      BY <2>1, <2>4, <2>5 DEF Bare
    <3>2. r \in lost \/ \E j \in Slots : r \in Pending(j)
      BY <2>3, <3>1 DEF IndexInv, IndexesComeWithTables, Pending
    <3>3. lost' = lost \cap Bare(result)
      BY DEF AcceptedFacts
    <3> QED  BY <3>2, <3>3
  <2> QED  BY <2>1, <2>3, <2>4, <2>5
<1> QED  BY <1>1, <1>3, <1>5, <1>6

(* PostgreSQL: the whole plan at once, a table with all its indexes.        *)
LEMMA AcceptedTogether ==
    ASSUME SchemaInv, IndexInv, NEW i \in Slots, NEW todo, NEW left, NEW done, NEW result,
           AcceptedFacts(i, todo, left, done, result), dialect # "sqlite"
    PROVE  IndexInv'
<1>1. /\ todo \in Seq(Statement) /\ left \in Seq(Statement) /\ Len(left) = 0 /\ done = Len(todo)
      /\ \A j \in Slots : command'[j].todo = IF j = i THEN left ELSE command[j].todo
      /\ dialect' = dialect /\ Orderly(todo)
  <2>1. RestAfter(todo, left, done) /\ done = Len(todo) /\ todo \in Seq(Statement) /\ left \in Seq(Statement)
    BY DEF AcceptedFacts
  <2>2. Len(todo) \in Nat /\ Len(left) = Len(todo) - Len(todo)
    BY <2>1 DEF RestAfter
  <2>3. Len(left) = 0
    BY <2>2
  <2> QED  BY <2>1, <2>3 DEF AcceptedFacts
<1>2. Orderly(left) /\ Coming(left) = {}
  <2>1. \A k \in 1..Len(left) : left[k].op # "create"
    BY <1>1
  <2> QED  BY <1>1, <2>1, NoCreates
<1>3. \A j \in Slots : Orderly(command'[j].todo) /\ Pending(j)' = {}
  <2>1. \A j \in Slots : Orderly(command[j].todo) /\ Coming(command[j].todo) = {}
    BY DEF IndexInv, Pending
  <2> QED  BY <1>1, <1>2, <2>1 DEF Pending
<1>4. IndexesComeWithTables'
  <2> SUFFICES ASSUME ~halfDropped', NEW r \in Bare(result) PROVE r \in lost'
    BY DEF IndexesComeWithTables, AcceptedFacts
  <2>1. /\ ~DropsIn(todo, done) /\ r \notin database.relations /\ r \in Indexes
        /\ r \in lost' \/ (\E j \in Slots : r \in Pending(j)) \/ TableOf(r) \notin database.relations
    BY AcceptedEither
  <2>2. \A j \in Slots : r \notin Pending(j)
    BY DEF IndexInv
  <2>3. TableOf(r) \in result.relations /\ r \notin result.relations
    BY DEF Bare
  <2>4. ASSUME TableOf(r) \notin database.relations PROVE FALSE
    <3>1. PICK m \in 1..done : todo[m].op = "create" /\ todo[m].arg = TableOf(r)
      BY <2>3, <2>4 DEF AcceptedFacts
    <3>2. PICK k \in (m + 1)..Len(todo) : Creating(todo, k, r)
      BY <1>1, <2>1, <3>1 DEF Orderly, Creating
    <3>3. k \in 1..done
      BY <1>1
    <3>4. r \in result.relations
      BY <2>1, <3>2, <3>3 DEF AcceptedFacts, Advanced, Creating
    <3> QED  BY <2>3, <3>4
  <2> QED  BY <2>1, <2>2, <2>4
<1>5. everDropped' /\ ~halfDropped' => Whole'
  BY AcceptedEither
<1> QED  BY <1>1, <1>3, <1>4, <1>5 DEF IndexInv

(* SQLite: one statement.  A table that is created is followed by its       *)
(* indexes; an index that is created was about to be, and by no other.      *)
LEMMA AcceptedAlone ==
    ASSUME SchemaInv, IndexInv, NEW i \in Slots, NEW todo, NEW left, NEW done, NEW result,
           AcceptedFacts(i, todo, left, done, result), dialect = "sqlite"
    PROVE  IndexInv'
<1> DEFINE from == database.relations
           to == result.relations
<1>1. PICK s : s = todo[1]
  OBVIOUS
<1>2. /\ todo = command[i].todo /\ todo \in Seq(Statement) /\ left \in Seq(Statement)
      /\ \A j \in Slots : command'[j].todo = IF j = i THEN left ELSE command[j].todo
      /\ RestAfter(todo, left, 1) /\ Orderly(todo) /\ done = 1
      /\ result = database' /\ dialect' = dialect /\ database \in Databases
      /\ s \in Statement /\ result = Executed(s, database) /\ Accepted(s, database)
      /\ everDropped' = (everDropped \/ DropsIn(todo, 1)) /\ lost' = lost \cap Bare(result)
  BY <1>1 DEF AcceptedFacts
<1>3. /\ s.op = "create" => to = from \union {s.arg}
      /\ s.op = "drop" => to = {r \in from : r # s.arg /\ TableOf(r) # s.arg}
      /\ s.op \notin {"create", "drop"} => to = from
      /\ s.op = "create" => s.arg \in Relations
  BY <1>2, StatementEffects, StatementShapes
<1>4. s.op = "create" => s.arg \notin from /\ (s.arg \in Indexes => TableOf(s.arg) \in from)
  BY <1>2 DEF Accepted, Refers
<1>5. \A r \in Indexes : r \in from => TableOf(r) \in from
  BY DEF IndexInv
<1>6. \A r \in Relations : r \in Indexes \/ TableOf(r) = r
  BY DEF Indexes, Tables
<1>7. \A r \in Indexes : r \in Relations /\ TableOf(TableOf(r)) = TableOf(r)
  BY IndexesFollow DEF Indexes
<1>8. /\ \A r \in Coming(left) : s.op = "create" /\ TableOf(s.arg) = TableOf(r) /\ r # s.arg
      /\ \A r \in Indexes : Creating(todo, 1, TableOf(r)) => r \in Coming(left)
      /\ \A r \in Coming(todo) : r = s.arg \/ r \in Coming(left)
      /\ CreatesIndex(s) => s.arg \in Coming(todo) /\ Coming(left) \subseteq Coming(todo)
  BY <1>1, <1>2, NextComing
<1>9. \A j \in Slots : Pending(j)' = IF j = i THEN Coming(left) ELSE Pending(j)
  BY <1>2 DEF Pending
<1>10. Pending(i) = Coming(todo)
  BY <1>2 DEF Pending
<1>11. \A j \in Slots : \A r \in Pending(j) : r \in Indexes
  BY DEF Pending, Coming
<1>12. \A r \in Coming(left) : r \in Indexes
  BY DEF Coming
<1>13. DropsIn(todo, 1) <=> s.op = "drop"
  BY <1>1 DEF DropsIn
<1> HIDE DEF from, to
<1>14. \A j \in Slots : Orderly(command'[j].todo)
  BY <1>2, OrderlyRest DEF IndexInv
<1>15. ASSUME NEW r \in Indexes, r \in to PROVE TableOf(r) \in to
  <2>1. CASE s.op = "create"
    BY <1>3, <1>4, <1>5, <1>15, <2>1
  <2>2. CASE s.op = "drop"
    BY <1>3, <1>5, <1>7, <1>15, <2>2
  <2> QED  BY <1>3, <1>5, <1>15, <2>1, <2>2
<1>16. ASSUME ~everDropped'
       PROVE  /\ \A j \in Slots : Pending(j)' \subseteq {r \in Indexes : TableOf(r) \in to /\ r \notin to}
              /\ \A j, k \in Slots : j # k => Pending(j)' \intersect Pending(k)' = {}
  <2>1. ~everDropped /\ s.op # "drop"
    BY <1>2, <1>13, <1>16
  <2>2. \A j \in Slots : \A r \in Pending(j) : TableOf(r) \in from /\ r \notin from
    BY <2>1 DEF IndexInv, Bare, from
  <2>3. \A j, k \in Slots : j # k => Pending(j) \intersect Pending(k) = {}
    BY <2>1 DEF IndexInv
  <2>4. from \subseteq to
    BY <1>3, <2>1
  <2>5. ASSUME NEW r \in Coming(left) PROVE TableOf(r) \in to /\ r \notin to
    <3>1. s.op = "create" /\ TableOf(s.arg) = TableOf(r) /\ r # s.arg /\ r \in Indexes
      BY <1>8, <1>12
    <3>2. CASE s.arg \in Indexes
      <4>1. r \in Pending(i)
        BY <1>8, <1>10, <3>1, <3>2 DEF CreatesIndex
      <4> QED  BY <1>3, <2>2, <2>4, <3>1, <4>1
    <3>3. CASE s.arg \notin Indexes
      <4>1. s.arg = TableOf(r)
        BY <1>3, <1>6, <3>1, <3>3
      <4>2. r \notin from
        BY <1>4, <1>5, <3>1, <4>1
      <4> QED  BY <1>3, <3>1, <4>1, <4>2
    <3> QED  BY <3>2, <3>3
  <2>6. ASSUME NEW j \in Slots, j # i, NEW r \in Pending(j) PROVE TableOf(r) \in to /\ r \notin to
    <3>1. ASSUME s.op = "create", s.arg = r PROVE FALSE
      <4>1. r \in Pending(i)
        BY <1>8, <1>10, <1>11, <3>1 DEF CreatesIndex
      <4> QED  BY <2>3, <2>6, <4>1
    <3>2. TableOf(r) \in from /\ r \notin from
      BY <2>2
    <3> QED  BY <1>3, <2>1, <2>4, <3>1, <3>2
  <2>7. ASSUME NEW j \in Slots, j # i, NEW r \in Pending(j), r \in Coming(left) PROVE FALSE
    <3>1. s.op = "create" /\ TableOf(s.arg) = TableOf(r) /\ TableOf(r) \in from
      BY <1>8, <2>2, <2>7
    <3>2. CASE s.arg \in Indexes
      <4>1. r \in Pending(i)
        BY <1>8, <1>10, <2>7, <3>1, <3>2 DEF CreatesIndex
      <4> QED  BY <2>3, <2>7, <4>1
    <3>3. CASE s.arg \notin Indexes
      BY <1>3, <1>4, <1>6, <3>1, <3>3
    <3> QED  BY <3>2, <3>3
  <2>8. \A j \in Slots : \A r \in Pending(j)' : r \in Indexes /\ TableOf(r) \in to /\ r \notin to
    BY <1>9, <1>11, <1>12, <2>5, <2>6
  <2>9. \A j, k \in Slots : j # k => Pending(j)' \intersect Pending(k)' = {}
    BY <1>9, <2>3, <2>7
  <2> QED  BY <2>8, <2>9
<1>17. IndexesComeWithTables'
  <2> SUFFICES ASSUME ~halfDropped', NEW r \in Bare(result), r \notin lost'
               PROVE  \E j \in Slots : r \in Pending(j)'
    BY <1>2 DEF IndexesComeWithTables, Pending
  <2>1. /\ ~DropsIn(todo, done) /\ r \notin from /\ r \in Indexes
        /\ (\E j \in Slots : r \in Pending(j)) \/ TableOf(r) \notin from
    BY AcceptedEither DEF from
  <2>2. TableOf(r) \in to /\ r \notin to
    BY DEF Bare, to
  <2>3. CASE TableOf(r) \notin from
    <3>1. s.op = "create" /\ s.arg = TableOf(r)
      BY <1>2, <1>3, <1>13, <2>1, <2>2, <2>3
    <3> QED  BY <1>1, <1>8, <1>9, <2>1, <3>1 DEF Creating
  <2>4. ASSUME NEW j \in Slots, r \in Pending(j) PROVE r \in Pending(j)'
    <3>1. CASE j = i
      <4>1. r \in Coming(todo) /\ s.op = "create"
        <5>1. todo[1].op = "create"
          BY <1>10, <2>4, <3>1 DEF Coming
        <5> QED  BY <1>1, <1>10, <2>4, <3>1, <5>1
      <4>2. r # s.arg
        BY <1>3, <2>2, <4>1
      <4> QED  BY <1>8, <1>9, <3>1, <4>1, <4>2
    <3>2. CASE j # i
      BY <1>9, <2>4, <3>2
    <3> QED  BY <3>1, <3>2
  <2> QED  BY <2>1, <2>3, <2>4
<1>18. everDropped' /\ ~halfDropped' => Whole'
  BY AcceptedEither
<1>19. database'.relations = to /\ Bare(database)' = {r \in Indexes : TableOf(r) \in to /\ r \notin to}
  BY <1>2 DEF Bare, to
<1>20. everDropped' \/ \A j \in Slots : Pending(j)' \subseteq Bare(database)'
  BY <1>16, <1>19
<1>21. everDropped' \/ \A j, k \in Slots : j # k => Pending(j)' \intersect Pending(k)' = {}
  BY <1>16
<1> QED  BY <1>2, <1>14, <1>15, <1>17, <1>18, <1>19, <1>20, <1>21 DEF IndexInv

LEMMA IndexStepInv == SchemaInv /\ IndexInv /\ [SchemaNext]_schemaVars => IndexInv'
<1> SUFFICES ASSUME SchemaInv, IndexInv, [SchemaNext]_schemaVars PROVE IndexInv'
  OBVIOUS
<1>1. command \in [Slots -> Commands] /\ \A j \in Slots : command[j] \in Commands /\ command[j].todo \in Seq(Statement)
  BY DEF SchemaInv, SchemaTypes, Commands
<1>2. Orderly(Idle.todo) /\ Coming(Idle.todo) = {}
  <2>1. << >> \in Seq(Statement) /\ \A k \in 1..Len(<< >>) : << >>[k].op # "create"
    OBVIOUS
  <2> QED  BY <2>1, NoCreates, IdleCommand
<1>3. ASSUME NEW i \in Slots, NEW asked \in Kinds, Begin(i, asked) PROVE IndexInv'
  <2>1. UNCHANGED <<database, dialect, halfDropped, everDropped, lost>> /\ command[i] = Idle
    BY <1>3 DEF Begin
  <2> DEFINE new == [kind |-> asked, todo |-> Plan(asked, database),
                     clean |-> database = NothingStored /\ \A k \in Slots : command[k] = Idle]
  <2>2. command' = [j \in Slots |-> IF j = i THEN new ELSE [command[j] EXCEPT !.clean = FALSE]]
    BY <1>3 DEF Begin
  <2>3. new.todo = Plan(asked, database)
    OBVIOUS
  <2>4. \A x \in Commands : [x EXCEPT !.clean = FALSE].todo = x.todo
    BY DEF Commands
  <2> HIDE DEF new
  <2>5. command'[i].todo = Plan(asked, database) /\ \A j \in Slots : j # i => command'[j].todo = command[j].todo
    BY <1>1, <2>2, <2>3, <2>4
  <2>6. Orderly(command'[i].todo) /\ Coming(command'[i].todo) = {}
    BY <2>5, PlansAreOrderly
  <2>7. Pending(i) = {}
    BY <1>2, <2>1 DEF Pending
  <2> QED  BY <1>1, <2>1, <2>5, <2>6, <2>7, QuietIndexes
<1>4. ASSUME NEW i \in Slots, Kill(i) PROVE IndexInv'
  <2>1. UNCHANGED <<database, dialect, halfDropped, everDropped>> /\ command' = [command EXCEPT ![i] = Idle]
        /\ lost' = lost \cup Pending(i)
    BY <1>4 DEF Kill, Pending
  <2>2. command'[i] = Idle /\ \A j \in Slots : j # i => command'[j] = command[j]
    BY <1>1, <2>1
  <2> QED  BY <1>1, <1>2, <2>1, <2>2, QuietIndexes
<1>5. ASSUME NEW i \in Slots, Finish(i) PROVE IndexInv'
  <2>1. UNCHANGED <<database, dialect, halfDropped, everDropped, lost>> /\ command[i].todo = << >>
    BY <1>5 DEF Finish
  <2>2. Pending(i) = {}
    BY <2>1 DEF Pending, Coming
  <2>3. CASE command[i].kind = "seed"
    <3> DEFINE s == SeedRows(database)
    <3>1. s \in Seq(Statement) /\ Len(s) = 1 /\ s[1].op = "rows"
      <4>1. [op |-> "rows", arg |-> ~database.entities] \in Statement
        <5>1. database.entities \in BOOLEAN
          BY DEF SchemaInv, SchemaTypes, Databases
        <5> QED  BY <5>1 DEF Statement
      <4> QED  BY <4>1, OneStatement DEF SeedRows
    <3>2. command' = [command EXCEPT ![i] = [command[i] EXCEPT !.kind = "seeding", !.todo = s]]
      BY <1>1, <1>5, <2>3 DEF Finish
    <3> HIDE DEF s
    <3>3. \A x \in Commands : [x EXCEPT !.kind = "seeding", !.todo = s].todo = s
      BY DEF Commands
    <3>4. command'[i].todo = s /\ \A j \in Slots : j # i => command'[j] = command[j]
      BY <1>1, <3>2, <3>3
    <3>5. Orderly(s) /\ Coming(s) = {}
      <4>1. \A k \in 1..Len(s) : s[k].op # "create"
        BY <3>1
      <4> QED  BY <3>1, <4>1, NoCreates
    <3> QED  BY <1>1, <2>1, <2>2, <3>4, <3>5, QuietIndexes
  <2>4. CASE command[i].kind # "seed"
    <3>1. command' = [command EXCEPT ![i] = Idle]
      BY <1>5, <2>4 DEF Finish
    <3>2. command'[i] = Idle /\ \A j \in Slots : j # i => command'[j] = command[j]
      BY <1>1, <3>1
    <3> QED  BY <1>1, <1>2, <2>1, <2>2, <3>2, QuietIndexes
  <2> QED  BY <2>3, <2>4
<1>6. ASSUME NEW i \in Slots, Execute(i) PROVE IndexInv'
  <2>1. CASE FoldLeft(ExecuteIn, database, Durable(command[i].todo)) = Refused
    BY <1>6, <2>1, RefusedIndexes
  <2>2. CASE FoldLeft(ExecuteIn, database, Durable(command[i].todo)) # Refused
    <3>1. PICK todo, left, done, result : AcceptedFacts(i, todo, left, done, result)
      BY <1>6, <2>2, AcceptedStep
    <3> QED  BY <3>1, AcceptedAlone, AcceptedTogether
  <2> QED  BY <2>1, <2>2
<1>7. CASE Stop \/ UNCHANGED schemaVars
  <2>1. UNCHANGED <<database, dialect, halfDropped, everDropped, command, lost>>
    BY <1>7 DEF Stop, schemaVars
  <2> QED  BY <2>1 DEF IndexInv, Pending, Bare, Whole, IndexesComeWithTables
<1> QED  BY <1>3, <1>4, <1>5, <1>6, <1>7 DEF SchemaNext

(* However the commands overlap and are killed, the version tells the       *)
(* tables and their indexes, a serving backend has its tables, a table      *)
(* without an index is about to get it or was left at a kill on SQLite, and *)
(* a seed is whole (alembic/versions, db/session.py, scripts/seed.py).      *)
THEOREM DatabaseStaysWhole == SchemaSpec => []DatabaseIsWhole
<1>1. SchemaInv /\ IndexInv => DatabaseIsWhole
  BY DEF SchemaInv, IndexInv, DatabaseIsWhole, VersionTellsTables, ServedByTables, Excused
<1> QED  BY <1>1, SchemaInitInv, SchemaStepInv, IndexInitInv, IndexStepInv, PTL DEF SchemaSpec

(***************************************************************************)
(* MCPlatform.  A step of the platform is a step of the one part that      *)
(* lives and leaves the others alone, so what each part keeps by itself it *)
(* keeps in the platform: the properties are of one behaviour, the one the *)
(* runs check.                                                             *)
(***************************************************************************)
LEMMA OnePartLives ==
    ASSUME PlatformNext
    PROVE  /\ [MCNext]_mcVars /\ [FusionNext]_fusionVars /\ [MinerNext]_minerVars
           /\ [CacheNext]_cacheVars /\ [SourceNext]_sourceVars /\ [SchemaNext]_schemaVars
           /\ [AccountNext]_accountVars /\ [TrailNext]_trailVars /\ [ViewNext]_viewVars
           /\ [ExtensionNext]_extensionVars /\ [BusinessNext]_businessVars
  BY DEF PlatformNext, FuseOnce

LEMMA StepsAreTheirs ==
    ASSUME [PlatformNext]_platformVars
    PROVE  /\ [MCNext]_mcVars /\ [FusionNext]_fusionVars /\ [MinerNext]_minerVars
           /\ [CacheNext]_cacheVars /\ [SourceNext]_sourceVars /\ [SchemaNext]_schemaVars
           /\ [AccountNext]_accountVars /\ [TrailNext]_trailVars /\ [ViewNext]_viewVars
           /\ [ExtensionNext]_extensionVars /\ [BusinessNext]_businessVars
<1>1. CASE PlatformNext
  BY <1>1, OnePartLives
<1>2. CASE UNCHANGED platformVars
  BY <1>2 DEF platformVars
<1> QED  BY <1>1, <1>2

LEMMA PartsOfThePlatform ==
    PlatformSpec => /\ MCSpec /\ FusionSpec /\ MinerSpec /\ CacheSpec /\ SourceSpec
                    /\ SchemaSpec /\ AccountSpec /\ TrailSpec /\ ViewSpec /\ ExtensionSpec
                    /\ BusinessSpec
<1>1. PlatformInit => /\ MCInit /\ FusionInit /\ MinerInit /\ CacheInit /\ SourceInit
                      /\ SchemaInit /\ AccountInit /\ TrailInit /\ ViewInit /\ ExtensionInit
                      /\ BusinessInit
  BY DEF PlatformInit
<1> QED  BY <1>1, StepsAreTheirs, PTL
         DEF PlatformSpec, MCSpec, FusionSpec, MinerSpec, CacheSpec, SourceSpec, SchemaSpec,
             AccountSpec, TrailSpec, ViewSpec, ExtensionSpec, BusinessSpec

(* What the clients show is so, for any number of alerts, loads, tabs and   *)
(* pictures: the app after a load that was served and the extension once no *)
(* update is under way (AlertsScreen.tsx:28-35, background.js:55-58).       *)
THEOREM ClientsAreTrue == PlatformSpec => []ClientsShowTheTruth
  BY PartsOfThePlatform, ScreenIsTrue, BadgeIsTrue, PTL DEF ClientsShowTheTruth

(* The platform of the runs keeps what its parts were proved to keep alone. *)
THEOREM PlatformKeeps ==
    PlatformSpec => [](/\ StampsAreWarranted /\ LoneRequestIsObeyed
                       /\ LenientScore /\ MinuteQuota
                       /\ MemoryAgreesWithRedis /\ SourceClockIsWall /\ EmailFindsOneUser
                       /\ BusTellsTheStory /\ ReportIsOfItsRun /\ DocumentIsOfItsBuild
                       /\ StatementsBalance /\ CapTableIsWhole /\ CapitalIsRaised
                       /\ FiguresAreSound /\ CautionNeverGainsMore
                       /\ DatabaseIsWhole /\ ClientsShowTheTruth)
<1>1. MCInit => Init
  BY DEF MCInit
<1>2. [MCNext]_mcVars => [Next]_vars
  BY DEF MCNext, mcVars
<1>3. MCSpec => Spec
  BY <1>1, <1>2, PTL DEF MCSpec, Spec
<1> QED
  BY PartsOfThePlatform, PartsOfTheBusiness, StampsWarranted, LoneRequestObeyed,
     ScoreIsLenient, QuotaHolds, CachesAgree, SourceClockHolds, AddressesAreUnique,
     BusIsTheStory, ReportsAreTrue, DocumentsAreFresh, StatementsAlwaysBalance,
     CapTableStaysWhole, CapitalIsWhatWasRaised, FiguresHold, CarefulGainsNoMore,
     DatabaseStaysWhole, ClientsAreTrue, <1>3, PTL

=============================================================================
