------------------------ MODULE NotifyChannelProofs -------------------------
(***************************************************************************)
(* The notification service, for any jobs, any policies of retries and any *)
(* batch.  An attempt is counted once: it is on its way, it has reached    *)
(* the server, or it came to nothing.  The answers to a batch need a       *)
(* second fact: only the job after those answered may have started.        *)
(***************************************************************************)
EXTENDS NotifyChannel, FiniteSetTheorems, TLAPS

(* The attempts of j on their way, and the jobs sent. *)
OnTheirWay(j) == {n \in 1..attempts[j] : <<j, n>> \in inFlight}
Sent == {j \in Jobs : pc[j] = "sent"}
SentBy(c) == {j \in Jobs : pc[j] = "sent" /\ job[j].channel = c}

NotifyTypes ==
    /\ pc \in [Jobs -> {"new", "delivering", "waiting", "sent", "raised"}]
    /\ attempts \in [Jobs -> Nat] /\ reached \in [Jobs -> Nat]
    /\ inFlight \subseteq Jobs \X (Nat \ {0})
    /\ results \in Seq(BOOLEAN)
    /\ totalSent \in Nat /\ byOk \in [DOMAIN CHANNELS -> Nat]

(* Where a job is agrees with the attempts it has made. *)
AttemptsFit(j) ==
    /\ attempts[j] <= Attempts(j)
    /\ pc[j] = "new" => attempts[j] = 0
    /\ pc[j] \in {"delivering", "waiting", "sent"} => Known(j)
    /\ pc[j] = "waiting" => attempts[j] < Attempts(j)
    /\ pc[j] = "raised" /\ Known(j) => attempts[j] = Attempts(j)
    /\ \A n \in Nat : <<j, n>> \in inFlight => n <= attempts[j]

CountedOnce(j) == reached[j] + Cardinality(OnTheirWay(j)) <= attempts[j]

RobotsHaveIt(j) ==
    pc[j] = "sent" /\ job[j].channel \in {"ding", "wework"} => reached[j] > 0

ReachedInv ==
    /\ NotifyTypes
    /\ \A j \in Jobs : AttemptsFit(j) /\ CountedOnce(j) /\ RobotsHaveIt(j)

-----------------------------------------------------------------------------
(* Lemmas about the channels and about finite sets. *)

LEMMA JobTypes ==
    ASSUME NEW j \in Jobs
    PROVE  /\ job[j].max_retries \in Nat /\ Attempts(j) \in Nat \ {0}
BY NotifyAssumption DEF Attempts

(* The robots of ding and wework say ok only of what they have taken, and   *)
(* have no driver that needs no server.                                     *)
LEMMA RobotsAreHonest ==
    ASSUME NEW j \in Jobs, job[j].channel \in {"ding", "wework"}
    PROVE  /\ Ok(job[j].channel) \subseteq Taking(job[j].channel)
           /\ ~Mocked(j)
<1>1. CASE job[j].channel = "ding"
  BY <1>1 DEF Ok, Taking, Mocked, CHANNELS, DingTalkChannel
<1>2. CASE job[j].channel = "wework"
  BY <1>2 DEF Ok, Taking, Mocked, CHANNELS, WeWorkChannel
<1> QED  BY <1>1, <1>2

LEMMA WayIsFinite ==
    ASSUME NotifyTypes, NEW j \in Jobs
    PROVE  IsFiniteSet(OnTheirWay(j)) /\ Cardinality(OnTheirWay(j)) \in Nat
<1>1. IsFiniteSet(1..attempts[j])
  BY FS_Interval DEF NotifyTypes
<1>2. OnTheirWay(j) \subseteq 1..attempts[j]
  BY DEF OnTheirWay
<1> QED  BY <1>1, <1>2, FS_Subset, FS_CardinalityType

LEMMA AddsAtMostOne ==
    ASSUME NEW S, NEW x, IsFiniteSet(S)
    PROVE  Cardinality(S \union {x}) \in Nat /\ Cardinality(S \union {x}) <= Cardinality(S) + 1
<1>1. Cardinality(S) \in Nat
  BY FS_CardinalityType
<1>2. Cardinality(S \union {x}) = IF x \in S THEN Cardinality(S) ELSE Cardinality(S) + 1
  BY FS_AddElement
<1> QED  BY <1>1, <1>2

-----------------------------------------------------------------------------
(* The attempts *)

LEMMA ReachedInitInv == Init => ReachedInv
<1> SUFFICES ASSUME Init PROVE ReachedInv  OBVIOUS
<1>1. NotifyTypes
  BY DEF Init, NotifyTypes
<1>2. ASSUME NEW j \in Jobs PROVE AttemptsFit(j) /\ CountedOnce(j) /\ RobotsHaveIt(j)
  <2>1. OnTheirWay(j) = {}  BY DEF Init, OnTheirWay
  <2>2. Cardinality(OnTheirWay(j)) = 0  BY <2>1, FS_EmptySet
  <2> QED  BY <2>2, JobTypes DEF Init, AttemptsFit, CountedOnce, RobotsHaveIt
<1> QED  BY <1>1, <1>2 DEF ReachedInv

(* A step makes attempt n of j, or none if j needs no server. *)
LEMMA AttemptMade ==
    ASSUME ReachedInv, NotifyTypes', NEW j \in Jobs, NEW n \in Nat \ {0},
           n = attempts[j] + 1, n <= Attempts(j), Known(j),
           pc' = [pc EXCEPT ![j] = "delivering"],
           attempts' = [attempts EXCEPT ![j] = n],
           inFlight' = inFlight \/ inFlight' = inFlight \union {<<j, n>>},
           reached' = reached
    PROVE  ReachedInv'
<1> SUFFICES ASSUME NEW k \in Jobs
             PROVE  AttemptsFit(k)' /\ CountedOnce(k)' /\ RobotsHaveIt(k)'
  BY DEF ReachedInv
<1>1. NotifyTypes /\ AttemptsFit(k) /\ CountedOnce(k) /\ RobotsHaveIt(k)
  BY DEF ReachedInv
<1>2. Attempts(k) \in Nat \ {0}
  BY JobTypes
<1>3. CASE k = j
  <2>1. attempts'[j] = n /\ attempts[j] \in Nat /\ pc'[j] = "delivering"
    BY <1>1 DEF NotifyTypes
  <2>2. AttemptsFit(j)'
    BY <1>1, <1>2, <1>3, <2>1 DEF AttemptsFit, Attempts, Known, NotifyTypes
  <2>3. \/ OnTheirWay(j)' = OnTheirWay(j)
        \/ OnTheirWay(j)' = OnTheirWay(j) \union {n}
    <3>1. <<j, n>> \notin inFlight
      BY <1>1, <1>3 DEF AttemptsFit, NotifyTypes
    <3>2. 1..n = (1..attempts[j]) \union {n}
      BY <2>1
    <3>3. CASE inFlight' = inFlight
      BY <2>1, <3>1, <3>2, <3>3 DEF OnTheirWay
    <3>4. CASE inFlight' = inFlight \union {<<j, n>>}
      BY <2>1, <3>2, <3>4 DEF OnTheirWay
    <3> QED  BY <3>3, <3>4
  <2>4. Cardinality(OnTheirWay(j)') <= Cardinality(OnTheirWay(j)) + 1
    <3>1. IsFiniteSet(OnTheirWay(j)) /\ Cardinality(OnTheirWay(j)) \in Nat
      BY <1>1, WayIsFinite
    <3>2. CASE OnTheirWay(j)' = OnTheirWay(j)
      <4>1. Cardinality(OnTheirWay(j)') = Cardinality(OnTheirWay(j))  BY <3>2
      <4> QED  BY <3>1, <4>1
    <3>3. CASE OnTheirWay(j)' = OnTheirWay(j) \union {n}
      <4>1. Cardinality(OnTheirWay(j) \union {n}) <= Cardinality(OnTheirWay(j)) + 1
        BY <3>1, AddsAtMostOne
      <4> QED  BY <3>3, <4>1
    <3> QED  BY <2>3, <3>2, <3>3
  <2>5. /\ Cardinality(OnTheirWay(j)) \in Nat /\ Cardinality(OnTheirWay(j)') \in Nat
        /\ reached[j] \in Nat /\ reached'[j] = reached[j]
    BY <1>1, <2>3, WayIsFinite, AddsAtMostOne DEF NotifyTypes
  <2>6. CountedOnce(j)'
    BY <1>1, <1>3, <2>1, <2>4, <2>5 DEF CountedOnce
  <2> QED  BY <1>3, <2>1, <2>2, <2>6 DEF RobotsHaveIt
<1>4. CASE k # j
  <2>1. pc'[k] = pc[k] /\ attempts'[k] = attempts[k]
    BY <1>1, <1>4 DEF NotifyTypes
  <2>2. \A m \in Nat : <<k, m>> \in inFlight' <=> <<k, m>> \in inFlight
    BY <1>4
  <2>3. OnTheirWay(k)' = OnTheirWay(k)
    BY <1>1, <2>1, <2>2 DEF OnTheirWay, NotifyTypes
  <2> QED
    BY <1>1, <2>1, <2>2, <2>3 DEF AttemptsFit, Attempts, Known, CountedOnce, RobotsHaveIt
<1> QED  BY <1>3, <1>4

(* A step after which no more attempts are on their way or have reached the *)
(* server than before.                                                      *)
LEMMA NoNewAttempt ==
    ASSUME ReachedInv, NotifyTypes', attempts' = attempts, inFlight' \subseteq inFlight,
           \A k \in Jobs :
              /\ reached'[k] + Cardinality(OnTheirWay(k)') <= reached[k] + Cardinality(OnTheirWay(k))
              /\ pc'[k] = "new" => pc[k] = "new"
              /\ pc'[k] \in {"delivering", "waiting", "sent"} => Known(k)
              /\ pc'[k] = "waiting" => attempts[k] < Attempts(k)
              /\ pc'[k] = "raised" /\ Known(k) => attempts[k] = Attempts(k)
              /\ RobotsHaveIt(k)'
    PROVE  ReachedInv'
<1> SUFFICES ASSUME NEW k \in Jobs
             PROVE  AttemptsFit(k)' /\ CountedOnce(k)'
  BY DEF ReachedInv
<1>1. NotifyTypes /\ AttemptsFit(k) /\ CountedOnce(k)
  BY DEF ReachedInv
<1>2. AttemptsFit(k)'
  BY <1>1 DEF AttemptsFit, Attempts, Known
<1>3. /\ Cardinality(OnTheirWay(k)) \in Nat /\ Cardinality(OnTheirWay(k)') \in Nat
      /\ reached[k] \in Nat /\ reached'[k] \in Nat /\ attempts[k] \in Nat
  <2>1. OnTheirWay(k)' \subseteq OnTheirWay(k)
    BY DEF OnTheirWay
  <2> QED  BY <1>1, <2>1, WayIsFinite, FS_Subset, FS_CardinalityType DEF NotifyTypes
<1>4. CountedOnce(k)'
  BY <1>1, <1>3 DEF CountedOnce
<1> QED  BY <1>2, <1>4

(* The outcome of an attempt, as far as it is the job's own. *)
LEMMA OutcomeFits ==
    ASSUME ReachedInv, NEW j \in Jobs, pc[j] = "delivering", Failed(j) \/ Succeeded(j)
    PROVE  /\ attempts' = attempts
           /\ pc' \in [Jobs -> {"new", "delivering", "waiting", "sent", "raised"}]
           /\ \A k \in Jobs :
              /\ pc'[k] = "new" => pc[k] = "new"
              /\ pc'[k] \in {"delivering", "waiting", "sent"} => Known(k)
              /\ pc'[k] = "waiting" => attempts[k] < Attempts(k)
              /\ pc'[k] = "raised" /\ Known(k) => attempts[k] = Attempts(k)
              /\ k # j => pc'[k] = pc[k]
           /\ pc'[j] = "sent" => Succeeded(j)
<1>1. /\ NotifyTypes /\ Attempts(j) \in Nat /\ attempts[j] \in Nat /\ Known(j)
      /\ attempts[j] <= Attempts(j)
      /\ \A k \in Jobs : AttemptsFit(k)
  BY JobTypes DEF ReachedInv, NotifyTypes, AttemptsFit
<1>2. PICK p \in {"waiting", "sent", "raised"} :
          /\ pc' = [pc EXCEPT ![j] = p] /\ attempts' = attempts
          /\ p = "waiting" => attempts[j] < Attempts(j)
          /\ p = "raised" => ~(attempts[j] < Attempts(j))
          /\ p = "sent" => Succeeded(j)
  BY DEF Failed, Succeeded
<1>3. /\ pc' \in [Jobs -> {"new", "delivering", "waiting", "sent", "raised"}]
      /\ pc'[j] = p /\ \A k \in Jobs : k # j => pc'[k] = pc[k]
  BY <1>1, <1>2 DEF NotifyTypes
<1>4. p = "raised" => attempts[j] = Attempts(j)
  BY <1>1, <1>2
<1> QED  BY <1>1, <1>2, <1>3, <1>4 DEF AttemptsFit

(* What an outcome leaves in the counters and in the answers. *)
LEMMA OutcomeTypes ==
    ASSUME NotifyTypes, NEW j \in Jobs, Known(j), Failed(j) \/ Succeeded(j)
    PROVE  /\ results' \in Seq(BOOLEAN) /\ totalSent' \in Nat
           /\ byOk' \in [DOMAIN CHANNELS -> Nat]
<1>1. results' = results \/ \E ok \in BOOLEAN : results' = Append(results, ok)
  BY DEF Failed, Succeeded, Record
<1>2. results' \in Seq(BOOLEAN)
  <2>1. results \in Seq(BOOLEAN)  BY DEF NotifyTypes
  <2>2. ASSUME NEW ok \in BOOLEAN PROVE Append(results, ok) \in Seq(BOOLEAN)
    BY <2>1
  <2> QED  BY <1>1, <2>1, <2>2
<1>3. totalSent' \in Nat
  <2>1. totalSent' = totalSent \/ totalSent' = totalSent + 1
    BY DEF Failed, Succeeded
  <2> QED  BY <2>1 DEF NotifyTypes
<1>4. byOk' \in [DOMAIN CHANNELS -> Nat]
  <2>1. CASE byOk' = byOk  BY <2>1 DEF NotifyTypes
  <2>2. CASE byOk' = [byOk EXCEPT ![job[j].channel] = @ + 1]
    BY <2>2 DEF NotifyTypes, Known
  <2> QED  BY <2>1, <2>2 DEF Failed, Succeeded
<1> QED  BY <1>2, <1>3, <1>4

LEMMA StartReached ==
    ASSUME ReachedInv, NEW j \in Jobs, Start(j)
    PROVE  ReachedInv'
<1>1. NotifyTypes /\ AttemptsFit(j) /\ Attempts(j) \in Nat \ {0} /\ job[j].max_retries \in Nat
  BY JobTypes DEF ReachedInv
<1>2. pc[j] = "new" /\ attempts[j] = 0 /\ reached' = reached /\ totalSent' = totalSent /\ byOk' = byOk
  BY <1>1 DEF Start, AttemptsFit
<1>3. CASE Known(j)
  <2>1. /\ pc' = [pc EXCEPT ![j] = "delivering"] /\ attempts' = [attempts EXCEPT ![j] = 1]
        /\ inFlight' = inFlight \union Posted(j, 1) /\ results' = results
    BY <1>3 DEF Start
  <2>2. inFlight' = inFlight \/ inFlight' = inFlight \union {<<j, 1>>}
    BY <2>1 DEF Posted
  <2>3. NotifyTypes'
    BY <1>1, <1>2, <2>1, <2>2 DEF NotifyTypes
  <2>4. 1 \in Nat \ {0} /\ 1 = attempts[j] + 1 /\ 1 <= Attempts(j)
    BY <1>1, <1>2
  <2> QED  BY <1>2, <1>3, <2>1, <2>2, <2>3, <2>4, AttemptMade
<1>4. CASE ~Known(j)
  <2>1. /\ pc' = [pc EXCEPT ![j] = "raised"] /\ Record(j, FALSE)
        /\ attempts' = attempts /\ inFlight' = inFlight
    BY <1>4 DEF Start
  <2>2. results' \in Seq(BOOLEAN)
    <3>1. results' = results \/ results' = Append(results, FALSE)  BY <2>1 DEF Record
    <3>2. results \in Seq(BOOLEAN)  BY <1>1 DEF NotifyTypes
    <3>3. Append(results, FALSE) \in Seq(BOOLEAN)  BY <3>2
    <3> QED  BY <3>1, <3>2, <3>3
  <2>3. NotifyTypes'
    BY <1>1, <1>2, <2>1, <2>2 DEF NotifyTypes
  <2>4. ASSUME NEW k \in Jobs
        PROVE  /\ reached'[k] + Cardinality(OnTheirWay(k)') <= reached[k] + Cardinality(OnTheirWay(k))
               /\ pc'[k] = "new" => pc[k] = "new"
               /\ pc'[k] \in {"delivering", "waiting", "sent"} => Known(k)
               /\ pc'[k] = "waiting" => attempts[k] < Attempts(k)
               /\ pc'[k] = "raised" /\ Known(k) => attempts[k] = Attempts(k)
               /\ RobotsHaveIt(k)'
    <3>1. OnTheirWay(k)' = OnTheirWay(k)  BY <2>1 DEF OnTheirWay
    <3>2. reached[k] \in Nat /\ Cardinality(OnTheirWay(k)) \in Nat
      BY <1>1, WayIsFinite DEF NotifyTypes
    <3>3. AttemptsFit(k) /\ RobotsHaveIt(k)  BY DEF ReachedInv
    <3>4. reached'[k] + Cardinality(OnTheirWay(k)') <= reached[k] + Cardinality(OnTheirWay(k))
      BY <1>2, <3>1, <3>2
    <3> QED  BY <1>1, <1>2, <1>4, <2>1, <3>3, <3>4 DEF NotifyTypes, AttemptsFit, RobotsHaveIt
  <2> QED  BY <2>1, <2>3, <2>4, NoNewAttempt
<1> QED  BY <1>3, <1>4

LEMMA RetryReached ==
    ASSUME ReachedInv, NEW j \in Jobs, Retry(j)
    PROVE  ReachedInv'
<1> DEFINE n == attempts[j] + 1
<1>1. NotifyTypes /\ AttemptsFit(j) /\ Attempts(j) \in Nat \ {0}
  BY JobTypes DEF ReachedInv
<1>2. /\ pc[j] = "waiting" /\ pc' = [pc EXCEPT ![j] = "delivering"]
      /\ attempts' = [attempts EXCEPT ![j] = n]
      /\ inFlight' = inFlight \union Posted(j, n)
      /\ UNCHANGED <<reached, results, totalSent, byOk>>
  BY DEF Retry
<1>3. Known(j) /\ attempts[j] < Attempts(j) /\ attempts[j] \in Nat
  BY <1>1, <1>2 DEF AttemptsFit, NotifyTypes
<1>4. n \in Nat \ {0} /\ n <= Attempts(j)
  BY <1>1, <1>3
<1>5. inFlight' = inFlight \/ inFlight' = inFlight \union {<<j, n>>}
  BY <1>2 DEF Posted
<1>6. NotifyTypes'
  BY <1>1, <1>2, <1>4, <1>5 DEF NotifyTypes
<1> QED  BY <1>2, <1>3, <1>4, <1>5, <1>6, AttemptMade

(* An attempt comes to nothing where it is, or needs no server. *)
LEMMA LocalReached ==
    ASSUME ReachedInv, NEW j \in Jobs, Local(j) \/ Timeout(j)
    PROVE  ReachedInv'
<1>1. NotifyTypes /\ AttemptsFit(j)
  BY DEF ReachedInv
<1>2. /\ pc[j] = "delivering" /\ inFlight' = inFlight /\ reached' = reached
      /\ Failed(j) \/ Succeeded(j)
      /\ Succeeded(j) => Mocked(j) \/ Failed(j)
  BY DEF Local, Timeout
<1>3. Known(j)
  BY <1>1, <1>2 DEF AttemptsFit
<1>4. NotifyTypes'
  BY <1>1, <1>2, <1>3, OutcomeFits, OutcomeTypes DEF NotifyTypes
<1>5. ASSUME NEW k \in Jobs
      PROVE  /\ reached'[k] + Cardinality(OnTheirWay(k)') <= reached[k] + Cardinality(OnTheirWay(k))
             /\ RobotsHaveIt(k)'
  <2>1. attempts' = attempts  BY <1>2, OutcomeFits
  <2>2. OnTheirWay(k)' = OnTheirWay(k)  BY <1>2, <2>1 DEF OnTheirWay
  <2>3. reached[k] \in Nat /\ Cardinality(OnTheirWay(k)) \in Nat
    BY <1>1, WayIsFinite DEF NotifyTypes
  <2>4. RobotsHaveIt(k)'
    <3>1. CASE k # j
      BY <1>2, <3>1, OutcomeFits DEF ReachedInv, RobotsHaveIt
    <3>2. CASE k = j
      <4>1. pc'[j] = "sent" => Mocked(j)
        BY <1>1, <1>2, OutcomeFits DEF Failed, NotifyTypes
      <4> QED  BY <3>2, <4>1, RobotsAreHonest DEF RobotsHaveIt
    <3> QED  BY <3>1, <3>2
  <2>5. reached'[k] + Cardinality(OnTheirWay(k)') <= reached[k] + Cardinality(OnTheirWay(k))
    BY <1>2, <2>2, <2>3
  <2> QED  BY <2>4, <2>5
<1> QED  BY <1>2, <1>4, <1>5, OutcomeFits, NoNewAttempt

LEMMA ArriveReached ==
    ASSUME ReachedInv, NEW j \in Jobs, NEW n \in 1..Attempts(j),
           NEW answer \in Answers, NEW answered \in BOOLEAN, Arrive(j, n, answer, answered)
    PROVE  ReachedInv'
<1>1. NotifyTypes /\ AttemptsFit(j)
  BY DEF ReachedInv
<1>2. /\ <<j, n>> \in inFlight /\ inFlight' = inFlight \ {<<j, n>>}
      /\ reached' = [reached EXCEPT ![j] = IF answer \in Taking(job[j].channel) THEN @ + 1 ELSE @]
  BY DEF Arrive
<1>3. answered => /\ pc[j] = "delivering" /\ Known(j)
                  /\ IF answer \in Ok(job[j].channel) THEN Succeeded(j) ELSE Failed(j)
  BY <1>1 DEF Arrive, AttemptsFit
<1>4. ~answered => UNCHANGED <<pc, attempts, results, totalSent, byOk>>
  BY DEF Arrive
<1>5. n \in Nat /\ n \in 1..attempts[j]
  <2>1. Attempts(j) \in Nat  BY JobTypes
  <2>2. n \in Nat /\ 1 <= n  BY <2>1
  <2>3. n <= attempts[j]  BY <1>1, <1>2, <2>2 DEF AttemptsFit
  <2> QED  BY <1>1, <2>2, <2>3 DEF NotifyTypes
<1>6. /\ attempts' = attempts
      /\ pc' \in [Jobs -> {"new", "delivering", "waiting", "sent", "raised"}]
      /\ \A k \in Jobs :
              /\ pc'[k] = "new" => pc[k] = "new"
              /\ pc'[k] \in {"delivering", "waiting", "sent"} => Known(k)
              /\ pc'[k] = "waiting" => attempts[k] < Attempts(k)
              /\ pc'[k] = "raised" /\ Known(k) => attempts[k] = Attempts(k)
              /\ k # j => pc'[k] = pc[k]
  <2>1. CASE answered
    BY <1>3, <2>1, OutcomeFits
  <2>2. CASE ~answered
    BY <1>1, <1>4, <2>2 DEF ReachedInv, AttemptsFit, NotifyTypes
  <2> QED  BY <2>1, <2>2
<1>7. /\ results' \in Seq(BOOLEAN) /\ totalSent' \in Nat /\ byOk' \in [DOMAIN CHANNELS -> Nat]
  <2>1. CASE answered
    BY <1>1, <1>3, <2>1, OutcomeTypes
  <2>2. CASE ~answered
    BY <1>1, <1>4, <2>2 DEF NotifyTypes
  <2> QED  BY <2>1, <2>2
<1>8. reached' \in [Jobs -> Nat] /\ inFlight' \subseteq inFlight
  BY <1>1, <1>2 DEF NotifyTypes
<1>9. NotifyTypes'
  BY <1>1, <1>6, <1>7, <1>8 DEF NotifyTypes
<1>10. ASSUME NEW k \in Jobs
       PROVE  reached'[k] + Cardinality(OnTheirWay(k)') <= reached[k] + Cardinality(OnTheirWay(k))
  <2>1. reached[k] \in Nat /\ IsFiniteSet(OnTheirWay(k)) /\ Cardinality(OnTheirWay(k)) \in Nat
    BY <1>1, WayIsFinite DEF NotifyTypes
  <2>2. CASE k = j
    <3>1. n \in OnTheirWay(j) /\ OnTheirWay(j)' = OnTheirWay(j) \ {n}
      BY <1>2, <1>5, <1>6 DEF OnTheirWay
    <3>2. Cardinality(OnTheirWay(j) \ {n}) = Cardinality(OnTheirWay(j)) - 1
      BY <2>1, <2>2, <3>1, FS_RemoveElement
    <3>3. reached'[j] = reached[j] \/ reached'[j] = reached[j] + 1
      BY <1>1, <1>2 DEF NotifyTypes
    <3> QED  BY <2>1, <2>2, <3>1, <3>2, <3>3
  <2>3. CASE k # j
    <3>1. OnTheirWay(k)' = OnTheirWay(k)
      BY <1>2, <1>6, <2>3 DEF OnTheirWay
    <3>2. reached'[k] = reached[k]
      BY <1>1, <1>2, <2>3 DEF NotifyTypes
    <3> QED  BY <2>1, <3>1, <3>2
  <2> QED  BY <2>2, <2>3
<1>11. ASSUME NEW k \in Jobs PROVE RobotsHaveIt(k)'
  <2>1. reached[k] \in Nat /\ RobotsHaveIt(k)
    BY <1>1 DEF ReachedInv, NotifyTypes
  <2>2. reached'[k] >= reached[k]
    BY <1>1, <1>2, <2>1 DEF NotifyTypes
  <2>3. CASE k = j /\ answered /\ answer \in Ok(job[j].channel)
    <3> SUFFICES ASSUME job[j].channel \in {"ding", "wework"} PROVE reached'[j] > 0
      BY <2>3 DEF RobotsHaveIt
    <3>1. answer \in Taking(job[j].channel)
      BY <2>3, RobotsAreHonest
    <3>2. reached'[j] = reached[j] + 1
      BY <1>1, <1>2, <3>1 DEF NotifyTypes
    <3> QED  BY <2>1, <2>3, <3>2
  <2>4. CASE k = j /\ answered /\ answer \notin Ok(job[j].channel)
    <3>1. pc'[j] # "sent"
      BY <1>1, <1>3, <2>4 DEF Failed, NotifyTypes
    <3> QED  BY <2>4, <3>1 DEF RobotsHaveIt
  <2>5. CASE k # j \/ ~answered
    <3>1. pc'[k] = pc[k]  BY <1>4, <1>6, <2>5
    <3>2. reached'[k] \in Nat  BY <1>8
    <3> QED  BY <2>1, <2>2, <3>1, <3>2 DEF RobotsHaveIt
  <2> QED  BY <2>3, <2>4, <2>5
<1> QED  BY <1>6, <1>8, <1>9, <1>10, <1>11, NoNewAttempt

LEMMA ReachedStepInv == ReachedInv /\ [Next]_vars => ReachedInv'
<1> SUFFICES ASSUME ReachedInv, [Next]_vars PROVE ReachedInv'  OBVIOUS
<1>1. CASE UNCHANGED vars
  <2>1. ASSUME NEW j \in Jobs PROVE OnTheirWay(j)' = OnTheirWay(j)
    BY <1>1 DEF vars, OnTheirWay
  <2> QED
    BY <1>1, <2>1
       DEF vars, ReachedInv, NotifyTypes, AttemptsFit, Attempts, Known, CountedOnce, RobotsHaveIt
<1>2. CASE Next
  BY <1>1, <1>2, StartReached, RetryReached, LocalReached, ArriveReached DEF Next, Quiet
<1> QED  BY <1>1, <1>2

LEMMA ReachedInvHolds == Spec => []ReachedInv
BY ReachedInitInv, ReachedStepInv, PTL DEF Spec

(* A person is called or written to at most once per attempt, every attempt *)
(* of the policy is made before a known channel is given up, and a job that *)
(* ding or wework reports as sent is with their robot, whichever answers    *)
(* were lost.                                                               *)
THEOREM ReachedOncePerAttempt == Spec => []ReachedPerAttempt
<1>1. ReachedInv => ReachedPerAttempt
  BY DEF ReachedInv, AttemptsFit, CountedOnce, RobotsHaveIt, OnTheirWay, ReachedPerAttempt
<1> QED  BY <1>1, ReachedInvHolds, PTL

-----------------------------------------------------------------------------
(* What is recorded of a job *)

NotStartedYet == \A i \in DOMAIN Batch : i > Len(results) + 1 => pc[Batch[i]] = "new"

RecordedInv ==
    /\ ReachedInv /\ IsFiniteSet(Sent)
    /\ CountersMatchOutcomes /\ BatchAnswersInOrder /\ NotStartedYet

(* If j is in the batch, it is the job after those that have been answered. *)
NextInBatch(j) == \A i \in DOMAIN Batch : Batch[i] = j => i = Len(results) + 1

LEMMA BatchTypes ==
    /\ Len(Batch) \in Nat /\ DOMAIN Batch = 1..Len(Batch)
    /\ \A i \in 1..Len(Batch) : Batch[i] \in Jobs
    /\ \A j : Contains(Batch, j) <=> \E i \in 1..Len(Batch) : Batch[i] = j
<1>1. Batch \in Seq(Jobs)  BY NotifyAssumption
<1>2. Len(Batch) \in Nat /\ DOMAIN Batch = 1..Len(Batch)  BY <1>1
<1>3. ASSUME NEW i \in 1..Len(Batch) PROVE Batch[i] \in Jobs
  BY <1>1, <1>2
<1> QED  BY <1>2, <1>3 DEF Contains

LEMMA RecordedInitInv == Init => RecordedInv
<1> SUFFICES ASSUME Init PROVE RecordedInv  OBVIOUS
<1>1. ReachedInv  BY ReachedInitInv
<1>2. Sent = {} /\ \A c : SentBy(c) = {}
  BY DEF Init, Sent, SentBy
<1>3. IsFiniteSet(Sent) /\ Cardinality({}) = 0
  BY <1>2, FS_EmptySet
<1>4. CountersMatchOutcomes
  BY <1>2, <1>3 DEF Init, CountersMatchOutcomes, Sent, SentBy
<1>5. BatchAnswersInOrder /\ NotStartedYet
  BY BatchTypes DEF Init, BatchAnswersInOrder, NotStartedYet, Ended
<1> QED  BY <1>1, <1>3, <1>4, <1>5 DEF RecordedInv

LEMMA CountersKept ==
    ASSUME RecordedInv, Sent' = Sent, \A c : SentBy(c)' = SentBy(c),
           totalSent' = totalSent, byOk' = byOk
    PROVE  IsFiniteSet(Sent)' /\ CountersMatchOutcomes'
BY DEF RecordedInv, CountersMatchOutcomes, Sent, SentBy

LEMMA CountersAdded ==
    ASSUME RecordedInv, NEW j \in Jobs, pc[j] # "sent", Known(j), Succeeded(j)
    PROVE  IsFiniteSet(Sent)' /\ CountersMatchOutcomes'
<1>1. /\ pc \in [Jobs -> {"new", "delivering", "waiting", "sent", "raised"}]
      /\ totalSent \in Nat /\ byOk \in [DOMAIN CHANNELS -> Nat]
  BY DEF RecordedInv, ReachedInv, NotifyTypes
<1>2. pc' = [pc EXCEPT ![j] = "sent"] /\ totalSent' = totalSent + 1
      /\ byOk' = [byOk EXCEPT ![job[j].channel] = @ + 1]
  BY DEF Succeeded
<1>3. /\ Sent' = Sent \union {j} /\ j \notin Sent
      /\ \A c : SentBy(c)' = IF job[j].channel = c THEN SentBy(c) \union {j} ELSE SentBy(c)
  BY <1>1, <1>2 DEF Sent, SentBy
<1>4. IsFiniteSet(Sent) /\ \A c : IsFiniteSet(SentBy(c)) /\ j \notin SentBy(c)
  <2>1. \A c : SentBy(c) \subseteq Sent  BY DEF Sent, SentBy
  <2> QED  BY <1>3, <2>1, FS_Subset DEF RecordedInv
<1>5. Cardinality(Sent') = Cardinality(Sent) + 1 /\ IsFiniteSet(Sent')
  BY <1>3, <1>4, FS_AddElement
<1>6. totalSent' = Cardinality(Sent')
  BY <1>2, <1>5 DEF RecordedInv, CountersMatchOutcomes, Sent
<1>7. ASSUME NEW c \in DOMAIN CHANNELS PROVE byOk'[c] = Cardinality(SentBy(c)')
  <2>1. byOk[c] = Cardinality(SentBy(c))
    BY DEF RecordedInv, CountersMatchOutcomes, SentBy
  <2>2. CASE job[j].channel = c
    <3>1. Cardinality(SentBy(c) \union {j}) = Cardinality(SentBy(c)) + 1
      BY <1>4, FS_AddElement
    <3>2. SentBy(c)' = SentBy(c) \union {j}  BY <1>3, <2>2
    <3>3. byOk'[c] = byOk[c] + 1  BY <1>1, <1>2, <2>2
    <3> QED  BY <2>1, <3>1, <3>2, <3>3
  <2>3. CASE job[j].channel # c
    <3>1. SentBy(c)' = SentBy(c)  BY <1>3, <2>3
    <3>2. byOk'[c] = byOk[c]  BY <1>1, <1>2, <2>3
    <3> QED  BY <2>1, <3>1, <3>2
  <2> QED  BY <2>2, <2>3
<1> QED  BY <1>5, <1>6, <1>7 DEF CountersMatchOutcomes, Sent, SentBy

(* A job goes on, and is answered later. *)
LEMMA BatchGoesOn ==
    ASSUME RecordedInv, NEW j \in Jobs, NEW p \in {"delivering", "waiting"},
           pc[j] \notin Ended, NextInBatch(j), pc' = [pc EXCEPT ![j] = p], results' = results
    PROVE  BatchAnswersInOrder' /\ NotStartedYet'
<1>1. /\ pc \in [Jobs -> {"new", "delivering", "waiting", "sent", "raised"}]
      /\ results \in Seq(BOOLEAN) /\ Len(results) \in Nat
  BY DEF RecordedInv, ReachedInv, NotifyTypes
<1>2. \A k \in Jobs : pc'[k] = IF k = j THEN p ELSE pc[k]
  BY <1>1
<1>3. ASSUME NEW i \in DOMAIN Batch
      PROVE  /\ pc'[Batch[i]] \in Ended <=> i <= Len(results')
             /\ i <= Len(results') => (results'[i] <=> pc'[Batch[i]] = "sent")
             /\ i > Len(results') + 1 => pc'[Batch[i]] = "new"
  <2>1. Batch[i] \in Jobs /\ i \in Nat  BY BatchTypes
  <2>2. CASE Batch[i] = j
    BY <1>1, <1>2, <2>1, <2>2 DEF NextInBatch, Ended
  <2>3. CASE Batch[i] # j
    BY <1>2, <2>1, <2>3 DEF RecordedInv, BatchAnswersInOrder, NotStartedYet
  <2> QED  BY <2>2, <2>3
<1> QED  BY <1>3 DEF RecordedInv, BatchAnswersInOrder, NotStartedYet

(* A job ends, and is answered if it is in the batch. *)
LEMMA BatchAnswers ==
    ASSUME RecordedInv, NEW j \in Jobs, NEW p \in Ended,
           pc[j] \notin Ended, NextInBatch(j), pc' = [pc EXCEPT ![j] = p], Record(j, p = "sent")
    PROVE  BatchAnswersInOrder' /\ NotStartedYet'
<1> DEFINE n == Len(results)
<1>1. /\ pc \in [Jobs -> {"new", "delivering", "waiting", "sent", "raised"}]
      /\ results \in Seq(BOOLEAN) /\ n \in Nat
  BY DEF RecordedInv, ReachedInv, NotifyTypes
<1>2. \A k \in Jobs : pc'[k] = IF k = j THEN p ELSE pc[k]
  BY <1>1
<1>3. /\ n <= Len(Batch) /\ Len(Batch) \in Nat
      /\ \A i \in DOMAIN Batch :
            /\ pc[Batch[i]] \in Ended <=> i <= n
            /\ i <= n => (results[i] <=> pc[Batch[i]] = "sent")
            /\ i > n + 1 => pc[Batch[i]] = "new"
  BY BatchTypes DEF RecordedInv, BatchAnswersInOrder, NotStartedYet
<1>4. CASE Contains(Batch, j)
  <2>1. results' = Append(results, p = "sent")  BY <1>4 DEF Record
  <2>2. (p = "sent") \in BOOLEAN  OBVIOUS
  <2>3. /\ Len(results') = n + 1 /\ results'[n + 1] = (p = "sent")
        /\ \A i \in 1..n : results'[i] = results[i]
    BY <1>1, <2>1, <2>2
  <2>4. PICK b \in 1..Len(Batch) : Batch[b] = j  BY <1>4, BatchTypes
  <2>5. b = n + 1  BY <2>4, BatchTypes DEF NextInBatch
  <2>6. Len(results') <= Len(Batch)  BY <1>1, <1>3, <2>3, <2>4, <2>5
  <2>7. ASSUME NEW i \in DOMAIN Batch
        PROVE  /\ pc'[Batch[i]] \in Ended <=> i <= Len(results')
               /\ i <= Len(results') => (results'[i] <=> pc'[Batch[i]] = "sent")
               /\ i > Len(results') + 1 => pc'[Batch[i]] = "new"
    <3>1. Batch[i] \in Jobs /\ i \in Nat /\ i >= 1  BY BatchTypes
    <3>2. CASE i = b
      <4>1. i = n + 1 /\ Batch[i] = j  BY <2>4, <2>5, <3>2
      <4>2. pc'[Batch[i]] = p  BY <1>2, <3>1, <4>1
      <4>3. results'[i] = (p = "sent")  BY <2>3, <4>1
      <4>4. i <= Len(results') /\ ~(i > Len(results') + 1)  BY <1>1, <2>3, <4>1
      <4> QED  BY <4>2, <4>3, <4>4
    <3>3. CASE i # b
      <4>1. Batch[i] # j  BY <2>5, <3>3 DEF NextInBatch
      <4>2. pc'[Batch[i]] = pc[Batch[i]]  BY <1>2, <3>1, <4>1
      <4>3. i <= n + 1 <=> i <= n  BY <1>1, <2>5, <3>1, <3>3
      <4>4. i <= n => results'[i] = results[i]  BY <1>1, <2>3, <3>1
      <4>5. i > (n + 1) + 1 => i > n + 1  BY <1>1, <3>1
      <4> QED  BY <1>3, <2>3, <4>2, <4>3, <4>4, <4>5
    <3> QED  BY <3>2, <3>3
  <2> QED  BY <2>6, <2>7 DEF BatchAnswersInOrder, NotStartedYet
<1>5. CASE ~Contains(Batch, j)
  <2>1. results' = results  BY <1>5 DEF Record
  <2>2. \A i \in DOMAIN Batch : Batch[i] \in Jobs /\ Batch[i] # j
    BY <1>5, BatchTypes
  <2> QED  BY <1>2, <1>3, <2>1, <2>2 DEF BatchAnswersInOrder, NotStartedYet
<1> QED  BY <1>4, <1>5

(* A job that has been started is the next of its batch, if it is in one:   *)
(* those before it have ended, and those after it have not started.         *)
LEMMA StartedIsNext ==
    ASSUME RecordedInv, NEW j \in Jobs, pc[j] \notin Ended, pc[j] # "new"
    PROVE  NextInBatch(j)
<1> SUFFICES ASSUME NEW i \in DOMAIN Batch, Batch[i] = j PROVE i = Len(results) + 1
  BY DEF NextInBatch
<1>1. i \in Nat /\ Len(results) \in Nat
  BY BatchTypes DEF RecordedInv, ReachedInv, NotifyTypes
<1>2. ~(i <= Len(results)) /\ ~(i > Len(results) + 1)
  BY DEF RecordedInv, BatchAnswersInOrder, NotStartedYet
<1> QED  BY <1>1, <1>2

LEMMA StartIsNext ==
    ASSUME NEW j \in Jobs, Start(j)
    PROVE  NextInBatch(j)
<1> SUFFICES ASSUME NEW i \in DOMAIN Batch, Batch[i] = j PROVE i = Len(results) + 1
  BY DEF NextInBatch
<1>1. Contains(Batch, j)  BY BatchTypes
<1>2. \A k \in DOMAIN Batch : Batch[k] = j => k = i
  BY NotifyAssumption
<1>3. (CHOOSE k \in DOMAIN Batch : Batch[k] = j) = i
  BY <1>2
<1> QED  BY <1>1, <1>3 DEF Start

(* An outcome of a started job is recorded everywhere. *)
LEMMA OutcomeRecorded ==
    ASSUME RecordedInv, ReachedInv', NEW j \in Jobs, pc[j] = "delivering",
           Failed(j) \/ Succeeded(j)
    PROVE  RecordedInv'
<1>1. /\ pc \in [Jobs -> {"new", "delivering", "waiting", "sent", "raised"}]
      /\ Known(j)
  BY DEF RecordedInv, ReachedInv, NotifyTypes, AttemptsFit
<1>2. pc[j] \notin Ended /\ NextInBatch(j)
  BY StartedIsNext DEF Ended
<1>3. CASE Succeeded(j)
  <2>1. IsFiniteSet(Sent)' /\ CountersMatchOutcomes'
    BY <1>1, <1>3, CountersAdded
  <2>2. pc' = [pc EXCEPT ![j] = "sent"] /\ Record(j, "sent" = "sent")
    <3>1. ("sent" = "sent") = TRUE  OBVIOUS
    <3>2. pc' = [pc EXCEPT ![j] = "sent"] /\ Record(j, TRUE)  BY <1>3 DEF Succeeded
    <3> QED  BY <3>1, <3>2
  <2>3. BatchAnswersInOrder' /\ NotStartedYet'
    <3>1. "sent" \in Ended  BY DEF Ended
    <3> QED  BY <1>2, <2>2, <3>1, BatchAnswers
  <2> QED  BY <2>1, <2>3 DEF RecordedInv
<1>4. CASE Failed(j)
  <2>1. /\ totalSent' = totalSent /\ byOk' = byOk
        /\ \/ pc' = [pc EXCEPT ![j] = "waiting"] /\ results' = results
           \/ pc' = [pc EXCEPT ![j] = "raised"] /\ Record(j, FALSE)
    BY <1>4 DEF Failed
  <2>2. Sent' = Sent /\ \A c : SentBy(c)' = SentBy(c)
    BY <1>1, <2>1 DEF Sent, SentBy
  <2>3. IsFiniteSet(Sent)' /\ CountersMatchOutcomes'
    BY <2>1, <2>2, CountersKept
  <2>4. BatchAnswersInOrder' /\ NotStartedYet'
    <3>1. CASE pc' = [pc EXCEPT ![j] = "waiting"] /\ results' = results
      BY <1>2, <3>1, BatchGoesOn
    <3>2. CASE pc' = [pc EXCEPT ![j] = "raised"] /\ Record(j, FALSE)
      <4>1. "raised" \in Ended /\ ("raised" = "sent") = FALSE  BY DEF Ended
      <4>2. Record(j, "raised" = "sent")  BY <3>2, <4>1
      <4> QED  BY <1>2, <3>2, <4>1, <4>2, BatchAnswers
    <3> QED  BY <2>1, <3>1, <3>2
  <2> QED  BY <2>3, <2>4 DEF RecordedInv
<1> QED  BY <1>3, <1>4

LEMMA RecordedStepInv == RecordedInv /\ [Next]_vars => RecordedInv'
<1> SUFFICES ASSUME RecordedInv, [Next]_vars PROVE RecordedInv'  OBVIOUS
<1>0. /\ ReachedInv /\ ReachedInv'
      /\ pc \in [Jobs -> {"new", "delivering", "waiting", "sent", "raised"}]
  BY ReachedStepInv DEF RecordedInv, ReachedInv, NotifyTypes
<1>1. ASSUME NEW j \in Jobs, Start(j) PROVE RecordedInv'
  <2>1. pc[j] = "new" /\ pc[j] \notin Ended /\ NextInBatch(j) /\ totalSent' = totalSent /\ byOk' = byOk
    BY <1>1, StartIsNext DEF Start, Ended
  <2>2. \/ pc' = [pc EXCEPT ![j] = "delivering"] /\ results' = results
        \/ pc' = [pc EXCEPT ![j] = "raised"] /\ Record(j, FALSE)
    BY <1>1 DEF Start
  <2>3. Sent' = Sent /\ \A c : SentBy(c)' = SentBy(c)
    BY <1>0, <2>1, <2>2 DEF Sent, SentBy
  <2>4. IsFiniteSet(Sent)' /\ CountersMatchOutcomes'
    BY <2>1, <2>3, CountersKept
  <2>5. BatchAnswersInOrder' /\ NotStartedYet'
    <3>1. CASE pc' = [pc EXCEPT ![j] = "delivering"] /\ results' = results
      BY <2>1, <3>1, BatchGoesOn
    <3>2. CASE pc' = [pc EXCEPT ![j] = "raised"] /\ Record(j, FALSE)
      <4>1. "raised" \in Ended /\ ("raised" = "sent") = FALSE  BY DEF Ended
      <4>2. Record(j, "raised" = "sent")  BY <3>2, <4>1
      <4> QED  BY <2>1, <3>2, <4>1, <4>2, BatchAnswers
    <3> QED  BY <2>2, <3>1, <3>2
  <2> QED  BY <1>0, <2>4, <2>5 DEF RecordedInv
<1>2. ASSUME NEW j \in Jobs, Retry(j) PROVE RecordedInv'
  <2>1. /\ pc[j] = "waiting" /\ pc[j] \notin Ended /\ pc[j] # "new"
        /\ pc' = [pc EXCEPT ![j] = "delivering"]
        /\ totalSent' = totalSent /\ byOk' = byOk /\ results' = results
    BY <1>2 DEF Retry, Ended
  <2>2. Sent' = Sent /\ \A c : SentBy(c)' = SentBy(c)
    BY <1>0, <2>1 DEF Sent, SentBy
  <2>3. IsFiniteSet(Sent)' /\ CountersMatchOutcomes'
    BY <2>1, <2>2, CountersKept
  <2>4. BatchAnswersInOrder' /\ NotStartedYet'
    BY <2>1, StartedIsNext, BatchGoesOn
  <2> QED  BY <1>0, <2>3, <2>4 DEF RecordedInv
<1>3. ASSUME NEW j \in Jobs, Local(j) \/ Timeout(j) PROVE RecordedInv'
  BY <1>0, <1>3, OutcomeRecorded DEF Local, Timeout
<1>4. ASSUME UNCHANGED <<pc, results, totalSent, byOk>> PROVE RecordedInv'
  <2>1. Sent' = Sent /\ \A c : SentBy(c)' = SentBy(c)
    BY <1>4 DEF Sent, SentBy
  <2> QED
    BY <1>0, <1>4, <2>1, CountersKept DEF RecordedInv, BatchAnswersInOrder, NotStartedYet
<1>5. ASSUME NEW j \in Jobs, NEW n \in 1..Attempts(j), NEW answer \in Answers,
             NEW answered \in BOOLEAN, Arrive(j, n, answer, answered)
      PROVE  RecordedInv'
  <2>1. CASE answered
    BY <1>0, <1>5, <2>1, OutcomeRecorded DEF Arrive
  <2>2. CASE ~answered
    BY <1>4, <1>5, <2>2 DEF Arrive
  <2> QED  BY <2>1, <2>2
<1> QED  BY <1>1, <1>2, <1>3, <1>4, <1>5 DEF Next, Quiet, vars

(* However jobs overlap and whichever raise, every successful job is in the *)
(* counters once and a batch is answered job by job, in order.              *)
THEOREM OutcomesRecorded == Spec => []OutcomesAreRecorded
<1>1. RecordedInv => OutcomesAreRecorded
  BY DEF RecordedInv, OutcomesAreRecorded
<1> QED  BY <1>1, RecordedInitInv, RecordedStepInv, PTL DEF Spec

-----------------------------------------------------------------------------
(* Running down.  Jobs share nothing but the turns of the batch: a job that *)
(* cannot go on waits for one before it in the batch that can.              *)

(* The steps a task in state s can still make, of whose allowed attempts    *)
(* some are made: the start, and for each attempt left the wait before it   *)
(* and its end.                                                             *)
Steps(s, made, allowed) ==
    CASE s = "new"        -> 2 * allowed + 1
      [] s = "delivering" -> 2 * (allowed - made) + 1
      [] s = "waiting"    -> 2 * (allowed - made)
      [] s \in Ended      -> 0

StepsLeft(j) == Steps(pc[j], attempts[j], Attempts(j))

(* A step of j's own: what FairSpec assumes to be taken.                    *)
Goes(j) == Start(j) \/ Retry(j) \/ Local(j) \/ Timeout(j)

StepsAreSpent ==
    [][\A j \in Jobs : /\ Goes(j) => StepsLeft(j)' < StepsLeft(j)
                       /\ StepsLeft(j)' <= StepsLeft(j)]_vars

(* j is between two of its own steps and waits for nothing but the clock.   *)
MayGo(j) ==
    \/ pc[j] \in {"delivering", "waiting"}
    \/ /\ pc[j] = "new"
       /\ Contains(Batch, j) => Len(results) + 1 = CHOOSE i \in DOMAIN Batch : Batch[i] = j

BatchMovesOn ==
    \A j \in Jobs : pc[j] \notin Ended =>
        \/ MayGo(j)
        \/ \E h, i \in DOMAIN Batch : h < i /\ Batch[i] = j /\ MayGo(Batch[h])

LEMMA StepsIsNat ==
    ASSUME NEW s \in {"new", "delivering", "waiting", "sent", "raised"},
           NEW made \in Nat, NEW allowed \in Nat, made <= allowed,
           s = "waiting" => made < allowed
    PROVE  Steps(s, made, allowed) \in Nat /\ (Steps(s, made, allowed) = 0 <=> s \in Ended)
<1>1. CASE s = "new"         BY <1>1 DEF Steps, Ended
<1>2. CASE s = "delivering"  BY <1>2 DEF Steps, Ended
<1>3. CASE s = "waiting"     BY <1>3 DEF Steps, Ended
<1>4. CASE s \in Ended       BY <1>4 DEF Steps, Ended
<1> QED  BY <1>1, <1>2, <1>3, <1>4 DEF Ended

LEMMA StepsLeftIsNat ==
    ASSUME ReachedInv, NEW j \in Jobs
    PROVE  StepsLeft(j) \in Nat /\ (StepsLeft(j) = 0 <=> pc[j] \in Ended)
<1>1. /\ pc[j] \in {"new", "delivering", "waiting", "sent", "raised"}
      /\ attempts[j] \in Nat /\ attempts[j] <= Attempts(j)
      /\ pc[j] = "waiting" => attempts[j] < Attempts(j)
  BY DEF ReachedInv, NotifyTypes, AttemptsFit
<1> QED  BY <1>1, JobTypes, StepsIsNat DEF StepsLeft

(* An attempt that ends well or badly ends the job, or takes a step of it.  *)
LEMMA OutcomeSpends ==
    ASSUME ReachedInv, NEW j \in Jobs, pc[j] = "delivering", Failed(j) \/ Succeeded(j)
    PROVE  StepsLeft(j)' < StepsLeft(j) /\ \A k \in Jobs : k # j => StepsLeft(k)' = StepsLeft(k)
<1>1. /\ pc \in [Jobs -> {"new", "delivering", "waiting", "sent", "raised"}]
      /\ attempts[j] \in Nat /\ attempts[j] <= Attempts(j)
  BY DEF ReachedInv, NotifyTypes, AttemptsFit
<1>2. attempts' = attempts /\ \E s \in {"waiting", "raised", "sent"} : pc' = [pc EXCEPT ![j] = s]
  BY DEF Failed, Succeeded
<1>3. PICK s \in {"waiting", "raised", "sent"} : pc' = [pc EXCEPT ![j] = s]
  BY <1>2
<1>4. pc'[j] = s /\ \A k \in Jobs : k # j => pc'[k] = pc[k]
  BY <1>1, <1>3
<1>5. Attempts(j) \in Nat \ {0}
  BY JobTypes
<1>6. StepsLeft(j) = 2 * (Attempts(j) - attempts[j]) + 1
  BY DEF StepsLeft, Steps, Ended
<1>7. StepsLeft(j)' < StepsLeft(j)
  <2>1. CASE s = "waiting"
    <3>1. StepsLeft(j)' = 2 * (Attempts(j) - attempts[j])
      BY <1>2, <1>4, <2>1 DEF StepsLeft, Steps, Ended, Attempts
    <3> QED  BY <1>1, <1>5, <1>6, <3>1
  <2>2. CASE s \in {"raised", "sent"}
    <3>1. StepsLeft(j)' = 0
      BY <1>4, <2>2 DEF StepsLeft, Steps, Ended
    <3> QED  BY <1>1, <1>5, <1>6, <3>1
  <2> QED  BY <2>1, <2>2
<1>8. ASSUME NEW k \in Jobs, k # j PROVE StepsLeft(k)' = StepsLeft(k)
  BY <1>2, <1>4, <1>8 DEF StepsLeft, Steps, Ended, Attempts
<1> QED  BY <1>7, <1>8

LEMMA GoesSpends ==
    ASSUME ReachedInv, NEW j \in Jobs, Goes(j)
    PROVE  StepsLeft(j)' < StepsLeft(j) /\ \A k \in Jobs : k # j => StepsLeft(k)' = StepsLeft(k)
<1>1. /\ pc \in [Jobs -> {"new", "delivering", "waiting", "sent", "raised"}]
      /\ attempts \in [Jobs -> Nat] /\ AttemptsFit(j)
  BY DEF ReachedInv, NotifyTypes
<1>2. Attempts(j) \in Nat \ {0} /\ attempts[j] \in Nat
  BY <1>1, JobTypes
<1>3. CASE Local(j) \/ Timeout(j)
  <2>1. pc[j] = "delivering" /\ (Failed(j) \/ Succeeded(j))
    BY <1>3 DEF Local, Timeout
  <2> QED  BY <2>1, OutcomeSpends
<1>4. CASE Retry(j)
  <2>1. /\ pc[j] = "waiting" /\ pc'[j] = "delivering" /\ attempts'[j] = attempts[j] + 1
        /\ \A k \in Jobs : k # j => pc'[k] = pc[k] /\ attempts'[k] = attempts[k]
    BY <1>1, <1>4 DEF Retry
  <2>2. StepsLeft(j) = 2 * (Attempts(j) - attempts[j])
    BY <2>1 DEF StepsLeft, Steps, Ended
  <2>3. StepsLeft(j)' = 2 * (Attempts(j) - (attempts[j] + 1)) + 1
    BY <2>1 DEF StepsLeft, Steps, Ended, Attempts
  <2>4. ASSUME NEW k \in Jobs, k # j PROVE StepsLeft(k)' = StepsLeft(k)
    BY <2>1, <2>4 DEF StepsLeft, Steps, Ended, Attempts
  <2> QED  BY <1>2, <2>2, <2>3, <2>4
<1>5. CASE Start(j)
  <2>1. pc[j] = "new" /\ StepsLeft(j) = 2 * Attempts(j) + 1
    BY <1>5 DEF Start, StepsLeft, Steps, Ended
  <2>2. CASE Known(j)
    <3>1. /\ pc'[j] = "delivering" /\ attempts'[j] = 1
          /\ \A k \in Jobs : k # j => pc'[k] = pc[k] /\ attempts'[k] = attempts[k]
      BY <1>1, <1>5, <2>2 DEF Start
    <3>2. StepsLeft(j)' = 2 * (Attempts(j) - 1) + 1
      BY <3>1 DEF StepsLeft, Steps, Ended, Attempts
    <3>3. ASSUME NEW k \in Jobs, k # j PROVE StepsLeft(k)' = StepsLeft(k)
      BY <3>1, <3>3 DEF StepsLeft, Steps, Ended, Attempts
    <3> QED  BY <1>2, <2>1, <3>2, <3>3
  <2>3. CASE ~Known(j)
    <3>1. pc'[j] = "raised" /\ attempts' = attempts /\ \A k \in Jobs : k # j => pc'[k] = pc[k]
      BY <1>1, <1>5, <2>3 DEF Start
    <3>2. StepsLeft(j)' = 0
      BY <3>1 DEF StepsLeft, Steps, Ended
    <3>3. ASSUME NEW k \in Jobs, k # j PROVE StepsLeft(k)' = StepsLeft(k)
      BY <3>1, <3>3 DEF StepsLeft, Steps, Ended, Attempts
    <3> QED  BY <1>2, <2>1, <3>2, <3>3
  <2> QED  BY <2>2, <2>3
<1> QED  BY <1>3, <1>4, <1>5 DEF Goes

LEMMA NextSpends ==
    ASSUME ReachedInv, Next, NEW j \in Jobs
    PROVE  /\ Goes(j) => StepsLeft(j)' < StepsLeft(j)
           /\ StepsLeft(j)' <= StepsLeft(j)
<1>1. StepsLeft(j) \in Nat /\ StepsLeft(j)' \in Nat
  <2>1. ReachedInv'  BY ReachedStepInv
  <2>2. /\ pc'[j] \in {"new", "delivering", "waiting", "sent", "raised"}
        /\ attempts'[j] \in Nat /\ attempts'[j] <= Attempts(j)
        /\ pc'[j] = "waiting" => attempts'[j] < Attempts(j)
    BY <2>1 DEF ReachedInv, NotifyTypes, AttemptsFit, Attempts
  <2>3. Steps(pc'[j], attempts'[j], Attempts(j)) \in Nat
    BY <2>2, JobTypes, StepsIsNat
  <2>4. StepsLeft(j)' = Steps(pc'[j], attempts'[j], Attempts(j))
    BY DEF StepsLeft, Attempts
  <2> QED  BY <2>3, <2>4, StepsLeftIsNat
<1>2. Goes(j) => StepsLeft(j)' < StepsLeft(j)
  BY GoesSpends
<1>3. ASSUME NEW k \in Jobs, k # j, Goes(k) PROVE StepsLeft(j)' <= StepsLeft(j)
  BY <1>1, <1>3, GoesSpends
<1>4. ASSUME NEW k \in Jobs, NEW n \in 1..Attempts(k), NEW answer \in Answers,
             NEW answered \in BOOLEAN, Arrive(k, n, answer, answered)
      PROVE  StepsLeft(j)' <= StepsLeft(j)
  <2>1. CASE answered
    <3>1. pc[k] = "delivering" /\ (Failed(k) \/ Succeeded(k))
      BY <1>4, <2>1 DEF Arrive
    <3> QED  BY <1>1, <3>1, OutcomeSpends
  <2>2. CASE ~answered
    <3>1. pc' = pc /\ attempts' = attempts  BY <1>4, <2>2 DEF Arrive
    <3>2. StepsLeft(j)' = StepsLeft(j)  BY <3>1 DEF StepsLeft, Steps, Ended, Attempts
    <3> QED  BY <1>1, <3>2
  <2> QED  BY <2>1, <2>2
<1>5. ASSUME Quiet PROVE StepsLeft(j)' <= StepsLeft(j)
  <2>1. StepsLeft(j)' = StepsLeft(j)  BY <1>5 DEF Quiet, vars, StepsLeft, Attempts
  <2> QED  BY <1>1, <2>1
<1>6. \/ Quiet \/ \E k \in Jobs : Goes(k)
      \/ \E k \in Jobs : \E n \in 1..Attempts(k), answer \in Answers, answered \in BOOLEAN :
            Arrive(k, n, answer, answered)
  BY DEF Next, Goes
<1>7. StepsLeft(j)' <= StepsLeft(j)
  <2>1. CASE \E k \in Jobs : Goes(k)
    <3>1. PICK k \in Jobs : Goes(k)  BY <2>1
    <3>2. CASE k = j
      <4>1. StepsLeft(j)' < StepsLeft(j)  BY <3>1, <3>2, GoesSpends
      <4> QED  BY <1>1, <4>1
    <3> QED  BY <1>3, <3>1, <3>2
  <2> QED  BY <1>4, <1>5, <1>6, <2>1
<1> QED  BY <1>2, <1>7

LEMMA MayGoOn ==
    ASSUME RecordedInv
    PROVE  BatchMovesOn
<1> SUFFICES ASSUME NEW j \in Jobs, pc[j] \notin Ended, ~MayGo(j)
             PROVE  \E h, i \in DOMAIN Batch : h < i /\ Batch[i] = j /\ MayGo(Batch[h])
  BY DEF BatchMovesOn
<1>1. /\ pc \in [Jobs -> {"new", "delivering", "waiting", "sent", "raised"}]
      /\ Len(results) \in Nat /\ BatchAnswersInOrder
  BY DEF RecordedInv, ReachedInv, NotifyTypes
<1>2. ASSUME NEW i \in DOMAIN Batch
      PROVE  (CHOOSE k \in DOMAIN Batch : Batch[k] = Batch[i]) = i
  <2>1. \A k \in DOMAIN Batch : Batch[k] = Batch[i] => k = i
    BY NotifyAssumption
  <2> QED  BY <2>1
<1>3. pc[j] = "new" /\ Contains(Batch, j)
  BY <1>1 DEF MayGo, Ended
<1>4. PICK i \in DOMAIN Batch : Batch[i] = j
  BY <1>3, BatchTypes
<1>5. i \in Nat /\ i <= Len(Batch) /\ Len(Batch) \in Nat /\ DOMAIN Batch = 1..Len(Batch)
  BY BatchTypes
<1>6. i > Len(results)
  BY <1>1, <1>4, <1>5 DEF BatchAnswersInOrder
<1> DEFINE h == Len(results) + 1
<1>7. h # i
  BY <1>2, <1>3, <1>4 DEF MayGo
<1>8. h \in DOMAIN Batch /\ h < i
  BY <1>1, <1>5, <1>6, <1>7
<1>9. Batch[h] \in Jobs /\ pc[Batch[h]] \notin Ended
  <2>1. ~(h <= Len(results))  BY <1>1
  <2> HIDE DEF h
  <2> QED  BY <1>1, <1>5, <1>8, <2>1, BatchTypes DEF BatchAnswersInOrder
<1>10. MayGo(Batch[h])
  BY <1>1, <1>2, <1>8, <1>9 DEF MayGo, Ended
<1> QED  BY <1>4, <1>8, <1>10

(* For any jobs, policies and batch: a job's own steps run down, nothing    *)
(* gives any back, and a job that has not ended can go on or waits for one  *)
(* before it in the batch that can.  That every task which can go on does   *)
(* is the fairness EveryJobEnds assumes.                                    *)
THEOREM JobsRunDown ==
    Spec => [](\A j \in Jobs : StepsLeft(j) \in Nat /\ (StepsLeft(j) = 0 <=> pc[j] \in Ended))
            /\ []BatchMovesOn /\ StepsAreSpent
<1>1. RecordedInv => /\ \A j \in Jobs : StepsLeft(j) \in Nat /\ (StepsLeft(j) = 0 <=> pc[j] \in Ended)
                     /\ BatchMovesOn
  BY StepsLeftIsNat, MayGoOn DEF RecordedInv
<1>2. RecordedInv /\ [Next]_vars =>
         [\A j \in Jobs : /\ Goes(j) => StepsLeft(j)' < StepsLeft(j)
                          /\ StepsLeft(j)' <= StepsLeft(j)]_vars
  BY NextSpends DEF RecordedInv
<1> QED  BY <1>1, <1>2, RecordedInitInv, RecordedStepInv, PTL DEF Spec, StepsAreSpent

=============================================================================
