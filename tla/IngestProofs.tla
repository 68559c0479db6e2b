---------------------------- MODULE IngestProofs ----------------------------
(***************************************************************************)
(* What holds on the way of a frame into the backend, for any number of    *)
(* frames, retries and restarts (IngestPath), and for any number of        *)
(* requests, states, scores and subscribers (IngestRouter and              *)
(* MCIngestRouter).                                                        *)
(***************************************************************************)
EXTENDS IngestPath, MCIngestRouter, FiniteSetTheorems, TLAPS

-----------------------------------------------------------------------------
(* The uploads of one stream.  A frame fed or on its way accounts for an    *)
(* attempt of its own.                                                      *)

(* The requests of frame n on their way, and the places where it was fed.   *)
Pending(n) == {r \in net : r.frame = n}
Copies(n) == {i \in DOMAIN log : log[i] = n}

(* The attempts made for frame n, at most. *)
Made(n) == IF n = frame THEN attempt ELSE MaxRetries + 1

PathTypes ==
    /\ agent \in {"idle", "sending", "waiting"}
    /\ frame \in Nat /\ attempt \in Nat
    /\ ts \in Seq(Nat \ {0}) /\ Len(ts) = frame
    /\ net \subseteq [frame : 1..frame, attempt : Nat] /\ IsFiniteSet(net)
    /\ log \in Seq(1..frame)
    /\ lastTs \in Nat /\ clock \in Nat /\ answer \in Results \union {"none"}
    /\ agent # "idle" => frame >= 1

AttemptsBounded ==
    /\ attempt <= MaxRetries + 1
    /\ agent = "sending" => attempt <= MaxRetries

(* A frame fed or on its way accounts for an attempt of its own.            *)
CopyPerAttempt ==
    \A n \in 1..frame : Cardinality(Copies(n)) + Cardinality(Pending(n)) <= Made(n)

CopiesInv == PathTypes /\ AttemptsBounded /\ CopyPerAttempt

LEMMA AddsAtMostOne ==
    ASSUME NEW S, NEW x, IsFiniteSet(S)
    PROVE  Cardinality(S \union {x}) \in Nat /\ Cardinality(S \union {x}) <= Cardinality(S) + 1
<1>1. Cardinality(S) \in Nat
  BY FS_CardinalityType
<1>2. Cardinality(S \union {x}) = IF x \in S THEN Cardinality(S) ELSE Cardinality(S) + 1
  BY FS_AddElement
<1> QED  BY <1>1, <1>2

LEMMA CopiesAreFinite ==
    ASSUME PathTypes, NEW n
    PROVE  /\ IsFiniteSet(Copies(n)) /\ Cardinality(Copies(n)) \in Nat
           /\ IsFiniteSet(Pending(n)) /\ Cardinality(Pending(n)) \in Nat
<1>1. IsFiniteSet(1..Len(log))
  <2>1. Len(log) \in Nat  BY DEF PathTypes
  <2> QED  BY <2>1, FS_Interval
<1>2. Copies(n) \subseteq 1..Len(log) /\ Pending(n) \subseteq net
  BY DEF Copies, Pending, PathTypes
<1> QED  BY <1>1, <1>2, FS_Subset, FS_CardinalityType DEF PathTypes

LEMMA CopiesInitInv == PathInit => CopiesInv
<1> SUFFICES ASSUME PathInit PROVE CopiesInv  OBVIOUS
<1>1. PathTypes
  BY FS_EmptySet DEF PathInit, PathTypes
<1>2. AttemptsBounded /\ CopyPerAttempt
  BY IngestAssumption DEF PathInit, AttemptsBounded, CopyPerAttempt
<1> QED  BY <1>1, <1>2 DEF CopiesInv

LEMMA NextFrameCopies ==
    ASSUME CopiesInv, NEW gap \in Gaps, NextFrame(gap)
    PROVE  CopiesInv'
<1>1. /\ frame' = frame + 1 /\ attempt' = 0 /\ agent' = "sending"
      /\ net' = net /\ log' = log /\ lastTs' = lastTs /\ clock' = clock /\ answer' = answer
      /\ ts' = Append(ts, IF ts = <<>> THEN gap ELSE ts[frame] + gap)
  BY DEF NextFrame, netVars, serverVars
<1>2. gap \in Nat \ {0} /\ MaxRetries \in Nat
  BY IngestAssumption
<1>3. (IF ts = <<>> THEN gap ELSE ts[frame] + gap) \in Nat \ {0}
  <2>1. CASE ts = <<>>  BY <2>1, <1>2
  <2>2. CASE ts # <<>>
    <3>1. frame \in 1..Len(ts)  BY <2>2 DEF CopiesInv, PathTypes
    <3>2. ts[frame] \in Nat \ {0}  BY <3>1 DEF CopiesInv, PathTypes
    <3> QED  BY <3>2, <2>2, <1>2
  <2> QED  BY <2>1, <2>2
<1>4. ts' \in Seq(Nat \ {0}) /\ Len(ts') = frame'
  BY <1>1, <1>3 DEF CopiesInv, PathTypes
<1>5. 1..frame \subseteq 1..frame'
  BY <1>1 DEF CopiesInv, PathTypes
<1>6. log' \in Seq(1..frame')
  BY <1>1, <1>5 DEF CopiesInv, PathTypes
<1>7. PathTypes'
  BY <1>1, <1>4, <1>5, <1>6 DEF CopiesInv, PathTypes
<1>8. AttemptsBounded'
  BY <1>1, <1>2 DEF AttemptsBounded
<1>9. CopyPerAttempt'
  <2> SUFFICES ASSUME NEW n \in 1..frame'
               PROVE  Cardinality(Copies(n)') + Cardinality(Pending(n)') <= Made(n)'
    BY DEF CopyPerAttempt
  <2>1. Copies(n)' = Copies(n) /\ Pending(n)' = Pending(n)
    BY <1>1 DEF Copies, Pending
  <2>2. CASE n = frame'
    <3>1. n \notin 1..frame  BY <1>1, <2>2 DEF CopiesInv, PathTypes
    <3>2. Copies(n) = {} /\ Pending(n) = {}
      BY <3>1 DEF Copies, Pending, CopiesInv, PathTypes
    <3>3. Made(n)' = 0  BY <1>1, <2>2 DEF Made
    <3> QED  BY <2>1, <3>2, <3>3, FS_EmptySet
  <2>3. CASE n # frame'
    <3>1. n \in 1..frame  BY <1>1, <2>3 DEF CopiesInv, PathTypes
    <3>2. Made(n) <= Made(n)'
      BY <1>1, <1>2, <2>3 DEF Made, CopiesInv, AttemptsBounded, PathTypes
    <3>3. Cardinality(Copies(n)) + Cardinality(Pending(n)) <= Made(n)
      BY <3>1 DEF CopiesInv, CopyPerAttempt
    <3>4. Made(n) \in Nat /\ Made(n)' \in Nat
      BY <1>1, <1>2 DEF Made, CopiesInv, PathTypes
    <3> QED  BY <2>1, <3>2, <3>3, <3>4, CopiesAreFinite DEF CopiesInv
  <2> QED  BY <2>2, <2>3
<1> QED  BY <1>7, <1>8, <1>9 DEF CopiesInv

LEMMA PostCopies ==
    ASSUME CopiesInv, Post
    PROVE  CopiesInv'
<1> DEFINE r == [frame |-> frame, attempt |-> attempt + 1]
<1>1. /\ agent = "sending" /\ agent' = "waiting" /\ attempt' = attempt + 1
      /\ net' = net \union {r} /\ log' = log /\ frame' = frame /\ ts' = ts
      /\ lastTs' = lastTs /\ clock' = clock /\ answer' = answer
  BY DEF Post, serverVars
<1>2. MaxRetries \in Nat /\ attempt <= MaxRetries /\ attempt \in Nat /\ frame \in Nat
  BY <1>1, IngestAssumption DEF CopiesInv, AttemptsBounded, PathTypes
<1>3. frame >= 1
  BY <1>1 DEF CopiesInv, PathTypes
<1>4. PathTypes'
  <2>1. IsFiniteSet(net')  BY <1>1, FS_AddElement DEF CopiesInv, PathTypes
  <2>2. r \in [frame : 1..frame, attempt : Nat]
    BY <1>1, <1>2 DEF CopiesInv, PathTypes
  <2> QED  BY <1>1, <1>2, <2>1, <2>2 DEF CopiesInv, PathTypes
<1>5. AttemptsBounded'
  BY <1>1, <1>2 DEF AttemptsBounded
<1>6. CopyPerAttempt'
  <2> SUFFICES ASSUME NEW n \in 1..frame
               PROVE  Cardinality(Copies(n)') + Cardinality(Pending(n)') <= Made(n)'
    BY <1>1 DEF CopyPerAttempt
  <2>1. Copies(n)' = Copies(n)
    BY <1>1 DEF Copies
  <2>2. Cardinality(Copies(n)) + Cardinality(Pending(n)) <= Made(n)
    BY DEF CopiesInv, CopyPerAttempt
  <2>3. CASE n = frame
    <3>1. Pending(n)' = Pending(n) \union {r}  BY <1>1, <2>3 DEF Pending
    <3>2. Cardinality(Pending(n)') <= Cardinality(Pending(n)) + 1
      BY <3>1, AddsAtMostOne, CopiesAreFinite DEF CopiesInv
    <3>3. Made(n)' = Made(n) + 1  BY <1>1, <2>3 DEF Made
    <3>4. Cardinality(Pending(n)') \in Nat /\ Made(n) \in Nat
      BY <3>1, <1>2, <2>3, CopiesAreFinite, AddsAtMostOne DEF CopiesInv, Made
    <3> QED  BY <2>1, <2>2, <3>2, <3>3, <3>4, CopiesAreFinite DEF CopiesInv
  <2>4. CASE n # frame
    <3>1. Pending(n)' = Pending(n)  BY <1>1, <2>4 DEF Pending
    <3>2. Made(n)' = Made(n)  BY <1>1, <2>4 DEF Made
    <3> QED  BY <2>1, <2>2, <3>1, <3>2
  <2> QED  BY <2>3, <2>4
<1> QED  BY <1>4, <1>5, <1>6 DEF CopiesInv

(* A step that sends nothing and feeds nothing: requests may be answered,   *)
(* and a restart may forget what was fed.                                   *)
LEMMA NoNewCopy ==
    ASSUME CopiesInv, PathTypes', AttemptsBounded', net' \subseteq net,
           log' = log \/ log' = <<>>, frame' = frame, attempt' = attempt
    PROVE  CopiesInv'
<1> SUFFICES ASSUME NEW n \in 1..frame
             PROVE  Cardinality(Copies(n)') + Cardinality(Pending(n)') <= Made(n)'
  BY DEF CopyPerAttempt, CopiesInv
<1>1. Copies(n)' \subseteq Copies(n) /\ Pending(n)' \subseteq Pending(n)
  BY DEF Copies, Pending
<1>2. /\ Cardinality(Copies(n)') <= Cardinality(Copies(n)) /\ Cardinality(Copies(n)') \in Nat
      /\ Cardinality(Pending(n)') <= Cardinality(Pending(n)) /\ Cardinality(Pending(n)') \in Nat
  BY <1>1, CopiesAreFinite, FS_Subset, FS_CardinalityType DEF CopiesInv
<1>3. Made(n)' = Made(n) /\ Made(n) \in Nat
  BY IngestAssumption DEF Made, CopiesInv, PathTypes
<1>4. Cardinality(Copies(n)) + Cardinality(Pending(n)) <= Made(n)
  BY DEF CopiesInv, CopyPerAttempt
<1> QED  BY <1>2, <1>3, <1>4, CopiesAreFinite DEF CopiesInv

LEMMA StepIsNat ==
    ASSUME NEW t \in Nat, lastTs \in Nat
    PROVE  Step(t) \in Nat
BY IngestAssumption DEF Step

LEMMA FeedCopies ==
    ASSUME CopiesInv, NEW r \in net, NEW outcome \in Results, Feed(r, outcome)
    PROVE  CopiesInv'
<1>1. /\ log' = Append(log, r.frame) /\ net' = net \ {r} /\ frame' = frame
      /\ ts' = ts /\ attempt' = attempt /\ agent' = agent
      /\ lastTs' = ts[r.frame] /\ clock' = clock + Step(ts[r.frame])
  BY DEF Feed, Answered, edgeVars
<1>2. r.frame \in 1..frame /\ ts[r.frame] \in Nat
  BY DEF CopiesInv, PathTypes
<1>3. PathTypes'
  <2>1. IsFiniteSet(net')  BY <1>1, FS_RemoveElement DEF CopiesInv, PathTypes
  <2>2. clock' \in Nat /\ lastTs' \in Nat
    <3>1. lastTs \in Nat /\ clock \in Nat  BY DEF CopiesInv, PathTypes
    <3>2. Step(ts[r.frame]) \in Nat  BY <1>2, <3>1, StepIsNat
    <3> QED  BY <1>1, <1>2, <3>1, <3>2
  <2>3. log' \in Seq(1..frame')  BY <1>1, <1>2 DEF CopiesInv, PathTypes
  <2>4. answer' \in Results \union {"none"}
    BY DEF Feed, Answered, CopiesInv, PathTypes
  <2> QED  BY <1>1, <2>1, <2>2, <2>3, <2>4 DEF CopiesInv, PathTypes
<1>4. AttemptsBounded'
  BY <1>1 DEF CopiesInv, AttemptsBounded
<1>5. CopyPerAttempt'
  <2> SUFFICES ASSUME NEW n \in 1..frame
               PROVE  Cardinality(Copies(n)') + Cardinality(Pending(n)') <= Made(n)'
    BY <1>1 DEF CopyPerAttempt
  <2>1. Cardinality(Copies(n)) + Cardinality(Pending(n)) <= Made(n)
    BY DEF CopiesInv, CopyPerAttempt
  <2>2. Made(n)' = Made(n)  BY <1>1 DEF Made
  <2>3. log \in Seq(1..frame) /\ Len(log') = Len(log) + 1 /\ Len(log) \in Nat
    BY <1>1, <1>2 DEF CopiesInv, PathTypes
  <2>4. \A i \in 1..Len(log) : log'[i] = log[i]
    BY <1>1, <2>3
  <2>5. log'[Len(log) + 1] = r.frame  BY <1>1, <2>3
  <2>6. DOMAIN log = 1..Len(log) /\ DOMAIN log' = 1..(Len(log) + 1)
    BY <1>1, <2>3
  <2>7. CASE n = r.frame
    <3>1. Copies(n)' = Copies(n) \union {Len(log) + 1}
      BY <2>3, <2>4, <2>5, <2>6, <2>7 DEF Copies
    <3>2. Pending(n)' = Pending(n) \ {r} /\ r \in Pending(n)
      BY <1>1, <2>7 DEF Pending
    <3>3. Cardinality(Pending(n)') = Cardinality(Pending(n)) - 1
      BY <3>2, CopiesAreFinite, FS_RemoveElement DEF CopiesInv
    <3>4. Cardinality(Copies(n)') \in Nat /\ Cardinality(Copies(n)') <= Cardinality(Copies(n)) + 1
      BY <3>1, AddsAtMostOne, CopiesAreFinite DEF CopiesInv
    <3>5. Made(n) \in Nat  BY IngestAssumption DEF Made, CopiesInv, PathTypes
    <3> QED  BY <2>1, <2>2, <3>3, <3>4, <3>5, CopiesAreFinite DEF CopiesInv
  <2>8. CASE n # r.frame
    <3>1. Copies(n)' = Copies(n)
      BY <2>3, <2>4, <2>5, <2>6, <2>8 DEF Copies
    <3>2. Pending(n)' = Pending(n)  BY <1>1, <2>8 DEF Pending
    <3> QED  BY <2>1, <2>2, <3>1, <3>2
  <2> QED  BY <2>7, <2>8
<1> QED  BY <1>3, <1>4, <1>5 DEF CopiesInv

LEMMA RetryBounded ==
    ASSUME CopiesInv, RetryOrGiveUp, attempt' = attempt, agent = "waiting"
    PROVE  AttemptsBounded' /\ agent' \in {"idle", "sending"}
<1>1. (attempt <= MaxRetries /\ agent' = "sending") \/ agent' = "idle"
  BY DEF RetryOrGiveUp, Finish
<1>2. attempt' <= MaxRetries + 1
  BY DEF CopiesInv, AttemptsBounded
<1>3. agent' = "sending" => attempt' <= MaxRetries
  BY <1>1
<1>4. agent' \in {"idle", "sending"}
  BY <1>1
<1> QED  BY <1>2, <1>3, <1>4 DEF AttemptsBounded

LEMMA CopiesStepInv == CopiesInv /\ [PathNext]_pathVars => CopiesInv'
<1> SUFFICES ASSUME CopiesInv, [PathNext]_pathVars PROVE CopiesInv'  OBVIOUS
<1>1. ASSUME NEW gap \in Gaps, NextFrame(gap) PROVE CopiesInv'
  BY <1>1, NextFrameCopies
<1>2. CASE Post
  BY <1>2, PostCopies
<1>3. CASE Receive \/ Timeout
  <2>1. /\ agent = "waiting" /\ net' = net /\ log' = log /\ frame' = frame /\ ts' = ts
        /\ attempt' = attempt /\ lastTs' = lastTs /\ clock' = clock /\ answer' = "none"
    BY <1>3 DEF Receive, Timeout, serverVars
  <2>2. AttemptsBounded' /\ agent' \in {"idle", "sending"}
    <3>1. CASE RetryOrGiveUp
      BY <2>1, <3>1, RetryBounded
    <3>2. CASE Finish("ok") \/ Finish("fail")
      BY <2>1, <3>2 DEF Finish, CopiesInv, AttemptsBounded
    <3> QED  BY <1>3, <3>1, <3>2 DEF Receive, Timeout, CopiesInv, PathTypes, Results
  <2>3. PathTypes'
    BY <2>1, <2>2 DEF CopiesInv, PathTypes
  <2> QED  BY <2>1, <2>2, <2>3, NoNewCopy
<1>4. ASSUME NEW r \in net, NEW outcome \in Results, Feed(r, outcome) PROVE CopiesInv'
  BY <1>4, FeedCopies
<1>5. ASSUME NEW r \in net, NEW outcome \in Results, Refuse(r, outcome) PROVE CopiesInv'
  <2>1. /\ net' = net \ {r} /\ log' = log /\ frame' = frame /\ ts' = ts /\ agent' = agent
        /\ attempt' = attempt /\ lastTs' = lastTs /\ clock' = clock
    BY <1>5 DEF Refuse, Answered, edgeVars, serverVars
  <2>2. PathTypes' /\ AttemptsBounded'
    <3>1. answer' \in Results \union {"none"}
      BY <1>5 DEF Refuse, Answered, CopiesInv, PathTypes
    <3>2. IsFiniteSet(net')
      BY <2>1, FS_RemoveElement DEF CopiesInv, PathTypes
    <3> QED  BY <2>1, <3>1, <3>2 DEF CopiesInv, PathTypes, AttemptsBounded
  <2> QED  BY <2>1, <2>2, NoNewCopy
<1>6. CASE Restart
  <2>1. /\ net' = net /\ log' = <<>> /\ frame' = frame /\ ts' = ts /\ agent' = agent
        /\ attempt' = attempt /\ lastTs' = 0 /\ clock' = 0 /\ answer' = answer
    BY <1>6 DEF Restart, edgeVars, netVars
  <2>2. PathTypes' /\ AttemptsBounded'
    BY <2>1 DEF CopiesInv, PathTypes, AttemptsBounded
  <2> QED  BY <2>1, <2>2, NoNewCopy
<1>7. CASE Done \/ UNCHANGED pathVars
  <2>1. UNCHANGED pathVars  BY <1>7 DEF Done
  <2>2. PathTypes' /\ AttemptsBounded'
    BY <2>1 DEF pathVars, edgeVars, netVars, serverVars, CopiesInv, PathTypes, AttemptsBounded
  <2> QED  BY <2>1, <2>2, NoNewCopy DEF pathVars, edgeVars, netVars, serverVars
<1> QED  BY <1>1, <1>2, <1>3, <1>4, <1>5, <1>6, <1>7 DEF PathNext, Edge, Backend

LEMMA CopiesInvHolds == PathSpec => []CopiesInv
BY CopiesInitInv, CopiesStepInv, PTL DEF PathSpec

(* However many answers are lost, delayed or overtaken, the machine of a    *)
(* stream is fed a frame at most once per attempt that tenacity may make.   *)
THEOREM FedOncePerAttempt == PathSpec => []FedAtMostPerAttempt
<1>1. CopiesInv => FedAtMostPerAttempt
  <2> SUFFICES ASSUME CopiesInv, NEW n \in Frames
               PROVE  Cardinality(Copies(n)) <= MaxRetries + 1
    BY DEF FedAtMostPerAttempt, Copies
  <2>1. MaxRetries \in Nat  BY IngestAssumption
  <2>2. CASE n \in 1..frame
    <3>1. Made(n) <= MaxRetries + 1 /\ Made(n) \in Nat
      BY <2>1 DEF Made, CopiesInv, AttemptsBounded, PathTypes
    <3>2. Cardinality(Copies(n)) + Cardinality(Pending(n)) <= Made(n)
      BY <2>2 DEF CopiesInv, CopyPerAttempt
    <3> QED  BY <2>1, <3>1, <3>2, CopiesAreFinite DEF CopiesInv
  <2>3. CASE n \notin 1..frame
    <3>1. Copies(n) = {}  BY <2>3 DEF Copies, CopiesInv, PathTypes
    <3> QED  BY <2>1, <3>1, FS_EmptySet
  <2> QED  BY <2>2, <2>3
<1> QED  BY <1>1, CopiesInvHolds, PTL

(* The steps the agent can still make for its frame: a POST and its end for *)
(* each attempt that tenacity has left.                                     *)
EffortLeft ==
    CASE agent = "sending" -> 2 * (MaxRetries + 1 - attempt)
      [] agent = "waiting" -> 2 * (MaxRetries + 1 - attempt) + 1
      [] agent = "idle"    -> 0

(* While the agent has a frame, its own steps use the effort up, and        *)
(* nothing the backend or the network does gives any back.                  *)
EffortIsSpent ==
    [][agent # "idle" =>
          IF Edge THEN EffortLeft' < EffortLeft ELSE EffortLeft' = EffortLeft]_pathVars

LEMMA EffortIsNat ==
    ASSUME CopiesInv
    PROVE  EffortLeft \in Nat /\ (EffortLeft = 0 <=> agent = "idle")
<1>1. /\ agent \in {"idle", "sending", "waiting"}
      /\ attempt \in Nat /\ MaxRetries \in Nat /\ attempt <= MaxRetries + 1
      /\ agent = "sending" => attempt <= MaxRetries
  BY IngestAssumption DEF CopiesInv, PathTypes, AttemptsBounded
<1>2. CASE agent = "idle"     BY <1>2 DEF EffortLeft
<1>3. CASE agent = "sending"  BY <1>1, <1>3 DEF EffortLeft
<1>4. CASE agent = "waiting"  BY <1>1, <1>4 DEF EffortLeft
<1> QED  BY <1>1, <1>2, <1>3, <1>4

LEMMA EdgeSpends ==
    ASSUME CopiesInv, agent # "idle", Edge
    PROVE  EffortLeft' < EffortLeft
<1>1. attempt \in Nat /\ MaxRetries \in Nat /\ CopiesInv'
  <2>1. [PathNext]_pathVars  BY DEF PathNext
  <2> QED  BY <2>1, CopiesStepInv, IngestAssumption DEF CopiesInv, PathTypes
<1>2. CASE Post
  <2>1. /\ agent = "sending" /\ agent' = "waiting" /\ attempt' = attempt + 1
    BY <1>2 DEF Post
  <2>2. EffortLeft = 2 * (MaxRetries + 1 - attempt)
    BY <2>1 DEF EffortLeft
  <2>3. EffortLeft' = 2 * (MaxRetries + 1 - attempt') + 1
    BY <2>1 DEF EffortLeft
  <2> QED  BY <1>1, <2>1, <2>2, <2>3
<1>3. CASE Receive \/ Timeout
  <2>1. agent = "waiting" /\ attempt' = attempt /\ agent' \in {"sending", "idle"}
    <3>1. CASE Timeout
      BY <3>1 DEF Timeout, RetryOrGiveUp, Finish
    <3>2. CASE Receive
      <4>1. answer \in Results  BY <3>2 DEF Receive, CopiesInv, PathTypes
      <4> QED  BY <3>2, <4>1 DEF Receive, RetryOrGiveUp, Finish, Results
    <3> QED  BY <1>3, <3>1, <3>2
  <2>2. EffortLeft = 2 * (MaxRetries + 1 - attempt) + 1
    BY <2>1 DEF EffortLeft
  <2>3. CASE agent' = "sending"
    <3>1. EffortLeft' = 2 * (MaxRetries + 1 - attempt)
      BY <2>1, <2>3 DEF EffortLeft
    <3> QED  BY <1>1, <2>2, <3>1
  <2>4. CASE agent' = "idle"
    <3>1. EffortLeft' = 0  BY <2>4 DEF EffortLeft
    <3>2. EffortLeft \in Nat /\ EffortLeft # 0  BY <2>1, EffortIsNat
    <3> QED  BY <3>1, <3>2
  <2> QED  BY <2>1, <2>3, <2>4
<1> QED  BY <1>2, <1>3 DEF Edge, NextFrame

(* For any policy of retries and any loss of answers, an upload runs down   *)
(* to its end: at most 2 * (max_retries + 1) steps of the agent.  That the  *)
(* agent makes them is the fairness UploadEnds assumes.                     *)
THEOREM UploadsRunDown ==
    PathSpec => [](EffortLeft \in Nat /\ (EffortLeft = 0 <=> agent = "idle")) /\ EffortIsSpent
<1>1. CopiesInv => EffortLeft \in Nat /\ (EffortLeft = 0 <=> agent = "idle")
  BY EffortIsNat
<1>2. CopiesInv /\ [PathNext]_pathVars =>
         [agent # "idle" =>
             IF Edge THEN EffortLeft' < EffortLeft ELSE EffortLeft' = EffortLeft]_pathVars
  <2> SUFFICES ASSUME CopiesInv, PathNext, agent # "idle", ~Edge
               PROVE  EffortLeft' = EffortLeft
    BY EdgeSpends
  <2>1. agent' = agent /\ attempt' = attempt
    BY DEF PathNext, Backend, Feed, Refuse, Restart, Done, edgeVars, pathVars
  <2> QED  BY <2>1 DEF EffortLeft
<1> QED  BY <1>1, <1>2, CopiesInvHolds, PTL DEF PathSpec, EffortIsSpent

-----------------------------------------------------------------------------
(* The clock of the machine is not exact by its own value: each step has to *)
(* know that the service compares with the frame fed last, and that frames  *)
(* come out of the agent with rising time stamps.                           *)
Rising == \A i, j \in 1..frame : i < j => ts[i] < ts[j]

LastIsFedLast ==
    IF log = <<>> THEN lastTs = 0 /\ clock = 0 ELSE lastTs = ts[log[Len(log)]]

ClockInv == CopiesInv /\ Rising /\ LastIsFedLast /\ OrderedClockIsExact

LEMMA ElementOfSeq ==
    ASSUME NEW S, NEW s \in Seq(S), NEW i \in 1..Len(s) PROVE s[i] \in S
BY SMT

LEMMA FedIsFinite ==
    ASSUME PathTypes
    PROVE  IsFiniteSet(Fed) /\ Cardinality(Fed) \in Nat
<1>1. Fed \subseteq 1..frame  BY DEF Fed, PathTypes
<1>2. IsFiniteSet(1..frame)  BY FS_Interval DEF PathTypes
<1> QED  BY <1>1, <1>2, FS_Subset, FS_CardinalityType

LEMMA ClockInitInv == PathInit => ClockInv
BY CopiesInitInv DEF PathInit, ClockInv, Rising, LastIsFedLast, OrderedClockIsExact

(* A step of the edge adds time stamps at most. *)
LEMMA ClockKept ==
    ASSUME ClockInv, CopiesInv', Rising', log' = log, lastTs' = lastTs, clock' = clock,
           \A n \in 1..frame : ts'[n] = ts[n]
    PROVE  ClockInv'
<1>1. log \in Seq(1..frame) /\ Len(log) \in Nat
  BY DEF ClockInv, CopiesInv, PathTypes
<1>2. \A i \in 1..Len(log) : log[i] \in 1..frame
  BY <1>1, ElementOfSeq
<1>3. LastIsFedLast'
  <2>1. log # <<>> => Len(log) \in 1..Len(log)  BY <1>1
  <2> QED  BY <1>2, <2>1 DEF ClockInv, LastIsFedLast
<1>4. OrderedClockIsExact'
  <2> SUFFICES ASSUME log # <<>>, InOrder,
                      \A i \in 2..Len(log) : ts'[log[i]] - ts'[log[i - 1]] \in {0} \union MinStep..MaxStep
               PROVE  clock = (lastTs - ts'[log[1]]) + DefaultStep * (1 + Repeats)
    BY DEF OrderedClockIsExact, InOrder, Repeats, Fed
  <2>1. \A i \in 2..Len(log) : i \in 1..Len(log) /\ i - 1 \in 1..Len(log)
    BY <1>1
  <2>2. \A i \in 2..Len(log) : ts[log[i]] - ts[log[i - 1]] \in {0} \union MinStep..MaxStep
    BY <1>2, <2>1
  <2>3. 1 \in 1..Len(log)  BY <1>1
  <2> QED  BY <1>2, <2>2, <2>3 DEF ClockInv, OrderedClockIsExact
<1> QED  BY <1>3, <1>4 DEF ClockInv

LEMMA FeedClock ==
    ASSUME ClockInv, CopiesInv', NEW r \in net, NEW outcome \in Results, Feed(r, outcome)
    PROVE  ClockInv'
<1> DEFINE f == r.frame
           n == Len(log)
<1>1. /\ log' = Append(log, f) /\ frame' = frame /\ ts' = ts
      /\ lastTs' = ts[f] /\ clock' = clock + Step(ts[f])
  BY DEF Feed, edgeVars
<1>2. /\ log \in Seq(1..frame) /\ n \in Nat /\ frame \in Nat
      /\ PathTypes /\ lastTs \in Nat /\ clock \in Nat
  BY DEF ClockInv, CopiesInv, PathTypes
<1>3. /\ f \in 1..frame
      /\ \A i \in 1..frame : ts[i] \in Nat \ {0}
  <2>1. ts \in Seq(Nat \ {0}) /\ Len(ts) = frame
    BY DEF ClockInv, CopiesInv, PathTypes
  <2>2. f \in 1..frame
    BY DEF ClockInv, CopiesInv, PathTypes
  <2> QED  BY <2>1, <2>2, ElementOfSeq
<1>4. /\ Len(log') = n + 1 /\ log'[n + 1] = f
      /\ \A i \in 1..n : log'[i] = log[i] /\ log[i] \in 1..frame
  BY <1>1, <1>2, <1>3
<1>5. DOMAIN log = 1..n /\ DOMAIN log' = 1..(n + 1)
  BY <1>1, <1>2, <1>3
<1>6. Rising' /\ LastIsFedLast'
  BY <1>1, <1>2, <1>3, <1>4 DEF ClockInv, Rising, LastIsFedLast
<1>7. OrderedClockIsExact'
  <2> SUFFICES ASSUME InOrder',
                      \A i \in 2..(n + 1) : ts[log'[i]] - ts[log'[i - 1]] \in {0} \union MinStep..MaxStep
               PROVE  clock' = (lastTs' - ts[log'[1]]) + DefaultStep * (1 + Repeats')
    BY <1>1, <1>4 DEF OrderedClockIsExact
  <2>1. Fed' = Fed \union {f}
    <3>1. Fed' = {log'[i] : i \in 1..(n + 1)} /\ Fed = {log[i] : i \in 1..n}
      BY <1>5 DEF Fed
    <3>2. 1..(n + 1) = (1..n) \union {n + 1}  BY <1>2
    <3> QED  BY <1>4, <3>1, <3>2
  <2>2. Repeats' = (n + 1) - Cardinality(Fed \union {f})
    BY <1>4, <2>1 DEF Repeats
  <2>3. CASE log = <<>>
    <3>1. n = 0 /\ Fed = {} /\ lastTs = 0 /\ clock = 0
      BY <2>3 DEF ClockInv, LastIsFedLast, Fed
    <3>2. Repeats' = 0
      <4>1. Fed \union {f} = {f}  BY <3>1
      <4>2. Cardinality({f}) = 1  BY FS_Singleton
      <4> QED  BY <2>2, <3>1, <4>1, <4>2
    <3>3. Step(ts[f]) = DefaultStep  BY <3>1 DEF Step
    <3>4. log'[1] = f  BY <1>4, <3>1
    <3> QED  BY <1>1, <1>3, <3>1, <3>2, <3>3, <3>4, IngestAssumption
  <2>4. CASE log # <<>>
    <3>1. n >= 1 /\ lastTs = ts[log[n]] /\ log[n] \in 1..frame /\ log'[1] = log[1] /\ log[1] \in 1..frame
      BY <1>2, <1>4, <2>4 DEF ClockInv, LastIsFedLast
    <3>2. \A i \in 1..n : log[i] <= f
      <4>1. \A i \in 1..n : i \in DOMAIN log' /\ n + 1 \in DOMAIN log' /\ i < n + 1
        BY <1>2, <1>5
      <4>2. \A i \in 1..n : log'[i] <= log'[n + 1]
        BY <4>1 DEF InOrder
      <4> QED  BY <1>4, <4>2
    <3>3. InOrder /\ \A i \in 1..n : log[i] <= log[n]
      <4>1. \A i, j \in 1..n : i < j => log'[i] <= log'[j]
        BY <1>5, <1>2 DEF InOrder
      <4>2. \A i, j \in 1..n : i < j => log[i] <= log[j]
        BY <1>4, <4>1
      <4>3. n \in 1..n  BY <1>2, <3>1
      <4> QED  BY <1>2, <1>4, <1>5, <4>2, <4>3 DEF InOrder
    <3>4. clock = (lastTs - ts[log[1]]) + DefaultStep * (1 + Repeats)
      <4>1. \A i \in 2..n : i \in 2..(n + 1) /\ i \in 1..n /\ i - 1 \in 1..n
        BY <1>2
      <4>2. \A i \in 2..n : ts[log[i]] - ts[log[i - 1]] \in {0} \union MinStep..MaxStep
        BY <1>4, <4>1
      <4> QED  BY <2>4, <3>3, <4>2 DEF ClockInv, OrderedClockIsExact
    <3>5. ts[f] - lastTs \in {0} \union MinStep..MaxStep
      <4>1. n + 1 \in 2..(n + 1) /\ n \in 1..n /\ (n + 1) - 1 = n
        BY <1>2, <3>1
      <4>2. ts[log'[n + 1]] - ts[log'[n]] \in {0} \union MinStep..MaxStep
        BY <4>1
      <4> QED  BY <1>4, <3>1, <4>1, <4>2
    <3>6. IsFiniteSet(Fed) /\ Cardinality(Fed) \in Nat /\ Repeats \in Int /\ DefaultStep \in Int
      BY <1>2, FedIsFinite, IngestAssumption DEF Repeats
    <3>7. ts[f] \in Int /\ ts[log[1]] \in Int /\ lastTs \in Int /\ lastTs # 0
      BY <1>3, <3>1
    <3>8. CASE f = log[n]
      <4>1. f \in Fed
        <5>1. n \in DOMAIN log  BY <1>2, <1>5, <3>1
        <5> QED  BY <3>8, <5>1 DEF Fed
      <4>2. Repeats' = Repeats + 1
        <5>1. Fed \union {f} = Fed  BY <4>1
        <5>2. Repeats' = (n + 1) - Cardinality(Fed)  BY <2>2, <5>1
        <5>3. Repeats = n - Cardinality(Fed)  BY DEF Repeats
        <5> QED  BY <1>2, <3>6, <5>2, <5>3
      <4>3. Step(ts[f]) = DefaultStep
        BY <3>1, <3>7, <3>8 DEF Step
      <4>4. DefaultStep * (1 + (Repeats + 1)) = DefaultStep * (1 + Repeats) + DefaultStep
        BY <3>6
      <4>5. DefaultStep * (1 + Repeats) \in Int  BY <3>6
      <4>6. /\ clock' = clock + DefaultStep /\ lastTs' = ts[f] /\ lastTs = ts[f]
            /\ log'[1] = log[1]
        BY <1>1, <3>1, <3>8, <4>3
      <4>7. clock' = (lastTs - ts[log[1]]) + DefaultStep * (1 + (Repeats + 1))
        BY <3>4, <3>6, <3>7, <4>4, <4>5, <4>6
      <4> QED  BY <4>2, <4>6, <4>7
    <3>9. CASE f # log[n]
      <4>1. log[n] < f
        BY <1>2, <1>3, <3>1, <3>2, <3>9
      <4>2. f \notin Fed
        BY <1>2, <1>3, <1>4, <1>5, <3>1, <3>3, <4>1 DEF Fed
      <4>3. Repeats' = Repeats
        <5>1. Cardinality(Fed \union {f}) = Cardinality(Fed) + 1
          BY <3>6, <4>2, FS_AddElement
        <5> QED  BY <1>2, <2>2, <3>6, <5>1 DEF Repeats
      <4>4. lastTs < ts[f]
        BY <1>3, <3>1, <4>1 DEF ClockInv, Rising
      <4>5. Step(ts[f]) = ts[f] - lastTs
        BY <3>5, <3>7, <4>4, IngestAssumption DEF Step
      <4>6. DefaultStep * (1 + Repeats) \in Int  BY <3>6
      <4>7. clock' = clock + (ts[f] - lastTs) /\ lastTs' = ts[f] /\ log'[1] = log[1]
        BY <1>1, <3>1, <4>5
      <4>8. clock' = (ts[f] - ts[log[1]]) + DefaultStep * (1 + Repeats)
        BY <3>4, <3>7, <4>6, <4>7
      <4> QED  BY <4>3, <4>7, <4>8
    <3> QED  BY <3>8, <3>9
  <2> QED  BY <2>3, <2>4
<1> QED  BY <1>6, <1>7 DEF ClockInv

LEMMA ClockStepInv == ClockInv /\ [PathNext]_pathVars => ClockInv'
<1> SUFFICES ASSUME ClockInv, [PathNext]_pathVars PROVE ClockInv'  OBVIOUS
<1>0. CopiesInv' /\ CopiesInv /\ Rising /\ MaxRetries \in Nat
  BY CopiesStepInv, IngestAssumption DEF ClockInv
<1>1. ASSUME NEW gap \in Gaps, NextFrame(gap) PROVE ClockInv'
  <2>1. /\ frame' = frame + 1 /\ log' = log /\ lastTs' = lastTs /\ clock' = clock
        /\ ts' = Append(ts, IF ts = <<>> THEN gap ELSE ts[frame] + gap)
    BY <1>1 DEF NextFrame, serverVars
  <2>2. ts \in Seq(Nat \ {0}) /\ Len(ts) = frame /\ frame \in Nat /\ gap \in Nat \ {0}
    BY <1>0, IngestAssumption DEF CopiesInv, PathTypes
  <2>3. \A i \in 1..frame : ts'[i] = ts[i] /\ ts[i] \in Nat
    BY <2>1, <2>2
  <2>4. frame # 0 => ts'[frame'] = ts[frame] + gap
    <3> SUFFICES ASSUME frame # 0 PROVE ts'[frame'] = ts[frame] + gap  OBVIOUS
    <3>1. ts # <<>>  BY <2>2
    <3> QED  BY <2>1, <2>2, <3>1
  <2>5. Rising'
    <3> SUFFICES ASSUME NEW i \in 1..frame', NEW j \in 1..frame', i < j
                 PROVE  ts'[i] < ts'[j]
      BY DEF Rising
    <3>1. CASE j = frame'
      <4>1. i \in 1..frame /\ frame \in 1..frame  BY <2>1, <2>2, <3>1
      <4>2. ts[i] <= ts[frame]  BY <1>0, <2>2, <2>3, <4>1 DEF Rising
      <4> QED  BY <2>2, <2>3, <2>4, <3>1, <4>1, <4>2
    <3>2. CASE j # frame'
      <4>1. i \in 1..frame /\ j \in 1..frame  BY <2>1, <2>2, <3>2
      <4> QED  BY <1>0, <2>3, <4>1 DEF Rising
    <3> QED  BY <3>1, <3>2
  <2> QED  BY <1>0, <2>1, <2>3, <2>5, ClockKept
<1>2. ASSUME NEW r \in net, NEW outcome \in Results, Feed(r, outcome) PROVE ClockInv'
  BY <1>0, <1>2, FeedClock
<1>3. CASE Restart
  BY <1>0, <1>3 DEF Restart, edgeVars, ClockInv, Rising, LastIsFedLast, OrderedClockIsExact
<1>4. ASSUME UNCHANGED <<frame, ts, serverVars>> PROVE ClockInv'
  BY <1>0, <1>4, ClockKept DEF serverVars, Rising
<1> QED
  BY <1>1, <1>2, <1>3, <1>4
     DEF PathNext, Edge, Backend, Done, Post, Receive, Timeout, Refuse,
         pathVars, edgeVars, netVars, serverVars

(* On frames that come in order and with gaps the service does not clamp,   *)
(* the machine's clock is the time that has passed between them, with one   *)
(* default step for the first and for every repeated frame.                 *)
THEOREM ClockIsExactInOrder == PathSpec => []OrderedClockIsExact
<1>1. ClockInv => OrderedClockIsExact  BY DEF ClockInv
<1> QED  BY <1>1, ClockInitInv, ClockStepInv, PTL DEF PathSpec

-----------------------------------------------------------------------------
(* The requests of one stream.  The event and the row of a request are in   *)
(* the database together or not at all.  It is inductive with one more      *)
(* fact: a request that has not been ingested has moved nothing.            *)

RouterTypes ==
    /\ phase \in [Requests -> {"new", "ingested", "read", "committed", "publishing", "done", "failed"}]
    /\ targets \in [Requests -> SUBSET Sockets]
    /\ stored \subseteq Requests /\ moved \subseteq Requests /\ subs \subseteq Sockets

(* Only an ingested request has moved the machine. *)
NewHasNotMoved == \A r \in Requests : phase[r] = "new" => r \notin moved

(* Something is left to send to only while a request is publishing. *)
TargetsOfPublishing == \A r \in Requests : targets[r] # {} => phase[r] = "publishing"

RouterInv == RouterTypes /\ NewHasNotMoved /\ TargetsOfPublishing /\ StoredWithTheRow

LEMMA RouterInitInv == Init => RouterInv
BY DEF Init, RouterInv, RouterTypes, NewHasNotMoved, TargetsOfPublishing, StoredWithTheRow

(* A step of one request that stores nothing and stays before or after the  *)
(* commit, or fails before it.                                              *)
LEMMA KeptApart ==
    ASSUME RouterInv, NEW r \in Requests, stored' = stored, moved' = moved,
           NEW q \in {"ingested", "read", "committed", "publishing", "done", "failed"},
           phase' = [phase EXCEPT ![r] = q],
           phase[r] # "new",
           phase[r] \in {"committed", "publishing", "done"} <=> q \in {"committed", "publishing", "done"},
           targets' \in [Requests -> SUBSET Sockets], subs' \subseteq Sockets,
           \A s \in Requests : targets'[s] # {} => phase'[s] = "publishing"
    PROVE  RouterInv'
<1>1. RouterTypes'  BY DEF RouterInv, RouterTypes
<1>2. NewHasNotMoved'  BY DEF RouterInv, RouterTypes, NewHasNotMoved
<1>3. StoredWithTheRow'
  <2> SUFFICES ASSUME NEW s \in Requests
               PROVE  s \in stored' <=> s \in moved' /\ phase'[s] \in {"committed", "publishing", "done"}
    BY DEF StoredWithTheRow
  <2>1. CASE s = r  BY <2>1 DEF RouterInv, RouterTypes, StoredWithTheRow
  <2>2. CASE s # r  BY <2>2 DEF RouterInv, RouterTypes, StoredWithTheRow
  <2> QED  BY <2>1, <2>2
<1> QED  BY <1>1, <1>2, <1>3 DEF RouterInv, TargetsOfPublishing

LEMMA IngestInv ==
    ASSUME RouterInv, NEW r \in Requests, NEW v \in Values, Ingest(r, v)
    PROVE  RouterInv'
<1>1. /\ phase[r] = "new" /\ phase' = [phase EXCEPT ![r] = "ingested"]
      /\ moved' = moved \/ moved' = moved \union {r}
      /\ stored' = stored /\ targets' = targets /\ subs' = subs
  BY DEF Ingest, hubVars
<1>2. RouterTypes'  BY <1>1 DEF RouterInv, RouterTypes
<1>3. NewHasNotMoved' /\ TargetsOfPublishing'
  BY <1>1 DEF RouterInv, RouterTypes, NewHasNotMoved, TargetsOfPublishing
<1>4. r \notin stored  BY <1>1 DEF RouterInv, StoredWithTheRow
<1>5. StoredWithTheRow'
  <2> SUFFICES ASSUME NEW s \in Requests
               PROVE  s \in stored' <=> s \in moved' /\ phase'[s] \in {"committed", "publishing", "done"}
    BY DEF StoredWithTheRow
  <2>1. CASE s = r  BY <1>1, <1>4, <2>1 DEF RouterInv, RouterTypes
  <2>2. CASE s # r  BY <1>1, <2>2 DEF RouterInv, RouterTypes, StoredWithTheRow
  <2> QED  BY <2>1, <2>2
<1> QED  BY <1>2, <1>3, <1>5 DEF RouterInv

LEMMA CommitInv ==
    ASSUME RouterInv, NEW r \in Requests, Commit(r)
    PROVE  RouterInv'
<1>1. /\ phase[r] = "read" /\ phase' = [phase EXCEPT ![r] = "committed"]
      /\ stored' = stored \union ({r} \intersect moved)
      /\ moved' = moved /\ targets' = targets /\ subs' = subs
  BY DEF Commit, hubVars
<1>2. RouterTypes'  BY <1>1 DEF RouterInv, RouterTypes
<1>3. NewHasNotMoved' /\ TargetsOfPublishing'
  BY <1>1 DEF RouterInv, RouterTypes, NewHasNotMoved, TargetsOfPublishing
<1>4. r \notin stored  BY <1>1 DEF RouterInv, StoredWithTheRow
<1>5. StoredWithTheRow'
  <2> SUFFICES ASSUME NEW s \in Requests
               PROVE  s \in stored' <=> s \in moved' /\ phase'[s] \in {"committed", "publishing", "done"}
    BY DEF StoredWithTheRow
  <2>1. CASE s = r  BY <1>1, <1>4, <2>1 DEF RouterInv, RouterTypes
  <2>2. CASE s # r  BY <1>1, <2>2 DEF RouterInv, RouterTypes, StoredWithTheRow
  <2> QED  BY <2>1, <2>2
<1> QED  BY <1>2, <1>3, <1>5 DEF RouterInv

(* After a publish has sent to all but the sockets left. *)
LEMMA PublishingInv ==
    ASSUME RouterInv, NEW r \in Requests, NEW left \in SUBSET Sockets,
           phase[r] \in {"committed", "publishing"},
           targets' = [targets EXCEPT ![r] = left], OnOrOver(r, left),
           stored' = stored, moved' = moved, subs' \subseteq Sockets
    PROVE  RouterInv'
<1>1. phase' = [phase EXCEPT ![r] = IF left = {} THEN "done" ELSE "publishing"]
  BY DEF OnOrOver, Over
<1>2. targets' \in [Requests -> SUBSET Sockets]
  BY DEF RouterInv, RouterTypes
<1>3. \A s \in Requests : targets'[s] # {} => phase'[s] = "publishing"
  BY <1>1 DEF RouterInv, RouterTypes, TargetsOfPublishing
<1> QED  BY <1>1, <1>2, <1>3, KeptApart

LEMMA RouterStepInv == RouterInv /\ [Next]_vars => RouterInv'
<1> SUFFICES ASSUME RouterInv, [Next]_vars PROVE RouterInv'  OBVIOUS
<1>1. /\ RouterTypes /\ targets \in [Requests -> SUBSET Sockets]
      /\ \A r \in Requests : targets[r] # {} => phase[r] = "publishing"
  BY DEF RouterInv, RouterTypes, TargetsOfPublishing
<1>2. ASSUME NEW r \in Requests, NEW v \in Values, Ingest(r, v) PROVE RouterInv'
  BY <1>2, IngestInv
<1>3. ASSUME NEW r \in Requests, Read(r) PROVE RouterInv'
  <2>1. /\ phase[r] = "ingested" /\ phase' = [phase EXCEPT ![r] = "read"]
        /\ stored' = stored /\ moved' = moved /\ targets' = targets /\ subs' = subs
    BY <1>3 DEF Read, hubVars
  <2>2. \A s \in Requests : targets'[s] # {} => phase'[s] = "publishing"
    BY <1>1, <2>1 DEF RouterTypes
  <2> QED  BY <1>1, <2>1, <2>2, KeptApart DEF RouterTypes
<1>4. ASSUME NEW r \in Requests, Commit(r) PROVE RouterInv'
  BY <1>4, CommitInv
<1>5. ASSUME NEW r \in Requests, Fail(r) PROVE RouterInv'
  <2>1. /\ phase[r] \in {"ingested", "read"} /\ phase' = [phase EXCEPT ![r] = "failed"]
        /\ stored' = stored /\ moved' = moved /\ targets' = targets /\ subs' = subs
    BY <1>5 DEF Fail, Over, hubVars
  <2>2. \A s \in Requests : targets'[s] # {} => phase'[s] = "publishing"
    BY <1>1, <2>1 DEF RouterTypes
  <2> QED  BY <1>1, <2>1, <2>2, KeptApart DEF RouterTypes
<1>6. ASSUME NEW r \in Requests, Publish(r) PROVE RouterInv'
  BY <1>6, PublishingInv DEF Publish, RouterInv, RouterTypes
<1>7. ASSUME NEW r \in Requests, NEW ws \in Sockets, Send(r, ws) PROVE RouterInv'
  <2>1. phase[r] = "publishing"  BY <1>1, <1>7 DEF Send
  <2>2. targets' = [targets EXCEPT ![r] = targets[r] \ {ws}] /\ targets'[r] = targets[r] \ {ws}
    BY <1>1, <1>7 DEF Send
  <2>3. subs' \subseteq Sockets  BY <1>1, <1>7 DEF Send, RouterTypes
  <2> QED  BY <1>1, <1>7, <2>1, <2>2, <2>3, PublishingInv DEF Send
<1>8. ASSUME NEW ws \in Sockets, Subscribe(ws) \/ Hangup(ws) \/ Unsubscribe(ws) PROVE RouterInv'
  BY <1>8 DEF Subscribe, Hangup, Unsubscribe, routerVars,
              RouterInv, RouterTypes, NewHasNotMoved, TargetsOfPublishing, StoredWithTheRow
<1>9. CASE Quiet \/ UNCHANGED vars
  BY <1>9 DEF Quiet, vars, hubVars,
              RouterInv, RouterTypes, NewHasNotMoved, TargetsOfPublishing, StoredWithTheRow
<1> QED  BY <1>2, <1>3, <1>4, <1>5, <1>6, <1>7, <1>8, <1>9 DEF Next

(* A transition is in the events table exactly when the transaction that    *)
(* wrote the stream's row was committed, however requests overlap, fail and *)
(* broadcast.                                                               *)
THEOREM EventAndRowTogether == Spec => []StoredWithTheRow
<1>1. RouterInv => StoredWithTheRow  BY DEF RouterInv
<1> QED  BY <1>1, RouterInitInv, RouterStepInv, PTL DEF Spec

-----------------------------------------------------------------------------
(* Overlapping requests leave the row and the subscribers with a mixture.   *)
(* That a request without overlap repairs it needs to be known along its    *)
(* whole way: what it holds is the machine's value, what it read is the row *)
(* as it still is, and nobody else comes between.                           *)

RouterValues ==
    /\ machine \in Values /\ row \in Values
    /\ result \in [Requests -> Values \union {Unset}]
    /\ read \in [Requests -> Values \union {Unset}]
    /\ shown \in [Sockets -> Values \union {Unset}]
    /\ peer \in [Sockets -> {"new", "open", "gone"}]
    /\ latest \in Requests \union {Unset}
    /\ audience \in [Requests -> SUBSET Sockets]

HasResult == \A r \in Requests : InFlight(r) => result[r] \in Values

ListenersAreKnown ==
    \A ws \in Sockets : peer[ws] = "new" => ws \notin subs /\ \A r \in Requests : ws \notin audience[r]

Undisturbed(r) == latest = r /\ r \notin overlapped

GoesAlone(r) == Lone(r) /\ phase[r] # "new"

HoldsTheTruth(r) ==
    /\ InFlight(r) => result[r] = machine
    /\ phase[r] = "read" => read[r] = row
    /\ phase[r] \in {"committed", "publishing", "done"} => row = machine

TellsTheTruth(r) ==
    phase[r] \in {"publishing", "done"} =>
        \A ws \in audience[r] \intersect subs : ws \in targets[r] \/ shown[ws] = machine

TellsEveryone ==
    \A r \in Requests : phase[r] \in {"publishing", "done"} =>
        \A ws \in audience[r] : ws \in targets[r] \/ shown[ws] # Unset \/ ws \notin subs

HealTypes == RouterInv /\ RouterValues /\ HasResult /\ ListenersAreKnown

HealInv ==
    /\ HealTypes /\ TellsEveryone
    /\ \A r \in Requests : Undisturbed(r) => GoesAlone(r) /\ HoldsTheTruth(r) /\ TellsTheTruth(r)

LEMMA HealInitInv == MCInit => HealInv
<1> SUFFICES ASSUME MCInit PROVE HealInv  OBVIOUS
<1>1. RouterInv  BY RouterInitInv DEF MCInit
<1>2. RouterValues /\ HasResult /\ ListenersAreKnown /\ TellsEveryone
  BY DEF MCInit, Init, RouterValues, HasResult, InFlight, ListenersAreKnown, TellsEveryone
<1>3. \A r \in Requests : ~Undisturbed(r)
  BY RouterAssumption DEF MCInit, Init, Undisturbed
<1> QED  BY <1>1, <1>2, <1>3 DEF HealInv, HealTypes

(* What the session of r writes. *)
LEMMA WrittenColumns ==
    ASSUME row \in Values, NEW r \in Requests, result[r] \in Values
    PROVE  /\ Written(r) \in Values
           /\ read[r] = row => Written(r) = result[r]
<1>1. /\ Written(r) = [c \in {"state", "score"} |-> Written(r)[c]]
      /\ Written(r).state = (IF result[r].state # read[r].state THEN result[r].state ELSE row.state)
      /\ Written(r).score = (IF result[r].score # read[r].score THEN result[r].score ELSE row.score)
  BY DEF Written, Columns
<1>2. Written(r) = [state |-> Written(r).state, score |-> Written(r).score]
  BY <1>1
<1>3. /\ row.state \in States /\ row.score \in Scores
      /\ result[r].state \in States /\ result[r].score \in Scores
      /\ result[r] = [state |-> result[r].state, score |-> result[r].score]
  BY DEF Values
<1>4. Written(r) \in Values
  BY <1>1, <1>2, <1>3 DEF Values
<1>5. read[r] = row => Written(r) = result[r]
  BY <1>1, <1>2, <1>3
<1> QED  BY <1>4, <1>5

(* The subscribers of a publish are noted when it begins, and kept. *)
LEMMA AudienceKept ==
    ASSUME RouterValues, MCNext,
           \A r \in Requests : phase[r] = "committed" => phase'[r] = "committed"
    PROVE  audience' = audience
BY DEF RouterValues, MCNext

LEMMA OnOrOverValues ==
    ASSUME HealTypes, NEW r \in Requests, NEW left, OnOrOver(r, left)
    PROVE  /\ result' \in [Requests -> Values \union {Unset}]
           /\ read' \in [Requests -> Values \union {Unset}]
           /\ phase' = [phase EXCEPT ![r] = IF left = {} THEN "done" ELSE "publishing"]
           /\ left # {} => result' = result
           /\ \A q \in Requests \ {r} : result'[q] = result[q]
BY DEF OnOrOver, Over, HealTypes, RouterValues

LEMMA RequestTypes ==
    ASSUME HealTypes, MCNext, RouterInv', NEW r \in Requests,
           \/ \E v \in Values : Ingest(r, v)
           \/ Read(r) \/ Commit(r) \/ Fail(r)
    PROVE  HealTypes'
<1>1. RouterTypes /\ RouterValues
  BY DEF HealTypes, RouterInv
<1>2. audience' = audience
  BY <1>1, AudienceKept DEF Ingest, Read, Commit, Fail, Over, RouterTypes
<1>3. subs' = subs /\ peer' = peer /\ shown' = shown
  BY DEF Ingest, Read, Commit, Fail, hubVars
<1>4. RouterValues'
  <2>1. ASSUME NEW v \in Values, Ingest(r, v) PROVE RouterValues'
    BY <1>1, <1>2, <1>3, <2>1 DEF Ingest, RouterValues
  <2>2. CASE Read(r)
    BY <1>1, <1>2, <1>3, <2>2 DEF Read, RouterValues
  <2>3. CASE Commit(r)
    <3>1. result[r] \in Values
      BY <2>3 DEF Commit, HealTypes, HasResult, InFlight
    <3>2. row' \in Values
      BY <1>1, <2>3, <3>1, WrittenColumns DEF Commit, RouterValues
    <3> QED  BY <1>1, <1>2, <1>3, <2>3, <3>2 DEF Commit, RouterValues
  <2>4. CASE Fail(r)
    BY <1>1, <1>2, <1>3, <2>4 DEF Fail, Over, RouterValues
  <2> QED  BY <2>1, <2>2, <2>3, <2>4
<1>5. HasResult'
  <2>1. ASSUME NEW v \in Values, Ingest(r, v) PROVE HasResult'
    BY <1>1, <2>1 DEF Ingest, HasResult, InFlight, HealTypes, RouterTypes, RouterValues
  <2>2. CASE Read(r) \/ Commit(r)
    BY <1>1, <2>2 DEF Read, Commit, HasResult, InFlight, HealTypes, RouterTypes
  <2>3. CASE Fail(r)
    BY <1>1, <2>3 DEF Fail, Over, HasResult, InFlight, HealTypes, RouterTypes, RouterValues
  <2> QED  BY <2>1, <2>2, <2>3
<1>6. ListenersAreKnown'
  BY <1>2, <1>3 DEF HealTypes, ListenersAreKnown
<1> QED  BY <1>4, <1>5, <1>6 DEF HealTypes

LEMMA PublishTypes ==
    ASSUME HealTypes, MCNext, RouterInv', NEW r \in Requests, Publish(r)
    PROVE  /\ HealTypes'
           /\ audience' = [audience EXCEPT ![r] = subs]
<1>1. RouterTypes /\ RouterValues /\ HasResult
  BY DEF HealTypes, RouterInv
<1>2. /\ phase[r] = "committed" /\ OnOrOver(r, subs)
      /\ UNCHANGED <<machine, row, stored, moved, latest, subs, peer, shown>>
  BY DEF Publish
<1>3. /\ result' \in [Requests -> Values \union {Unset}]
      /\ read' \in [Requests -> Values \union {Unset}]
      /\ phase' = [phase EXCEPT ![r] = IF subs = {} THEN "done" ELSE "publishing"]
      /\ subs # {} => result' = result
      /\ \A q \in Requests \ {r} : result'[q] = result[q]
  BY <1>2, OnOrOverValues
<1>4. audience' = [audience EXCEPT ![r] = subs]
  BY <1>1, <1>2, <1>3 DEF MCNext, RouterTypes, RouterValues
<1>5. RouterValues'
  BY <1>1, <1>2, <1>3, <1>4 DEF RouterValues, RouterTypes
<1>6. HasResult'
  <2> SUFFICES ASSUME NEW q \in Requests, InFlight(q)' PROVE result'[q] \in Values
    BY DEF HasResult
  <2>1. CASE q = r
    BY <1>1, <1>2, <1>3, <2>1 DEF RouterTypes, HasResult, InFlight
  <2>2. CASE q # r
    BY <1>1, <1>3, <2>2 DEF RouterTypes, HasResult, InFlight
  <2> QED  BY <2>1, <2>2
<1>7. ListenersAreKnown'
  BY <1>1, <1>2, <1>4 DEF HealTypes, ListenersAreKnown, RouterValues
<1> QED  BY <1>4, <1>5, <1>6, <1>7 DEF HealTypes

LEMMA SendTypes ==
    ASSUME HealTypes, MCNext, RouterInv', NEW r \in Requests, NEW ws \in Sockets, Send(r, ws)
    PROVE  /\ HealTypes'
           /\ audience' = audience /\ phase[r] = "publishing" /\ result[r] \in Values
           /\ targets' = [targets EXCEPT ![r] = targets[r] \ {ws}]
           /\ phase' = [phase EXCEPT ![r] = IF targets[r] \ {ws} = {} THEN "done" ELSE "publishing"]
           /\ targets[r] \ {ws} # {} => result' = result
<1>1. RouterTypes /\ RouterValues /\ HasResult /\ TargetsOfPublishing
  BY DEF HealTypes, RouterInv
<1>2. /\ ws \in targets[r]
      /\ targets' = [targets EXCEPT ![r] = targets[r] \ {ws}] /\ targets'[r] = targets[r] \ {ws}
      /\ OnOrOver(r, targets'[r])
      /\ UNCHANGED <<machine, row, stored, moved, latest, peer>>
  BY <1>1 DEF Send, RouterTypes
<1>3. /\ result' \in [Requests -> Values \union {Unset}]
      /\ read' \in [Requests -> Values \union {Unset}]
      /\ phase' = [phase EXCEPT ![r] = IF targets'[r] = {} THEN "done" ELSE "publishing"]
      /\ targets'[r] # {} => result' = result
      /\ \A q \in Requests \ {r} : result'[q] = result[q]
  BY <1>2, OnOrOverValues
<1>4. phase[r] = "publishing"
  BY <1>1, <1>2 DEF TargetsOfPublishing
<1>5. result[r] \in Values
  BY <1>1, <1>4 DEF HasResult, InFlight
<1>6. audience' = audience
  BY <1>1, <1>3, <1>4, AudienceKept DEF RouterTypes
<1>7. shown' \in [Sockets -> Values \union {Unset}] /\ subs' \subseteq subs
  BY <1>1, <1>5 DEF Send, RouterValues
<1>8. RouterValues'
  BY <1>1, <1>2, <1>3, <1>6, <1>7 DEF RouterValues
<1>9. HasResult'
  <2> SUFFICES ASSUME NEW q \in Requests, InFlight(q)' PROVE result'[q] \in Values
    BY DEF HasResult
  <2>1. CASE q = r
    BY <1>1, <1>3, <1>5, <2>1 DEF RouterTypes, InFlight
  <2>2. CASE q # r
    BY <1>1, <1>3, <2>2 DEF RouterTypes, HasResult, InFlight
  <2> QED  BY <2>1, <2>2
<1>10. ListenersAreKnown'
  BY <1>2, <1>6, <1>7 DEF HealTypes, ListenersAreKnown
<1> QED  BY <1>2, <1>3, <1>4, <1>5, <1>6, <1>8, <1>9, <1>10 DEF HealTypes

(* A subscriber comes or goes. *)
SocketStep(ws) == Subscribe(ws) \/ Hangup(ws) \/ Unsubscribe(ws)

LEMMA SocketTypes ==
    ASSUME HealTypes, MCNext, RouterInv', NEW ws \in Sockets, SocketStep(ws)
    PROVE  /\ HealTypes' /\ audience' = audience
           /\ UNCHANGED routerVars
           /\ \A u \in subs' \ subs : peer[u] = "new"
<1>1. RouterTypes /\ RouterValues /\ HasResult /\ ListenersAreKnown
  BY DEF HealTypes, RouterInv
<1>2. UNCHANGED routerVars /\ phase' = phase
  BY DEF SocketStep, Subscribe, Hangup, Unsubscribe, routerVars
<1>3. audience' = audience
  BY <1>1, <1>2, AudienceKept
<1>4. /\ peer' \in [Sockets -> {"new", "open", "gone"}]
      /\ \A u \in Sockets : peer'[u] = "new" => peer[u] = "new" /\ (u \in subs' => u \in subs)
      /\ \A u \in subs' \ subs : peer[u] = "new"
  BY <1>1 DEF SocketStep, Subscribe, Hangup, Unsubscribe, RouterValues
<1>5. RouterValues' /\ HasResult'
  BY <1>1, <1>2, <1>3, <1>4 DEF routerVars, RouterValues, HasResult, InFlight
<1>6. ListenersAreKnown'
  BY <1>1, <1>3, <1>4 DEF ListenersAreKnown
<1> QED  BY <1>2, <1>3, <1>4, <1>5, <1>6 DEF HealTypes

(* Nobody has been left out so far, whatever the step. *)
LEMMA TellsEveryoneKept ==
    ASSUME HealTypes, TellsEveryone, UNCHANGED <<targets, subs, shown, audience>>,
           \A r \in Requests : phase'[r] \in {"publishing", "done"} => phase'[r] = phase[r]
    PROVE  TellsEveryone'
BY DEF TellsEveryone

LEMMA PublishTellsEveryone ==
    ASSUME HealTypes, TellsEveryone, MCNext, RouterInv', NEW r \in Requests, Publish(r)
    PROVE  TellsEveryone'
<1>1. audience' = [audience EXCEPT ![r] = subs]
  BY PublishTypes
<1>2. /\ targets' = [targets EXCEPT ![r] = subs] /\ subs' = subs /\ shown' = shown
      /\ \A q \in Requests \ {r} : phase'[q] = phase[q]
  BY DEF Publish, OnOrOver, Over, HealTypes, RouterInv, RouterTypes
<1>3. audience \in [Requests -> SUBSET Sockets] /\ targets \in [Requests -> SUBSET Sockets]
  BY DEF HealTypes, RouterInv, RouterTypes, RouterValues
<1> QED  BY <1>1, <1>2, <1>3 DEF TellsEveryone

LEMMA SendTellsEveryone ==
    ASSUME HealTypes, TellsEveryone, MCNext, RouterInv',
           NEW r \in Requests, NEW ws \in Sockets, Send(r, ws)
    PROVE  TellsEveryone'
<1>1. /\ audience' = audience /\ phase[r] = "publishing" /\ result[r] # Unset
      /\ targets' = [targets EXCEPT ![r] = targets[r] \ {ws}]
      /\ phase' = [phase EXCEPT ![r] = IF targets[r] \ {ws} = {} THEN "done" ELSE "publishing"]
  <2>1. Unset \notin Values  BY RouterAssumption DEF Values
  <2> QED  BY <2>1, SendTypes
<1>2. /\ audience \in [Requests -> SUBSET Sockets] /\ targets \in [Requests -> SUBSET Sockets]
      /\ shown \in [Sockets -> Values \union {Unset}]
      /\ phase \in [Requests -> {"new", "ingested", "read", "committed", "publishing", "done", "failed"}]
  BY DEF HealTypes, RouterInv, RouterTypes, RouterValues
<1>3. \/ shown' = [shown EXCEPT ![ws] = result[r]] /\ subs' = subs
      \/ subs' = subs \ {ws} /\ shown' = shown
  BY DEF Send
<1> SUFFICES ASSUME NEW q \in Requests, phase'[q] \in {"publishing", "done"}, NEW u \in audience[q]
             PROVE  u \in targets'[q] \/ shown'[u] # Unset \/ u \notin subs'
  BY <1>1 DEF TellsEveryone
<1>4. phase[q] \in {"publishing", "done"}
  BY <1>1, <1>2
<1>5. u \in targets[q] \/ shown[u] # Unset \/ u \notin subs
  BY <1>4 DEF TellsEveryone
<1>6. CASE u = ws
  BY <1>1, <1>2, <1>3, <1>6
<1>7. CASE u # ws
  BY <1>1, <1>2, <1>3, <1>5, <1>7
<1> QED  BY <1>6, <1>7

(* No request in flight beside one that goes alone. *)
LEMMA OthersAreStill ==
    ASSUME NEW r \in Requests, NEW q \in Requests, GoesAlone(r), InFlight(q)
    PROVE  q = r
BY DEF GoesAlone, Lone

(* A step of r, the only request in flight, changes nothing for the others. *)
LEMMA StaysAlone ==
    ASSUME NEW r \in Requests, GoesAlone(r), HealTypes,
           NEW how \in {"ingested", "read", "committed", "publishing", "done", "failed"},
           phase' = [phase EXCEPT ![r] = how]
    PROVE  GoesAlone(r)'
BY DEF GoesAlone, Lone, InFlight, HealTypes, RouterInv, RouterTypes

LEMMA UndisturbedStep ==
    ASSUME HealInv, MCNext, HealTypes', NEW r \in Requests, Undisturbed(r)', latest' = latest,
           NEW q \in Requests, InFlight(q)
    PROVE  /\ q = r /\ GoesAlone(r) /\ HoldsTheTruth(r) /\ TellsTheTruth(r)
<1>1. Undisturbed(r)
  BY DEF Undisturbed, MCNext
<1> QED  BY <1>1, OthersAreStill DEF HealInv

LEMMA IngestHeals ==
    ASSUME HealInv, MCNext, HealTypes', NEW q \in Requests, NEW v \in Values, Ingest(q, v),
           NEW r \in Requests, Undisturbed(r)'
    PROVE  GoesAlone(r)' /\ HoldsTheTruth(r)' /\ TellsTheTruth(r)'
<1>1. r = q /\ r \notin Overlapping'
  BY DEF Undisturbed, MCNext, Ingest
<1>2. phase'[r] = "ingested" /\ result'[r] = v /\ machine' = v
  BY <1>1 DEF Ingest, HealInv, HealTypes, RouterInv, RouterTypes, RouterValues
<1>3. Lone(r)'
  BY <1>1, <1>2 DEF Overlapping, InFlight
<1> QED  BY <1>2, <1>3 DEF GoesAlone, HoldsTheTruth, TellsTheTruth

LEMMA RequestHeals ==
    ASSUME HealInv, MCNext, HealTypes', NEW q \in Requests, Read(q) \/ Commit(q) \/ Fail(q),
           NEW r \in Requests, Undisturbed(r)'
    PROVE  GoesAlone(r)' /\ HoldsTheTruth(r)' /\ TellsTheTruth(r)'
<1>1. HealTypes /\ RouterTypes /\ RouterValues
  BY DEF HealInv, HealTypes, RouterInv
<1>2. InFlight(q) /\ latest' = latest /\ machine' = machine
  BY DEF Read, Commit, Fail, Over, InFlight
<1>3. q = r /\ GoesAlone(r) /\ HoldsTheTruth(r)
  BY <1>2, UndisturbedStep
<1>4. CASE Read(r)
  <2>1. /\ phase' = [phase EXCEPT ![r] = "read"] /\ phase'[r] = "read"
        /\ read'[r] = row' /\ result' = result
    BY <1>1, <1>4 DEF Read, RouterTypes, RouterValues
  <2> QED
    BY <1>1, <1>2, <1>3, <2>1, StaysAlone DEF HoldsTheTruth, TellsTheTruth
<1>5. CASE Commit(r)
  <2>1. /\ phase[r] = "read" /\ phase' = [phase EXCEPT ![r] = "committed"]
        /\ phase'[r] = "committed" /\ result' = result /\ row' = Written(r)
    BY <1>1, <1>5 DEF Commit, RouterTypes, RouterValues
  <2>2. result[r] = machine /\ read[r] = row
    BY <1>2, <1>3, <2>1 DEF HoldsTheTruth
  <2>3. Written(r) = machine
    BY <1>1, <2>2, WrittenColumns DEF RouterValues
  <2> QED
    BY <1>1, <1>2, <1>3, <2>1, <2>2, <2>3, StaysAlone DEF HoldsTheTruth, TellsTheTruth
<1>6. CASE Fail(r)
  <2>1. phase' = [phase EXCEPT ![r] = "failed"] /\ phase'[r] = "failed"
    BY <1>1, <1>6 DEF Fail, Over, RouterTypes
  <2> QED
    BY <1>1, <1>3, <2>1, StaysAlone DEF HoldsTheTruth, TellsTheTruth, InFlight
<1> QED  BY <1>3, <1>4, <1>5, <1>6

LEMMA PublishHeals ==
    ASSUME HealInv, MCNext, HealTypes', NEW q \in Requests, Publish(q),
           NEW r \in Requests, Undisturbed(r)'
    PROVE  GoesAlone(r)' /\ HoldsTheTruth(r)' /\ TellsTheTruth(r)'
<1>1. HealTypes /\ RouterTypes /\ RouterValues /\ RouterInv'
  BY DEF HealInv, HealTypes, RouterInv
<1>2. InFlight(q) /\ latest' = latest /\ machine' = machine /\ row' = row
  BY DEF Publish, InFlight
<1>3. q = r /\ GoesAlone(r) /\ HoldsTheTruth(r)
  BY <1>2, UndisturbedStep
<1>4. /\ targets' = [targets EXCEPT ![r] = subs] /\ subs' = subs
      /\ phase' = [phase EXCEPT ![r] = IF subs = {} THEN "done" ELSE "publishing"]
      /\ phase[r] = "committed"
  BY <1>3 DEF Publish, OnOrOver, Over
<1>5. audience' = [audience EXCEPT ![r] = subs]
  BY <1>1, <1>3, PublishTypes
<1>6. row = machine /\ result[r] = machine
  BY <1>3, <1>4 DEF HoldsTheTruth, InFlight
<1>7. phase'[r] # "done" => result'[r] = result[r]
  BY <1>1, <1>3, <1>4 DEF Publish, OnOrOver, RouterTypes
<1>8. HoldsTheTruth(r)'
  BY <1>1, <1>2, <1>4, <1>6, <1>7 DEF HoldsTheTruth, InFlight, RouterTypes
<1>9. TellsTheTruth(r)'
  BY <1>1, <1>4, <1>5 DEF TellsTheTruth, RouterTypes, RouterValues
<1> QED  BY <1>1, <1>3, <1>4, <1>8, <1>9, StaysAlone

LEMMA SendHeals ==
    ASSUME HealInv, MCNext, HealTypes', NEW q \in Requests, NEW ws \in Sockets, Send(q, ws),
           NEW r \in Requests, Undisturbed(r)'
    PROVE  GoesAlone(r)' /\ HoldsTheTruth(r)' /\ TellsTheTruth(r)'
<1>1. HealTypes /\ RouterTypes /\ RouterValues /\ RouterInv'
  BY DEF HealInv, HealTypes, RouterInv
<1>2. phase[q] = "publishing"
  BY <1>1, SendTypes
<1>3. InFlight(q) /\ latest' = latest /\ machine' = machine /\ row' = row
  BY <1>2 DEF Send, InFlight
<1>4. q = r /\ GoesAlone(r) /\ HoldsTheTruth(r) /\ TellsTheTruth(r)
  BY <1>3, UndisturbedStep
<1>5. /\ audience' = audience
      /\ targets' = [targets EXCEPT ![r] = targets[r] \ {ws}]
      /\ phase' = [phase EXCEPT ![r] = IF targets[r] \ {ws} = {} THEN "done" ELSE "publishing"]
      /\ targets[r] \ {ws} # {} => result' = result
  BY <1>1, <1>4, SendTypes
<1>6. row = machine /\ result[r] = machine
  BY <1>2, <1>4 DEF HoldsTheTruth, InFlight
<1>7. HoldsTheTruth(r)'
  BY <1>1, <1>3, <1>5, <1>6 DEF HoldsTheTruth, InFlight, RouterTypes
<1>8. TellsTheTruth(r)'
  <2> SUFFICES ASSUME NEW u \in audience[r], u \in subs'
               PROVE  u \in targets'[r] \/ shown'[u] = machine
    BY <1>3, <1>5 DEF TellsTheTruth
  <2>1. \/ shown' = [shown EXCEPT ![ws] = result[r]] /\ subs' = subs
        \/ subs' = subs \ {ws} /\ shown' = shown
    BY <1>4 DEF Send
  <2>2. u \in targets[r] \/ shown[u] = machine
    BY <1>2, <1>4, <2>1 DEF TellsTheTruth
  <2>3. CASE u = ws
    BY <1>1, <1>6, <2>1, <2>3 DEF RouterValues
  <2>4. CASE u # ws
    BY <1>1, <1>5, <2>1, <2>2, <2>4 DEF RouterTypes, RouterValues
  <2> QED  BY <2>3, <2>4
<1> QED  BY <1>1, <1>4, <1>5, <1>7, <1>8, StaysAlone

LEMMA SocketHeals ==
    ASSUME HealInv, MCNext, HealTypes', NEW ws \in Sockets, SocketStep(ws),
           NEW r \in Requests, Undisturbed(r)'
    PROVE  GoesAlone(r)' /\ HoldsTheTruth(r)' /\ TellsTheTruth(r)'
<1>1. HealTypes /\ RouterValues /\ ListenersAreKnown /\ RouterInv'
  BY DEF HealInv, HealTypes
<1>2. /\ audience' = audience /\ UNCHANGED routerVars
      /\ \A u \in subs' \ subs : peer[u] = "new"
  BY <1>1, SocketTypes
<1>3. Undisturbed(r)
  BY <1>2 DEF Undisturbed, MCNext, routerVars
<1>4. GoesAlone(r) /\ HoldsTheTruth(r) /\ TellsTheTruth(r)
  BY <1>3 DEF HealInv
<1>5. audience[r] \intersect subs' \subseteq subs
  BY <1>1, <1>2 DEF ListenersAreKnown, RouterValues
<1>6. TellsTheTruth(r)'
  BY <1>2, <1>4, <1>5 DEF TellsTheTruth, routerVars
<1> QED  BY <1>2, <1>4, <1>6 DEF routerVars, GoesAlone, Lone, InFlight, HoldsTheTruth

LEMMA SocketTellsEveryone ==
    ASSUME HealInv, MCNext, HealTypes', NEW ws \in Sockets, SocketStep(ws)
    PROVE  TellsEveryone'
<1>1. HealTypes /\ RouterValues /\ ListenersAreKnown /\ RouterInv' /\ TellsEveryone
  BY DEF HealInv, HealTypes
<1>2. /\ audience' = audience /\ UNCHANGED routerVars
      /\ \A u \in subs' \ subs : peer[u] = "new"
  BY <1>1, SocketTypes
<1>3. \A r \in Requests : audience[r] \intersect subs' \subseteq subs
  BY <1>1, <1>2 DEF ListenersAreKnown, RouterValues
<1> QED  BY <1>1, <1>2, <1>3 DEF TellsEveryone, routerVars

LEMMA HealStepInv == HealInv /\ [MCNext]_mcVars => HealInv'
<1> SUFFICES ASSUME HealInv, [MCNext]_mcVars PROVE HealInv'  OBVIOUS
<1>0. HealTypes /\ TellsEveryone /\ RouterInv /\ RouterTypes /\ RouterValues
  BY DEF HealInv, HealTypes, RouterInv
<1>1. RouterInv'
  <2>1. [Next]_vars  BY DEF MCNext, mcVars
  <2> QED  BY <1>0, <2>1, RouterStepInv
<1>2. ASSUME MCNext, NEW r \in Requests, (\E v \in Values : Ingest(r, v)) \/ Read(r) \/ Commit(r) \/ Fail(r)
      PROVE  HealInv'
  <2>1. HealTypes'
    BY <1>0, <1>1, <1>2, RequestTypes
  <2>2. TellsEveryone'
    <3>1. audience' = audience
      BY <1>0, <1>2, AudienceKept DEF Ingest, Read, Commit, Fail, Over, RouterTypes
    <3>2. /\ UNCHANGED <<targets, subs, shown>>
          /\ \A q \in Requests : phase'[q] \in {"publishing", "done"} => phase'[q] = phase[q]
      BY <1>0, <1>2 DEF Ingest, Read, Commit, Fail, Over, hubVars, RouterTypes
    <3> QED  BY <1>0, <3>1, <3>2, TellsEveryoneKept
  <2>3. \A q \in Requests : Undisturbed(q)' => GoesAlone(q)' /\ HoldsTheTruth(q)' /\ TellsTheTruth(q)'
    BY <1>2, <2>1, IngestHeals, RequestHeals
  <2> QED  BY <2>1, <2>2, <2>3 DEF HealInv
<1>3. ASSUME MCNext, NEW r \in Requests, Publish(r) PROVE HealInv'
  <2>1. HealTypes' /\ TellsEveryone'
    BY <1>0, <1>1, <1>3, PublishTypes, PublishTellsEveryone
  <2> QED  BY <1>3, <2>1, PublishHeals DEF HealInv
<1>4. ASSUME MCNext, NEW r \in Requests, NEW ws \in Sockets, Send(r, ws) PROVE HealInv'
  <2>1. HealTypes' /\ TellsEveryone'
    BY <1>0, <1>1, <1>4, SendTypes, SendTellsEveryone
  <2> QED  BY <1>4, <2>1, SendHeals DEF HealInv
<1>5. ASSUME MCNext, NEW ws \in Sockets, SocketStep(ws) PROVE HealInv'
  <2>1. HealTypes'
    BY <1>0, <1>1, <1>5, SocketTypes
  <2>2. TellsEveryone'
    BY <1>5, <2>1, SocketTellsEveryone
  <2> QED  BY <1>5, <2>1, <2>2, SocketHeals DEF HealInv
<1>6. ASSUME UNCHANGED vars, MCNext \/ UNCHANGED mcVars PROVE HealInv'
  <2>1. audience' = audience
    <3>1. phase' = phase  BY <1>6 DEF vars
    <3> QED  BY <1>0, <1>6, <3>1, AudienceKept DEF mcVars
  <2>2. HealTypes' /\ TellsEveryone'
    BY <1>0, <1>1, <1>6, <2>1
       DEF vars, hubVars, HealTypes, RouterValues, HasResult, InFlight, ListenersAreKnown, TellsEveryone
  <2>3. ASSUME NEW r \in Requests, Undisturbed(r)'
        PROVE  GoesAlone(r)' /\ HoldsTheTruth(r)' /\ TellsTheTruth(r)'
    <3>1. Undisturbed(r)
      BY <1>6, <2>3 DEF vars, mcVars, MCNext, Undisturbed
    <3> QED
      BY <1>6, <2>1, <3>1
         DEF vars, hubVars, HealInv, GoesAlone, Lone, InFlight, HoldsTheTruth, TellsTheTruth
  <2> QED  BY <2>2, <2>3 DEF HealInv
<1>7. CASE MCNext
  BY <1>2, <1>3, <1>4, <1>5, <1>6, <1>7 DEF MCNext, Next, Quiet, SocketStep
<1>8. CASE UNCHANGED mcVars
  BY <1>6, <1>8 DEF mcVars
<1> QED  BY <1>7, <1>8

LEMMA HealInvHolds == MCSpec => []HealInv
BY HealInitInv, HealStepInv, PTL DEF MCSpec

LEMMA NothingLeftToSend ==
    ASSUME HealInv, NEW r \in Requests, phase[r] = "done"
    PROVE  targets[r] = {}
BY DEF HealInv, HealTypes, RouterInv, TargetsOfPublishing

(* A request that meets no other repairs what overlapping ones did: once it *)
(* is done and as long as nothing comes after it, the row and everyone it   *)
(* told agree with the machine.                                             *)
THEOREM LoneRequestRepairs == MCSpec => []LoneRequestHeals
<1>1. HealInv => LoneRequestHeals
  BY NothingLeftToSend DEF HealInv, LoneRequestHeals, Undisturbed, HoldsTheTruth, TellsTheTruth
<1> QED  BY <1>1, HealInvHolds, PTL

(* A subscriber that hung up keeps nobody else from hearing of a publish.   *)
THEOREM NobodyLeftOut == MCSpec => []NobodyIsLeftOut
<1>1. HealInv => NobodyIsLeftOut
  BY NothingLeftToSend DEF HealInv, TellsEveryone, NobodyIsLeftOut
<1> QED  BY <1>1, HealInvHolds, PTL

=============================================================================
