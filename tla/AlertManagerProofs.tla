------------------------- MODULE AlertManagerProofs -------------------------
(***************************************************************************)
(* The deduplication of alerts for any number of events, streams, clock    *)
(* readings and restarts.  The spacing of two arbitrary alerts is not inductive:  *)
(* a new alert is compared with the cached one only.  RecentIsLatest       *)
(* supplies the rest, that every earlier alert is at least as far away.    *)
(***************************************************************************)
EXTENDS AlertManager, TLAPS

Inv == TypeOK /\ DedupSpacing /\ RecentIsLatest /\ Untouched

-----------------------------------------------------------------------------

LEMMA InitInv == Init => Inv
<1> SUFFICES ASSUME Init
             PROVE  Inv
    OBVIOUS
<1>1. TypeOK
    <2>1. MaxRestarts \in Nat /\ life = 0
        BY AlertAssumption DEF Init
    <2>2. life \in 0..MaxRestarts /\ 0 \in 0..life
        BY <2>1
    <2>. QED BY <2>2 DEF Init, TypeOK
<1>2. Alerts = {}
    BY AlertAssumption DEF Init, Alerts
<1>3. DedupSpacing /\ RecentIsLatest
    BY <1>2 DEF Init, DedupSpacing, RecentIsLatest
<1>4. Untouched
    BY DEF Init, Untouched
<1>. QED BY <1>1, <1>3, <1>4 DEF Inv

\* A step that opens no alert and touches neither cache nor times keeps the spacing.
LEMMA SameAlertsInv ==
    ASSUME Inv, TypeOK', Untouched', Alerts' = Alerts,
           recent' = recent, firstSeen' = firstSeen, bornIn' = bornIn, life' = life,
           \A a \in Alerts : key'[a] = key[a]
    PROVE  Inv'
<1>1. DedupSpacing'
    BY DEF Inv, DedupSpacing
<1>2. RecentIsLatest'
    BY DEF Inv, RecentIsLatest
<1>. QED BY <1>1, <1>2 DEF Inv

LEMMA OpenInv ==
    ASSUME Inv, NEW e \in Events, NEW k \in Keys, OnEvent(e, k), Open(e, k)
    PROVE  Inv'
<1>1. /\ pc[e] = "new" /\ now' = now /\ life' = life
      /\ key' = [key EXCEPT ![e] = k]
      /\ recent' = [recent EXCEPT ![k] = e]
      /\ bornIn' = [bornIn EXCEPT ![e] = life]
      /\ alertOf' = [alertOf EXCEPT ![e] = e]
      /\ firstSeen' = [firstSeen EXCEPT ![e] = now]
      /\ pc' = [pc EXCEPT ![e] = "alerting"]
      /\ ~Fresh(k)
    BY DEF OnEvent, Open
<1>2. TypeOK /\ DedupSpacing /\ RecentIsLatest /\ Untouched
    BY DEF Inv
<1>3. now \in Nat /\ DedupWindow \in Nat
    BY <1>2, AlertAssumption DEF TypeOK
<1>4. TypeOK' /\ Untouched'
    <2>1. life \in 0..life
        BY <1>2 DEF TypeOK
    <2>. QED BY <1>1, <1>2, <1>3, <2>1 DEF TypeOK, Untouched
<1>5. e \notin Alerts
    BY <1>1, <1>2, AlertAssumption DEF Untouched, Alerts
<1>6. Alerts' = Alerts \union {e}
    BY <1>1, <1>2 DEF Alerts, TypeOK
<1>7. \A a \in Alerts : a # e /\ a \in Events /\ key'[a] = key[a]
                        /\ firstSeen'[a] = firstSeen[a] /\ firstSeen[a] \in Nat
                        /\ bornIn'[a] = bornIn[a]
    BY <1>1, <1>2, <1>5 DEF Alerts, TypeOK
<1>8. key'[e] = k /\ firstSeen'[e] = now /\ recent'[k] = e /\ bornIn'[e] = life
    BY <1>1, <1>2 DEF TypeOK
<1>9. ASSUME NEW a \in Alerts, key[a] = k, bornIn[a] = life
      PROVE  now - firstSeen[a] >= DedupWindow
    <2>1. /\ recent[k] # None /\ recent[k] \in Alerts
          /\ a = recent[k] \/ firstSeen[recent[k]] - firstSeen[a] >= DedupWindow
        BY <1>2, <1>9 DEF RecentIsLatest
    <2>2. firstSeen[recent[k]] \in Nat /\ firstSeen[a] \in Nat
        BY <1>7, <2>1
    <2>3. now - firstSeen[recent[k]] >= DedupWindow
        BY <1>1, <1>3, <2>1, <2>2 DEF Fresh
    <2>. QED BY <1>3, <2>1, <2>2, <2>3
<1>10. DedupSpacing'
    <2> SUFFICES ASSUME NEW a \in Alerts', NEW b \in Alerts', a # b,
                        key'[a] = key'[b], key'[a][2] = "P1", bornIn'[a] = bornIn'[b]
                 PROVE  \/ firstSeen'[b] - firstSeen'[a] >= DedupWindow
                        \/ firstSeen'[a] - firstSeen'[b] >= DedupWindow
        BY DEF DedupSpacing
    <2>1. CASE a \in Alerts /\ b \in Alerts
        BY <2>1, <1>2, <1>7 DEF DedupSpacing
    <2>2. CASE a = e /\ b \in Alerts
        BY <2>2, <1>7, <1>8, <1>9
    <2>3. CASE a \in Alerts /\ b = e
        BY <2>3, <1>7, <1>8, <1>9
    <2>. QED BY <2>1, <2>2, <2>3, <1>6
<1>11. RecentIsLatest'
    <2> SUFFICES ASSUME NEW j \in Keys
                 PROVE  /\ recent'[j] # None => recent'[j] \in Alerts' /\ key'[recent'[j]] = j
                                                 /\ bornIn'[recent'[j]] = life
                        /\ \A a \in Alerts' : key'[a] = j /\ bornIn'[a] = life =>
                              /\ recent'[j] # None
                              /\ \/ a = recent'[j]
                                 \/ firstSeen'[recent'[j]] - firstSeen'[a] >= DedupWindow
        BY <1>1 DEF RecentIsLatest
    <2>1. CASE j = k
        BY <2>1, <1>6, <1>7, <1>8, <1>9, AlertAssumption
    <2>2. CASE j # k
        <3>1. recent'[j] = recent[j]
            BY <2>2, <1>1, <1>2 DEF TypeOK
        <3>2. recent[j] # None =>
                 recent[j] \in Alerts /\ key[recent[j]] = j /\ bornIn[recent[j]] = life
            BY <1>2 DEF RecentIsLatest
        <3>3. ASSUME NEW a \in Alerts', key'[a] = j, bornIn'[a] = life
              PROVE  /\ recent'[j] # None
                     /\ \/ a = recent'[j]
                        \/ firstSeen'[recent'[j]] - firstSeen'[a] >= DedupWindow
            <4>1. a \in Alerts /\ key[a] = j /\ bornIn[a] = life
                BY <3>3, <2>2, <1>6, <1>7, <1>8
            <4>2. /\ recent[j] # None
                  /\ a = recent[j] \/ firstSeen[recent[j]] - firstSeen[a] >= DedupWindow
                BY <4>1, <1>2 DEF RecentIsLatest
            <4>. QED BY <4>1, <4>2, <3>1, <3>2, <1>7
        <3>. QED BY <3>1, <3>2, <3>3, <1>6, <1>7
    <2>. QED BY <2>1, <2>2
<1>. QED BY <1>4, <1>10, <1>11 DEF Inv

\* Every other call of on_event leaves the alerts alone.
LEMMA OnEventInv ==
    ASSUME Inv, NEW e \in Events, NEW k \in Keys, OnEvent(e, k)
    PROVE  Inv'
<1>1. /\ pc[e] = "new" /\ now' = now /\ life' = life
      /\ key' = [key EXCEPT ![e] = k]
    BY DEF OnEvent
<1>2. TypeOK /\ RecentIsLatest /\ Untouched
    BY DEF Inv
<1>3. e \notin Alerts
    BY <1>1, <1>2, AlertAssumption DEF Untouched, Alerts
<1>4. \A a \in Alerts : key'[a] = key[a]
    BY <1>1, <1>2, <1>3 DEF TypeOK, Alerts
<1>5. CASE Ignore(e, k)
    <2>1. TypeOK' /\ Untouched' /\ Alerts' = Alerts
        BY <1>1, <1>2, <1>5 DEF Ignore, TypeOK, Untouched, Alerts
    <2>. QED BY <2>1, <1>1, <1>4, <1>5, SameAlertsInv DEF Ignore
<1>6. CASE Merge(e, k)
    <2>1. recent[k] \in Alerts
        BY <1>2, <1>6 DEF Merge, Fresh, RecentIsLatest
    <2>2. recent[k] # e /\ recent[k] \in Events
        BY <2>1, <1>3 DEF Alerts
    <2>3. TypeOK'
        BY <1>1, <1>2, <1>6, <2>2 DEF Merge, TypeOK
    <2>4. Alerts' = Alerts
        BY <1>2, <1>3, <1>6, <2>2 DEF Merge, TypeOK, Alerts
    <2>5. Untouched'
        BY <1>1, <1>2, <1>6 DEF Merge, TypeOK, Untouched
    <2>. QED BY <2>3, <2>4, <2>5, <1>1, <1>4, <1>6, SameAlertsInv DEF Merge
<1>7. CASE Open(e, k)
    BY <1>7, OpenInv
<1>. QED BY <1>5, <1>6, <1>7 DEF OnEvent

\* After a restart no alert is of this life, and the cache is empty.
LEMMA RestartInv ==
    ASSUME Inv, Restart
    PROVE  Inv'
<1>1. /\ UNCHANGED <<now, key, alertOf, firstSeen, bornIn>> /\ life' = life + 1
      /\ \A k \in Keys : recent'[k] = None
      /\ TypeOK /\ DedupSpacing /\ Untouched
    BY DEF Restart, Inv
<1>2. life \in Nat /\ life' \in 0..MaxRestarts
    BY <1>1, AlertAssumption DEF TypeOK, Restart
<1>3. \A e \in Events : bornIn[e] \in 0..life
    BY <1>1 DEF TypeOK
<1>4. TypeOK'
    <2>1. bornIn' \in [Events -> 0..life']
        BY <1>1, <1>2, <1>3 DEF TypeOK
    <2>2. recent' \in [Keys -> Events \union {None}]
        BY DEF Restart
    <2>3. pc' \in [Events -> {"new", "alerting", "dispatching", "returned", "raised", "killed"}]
        BY <1>1 DEF Restart, TypeOK
    <2>. QED BY <1>1, <1>2, <2>1, <2>2, <2>3 DEF TypeOK
<1>5. Untouched'
    BY <1>1 DEF Restart, Untouched
<1>6. Alerts' = Alerts /\ DedupSpacing'
    BY <1>1 DEF DedupSpacing, Alerts
<1>7. RecentIsLatest'
    <2>1. \A a \in Alerts : bornIn'[a] # life'
        BY <1>1, <1>2, <1>3 DEF Alerts
    <2>. QED BY <1>1, <1>6, <2>1 DEF RecentIsLatest
<1>. QED BY <1>4, <1>5, <1>6, <1>7 DEF Inv

LEMMA NextInv == Inv /\ [Next]_vars => Inv'
<1> SUFFICES ASSUME Inv, [Next]_vars
             PROVE  Inv'
    OBVIOUS
<1>1. TypeOK /\ Untouched
    BY DEF Inv
<1>2. CASE UNCHANGED vars
    BY <1>2, <1>1, SameAlertsInv DEF vars, TypeOK, Untouched, Alerts
<1>3. ASSUME NEW e \in Events, NEW k \in Keys, OnEvent(e, k)
      PROVE  Inv'
    BY <1>3, OnEventInv
<1>4. ASSUME NEW e \in Events, PublishAlert(e) \/ Dispatch(e) \/ PublishFails(e)
      PROVE  Inv'
    <2>1. UNCHANGED <<now, life, recent, key, alertOf, firstSeen, bornIn>>
        BY <1>4 DEF PublishAlert, Dispatch, PublishFails
    <2>2. pc[e] # "new" /\ \E s \in {"dispatching", "returned", "raised"} :
                              pc' = [pc EXCEPT ![e] = s]
        BY <1>4 DEF PublishAlert, Dispatch, PublishFails
    <2>3. TypeOK' /\ Untouched'
        BY <1>1, <2>1, <2>2 DEF TypeOK, Untouched
    <2>. QED BY <2>1, <2>3, SameAlertsInv DEF Alerts
<1>5. ASSUME NEW t \in Times, Clock(t)
      PROVE  Inv'
    <2>1. TypeOK' /\ Untouched'
        BY <1>1, <1>5 DEF Clock, TypeOK, Untouched
    <2>. QED BY <1>5, <2>1, SameAlertsInv DEF Clock, Alerts
<1>. QED BY <1>2, <1>3, <1>4, <1>5, RestartInv DEF Next

LEMMA SpecInv == Spec => []Inv
<1>1. Init => Inv
    BY InitInv
<1>2. Inv /\ [Next]_vars => Inv'
    BY NextInv
<1>. QED BY <1>1, <1>2, PTL DEF Spec

\* Two P1 alerts of one stream and one life of the backend are never within a
\* deduplication window of each other, whatever the clock does.
THEOREM AlertsAreSpaced == Spec => []DedupSpacing
<1>1. Inv => DedupSpacing
    BY DEF Inv
<1>. QED BY <1>1, SpecInv, PTL

\* The cache always holds the newest alert this life of the backend opened for its key,
\* of P1 as of P0.
THEOREM CacheIsLatest == Spec => []RecentIsLatest
<1>1. Inv => RecentIsLatest
    BY DEF Inv
<1>. QED BY <1>1, SpecInv, PTL

-----------------------------------------------------------------------------
(* The pushes.  What a task has published is the beginning of the matrix of  *)
(* its alert, and there is more to publish until it returns.                 *)

Channels == {"webhook", "ding", "wework", "sms", "voice"}

\* What on_event and the dispatcher have done for e.
PushState(e) ==
    /\ pushed[e] \in Seq(Channels)
    /\ e \notin Alerts => pushed[e] = <<>> /\ pc[e] \notin {"alerting", "dispatching"}
    /\ e \in Alerts =>
          /\ key[e] \in Keys /\ AlertKey(key[e]) /\ pc[e] # "new"
          /\ Len(pushed[e]) <= Len(ChannelMatrix(key[e]))
          /\ \A i \in 1..Len(pushed[e]) : pushed[e][i] = ChannelMatrix(key[e])[i]
    /\ pc[e] = "alerting" => pushed[e] = <<>>
    /\ pc[e] = "dispatching" => Remaining(e) > 0
    /\ e \in Alerts /\ pc[e] = "returned" => Remaining(e) = 0

PushInv == pushed \in [Events -> Seq(Channels)] /\ \A e \in Events : PushState(e)

LEMMA MatrixFacts ==
    ASSUME NEW k
    PROVE  /\ ChannelMatrix(k) \in Seq(Channels)
           /\ Len(ChannelMatrix(k)) \in 4..5
           /\ \A i \in 1..Len(ChannelMatrix(k)) : ChannelMatrix(k)[i] \in Channels
<1>1. CASE k[2] = "P0"
    <2>1. ChannelMatrix(k) = <<"webhook", "ding", "wework", "sms", "voice">>
        BY <1>1 DEF ChannelMatrix
    <2>. QED BY <2>1 DEF Channels
<1>2. CASE k[2] # "P0"
    <2>1. ChannelMatrix(k) = <<"webhook", "ding", "wework", "sms">>
        BY <1>2 DEF ChannelMatrix
    <2>. QED BY <2>1 DEF Channels
<1>. QED BY <1>1, <1>2

LEMMA InitPush == Init => PushInv
<1> SUFFICES ASSUME Init PROVE PushInv  OBVIOUS
<1>1. \A e \in Events : pushed[e] = <<>> /\ pc[e] = "new" /\ e \notin Alerts
    BY AlertAssumption DEF Init, Alerts
<1>2. pushed \in [Events -> Seq(Channels)]
    BY DEF Init
<1>. QED BY <1>1, <1>2 DEF PushInv, PushState

\* A task of which nothing changed is as it was.
LEMMA SamePush ==
    ASSUME NEW e \in Events, PushState(e),
           pushed'[e] = pushed[e], pc'[e] = pc[e], alertOf'[e] = alertOf[e],
           e \in Alerts => key'[e] = key[e]
    PROVE  PushState(e)'
<1>1. e \in Alerts <=> e \in Alerts'
    BY DEF Alerts
<1>2. pc'[e] = "dispatching" => e \in Alerts
    BY DEF PushState
<1>. QED BY <1>1, <1>2 DEF PushState, Remaining

LEMMA OnEventPush ==
    ASSUME Inv, PushInv, NEW e \in Events, NEW k \in Keys, OnEvent(e, k)
    PROVE  PushInv'
<1>1. /\ pc[e] = "new" /\ pushed' = pushed /\ key' = [key EXCEPT ![e] = k]
      /\ TypeOK /\ Untouched /\ RecentIsLatest
    BY DEF OnEvent, Inv
<1>2. e \notin Alerts /\ pushed[e] = <<>> /\ alertOf[e] = None
    BY <1>1, AlertAssumption DEF Untouched, Alerts, PushInv, PushState
<1>3. key'[e] = k
    BY <1>1 DEF TypeOK
<1>4. PushState(e)'
    <2>1. CASE Ignore(e, k)
        <3>1. alertOf'[e] = None /\ pc'[e] = "returned"
            BY <1>1, <1>2, <2>1 DEF Ignore, TypeOK
        <3>2. e \notin Alerts'
            BY <3>1, AlertAssumption DEF Alerts
        <3>. QED BY <1>1, <1>2, <3>1, <3>2 DEF PushState
    <2>2. CASE Merge(e, k)
        <3>1. alertOf'[e] = recent[k] /\ pc'[e] = "returned" /\ recent[k] \in Alerts
            BY <1>1, <2>2 DEF Merge, Fresh, TypeOK, RecentIsLatest
        <3>2. e \notin Alerts'
            BY <1>2, <3>1 DEF Alerts
        <3>. QED BY <1>1, <1>2, <3>1, <3>2 DEF PushState
    <2>3. CASE Open(e, k)
        <3>1. alertOf'[e] = e /\ pc'[e] = "alerting" /\ AlertKey(k)
            BY <1>1, <2>3 DEF Open, TypeOK
        <3>. QED BY <1>1, <1>2, <1>3, <3>1, MatrixFacts DEF PushState, Alerts
    <2>. QED BY <2>1, <2>2, <2>3 DEF OnEvent
<1>5. ASSUME NEW d \in Events, d # e
      PROVE  PushState(d)'
    <2>1. pc'[d] = pc[d] /\ alertOf'[d] = alertOf[d] /\ key'[d] = key[d]
        BY <1>1, <1>5 DEF OnEvent, Ignore, Merge, Open, TypeOK
    <2>. QED BY <1>1, <2>1, SamePush DEF PushInv
<1>. QED BY <1>1, <1>4, <1>5 DEF PushInv

\* A turn of the dispatcher's loop publishes the next channel of the matrix.
LEMMA DispatchPush ==
    ASSUME Inv, PushInv, NEW e \in Events, Dispatch(e)
    PROVE  PushState(e)' /\ pushed' \in [Events -> Seq(Channels)]
<1> DEFINE m == ChannelMatrix(key[e])
           n == Len(pushed[e])
<1>1. /\ pc[e] = "dispatching" /\ TypeOK
      /\ pushed' = [pushed EXCEPT ![e] = Append(pushed[e], m[n + 1])]
      /\ pc' = [pc EXCEPT ![e] = IF Remaining(e) = 1 THEN "returned" ELSE "dispatching"]
      /\ key' = key /\ Alerts' = Alerts
    BY DEF Dispatch, Inv, Alerts
<1>2. /\ e \in Alerts /\ pushed[e] \in Seq(Channels) /\ n \in Nat /\ n < Len(m)
      /\ Len(m) \in 4..5 /\ \A i \in 1..n : pushed[e][i] = m[i]
      /\ key[e] \in Keys /\ AlertKey(key[e])
    <2>1. PushState(e) /\ Len(m) \in 4..5
        BY MatrixFacts DEF PushInv
    <2>2. e \in Alerts /\ Len(m) - n > 0
        BY <1>1, <2>1 DEF PushState, Remaining
    <2>3. pushed[e] \in Seq(Channels) /\ n \in Nat
        BY <2>1 DEF PushState
    <2>4. /\ \A i \in 1..n : pushed[e][i] = m[i]
          /\ key[e] \in Keys /\ AlertKey(key[e])
        BY <2>1, <2>2 DEF PushState
    <2>5. n < Len(m)
        <3> HIDE DEF m, n
        <3>. QED BY <2>1, <2>2, <2>3
    <2> HIDE DEF m, n
    <2>. QED BY <2>1, <2>2, <2>3, <2>4, <2>5
<1>3. m[n + 1] \in Channels
    BY <1>2, MatrixFacts
<1>4. pushed'[e] = Append(pushed[e], m[n + 1])
    BY <1>1 DEF PushInv
<1>5. /\ pushed'[e] \in Seq(Channels) /\ Len(pushed'[e]) = n + 1
      /\ \A i \in 1..(n + 1) : pushed'[e][i] = m[i]
    BY <1>2, <1>3, <1>4
<1>6. pc'[e] = IF Len(m) - n = 1 THEN "returned" ELSE "dispatching"
    BY <1>1 DEF TypeOK, Remaining
<1>7. PushState(e)'
    <2>1. Remaining(e)' = Len(m) - (n + 1)
        BY <1>1, <1>5 DEF Remaining
    <2>2. e \in Alerts' /\ key'[e] = key[e]
        BY <1>1, <1>2
    <2>3. Len(pushed'[e]) <= Len(m) /\ \A i \in 1..Len(pushed'[e]) : pushed'[e][i] = m[i]
        BY <1>2, <1>5
    <2>4. /\ pc'[e] # "alerting" /\ pc'[e] # "new"
          /\ pc'[e] = "dispatching" => Remaining(e)' > 0
          /\ pc'[e] = "returned" => Remaining(e)' = 0
        <3>1. n \in Nat /\ Len(m) \in Nat /\ n < Len(m)
            BY <1>2
        <3> HIDE DEF m, n
        <3>. QED BY <1>6, <2>1, <3>1
    <2> HIDE DEF n
    <2>. QED BY <1>1, <1>2, <1>5, <2>2, <2>3, <2>4 DEF PushState
<1>. QED BY <1>1, <1>5, <1>7 DEF PushInv

LEMMA NextPush == Inv /\ PushInv /\ [Next]_vars => PushInv'
<1> SUFFICES ASSUME Inv, PushInv, [Next]_vars
             PROVE  PushInv'
    OBVIOUS
<1>1. TypeOK
    BY DEF Inv
<1>2. CASE UNCHANGED vars \/ \E t \in Times : Clock(t)
    <2>1. UNCHANGED <<pushed, pc, alertOf, key>>
        BY <1>2 DEF vars, Clock
    <2>. QED BY <2>1, SamePush DEF PushInv
<1>3. ASSUME NEW e \in Events, NEW k \in Keys, OnEvent(e, k)
      PROVE  PushInv'
    BY <1>3, OnEventPush
<1>4. ASSUME NEW e \in Events, PublishAlert(e) \/ PublishFails(e) \/ Dispatch(e)
      PROVE  PushInv'
    <2>1. /\ alertOf' = alertOf /\ key' = key /\ Alerts' = Alerts
          /\ \A d \in Events : d # e => pc'[d] = pc[d] /\ pushed'[d] = pushed[d]
        BY <1>1, <1>4 DEF PublishAlert, PublishFails, Dispatch, Alerts, TypeOK, PushInv
    <2>2. \A d \in Events : d # e => PushState(d)'
        BY <2>1, SamePush DEF PushInv
    <2>3. PushState(e)' /\ pushed' \in [Events -> Seq(Channels)]
        <3>1. CASE Dispatch(e)
            BY <3>1, DispatchPush
        <3>2. CASE PublishFails(e)
            <4>1. pushed' = pushed /\ pc'[e] = "raised" /\ pc[e] \in {"alerting", "dispatching"}
                BY <1>1, <3>2 DEF PublishFails, TypeOK
            <4>. QED BY <2>1, <4>1 DEF PushInv, PushState
        <3>3. CASE PublishAlert(e)
            <4>1. pushed' = pushed /\ pc'[e] = "dispatching" /\ pc[e] = "alerting"
                BY <1>1, <3>3 DEF PublishAlert, TypeOK
            <4>2. pushed[e] = <<>> /\ PushState(e)
                BY <4>1 DEF PushInv, PushState
            <4>3. Remaining(e)' > 0
                BY <2>1, <4>1, <4>2, MatrixFacts DEF Remaining
            <4>. QED BY <2>1, <4>1, <4>2, <4>3 DEF PushInv, PushState
        <3>. QED BY <1>4, <3>1, <3>2, <3>3
    <2>. QED BY <2>2, <2>3 DEF PushInv
<1>5. ASSUME Restart
      PROVE  PushInv'
    <2>1. /\ pushed' = pushed /\ UNCHANGED <<alertOf, key>> /\ Alerts' = Alerts
          /\ \A e \in Events : pc'[e] = IF pc[e] \in {"alerting", "dispatching"}
                                         THEN "killed" ELSE pc[e]
        BY <1>5 DEF Restart, Alerts
    <2>2. ASSUME NEW e \in Events
          PROVE  PushState(e)'
        <3>1. CASE pc[e] \in {"alerting", "dispatching"}
            BY <2>1, <3>1 DEF PushInv, PushState
        <3>2. CASE pc[e] \notin {"alerting", "dispatching"}
            BY <2>1, <3>2, SamePush DEF PushInv
        <3>. QED BY <3>1, <3>2
    <2>. QED BY <2>1, <2>2 DEF PushInv
<1>. QED BY <1>2, <1>3, <1>4, <1>5 DEF Next

\* What is published of an alert is the beginning of its channel matrix, published
\* by the task that opened it, which returns only when the whole matrix is done.
THEOREM PushesFollowTheMatrix == Spec => []PushedOnce
<1>1. PushInv => PushedOnce
    <2> SUFFICES ASSUME PushInv, NEW e \in Events, pushed[e] # <<>>
                 PROVE  e \in Alerts /\ pushed[e] = SubSeq(ChannelMatrix(key[e]), 1, Len(pushed[e]))
        BY DEF PushedOnce, PushInv, PushState
    <2> DEFINE m == ChannelMatrix(key[e])
    <2>1. /\ e \in Alerts /\ pushed[e] \in Seq(Channels) /\ Len(pushed[e]) <= Len(m)
          /\ \A i \in 1..Len(pushed[e]) : pushed[e][i] = m[i]
        BY DEF PushInv, PushState
    <2>2. m \in Seq(Channels) /\ Len(m) \in Nat
        BY MatrixFacts
    <2> HIDE DEF m
    <2>3. pushed[e] = SubSeq(m, 1, Len(pushed[e]))
        BY <2>1, <2>2
    <2>. QED BY <2>1, <2>3 DEF m
<1>. QED BY <1>1, InitPush, NextPush, SpecInv, PTL DEF Spec

-----------------------------------------------------------------------------
(* Accepted events.  An event that was merged depends on a task it knows    *)
(* nothing of: the one that opened the alert, which may still be           *)
(* publishing, have raised or have been killed.                             *)

\* An event on_event has seen has a key, and an alert of that key if the key alerts.
HasItsAlert(e) ==
    pc[e] # "new" =>
        /\ key[e] \in Keys
        /\ AlertKey(key[e]) => alertOf[e] \in Alerts /\ key[alertOf[e]] = key[e]

PusherInv == Inv /\ PushInv /\ \A e \in Events : HasItsAlert(e)

\* The alert of an accepted P0 event is of its own stream and severity, and on all
\* channels, or its task has raised, was killed or is still at work.
AcceptedHasItsPusher ==
    \A e \in Events :
        pc[e] = "returned" /\ key[e][2] = "P0" =>
            /\ alertOf[e] \in Alerts /\ key[alertOf[e]] = key[e]
            /\ PushedThrough(e) \/ PusherStopped(e) \/ pc[alertOf[e]] \in {"alerting", "dispatching"}

\* The publishes e's task has before it.
Turns(e) ==
    CASE pc[e] = "alerting"    -> Len(ChannelMatrix(key[e])) + 1
      [] pc[e] = "dispatching" -> Remaining(e)
      [] OTHER                 -> 0

\* They grow fewer with every step of the task, and with no other task's step; a
\* restart leaves none.
TurnsAreSpent ==
    [][\A e \in Events : pc[e] # "new" =>
          CASE Running(e) -> Turns(e)' < Turns(e)
            [] Restart    -> Turns(e)' = 0
            [] OTHER      -> Turns(e)' = Turns(e)]_vars

\* An alert stays an alert of its key, so what was true of an event remains so.
LEMMA AlertsStay ==
    ASSUME Inv, [Next]_vars, NEW e \in Events, pc[e] # "new"
    PROVE  key'[e] = key[e] /\ alertOf'[e] = alertOf[e] /\ (e \in Alerts => e \in Alerts')
<1>1. TypeOK
    BY DEF Inv
<1>2. key'[e] = key[e] /\ alertOf'[e] = alertOf[e]
    <2>1. ASSUME NEW d \in Events, NEW k \in Keys, OnEvent(d, k)
          PROVE  key'[e] = key[e] /\ alertOf'[e] = alertOf[e]
        BY <1>1, <2>1 DEF OnEvent, Ignore, Merge, Open, TypeOK
    <2>2. ASSUME NEW d \in Events, PublishAlert(d) \/ Dispatch(d) \/ PublishFails(d)
          PROVE  key'[e] = key[e] /\ alertOf'[e] = alertOf[e]
        BY <2>2 DEF PublishAlert, Dispatch, PublishFails
    <2>3. ASSUME UNCHANGED vars \/ \E t \in Times : Clock(t)
          PROVE  key'[e] = key[e] /\ alertOf'[e] = alertOf[e]
        BY <2>3 DEF vars, Clock
    <2>4. ASSUME Restart
          PROVE  key'[e] = key[e] /\ alertOf'[e] = alertOf[e]
        BY <2>4 DEF Restart
    <2>. QED BY <2>1, <2>2, <2>3, <2>4 DEF Next
<1>. QED BY <1>2 DEF Alerts

LEMMA OnEventPusher ==
    ASSUME PusherInv, NEW e \in Events, NEW k \in Keys, OnEvent(e, k)
    PROVE  HasItsAlert(e)'
<1>1. /\ TypeOK /\ RecentIsLatest /\ key' = [key EXCEPT ![e] = k] /\ key'[e] = k
      /\ pc[e] = "new" /\ Inv /\ [Next]_vars
    BY DEF OnEvent, PusherInv, Inv, TypeOK, Next
<1>2. CASE Ignore(e, k)
    BY <1>1, <1>2 DEF Ignore, HasItsAlert
<1>3. CASE Merge(e, k)
    <2>1. alertOf'[e] = recent[k] /\ recent[k] \in Alerts /\ key[recent[k]] = k
        BY <1>1, <1>3 DEF Merge, Fresh, TypeOK, RecentIsLatest
    <2>2. recent[k] \in Events /\ pc[recent[k]] # "new"
        BY <2>1 DEF PusherInv, PushInv, PushState, Alerts
    <2>3. recent[k] \in Alerts' /\ key'[recent[k]] = k
        BY <1>1, <2>1, <2>2, AlertsStay
    <2>. QED BY <1>1, <2>1, <2>3 DEF HasItsAlert
<1>4. CASE Open(e, k)
    <2>1. alertOf'[e] = e
        BY <1>1, <1>4 DEF Open, TypeOK
    <2>. QED BY <1>1, <2>1 DEF HasItsAlert, Alerts
<1>. QED BY <1>2, <1>3, <1>4 DEF OnEvent

LEMMA NextPusher == PusherInv /\ [Next]_vars => PusherInv'
<1> SUFFICES ASSUME PusherInv, [Next]_vars, NEW e \in Events
             PROVE  HasItsAlert(e)'
    BY NextInv, NextPush DEF PusherInv
<1>1. Inv /\ HasItsAlert(e) /\ TypeOK
    BY DEF PusherInv, Inv
<1>2. CASE \E k \in Keys : OnEvent(e, k)
    BY <1>2, OnEventPusher
<1>3. CASE ~\E k \in Keys : OnEvent(e, k)
    <2>1. pc'[e] # "new" => pc[e] # "new"
        <3>1. ASSUME NEW d \in Events, NEW k \in Keys, OnEvent(d, k)
              PROVE  pc'[e] = pc[e]
            BY <1>1, <1>3, <3>1 DEF OnEvent, Ignore, Merge, Open, TypeOK
        <3>2. ASSUME NEW d \in Events, PublishAlert(d) \/ Dispatch(d) \/ PublishFails(d)
              PROVE  pc'[e] # "new" => pc[e] # "new"
            BY <1>1, <3>2 DEF PublishAlert, Dispatch, PublishFails, TypeOK
        <3>3. ASSUME UNCHANGED vars \/ \E t \in Times : Clock(t)
              PROVE  pc' = pc
            BY <3>3 DEF vars, Clock
        <3>4. ASSUME Restart
              PROVE  pc'[e] # "new" => pc[e] # "new"
            BY <1>1, <3>4 DEF Restart, TypeOK
        <3>. QED BY <3>1, <3>2, <3>3, <3>4 DEF Next
    <2> SUFFICES ASSUME pc[e] # "new"
                 PROVE  HasItsAlert(e)'
        BY <2>1 DEF HasItsAlert
    <2>2. key'[e] = key[e] /\ alertOf'[e] = alertOf[e]
        BY <1>1, AlertsStay
    <2>3. CASE AlertKey(key[e])
        <3>1. alertOf[e] \in Alerts /\ key[alertOf[e]] = key[e]
            BY <1>1, <2>3 DEF HasItsAlert
        <3>2. alertOf[e] \in Events /\ pc[alertOf[e]] # "new"
            BY <3>1 DEF PusherInv, PushInv, PushState, Alerts
        <3>3. alertOf[e] \in Alerts' /\ key'[alertOf[e]] = key[alertOf[e]]
            BY <1>1, <3>1, <3>2, AlertsStay
        <3>. QED BY <1>1, <2>2, <3>1, <3>3 DEF HasItsAlert
    <2>4. CASE ~AlertKey(key[e])
        <3>1. ~AlertKey(key'[e])
            BY <2>2, <2>4
        <3>. QED BY <1>1, <2>2, <3>1 DEF HasItsAlert
    <2>. QED BY <2>3, <2>4
<1>. QED BY <1>2, <1>3

\* A step of e's task, of the three it has.
LEMMA TaskSpends ==
    ASSUME PusherInv, NEW e \in Events, Running(e)
    PROVE  Turns(e)' < Turns(e)
<1> DEFINE m == Len(ChannelMatrix(key[e]))
           n == Len(pushed[e])
<1>1. /\ TypeOK /\ key' = key /\ pc[e] \in {"alerting", "dispatching"} /\ PushState(e)
      /\ pushed \in [Events -> Seq(Channels)]
    BY DEF Running, PublishAlert, Dispatch, PublishFails, PusherInv, Inv, PushInv
<1>2. m \in 4..5 /\ n \in Nat /\ Remaining(e) = m - n
    BY <1>1, MatrixFacts DEF Remaining
<1>3. Turns(e) \in Nat \ {0}
    <2> HIDE DEF m, n
    <2>1. CASE pc[e] = "alerting"
        <3>1. Turns(e) = m + 1  BY <2>1 DEF Turns, m
        <3>. QED BY <1>2, <3>1
    <2>2. CASE pc[e] = "dispatching"
        <3>1. Turns(e) = Remaining(e) /\ Remaining(e) > 0  BY <1>1, <2>2 DEF Turns, PushState
        <3>. QED BY <1>2, <3>1
    <2>. QED BY <1>1, <2>1, <2>2
<1>4. CASE pc'[e] \in {"returned", "raised"}
    <2>1. Turns(e)' = 0  BY <1>4 DEF Turns
    <2>. QED BY <1>3, <2>1
<1>5. CASE PublishAlert(e)
    <2>1. pc[e] = "alerting" /\ pc'[e] = "dispatching" /\ pushed' = pushed /\ pushed[e] = <<>>
        BY <1>1, <1>5 DEF PublishAlert, TypeOK, PushState
    <2>2. Turns(e) = m + 1
        BY <2>1 DEF Turns
    <2>3. Turns(e)' = m - 0
        BY <1>1, <2>1 DEF Turns, Remaining
    <2> HIDE DEF m, n
    <2>. QED BY <1>2, <2>2, <2>3
<1>6. CASE Dispatch(e) /\ pc'[e] = "dispatching"
    <2>1. pc[e] = "dispatching" /\ pushed'[e] = Append(pushed[e], ChannelMatrix(key[e])[n + 1])
        BY <1>1, <1>6 DEF Dispatch
    <2>2. Len(pushed'[e]) = n + 1
        <3>1. pushed[e] \in Seq(Channels) /\ n + 1 \in 1..m
            <4>1. Remaining(e) > 0  BY <1>1, <2>1 DEF PushState
            <4>2. m \in Nat /\ n \in Nat /\ m - n > 0
                <5> HIDE DEF m, n
                <5>. QED BY <1>2, <4>1
            <4>3. n + 1 \in 1..m
                <5> HIDE DEF m, n
                <5>. QED BY <4>2
            <4>. QED BY <1>1, <4>3
        <3>2. ChannelMatrix(key[e])[n + 1] \in Channels
            BY <3>1, MatrixFacts
        <3>. QED BY <2>1, <3>1, <3>2
    <2>3. Turns(e) = m - n
        BY <1>2, <2>1 DEF Turns
    <2>4. Turns(e)' = m - (n + 1)
        BY <1>1, <1>6, <2>2 DEF Turns, Remaining
    <2> HIDE DEF m, n
    <2>. QED BY <1>2, <2>3, <2>4
<1>7. PublishFails(e) => pc'[e] = "raised"
    BY <1>1 DEF PublishFails, TypeOK
<1>8. Dispatch(e) => pc'[e] \in {"returned", "dispatching"}
    BY <1>1 DEF Dispatch, TypeOK
<1>. QED BY <1>4, <1>5, <1>6, <1>7, <1>8 DEF Running

\* For any events, streams and settings of the clock: an accepted P0 event has an
\* alert of its own stream, that alert is through, given up by an exception or a
\* restart, or in the hands of a task, and every task has a bounded number of publishes to make.
THEOREM AcceptedAreInHand == Spec => []AcceptedHasItsPusher /\ TurnsAreSpent
<1>1. Init => PusherInv
    BY InitInv, InitPush DEF Init, PusherInv, HasItsAlert
<1>2. PusherInv => AcceptedHasItsPusher
    <2> SUFFICES ASSUME PusherInv, NEW e \in Events, pc[e] = "returned", key[e][2] = "P0"
                 PROVE  /\ alertOf[e] \in Alerts /\ key[alertOf[e]] = key[e]
                        /\ \/ PushedThrough(e) \/ PusherStopped(e)
                           \/ pc[alertOf[e]] \in {"alerting", "dispatching"}
        BY DEF AcceptedHasItsPusher
    <2>1. alertOf[e] \in Alerts /\ key[alertOf[e]] = key[e]
        BY DEF PusherInv, HasItsAlert, AlertKey
    <2>2. alertOf[e] \in Events /\ alertOf[e] # None
        BY <2>1, AlertAssumption DEF Alerts
    <2>3. PushState(alertOf[e]) /\ pc[alertOf[e]] # "new"
        BY <2>1, <2>2 DEF PusherInv, PushInv, PushState
    <2>4. pc[alertOf[e]] = "returned" => Remaining(alertOf[e]) = 0
        BY <2>1, <2>3 DEF PushState
    <2>5. pc[alertOf[e]] \in {"alerting", "dispatching", "returned", "raised", "killed"}
        BY <2>2, <2>3 DEF PusherInv, Inv, TypeOK
    <2>. QED BY <2>1, <2>2, <2>4, <2>5 DEF PushedThrough, PusherStopped
<1>3. PusherInv /\ [Next]_vars =>
         [\A e \in Events : pc[e] # "new" =>
             CASE Running(e) -> Turns(e)' < Turns(e)
               [] Restart    -> Turns(e)' = 0
               [] OTHER      -> Turns(e)' = Turns(e)]_vars
    <2> SUFFICES ASSUME PusherInv, Next, NEW e \in Events, pc[e] # "new"
                 PROVE  CASE Running(e) -> Turns(e)' < Turns(e)
                          [] Restart    -> Turns(e)' = 0
                          [] OTHER      -> Turns(e)' = Turns(e)
        OBVIOUS
    <2>1. TypeOK /\ key'[e] = key[e]
        BY AlertsStay DEF PusherInv, Inv
    <2>2. ~(Running(e) /\ Restart)
        <3>1. Running(e) => life' = life
            BY DEF Running, PublishAlert, Dispatch, PublishFails
        <3>2. Restart => life' # life
            BY <2>1, AlertAssumption DEF Restart, TypeOK
        <3>. QED BY <3>1, <3>2
    <2>3. Running(e) => Turns(e)' < Turns(e)
        BY TaskSpends
    <2>4. Restart => Turns(e)' = 0
        BY <2>1 DEF Restart, Turns, TypeOK
    <2>5. ASSUME ~Running(e), ~Restart
          PROVE  Turns(e)' = Turns(e)
        <3>1. pc'[e] = pc[e] /\ pushed'[e] = pushed[e]
            <4>1. ASSUME NEW d \in Events, NEW k \in Keys, OnEvent(d, k)
                  PROVE  pc'[e] = pc[e] /\ pushed'[e] = pushed[e]
                BY <2>1, <4>1 DEF OnEvent, Ignore, Merge, Open, TypeOK
            <4>2. ASSUME NEW d \in Events, PublishAlert(d) \/ Dispatch(d) \/ PublishFails(d)
                  PROVE  pc'[e] = pc[e] /\ pushed'[e] = pushed[e]
                <5>1. d # e  BY <2>5, <4>2 DEF Running
                <5>. QED BY <2>1, <4>2, <5>1
                         DEF PublishAlert, Dispatch, PublishFails, TypeOK, PusherInv, PushInv
            <4>3. ASSUME NEW t \in Times, Clock(t)
                  PROVE  pc'[e] = pc[e] /\ pushed'[e] = pushed[e]
                BY <4>3 DEF Clock
            <4>. QED BY <2>5, <4>1, <4>2, <4>3 DEF Next
        <3>. QED BY <2>1, <3>1 DEF Turns, Remaining
    <2>. QED BY <2>2, <2>3, <2>4, <2>5
<1>. QED BY <1>1, <1>2, <1>3, NextPusher, PTL DEF Spec, TurnsAreSpent

=============================================================================
