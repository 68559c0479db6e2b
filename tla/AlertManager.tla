---------------------------- MODULE AlertManager ----------------------------
(***************************************************************************)
(* Alerts from events: the deduplication of AlertManager.on_event          *)
(* (backend/liveguard_backend/services/alert_manager.py) and the pushes of *)
(* NotificationDispatcher.dispatch (services/notify_dispatcher.py) that it *)
(* awaits.                                                                 *)
(*                                                                         *)
(* Each request runs on_event in a task of its own.  The task runs without *)
(* interruption from its start to its first publish, where it may suspend, *)
(* let other tasks run, and raise.  An alert is named by the event that    *)
(* created it.  Tenant and stream are one identity: both are in the key.   *)
(* The cache lives in the process: a restart of the backend empties it and *)
(* ends the tasks that were at work.                                       *)
(***************************************************************************)
EXTENDS Integers, Sequences

CONSTANTS Events,        \* the events the service may be given
          Streams,
          DedupWindow,   \* DEDUP_WINDOW_S
          Times,         \* the readings of datetime.now
          BusMayFail,    \* whether publish can raise (Kafka) or not (in memory)
          MaxRestarts,   \* bound: how often the backend is restarted
          None

Severities == {"INFO", "P1", "P0"}
Keys == Streams \X Severities

ASSUME AlertAssumption ==
    /\ DedupWindow \in Nat
    /\ Times \subseteq Nat
    /\ BusMayFail \in BOOLEAN
    /\ MaxRestarts \in Nat
    /\ None \notin Events

VARIABLES now,         \* the clock; it may be set back
          life,        \* how often the backend has been restarted
          recent,      \* _recent: key -> latest alert
          key,         \* the key of each event on_event was called with
          alertOf,     \* the alert that has the event among its event_ids
          firstSeen,   \* first_seen_at of the alerts
          bornIn,      \* the life of the backend that opened the alert
          pushed,      \* channels of the alert's jobs published so far
          pc           \* where the task of each event is

vars == <<now, life, recent, key, alertOf, firstSeen, bornIn, pushed, pc>>

AlertKey(k) == k[2] \in {"P1", "P0"}

\* DEFAULT_CHANNEL_MATRIX, for the severities that alert.
ChannelMatrix(k) ==
    IF k[2] = "P0" THEN <<"webhook", "ding", "wework", "sms", "voice">>
                   ELSE <<"webhook", "ding", "wework", "sms">>

-----------------------------------------------------------------------------

\* A definition named Mutant... is the operator that follows it with a plausible
\* mistake, for checking the properties.
MutantFresh(k) == recent[k] # None /\ now - firstSeen[recent[k]] < DedupWindow - 1

\* The key has an alert that is still within its deduplication window.
Fresh(k) == recent[k] # None /\ now - firstSeen[recent[k]] < DedupWindow

\* INFO only: no alert.
Ignore(e, k) ==
    /\ ~AlertKey(k)
    /\ pc' = [pc EXCEPT ![e] = "returned"]
    /\ UNCHANGED <<recent, alertOf, firstSeen, bornIn>>

Merge(e, k) ==
    /\ AlertKey(k) /\ Fresh(k)
    /\ alertOf' = [alertOf EXCEPT ![e] = recent[k]]
    /\ pc' = [pc EXCEPT ![e] = "returned"]
    /\ UNCHANGED <<recent, firstSeen, bornIn>>

\* The alert enters the cache before anything is published.
Open(e, k) ==
    /\ AlertKey(k) /\ ~Fresh(k)
    /\ recent' = [recent EXCEPT ![k] = e]
    /\ alertOf' = [alertOf EXCEPT ![e] = e]
    /\ firstSeen' = [firstSeen EXCEPT ![e] = now]
    /\ bornIn' = [bornIn EXCEPT ![e] = life]
    /\ pc' = [pc EXCEPT ![e] = "alerting"]

OnEvent(e, k) ==
    /\ pc[e] = "new"
    /\ key' = [key EXCEPT ![e] = k]
    /\ Ignore(e, k) \/ Merge(e, k) \/ Open(e, k)
    /\ UNCHANGED <<now, life, pushed>>

MutantPublishAlert(e) ==
    /\ pc[e] = "alerting"
    /\ pc' = [pc EXCEPT ![e] = "returned"]
    /\ UNCHANGED <<now, life, recent, key, alertOf, firstSeen, bornIn, pushed>>

\* publish("alerts.v1") returns; the task goes on to the dispatcher.
PublishAlert(e) ==
    /\ pc[e] = "alerting"
    /\ pc' = [pc EXCEPT ![e] = "dispatching"]
    /\ UNCHANGED <<now, life, recent, key, alertOf, firstSeen, bornIn, pushed>>

Remaining(e) == Len(ChannelMatrix(key[e])) - Len(pushed[e])

MutantDispatch(e) ==
    /\ pc[e] = "dispatching"
    /\ pushed' = [pushed EXCEPT ![e] = Append(@, ChannelMatrix(key[e])[1])]
    /\ pc' = [pc EXCEPT ![e] = IF Remaining(e) = 1 THEN "returned" ELSE "dispatching"]
    /\ UNCHANGED <<now, life, recent, key, alertOf, firstSeen, bornIn>>

\* One turn of dispatch's loop: one job on notify.jobs.v1 for the next channel.
Dispatch(e) ==
    /\ pc[e] = "dispatching"
    /\ pushed' = [pushed EXCEPT ![e] = Append(@, ChannelMatrix(key[e])[Len(@) + 1])]
    /\ pc' = [pc EXCEPT ![e] = IF Remaining(e) = 1 THEN "returned" ELSE "dispatching"]
    /\ UNCHANGED <<now, life, recent, key, alertOf, firstSeen, bornIn>>

\* A publish raises: the exception leaves on_event, and nothing is undone.
PublishFails(e) ==
    /\ BusMayFail
    /\ pc[e] \in {"alerting", "dispatching"}
    /\ pc' = [pc EXCEPT ![e] = "raised"]
    /\ UNCHANGED <<now, life, recent, key, alertOf, firstSeen, bornIn, pushed>>

\* Time passes, or the wall clock is set.
Clock(t) ==
    /\ now' = t
    /\ UNCHANGED <<life, recent, key, alertOf, firstSeen, bornIn, pushed, pc>>

\* The backend goes down and comes back: a new AlertManager with an empty cache,
\* and the tasks that were publishing are gone.  Nothing restores either.
Restart ==
    /\ life < MaxRestarts
    /\ life' = life + 1
    /\ recent' = [k \in Keys |-> None]
    /\ pc' = [e \in Events |->
                 IF pc[e] \in {"alerting", "dispatching"} THEN "killed" ELSE pc[e]]
    /\ UNCHANGED <<now, key, alertOf, firstSeen, bornIn, pushed>>

Init ==
    /\ now \in Times
    /\ life = 0
    /\ recent = [k \in Keys |-> None]
    /\ key = [e \in Events |-> None]
    /\ alertOf = [e \in Events |-> None]
    /\ firstSeen = [e \in Events |-> 0]
    /\ bornIn = [e \in Events |-> 0]
    /\ pushed = [e \in Events |-> <<>>]
    /\ pc = [e \in Events |-> "new"]

Next ==
    \/ \E e \in Events :
          \/ \E k \in Keys : OnEvent(e, k)
          \/ PublishAlert(e)
          \/ Dispatch(e)
          \/ PublishFails(e)
    \/ \E t \in Times : Clock(t)
    \/ Restart

Spec == Init /\ [][Next]_vars

\* A task that can run is run: every await on the bus ends, one way or the other.
Running(e) == PublishAlert(e) \/ Dispatch(e) \/ PublishFails(e)
FairSpec == Spec /\ \A e \in Events : WF_vars(Running(e))

-----------------------------------------------------------------------------
(* Properties *)

Alerts == {e \in Events : alertOf[e] = e}

\* Every variable holds what the code can put in it.
TypeOK ==
    /\ now \in Times
    /\ life \in 0..MaxRestarts
    /\ recent \in [Keys -> Events \union {None}]
    /\ key \in [Events -> Keys \union {None}]
    /\ alertOf \in [Events -> Events \union {None}]
    /\ firstSeen \in [Events -> Nat]
    /\ bornIn \in [Events -> 0..life]
    /\ pc \in [Events -> {"new", "alerting", "dispatching", "returned", "raised", "killed"}]

\* An event on_event was not called with has left no trace.
Untouched == \A e \in Events : pc[e] = "new" => alertOf[e] = None

\* Two P1 alerts of one stream that one life of the backend opened are never within
\* the deduplication window of each other, however events, suspended publishes and
\* changes of the wall clock fall.  A restart forgets the window.
DedupSpacing ==
    \A a, b \in Alerts :
        a # b /\ key[a] = key[b] /\ key[a][2] = "P1" /\ bornIn[a] = bornIn[b] =>
            \/ firstSeen[b] - firstSeen[a] >= DedupWindow
            \/ firstSeen[a] - firstSeen[b] >= DedupWindow

\* The cache holds the newest alert this life of the backend opened for its key, and
\* every earlier one is at least a window older: a task suspended in a publish never
\* puts an older alert back, and setting the clock back never lets a newer alert look
\* older.
RecentIsLatest ==
    \A k \in Keys :
        /\ recent[k] # None =>
              recent[k] \in Alerts /\ key[recent[k]] = k /\ bornIn[recent[k]] = life
        /\ \A a \in Alerts : key[a] = k /\ bornIn[a] = life =>
              /\ recent[k] # None
              /\ a = recent[k] \/ firstSeen[recent[k]] - firstSeen[a] >= DedupWindow

\* What the business plan and its suppression study promise for P0: no P0 event is
\* held back by the window, each opens an alert of its own and is pushed at once.
P0GoesStraightThrough ==
    \A e \in Events : pc[e] # "new" /\ key[e][2] = "P0" => alertOf[e] = e

\* Only the task that opened an alert pushes it, in the order of the matrix and
\* once per channel, and it returns normally only when all channels are done.
PushedOnce ==
    \A e \in Events :
        /\ pushed[e] # <<>> =>
              e \in Alerts /\ pushed[e] = SubSeq(ChannelMatrix(key[e]), 1, Len(pushed[e]))
        /\ e \in Alerts /\ pc[e] = "returned" => Remaining(e) = 0

\* The module's own promise (P0 is created and pushed to the Notify Service at once)
\* for every P0 event that on_event accepted: its alert reaches every channel.
PushedThrough(e) == alertOf[e] # None /\ Remaining(alertOf[e]) = 0
AcceptedIsPushed ==
    \A e \in Events : (pc[e] = "returned" /\ key[e][2] = "P0") ~> PushedThrough(e)

\* What is left of that promise on a bus that may fail: the alert of an accepted P0
\* event, its own or the one it was merged into, reaches every channel unless the
\* task that pushes it raises or dies with the backend.
PusherStopped(e) == alertOf[e] # None /\ pc[alertOf[e]] \in {"raised", "killed"}
AcceptedIsPushedUnlessStopped ==
    \A e \in Events :
        (pc[e] = "returned" /\ key[e][2] = "P0")
            ~> (PushedThrough(e) \/ PusherStopped(e))

=============================================================================
