------------------------------ MODULE EventTrail ------------------------------
(***************************************************************************)
(* What one stream's life leaves behind: IngestService.ingest makes of a   *)
(* frame's transition and cheat flags records for the table and CloudEvents*)
(* for the bus, publishes the latter one by one, and returns the former to *)
(* the router, which stores them.  InMemoryEventBus appends a message to   *)
(* its list before it suspends in its subscribers, and a subscriber that   *)
(* raises ends the request.                                                *)
(***************************************************************************)
EXTENDS Integers, Sequences, SequencesExt

CONSTANTS
    Patterns,     \* the cheat patterns that may be flagged
    MaxFed        \* bound on the frames

VARIABLES
    machineState,   \* StreamFSM.state
    fed,            \* frames so far; it numbers their events
    published,      \* InMemoryEventBus._published, topic streams.events.v1
    ingests,        \* requests in progress
    storedEvents,   \* committed rows of the events table
    counted         \* EVENTS_TOTAL

trailVars == <<machineState, fed, published, ingests, storedEvents, counted>>
------------------------------------------------------------------------------
(* The transitions of StreamFSM._next_state. *)
Moves(from) ==
    CASE from = "IDLE" -> {"ON_DUTY"}
      [] from = "ON_DUTY" -> {"BRIEF_AWAY"}
      [] from = "BRIEF_AWAY" -> {"ON_DUTY", "LONG_AWAY"}
      [] from = "LONG_AWAY" -> {"ON_DUTY", "ALERT_ESCALATED"}
      [] from = "ALERT_ESCALATED" -> {"ON_DUTY"}

Severity(to) ==
    CASE to = "ALERT_ESCALATED" -> "P0"
      [] to = "LONG_AWAY" -> "P1"
      [] OTHER -> "INFO"

(* _event_type of the service, for the row of a transition. *)
RecordType(to) ==
    CASE to = "LONG_AWAY" -> "host_offline_alert"
      [] to = "ALERT_ESCALATED" -> "host_offline_escalated"
      [] to = "ON_DUTY" -> "host_online"
      [] to = "BRIEF_AWAY" -> "host_offline"

(* _event_type of the explainer, for its CloudEvent. *)
EnvelopeType(to) ==
    CASE to = "LONG_AWAY" -> "host_offline_alert"
      [] to = "ALERT_ESCALATED" -> "host_offline_escalated"
      [] to = "ON_DUTY" -> "host_online"
      [] to = "BRIEF_AWAY" -> "host_offline"

(* Both carry the event_id of the transition. *)
RecordOf(n, from, to) ==
    [id |-> <<"evt", n>>, type |-> RecordType(to), from |-> from, to |-> to, severity |-> Severity(to)]

EnvelopeOf(n, from, to) ==
    [id |-> <<"evt", n>>, type |-> EnvelopeType(to), from |-> from, to |-> to, severity |-> Severity(to)]

FlagSeverity(p) == IF p \in {"LOOPED_VIDEO", "SCREEN_REPLAY"} THEN "P1" ELSE "P0"

(* A flag's row and its CloudEvent are given ids of their own.              *)
FlagRecord(n, p) ==
    [id |-> <<"evt_row", n, p>>, type |-> p, from |-> "ANY", to |-> "CHEAT_FLAGGED", severity |-> FlagSeverity(p)]

FlagEnvelope(n, p) ==
    [id |-> <<"evt_cheat", n, p>>, type |-> p, from |-> "ANY", to |-> "CHEAT_FLAGGED", severity |-> FlagSeverity(p)]

(* The transition of a frame, if it makes one, as <<from, to>>.             *)
Transitions(s) == {<<>>} \cup {<<s, to>> : to \in Moves(s)}

EventRows(n, move, flags) ==
    (IF move = <<>> THEN << >> ELSE <<RecordOf(n, move[1], move[2])>>)
        \o [i \in DOMAIN flags |-> FlagRecord(n, flags[i])]

MutantEnvelopes(n, move, flags) ==
    [i \in DOMAIN flags |-> FlagEnvelope(n, flags[i])]
        \o (IF move = <<>> THEN << >> ELSE <<EnvelopeOf(n, move[1], move[2])>>)

(* The transition goes to the bus first, then the flags.                    *)
Envelopes(n, move, flags) ==
    (IF move = <<>> THEN << >> ELSE <<EnvelopeOf(n, move[1], move[2])>>)
        \o [i \in DOMAIN flags |-> FlagEnvelope(n, flags[i])]

(* explain_event, which only the tests call: the grade that the headline    *)
(* names, the states of the summary, and what it asks to be done.           *)
Headline(to) ==
    CASE to = "LONG_AWAY" -> "P1"
      [] to = "ALERT_ESCALATED" -> "P0"
      [] OTHER -> "INFO"

Recommended(from, to) ==
    CASE to = "LONG_AWAY" -> {"remind the host", "check the broadcast", "wait 60 s for P0"}
      [] to = "ALERT_ESCALATED" -> {"phone", "call the NOC", "switch or pause"}
      [] to = "ON_DUTY" /\ from \in {"LONG_AWAY", "ALERT_ESCALATED"} -> {"archive"}
      [] OTHER -> {}

Explained(e) ==
    [headline |-> Headline(e.to), summary |-> <<e.from, e.to>>, actions |-> Recommended(e.from, e.to)]
------------------------------------------------------------------------------
NoIngest == [phase |-> "none", left |-> << >>, rows |-> << >>]

IngestSlots == 1..2

Publishing(left, rows) ==
    [phase |-> IF left = << >> THEN "answered" ELSE "publishing", left |-> left, rows |-> rows]

(* publish: the message is in the list when the task is suspended.          *)
Appended(log, left) == IF left = << >> THEN log ELSE Append(log, Head(left))

IngestFrame(i) ==
    /\ fed < MaxFed /\ ingests[i] = NoIngest
    /\ \E move \in Transitions(machineState), flags \in {<<>>} \cup {<<p>> : p \in Patterns} :
          LET out == Envelopes(fed, move, flags)
              rows == EventRows(fed, move, flags)
          IN  /\ machineState' = IF move = <<>> THEN machineState ELSE move[2]
              /\ published' = Appended(published, out)
              /\ ingests' = [ingests EXCEPT ![i] = Publishing(out, rows)]
              /\ counted' = counted + Len(rows)
    /\ fed' = fed + 1
    /\ UNCHANGED storedEvents

(* The subscribers of the message are done; the next one is published, and  *)
(* after the last the records go back to the router.                        *)
Published(i) ==
    LET left == Tail(ingests[i].left)
    IN  /\ ingests[i].phase = "publishing"
        /\ published' = Appended(published, left)
        /\ ingests' = [ingests EXCEPT ![i] = Publishing(left, ingests[i].rows)]
        /\ UNCHANGED <<machineState, fed, storedEvents, counted>>

(* A subscriber raises through publish and ingest: the request ends with    *)
(* 500, what is left is not published, and nothing of it is stored.         *)
SubscriberRaises(i) ==
    /\ ingests[i].phase = "publishing"
    /\ ingests' = [ingests EXCEPT ![i] = NoIngest]
    /\ UNCHANGED <<machineState, fed, published, storedEvents, counted>>

StoreRows(i) ==
    /\ ingests[i].phase = "answered"
    /\ storedEvents' = storedEvents \cup ToSet(ingests[i].rows)
    /\ ingests' = [ingests EXCEPT ![i] = NoIngest]
    /\ UNCHANGED <<machineState, fed, published, counted>>

StoreFails(i) ==
    /\ ingests[i].phase = "answered"
    /\ ingests' = [ingests EXCEPT ![i] = NoIngest]
    /\ UNCHANGED <<machineState, fed, published, storedEvents, counted>>

TrailInit ==
    /\ machineState = "IDLE" /\ fed = 0 /\ published = << >>
    /\ ingests = [i \in IngestSlots |-> NoIngest]
    /\ storedEvents = {} /\ counted = 0

TrailNext ==
    \E i \in IngestSlots :
        IngestFrame(i) \/ Published(i) \/ SubscriberRaises(i) \/ StoreRows(i) \/ StoreFails(i)

TrailSpec == TrailInit /\ [][TrailNext]_trailVars
------------------------------------------------------------------------------
IsMove(e) == e.from # "ANY"

(* The move before the k-th message of a log.                               *)
PrecedesIn(log, j, k) ==
    /\ j < k /\ IsMove(log[j])
    /\ \A between \in DOMAIN log : j < between /\ between < k => ~IsMove(log[between])

(* The messages before the k-th leave the stream in state s.                *)
LeavesIn(log, k, s) ==
    \/ \E j \in DOMAIN log : PrecedesIn(log, j, k) /\ log[j].to = s
    \/ s = "IDLE" /\ \A j \in DOMAIN log : j < k => ~IsMove(log[j])

(* Read in its order, the bus tells the life of the stream without a gap:   *)
(* each transition starts where the one before it ended, the last one ends  *)
(* where the machine is, and none is missing although requests overlap and  *)
(* subscribers raise.  A stored transition is one the bus has told, under   *)
(* the same id, type and severity; a stored flag has been told too, though  *)
(* under another id.  And its explanation fits the story: the headline      *)
(* names the severity the event has, whoever is alerted is told what to do, *)
(* and an event is to be archived exactly when it ends an alert.            *)
BusTellsTheStory ==
    /\ \A k \in DOMAIN published : IsMove(published[k]) => LeavesIn(published, k, published[k].from)
    /\ LeavesIn(published, Len(published) + 1, machineState)
    /\ \A r \in storedEvents :
          IF IsMove(r) THEN r \in ToSet(published)
          ELSE \E e \in ToSet(published) : e.id = <<"evt_cheat", r.id[2], r.id[3]>> /\ e.type = r.type
    /\ Len(published) <= counted
    /\ \A k \in DOMAIN published : IsMove(published[k]) =>
          LET report == Explained(published[k])
          IN  /\ report.headline = published[k].severity
              /\ published[k].severity # "INFO" => report.actions # {}
              /\ "archive" \in report.actions <=>
                    /\ published[k].severity = "INFO"
                    /\ \E j \in DOMAIN published : PrecedesIn(published, j, k) /\ published[j].severity # "INFO"
==============================================================================
