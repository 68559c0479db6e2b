---------------------------- MODULE IngestRouter ----------------------------
(***************************************************************************)
(* Requests to POST /v1/ingest/signals for one stream                      *)
(* (backend/liveguard_backend/api/routers/ingest.py), each in a task of    *)
(* its own.  With the in-memory bus that main.py wires, a task runs        *)
(* without interruption from svc.ingest to the database read of            *)
(* update_state, then suspends there, in commit, and in the broadcast to   *)
(* the WebSocket subscribers.  Retries of an upload and several agents on  *)
(* one stream make such tasks overlap.                                     *)
(*                                                                         *)
(* SQLAlchemy writes the columns whose value differs from the one the      *)
(* session read, and leaves the others as they are in the table.           *)
(*                                                                         *)
(* The subscribers are WebSockets of the same router, held by _Hub.        *)
(***************************************************************************)
EXTENDS Integers, FiniteSets

CONSTANTS Requests,   \* the requests that may come (bound)
          States,     \* states of the stream's machine
          Scores,     \* fused scores
          Sockets,    \* the WebSockets that may subscribe (bound)
          Unset

ASSUME RouterAssumption == Unset \notin Requests \union [state : States, score : Scores]

VARIABLES machine,   \* state and last score of the stream's StreamFSM
          row,       \* last_state and last_fusion_score of the streams table
          stored,    \* requests whose transition is in the events table
          subs,      \* _Hub._subs of the stream
          peer,      \* the other end of each socket: "new", "open" or "gone"
          targets,   \* the subscribers a publish has still to send to
          shown,     \* what each subscriber was sent last
          phase,     \* where the task of each request is
          result,    \* what svc.ingest returned to it
          moved,     \* the requests whose frame changed the machine's state
          read,      \* the row its session read
          latest     \* the request ingested last

hubVars == <<subs, peer, targets, shown>>
vars == <<machine, row, stored, phase, result, moved, read, latest, hubVars>>

Columns == {"state", "score"}
Values == [state : States, score : Scores]

InFlight(r) == phase[r] \in {"ingested", "read", "committed", "publishing"}

-----------------------------------------------------------------------------

\* svc.ingest feeds the machine; the handler adds the event to its session and
\* reaches its first suspension, the SELECT of update_state.
Ingest(r, v) ==
    /\ phase[r] = "new"
    /\ machine' = v
    /\ result' = [result EXCEPT ![r] = v]
    /\ moved' = IF v.state # machine.state THEN moved \union {r} ELSE moved
    /\ latest' = r
    /\ phase' = [phase EXCEPT ![r] = "ingested"]
    /\ UNCHANGED <<row, stored, read, hubVars>>

\* session.get in update_state.
Read(r) ==
    /\ phase[r] = "ingested"
    /\ read' = [read EXCEPT ![r] = row]
    /\ phase' = [phase EXCEPT ![r] = "read"]
    /\ UNCHANGED <<machine, row, stored, result, moved, latest, hubVars>>

\* A definition named Mutant... is the operator that follows it with a plausible
\* mistake, for checking the properties.
MutantWritten(r) ==
    [c \in Columns |-> IF c = "state" /\ result[r][c] # read[r][c] THEN result[r][c] ELSE row[c]]

\* The row after the UPDATE of this session.
Written(r) ==
    [c \in Columns |-> IF result[r][c] # read[r][c] THEN result[r][c] ELSE row[c]]

\* session.commit: the event and the row, together.
Commit(r) ==
    /\ phase[r] = "read"
    /\ row' = Written(r)
    /\ stored' = stored \union ({r} \intersect moved)
    /\ read' = [read EXCEPT ![r] = Unset]
    /\ phase' = [phase EXCEPT ![r] = "committed"]
    /\ UNCHANGED <<machine, result, moved, latest, hubVars>>

\* The task of r is over, and what it held with it.
Over(r, how) ==
    /\ phase' = [phase EXCEPT ![r] = how]
    /\ result' = [result EXCEPT ![r] = Unset]
    /\ read' = [read EXCEPT ![r] = Unset]

\* After a publish has sent to all but these sockets.
OnOrOver(r, left) ==
    IF left = {} THEN Over(r, "done")
    ELSE phase' = [phase EXCEPT ![r] = "publishing"] /\ UNCHANGED <<result, read>>

MutantFail(r) ==
    /\ phase[r] \in {"ingested", "read"}
    /\ stored' = stored \union ({r} \intersect moved)
    /\ Over(r, "failed")
    /\ UNCHANGED <<machine, row, moved, latest, hubVars>>

\* The database raises: get_session rolls the session back and the request fails.
\* The machine keeps the frame.
Fail(r) ==
    /\ phase[r] \in {"ingested", "read"}
    /\ Over(r, "failed")
    /\ UNCHANGED <<machine, row, stored, moved, latest, hubVars>>

\* _Hub.publish takes the subscribers of this moment; with none, the request is done.
Publish(r) ==
    /\ phase[r] = "committed"
    /\ targets' = [targets EXCEPT ![r] = subs]
    /\ OnOrOver(r, subs)
    /\ UNCHANGED <<machine, row, stored, moved, latest, subs, peer, shown>>

MutantSend(r, ws) ==
    /\ ws \in targets[r]
    /\ IF peer[ws] = "open"
       THEN /\ shown' = [shown EXCEPT ![ws] = result[r]]
            /\ targets' = [targets EXCEPT ![r] = @ \ {ws}]
            /\ UNCHANGED subs
       ELSE /\ subs' = subs \ {ws}
            /\ targets' = [targets EXCEPT ![r] = {}]
            /\ UNCHANGED shown
    /\ OnOrOver(r, targets'[r])
    /\ UNCHANGED <<machine, row, stored, moved, latest, peer>>

\* One turn of its loop: a subscriber that cannot be sent to is removed, and the
\* loop goes on.
Send(r, ws) ==
    /\ ws \in targets[r]
    /\ targets' = [targets EXCEPT ![r] = @ \ {ws}]
    /\ IF peer[ws] = "open"
       THEN shown' = [shown EXCEPT ![ws] = result[r]] /\ UNCHANGED subs
       ELSE subs' = subs \ {ws} /\ UNCHANGED shown
    /\ OnOrOver(r, targets'[r])
    /\ UNCHANGED <<machine, row, stored, moved, latest, peer>>

routerVars == <<machine, row, stored, phase, result, moved, read, latest, targets, shown>>

\* stream_ws accepts the socket and adds it.
Subscribe(ws) ==
    /\ peer[ws] = "new"
    /\ peer' = [peer EXCEPT ![ws] = "open"]
    /\ subs' = subs \union {ws}
    /\ UNCHANGED routerVars

\* The other end goes away.
Hangup(ws) ==
    /\ peer[ws] = "open"
    /\ peer' = [peer EXCEPT ![ws] = "gone"]
    /\ UNCHANGED <<routerVars, subs>>

\* stream_ws receives the disconnection, if it ever does.
Unsubscribe(ws) ==
    /\ peer[ws] = "gone" /\ ws \in subs
    /\ subs' = subs \ {ws}
    /\ UNCHANGED <<routerVars, peer>>

\* No request is left to come.
Quiet == (\A r \in Requests : phase[r] \in {"done", "failed"}) /\ UNCHANGED vars

\* The stream is registered with the default row; the machine starts in IDLE.
Init ==
    /\ \E v \in Values : v.state = "IDLE" /\ v.score = 0
                         /\ machine = v /\ row = v
    /\ stored = {} /\ moved = {}
    /\ subs = {} /\ peer = [ws \in Sockets |-> "new"]
    /\ targets = [r \in Requests |-> {}] /\ shown = [ws \in Sockets |-> Unset]
    /\ phase = [r \in Requests |-> "new"]
    /\ result = [r \in Requests |-> Unset]
    /\ read = [r \in Requests |-> Unset]
    /\ latest = Unset

Next ==
    \/ \E r \in Requests :
          \/ \E v \in Values : Ingest(r, v)
          \/ Read(r) \/ Commit(r) \/ Fail(r) \/ Publish(r)
          \/ \E ws \in Sockets : Send(r, ws)
    \/ \E ws \in Sockets : Subscribe(ws) \/ Hangup(ws) \/ Unsubscribe(ws)
    \/ Quiet

Spec == Init /\ [][Next]_vars

-----------------------------------------------------------------------------
(* Properties *)

\* No other request is in flight.
Lone(r) == \A q \in Requests \ {r} : ~InFlight(q)

\* The events table holds the transitions of exactly the requests whose transaction
\* was committed: no failed request leaves an event behind, and the row and the
\* event are written together or not at all.
StoredWithTheRow ==
    \A r \in Requests : r \in stored <=> r \in moved /\ phase[r] \in {"committed", "publishing", "done"}

=============================================================================
