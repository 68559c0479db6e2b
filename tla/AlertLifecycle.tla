--------------------------- MODULE AlertLifecycle ---------------------------
(***************************************************************************)
(* Acknowledging and resolving one stored alert                            *)
(* (backend/liveguard_backend/api/routers/alerts.py, AlertRepo in          *)
(* db/repositories.py): overlapping requests, each with a session of its   *)
(* own that reads the row, changes its copy, and commits.                  *)
(*                                                                         *)
(* Neither operation looks at the state the alert is in.  The repository   *)
(* changes the session's copy before the router compares tenants; what a   *)
(* refused request changed dies with its session.  A time stamp is named   *)
(* by the request that took it.  The alert exists: without it both         *)
(* operations answer 404 and change nothing.                               *)
(***************************************************************************)
EXTENDS Integers

CONSTANTS Requests,   \* the requests that may come (bound)
          Users,
          None

ASSUME LifecycleAssumption == None \notin Requests /\ None \notin Users

VARIABLES row,     \* the columns of the alert that the requests write
          call,    \* what each request asks, and for which tenant
          read,    \* the row its session read
          phase,   \* where it is
          latest   \* the request committed last

vars == <<row, call, read, phase, latest>>

Columns == {"state", "ack_by", "ack_at", "resolved_at"}

Rows == [state : {"open", "acked", "resolved"}, ack_by : Users \union {None},
         ack_at : Requests \union {None}, resolved_at : Requests \union {None}]

Calls == [kind : {"ack", "resolve"}, user : Users, own : BOOLEAN]

-----------------------------------------------------------------------------

\* session.get, then ack or resolve on the session's copy, up to the next suspension.
Load(r, c) ==
    /\ phase[r] = "new"
    /\ call' = [call EXCEPT ![r] = c]
    /\ read' = [read EXCEPT ![r] = row]
    /\ phase' = [phase EXCEPT ![r] = IF c.own THEN "committing" ELSE "denied"]
    /\ UNCHANGED <<row, latest>>

\* The session's copy of the row, as it is returned to the caller.
Changed(r) ==
    IF call[r].kind = "ack"
    THEN [read[r] EXCEPT !.state = "acked", !.ack_by = call[r].user, !.ack_at = r]
    ELSE [read[r] EXCEPT !.state = "resolved", !.resolved_at = r]

\* A definition named Mutant... is the operator that follows it with a plausible
\* mistake, for checking the properties.
MutantWritten(r) == Changed(r)
MutantWrittenOnce(r) ==
    [c \in Columns |-> IF Changed(r)[c] # read[r][c] /\ read[r].state = "open"
                       THEN Changed(r)[c] ELSE row[c]]

\* The row after the UPDATE: only the columns the session changed are written.
Written(r) ==
    [c \in Columns |-> IF Changed(r)[c] # read[r][c] THEN Changed(r)[c] ELSE row[c]]

MutantCommit(r) ==
    /\ phase[r] \in {"committing", "denied"}
    /\ row' = Written(r)
    /\ latest' = r
    /\ phase' = [phase EXCEPT ![r] = "done"]
    /\ UNCHANGED <<call, read>>

Commit(r) ==
    /\ phase[r] = "committing"
    /\ row' = Written(r)
    /\ latest' = r
    /\ phase' = [phase EXCEPT ![r] = "done"]
    /\ UNCHANGED <<call, read>>

\* The database raises and the session is rolled back.
Fail(r) ==
    /\ phase[r] = "committing"
    /\ phase' = [phase EXCEPT ![r] = "failed"]
    /\ UNCHANGED <<row, call, read, latest>>

\* No request is left to come.
Quiet == (\A r \in Requests : phase[r] \in {"done", "denied", "failed"}) /\ UNCHANGED vars

\* An alert as it is stored.
Init ==
    /\ row = [c \in Columns |-> IF c = "state" THEN "open" ELSE None]
    /\ call = [r \in Requests |-> None]
    /\ read = [r \in Requests |-> None]
    /\ phase = [r \in Requests |-> "new"]
    /\ latest = None

Next ==
    \/ \E r \in Requests :
          \/ \E c \in Calls : Load(r, c)
          \/ Commit(r) \/ Fail(r)
    \/ Quiet

Spec == Init /\ [][Next]_vars

-----------------------------------------------------------------------------
(* Properties *)

\* Every variable holds what the code can put in it.
TypeOK ==
    /\ row \in Rows
    /\ call \in [Requests -> Calls \union {None}]
    /\ read \in [Requests -> Rows \union {None}]
    /\ phase \in [Requests -> {"new", "committing", "denied", "done", "failed"}]
    /\ latest \in Requests \union {None}

\* Whatever mixture of columns overlapping requests leave, the state never lacks the
\* stamps that explain it, and who acknowledged is known exactly when one did.
StampsExplainState ==
    /\ row.state = "acked" => row.ack_at # None
    /\ row.state = "resolved" => row.resolved_at # None
    /\ row.state = "open" => row.ack_at = None /\ row.resolved_at = None
    /\ row.ack_by = None <=> row.ack_at = None

\* A request of another tenant, or one that failed, leaves no trace in the row,
\* although the repository has changed its copy before the tenants are compared.
OnlyOwnRequestsStamp ==
    \A r \in Requests :
        row.ack_at = r \/ row.resolved_at = r => call[r].own /\ phase[r] = "done"

\* Both at once: whatever requests overlap, a stamp in the row is one that its state
\* calls for, put there by a request that was allowed to and that came to its end.
StampsAreWarranted == StampsExplainState /\ OnlyOwnRequestsStamp

\* A step empties no time stamp.
KeepsStamps ==
    /\ row.ack_at # None => row'.ack_at # None
    /\ row.resolved_at # None => row'.resolved_at # None

\* No stamp is lost: a request that read the row before another one committed does
\* not write back the emptiness it saw.
StampsAreKept == [][KeepsStamps]_vars

=============================================================================
