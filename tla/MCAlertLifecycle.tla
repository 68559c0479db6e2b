-------------------------- MODULE MCAlertLifecycle --------------------------
(***************************************************************************)
(* AlertLifecycle for TLC, with the set of requests that have overlapped   *)
(* with another one.                                                       *)
(***************************************************************************)
EXTENDS AlertLifecycle

VARIABLE overlapped

mcVars == <<vars, overlapped>>

MCInit == Init /\ overlapped = {}

Committing == {r \in Requests : phase[r] = "committing"}

\* Requests waiting for their commit overlap with each other.
MCNext ==
    /\ Next
    /\ overlapped' = overlapped \union
           {r \in Committing' : Committing' # {r}}

MCSpec == MCInit /\ [][MCNext]_mcVars

-----------------------------------------------------------------------------

\* A request that met no other is obeyed and answered truthfully, even on a row that
\* overlapping ones left as a mixture: until the next commit the row is the alert it
\* returned.
LoneRequestIsObeyed ==
    \A r \in Requests :
        latest = r /\ r \notin overlapped
            => row = Changed(r)
               /\ row.state = (IF call[r].kind = "ack" THEN "acked" ELSE "resolved")

=============================================================================
