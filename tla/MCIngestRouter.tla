--------------------------- MODULE MCIngestRouter ---------------------------
(***************************************************************************)
(* IngestRouter for TLC, with the set of requests that have overlapped     *)
(* with another one since they were ingested, and the subscribers each     *)
(* publish set out to tell.                                                *)
(***************************************************************************)
EXTENDS IngestRouter, TLC

VARIABLES overlapped, audience

mcVars == <<vars, overlapped, audience>>

MCInit == Init /\ overlapped = {} /\ audience = [r \in Requests |-> {}]

\* A request in flight overlaps with every other one in flight.
Overlapping == {r \in Requests : InFlight(r) /\ ~Lone(r)}

MCNext ==
    /\ Next
    /\ overlapped' = overlapped \union Overlapping'
    /\ audience' = [r \in Requests |->
                       IF phase[r] = "committed" /\ phase'[r] # "committed" THEN subs ELSE audience[r]]

MCSpec == MCInit /\ [][MCNext]_mcVars

\* Requests and sockets are interchangeable: no formula names one.
Alike == Permutations(Requests) \union Permutations(Sockets)

\* A request that meets no other on its way repairs what overlapping ones did: when
\* it is done and nothing came after it, the row and everyone it told agree with the
\* machine, whichever mixture of columns or order of messages they had before.
LoneRequestHeals ==
    \A r \in Requests :
        latest = r /\ phase[r] = "done" /\ r \notin overlapped
            => row = machine /\ \A ws \in audience[r] \intersect subs : shown[ws] = machine

\* A subscriber that hung up never keeps the others from hearing: when a request is
\* done, everyone who listened when its publish began has been told of it or of
\* another, or is off the list that the next publish goes through.
NobodyIsLeftOut ==
    \A r \in Requests : phase[r] = "done" =>
        \A ws \in audience[r] : shown[ws] # Unset \/ ws \notin subs

=============================================================================
