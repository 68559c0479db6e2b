------------------------------- MODULE MCIngest -------------------------------
(***************************************************************************)
(* The two sides of an ingested frame, for TLC: what the detectors of the  *)
(* edge and of the backend make of it (MCSignalPath), and what the request *)
(* that carries it writes and tells (MCIngestRouter).  They share no       *)
(* state: in a behaviour one of them lives.                                *)
(***************************************************************************)
EXTENDS MCSignalPath, MCIngestRouter

VARIABLE side    \* the one that lives

ingestVars == <<side, watchVars, mcVars>>

\* Persons, requests and sockets are interchangeable.
Interchangeable == Twins \union Alike

IngestInit ==
    /\ side \in {"signals", "requests"}
    /\ WatchInit /\ MCInit

IngestNext ==
    \/ side = "signals" /\ WatchNext /\ UNCHANGED <<side, mcVars>>
    \/ side = "requests" /\ MCNext /\ UNCHANGED <<side, watchVars>>

IngestSpec == IngestInit /\ [][IngestNext]_ingestVars

===============================================================================
