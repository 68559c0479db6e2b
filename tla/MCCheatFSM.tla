----------------------------- MODULE MCCheatFSM -----------------------------
(***************************************************************************)
(* CheatFSM for TLC.  evidence is what the latest call brought evidence    *)
(* for, incident the set of patterns reported and not over since, kept     *)
(* from the evidence alone.                                                *)
(***************************************************************************)
EXTENDS CheatFSM

VARIABLES evidence, incident

mcVars == <<timers, active, flagged, evidence, incident>>

MCPatternWindow == [p \in Windowed |-> IF p = "STATIC_PHOTO" THEN 2 ELSE 3]

Evidence(suspect, level) == suspect \union {p \in Immediate : level[p] = "hit"}
NoEvidence(suspect, level) == (Windowed \ suspect) \union {p \in Immediate : level[p] = "clear"}

MCInit == Init /\ evidence = {} /\ incident = {}

MCFeed(suspect, level, dt) ==
    /\ Feed(suspect, level, dt)
    /\ evidence' = Evidence(suspect, level)
    /\ incident' = (incident \ NoEvidence(suspect, level)) \union flagged'

MCReset(P) ==
    /\ Reset(P)
    /\ evidence' = {}
    /\ incident' = incident \ P

SomeFeed ==
    \E dt \in Dts, suspect \in SUBSET Windowed, level \in [Immediate -> Levels] :
        MCFeed(suspect, level, dt)

MCNext ==
    \/ \E dt \in Dts : FeedRejected(dt) /\ UNCHANGED <<evidence, incident>>
    \/ SomeFeed
    \/ \E P \in ResetScopes : MCReset(P)

MCSpec == MCInit /\ [][MCNext]_mcVars

\* Frames keep coming while the stream is live.
MCFairSpec == MCSpec /\ WF_mcVars(SomeFeed)

-----------------------------------------------------------------------------

\* One incident, one flag: a pattern already reported is not reported again before
\* its evidence has gone or it has been reset.
OneFlagPerIncident == [][flagged' \intersect incident = {}]_mcVars

\* Evidence that lasts is reported: a pattern that every frame supports from some
\* moment on becomes and stays active.
LastingEvidenceIsActive ==
    \A p \in Patterns : <>[](p \in evidence) => <>[](p \in active)

=============================================================================
