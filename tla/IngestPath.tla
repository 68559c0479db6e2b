----------------------------- MODULE IngestPath -----------------------------
(***************************************************************************)
(* The way of one stream's frames from the edge agent to the clock of its  *)
(* StreamFSM: EdgeAgent and SignalUploader (edge/liveguard_edge), the      *)
(* network between, and IngestService with its store of state machines     *)
(* (backend/liveguard_backend/services/ingest_service.py).                 *)
(*                                                                         *)
(* The agent handles one frame at a time and waits for its upload.  An     *)
(* upload is attempted again after a timeout, a lost answer or a 5xx; the  *)
(* earlier attempts may still be on their way and reach the service later. *)
(* The service turns time stamps into steps of the machine's clock.        *)
(* A request that stays in net for ever is a lost one.                     *)
(***************************************************************************)
EXTENDS Integers, Sequences, FiniteSets

CONSTANTS MaxFrames,     \* frames the agent uploads (bound)
          Gaps,          \* time between two frames
          MaxRetries,    \* UploaderConfig.max_retries
          MinStep,       \* 0.02 s
          DefaultStep,   \* 0.2 s
          MaxStep,       \* 5 s
          MaxRestarts    \* restarts of the backend (bound)

ASSUME IngestAssumption ==
    /\ MaxFrames \in Nat /\ MaxRetries \in Nat /\ MaxRestarts \in Nat
    /\ Gaps \subseteq Nat \ {0}
    /\ {MinStep, DefaultStep, MaxStep} \subseteq Nat \ {0}
    /\ MinStep <= DefaultStep /\ DefaultStep <= MaxStep

VARIABLES agent,      \* "idle", "sending" or "waiting" for an answer
          frame,      \* number of the frame being uploaded
          ts,         \* time stamps of the frames so far
          attempt,    \* attempts made for the frame
          uploads,    \* AgentMetrics.uploads_ok and uploads_fail
          net,        \* requests on their way
          answer,     \* what the connection of the current attempt brings, or "none"
          lastTs,     \* _FSMPair.last_ts_ms
          clock,      \* _clock_s of the stream's machine
          log,        \* the frames fed to the machine, in order
          restarts

edgeVars == <<agent, frame, ts, attempt, uploads>>
netVars == <<net, answer>>
serverVars == <<lastTs, clock, log, restarts>>
pathVars == <<edgeVars, netVars, serverVars>>

Frames == 1 .. MaxFrames
Results == {"accepted", "client_error", "server_error"}

Now == [frame |-> frame, attempt |-> attempt]

-----------------------------------------------------------------------------
(* The edge *)

\* run takes the next frame of its source and _process_frame starts its upload.
NextFrame(gap) ==
    /\ agent = "idle"
    /\ frame < MaxFrames
    /\ frame' = frame + 1
    /\ ts' = Append(ts, IF ts = <<>> THEN gap ELSE ts[frame] + gap)
    /\ attempt' = 0
    /\ agent' = "sending"
    /\ UNCHANGED <<uploads, netVars, serverVars>>

\* A definition named Mutant... is the operator that follows it with a plausible
\* mistake, for checking the properties.
MutantPost ==
    /\ agent = "sending"
    /\ attempt' = IF attempt < MaxRetries THEN attempt + 1 ELSE attempt
    /\ net' = net \union {[frame |-> frame, attempt |-> attempt']}
    /\ agent' = "waiting"
    /\ UNCHANGED <<frame, ts, uploads, answer, serverVars>>

\* One POST of _upload_one.
Post ==
    /\ agent = "sending"
    /\ attempt' = attempt + 1
    /\ net' = net \union {[frame |-> frame, attempt |-> attempt']}
    /\ agent' = "waiting"
    /\ UNCHANGED <<frame, ts, uploads, answer, serverVars>>

Finish(metric) ==
    /\ agent' = "idle"
    /\ uploads' = [uploads EXCEPT ![metric] = @ + 1]

MutantRetryOrGiveUp ==
    IF attempt <= MaxRetries + 1
    THEN agent' = "sending" /\ UNCHANGED uploads
    ELSE Finish("fail")

\* tenacity: try again until max_retries + 1 attempts have failed, then reraise.
RetryOrGiveUp ==
    IF attempt <= MaxRetries
    THEN agent' = "sending" /\ UNCHANGED uploads
    ELSE Finish("fail")

\* The answer to the attempt the agent is waiting for.  A 4xx is not retried.
Receive ==
    /\ agent = "waiting"
    /\ answer # "none"
    /\ CASE answer = "accepted"     -> Finish("ok")
         [] answer = "client_error" -> Finish("fail")
         [] answer = "server_error" -> RetryOrGiveUp
    /\ answer' = "none"
    /\ UNCHANGED <<frame, ts, attempt, net, serverVars>>

\* timeout_s has passed, or the connection broke: httpx gives the attempt up,
\* wherever its request is, and an answer to it finds nobody.
Timeout ==
    /\ agent = "waiting"
    /\ RetryOrGiveUp
    /\ answer' = "none"
    /\ UNCHANGED <<frame, ts, attempt, net, serverVars>>

-----------------------------------------------------------------------------
(* The backend *)

MutantStep(t) ==
    IF lastTs = 0 THEN DefaultStep
    ELSE IF t - lastTs > MaxStep THEN MaxStep
    ELSE IF t - lastTs < MinStep THEN MinStep ELSE t - lastTs

\* _compute_dt: the default step for a first, repeated or late time stamp, and the
\* gap to the previous time stamp, clamped, for the others.
Step(t) ==
    IF lastTs = 0 \/ t <= lastTs THEN DefaultStep
    ELSE IF t - lastTs > MaxStep THEN MaxStep
    ELSE IF t - lastTs < MinStep THEN MinStep ELSE t - lastTs

Answered(r, result) ==
    /\ net' = net \ {r}
    /\ answer' = IF r = Now /\ agent = "waiting" THEN result ELSE answer

\* ingest feeds the machine; the rest of the handler may still fail (5xx).
Feed(r, result) ==
    /\ result # "client_error"
    /\ clock' = clock + Step(ts[r.frame])
    /\ lastTs' = ts[r.frame]
    /\ log' = Append(log, r.frame)
    /\ Answered(r, result)
    /\ UNCHANGED <<restarts, edgeVars>>

\* Authentication or validation fails before the service sees the signal.
Refuse(r, result) ==
    /\ result = "client_error"
    /\ Answered(r, result)
    /\ UNCHANGED <<serverVars, edgeVars>>

\* The store of state machines is in memory.
Restart ==
    /\ restarts < MaxRestarts
    /\ restarts' = restarts + 1
    /\ lastTs' = 0 /\ clock' = 0 /\ log' = <<>>
    /\ UNCHANGED <<edgeVars, netVars>>

-----------------------------------------------------------------------------

PathInit ==
    /\ agent = "idle" /\ frame = 0 /\ ts = <<>> /\ attempt = 0
    /\ uploads = [ok |-> 0, fail |-> 0]
    /\ net = {} /\ answer = "none"
    /\ lastTs = 0 /\ clock = 0 /\ log = <<>> /\ restarts = 0

Edge == (\E gap \in Gaps : NextFrame(gap)) \/ Post \/ Receive \/ Timeout

Backend ==
    \/ \E r \in net, result \in Results : Feed(r, result) \/ Refuse(r, result)
    \/ Restart

\* All frames uploaded: run returns.
Done == agent = "idle" /\ frame = MaxFrames /\ UNCHANGED pathVars

PathNext == Edge \/ Backend \/ Done

PathSpec == PathInit /\ [][PathNext]_pathVars

\* The agent's loop runs, and an attempt that gets no answer times out.
PathFairSpec == PathSpec /\ WF_pathVars(Edge)

-----------------------------------------------------------------------------
(* Properties *)

Fed == {log[i] : i \in DOMAIN log}
Repeats == Len(log) - Cardinality(Fed)
InOrder == \A i, j \in DOMAIN log : i < j => log[i] <= log[j]

\* However many answers are lost, a frame is fed at most once per attempt the
\* uploader may make.
FedAtMostPerAttempt ==
    \A n \in Frames : Cardinality({i \in DOMAIN log : log[i] = n}) <= MaxRetries + 1

\* The machine's clock is exact on what arrives in order: the time between the
\* first and the last frame, one default step for the first frame, and one for
\* every repeated one.
OrderedClockIsExact ==
    (log # <<>> /\ InOrder
        /\ \A i \in 2 .. Len(log) : ts[log[i]] - ts[log[i - 1]] \in {0} \union MinStep .. MaxStep)
    => clock = (lastTs - ts[log[1]]) + DefaultStep * (1 + Repeats)

\* Every upload ends: the agent is never stuck on a frame.
UploadEnds == (agent # "idle") ~> (agent = "idle")

=============================================================================
