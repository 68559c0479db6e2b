--------------------------- MODULE NotifyChannel ----------------------------
(***************************************************************************)
(* The notification service (notify/liveguard_notify): jobs posted to      *)
(* /v1/send that run side by side, each delivered by one of the seven      *)
(* channels with retries (channels/base.py), and a batch (dispatch_many)   *)
(* that runs its jobs one after the other.                                 *)
(*                                                                         *)
(* A channel needs a URL from the job's extras; sms, voice and push have a *)
(* mock driver, their default, that needs nothing and calls nobody.  An    *)
(* attempt that timed out may still reach the channel's server.            *)
(***************************************************************************)
EXTENDS Integers, Sequences, FiniteSets, SequencesExt

CONSTANTS Jobs,
          job,      \* channel, driver "mock" or not, URL given or not, max_retries
          Batch     \* the jobs given to dispatch_many, in order

ASSUME NotifyAssumption ==
    /\ \A j \in Jobs : /\ job[j].channel \in STRING
                       /\ {job[j].mock, job[j].url} \subseteq BOOLEAN
                       /\ job[j].max_retries \in Nat
    /\ Batch \in Seq(Jobs)
    /\ \A i, j \in DOMAIN Batch : Batch[i] = Batch[j] => i = j

VARIABLES pc,          \* where each job's task is
          attempts,    \* attempt_number
          inFlight,    \* <<job, attempt>> on the way to the channel's server
          reached,     \* how often the server accepted the job
          results,     \* what dispatch_many has appended: ok or not
          totalSent,
          byOk         \* by_channel_ok

vars == <<pc, attempts, inFlight, reached, results, totalSent, byOk>>

Ended == {"sent", "raised"}
Attempts(j) == job[j].max_retries + 1

\* What comes back over HTTP: 200 or another 2xx with a JSON body, 200 with a JSON
\* error code, 200 with a body that is not JSON, or any other status.
Answers == {"json", "created", "coded", "plain", "error"}

\* A channel, by what its _deliver does: whether it has a driver that needs no server,
\* and the answers after which it returns ok.  On the others it returns not ok, or it
\* raises: sms and voice read the id from a body that is not JSON.
WebhookChannel == [mock |-> FALSE, ok |-> {"json", "created", "coded", "plain"}]
SmsChannel == [mock |-> TRUE, ok |-> {"json", "created", "coded"}]
VoiceChannel == [mock |-> TRUE, ok |-> {"json", "created", "coded"}]
DingTalkChannel == [mock |-> FALSE, ok |-> {"json"}]
WeWorkChannel == [mock |-> FALSE, ok |-> {"json"}]
FeishuChannel == [mock |-> FALSE, ok |-> {"json", "plain"}]
AppPushChannel == [mock |-> TRUE, ok |-> {"json", "created", "coded", "plain"}]

CHANNELS == [webhook |-> WebhookChannel, sms |-> SmsChannel, voice |-> VoiceChannel,
             ding |-> DingTalkChannel, wework |-> WeWorkChannel,
             feishu |-> FeishuChannel, push |-> AppPushChannel]

Known(j) == job[j].channel \in DOMAIN CHANNELS

Ok(channel) == CHANNELS[channel].ok

\* The answers after which the message is with the server.  The robots of ding, wework
\* and feishu say so in JSON; a page is a gateway's, not theirs.
Taking(channel) ==
    IF channel \in {"ding", "wework", "feishu"} THEN {"json"} ELSE {"json", "created", "plain"}

Mocked(j) == CHANNELS[job[j].channel].mock /\ job[j].mock

\* The request _deliver makes, if it makes one.
Posted(j, n) == IF ~Mocked(j) /\ job[j].url THEN {<<j, n>>} ELSE {}

-----------------------------------------------------------------------------

\* A definition named Mutant... is the operator that follows it with a plausible
\* mistake, for checking the properties.
MutantRecord(j, ok) ==
    results' = IF ok /\ Contains(Batch, j) THEN Append(results, ok) ELSE results

\* dispatch_many appends the result, or an unsuccessful one for an exception.
Record(j, ok) ==
    results' = IF Contains(Batch, j) THEN Append(results, ok) ELSE results

\* The first attempt, or a KeyError for a channel that is not in CHANNELS.
Start(j) ==
    /\ pc[j] = "new"
    /\ Contains(Batch, j) => Len(results) + 1 = CHOOSE i \in DOMAIN Batch : Batch[i] = j
    /\ IF Known(j)
       THEN /\ pc' = [pc EXCEPT ![j] = "delivering"]
            /\ attempts' = [attempts EXCEPT ![j] = 1]
            /\ inFlight' = inFlight \union Posted(j, 1)
            /\ UNCHANGED results
       ELSE /\ pc' = [pc EXCEPT ![j] = "raised"]
            /\ Record(j, FALSE)
            /\ UNCHANGED <<attempts, inFlight>>
    /\ UNCHANGED <<reached, totalSent, byOk>>

MutantRetry(j) ==
    /\ pc[j] = "waiting"
    /\ pc' = [pc EXCEPT ![j] = "delivering"]
    /\ UNCHANGED <<attempts, inFlight, reached, results, totalSent, byOk>>

\* The wait of the backoff is over.
Retry(j) ==
    /\ pc[j] = "waiting"
    /\ pc' = [pc EXCEPT ![j] = "delivering"]
    /\ attempts' = [attempts EXCEPT ![j] = @ + 1]
    /\ inFlight' = inFlight \union Posted(j, attempts[j] + 1)
    /\ UNCHANGED <<reached, results, totalSent, byOk>>

\* _deliver raised or returned not ok: stop_after_attempt(retries + 1), and then
\* reraise.  A result that says the job failed is never returned.
Failed(j) ==
    /\ IF attempts[j] < Attempts(j)
       THEN pc' = [pc EXCEPT ![j] = "waiting"] /\ UNCHANGED results
       ELSE pc' = [pc EXCEPT ![j] = "raised"] /\ Record(j, FALSE)
    /\ UNCHANGED <<attempts, totalSent, byOk>>

\* _deliver returned ok: dispatch counts it.
Succeeded(j) ==
    /\ pc' = [pc EXCEPT ![j] = "sent"]
    /\ totalSent' = totalSent + 1
    /\ byOk' = [byOk EXCEPT ![job[j].channel] = @ + 1]
    /\ Record(j, TRUE)
    /\ UNCHANGED attempts

\* The driver is the mock, or the URL is missing: no request is made, and a missing
\* URL is tried as often as a server that does not answer.
Local(j) ==
    /\ pc[j] = "delivering" /\ Posted(j, 1) = {}
    /\ IF Mocked(j) THEN Succeeded(j) ELSE Failed(j)
    /\ UNCHANGED <<inFlight, reached>>

Timeout(j) ==
    /\ pc[j] = "delivering" /\ Posted(j, 1) # {}
    /\ Failed(j)
    /\ UNCHANGED <<inFlight, reached>>

MutantArrive(j, n, answer, answered) ==
    /\ <<j, n>> \in inFlight
    /\ inFlight' = inFlight \ {<<j, n>>}
    /\ reached' = [reached EXCEPT ![j] = IF answer \in Taking(job[j].channel) THEN @ + 1 ELSE @]
    /\ IF answered
       THEN /\ pc[j] = "delivering" /\ attempts[j] = n
            /\ IF answer \in Answers \ {"error"} THEN Succeeded(j) ELSE Failed(j)
       ELSE UNCHANGED <<pc, attempts, results, totalSent, byOk>>

\* Attempt n arrives; the answer counts if the job still waits for it.
Arrive(j, n, answer, answered) ==
    /\ <<j, n>> \in inFlight
    /\ inFlight' = inFlight \ {<<j, n>>}
    /\ reached' = [reached EXCEPT ![j] = IF answer \in Taking(job[j].channel) THEN @ + 1 ELSE @]
    /\ IF answered
       THEN /\ pc[j] = "delivering" /\ attempts[j] = n
            /\ IF answer \in Ok(job[j].channel) THEN Succeeded(j) ELSE Failed(j)
       ELSE UNCHANGED <<pc, attempts, results, totalSent, byOk>>

Quiet == (\A j \in Jobs : pc[j] \in Ended) /\ UNCHANGED vars

Init ==
    /\ pc = [j \in Jobs |-> "new"]
    /\ attempts = [j \in Jobs |-> 0]
    /\ inFlight = {}
    /\ reached = [j \in Jobs |-> 0]
    /\ results = <<>>
    /\ totalSent = 0
    /\ byOk = [c \in DOMAIN CHANNELS |-> 0]

Next ==
    \/ \E j \in Jobs :
          \/ Start(j) \/ Retry(j) \/ Local(j) \/ Timeout(j)
          \/ \E n \in 1..Attempts(j), answer \in Answers, answered \in BOOLEAN :
                Arrive(j, n, answer, answered)
    \/ Quiet

Spec == Init /\ [][Next]_vars

\* The event loop runs every task, backoffs end and httpx times out; nothing is
\* assumed of the servers.
FairSpec ==
    Spec /\ \A j \in Jobs : WF_vars(Start(j) \/ Retry(j) \/ Local(j) \/ Timeout(j))

-----------------------------------------------------------------------------
(* Properties *)

\* A person is called or written to at most once per attempt, every retry of the
\* policy is made before a known channel is given up, and a job ding or wework reports
\* as sent is with their robot, even when an earlier attempt's answer got lost.  (The
\* others report more: a mock driver, a JSON error in a 200 they do not look at, and
\* feishu a page that is not JSON.)
ReachedPerAttempt ==
    \A j \in Jobs :
        /\ reached[j] + Cardinality({n \in 1..attempts[j] : <<j, n>> \in inFlight})
              <= attempts[j]
        /\ attempts[j] <= Attempts(j)
        /\ pc[j] = "raised" /\ Known(j) => attempts[j] = Attempts(j)
        /\ pc[j] = "sent" /\ job[j].channel \in {"ding", "wework"} => reached[j] > 0

\* However jobs overlap, the counters count each successful job once, under its
\* channel; a job that raised is in no counter.
CountersMatchOutcomes ==
    /\ totalSent = Cardinality({j \in Jobs : pc[j] = "sent"})
    /\ \A c \in DOMAIN CHANNELS :
          byOk[c] = Cardinality({j \in Jobs : pc[j] = "sent" /\ job[j].channel = c})

\* dispatch_many answers job by job: one that raises neither ends the batch nor
\* shifts the answers of the others.
BatchAnswersInOrder ==
    /\ Len(results) <= Len(Batch)
    /\ \A i \in DOMAIN Batch :
          /\ pc[Batch[i]] \in Ended <=> i <= Len(results)
          /\ i <= Len(results) => (results[i] <=> pc[Batch[i]] = "sent")

\* Both at once: what the service says of a job, in its counters and in its answer to
\* a batch, is what became of it.
OutcomesAreRecorded == CountersMatchOutcomes /\ BatchAnswersInOrder

\* Every job ends, sent or with an exception: no server can hold it for ever.
EveryJobEnds == \A j \in Jobs : <>(pc[j] \in Ended)

=============================================================================
