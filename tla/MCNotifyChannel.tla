-------------------------- MODULE MCNotifyChannel ---------------------------
(***************************************************************************)
(* NotifyChannel for TLC: a batch of three jobs, one for a channel that    *)
(* does not exist and one without a URL, beside jobs of their own, one for *)
(* each way the channels read an answer.                                   *)
(***************************************************************************)
EXTENDS NotifyChannel

CONSTANTS j1, j2, j3, j4, j5

MCJobs == {j1, j2, j3, j4, j5}

Job(channel, mock, url, max_retries) ==
    [channel |-> channel, mock |-> mock, url |-> url, max_retries |-> max_retries]

MCjob ==
    [j \in MCJobs |->
        CASE j = j1 -> Job("ding", FALSE, TRUE, 1)
          [] j = j2 -> Job("unknown", FALSE, TRUE, 0)
          [] j = j3 -> Job("wework", FALSE, FALSE, 1)
          [] j = j4 -> Job("voice", FALSE, TRUE, 2)
          [] j = j5 -> Job("push", TRUE, FALSE, 0)]

MCBatch == <<j1, j2, j3>>

=============================================================================
