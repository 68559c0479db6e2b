\* A batch of three jobs and two more; one to three attempts.
CONSTANTS
    j1 = j1
    j2 = j2
    j3 = j3
    j4 = j4
    j5 = j5
    Jobs <- MCJobs
    job <- MCjob
    Batch <- MCBatch
SPECIFICATION FairSpec
INVARIANTS ReachedPerAttempt OutcomesAreRecorded
PROPERTY EveryJobEnds
