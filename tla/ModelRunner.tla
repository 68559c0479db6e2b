----------------------------- MODULE ModelRunner -----------------------------
(***************************************************************************)
(* The run of a library of business models: the scripts, in the order of   *)
(* run_all.py (LiveGuard) or of the loop of the Makefile (InvestMind), the *)
(* JSON file each writes and the files it reads, and the summary or the    *)
(* end of make that a reader takes for "everything was computed afresh".   *)
(*                                                                         *)
(* LiveGuard runs its scripts in one process, which imports                *)
(* data_sources.py once, notes the scripts that raise and goes on;         *)
(* InvestMind starts a process per script and stops at the first that      *)
(* fails.  A number is abstracted to what it was computed from.            *)
(***************************************************************************)
EXTENDS Integers, Sequences

CONSTANTS
    Libraries,     \* the libraries of models
    Scripts,       \* library -> its scripts in the order they are run
    Reads,         \* script -> the scripts whose JSON it reads
    Separate,      \* the libraries with a process per script
    Summarised,    \* library -> the scripts whose JSON the summary loads
    MaxRuns,       \* bound on the runs, by the runner or by hand
    MaxFaults,     \* bound on what goes wrong
    MaxVersion     \* bound on the edits of the assumptions

ASSUME RunnerAssumption ==
    /\ Separate \subseteq Libraries
    /\ {MaxRuns, MaxFaults, MaxVersion} \subseteq Nat

ScriptsOf(l) == {Scripts[l][k] : k \in DOMAIN Scripts[l]}

(* A library runs each of its scripts once, and they read only one another. *)
ASSUME ScriptsAssumption ==
    \A l \in Libraries :
        /\ Scripts[l] \in Seq(ScriptsOf(l))
        /\ \A j, k \in DOMAIN Scripts[l] : Scripts[l][j] = Scripts[l][k] => j = k
        /\ \A s \in ScriptsOf(l) : Reads[s] \subseteq ScriptsOf(l)

VARIABLES
    library,     \* the library of this behaviour
    files,       \* script -> its JSON file, for those on disk
    runs,        \* the runs started
    at,          \* the script the runner is at, 0 when nothing runs
    failed,      \* the scripts of this run that raised
    version,     \* the assumptions on disk
    imported,    \* those the process has in sys.modules
    report,      \* what the last run that came to its end left behind
    faults       \* what has gone wrong

runnerVars == <<library, files, runs, at, failed, version, imported, report, faults>>

Listed == ScriptsOf(library)

PositionOf(s) == CHOOSE k \in DOMAIN Scripts[library] : Scripts[library][k] = s

NoReport == [run |-> 0]
------------------------------------------------------------------------------
(* open and json.load of every input succeed. *)
Readable(s) == \A i \in Reads[s] : i \in DOMAIN files /\ files[i].whole

Assumptions == IF library \in Separate THEN version ELSE imported

(* What write_json leaves under the name of the script: the run and the    *)
(* assumptions it was computed by, and the run each of its inputs is from. *)
Output(s, run, assumed, whole) ==
    [run |-> run, data |-> assumed, whole |-> whole,
     from |-> [i \in Reads[s] |-> files[i].run]]

With(s, file) == [x \in DOMAIN files \union {s} |-> IF x = s THEN file ELSE files[x]]

NoRun == at = 0

Start ==
    /\ NoRun /\ runs < MaxRuns
    /\ runs' = runs + 1 /\ at' = 1 /\ failed' = {} /\ imported' = version
    /\ UNCHANGED <<library, files, version, report, faults>>

AtScript(s) == at \in DOMAIN Scripts[library] /\ s = Scripts[library][at]

MutantNoteFailure(s) ==
    /\ UNCHANGED failed
    /\ at' = IF library \in Separate THEN 0 ELSE at + 1

(* except Exception: the name is noted and the loop goes on; or exit 1. *)
NoteFailure(s) ==
    /\ failed' = failed \union {s}
    /\ at' = IF library \in Separate THEN 0 ELSE at + 1

(* The script comes to its end. *)
Succeed(s) ==
    /\ AtScript(s) /\ Readable(s)
    /\ files' = With(s, Output(s, runs, Assumptions, TRUE))
    /\ at' = at + 1
    /\ UNCHANGED <<library, runs, failed, version, imported, report, faults>>

(* It raises after write_json, while it draws its charts. *)
ChartFails(s) ==
    /\ AtScript(s) /\ Readable(s) /\ faults < MaxFaults
    /\ files' = With(s, Output(s, runs, Assumptions, TRUE))
    /\ NoteFailure(s) /\ faults' = faults + 1
    /\ UNCHANGED <<library, runs, version, imported, report>>

(* It raises before write_json: of itself, or for want of an input. *)
Raise(s) ==
    /\ AtScript(s)
    /\ Readable(s) => faults < MaxFaults
    /\ faults' = IF Readable(s) THEN faults + 1 ELSE faults
    /\ NoteFailure(s)
    /\ UNCHANGED <<library, files, runs, version, imported, report>>

(* The runner is killed, perhaps within write_text of the script. *)
KillRunner ==
    /\ ~NoRun /\ faults < MaxFaults
    /\ at' = 0 /\ faults' = faults + 1
    /\ \/ UNCHANGED files
       \/ \E s \in Listed : /\ AtScript(s) /\ Readable(s)
                            /\ files' = With(s, Output(s, runs, Assumptions, FALSE))
    /\ UNCHANGED <<library, runs, failed, version, imported, report>>

(* After the last script.  json.loads of a torn file raises and nothing is *)
(* reported; of a file that is missing the summary has nulls and zeros.    *)
Summarise ==
    /\ at = Len(Scripts[library]) + 1
    /\ at' = 0
    /\ report' = IF \A s \in DOMAIN files \intersect Summarised[library] : files[s].whole
                 THEN [run |-> runs, data |-> imported, failed |-> failed, files |-> files]
                 ELSE report
    /\ UNCHANGED <<library, files, runs, failed, version, imported, faults>>

(* python NN_....py on its own. *)
RunByHand(s) ==
    /\ NoRun /\ runs < MaxRuns /\ Readable(s)
    /\ runs' = runs + 1
    /\ files' = With(s, Output(s, runs', version, TRUE))
    /\ UNCHANGED <<library, at, failed, version, imported, report, faults>>

(* The assumptions are edited, perhaps beside a run; a library without a   *)
(* module for them keeps them in its scripts.                              *)
EditAssumptions ==
    /\ version < MaxVersion
    /\ library \in Separate => NoRun
    /\ version' = version + 1
    /\ UNCHANGED <<library, files, runs, at, failed, imported, report, faults>>

(* make clean: outputs/ goes, the summary with it. *)
Clean ==
    /\ NoRun /\ files # << >>
    /\ files' = << >> /\ report' = NoReport
    /\ UNCHANGED <<library, runs, at, failed, version, imported, faults>>

RunnerInit ==
    /\ library \in Libraries
    /\ files = << >> /\ runs = 0 /\ at = 0 /\ failed = {}
    /\ version = 0 /\ imported = 0 /\ report = NoReport /\ faults = 0

RunnerNext ==
    \/ Start \/ KillRunner \/ Summarise \/ EditAssumptions \/ Clean
    \/ \E s \in Listed : Succeed(s) \/ ChartFails(s) \/ Raise(s) \/ RunByHand(s)

RunnerSpec == RunnerInit /\ [][RunnerNext]_runnerVars
------------------------------------------------------------------------------
(* "修改此处任一参数 → 重跑 run_all.py → 全部模型 JSON 与图表自动重算"         *)
(* (data_sources.py:8): whatever failed, was killed, run by hand or edited *)
(* before or during the run, a file of a script the run does not name as   *)
(* failed is of this run and of the assumptions the run began with, and    *)
(* every file of the run was computed from the files that lie beside it,   *)
(* except for an input that the order of the scripts writes only after its *)
(* reader: that one is of an earlier run.                                  *)
ReportIsOfItsRun ==
    report # NoReport =>
        /\ \A s \in Listed \ report.failed :
              /\ s \in DOMAIN report.files
              /\ report.files[s].run = report.run
              /\ report.files[s].data = report.data
        /\ \A s \in DOMAIN report.files : \A i \in Reads[s] :
              report.files[s].run = report.run =>
                  IF PositionOf(i) < PositionOf(s)
                  THEN report.files[s].from[i] = report.files[i].run
                  ELSE report.files[s].from[i] < report.run
==============================================================================
