--------------------------- MODULE RunnerLedgerProofs ---------------------------
(***************************************************************************)
(* Proofs about RunnerLedger, for any set of jobs and any number of faults. *)
(* LedgerInv relates the places of the submit command and of the worker to  *)
(* the record and to the command; it is inductive, and the properties of    *)
(* the runs follow from it.                                                 *)
(***************************************************************************)
EXTENDS RunnerLedger, TLAPS

-----------------------------------------------------------------------------
(* The inductive invariant *)

\* What the submit command that holds the lock has stored, and nobody changed.
SubmitInv(j) ==
  /\ submitting[j] = "stored" => worker[j] = "none"
  /\ submitting[j] = "spawned" => worker[j] \in {"waiting", "exited"}
  /\ submitting[j] # "no" => record[j] = NewRecord /\ command[j] = "none"

\* A worker that lives has the record where it left it: nobody else ends the job.
WorkerInv(j) ==
  /\ worker[j] \in {"none", "waiting", "starting"} => command[j] = "none"
  /\ worker[j] = "none" =>
       record[j].status \in {"unknown", "submitted"} /\ ~record[j].worker_pid
  /\ worker[j] = "waiting" => record[j].status = "submitted"
  /\ worker[j] \in Alive \ {"waiting"} => record[j].status = "running"
  /\ worker[j] \in {"started", "watching", "stopping", "finishing"} => command[j] # "none"
  /\ worker[j] = "finishing" => command[j] # "working"

\* What the status tells of the processes.
StatusInv(j) ==
  /\ record[j].status = "unknown" => worker[j] = "none" /\ submitting[j] = "no"
  /\ record[j].status = "submitted" => command[j] = "none"
  /\ record[j].status \in Final => worker[j] = "exited" /\ submitting[j] = "no"
  /\ record[j].status = "succeeded" => command[j] = "ok" /\ ~record[j].cancel_requested
  /\ record[j].status \in Final /\ command[j] = "working" =>
       record[j].failure \in {"runner_process_lost", "error"}

JobInv(j) == SubmitInv(j) /\ WorkerInv(j) /\ StatusInv(j)

LedgerInv == LedgerTypeOK /\ \A j \in Jobs : JobInv(j)

-----------------------------------------------------------------------------
(* Types *)

LEMMA RecordTypes == NoRecord \in Records /\ NewRecord \in Records
  BY DEF NoRecord, NewRecord, Records, Active, Final

\* Writing the outcome, or the start of the worker, leaves a record.
LEMMA RecordEdits ==
  ASSUME NEW r \in Records
  PROVE  /\ \A s \in Final, f \in {"", "execution_failure", "runner_process_lost", "error"} :
              [r EXCEPT !.status = s, !.failure = f] \in Records
         /\ [r EXCEPT !.status = "running", !.worker_pid = TRUE] \in Records
         /\ [r EXCEPT !.cancel_requested = TRUE] \in Records
         /\ [r EXCEPT !.worker_pid = TRUE] \in Records
  BY DEF Records, Active, Final

LEMMA InitType == LedgerInit => LedgerTypeOK
  BY FaultsAssumption, RecordTypes DEF LedgerInit, LedgerTypeOK

LEMMA StepType == LedgerTypeOK /\ [LedgerNext]_ledgerVars => LedgerTypeOK'
  <1> SUFFICES ASSUME LedgerTypeOK, [LedgerNext]_ledgerVars
               PROVE  LedgerTypeOK'
    OBVIOUS
  <1> USE FaultsAssumption DEF LedgerTypeOK, Alive, Fault, WorkerGoes
  <1>1. ASSUME NEW j \in Jobs, SubmitStep(j) PROVE LedgerTypeOK'
    <2>1. [NewRecord EXCEPT !.worker_pid = TRUE] \in Records
      BY RecordTypes, RecordEdits
    <2>2. record' \in [Jobs -> Records]
      BY <1>1, <2>1, RecordTypes
      DEF SubmitStep, SubmitStores, SubmitSpawns, SubmitRecordsPid
    <2> QED
      BY <1>1, <2>2 DEF SubmitStep, SubmitStores, SubmitSpawns, SubmitRecordsPid
  <1>2. ASSUME NEW j \in Jobs, Get(j) PROVE LedgerTypeOK'
    <2>1. [record[j] EXCEPT !.status = "failed", !.failure = "runner_process_lost"] \in Records
      BY RecordEdits DEF Final
    <2>2. record' \in [Jobs -> Records]
      BY <1>2, <2>1 DEF Get
    <2> QED BY <1>2, <2>2 DEF Get
  <1>3. ASSUME NEW j \in Jobs, Cancel(j) PROVE LedgerTypeOK'
    <2>1. [record[j] EXCEPT !.cancel_requested = TRUE] \in Records
      BY RecordEdits
    <2>2. record' \in [Jobs -> Records]
      BY <1>3, <2>1 DEF Cancel
    <2> QED BY <1>3, <2>2 DEF Cancel
  <1>4. ASSUME NEW j \in Jobs, WorkerStep(j) PROVE LedgerTypeOK'
    <2>1. CASE WorkerTakes(j)
      <3>1. [record[j] EXCEPT !.status = "running", !.worker_pid = TRUE] \in Records
        BY RecordEdits
      <3>2. record' \in [Jobs -> Records]
        BY <2>1, <3>1 DEF WorkerTakes
      <3> QED BY <2>1, <3>2 DEF WorkerTakes
    <2>2. CASE WorkerStartsCommand(j) \/ WorkerRecordsProcess(j) \/ WorkerBeats(j)
      BY <2>2 DEF WorkerStartsCommand, WorkerRecordsProcess, WorkerBeats
    <2>3. ASSUME NEW outcome \in {"ok", "bad"}, WorkerStopsCommand(j, outcome)
          PROVE  LedgerTypeOK'
      BY <2>3 DEF WorkerStopsCommand
    <2>4. CASE WorkerSeesExit(j) BY <2>4 DEF WorkerSeesExit
    <2>5. CASE WorkerConcludes(j)
      <3> DEFINE status == CASE record[j].cancel_requested -> "cancelled"
                             [] ~record[j].cancel_requested /\ command[j] = "ok" -> "succeeded"
                             [] OTHER -> "failed"
                 failure == IF command[j] = "ok" THEN "" ELSE "execution_failure"
      <3>1. status \in Final BY DEF Final
      <3>2. failure \in {"", "execution_failure", "error"} OBVIOUS
      <3>3. [record[j] EXCEPT !.status = status, !.failure = failure] \in Records
        BY <3>1, <3>2, RecordEdits
      <3>4. record' \in [Jobs -> Records]
        BY <2>5, <3>3 DEF WorkerConcludes
      <3> QED BY <2>5, <3>4 DEF WorkerConcludes
    <2>6. CASE WorkerRecordsError(j)
      <3>1. [record[j] EXCEPT !.status = "failed", !.failure = "error"] \in Records
        BY RecordEdits DEF Final
      <3>2. record' \in [Jobs -> Records]
        BY <2>6, <3>1 DEF WorkerRecordsError
      <3> QED BY <2>6, <3>2 DEF WorkerRecordsError
    <2>7. QED BY <1>4, <2>1, <2>2, <2>3, <2>4, <2>5, <2>6 DEF WorkerStep
  <1>5. ASSUME NEW j \in Jobs, LedgerFault(j) PROVE LedgerTypeOK'
    BY <1>5 DEF LedgerFault, SubmitFails, WorkerRaises, WorkerDies
  <1>6. ASSUME NEW j \in Jobs, NEW outcome \in {"ok", "bad"}, CommandEnds(j, outcome)
        PROVE  LedgerTypeOK'
    BY <1>6 DEF CommandEnds
  <1>7. CASE HostRestarts BY <1>7 DEF HostRestarts
  <1>8. CASE UNCHANGED ledgerVars BY <1>8 DEF ledgerVars
  <1>9. QED BY <1>1, <1>2, <1>3, <1>4, <1>5, <1>6, <1>7, <1>8 DEF LedgerNext

\* Every variable of the ledger keeps its type: the records, the commands that hold their
\* locks, the workers and what they started (app/runner_jobs.py).
THEOREM LedgerTypeCorrect == LedgerSpec => []LedgerTypeOK
  <1>1. QED BY InitType, StepType, PTL DEF LedgerSpec

-----------------------------------------------------------------------------
(* The inductive invariant is kept *)

LEMMA InitInv == LedgerInit => LedgerInv
  <1> SUFFICES ASSUME LedgerInit, NEW j \in Jobs PROVE JobInv(j)
    BY InitType DEF LedgerInv
  <1>1. /\ record[j].status = "unknown" /\ ~record[j].worker_pid
        /\ submitting[j] = "no" /\ worker[j] = "none" /\ command[j] = "none"
    BY DEF LedgerInit, NoRecord
  <1> QED BY <1>1 DEF JobInv, SubmitInv, WorkerInv, StatusInv, Alive, Final

\* A step that leaves everything of job k alone keeps the invariant of k.
LEMMA OtherJobs ==
  ASSUME NEW k, JobInv(k), record'[k] = record[k], submitting'[k] = submitting[k],
         worker'[k] = worker[k], command'[k] = command[k]
  PROVE  JobInv(k)'
  BY DEF JobInv, SubmitInv, WorkerInv, StatusInv

LEMMA SubmitKeeps ==
  ASSUME LedgerInv, NEW j \in Jobs, SubmitStep(j)
  PROVE  JobInv(j)'
  <1> USE DEF LedgerInv, LedgerTypeOK, JobInv, SubmitInv, WorkerInv, StatusInv, NewRecord,
              NoRecord, Final, Alive, LockIsFree, WorkerGoes
  <1>1. CASE SubmitStores(j) BY <1>1 DEF SubmitStores
  <1>2. CASE SubmitSpawns(j) BY <1>2 DEF SubmitSpawns
  <1>3. CASE SubmitRecordsPid(j) BY <1>3 DEF SubmitRecordsPid
  <1>4. QED BY <1>1, <1>2, <1>3 DEF SubmitStep

\* What the steps that write several columns of a record leave there.
LEMMA RecordWrites ==
  ASSUME record \in [Jobs -> Records], NEW j \in Jobs
  PROVE  /\ Get(j) =>
              record'[j].status = "failed" /\ record'[j].failure = "runner_process_lost"
         /\ Cancel(j) =>
              /\ record'[j].status = record[j].status
              /\ record'[j].worker_pid = record[j].worker_pid
         /\ WorkerTakes(j) /\ record[j].status = "submitted" => record'[j].status = "running"
         /\ WorkerRecordsError(j) =>
              record'[j].status = "failed" /\ record'[j].failure = "error"
         /\ WorkerConcludes(j) =>
              /\ record'[j].status \in Final
              /\ record'[j].status = "succeeded" =>
                   command[j] = "ok" /\ ~record'[j].cancel_requested
  <1>1. ASSUME Get(j)
        PROVE  record'[j].status = "failed" /\ record'[j].failure = "runner_process_lost"
    <2>1. record'[j] = [record[j] EXCEPT !.status = "failed", !.failure = "runner_process_lost"]
      BY <1>1 DEF Get
    <2>2. DOMAIN record[j] = {"status", "failure", "worker_pid", "cancel_requested"}
      BY DEF Records
    <2> QED BY <2>1, <2>2
  <1>2. Cancel(j) =>
          /\ record'[j].status = record[j].status
          /\ record'[j].worker_pid = record[j].worker_pid
    BY DEF Cancel, Records
  <1>3. ASSUME WorkerTakes(j), record[j].status = "submitted"
        PROVE  record'[j].status = "running"
    <2>1. record'[j] = [record[j] EXCEPT !.status = "running", !.worker_pid = TRUE]
      BY <1>3 DEF WorkerTakes
    <2> QED BY <2>1 DEF Records
  <1>4. WorkerRecordsError(j) =>
          record'[j].status = "failed" /\ record'[j].failure = "error"
    BY DEF WorkerRecordsError, Records
  <1>5. ASSUME WorkerConcludes(j)
        PROVE  /\ record'[j].status \in Final
               /\ record'[j].status = "succeeded" =>
                    command[j] = "ok" /\ ~record'[j].cancel_requested
    <2> DEFINE status == CASE record[j].cancel_requested -> "cancelled"
                           [] ~record[j].cancel_requested /\ command[j] = "ok" -> "succeeded"
                           [] OTHER -> "failed"
               failure == IF command[j] = "ok" THEN "" ELSE "execution_failure"
    <2>1. record'[j] = [record[j] EXCEPT !.status = status, !.failure = failure]
      BY <1>5 DEF WorkerConcludes
    <2>2. status \in Final BY DEF Final
    <2>3. status = "succeeded" => command[j] = "ok" /\ ~record[j].cancel_requested
      OBVIOUS
    <2> HIDE DEF status, failure
    <2>4. /\ record'[j].status = status
          /\ record'[j].cancel_requested = record[j].cancel_requested
      BY <2>1 DEF Records
    <2> QED BY <2>2, <2>3, <2>4
  <1>6. QED BY <1>1, <1>2, <1>3, <1>4, <1>5

LEMMA CallersKeep ==
  ASSUME LedgerInv, NEW j \in Jobs, Get(j) \/ Cancel(j)
  PROVE  JobInv(j)'
  <1>1. JobInv(j) /\ LedgerTypeOK /\ UNCHANGED <<submitting, worker, command>>
    BY DEF LedgerInv, Get, Cancel
  <1>2. CASE Get(j)
    <2>1. worker[j] \notin Alive /\ submitting[j] = "no" /\ record[j].status \in Active
      BY <1>2 DEF Get, LockIsFree
    <2>2. record[j].worker_pid /\ worker[j] # "none"
      BY <1>1, <1>2, <2>1 DEF Get, JobInv, SubmitInv, WorkerInv, StatusInv
    <2> QED
      BY <1>1, <1>2, <2>1, <2>2, RecordWrites
      DEF LedgerTypeOK, JobInv, SubmitInv, WorkerInv, StatusInv, Alive, Final
  <1>3. CASE Cancel(j)
    <2>1. submitting[j] = "no" /\ record[j].status \in Active
      BY <1>3 DEF Cancel, LockIsFree
    <2> QED
      BY <1>1, <1>3, <2>1, RecordWrites
      DEF LedgerTypeOK, JobInv, SubmitInv, WorkerInv, StatusInv, Active, Alive, Final
  <1>4. QED BY <1>2, <1>3

LEMMA WorkerKeeps ==
  ASSUME LedgerInv, NEW j \in Jobs, WorkerStep(j)
  PROVE  JobInv(j)'
  <1>1. JobInv(j) /\ LedgerTypeOK /\ UNCHANGED submitting
    BY DEF LedgerInv, WorkerStep, WorkerTakes, WorkerStartsCommand, WorkerRecordsProcess,
           WorkerBeats, WorkerStopsCommand, WorkerSeesExit, WorkerConcludes, WorkerRecordsError
  <1>2. CASE WorkerTakes(j)
    <2>1. record[j].status = "submitted" /\ submitting[j] = "no" /\ UNCHANGED command
      BY <1>1, <1>2 DEF WorkerTakes, LockIsFree, JobInv, WorkerInv
    <2>2. record'[j].status = "running" /\ worker'[j] = "starting"
      BY <1>1, <1>2, <2>1, RecordWrites DEF LedgerTypeOK, WorkerTakes, WorkerGoes
    <2> QED
      BY <1>1, <2>1, <2>2 DEF JobInv, SubmitInv, WorkerInv, StatusInv, Alive, Final
  <1>3. CASE WorkerConcludes(j)
    <2>1. worker[j] = "finishing" /\ submitting[j] = "no" /\ UNCHANGED command
      BY <1>3 DEF WorkerConcludes, LockIsFree
    <2>2. worker'[j] = "exited" BY <1>1, <1>3 DEF LedgerTypeOK, WorkerConcludes, WorkerGoes
    <2> QED
      BY <1>1, <1>3, <2>1, <2>2, RecordWrites
      DEF LedgerTypeOK, JobInv, SubmitInv, WorkerInv, StatusInv, Alive, Final
  <1>4. CASE WorkerRecordsError(j)
    <2>1. worker[j] = "failing" /\ submitting[j] = "no" /\ UNCHANGED command
      BY <1>4 DEF WorkerRecordsError, LockIsFree
    <2>2. worker'[j] = "exited" BY <1>1, <1>4 DEF LedgerTypeOK, WorkerRecordsError, WorkerGoes
    <2> QED
      BY <1>1, <1>4, <2>1, <2>2, RecordWrites
      DEF LedgerTypeOK, JobInv, SubmitInv, WorkerInv, StatusInv, Alive, Final
  <1>5. CASE WorkerStartsCommand(j)
    <2>1. /\ worker[j] = "starting" /\ worker'[j] = "started"
          /\ command'[j] = "working" /\ UNCHANGED record
      BY <1>1, <1>5 DEF LedgerTypeOK, WorkerStartsCommand, WorkerGoes
    <2>2. record[j].status = "running" /\ submitting[j] = "no"
      BY <1>1, <2>1 DEF LedgerTypeOK, JobInv, WorkerInv, SubmitInv, Alive
    <2> QED
      BY <1>1, <2>1, <2>2 DEF JobInv, SubmitInv, WorkerInv, StatusInv, Final
  <1>6. CASE WorkerRecordsProcess(j) \/ WorkerBeats(j) \/ WorkerSeesExit(j)
    <2>1. worker[j] \in {"started", "watching"} /\ UNCHANGED <<record, command>>
      BY <1>6 DEF WorkerRecordsProcess, WorkerBeats, WorkerSeesExit
    <2>2. record[j].status = "running" /\ submitting[j] = "no" /\ command[j] # "none"
      BY <1>1, <2>1 DEF LedgerTypeOK, JobInv, WorkerInv, SubmitInv, Alive
    <2>3. CASE WorkerRecordsProcess(j) \/ WorkerBeats(j)
      <3>1. worker'[j] \in {"watching", "stopping"}
        BY <1>1, <2>3 DEF LedgerTypeOK, WorkerRecordsProcess, WorkerBeats, WorkerGoes
      <3> QED
        BY <1>1, <2>1, <2>2, <3>1 DEF JobInv, SubmitInv, WorkerInv, StatusInv, Final
    <2>4. CASE WorkerSeesExit(j)
      <3>1. worker'[j] = "finishing" /\ command[j] # "working"
        BY <1>1, <2>4 DEF LedgerTypeOK, WorkerSeesExit, WorkerGoes
      <3> QED
        BY <1>1, <2>1, <2>2, <3>1 DEF JobInv, SubmitInv, WorkerInv, StatusInv, Final
    <2>5. QED BY <1>6, <2>3, <2>4
  <1>7. ASSUME NEW outcome \in {"ok", "bad"}, WorkerStopsCommand(j, outcome)
        PROVE  JobInv(j)'
    <2>1. worker[j] = "stopping" /\ worker'[j] = "finishing" /\ UNCHANGED record
      BY <1>1, <1>7 DEF LedgerTypeOK, WorkerStopsCommand, WorkerGoes
    <2>2. record[j].status = "running" /\ submitting[j] = "no" /\ command[j] # "none"
      BY <1>1, <2>1 DEF LedgerTypeOK, JobInv, WorkerInv, SubmitInv, Alive
    <2>3. command'[j] \notin {"none", "working"}
      BY <1>1, <1>7, <2>2 DEF LedgerTypeOK, WorkerStopsCommand
    <2> QED
      BY <1>1, <2>1, <2>2, <2>3 DEF JobInv, SubmitInv, WorkerInv, StatusInv, Final
  <1>8. QED
    BY <1>2, <1>3, <1>4, <1>5, <1>6, <1>7 DEF WorkerStep

LEMMA FaultsKeep ==
  ASSUME LedgerInv, NEW j \in Jobs, LedgerFault(j)
  PROVE  JobInv(j)'
  <1> USE DEF LedgerInv, LedgerTypeOK, Records, JobInv, SubmitInv, WorkerInv, StatusInv,
              NewRecord, NoRecord, Active, Final, Alive, WorkerGoes
  <1>1. CASE SubmitFails(j) BY <1>1 DEF SubmitFails
  <1>2. CASE WorkerRaises(j) BY <1>2 DEF WorkerRaises
  <1>3. CASE WorkerDies(j) BY <1>3 DEF WorkerDies
  <1>4. QED BY <1>1, <1>2, <1>3 DEF LedgerFault

LEMMA CommandEndKeeps ==
  ASSUME LedgerInv, NEW j \in Jobs, NEW outcome \in {"ok", "bad"}, CommandEnds(j, outcome)
  PROVE  JobInv(j)'
  <1>1. /\ UNCHANGED <<record, submitting, worker>>
        /\ command[j] = "working" /\ command'[j] \in {"ok", "bad"}
    BY DEF CommandEnds, LedgerInv, LedgerTypeOK
  <1>2. JobInv(j)
    BY DEF LedgerInv
  <1>3. SubmitInv(j)'
    BY <1>1, <1>2 DEF JobInv, SubmitInv
  <1>4. WorkerInv(j)'
    BY <1>1, <1>2 DEF JobInv, WorkerInv, Alive
  <1>5. record[j].status \notin {"submitted", "succeeded"}
    BY <1>1, <1>2 DEF JobInv, StatusInv
  <1>6. StatusInv(j)'
    BY <1>1, <1>2, <1>5 DEF JobInv, StatusInv, Final
  <1>7. QED BY <1>3, <1>4, <1>6 DEF JobInv

LEMMA RestartKeeps ==
  ASSUME LedgerInv, HostRestarts, NEW k \in Jobs
  PROVE  JobInv(k)'
  BY DEF HostRestarts, LedgerInv, LedgerTypeOK, Records, JobInv, SubmitInv, WorkerInv,
         StatusInv, NewRecord, NoRecord, Active, Final, Alive

\* Whatever job j a step is of, the invariant of every job k is kept.
LEMMA StepInv == LedgerInv /\ [LedgerNext]_ledgerVars => LedgerInv'
  <1> SUFFICES ASSUME LedgerInv, [LedgerNext]_ledgerVars, NEW k \in Jobs PROVE JobInv(k)'
    BY StepType DEF LedgerInv
  <1>1. JobInv(k) BY DEF LedgerInv
  <1>2. ASSUME NEW j \in Jobs, SubmitStep(j) PROVE JobInv(k)'
    BY <1>1, <1>2, SubmitKeeps, OtherJobs
    DEF LedgerInv, LedgerTypeOK, SubmitStep, SubmitStores, SubmitSpawns, SubmitRecordsPid,
        WorkerGoes
  <1>3. ASSUME NEW j \in Jobs, Get(j) \/ Cancel(j) PROVE JobInv(k)'
    BY <1>1, <1>3, CallersKeep, OtherJobs DEF LedgerInv, LedgerTypeOK, Get, Cancel
  <1>4. ASSUME NEW j \in Jobs, WorkerStep(j) PROVE JobInv(k)'
    BY <1>1, <1>4, WorkerKeeps, OtherJobs
    DEF LedgerInv, LedgerTypeOK, WorkerStep, WorkerTakes, WorkerStartsCommand,
        WorkerRecordsProcess, WorkerBeats, WorkerStopsCommand, WorkerSeesExit,
        WorkerConcludes, WorkerRecordsError, WorkerGoes
  <1>5. ASSUME NEW j \in Jobs, LedgerFault(j) PROVE JobInv(k)'
    BY <1>1, <1>5, FaultsKeep, OtherJobs
    DEF LedgerInv, LedgerTypeOK, LedgerFault, SubmitFails, WorkerRaises, WorkerDies, WorkerGoes
  <1>6. ASSUME NEW j \in Jobs, NEW outcome \in {"ok", "bad"}, CommandEnds(j, outcome)
        PROVE  JobInv(k)'
    BY <1>1, <1>6, CommandEndKeeps, OtherJobs DEF LedgerInv, LedgerTypeOK, CommandEnds
  <1>7. CASE HostRestarts BY <1>7, RestartKeeps
  <1>8. CASE UNCHANGED ledgerVars BY <1>1, <1>8, OtherJobs DEF ledgerVars
  <1>9. QED BY <1>2, <1>3, <1>4, <1>5, <1>6, <1>7, <1>8 DEF LedgerNext

LEMMA LedgerInvariant == LedgerSpec => []LedgerInv
  BY InitInv, StepInv, PTL DEF LedgerSpec

-----------------------------------------------------------------------------
(* The properties of the runs *)

\* A job reported as succeeded, cancelled, or failed with its command has no process left;
\* what succeeded was not cancelled (run, get).
THEOREM OutcomesAreProofs == LedgerSpec => []OutcomesProveTheEnd
  <1>1. LedgerInv => OutcomesProveTheEnd
    BY DEF LedgerInv, LedgerTypeOK, Records, JobInv, WorkerInv, StatusInv, OutcomesProveTheEnd,
           ReportedActive, Active, Final
  <1>2. QED BY <1>1, LedgerInvariant, PTL

\* The command of a job is started at most once (submit, run).
THEOREM AtMostOnce == LedgerSpec => CommandsRunOnce
  <1> DEFINE A == \A j \in Jobs : command[j] # "none" /\ command'[j] # command[j] =>
                    command[j] = "working" /\ command'[j] \in {"ok", "bad"}
  <1>1. LedgerInv /\ [LedgerNext]_ledgerVars => [A]_ledgerVars
    <2> SUFFICES ASSUME LedgerInv, LedgerNext, NEW j \in Jobs, command[j] # "none",
                        command'[j] # command[j]
                 PROVE  command[j] = "working" /\ command'[j] \in {"ok", "bad"}
      OBVIOUS
    <2>1. worker[j] # "starting" BY DEF LedgerInv, JobInv, WorkerInv
    <2>2. command \in [Jobs -> {"none", "working", "ok", "bad"}]
      BY DEF LedgerInv, LedgerTypeOK
    <2>3. QED
      BY <2>1, <2>2
      DEF LedgerNext, SubmitStep, SubmitStores, SubmitSpawns, SubmitRecordsPid, Get, Cancel,
          WorkerStep, WorkerTakes, WorkerStartsCommand, WorkerRecordsProcess, WorkerBeats,
          WorkerStopsCommand, WorkerSeesExit, WorkerConcludes, WorkerRecordsError,
          LedgerFault, SubmitFails, WorkerRaises, WorkerDies, CommandEnds, HostRestarts
  <1>2. QED BY <1>1, LedgerInvariant, PTL DEF LedgerSpec, CommandsRunOnce

\* No late write changes the record of a job that ended (submit, run, get, cancel).
THEOREM FinalStatusKept == LedgerSpec => FinalStatusIsKept
  <1> DEFINE A == \A j \in Jobs : record[j].status \in Final => record'[j] = record[j]
  <1>1. LedgerInv /\ [LedgerNext]_ledgerVars => [A]_ledgerVars
    <2> SUFFICES ASSUME LedgerInv, LedgerNext, NEW j \in Jobs, record[j].status \in Final
                 PROVE  record'[j] = record[j]
      OBVIOUS
    <2>1. worker[j] = "exited" /\ submitting[j] = "no"
      BY DEF LedgerInv, JobInv, StatusInv
    <2>2. record[j].status # "unknown" /\ record[j].status \notin Active
      BY DEF Final, Active
    <2>3. record \in [Jobs -> Records] BY DEF LedgerInv, LedgerTypeOK
    <2>4. QED
      BY <2>1, <2>2, <2>3
      DEF LedgerNext, SubmitStep, SubmitStores, SubmitSpawns, SubmitRecordsPid, Get, Cancel,
          WorkerStep, WorkerTakes, WorkerStartsCommand, WorkerRecordsProcess, WorkerBeats,
          WorkerStopsCommand, WorkerSeesExit, WorkerConcludes, WorkerRecordsError,
          LedgerFault, SubmitFails, WorkerRaises, WorkerDies, CommandEnds, HostRestarts
  <1>2. QED BY <1>1, LedgerInvariant, PTL DEF LedgerSpec, FinalStatusIsKept

=============================================================================
