------------------------------ MODULE RunnerLedger ------------------------------
(***************************************************************************)
(* The file-backed job ledger of the Mac runner, app/runner_jobs.py, as the *)
(* SSH commands submit, status, cancel and probe of                         *)
(* scripts/mac_ssh_entrypoint.py use it.  A job is a JSON record; every     *)
(* command and the worker of the job are processes of their own, which read *)
(* and rewrite it under a file lock.  The lock ends with its holder, and a  *)
(* record is replaced by a rename, so what one holder does under the lock   *)
(* is one step; submit alone writes twice, and starts a process in between. *)
(*                                                                          *)
(* Left out: the request of the job (submitting it again returns the record *)
(* that is there, or is refused), times, paths, the contents of the result, *)
(* and a pid that is given to another process while its job is active.      *)
(***************************************************************************)
EXTENDS Integers

CONSTANTS
  Jobs,       \* job ids
  MaxFaults   \* bound: processes that die and calls that raise

ASSUME FaultsAssumption == MaxFaults \in Nat

VARIABLES
  record,      \* record[j]: the file <j>.json
  submitting,  \* submitting[j]: where the submit command is that holds the lock of j
  worker,      \* worker[j]: where RunnerJobStore.run of job j is
  command,     \* command[j]: the process the worker starts, and how it ended
  faults

ledgerVars == <<record, submitting, worker, command, faults>>

-----------------------------------------------------------------------------
Final == {"succeeded", "failed", "cancelled"}
Active == {"submitted", "running"}

Records ==
  [status : {"unknown"} \cup Active \cup Final,
   worker_pid : BOOLEAN,         \* whether a worker is on record
   cancel_requested : BOOLEAN,
   failure : {"", "execution_failure", "runner_process_lost", "error"}]

NoRecord ==
  [status |-> "unknown", worker_pid |-> FALSE, cancel_requested |-> FALSE, failure |-> ""]

NewRecord == [NoRecord EXCEPT !.status = "submitted"]

Alive ==
  {"waiting", "starting", "started", "watching", "stopping", "finishing", "failing"}

LedgerTypeOK ==
  /\ record \in [Jobs -> Records]
  /\ submitting \in [Jobs -> {"no", "stored", "spawned"}]
  /\ worker \in [Jobs -> {"none", "exited"} \cup Alive]
  /\ command \in [Jobs -> {"none", "working", "ok", "bad"}]
  /\ faults \in 0 .. MaxFaults

LedgerInit ==
  /\ record = [j \in Jobs |-> NoRecord]
  /\ submitting = [j \in Jobs |-> "no"]
  /\ worker = [j \in Jobs |-> "none"]
  /\ command = [j \in Jobs |-> "none"]
  /\ faults = 0

Fault == faults < MaxFaults /\ faults' = faults + 1

\* _locked, for whoever is not the submit command that has it.
LockIsFree(j) == submitting[j] = "no"

WorkerGoes(j, pc) == worker' = [worker EXCEPT ![j] = pc]

\* The probe command looks for such a job of the task.
ReportedActive(j) == record[j].status \in Active

-----------------------------------------------------------------------------
(* The commands *)

\* Mutant: a job whose worker was lost may be submitted again.
SubmitRestarts(j) ==
  /\ LockIsFree(j)
  /\ record[j].status = "unknown" \/ record[j].failure = "runner_process_lost"
  /\ record' = [record EXCEPT ![j] = NewRecord]
  /\ submitting' = [submitting EXCEPT ![j] = "stored"]
  /\ UNCHANGED <<worker, command, faults>>

\* submit of an id that has no record: the record is stored, ...
SubmitStores(j) ==
  /\ LockIsFree(j)
  /\ record[j].status = "unknown"
  /\ record' = [record EXCEPT ![j] = NewRecord]
  /\ submitting' = [submitting EXCEPT ![j] = "stored"]
  /\ UNCHANGED <<worker, command, faults>>

\* ... a worker is started, ...
SubmitSpawns(j) ==
  /\ submitting[j] = "stored"
  /\ WorkerGoes(j, "waiting")
  /\ submitting' = [submitting EXCEPT ![j] = "spawned"]
  /\ UNCHANGED <<record, command, faults>>

\* ... and the record is stored again, with the worker's pid.
SubmitRecordsPid(j) ==
  /\ submitting[j] = "spawned"
  /\ record' = [record EXCEPT ![j] = [NewRecord EXCEPT !.worker_pid = TRUE]]
  /\ submitting' = [submitting EXCEPT ![j] = "no"]
  /\ UNCHANGED <<worker, command, faults>>

\* The command dies or raises between its two writes, and the lock is free.
SubmitFails(j) ==
  /\ submitting[j] # "no"
  /\ submitting' = [submitting EXCEPT ![j] = "no"]
  /\ Fault
  /\ UNCHANGED <<record, worker, command>>

\* Mutant: only a running job is looked after.
GetRunning(j) ==
  /\ LockIsFree(j)
  /\ record[j].status = "running"
  /\ worker[j] \notin Alive
  /\ record' = [record EXCEPT ![j].status = "failed",
                              ![j].failure = "runner_process_lost"]
  /\ UNCHANGED <<submitting, worker, command, faults>>

\* status and probe fail an active job whose worker is on record and not alive.
Get(j) ==
  /\ LockIsFree(j)
  /\ record[j].status \in Active
  /\ record[j].worker_pid
  /\ worker[j] \notin Alive
  /\ record' = [record EXCEPT ![j].status = "failed",
                              ![j].failure = "runner_process_lost"]
  /\ UNCHANGED <<submitting, worker, command, faults>>

\* Mutant: cancel takes the decision itself.
CancelDecides(j) ==
  /\ LockIsFree(j)
  /\ record[j].status \in Active
  /\ record' = [record EXCEPT ![j].cancel_requested = TRUE, ![j].status = "cancelled"]
  /\ UNCHANGED <<submitting, worker, command, faults>>

\* cancel asks; the worker has to act on it.
Cancel(j) ==
  /\ LockIsFree(j)
  /\ record[j].status \in Active
  /\ record' = [record EXCEPT ![j].cancel_requested = TRUE]
  /\ UNCHANGED <<submitting, worker, command, faults>>

-----------------------------------------------------------------------------
(* The worker, RunnerJobStore.run *)

\* It takes a job only as it was submitted.
WorkerTakes(j) ==
  /\ worker[j] = "waiting"
  /\ LockIsFree(j)
  /\ IF record[j].status = "submitted"
     THEN /\ record' = [record EXCEPT ![j].status = "running", ![j].worker_pid = TRUE]
          /\ WorkerGoes(j, "starting")
     ELSE UNCHANGED record /\ WorkerGoes(j, "exited")
  /\ UNCHANGED <<submitting, command, faults>>

WorkerStartsCommand(j) ==
  /\ worker[j] = "starting"
  /\ command' = [command EXCEPT ![j] = "working"]
  /\ WorkerGoes(j, "started")
  /\ UNCHANGED <<record, submitting, faults>>

\* The process id of the command is stored.
WorkerRecordsProcess(j) ==
  /\ worker[j] = "started"
  /\ LockIsFree(j)
  /\ WorkerGoes(j, "watching")
  /\ UNCHANGED <<record, submitting, command, faults>>

\* Mutant: the flag is looked at only before the command is started.
WorkerOnlyBeats(j) ==
  /\ worker[j] = "watching"
  /\ LockIsFree(j)
  /\ command[j] = "working"
  /\ UNCHANGED ledgerVars

\* Each heartbeat reads the record again, and with it the flag of cancel.
WorkerBeats(j) ==
  /\ worker[j] = "watching"
  /\ LockIsFree(j)
  /\ command[j] = "working"
  /\ record[j].cancel_requested
  /\ WorkerGoes(j, "stopping")
  /\ UNCHANGED <<record, submitting, command, faults>>

\* SIGTERM, then SIGKILL, and wait; unless the command has just ended.
WorkerStopsCommand(j, outcome) ==
  /\ worker[j] = "stopping"
  /\ command' = [command EXCEPT ![j] = IF @ = "working" THEN outcome ELSE @]
  /\ WorkerGoes(j, "finishing")
  /\ UNCHANGED <<record, submitting, faults>>

WorkerSeesExit(j) ==
  /\ worker[j] = "watching"
  /\ command[j] \in {"ok", "bad"}
  /\ WorkerGoes(j, "finishing")
  /\ UNCHANGED <<record, submitting, command, faults>>

\* The flag is read once more: it decides between cancelled and the exit code.
WorkerConcludes(j) ==
  /\ worker[j] = "finishing"
  /\ LockIsFree(j)
  /\ record' = [record EXCEPT
       ![j].status = CASE record[j].cancel_requested -> "cancelled"
                       [] ~record[j].cancel_requested /\ command[j] = "ok" -> "succeeded"
                       [] OTHER -> "failed",
       ![j].failure = IF command[j] = "ok" THEN "" ELSE "execution_failure"]
  /\ WorkerGoes(j, "exited")
  /\ UNCHANGED <<submitting, command, faults>>

\* Mutant: the name of the exception is stored as the status.
WorkerStoresException(j) ==
  /\ worker[j] = "failing"
  /\ LockIsFree(j)
  /\ record' = [record EXCEPT ![j].status = "error"]
  /\ WorkerGoes(j, "exited")
  /\ UNCHANGED <<submitting, command, faults>>

\* Mutant: an exception is stored as a failure of the command.
WorkerBlamesCommand(j) ==
  /\ worker[j] = "failing"
  /\ LockIsFree(j)
  /\ record' = [record EXCEPT ![j].status = "failed", ![j].failure = "execution_failure"]
  /\ WorkerGoes(j, "exited")
  /\ UNCHANGED <<submitting, command, faults>>

\* The start of the command, a write or a signal raises ...
WorkerRaises(j) ==
  /\ worker[j] \in {"starting", "started", "watching", "stopping", "finishing"}
  /\ WorkerGoes(j, "failing")
  /\ Fault
  /\ UNCHANGED <<record, submitting, command>>

\* ... which is stored, and the command is left to itself.
WorkerRecordsError(j) ==
  /\ worker[j] = "failing"
  /\ LockIsFree(j)
  /\ record' = [record EXCEPT ![j].status = "failed", ![j].failure = "error"]
  /\ WorkerGoes(j, "exited")
  /\ UNCHANGED <<submitting, command, faults>>

-----------------------------------------------------------------------------
(* The environment *)

CommandEnds(j, outcome) ==
  /\ command[j] = "working"
  /\ command' = [command EXCEPT ![j] = outcome]
  /\ UNCHANGED <<record, submitting, worker, faults>>

\* Killed, or the write of its exception raises too.
WorkerDies(j) ==
  /\ worker[j] \in Alive
  /\ WorkerGoes(j, "exited")
  /\ Fault
  /\ UNCHANGED <<record, submitting, command>>

\* Nothing but the files is left.
HostRestarts ==
  /\ submitting' = [j \in Jobs |-> "no"]
  /\ worker' = [j \in Jobs |-> IF worker[j] \in Alive THEN "exited" ELSE worker[j]]
  /\ command' = [j \in Jobs |-> IF command[j] = "working" THEN "bad" ELSE command[j]]
  /\ Fault
  /\ UNCHANGED record

-----------------------------------------------------------------------------
SubmitStep(j) == SubmitStores(j) \/ SubmitSpawns(j) \/ SubmitRecordsPid(j)

WorkerStep(j) ==
  \/ WorkerTakes(j) \/ WorkerStartsCommand(j) \/ WorkerRecordsProcess(j)
  \/ WorkerBeats(j) \/ \E outcome \in {"ok", "bad"} : WorkerStopsCommand(j, outcome)
  \/ WorkerSeesExit(j) \/ WorkerConcludes(j) \/ WorkerRecordsError(j)

LedgerFault(j) == SubmitFails(j) \/ WorkerRaises(j) \/ WorkerDies(j)

LedgerNext ==
  \/ \E j \in Jobs :
       \/ SubmitStep(j) \/ Get(j) \/ Cancel(j) \/ WorkerStep(j) \/ LedgerFault(j)
       \/ \E outcome \in {"ok", "bad"} : CommandEnds(j, outcome)
  \/ HostRestarts

LedgerSpec == LedgerInit /\ [][LedgerNext]_ledgerVars

\* Processes that were started go on, and whoever submitted a job asks for its status.
\* Nothing is assumed of the command: only a signal is sure to end it.
LiveLedgerSpec ==
  /\ LedgerSpec
  /\ \A j \in Jobs :
       WF_ledgerVars(SubmitRecordsPid(j)) /\ WF_ledgerVars(WorkerStep(j))
         /\ WF_ledgerVars(Get(j))

-----------------------------------------------------------------------------
(* Properties *)

\* The command of a job is started once: no crash of submit or of the worker, no later
\* submit of the same id and no second worker start it again (submit, run).
CommandsRunOnce ==
  [][\A j \in Jobs : command[j] # "none" /\ command'[j] # command[j] =>
                       command[j] = "working" /\ command'[j] \in {"ok", "bad"}]_ledgerVars

\* Once a caller has been told a final status, no late write of submit, of the worker or
\* of cancel changes it (run, get and cancel under the lock).
FinalStatusIsKept ==
  [][\A j \in Jobs : record[j].status \in Final => record'[j] = record[j]]_ledgerVars

\* What a job that is reported as ended proves about its command: it has ended, and
\* with success if it succeeded, except when the failure is not the command's own. Then
\* the command may be working still, unknown to the probe.
OutcomesProveTheEnd ==
  \A j \in Jobs :
    /\ record[j].status = "succeeded" => command[j] = "ok" /\ ~record[j].cancel_requested
    /\ command[j] = "working" /\ ~ReportedActive(j) =>
         record[j].failure \in {"runner_process_lost", "error"}

\* A job on record with its worker that was asked to end is ended, even if its command
\* does not end by itself, and though processes die (the heartbeat of run, get).
CancelledJobsEnd ==
  \A j \in Jobs :
    ReportedActive(j) /\ record[j].worker_pid /\ record[j].cancel_requested
      ~> record[j].status \in Final

\* A job whose submit command returned does not stay submitted (submit, run, get).
SubmittedJobsStart ==
  \A j \in Jobs :
    record[j].status = "submitted" /\ record[j].worker_pid
      ~> record[j].status \in Final \cup {"running"}

=============================================================================
