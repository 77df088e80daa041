------------------------------ MODULE PullRunner ------------------------------
(***************************************************************************)
(* The runner hosts around the job store: the polling daemon of             *)
(* app/runner_daemon.py, the supervisor process it starts for every claim   *)
(* (app/runner_job_worker.py run_job), and the child process the supervisor *)
(* starts to do the work.  The store is JobStore; its methods are called    *)
(* here by the code that calls them, with the handles that code holds.      *)
(*                                                                          *)
(* Supervisors and children are sessions of their own (start_new_session),  *)
(* so each can die without the other.  Faults, a process that dies, a host  *)
(* that reboots or a call of the store that raises, happen at any point, at *)
(* most MaxFaults of them in a behaviour.                                   *)
(*                                                                          *)
(* The Codex health check is an input: it says healthy, throttled or        *)
(* neither at each poll.  The scheduler that enqueues jobs and the operator *)
(* who requeues uncertain ones are the environment.                         *)
(***************************************************************************)
EXTENDS JobStore

CONSTANTS
  MaxFaults,   \* bound: faults in a behaviour
  Horizon      \* bound: no lease is taken that ends after this time

ASSUME FaultAssumption == MaxFaults \in Nat /\ Horizon \in Nat

VARIABLES
  daemon,   \* daemon[r]: where the daemon of r is, and the handle it got from a claim
  proc,     \* proc[j][a]: the processes of attempt a of job j
  faults    \* faults so far

runnerVars == <<daemon, proc, faults>>
allVars == <<vars, runnerVars>>

NoHandle == <<"no-job", NoAttempt>>

DaemonPhases == {"down", "loop", "sweep", "poll", "claim", "start"}

\* A supervisor checks the attempt, launches the child, records it, watches it,
\* then terminates it or reports its exit.
SupervisorPhases == {"none", "checking", "launching", "recording", "watching",
                     "stopping", "reporting", "exited"}

ChildStates == {"none", "alive", "ok", "bad", "killed"}

\* The result artifact a supervisor leaves when the store did not take its verdict.
Artifacts == {"none", "store_failed", "fenced"}

DaemonRow == [pc : DaemonPhases, handle : (Jobs \X AttemptNumbers) \cup {NoHandle}]

ProcRow == [sup : SupervisorPhases, child : ChildStates, artifact : Artifacts]

RunnerTypeOK ==
  /\ TypeOK
  /\ daemon \in [Runners -> DaemonRow]
  /\ proc \in [Jobs -> [AttemptNumbers -> ProcRow]]
  /\ faults \in 0 .. MaxFaults

RunnerInit ==
  /\ Init
  /\ daemon = [r \in Runners |-> [pc |-> "down", handle |-> NoHandle]]
  /\ proc = [j \in Jobs |-> [a \in AttemptNumbers |->
       [sup |-> "none", child |-> "none", artifact |-> "none"]]]
  /\ faults = 0

-----------------------------------------------------------------------------
StoreUnchanged == UNCHANGED vars

Fault == faults < MaxFaults /\ faults' = faults + 1

DaemonGoes(r, pc) == daemon' = [daemon EXCEPT ![r] = [pc |-> pc, handle |-> NoHandle]]

\* Leases taken from here on end within the modelled time.
WithinHorizon(r) == HostNow(r) + Lease <= Horizon

Obtainable(r, j) ==
  Claimable(r, j) /\ jobs[j].attempt_count < MaxAttempts /\ WithinHorizon(r)

-----------------------------------------------------------------------------
(* The daemon.  One pass of the loop of run_daemon is beat, sweep, poll, claim
   and start; it skips beat and sweep until heartbeat_seconds have passed. *)

DaemonStarts(r) ==
  /\ daemon[r].pc = "down"
  /\ RegisterRunner(r, MaxCodex[r])
  /\ DaemonGoes(r, "loop")
  /\ UNCHANGED <<proc, faults>>

\* Mutant: the sweep is skipped.
DaemonBeatsOnly(r) ==
  /\ daemon[r].pc = "loop"
  /\ HeartbeatRunner(r, "online")
  /\ DaemonGoes(r, "poll")
  /\ UNCHANGED <<proc, faults>>

DaemonBeats(r) ==
  /\ daemon[r].pc = "loop"
  /\ HeartbeatRunner(r, "online")
  /\ DaemonGoes(r, "sweep")
  /\ UNCHANGED <<proc, faults>>

DaemonSweeps(r) ==
  /\ daemon[r].pc = "sweep"
  /\ MarkExpiredJobsUncertain(r, Expired(r))
  /\ DaemonGoes(r, "poll")
  /\ UNCHANGED <<proc, faults>>

DaemonSkipsBeat(r) ==
  /\ daemon[r].pc = "loop"
  /\ DaemonGoes(r, "poll")
  /\ StoreUnchanged
  /\ UNCHANGED <<proc, faults>>

\* It registers again with the capacity the quota leaves, or does not claim.
DaemonPolls(r, quota) ==
  /\ daemon[r].pc = "poll"
  /\ \/ /\ quota \in {"healthy", "throttled"}
        /\ RegisterRunner(r, IF quota = "throttled" THEN 1 ELSE MaxCodex[r])
        /\ DaemonGoes(r, "claim")
     \/ /\ quota = "unavailable"
        /\ StoreUnchanged
        /\ DaemonGoes(r, "loop")
  /\ UNCHANGED <<proc, faults>>

\* Mutant: the handle is taken from the row as it was before the claim.
DaemonClaimsStaleRow(r, j) ==
  /\ daemon[r].pc = "claim"
  /\ WithinHorizon(r)
  /\ ClaimJob(r, j)
  /\ daemon' = [daemon EXCEPT ![r] =
       [pc |-> "start", handle |-> <<j, jobs[j].current_attempt_id>>]]
  /\ UNCHANGED <<proc, faults>>

DaemonClaims(r, j) ==
  /\ daemon[r].pc = "claim"
  /\ WithinHorizon(r)
  /\ ClaimJob(r, j)
  /\ daemon' = [daemon EXCEPT ![r] =
       [pc |-> "start", handle |-> <<j, jobs'[j].current_attempt_id>>]]
  /\ UNCHANGED <<proc, faults>>

DaemonClaimsNothing(r) ==
  /\ daemon[r].pc = "claim"
  /\ \/ ClaimWhileStale(r)
     \/ /\ ~ RunnerIsStale(r)
        /\ \A j \in Jobs : ~ Obtainable(r, j)
        /\ StoreUnchanged
  /\ DaemonGoes(r, "loop")
  /\ UNCHANGED <<proc, faults>>

DaemonStartsWorker(r) ==
  /\ daemon[r].pc = "start"
  /\ LET j == daemon[r].handle[1]
         a == daemon[r].handle[2]
     IN  proc' = [proc EXCEPT ![j][a].sup = "checking"]
  /\ DaemonGoes(r, "loop")
  /\ StoreUnchanged
  /\ UNCHANGED faults

\* Mutant: the failure to spawn is passed as a result instead of an error.
DaemonReportsSpawnAsResult(r) ==
  /\ daemon[r].pc = "start"
  /\ Fault
  /\ LET j == daemon[r].handle[1]
         a == daemon[r].handle[2]
     IN  IF HoldsLease(j, r, a) THEN CompleteJob(j, r, a, "succeeded") ELSE StoreUnchanged
  /\ DaemonGoes(r, "loop")
  /\ UNCHANGED proc

\* Popen raises OSError: the attempt is reported failed, if it is still current.  (So it
\* is when the line logged after a start that succeeded cannot be written, which the same
\* handler catches; this model has no failing log, see the README.)
DaemonCannotSpawn(r) ==
  /\ daemon[r].pc = "start"
  /\ Fault
  /\ LET j == daemon[r].handle[1]
         a == daemon[r].handle[2]
     IN  IF HoldsLease(j, r, a) THEN CompleteJob(j, r, a, "failed") ELSE StoreUnchanged
  /\ DaemonGoes(r, "loop")
  /\ UNCHANGED proc

\* A call raises: the pass is over, and a handle it held is forgotten.
DaemonPassFails(r) ==
  /\ daemon[r].pc \notin {"down", "loop"}
  /\ Fault
  /\ DaemonGoes(r, "loop")
  /\ StoreUnchanged
  /\ UNCHANGED proc

\* SIGTERM ends the loop after a pass, and the runner goes offline ...
DaemonStops(r) ==
  /\ daemon[r].pc = "loop"
  /\ Fault
  /\ HeartbeatRunner(r, "offline")
  /\ DaemonGoes(r, "down")
  /\ UNCHANGED proc

\* ... a crash ends it anywhere, and the store is not told.
DaemonCrashes(r) ==
  /\ daemon[r].pc # "down"
  /\ Fault
  /\ DaemonGoes(r, "down")
  /\ StoreUnchanged
  /\ UNCHANGED proc

-----------------------------------------------------------------------------
(* The supervisor of attempt a, run_job. *)

SupGoes(j, a, phase) == proc' = [proc EXCEPT ![j][a].sup = phase]

\* The runner_id of the row the supervisor read.
Host(j, a) == attempts[j][a].runner_id

\* Mutant: any running attempt of the job will do.
SupChecksStatusOnly(j, a) ==
  /\ proc[j][a].sup = "checking"
  /\ SupGoes(j, a, IF Running(j) THEN "launching" ELSE "exited")
  /\ StoreUnchanged
  /\ UNCHANGED <<daemon, faults>>

SupChecks(j, a) ==
  /\ proc[j][a].sup = "checking"
  /\ SupGoes(j, a, IF Running(j) /\ jobs[j].current_attempt_id = a
                   THEN "launching" ELSE "exited")
  /\ StoreUnchanged
  /\ UNCHANGED <<daemon, faults>>

SupLaunches(j, a) ==
  /\ proc[j][a].sup = "launching"
  /\ proc' = [proc EXCEPT ![j][a].sup = "recording", ![j][a].child = "alive"]
  /\ StoreUnchanged
  /\ UNCHANGED <<daemon, faults>>

SupRecords(j, a) ==
  /\ proc[j][a].sup = "recording"
  /\ IF HoldsLease(j, Host(j, a), a)
     THEN RecordJobProcess(j, Host(j, a), a) /\ SupGoes(j, a, "watching")
     ELSE StoreUnchanged /\ SupGoes(j, a, "stopping")
  /\ UNCHANGED <<daemon, faults>>

\* Mutant: a heartbeat the fence refused is tried again, like one that raised.
SupHeartbeatsOn(j, a) ==
  /\ proc[j][a].sup = "watching"
  /\ proc[j][a].child = "alive"
  /\ IF HoldsLease(j, Host(j, a), a)
     THEN WithinHorizon(Host(j, a)) /\ HeartbeatJob(j, Host(j, a), a)
     ELSE StoreUnchanged
  /\ UNCHANGED <<proc, daemon, faults>>

\* While the child lives. A heartbeat that raises is tried again later.
SupHeartbeats(j, a) ==
  /\ proc[j][a].sup = "watching"
  /\ proc[j][a].child = "alive"
  /\ IF HoldsLease(j, Host(j, a), a)
     THEN /\ WithinHorizon(Host(j, a))
          /\ HeartbeatJob(j, Host(j, a), a)
          /\ UNCHANGED proc
     ELSE StoreUnchanged /\ SupGoes(j, a, "stopping")
  /\ UNCHANGED <<daemon, faults>>

\* _terminate and return 75.
SupTerminates(j, a) ==
  /\ proc[j][a].sup = "stopping"
  /\ proc' = [proc EXCEPT ![j][a].sup = "exited",
                          ![j][a].child = IF @ = "alive" THEN "killed" ELSE @]
  /\ StoreUnchanged
  /\ UNCHANGED <<daemon, faults>>

SupReaps(j, a) ==
  /\ proc[j][a].sup = "watching"
  /\ proc[j][a].child # "alive"
  /\ SupGoes(j, a, "reporting")
  /\ StoreUnchanged
  /\ UNCHANGED <<daemon, faults>>

\* A verdict the fence refuses is kept in an artifact (77) ...
SupReports(j, a) ==
  /\ proc[j][a].sup = "reporting"
  /\ LET outcome == IF proc[j][a].child = "ok" THEN "succeeded" ELSE "failed"
     IN  IF HoldsLease(j, Host(j, a), a)
         THEN CompleteJob(j, Host(j, a), a, outcome) /\ SupGoes(j, a, "exited")
         ELSE /\ StoreUnchanged
              /\ proc' = [proc EXCEPT ![j][a].sup = "exited", ![j][a].artifact = "fenced"]
  /\ UNCHANGED <<daemon, faults>>

\* ... and so is one the store raised on (76).
SupCannotReport(j, a) ==
  /\ proc[j][a].sup = "reporting"
  /\ Fault
  /\ proc' = [proc EXCEPT ![j][a].sup = "exited", ![j][a].artifact = "store_failed"]
  /\ StoreUnchanged
  /\ UNCHANGED daemon

\* A kill, or an exception outside the two handlers, as from the read of the task before
\* the report, ends the supervisor: its child works on, and an outcome it saw is lost.
SupDies(j, a) ==
  /\ proc[j][a].sup \notin {"none", "exited"}
  /\ Fault
  /\ SupGoes(j, a, "exited")
  /\ StoreUnchanged
  /\ UNCHANGED daemon

ChildExits(j, a, result) ==
  /\ proc[j][a].child = "alive"
  /\ proc' = [proc EXCEPT ![j][a].child = result]
  /\ StoreUnchanged
  /\ UNCHANGED <<daemon, faults>>

\* All processes of a host end at once.
HostReboots(r) ==
  /\ Fault
  /\ proc' = [j \in Jobs |-> [a \in AttemptNumbers |->
       IF Host(j, a) # r \/ proc[j][a].sup = "none" THEN proc[j][a]
       ELSE [proc[j][a] EXCEPT !.sup = "exited",
                               !.child = IF @ = "alive" THEN "killed" ELSE @]]]
  /\ DaemonGoes(r, "down")
  /\ StoreUnchanged

-----------------------------------------------------------------------------
(* The environment. *)

\* At any time, though an earlier job of the task may not have ended (TaskScheduler).
SchedulerEnqueues(j) ==
  /\ EnqueueJob(j)
  /\ UNCHANGED runnerVars

\* The proof the store asks for: neither supervisor nor child of a is left.
Stopped(j, a) ==
  /\ proc[j][a].sup \in {"none", "checking", "exited"}
  /\ proc[j][a].child # "alive"

OperatorRequeues(j, a) ==
  /\ Stopped(j, a)
  /\ SafelyRequeueUncertainJob(j, a)
  /\ UNCHANGED runnerVars

TimePasses == Tick /\ UNCHANGED runnerVars

-----------------------------------------------------------------------------
DaemonStep(r) ==
  \/ DaemonStarts(r) \/ DaemonBeats(r) \/ DaemonSweeps(r) \/ DaemonSkipsBeat(r)
  \/ \E quota \in {"healthy", "throttled", "unavailable"} : DaemonPolls(r, quota)
  \/ \E j \in Jobs : DaemonClaims(r, j)
  \/ DaemonClaimsNothing(r) \/ DaemonStartsWorker(r)

SupervisorStep(j, a) ==
  \/ SupChecks(j, a) \/ SupLaunches(j, a) \/ SupRecords(j, a) \/ SupHeartbeats(j, a)
  \/ SupTerminates(j, a) \/ SupReaps(j, a) \/ SupReports(j, a)

FaultStep ==
  \/ \E r \in Runners : \/ DaemonCannotSpawn(r) \/ DaemonPassFails(r)
                        \/ DaemonStops(r) \/ DaemonCrashes(r) \/ HostReboots(r)
  \/ \E j \in Jobs, a \in AttemptNumbers : SupCannotReport(j, a) \/ SupDies(j, a)

RunnerNext ==
  \/ TimePasses
  \/ \E r \in Runners : DaemonStep(r)
  \/ \E j \in Jobs, a \in AttemptNumbers :
       SupervisorStep(j, a) \/ \E result \in {"ok", "bad"} : ChildExits(j, a, result)
  \/ FaultStep
  \/ \E j \in Jobs : SchedulerEnqueues(j)
  \/ \E j \in Jobs, a \in AttemptNumbers : OperatorRequeues(j, a)

RunnerSpec == RunnerInit /\ [][RunnerNext]_allVars

\* The operating system runs every live process, launchd restarts the daemon, the
\* clock advances, and a daemon in its loop beats again when its interval is over,
\* though it may pass many times before.  No child need ever exit.
Fairness ==
  /\ WF_allVars(TimePasses)
  /\ \A r \in Runners :
       /\ WF_allVars(DaemonStep(r))
       /\ SF_allVars(DaemonBeats(r))
  /\ \A j \in Jobs, a \in AttemptNumbers : WF_allVars(SupervisorStep(j, a))

LiveRunnerSpec == RunnerSpec /\ Fairness

-----------------------------------------------------------------------------
(* Properties *)

Alive(j, a) == proc[j][a].child = "alive"

\* Every child process still working belongs to the current attempt of a job the
\* store shows as running or uncertain: a job that is settled, or was requeued, has
\* no process left, whichever processes died, stalled or were fenced before.
LiveChildrenAreAccountedFor ==
  \A j \in Jobs, a \in AttemptNumbers : Alive(j, a) =>
    /\ jobs[j].status \in {"running", "uncertain"}
    /\ jobs[j].current_attempt_id = a

\* A job's verdict is that of the child of its own attempt: success means it exited
\* with 0; failure, that it exited otherwise or was never started.
VerdictsAreTheChilds ==
  \A j \in Jobs, a \in AttemptNumbers :
    /\ attempts[j][a].status = "succeeded" => proc[j][a].child = "ok"
    /\ attempts[j][a].status = "failed" => proc[j][a].child \in {"bad", "none"}

\* The attempt of a child that ended does not stay running: its verdict is stored, or it
\* is given up for an operator to look at, though the supervisor was killed before it saw
\* the end, the store raised on its report or on the read before it, or the fence refused
\* the verdict and the daemon died before its sweep (run_job, run_daemon).  It does not
\* say that the outcome is kept: a supervisor that was refused a heartbeat, or whose read
\* raised, leaves it nowhere.
EndedChildrenAreResolved ==
  \A j \in Jobs, a \in AttemptNumbers :
    proc[j][a].child \in {"ok", "bad", "killed"}
      ~> attempts[j][a].status \in Outcomes \cup {"uncertain"}

\* A fenced attempt does not work on unnoticed: while its supervisor lives, a child
\* whose attempt was given up is ended, or ends.
FencedChildrenEnd ==
  \A j \in Jobs, a \in AttemptNumbers :
    (Alive(j, a) /\ proc[j][a].sup = "watching" /\ attempts[j][a].status = "uncertain")
      ~> (~ Alive(j, a) \/ (proc[j][a].sup = "exited" /\ faults > 0))

\* A claim nobody works for any more is given up: it does not stay running, which
\* would keep its task, its branch and its runner's capacity occupied for good.
Orphaned(j) ==
  /\ Running(j)
  /\ proc[j][jobs[j].current_attempt_id].sup \in {"none", "exited"}
  /\ \A r \in Runners : daemon[r].handle[1] # j

OrphanedClaimsEnd == \A j \in Jobs : Orphaned(j) ~> ~ Running(j)

\* The promise of docs/architecture.md: claims prevent concurrent jobs for the same
\* task or repository branch.
NoConcurrentWork ==
  \A j, k \in Jobs, a, b \in AttemptNumbers :
    Alive(j, a) /\ Alive(k, b) /\ <<j, k>> \in Conflicts => j = k /\ a = b

=============================================================================
