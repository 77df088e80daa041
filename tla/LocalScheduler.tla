---------------------------- MODULE LocalScheduler ----------------------------
(***************************************************************************)
(* One task of app/task_scheduler.py run_queue when the scheduler starts    *)
(* its workers itself: as processes of its own, or over SSH on a Mac, where *)
(* scripts/mac_ssh_entrypoint.py runs them under a lock file of the task.   *)
(* The task comes from Intake, which the scheduler polls in each pass.      *)
(*                                                                          *)
(* A worker over SSH is three processes: the ssh client, a child of the     *)
(* scheduler, which waits for it; the entry point on the Mac, which holds   *)
(* the lock; and the workflow.  Each may die without the others.  When the  *)
(* scheduler is restarted it knows what the row says and what a probe of    *)
(* the lock says, and no more.                                              *)
(*                                                                          *)
(* The row is shared as in TaskScheduler, and the parts of the pass that    *)
(* do not depend on the transport, the merge of the pull request and the    *)
(* notes to people, are modelled there.  So are revisions, and a workflow   *)
(* that finds nothing to change: here the checks and the reviewer answer as *)
(* they like.                                                               *)
(***************************************************************************)
EXTENDS Integers, FiniteSets

CONSTANTS
  CIRetryAttempts,  \* CI_RETRY_ATTEMPTS, at most 3
  MaxDispatches,    \* bound: workers started
  MaxFaults         \* bound: crashes, failed calls, edits and submissions

ASSUME LocalAssumption ==
  CIRetryAttempts \in 0 .. 3 /\ MaxDispatches \in Nat /\ MaxFaults \in Nat

VARIABLES
  transport,   \* how workers are started: MAC_SSH_TARGET is set, or not
  issue,       \* the issue, and who is at work on it, as Intake has them
  poll,
  submit,
  row,         \* the task's row of the table tasks
  sched,       \* where the pass is, the row it read, the worker it started
  worker,      \* worker[w]: the processes of the w-th dispatch
  reviewer,    \* a final review is under way, and holds the lock
  checkpoint,  \* the checkpoint of the workflow
  faults

intake == <<issue, poll, submit>>
localVars ==
  <<transport, intake, row, sched, worker, reviewer, checkpoint, faults>>

-----------------------------------------------------------------------------
Workers == 1 .. MaxDispatches
NoWorker == 0

Bodies == {"incomplete", "free_form", "contract"}

Metadata ==
  [recovery_pending : BOOLEAN, post_ci_review : BOOLEAN,
   worker : Workers \cup {NoWorker},          \* worker_pid and lease_owner
   worker_mode : {"none", "local", "mac_ssh"},
   validated : BOOLEAN,
   review_status : {"none", "approved", "changes_required"}, review_repairs : Nat]

TaskRow ==
  [status : {"QUEUED", "RUNNING", "WAITING_CI", "READY", "BLOCKED"},
   ci_status : {"none", "queued", "green", "failed"}, ci_attempts : Nat,
   body : Bodies, metadata : Metadata]

\* TaskStore.create.
NewTask(body) ==
  [status |-> "QUEUED", ci_status |-> "none", ci_attempts |-> 0, body |-> body,
   metadata |-> [recovery_pending |-> FALSE, post_ci_review |-> FALSE,
                 worker |-> NoWorker, worker_mode |-> "none", validated |-> FALSE,
                 review_status |-> "none", review_repairs |-> 0]]

NoRow == NewTask("contract")

Absent == [status |-> "absent"]

Issues == INSTANCE Intake

SchedulerPhases ==
  {"intake", "active", "recover", "list", "dispatch", "spawn", "record", "recording",
   "wait", "exited", "block", "poll_ci", "ci", "review", "reviewing", "judging"}

\* "starting" and "working" under a lock are those of the entry point.
AppPhases ==
  {"none", "starting", "opening", "working", "tracking", "syncing", "writing", "published",
   "awaiting", "ok", "bad"}

NotStarted ==
  [client |-> "none", entry |-> "none", app |-> "none", resume |-> FALSE,
   ci_repair |-> FALSE, read |-> NoRow]

LocalTypeOK ==
  /\ transport \in {"local", "mac_ssh"}
  /\ Issues!IntakeTypeOK
  /\ row \in TaskRow \cup {Absent}
  /\ sched \in [pc : SchedulerPhases, snap : TaskRow \cup {Absent},
                w : Workers \cup {NoWorker}]
  /\ worker \in [Workers -> [client : {"none", "running", "gone", "ok", "bad"},
                             entry : {"none", "starting", "working", "done"},
                             app : AppPhases, resume : BOOLEAN, ci_repair : BOOLEAN,
                             read : TaskRow]]
  /\ reviewer \in BOOLEAN
  /\ checkpoint \in {"none", "open", "blocked", "completed"}
  /\ faults \in 0 .. MaxFaults

LocalInit ==
  /\ transport \in {"local", "mac_ssh"}
  /\ Issues!IntakeInit
  /\ sched = [pc |-> "intake", snap |-> Absent, w |-> NoWorker]
  /\ worker = [w \in Workers |-> NotStarted]
  /\ reviewer = FALSE
  /\ checkpoint = "none"
  /\ faults = 0

-----------------------------------------------------------------------------
(* The row: TaskStore.transition, as in TaskScheduler. *)

TRANSITIONS ==
  [QUEUED     |-> {"RUNNING", "BLOCKED"},
   RUNNING    |-> {"WAITING_CI", "READY", "BLOCKED"},
   WAITING_CI |-> {"RUNNING", "READY", "BLOCKED"},
   READY      |-> {"BLOCKED"},
   BLOCKED    |-> {"QUEUED", "RUNNING", "WAITING_CI", "READY"}]

Accepts(new) ==
  /\ new.status \in TRANSITIONS[row.status] \cup {row.status}
  /\ new.status = "READY" =>
       /\ new.ci_status = "green"
       /\ new.metadata.validated
       /\ new.metadata.review_status = "approved"

Becomes(status, metadata) == [row EXCEPT !.status = status, !.metadata = metadata]

Fault == faults < MaxFaults /\ faults' = faults + 1

-----------------------------------------------------------------------------
(* The processes. *)

Remote == transport = "mac_ssh"

Exists(w) == worker[w].client # "none"

Dispatched == Cardinality({w \in Workers : Exists(w)})

\* The workflow of w runs and may change the workspace and the row.
Works(w) == worker[w].app \notin {"none", "ok", "bad"}

\* flock on the task's lock file: its owner is an entry point, not the workflow it
\* started, which does not inherit the descriptor.
Locked == reviewer \/ \E w \in Workers : worker[w].entry = "working"

\* Mutant: a task in which no worker is recorded yet is taken to have one.
OwnWorkerLivesUnrecorded(metadata) ==
  metadata.worker \in Workers => worker[metadata.worker].client = "running"

\* _pid_alive, and the lease is this scheduler's: a client it started and did not lose.
OwnWorkerLives(metadata) ==
  metadata.worker # NoWorker /\ worker[metadata.worker].client = "running"

\* mac_ssh_entrypoint.py probe, asked only about a task that runs on the Mac.
ProbedActive(metadata) == metadata.worker_mode = "mac_ssh" /\ Locked

-----------------------------------------------------------------------------
(* The scheduler's pass. *)

processes == <<worker, reviewer, checkpoint>>

At(pc) == sched.pc = pc

Goes(pc) == sched' = [pc |-> pc, snap |-> Absent, w |-> NoWorker]

Reads(pc) == sched' = [sched EXCEPT !.pc = pc, !.snap = row]

\* The process ends and is started again.  Its children may go on without it; those
\* that do belong to nobody: the new process has another lease_owner, or, in a new
\* container, none of the old processes.  A review in the process itself ends with it.
Restarts ==
  /\ Goes("intake")
  /\ poll' = Issues!Resting("due")
  /\ \E killed \in BOOLEAN :
       worker' = [w \in Workers |->
         IF worker[w].client # "running" THEN worker[w]
         ELSE [worker[w] EXCEPT !.client = "gone",
                                !.app = IF killed /\ ~Remote THEN "bad" ELSE @]]
  /\ reviewer' = (reviewer /\ Remote)
  /\ UNCHANGED <<transport, issue, submit, checkpoint>>

Continues(pc) == Goes(pc) /\ UNCHANGED <<transport, intake, processes>>

WritesOrRestarts(new, pc) ==
  IF Accepts(new) THEN row' = new /\ Continues(pc) ELSE UNCHANGED row /\ Restarts

\* A transition that names the status that was read.
WritesIfStill(new, pc) ==
  IF row.status = sched.snap.status
  THEN WritesOrRestarts(new, pc)
  ELSE UNCHANGED row /\ Restarts

PollsIssues ==
  /\ At("intake")
  /\ Issues!PollStep
  /\ UNCHANGED <<transport, sched, processes>>

InsertCollides ==
  /\ At("intake")
  /\ Issues!Collides
  /\ Restarts
  /\ UNCHANGED <<row, faults>>

\* The tasks in an active status.
ListsActive ==
  /\ At("intake")
  /\ poll.pc = "done"
  /\ poll' = Issues!Resting("due")
  /\ IF row.status = "RUNNING"
     THEN Reads("active")
     ELSE Goes(IF row = Absent THEN "intake" ELSE "list")
  /\ UNCHANGED <<transport, issue, submit, row, processes, faults>>

ActiveIsHeld ==
  /\ At("active")
  /\ OwnWorkerLives(sched.snap.metadata) \/ ProbedActive(sched.snap.metadata)
  /\ Continues("list")
  /\ UNCHANGED <<row, faults>>

\* A probe that fails holds the claim too.
ProbeFails ==
  /\ sched.pc \in {"active", "exited"}
  /\ sched.snap.metadata.worker_mode = "mac_ssh"
  /\ Continues(IF At("active") THEN "list" ELSE "poll_ci")
  /\ Fault
  /\ UNCHANGED row

ActiveIsGone ==
  /\ At("active")
  /\ ~OwnWorkerLives(sched.snap.metadata) /\ ~ProbedActive(sched.snap.metadata)
  /\ sched' = [sched EXCEPT !.pc = "recover"]
  /\ UNCHANGED <<transport, intake, row, processes, faults>>

\* Mutant: the flag is written without the rest of the metadata.
RecoversForgetting ==
  /\ At("recover")
  /\ WritesIfStill(Becomes("BLOCKED", [recovery_pending |-> TRUE]), "list")
  /\ UNCHANGED faults

\* "Worker stopped unexpectedly; recovering its saved checkpoint."
Recovers ==
  /\ At("recover")
  /\ WritesIfStill(Becomes("BLOCKED", [sched.snap.metadata EXCEPT !.recovery_pending = TRUE]),
                   "list")
  /\ UNCHANGED faults

\* What a repair is asked for.
ToRepair(r) == r.ci_status = "failed" \/ r.metadata.review_status = "changes_required"

\* implementation_attempts, which the second case also asks for, may leave no room.
Candidate(r) ==
  \/ r.status = "QUEUED"
  \/ /\ r.status = "BLOCKED"
     /\ \/ r.ci_status = "failed" /\ r.ci_attempts <= CIRetryAttempts
        \/ /\ r.metadata.review_status = "changes_required"
           /\ r.metadata.review_repairs <= CIRetryAttempts
        \/ r.metadata.recovery_pending

ListsCandidates ==
  /\ At("list")
  /\ IF Candidate(row) /\ Dispatched < MaxDispatches THEN Reads("dispatch") ELSE Goes("poll_ci")
  /\ UNCHANGED <<transport, intake, row, processes, faults>>

\* _dispatch_pause_reason, or no attempt left for the repair of a review.
DispatchPaused ==
  /\ At("dispatch")
  /\ Continues("poll_ci")
  /\ UNCHANGED <<row, faults>>

\* The claim; a task whose status has changed is left to the next pass.
Claims ==
  /\ At("dispatch")
  /\ IF row.status = sched.snap.status
     THEN /\ row' = Becomes("RUNNING", [sched.snap.metadata EXCEPT !.recovery_pending = FALSE,
                                                                   !.post_ci_review = FALSE])
          /\ sched' = [sched EXCEPT !.pc = "spawn"]
     ELSE UNCHANGED row /\ Goes("poll_ci")
  /\ UNCHANGED <<transport, intake, processes, faults>>

\* The command is made from the row that was listed.
Spawns ==
  /\ At("spawn")
  /\ LET w == Dispatched + 1
         resume == sched.snap.status = "BLOCKED"
     IN  /\ worker' = [worker EXCEPT ![w] =
                         [client |-> "running",
                          entry |-> IF Remote THEN "starting" ELSE "none",
                          app |-> IF Remote THEN "none" ELSE "starting",
                          resume |-> resume, ci_repair |-> resume /\ ToRepair(sched.snap),
                          read |-> NoRow]]
         /\ sched' = [pc |-> "record", snap |-> Absent, w |-> w]
  /\ UNCHANGED <<transport, intake, row, reviewer, checkpoint, faults>>

\* Popen raises.
SpawnFails ==
  /\ At("spawn")
  /\ IF row.status = "RUNNING"
     THEN row' = [row EXCEPT !.status = "BLOCKED"] /\ Continues("poll_ci")
     ELSE UNCHANGED row /\ Restarts
  /\ Fault

\* The row is read again ...
RecordReads ==
  /\ At("record")
  /\ Reads("recording")
  /\ UNCHANGED <<transport, intake, row, processes, faults>>

\* ... and the process written into it, over what the worker has written since if it
\* left the status.
Records ==
  /\ At("recording")
  /\ IF row.status = sched.snap.status
     THEN /\ row' = Becomes(row.status, [sched.snap.metadata EXCEPT !.worker = sched.w,
                                                                    !.worker_mode = transport])
          /\ sched' = [sched EXCEPT !.pc = "wait", !.snap = Absent]
          /\ UNCHANGED <<transport, intake, processes>>
     ELSE UNCHANGED row /\ Restarts
  /\ UNCHANGED faults

\* _wait_for_worker: heartbeat_worker merges the process into the row.
Heartbeats ==
  /\ At("wait")
  /\ worker[sched.w].client = "running"
  /\ row' = [row EXCEPT !.metadata.worker = sched.w]
  /\ UNCHANGED <<transport, intake, sched, processes, faults>>

WaitEnds ==
  /\ At("wait")
  /\ \/ worker[sched.w].client = "ok" /\ Goes("poll_ci")
     \/ worker[sched.w].client = "bad" /\ Reads("exited")
  /\ UNCHANGED <<transport, intake, row, processes, faults>>

\* The session was lost, not the worker; or the worker recorded what it left.
ExitedIsLeft ==
  /\ At("exited")
  /\ \/ ProbedActive(sched.snap.metadata)
     \/ sched.snap.status \in {"BLOCKED", "READY", "WAITING_CI"}
  /\ Continues("poll_ci")
  /\ UNCHANGED <<row, faults>>

ExitedIsGone ==
  /\ At("exited")
  /\ ~ProbedActive(sched.snap.metadata)
  /\ sched.snap.status \notin {"BLOCKED", "READY", "WAITING_CI"}
  /\ sched' = [sched EXCEPT !.pc = "block"]
  /\ UNCHANGED <<transport, intake, row, processes, faults>>

ExitedIsBlocked ==
  /\ At("block")
  /\ WritesIfStill(Becomes("BLOCKED", [sched.snap.metadata EXCEPT !.recovery_pending = FALSE]),
                   "poll_ci")
  /\ UNCHANGED faults

\* Bound: CI failures and reviews are counted no further than a repair is asked for.
WithinBounds(r) ==
  r.ci_attempts <= CIRetryAttempts /\ r.metadata.review_repairs <= CIRetryAttempts

PollsCI ==
  /\ At("poll_ci")
  /\ CASE row.status = "WAITING_CI" /\ WithinBounds(row) -> Reads("ci")
       [] row.status = "RUNNING" /\ row.metadata.post_ci_review /\ WithinBounds(row) ->
            Reads("review")
       [] OTHER -> Goes("intake")
  /\ UNCHANGED <<transport, intake, row, processes, faults>>

CIPasses ==
  /\ At("ci")
  /\ LET new == [Becomes("RUNNING", [sched.snap.metadata EXCEPT !.post_ci_review = TRUE])
                  EXCEPT !.ci_status = "green"]
     IN  IF Accepts(new)
         THEN /\ row' = new
              /\ sched' = [pc |-> "review", snap |-> new, w |-> NoWorker]
              /\ UNCHANGED <<transport, intake, processes>>
         ELSE UNCHANGED row /\ Restarts
  /\ UNCHANGED faults

CIFails ==
  /\ At("ci")
  /\ WritesOrRestarts([Becomes("BLOCKED", sched.snap.metadata)
                         EXCEPT !.ci_status = "failed",
                                !.ci_attempts = sched.snap.ci_attempts + 1], "intake")
  /\ UNCHANGED faults

CIUnknown ==
  /\ At("ci")
  /\ Continues("intake")
  /\ UNCHANGED <<row, faults>>

\* _run_final_review: on the Mac under the lock, which it does not wait for; in the
\* scheduler's own process with no lock.
ReviewStarts ==
  /\ At("review")
  /\ ~(Remote /\ Locked)
  /\ reviewer' = TRUE
  /\ sched' = [sched EXCEPT !.pc = "reviewing"]
  /\ UNCHANGED <<transport, intake, row, worker, checkpoint, faults>>

\* Whatever is raised blocks the task; a review is not tried again.
ReviewIsRefused ==
  /\ At("review")
  /\ Remote /\ Locked
  /\ WritesOrRestarts(Becomes("BLOCKED", sched.snap.metadata), "intake")
  /\ UNCHANGED faults

ReviewReturns ==
  /\ At("reviewing")
  /\ reviewer' = FALSE
  /\ sched' = [sched EXCEPT !.pc = "judging"]
  /\ UNCHANGED <<transport, intake, row, worker, checkpoint, faults>>

\* MAC_REVIEW_TIMEOUT_SECONDS pass or the session breaks: the task is blocked, while the
\* review goes on.
ReviewSessionIsLost ==
  /\ At("reviewing")
  /\ Remote
  /\ WritesOrRestarts(Becomes("BLOCKED", sched.snap.metadata), "intake")
  /\ Fault

\* It failed; it approved, and the gates that are not in the row (the reviewer's
\* independence, a clean worktree) hold or do not; or it requires changes.
Verdicts(snap) ==
  LET approved == [snap.metadata EXCEPT !.review_status = "approved"]
      refused  == [snap.metadata EXCEPT !.review_status = "changes_required",
                                        !.review_repairs = @ + 1]
  IN  {Becomes("BLOCKED", snap.metadata), Becomes("BLOCKED", approved),
       Becomes("BLOCKED", refused)} \cup
      (IF snap.ci_status = "green" /\ snap.metadata.validated
       THEN {[Becomes("READY", approved) EXCEPT !.ci_status = "green"]} ELSE {})

ReviewIsJudged ==
  /\ At("judging")
  /\ \E new \in Verdicts(sched.snap) : WritesOrRestarts(new, "intake")
  /\ UNCHANGED faults

SchedulerCrashes == Restarts /\ Fault /\ UNCHANGED row

-----------------------------------------------------------------------------
(* The worker w: mac_ssh_entrypoint.py run, and run_cli with the workflow in it. *)

outside == <<transport, intake, sched, reviewer>>

\* The entry point, and with it the client that waits for it, ends with this code.
EntryEnds(w, code) ==
  worker' = [worker EXCEPT ![w].entry = "done",
                           ![w].client = IF @ = "running" THEN code ELSE @]

\* Mutant: it does not ask for the lock.
EntryStartsUnlocked(w) ==
  /\ worker[w].entry = "starting"
  /\ worker' = [worker EXCEPT ![w].entry = "working", ![w].app = "starting"]
  /\ UNCHANGED <<outside, row, checkpoint, faults>>

\* A probe is made: it takes the lock, if it is free, for a moment.
Probing ==
  /\ sched.pc \in {"active", "exited"}
  /\ sched.snap.metadata.worker_mode = "mac_ssh"
  /\ At("active") => ~OwnWorkerLives(sched.snap.metadata)

\* A second worker of the task exits with 73; so does one that comes upon a probe.
EntryStarts(w) ==
  /\ worker[w].entry = "starting"
  /\ \/ (Locked \/ Probing) /\ EntryEnds(w, "bad")
     \/ ~Locked /\ worker' = [worker EXCEPT ![w].entry = "working", ![w].app = "starting"]
  /\ UNCHANGED <<outside, row, checkpoint, faults>>

\* The health report is not "ready": it exits with 78.
EntryIsUnhealthy(w) ==
  /\ worker[w].entry = "starting"
  /\ EntryEnds(w, "bad")
  /\ Fault
  /\ UNCHANGED <<outside, row, checkpoint>>

AppGoes(w, pc) == worker' = [worker EXCEPT ![w].app = pc, ![w].read = NoRow]

AppReads(w, pc) == worker' = [worker EXCEPT ![w].app = pc, ![w].read = row]

\* The workflow's process ends; the entry point and the client end with its code.
AppExits(w, code) ==
  worker' = [worker EXCEPT ![w].app = code, ![w].read = NoRow,
                           ![w].entry = IF @ = "working" THEN "done" ELSE @,
                           ![w].client = IF @ = "running" THEN code ELSE @]

\* _track_task_state writes the row; a refusal it did not foresee is not caught.
AppMarks(w, metadata) ==
  LET new == Becomes("RUNNING", metadata)
  IN  IF Accepts(new)
      THEN row' = new /\ AppGoes(w, "working")
      ELSE /\ UNCHANGED row
           /\ IF worker[w].read.status = "RUNNING" THEN AppExits(w, "bad")
                                                  ELSE AppGoes(w, "working")

\* run_cli: from the beginning if it is not told to resume, or finds no checkpoint; the
\* task is read first, to be marked as running, ...
AppBegins(w) ==
  /\ worker[w].app = "starting"
  /\ ~worker[w].resume \/ checkpoint = "none"
  /\ AppReads(w, "opening")
  /\ checkpoint' = "open"
  /\ UNCHANGED <<outside, row, faults>>

\* ... which leaves the metadata alone, unless it has a blocked_stage to take out.
AppOpens(w) ==
  /\ worker[w].app = "opening"
  /\ \E metadata \in {row.metadata, worker[w].read.metadata} : AppMarks(w, metadata)
  /\ UNCHANGED <<outside, checkpoint, faults>>

\* Mutant: there is nothing to resume in a completed workflow.
AppResumesUnfinished(w) ==
  /\ worker[w].app = "starting"
  /\ worker[w].resume /\ ~worker[w].ci_repair
  /\ \/ checkpoint = "completed" /\ AppExits(w, "ok") /\ UNCHANGED checkpoint
     \/ checkpoint \in {"open", "blocked"} /\ AppGoes(w, "working") /\ checkpoint' = "open"
  /\ UNCHANGED <<outside, row, faults>>

\* A completed workflow is recorded once more; another goes on.
AppResumes(w) ==
  /\ worker[w].app = "starting"
  /\ worker[w].resume /\ ~worker[w].ci_repair
  /\ \/ checkpoint = "completed" /\ AppGoes(w, "syncing") /\ UNCHANGED checkpoint
     \/ checkpoint \in {"open", "blocked"} /\ AppGoes(w, "working") /\ checkpoint' = "open"
  /\ UNCHANGED <<outside, row, faults>>

\* A repair dies of the checkpoint it finds (Workflow, RepairAsked); a coder left
\* changes in the workspace, or its attempts are used up.
AppRefuses(w) ==
  /\ worker[w].app = "starting"
  /\ worker[w].resume /\ checkpoint # "none"
  /\ worker[w].ci_repair \/ checkpoint # "completed"
  /\ AppExits(w, "bad")
  /\ UNCHANGED <<outside, row, checkpoint, faults>>

\* Of a stage of the workflow the row is read ...
AppReadsTask(w) ==
  /\ worker[w].app = "working"
  /\ AppReads(w, "tracking")
  /\ UNCHANGED <<outside, row, checkpoint, faults>>

\* ... and written back, with the metadata that was read.
AppTracks(w) ==
  /\ worker[w].app = "tracking"
  /\ AppMarks(w, worker[w].read.metadata)
  /\ UNCHANGED <<outside, checkpoint, faults>>

\* The workflow ends with a pull request, or blocked, which _track_task_state records
\* with the metadata left as it is.
AppEnds(w, outcome) ==
  /\ worker[w].app = "working"
  /\ checkpoint' = outcome
  /\ row' = IF outcome = "blocked" THEN [row EXCEPT !.status = "BLOCKED"] ELSE row
  /\ AppGoes(w, "syncing")
  /\ UNCHANGED <<outside, faults>>

\* _sync_task_result reads the row, ...
AppSyncs(w) ==
  /\ worker[w].app = "syncing"
  /\ AppReads(w, "writing")
  /\ UNCHANGED <<outside, row, checkpoint, faults>>

\* ... writes what the workflow recorded, ...
AppWrites(w) ==
  /\ worker[w].app = "writing"
  /\ LET read == worker[w].read
         new == IF checkpoint = "completed"
                THEN Becomes("RUNNING", [read.metadata EXCEPT !.validated = TRUE,
                                                              !.review_status = "approved"])
                ELSE Becomes("BLOCKED", read.metadata)
     IN  IF checkpoint = "completed"
         THEN /\ row' = IF Accepts(new) THEN new ELSE row
              /\ IF ~Accepts(new) /\ read.status = "RUNNING"
                 THEN AppExits(w, "bad")
                 ELSE AppGoes(w, "published")
         ELSE row' = new /\ AppExits(w, "ok")
  /\ UNCHANGED <<outside, checkpoint, faults>>

\* ... reads it again ...
AppChecksStatus(w) ==
  /\ worker[w].app = "published"
  /\ IF row.status = "RUNNING" THEN AppGoes(w, "awaiting") ELSE AppExits(w, "ok")
  /\ UNCHANGED <<outside, row, checkpoint, faults>>

\* ... and lets the task wait for CI.
AppAwaitsCI(w) ==
  /\ worker[w].app = "awaiting"
  /\ LET new == [row EXCEPT !.status = "WAITING_CI", !.ci_status = "queued"]
     IN  IF Accepts(new) THEN row' = new /\ AppExits(w, "ok")
                         ELSE UNCHANGED row /\ AppExits(w, "bad")
  /\ UNCHANGED <<outside, checkpoint, faults>>

\* The ssh session breaks; what runs on the Mac goes on.
SessionIsLost(w) ==
  /\ Remote
  /\ worker[w].client = "running"
  /\ worker' = [worker EXCEPT ![w].client = "bad"]
  /\ Fault
  /\ UNCHANGED <<outside, row, checkpoint>>

\* The entry point dies alone: the lock is free, and the workflow goes on.
EntryDies(w) ==
  /\ worker[w].entry = "working"
  /\ EntryEnds(w, "bad")
  /\ Fault
  /\ UNCHANGED <<outside, row, checkpoint>>

AppDies(w) ==
  /\ Works(w)
  /\ AppExits(w, "bad")
  /\ Fault
  /\ UNCHANGED <<outside, row, checkpoint>>

\* A review whose scheduler died, or lost the session, goes on, and holds the lock until it is done.
ReviewEndsAlone ==
  /\ reviewer /\ ~At("reviewing")
  /\ reviewer' = FALSE
  /\ UNCHANGED <<transport, intake, row, sched, worker, checkpoint, faults>>

-----------------------------------------------------------------------------
PeopleAct ==
  /\ Issues!PeopleStep
  /\ UNCHANGED <<transport, sched, processes>>

PassStep ==
  \/ PollsIssues \/ InsertCollides
  \/ ListsActive \/ ActiveIsHeld \/ ProbeFails \/ ActiveIsGone \/ Recovers
  \/ ListsCandidates \/ DispatchPaused \/ Claims \/ Spawns \/ SpawnFails
  \/ RecordReads \/ Records \/ Heartbeats \/ WaitEnds
  \/ ExitedIsLeft \/ ExitedIsGone \/ ExitedIsBlocked
  \/ PollsCI \/ CIPasses \/ CIFails \/ CIUnknown
  \/ ReviewStarts \/ ReviewIsRefused \/ ReviewReturns \/ ReviewIsJudged
  \/ ReviewSessionIsLost

AppStep(w) ==
  \/ AppBegins(w) \/ AppResumes(w) \/ AppRefuses(w)
  \/ AppOpens(w) \/ AppReadsTask(w) \/ AppTracks(w)
  \/ \E outcome \in {"blocked", "completed"} : AppEnds(w, outcome)
  \/ AppSyncs(w) \/ AppWrites(w) \/ AppChecksStatus(w) \/ AppAwaitsCI(w)

WorkerFault(w) == EntryIsUnhealthy(w) \/ SessionIsLost(w) \/ EntryDies(w) \/ AppDies(w)

LocalNext ==
  \/ PassStep \/ SchedulerCrashes
  \/ \E w \in Workers : EntryStarts(w) \/ AppStep(w) \/ WorkerFault(w)
  \/ ReviewEndsAlone
  \/ PeopleAct

LocalSpec == LocalInit /\ [][LocalNext]_localVars

\* A scheduler that runs goes on, and is started again; so do the workers and a review
\* it has left.  The poll interval ends, dispatch is not paused for ever, and a workflow
\* ends (Workflow, RunsEnd).  No worker runs twice: if some worker goes on, or ends, all
\* do in the end.
LiveLocalSpec ==
  /\ LocalSpec
  /\ WF_localVars(PassStep)
  /\ SF_localVars(At("intake") /\ Issues!Lists /\ UNCHANGED <<transport, sched, processes>>)
  /\ SF_localVars(Claims)
  /\ WF_localVars(ReviewEndsAlone \/ \E w \in Workers : EntryStarts(w) \/ AppStep(w))
  /\ SF_localVars(\E w \in Workers, outcome \in {"blocked", "completed"} : AppEnds(w, outcome))

-----------------------------------------------------------------------------
(* Properties *)

\* The workspace of a task on the Mac is worked in by one process at a time, a workflow
\* or a review, though the scheduler forgets its workers when it restarts, and a worker
\* may write the row back without worker_mode so that no probe is made.  The one way
\* round the lock is that an entry point dies and leaves its workflow (_run, _review).
WorkspaceIsExclusive ==
  Remote => \A w \in Workers : Works(w) /\ worker[w].entry = "working" =>
    ~reviewer /\ \A v \in Workers \ {w} : Works(v) => worker[v].entry = "done"

\* A task is created from a description that has the form of a contract, whoever submits
\* it and whatever is written into the issue meanwhile (docs/issue-contract.md).
TasksAreContracts == row # Absent => row.body = "contract"

\* The label that authorizes the work leaves the issue only when its task is durable, so
\* that no crash and no failing call loses the request.  (What the author does to the
\* label is counted in faults.)
RequestsAreNotLost ==
  [][issue.label /\ ~issue'.label /\ faults' = faults => row # Absent]_localVars

\* An issue that is labelled and can be made a contract is taken, or ceases to be one: a
\* scheduler that died after the insert, or could not remove the label, comes back to it.
ReadyIssuesAreTaken ==
  issue.label /\ issue.body # "incomplete" ~> ~issue.label \/ issue.body = "incomplete"

\* A task that runs, when nothing works on it, does not stay so: the restarted scheduler
\* finds it and recovers it, wherever between claim and exit the old one, or the worker,
\* was lost.  The row leaves RUNNING, no more: a worker that dies while the scheduler
\* waits for it is blocked with recovery_pending False, and nobody resumes it.
NobodyWorks ==
  ~reviewer /\ \A w \in Workers : ~Works(w) /\ worker[w].entry \notin {"starting", "working"}

Deserted == row # Absent /\ row.status = "RUNNING" /\ NobodyWorks

StoppedWorkersAreReconciled == Deserted ~> ~Deserted

\* The result of a workflow that completed, and died before it could say so, reaches the
\* row if it is a restarted scheduler that misses the worker: it resumes the checkpoint
\* (run_cli, _sync_task_result).  Not so if the scheduler was there and waited
\* (StoppedWorkersAreReconciled), though docs/architecture.md:52-53 has every stopped
\* worker "reconciled against its checkpoint on the next queue pass".
RecoveryIsDue ==
  /\ NobodyWorks
  /\ row # Absent /\ ~ToRepair(row)
  /\ \/ row.status = "BLOCKED" /\ row.metadata.recovery_pending
     \/ row.status = "RUNNING" /\ ~row.metadata.post_ci_review /\ At("intake")

LostResultsReachTheRow ==
  /\ RecoveryIsDue /\ checkpoint = "completed"
  /\ Dispatched < MaxDispatches /\ faults = MaxFaults
  ~> (row # Absent /\ row.status = "WAITING_CI") \/ checkpoint # "completed"

=============================================================================
