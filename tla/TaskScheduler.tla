----------------------------- MODULE TaskScheduler -----------------------------
(***************************************************************************)
(* One task of app/task_scheduler.py run_queue under the pull transport:    *)
(* the row of the task, the scheduler's pass over it, the processes that    *)
(* work on it, and the pull request.  The job queue is JobClaims, which     *)
(* JobStore is shown to implement: the scheduler may rely on no more.       *)
(*                                                                          *)
(* The scheduler and the workers share the row without a lock.  Each reads  *)
(* it, decides, perhaps calls GitHub, and writes the whole metadata object  *)
(* back; some writes name the status they expect, some do not.  So every    *)
(* such read and the write that follows are steps of their own, and the     *)
(* row that was read is kept between them.                                  *)
(*                                                                          *)
(* An exception nothing catches ends the scheduler process; the cluster     *)
(* starts it again, at the beginning of a pass and with nothing in memory.  *)
(* Left out: pauses for Codex outages except as an input, activity and      *)
(* Slack notes, priorities and the limit on workers (there is one task),    *)
(* and retries of a failed review, for attempts < min(1, limit) is never    *)
(* true once an attempt was counted.                                        *)
(***************************************************************************)
EXTENDS Integers

CONSTANTS
  CIRetryAttempts,  \* CI_RETRY_ATTEMPTS, at most 3
  MaxRepairs,       \* MAX_REPAIRS, the limit in the repair budget of the task
  KeepsCheckpoints, \* a worker always finds the checkpoint of the workflow
  OthersPush,       \* people push to the branch too
  MaxSequence,      \* bound: dispatch and review sequence numbers
  MaxHeads,         \* bound: revisions pushed to the branch
  MaxAttempts,      \* bound: claims of one job
  MaxCount,         \* bound: attempts a workflow counts
  MaxFaults         \* bound: expired leases, failed calls and crashes

ASSUME LimitAssumption ==
  /\ CIRetryAttempts \in 0 .. 3 /\ MaxRepairs \in Nat
  /\ KeepsCheckpoints \in BOOLEAN /\ OthersPush \in BOOLEAN

ASSUME SchedulerBoundAssumption ==
  /\ MaxSequence \in Nat
  /\ MaxHeads \in Nat \ {0}
  /\ MaxAttempts \in Nat \ {0}
  /\ MaxCount \in Nat
  /\ MaxFaults \in Nat

VARIABLES
  row,      \* the task's row of the table tasks
  sched,    \* where the scheduler's pass is, the row it read, the job it reserved
  open,     \* the job queue, as JobClaims has it ...
  verdict,
  child,    \* child[j]: the process that works on job j, and what it read of the row
  review,   \* review[j]: the result a REVIEW job returned
  github,   \* the pull request, its newest revision, and the checks of each revision
  faults

queue == <<open, verdict>>
schedulerVars == <<row, sched, queue, child, review, github, faults>>

-----------------------------------------------------------------------------
Sequences == 0 .. MaxSequence
Heads == 1 .. MaxHeads
NoHead == 0

\* A job id is a hash of these: the kind, the sequence number, and for a review
\* the revision.
WorkJobs == {"IMPLEMENT", "REPAIR"} \X Sequences \X {NoHead}
ReviewJobs == {"REVIEW"} \X Sequences \X Heads
JobIds == WorkJobs \cup ReviewJobs
NoJob == <<"none", 0, NoHead>>

\* All jobs here are of one task.
Store == INSTANCE JobClaims WITH Jobs <- JobIds, Conflicts <- JobIds \X JobIds

Statuses == {"QUEUED", "RUNNING", "WAITING_CI", "READY", "DONE", "BLOCKED"}

TRANSITIONS ==
  [QUEUED     |-> {"RUNNING", "BLOCKED"},
   RUNNING    |-> {"WAITING_CI", "READY", "DONE", "BLOCKED"},
   WAITING_CI |-> {"RUNNING", "READY", "BLOCKED"},
   READY      |-> {"DONE", "BLOCKED"},
   DONE       |-> {},
   BLOCKED    |-> {"QUEUED", "RUNNING", "WAITING_CI", "READY", "DONE"}]

Metadata ==
  [runner_job : WorkJobs \cup {NoJob}, sequence : 0 .. MaxSequence + 1,
   post_ci_review : BOOLEAN,
   review_job : ReviewJobs \cup {NoJob}, review_sequence : 0 .. MaxSequence + 1,
   review_status : {"none", "approved", "changes_required"},
   review_head : Heads \cup {NoHead}, review_repairs : Nat,
   repairs_used : 0 .. MaxRepairs, validated : BOOLEAN,
   completion : {"none", "no_changes", "scheduler_poll", "manual_reconciliation"}]

TaskRow ==
  [status : Statuses, ci_status : {"none", "queued", "green", "failed", "not_required"},
   ci_attempts : Nat, implementation_attempts : 0 .. MaxCount, metadata : Metadata]

FreshMetadata ==
  [runner_job |-> NoJob, sequence |-> 0, post_ci_review |-> FALSE,
   review_job |-> NoJob, review_sequence |-> 0, review_status |-> "none",
   review_head |-> NoHead, review_repairs |-> 0, repairs_used |-> 0,
   validated |-> FALSE, completion |-> "none"]

FreshRow ==
  [status |-> "QUEUED", ci_status |-> "none", ci_attempts |-> 0,
   implementation_attempts |-> 0, metadata |-> FreshMetadata]

NoChild == [pc |-> "none", metadata |-> FreshMetadata, attempts |-> 0]

SchedulerPhases ==
  {"reconcile", "settle", "list", "dispatch", "enqueue", "dispatch_failed",
   "block_dispatch", "poll_ci", "ci", "review", "enqueue_review", "poll_merged", "merged",
   "notify", "notified"}

ChildPhases ==
  {"none", "starting", "opening", "working", "tracking", "repairing", "stopping",
   "halting", "halted", "blocking", "completing", "publishing", "published", "awaiting",
   "concluding", "ok", "bad"}

GitHubStates == [pr : {"none", "open", "merged", "closed"}, head : Heads \cup {NoHead},
                 checks : [Heads -> {"pending", "success", "failure"}]]

TaskTypeOK ==
  /\ row \in TaskRow
  /\ sched \in [pc : SchedulerPhases, snap : TaskRow, job : JobIds \cup {NoJob}]
  /\ open \subseteq JobIds
  /\ verdict \in [JobIds -> [1 .. MaxAttempts ->
       {"unissued", "live", "succeeded", "failed", "revoked"}]]
  /\ child \in [JobIds -> [pc : ChildPhases, metadata : Metadata, attempts : 0 .. MaxCount]]
  /\ review \in [ReviewJobs -> {"none", "approved", "changes_required"}]
  /\ github \in GitHubStates
  /\ faults \in 0 .. MaxFaults

TaskInit ==
  /\ row = FreshRow
  /\ sched = [pc |-> "reconcile", snap |-> FreshRow, job |-> NoJob]
  /\ Store!ClaimsInit
  /\ child = [j \in JobIds |-> NoChild]
  /\ review = [j \in ReviewJobs |-> "none"]
  /\ github = [pr |-> "none", head |-> NoHead, checks |-> [h \in Heads |-> "pending"]]
  /\ faults = 0

-----------------------------------------------------------------------------
(* The row: TaskStore.transition. *)

ReadyGate(r) ==
  /\ r.ci_status = "green"
  /\ github.pr # "none"
  /\ r.metadata.validated
  /\ r.metadata.review_status = "approved"

DoneGate(r) ==
  /\ r.metadata.completion # "none"
  /\ r.metadata.completion # "no_changes" => r.ci_status = "green"

\* transition raises ValueError on any other row than these.
Accepts(new) ==
  /\ new.status \in TRANSITIONS[row.status] \cup {row.status}
  /\ new.status = "READY" => ReadyGate(new)
  /\ new.status = "DONE" => DoneGate(new)

\* A transition that is refused, and its exception caught, changes nothing.
WritesIfAllowed(new) == row' = IF Accepts(new) THEN new ELSE row

\* Status and metadata are written, the other columns keep what they have.
Becomes(status, metadata) == [row EXCEPT !.status = status, !.metadata = metadata]

\* get_job: the status of the row of job j, or "absent".
JobStatus(j) ==
  CASE j \in open -> "pending"
    [] j \notin open /\ Store!Unissued(j) -> "absent"
    [] OTHER -> LET t == CHOOSE t \in Store!Tokens : Store!Newest(j, t)
                IN  CASE verdict[j][t] = "live" -> "running"
                      [] verdict[j][t] = "revoked" -> "uncertain"
                      [] OTHER -> verdict[j][t]

Fault == faults < MaxFaults /\ faults' = faults + 1

-----------------------------------------------------------------------------
(* The scheduler's pass. *)

workers == <<child, review, github>>

At(pc) == sched.pc = pc

Goes(pc) == sched' = [pc |-> pc, snap |-> FreshRow, job |-> NoJob]

Reads(pc) == sched' = [pc |-> pc, snap |-> row, job |-> NoJob]

Raises == Goes("reconcile") /\ UNCHANGED row

\* A write whose exception nothing catches.
WritesOrRaises(new, pc) ==
  IF Accepts(new) THEN row' = new /\ Goes(pc) ELSE Raises

\* _reconcile_pull_runner_jobs, store.list().
ReconcileReads ==
  /\ At("reconcile")
  /\ IF row.metadata.runner_job # NoJob THEN Reads("settle") ELSE Goes("list")
  /\ UNCHANGED <<row, queue, workers, faults>>

\* The reservation is given back and the next dispatch gets the next number.
Released(metadata) ==
  [metadata EXCEPT !.runner_job = NoJob, !.sequence = metadata.runner_job[2] + 1]

ReconcileWaits ==
  /\ At("settle")
  /\ JobStatus(sched.snap.metadata.runner_job) \in {"pending", "running"}
  /\ Goes("list")
  /\ UNCHANGED <<row, queue, workers, faults>>

\* Mutant: the release is not written.
ReconcileSucceededUnrecorded ==
  /\ At("settle")
  /\ JobStatus(sched.snap.metadata.runner_job) = "succeeded"
  /\ sched.snap.status # "RUNNING"
  /\ Goes("list")
  /\ UNCHANGED <<row, queue, workers, faults>>

\* A job that succeeded and recorded where the task goes next: written back with
\* the status that was read, whatever the status is now.
ReconcileSucceeded ==
  /\ At("settle")
  /\ JobStatus(sched.snap.metadata.runner_job) = "succeeded"
  /\ sched.snap.status # "RUNNING"
  /\ WritesOrRaises(Becomes(sched.snap.status, Released(sched.snap.metadata)), "list")
  /\ UNCHANGED <<queue, workers, faults>>

\* Mutant: whatever has not succeeded is blocked.
ReconcileBlocksUnfinished ==
  /\ At("settle")
  /\ LET status == JobStatus(sched.snap.metadata.runner_job)
         snap == sched.snap
     IN  /\ status # "succeeded" \/ snap.status = "RUNNING"
         /\ IF snap.status \in {"DONE", "BLOCKED"} \/ snap.status = row.status
            THEN WritesOrRaises(Becomes(IF snap.status = "DONE" THEN "DONE" ELSE "BLOCKED",
                                        Released(snap.metadata)), "list")
            ELSE Raises
  /\ UNCHANGED <<queue, workers, faults>>

\* A job that failed, went uncertain, is missing, or succeeded without a word: the
\* task is blocked, and stays done if it was done.
ReconcileBlocks ==
  /\ At("settle")
  /\ LET status == JobStatus(sched.snap.metadata.runner_job)
         snap == sched.snap
         metadata == Released(snap.metadata)
     IN  /\ \/ status \in {"failed", "uncertain", "absent"}
            \/ status = "succeeded" /\ snap.status = "RUNNING"
         /\ \/ /\ snap.status \in {"DONE", "BLOCKED"}
               /\ WritesOrRaises(Becomes(snap.status, metadata), "list")
            \/ /\ snap.status \notin {"DONE", "BLOCKED"}
               /\ snap.status = row.status
               /\ WritesOrRaises(Becomes("BLOCKED", metadata), "list")
            \/ /\ snap.status \notin {"DONE", "BLOCKED"}
               /\ snap.status # row.status
               /\ Raises
  /\ UNCHANGED <<queue, workers, faults>>

\* The candidates of run_queue, among them the repairs.
Candidate(r) ==
  \/ r.status = "QUEUED"
  \/ /\ r.status = "BLOCKED"
     /\ \/ r.ci_status = "failed" /\ r.ci_attempts <= CIRetryAttempts
        \/ /\ r.metadata.review_status = "changes_required"
           /\ r.metadata.review_repairs <= CIRetryAttempts
           /\ r.implementation_attempts < 2

ListsCandidates ==
  /\ At("list")
  /\ IF Candidate(row) /\ row.metadata.sequence <= MaxSequence
     THEN Reads("dispatch")
     ELSE Goes("poll_ci")
  /\ UNCHANGED <<row, queue, workers, faults>>

\* _dispatch_pause_reason: no runner, no quota, or a paused queue.
DispatchPaused ==
  /\ At("dispatch")
  /\ Goes("poll_ci")
  /\ UNCHANGED <<row, queue, workers, faults>>

\* _queue_pull_runner_job reserves the job in the row before it enqueues it.
Reserves ==
  /\ At("dispatch")
  /\ LET snap == sched.snap
         kind == IF snap.status = "QUEUED" THEN "IMPLEMENT" ELSE "REPAIR"
         job == <<kind, snap.metadata.sequence, NoHead>>
     IN  /\ row.status = snap.status
         /\ row' = Becomes("RUNNING", [snap.metadata EXCEPT !.runner_job = job])
         /\ sched' = [pc |-> "enqueue", snap |-> FreshRow, job |-> job]
  /\ UNCHANGED <<queue, workers, faults>>

\* The status was not the expected one any more.
ReserveFails ==
  /\ At("dispatch")
  /\ row.status # sched.snap.status
  /\ Goes("dispatch_failed")
  /\ UNCHANGED <<row, queue, workers, faults>>

\* A job with this id that is there already is left as it is.
Enqueues ==
  /\ At("enqueue")
  /\ IF JobStatus(sched.job) = "absent" THEN Store!Post(sched.job) ELSE UNCHANGED queue
  /\ Goes("poll_ci")
  /\ UNCHANGED <<row, workers, faults>>

EnqueueFails ==
  /\ At("enqueue")
  /\ Goes("dispatch_failed")
  /\ Fault
  /\ UNCHANGED <<row, queue, workers>>

\* The scheduler reads the row again; if it has the status that was to be claimed, ...
DispatchFailureReads ==
  /\ At("dispatch_failed")
  /\ IF row.status = "RUNNING" THEN Reads("block_dispatch") ELSE Goes("poll_ci")
  /\ UNCHANGED <<row, queue, workers, faults>>

\* ... the task is blocked, unless it was moved in between.
DispatchFailureBlocks ==
  /\ At("block_dispatch")
  /\ IF row.status = "RUNNING"
     THEN row' = Becomes("BLOCKED", sched.snap.metadata) /\ Goes("poll_ci")
     ELSE Raises
  /\ UNCHANGED <<queue, workers, faults>>

\* _poll_ci, store.list(): tasks that wait for CI, and those that run a review.
WithinBounds(r) ==
  r.ci_attempts <= CIRetryAttempts /\ r.metadata.review_sequence <= MaxSequence

PollsCI ==
  /\ At("poll_ci")
  /\ CASE row.status = "WAITING_CI" /\ WithinBounds(row) -> Reads("ci")
       [] row.status = "RUNNING" /\ row.metadata.post_ci_review /\ WithinBounds(row) ->
            Reads("review")
       [] OTHER -> Goes("poll_merged")
  /\ UNCHANGED <<row, queue, workers, faults>>

\* get_pull_request_ci: the checks of the newest revision.
Checks == IF github.head = NoHead THEN "pending" ELSE github.checks[github.head]

\* Mutant: a revision whose checks were not started yet has none that fails.
CIPassesUnlessFailed ==
  /\ At("ci")
  /\ Checks # "failure"
  /\ LET new == [Becomes("RUNNING", [sched.snap.metadata EXCEPT !.post_ci_review = TRUE])
                  EXCEPT !.ci_status = "green"]
     IN  IF Accepts(new)
         THEN row' = new /\ sched' = [pc |-> "review", snap |-> new, job |-> NoJob]
         ELSE Raises
  /\ UNCHANGED <<queue, workers, faults>>

\* Mutant: checks that pass wipe out the failures counted before.
CIPassesForgivingFailures ==
  /\ At("ci")
  /\ Checks = "success"
  /\ LET new == [Becomes("RUNNING", [sched.snap.metadata EXCEPT !.post_ci_review = TRUE])
                  EXCEPT !.ci_status = "green", !.ci_attempts = 0]
     IN  IF Accepts(new)
         THEN row' = new /\ sched' = [pc |-> "review", snap |-> new, job |-> NoJob]
         ELSE Raises
  /\ UNCHANGED <<queue, workers, faults>>

CIPasses ==
  /\ At("ci")
  /\ Checks = "success"
  /\ LET new == [Becomes("RUNNING", [sched.snap.metadata EXCEPT !.post_ci_review = TRUE])
                  EXCEPT !.ci_status = "green"]
     IN  IF Accepts(new)
         THEN row' = new /\ sched' = [pc |-> "review", snap |-> new, job |-> NoJob]
         ELSE Raises
  /\ UNCHANGED <<queue, workers, faults>>

\* Mutant: the failure is recorded, the task goes on waiting.
CIFailsKeepsWaiting ==
  /\ At("ci")
  /\ Checks = "failure"
  /\ WritesOrRaises([row EXCEPT !.ci_status = "failed"], "poll_merged")
  /\ UNCHANGED <<queue, workers, faults>>

CIFails ==
  /\ At("ci")
  /\ Checks = "failure"
  /\ WritesOrRaises([Becomes("BLOCKED", sched.snap.metadata)
                       EXCEPT !.ci_status = "failed",
                              !.ci_attempts = sched.snap.ci_attempts + 1], "poll_merged")
  /\ UNCHANGED <<queue, workers, faults>>

\* Pending, or GitHub did not answer.
CIUnknown ==
  /\ At("ci")
  /\ Goes("poll_merged")
  /\ UNCHANGED <<row, queue, workers, faults>>

\* Whatever is raised in _run_final_review blocks the task and frees the slot.
ReviewFailsWith(metadata) ==
  WritesOrRaises(Becomes("BLOCKED", [metadata EXCEPT !.review_job = NoJob,
                                                     !.review_sequence = @ + 1]),
                 "poll_merged")

ReviewReserves ==
  /\ At("review")
  /\ github.pr = "open"
  /\ sched.snap.metadata.review_job = NoJob
  /\ LET job == <<"REVIEW", sched.snap.metadata.review_sequence, github.head>>
     IN  IF row.status = sched.snap.status
         THEN /\ row' = Becomes("RUNNING", [sched.snap.metadata EXCEPT !.review_job = job])
              /\ sched' = [sched EXCEPT !.pc = "enqueue_review", !.job = job]
         ELSE ReviewFailsWith(sched.snap.metadata)
  /\ UNCHANGED <<queue, workers, faults>>

EnqueuesReview ==
  /\ At("enqueue_review")
  /\ IF JobStatus(sched.job) = "absent" THEN Store!Post(sched.job) ELSE UNCHANGED queue
  /\ Goes("poll_merged")
  /\ UNCHANGED <<row, workers, faults>>

\* GitHub, or the store, raised.
ReviewCallFails ==
  /\ At("review") \/ At("enqueue_review")
  /\ Fault
  /\ ReviewFailsWith(sched.snap.metadata)
  /\ UNCHANGED <<queue, workers>>

ReviewJob == sched.snap.metadata.review_job

ReviewWaits ==
  /\ At("review")
  /\ github.pr = "open"
  /\ ReviewJob # NoJob
  /\ JobStatus(ReviewJob) \in {"pending", "running"}
  /\ Goes("poll_merged")
  /\ UNCHANGED <<row, queue, workers, faults>>

\* The pull request is closed, the job missing, or its evidence is not about the
\* newest revision.
ReviewUnusable ==
  /\ At("review")
  /\ \/ github.pr # "open"
     \/ /\ ReviewJob # NoJob
        /\ \/ JobStatus(ReviewJob) \in {"absent", "failed", "uncertain"}
           \/ JobStatus(ReviewJob) = "succeeded" /\ ReviewJob[3] # github.head
  /\ ReviewFailsWith(sched.snap.metadata)
  /\ UNCHANGED <<queue, workers, faults>>

\* Mutant: the revision of the evidence is not compared.
HasReviewOfAnyHead(result) ==
  /\ At("review")
  /\ github.pr = "open"
  /\ ReviewJob # NoJob
  /\ JobStatus(ReviewJob) = "succeeded"
  /\ review[ReviewJob] = result

HasReview(result) ==
  /\ At("review")
  /\ github.pr = "open"
  /\ ReviewJob # NoJob
  /\ JobStatus(ReviewJob) = "succeeded"
  /\ ReviewJob[3] = github.head
  /\ review[ReviewJob] = result

Reviewed(status) ==
  [sched.snap.metadata EXCEPT !.review_job = NoJob, !.review_sequence = @ + 1,
                              !.review_status = status, !.review_head = github.head]

\* independent: the reviewer's model differs from the coder's and the worktree was
\* clean.
ReviewApproves(independent) ==
  /\ HasReview("approved")
  /\ LET gates == independent /\ sched.snap.ci_status = "green" /\ sched.snap.metadata.validated
         new == IF gates
                THEN [Becomes("READY", Reviewed("approved")) EXCEPT !.ci_status = "green"]
                ELSE Becomes("BLOCKED", Reviewed("approved"))
     IN  WritesOrRaises(new, "poll_merged")
  /\ UNCHANGED <<queue, workers, faults>>

ReviewRequiresChanges ==
  /\ HasReview("changes_required")
  /\ WritesOrRaises(Becomes("BLOCKED", [Reviewed("changes_required")
                                           EXCEPT !.review_repairs = @ + 1]),
                    "poll_merged")
  /\ UNCHANGED <<queue, workers, faults>>

\* _poll_merged_tasks. Every exception is caught, and blocks a task still READY.
PollsMerged ==
  /\ At("poll_merged")
  /\ IF row.status = "READY" THEN Reads("merged") ELSE Goes("notify")
  /\ UNCHANGED <<row, queue, workers, faults>>

\* The merge commit has passed its checks.
RecordsMerge ==
  /\ At("merged")
  /\ github.pr = "merged"
  /\ sched.snap.metadata.review_head = github.head
  /\ row' = IF row.status = "READY"
            THEN [Becomes("DONE", [sched.snap.metadata EXCEPT !.completion = "scheduler_poll"])
                    EXCEPT !.ci_status = "green"]
            ELSE row
  /\ Goes("notify")
  /\ UNCHANGED <<queue, workers, faults>>

\* It failed them, another revision was merged than was reviewed, or the pull
\* request was closed.
RefusesMerge ==
  /\ At("merged")
  /\ github.pr \in {"merged", "closed"}
  /\ row' = IF row.status = "READY" THEN [row EXCEPT !.status = "BLOCKED"] ELSE row
  /\ Goes("notify")
  /\ UNCHANGED <<queue, workers, faults>>

MergePending ==
  /\ At("merged")
  /\ \/ github.pr = "open"
     \/ github.pr = "merged" /\ sched.snap.metadata.review_head = github.head
  /\ Goes("notify")
  /\ UNCHANGED <<row, queue, workers, faults>>

MergedCallFails ==
  /\ At("merged")
  /\ row' = IF row.status = "READY" THEN [row EXCEPT !.status = "BLOCKED"] ELSE row
  /\ Goes("notify")
  /\ Fault
  /\ UNCHANGED <<queue, workers>>

\* _notify_terminal_tasks reads the row and comments on the issue ...
Notifies ==
  /\ At("notify")
  /\ IF row.status \in {"READY", "BLOCKED", "DONE"}
     THEN Reads("notified")
     ELSE Goes("reconcile")
  /\ UNCHANGED <<row, queue, workers, faults>>

\* (this status was notified before, or GitHub did not answer)
NotifiesNothing ==
  /\ At("notify")
  /\ Goes("reconcile")
  /\ UNCHANGED <<row, queue, workers, faults>>

\* ... then writes the status and the metadata it read. It catches every exception.
NotificationRecorded ==
  /\ At("notified")
  /\ WritesIfAllowed(Becomes(sched.snap.status, sched.snap.metadata))
  /\ Goes("reconcile")
  /\ UNCHANGED <<queue, workers, faults>>

SchedulerCrashes == Fault /\ Raises /\ UNCHANGED <<queue, workers>>

-----------------------------------------------------------------------------
(* The workers.  A child runs the workflow of app/cli.py run_cli for its job; the
supervisor around it is that of PullRunner. *)

Working == ChildPhases \ {"none", "ok", "bad"}

ChildGoes(j, pc) == child' = [child EXCEPT ![j] = [NoChild EXCEPT !.pc = pc]]

ChildReads(j, pc) ==
  child' = [child EXCEPT ![j] = [pc |-> pc, metadata |-> row.metadata,
                                 attempts |-> row.implementation_attempts]]

\* A runner claims the job and starts its child.
RunnerClaims(j, t) ==
  /\ Store!Issue(j, t)
  /\ ChildGoes(j, "starting")
  /\ UNCHANGED <<row, github, review, sched, faults>>

\* --ci-repair asks for a failure on record, and then dies of the checkpoint it finds
\* (Workflow, RepairAsked). If it finds none, it starts the workflow over.
ChildStarts(j) ==
  /\ j \in WorkJobs
  /\ child[j].pc = "starting"
  /\ \/ j[1] = "IMPLEMENT" /\ ChildReads(j, "opening")
     \/ j[1] = "REPAIR" /\ ChildGoes(j, "bad")
     \/ ~KeepsCheckpoints /\ ChildReads(j, "opening")
  /\ UNCHANGED <<row, queue, github, review, sched, faults>>

\* The first _track_task_state of a workflow writes the status, and the metadata it read
\* only if it takes the stage of an earlier block out of it.
ChildOpens(j, metadata) ==
  /\ child[j].pc = "opening"
  /\ metadata \in {row.metadata, child[j].metadata}
  /\ WritesIfAllowed(Becomes("RUNNING", metadata))
  /\ ChildGoes(j, "working")
  /\ UNCHANGED <<queue, github, review, sched, faults>>

\* _track_task_state at each node of the graph: it reads the row ...
ChildReadsTask(j) ==
  /\ child[j].pc = "working"
  /\ ChildReads(j, "tracking")
  /\ UNCHANGED <<row, queue, github, review, sched, faults>>

\* Mutant: the workflow's count is written as it is.
ChildTracksItsCount(j, count) ==
  /\ child[j].pc = "tracking"
  /\ WritesIfAllowed([Becomes("RUNNING", child[j].metadata) EXCEPT
                        !.implementation_attempts = count])
  /\ ChildGoes(j, "working")
  /\ UNCHANGED <<queue, github, review, sched, faults>>

\* The larger of the count in the workflow and the one that was read.
Larger(m, n) == IF m > n THEN m ELSE n

\* ... and writes status, phase and counters.
ChildTracks(j, count) ==
  /\ child[j].pc = "tracking"
  /\ WritesIfAllowed([Becomes("RUNNING", child[j].metadata) EXCEPT
                        !.implementation_attempts = Larger(child[j].attempts, count)])
  /\ ChildGoes(j, "working")
  /\ UNCHANGED <<queue, github, review, sched, faults>>

\* reserve_code_repair before the coder is run again; one transaction.
ChildReservesRepair(j) ==
  /\ child[j].pc = "working"
  /\ IF row.metadata.repairs_used < MaxRepairs
     THEN row' = [row EXCEPT !.metadata.repairs_used = @ + 1] /\ ChildGoes(j, "repairing")
     ELSE UNCHANGED row /\ ChildGoes(j, "stopping")
  /\ UNCHANGED <<queue, github, review, sched, faults>>

\* Mutant: the count may fall below zero.
ChildRefundsBlindly(j) ==
  /\ child[j].pc = "repairing"
  /\ row' = [row EXCEPT !.metadata.repairs_used = @ - 1]
  /\ ChildGoes(j, "stopping")
  /\ UNCHANGED <<queue, github, review, sched, faults>>

\* release_code_repair: the coder left no candidate.
ChildRefundsRepair(j) ==
  /\ child[j].pc = "repairing"
  /\ row' = [row EXCEPT !.metadata.repairs_used = IF @ > 0 THEN @ - 1 ELSE 0]
  /\ ChildGoes(j, "stopping")
  /\ UNCHANGED <<queue, github, review, sched, faults>>

ChildRepaired(j) ==
  /\ child[j].pc = "repairing"
  /\ ChildGoes(j, "working")
  /\ UNCHANGED <<row, queue, github, review, sched, faults>>

\* push_branch and the draft pull request.  There is one pull request per task here: that
\* a push after it was merged or closed opens another is left out.
ChildPushes(j) ==
  /\ child[j].pc = "working"
  /\ github.head < MaxHeads
  /\ github' = [github EXCEPT !.head = @ + 1, !.pr = IF @ = "none" THEN "open" ELSE @]
  /\ github.pr \in {"none", "open"}
  /\ ChildGoes(j, "completing")
  /\ UNCHANGED <<row, queue, review, sched, faults>>

\* _sync_task_result of a completed workflow: it reads the row, ...
ChildSyncs(j) ==
  /\ child[j].pc = "completing"
  /\ ChildReads(j, "publishing")
  /\ UNCHANGED <<row, queue, github, review, sched, faults>>

Approved(metadata) ==
  [metadata EXCEPT !.validated = TRUE, !.review_status = "approved"]

\* ... writes what the workflow recorded, its own review among it, ...
ChildPublishes(j) ==
  /\ child[j].pc = "publishing"
  /\ WritesIfAllowed([Becomes("RUNNING", Approved(child[j].metadata))
                       EXCEPT !.implementation_attempts = child[j].attempts])
  /\ ChildGoes(j, "published")
  /\ UNCHANGED <<queue, github, review, sched, faults>>

\* ... reads it again ...
ChildChecksStatus(j) ==
  /\ child[j].pc = "published"
  /\ ChildGoes(j, IF row.status = "RUNNING" THEN "awaiting" ELSE "ok")
  /\ UNCHANGED <<row, queue, github, review, sched, faults>>

\* ... and lets the task wait for CI, whatever it has become since.
ChildAwaitsCI(j) ==
  /\ child[j].pc = "awaiting"
  /\ LET new == [row EXCEPT !.status = "WAITING_CI", !.ci_status = "queued"]
     IN  IF Accepts(new)
         THEN row' = new /\ ChildGoes(j, "ok")
         ELSE UNCHANGED row /\ ChildGoes(j, "bad")
  /\ UNCHANGED <<queue, github, review, sched, faults>>

\* A workflow that was approved and found nothing to change: _sync_task_result reads
\* the row ...
ChildConcludes(j) ==
  /\ child[j].pc = "working"
  /\ ChildReads(j, "concluding")
  /\ UNCHANGED <<row, queue, github, review, sched, faults>>

\* ... and completes the task.
ChildFindsNothing(j) ==
  /\ child[j].pc = "concluding"
  /\ WritesIfAllowed([Becomes("DONE", [Approved(child[j].metadata)
                                         EXCEPT !.completion = "no_changes"])
                       EXCEPT !.ci_status = "not_required"])
  /\ ChildGoes(j, "ok")
  /\ UNCHANGED <<queue, github, review, sched, faults>>

\* The workflow blocks.  _track_task_state reads the row, ...
ChildBlocks(j) ==
  /\ child[j].pc \in {"working", "stopping"}
  /\ ChildReads(j, "halting")
  /\ UNCHANGED <<row, queue, github, review, sched, faults>>

\* ... writes the status and the counters, the metadata not; ...
ChildHalts(j, count) ==
  /\ child[j].pc = "halting"
  /\ WritesIfAllowed([row EXCEPT !.status = "BLOCKED",
                        !.implementation_attempts = Larger(child[j].attempts, count)])
  /\ ChildGoes(j, "halted")
  /\ UNCHANGED <<queue, github, review, sched, faults>>

\* ... _sync_task_result reads it again ...
ChildSyncsBlock(j) ==
  /\ child[j].pc = "halted"
  /\ ChildReads(j, "blocking")
  /\ UNCHANGED <<row, queue, github, review, sched, faults>>

\* ... and writes status and metadata.
ChildRecordsBlock(j) ==
  /\ child[j].pc = "blocking"
  /\ WritesIfAllowed(Becomes("BLOCKED", child[j].metadata))
  /\ ChildGoes(j, "ok")
  /\ UNCHANGED <<queue, github, review, sched, faults>>

\* app/review_worker.py: the result is about the revision the job names.
ChildReviews(j, result) ==
  /\ j \in ReviewJobs
  /\ child[j].pc = "starting"
  /\ review' = [review EXCEPT ![j] = result]
  /\ ChildGoes(j, "ok")
  /\ UNCHANGED <<row, queue, github, sched, faults>>

\* An exception, a crash, or the supervisor of a fenced attempt ends the child.
ChildDies(j) ==
  /\ child[j].pc \in Working
  /\ ChildGoes(j, "bad")
  /\ UNCHANGED <<row, queue, github, review, sched, faults>>

SupervisorReports(j, t) ==
  /\ child[j].pc \in {"ok", "bad"}
  /\ Store!Settle(j, t, IF child[j].pc = "ok" THEN "succeeded" ELSE "failed")
  /\ UNCHANGED <<row, child, github, review, sched, faults>>

-----------------------------------------------------------------------------
(* The environment. *)

\* The sweep of a runner finds the lease of j over.
LeaseExpires(j) ==
  /\ Fault
  /\ Store!Revoke({j})
  /\ UNCHANGED <<row, child, github, review, sched>>

\* An operator has proof that the child stopped.
OperatorRequeues(j, t) ==
  /\ child[j].pc \notin Working
  /\ Store!Reopen(j, t)
  /\ UNCHANGED <<row, child, github, review, sched, faults>>

\* reconcile_merged_task, after the merge commit passed its checks.
OperatorReconcilesMerge ==
  /\ row.status \in {"BLOCKED", "READY"}
  /\ github.pr = "merged"
  /\ row' = [Becomes("DONE", [row.metadata EXCEPT !.completion = "manual_reconciliation"])
              EXCEPT !.ci_status = "green"]
  /\ UNCHANGED <<queue, child, github, review, sched, faults>>

ChecksFinish(h, result) ==
  /\ h <= github.head
  /\ github.checks[h] = "pending"
  /\ github' = [github EXCEPT !.checks[h] = result]
  /\ UNCHANGED <<row, queue, child, review, sched, faults>>

PullRequestEnds(state) ==
  /\ github.pr = "open"
  /\ github' = [github EXCEPT !.pr = state]
  /\ UNCHANGED <<row, queue, child, review, sched, faults>>

\* Anyone with access may push to the branch.
SomebodyPushes ==
  /\ OthersPush
  /\ github.pr = "open"
  /\ github.head < MaxHeads
  /\ github' = [github EXCEPT !.head = @ + 1]
  /\ UNCHANGED <<row, queue, child, review, sched, faults>>

-----------------------------------------------------------------------------
SchedulerStep ==
  \/ ReconcileReads \/ ReconcileWaits \/ ReconcileSucceeded \/ ReconcileBlocks
  \/ ListsCandidates \/ DispatchPaused \/ Reserves \/ ReserveFails \/ Enqueues
  \/ DispatchFailureReads \/ DispatchFailureBlocks
  \/ PollsCI \/ CIPasses \/ CIFails \/ CIUnknown
  \/ ReviewReserves \/ EnqueuesReview \/ ReviewWaits \/ ReviewUnusable
  \/ \E independent \in BOOLEAN : ReviewApproves(independent)
  \/ ReviewRequiresChanges
  \/ PollsMerged \/ RecordsMerge \/ RefusesMerge \/ MergePending
  \/ Notifies \/ NotifiesNothing \/ NotificationRecorded

SchedulerFault == EnqueueFails \/ ReviewCallFails \/ MergedCallFails \/ SchedulerCrashes

ChildStep(j) ==
  \/ ChildStarts(j)
  \/ \E metadata \in {row.metadata, child[j].metadata} : ChildOpens(j, metadata)
  \/ ChildReadsTask(j) \/ \E count \in 0 .. MaxCount : ChildTracks(j, count)
  \/ ChildReservesRepair(j) \/ ChildRefundsRepair(j) \/ ChildRepaired(j)
  \/ ChildPushes(j) \/ ChildSyncs(j) \/ ChildPublishes(j)
  \/ ChildChecksStatus(j) \/ ChildAwaitsCI(j)
  \/ ChildConcludes(j) \/ ChildFindsNothing(j)
  \/ ChildBlocks(j) \/ \E count \in 0 .. MaxCount : ChildHalts(j, count)
  \/ ChildSyncsBlock(j) \/ ChildRecordsBlock(j)
  \/ \E result \in {"approved", "changes_required"} : ChildReviews(j, result)

GitHubStep ==
  \/ \E h \in Heads, result \in {"success", "failure"} : ChecksFinish(h, result)
  \/ \E state \in {"merged", "closed"} : PullRequestEnds(state)
  \/ SomebodyPushes

TaskNext ==
  \/ SchedulerStep \/ SchedulerFault
  \/ \E j \in JobIds : ChildStep(j) \/ ChildDies(j) \/ LeaseExpires(j)
  \/ \E j \in JobIds, t \in Store!Tokens :
       RunnerClaims(j, t) \/ SupervisorReports(j, t) \/ OperatorRequeues(j, t)
  \/ OperatorReconcilesMerge
  \/ GitHubStep

TaskSpec == TaskInit /\ [][TaskNext]_schedulerVars

\* The cluster restarts the scheduler, checks finish, and GitHub does not refuse every
\* answer.  Nothing is assumed of the workers.
LiveTaskSpec ==
  /\ TaskSpec
  /\ WF_schedulerVars(SchedulerStep)
  /\ SF_schedulerVars(CIPasses \/ CIFails)
  /\ WF_schedulerVars(\E h \in Heads, result \in {"success", "failure"} :
                        ChecksFinish(h, result))

-----------------------------------------------------------------------------
(* Properties that hold *)

\* READY means that a reviewer approved the very revision the row names, and DONE by
\* the scheduler that this revision was merged: though any number of stale copies of
\* the metadata are written over each other, and the branch moves under the review,
\* status, review_head and the reviewed revision stay together (_run_final_review,
\* _poll_merged_tasks).
ApprovedRevision(h) == \E j \in ReviewJobs : j[3] = h /\ review[j] = "approved"

ReadyRevisionsWereApproved ==
  /\ row.status = "READY" => ApprovedRevision(row.metadata.review_head)
  /\ row.status = "DONE" /\ row.metadata.completion = "scheduler_poll" =>
       /\ github.pr = "merged"
       /\ ApprovedRevision(github.head)

\* What the READY gate does keep of "only after all required checks pass" (it asks for
\* ci_status, not for the revision it is of): some revision of the branch, the reviewed
\* one or an earlier one, passed its checks.  No mixture of old metadata, repairs and
\* reviews gets there without any.  That it is the reviewed one is not true, see
\* ReadyRevisionsPassedCI.
ReadyFollowsGreenCI ==
  row.status = "READY" =>
    \E h \in 1 .. row.metadata.review_head : github.checks[h] = "success"

\* No lease has expired.
Quiet == \A j \in JobIds, t \in Store!Tokens : verdict[j][t] # "revoked"

\* As long as no lease expires, a task that waits for CI has its validation on record,
\* which READY will ask for: no crash, failed call or older copy of the row takes it from
\* a workflow that published it (_sync_task_result, _reconcile_pull_runner_jobs).  After
\* an expired lease it can: the scheduler blocks the task with the metadata it read, and
\* the child lets it wait for CI all the same.
WaitingWasValidated == Quiet => (row.status = "WAITING_CI" => row.metadata.validated)

\* The counters that bound the rounds of repair never lose an increment to an older copy
\* of the row: that of failed checks never, that of attempts as long as no lease expires
\* (_poll_ci, _track_task_state, _sync_task_result).  After one, two children may work.
CountersNeverDecrease ==
  [][/\ row'.ci_attempts >= row.ci_attempts
     /\ row'.implementation_attempts < row.implementation_attempts => ~Quiet]_schedulerVars

\* The reservation of a job that ended is given back, unless an operator has the job run
\* again: no crash of the scheduler and no worker that goes on writing the row keeps it
\* for ever (_reconcile_pull_runner_jobs).
ReservationsAreReleased ==
  \A j \in WorkJobs :
    row.metadata.runner_job = j /\ JobStatus(j) \in {"succeeded", "failed", "uncertain"}
      ~> row.metadata.runner_job # j \/ JobStatus(j) \in {"pending", "running"}

\* A task that waits for CI does not wait for ever, up to the bounds of the model
\* (_poll_ci).
CIResultsAreActedOn ==
  row.status = "WAITING_CI" /\ WithinBounds(row)
    ~> row.status # "WAITING_CI" \/ ~WithinBounds(row)

-----------------------------------------------------------------------------
(* What documents and tests say, and the code does not do *)

\* "A stopped worker is reconciled against its checkpoint on the next queue pass"
\* (docs/architecture.md): a running task that nothing works on is not left running.
Stranded ==
  /\ row.status = "RUNNING"
  /\ \A j \in JobIds : JobStatus(j) \notin {"pending", "running"} /\ child[j].pc \notin Working

StrandedTasksAreReconciled == Stranded ~> ~Stranded

\* A task is marked READY "only after all required checks pass" (docs/operations.md) on
\* the revision it is READY with.  The code can do otherwise: a dispatch keeps
\* post_ci_review (_queue_pull_runner_job, run_queue), so _poll_ci has the revision of
\* a repair reviewed while the repair runs, and ci_status is that of the revision before.
\* Pushes of others between the poll and the reservation of the review do the same.
ReadyRevisionsPassedCI ==
  row.status = "READY" => github.checks[row.metadata.review_head] = "success"

=============================================================================
