# Verification of the investory orchestrator

The orchestrator turns GitHub issues into pull requests. A scheduler in the
cluster watches issues and pull requests and keeps one row per task; runner
daemons on Mac hosts take jobs from a PostgreSQL queue, run the agents'
workflow in a child process and report what became of it; a human merges. This
directory holds TLA+ modules that model the part of it where processes meet,
TLC configurations that check them, and TLAPS proofs of theorems about them.

`PROJECT.json` maps every definition that models code to its lines in `src/`,
and lists the runs, mutants, findings, hazards and theorems named below.

## The system

| Component (file) | State it keeps | Operations | Interacts by |
|---|---|---|---|
| Job queue (`app/tasks.py` 764-1189) | tables `jobs`, `job_attempts`, `runners` | register, heartbeat, enqueue, claim, renew, record process, complete, sweep, requeue | called by scheduler, daemons, supervisors, operators; one transaction each |
| Task rows (`app/tasks.py`) | table `tasks`: status, CI status, counters, one JSON `metadata` object; events; activity outbox; service status | create, transition with gates, reserve and release a code repair, outbox | scheduler and workers read and write the same row without a common lock |
| Runner daemon (`app/runner_daemon.py`) | a loop; the handle of the job it claimed | register, beat, sweep, poll, claim, start a supervisor | job queue; spawns supervisors |
| Job supervisor (`app/runner_job_worker.py`) | its attempt; the child; a result artifact | check, launch, record, renew, terminate, report | job queue; signals the child |
| Scheduler, pull transport (`app/task_scheduler.py`) | nothing between passes but the rows | reconcile, dispatch, poll CI, final review, poll merges, notify, manual reconciliation | task rows, job queue, GitHub |
| Scheduler, SSH and local transport (`app/task_scheduler.py`, `scripts/mac_ssh_entrypoint.py`) | live processes, their pids in metadata | start and resume workers, adopt or block stopped ones | SSH, task rows, checkpoints |
| Issue intake (`app/task_scheduler.py`, `app/issue_validation.py`) | markers on issues | validate, create the task once, comment | GitHub, task rows |
| File job ledger (`app/runner_jobs.py`) | one JSON record per job under a file lock | submit, run, cancel, get | the SSH entry point |
| Workflow driver (`app/cli.py`) | what it last read of the task row | invoke, track, sync the result | workflow graph, task rows |
| Workflow graph (`app/graph.py`, `app/state.py`, `app/retry_isolation.py`) | a checkpointed state | plan, code, validate, review, integrate, push, open a pull request | agents, Git, GitHub |
| Side-effect intents (`app/side_effects.py`), Git (`app/workspace.py`) | prepared and finished intents; worktrees | prepare, complete, reconcile commits and pushes | graph, Git |
| Review worker (`app/review_worker.py`) | none | review the revision its job names | supervisor, agents |
| GitHub client (`app/github_client.py`) | tokens | pull request, checks, comments | scheduler, graph |
| Agents, test runner | none between calls | model calls, validation | graph |
| Dashboard, Slack | none | reads, messages | task rows, outbox |

### What is hard in it, and what makes each part correct

*Job queue.* A lease may end while its holder works; the sweep, the holder, a
second claimant and an operator then race. Correct: conflicting jobs are never
claimed together, an ended attempt is never written again, the two tables tell
one story, leases do not shrink under clock skew, capacities hold.

*Daemon and supervisor.* Any process of a host can die between any two calls,
and any call can raise. Correct: no child works for a job that was settled or
given to someone else; a verdict is the child's own; an attempt whose child
ended is settled or given up; a fenced child is ended; a claim nobody works for
ends.

*Scheduler.* It reads a row, calls GitHub, and writes status and the whole
`metadata` back, often without expecting a status, while workers do the same.
A pass may end at any point with an exception that restarts the process.
Correct: what becomes READY or DONE is the revision that was approved;
waiting for CI implies a recorded validation; counters and budgets that bound
the rounds do not go back; reservations are returned; nobody waits for ever.

*Workflow.* A process may die between an effect (a commit, a push) and the
checkpoint that records it; a blocked workflow is resumed at one of 21
stages, each of which presupposes what the stages before it left. Correct:
what is pushed was validated and reviewed; effects are made once; nobody
else's commits are overwritten; the loops of repair end.

*SSH and local transport.* A worker over SSH is a client, an entry point that
holds a lock file, and a workflow; each can die alone, and a restarted
scheduler knows only the row and what a probe of the lock says. Correct: one
process at a time in the workspace; a task whose worker stopped does not stay
running, wherever it was lost; a result that a restarted scheduler missed is heard.

*Issue intake.* The author may edit and label the issue between any two calls,
calls fail, and an operator may submit the issue beside the scheduler. Correct:
a task is made from a contract, and no request is lost.

*File ledger.* Submit, cancel, status and the worker of a job are processes that
share a file under a lock, and submit writes it twice. Correct: a command is
started once, a final status stays, and a cancel ends the job.

`PROJECT.json` lists 40 hazards at their lines.

## Modules

| Module | What it is | Code |
|---|---|---|
| `JobClaims` | abstract queue: open jobs and numbered tokens that end once | what `tasks.py` 829-1189 promises |
| `JobStore` | the three tables and the nine methods on them | `tasks.py` 764-1189 |
| `PullRunner` | daemons, supervisors and children around `JobStore` (EXTENDS it) | `runner_daemon.py`, `runner_job_worker.py` |
| `TaskScheduler` | the row of one task, the scheduler's pass, the workers, the pull request; its queue is an INSTANCE of `JobClaims` | `task_scheduler.py`, `tasks.py`, `cli.py`, `graph.py`, `review_worker.py` |
| `Workflow` | the nodes and routes of the graph, its checkpoint, the workspace, the remote branch, start and resume | `graph.py`, `cli.py`, `side_effects.py`, `workspace.py`, `retry_isolation.py` |
| `Intake` | how one issue becomes a task, by the scheduler's poll or by `--submit-issue` | `task_scheduler.py`, `cli.py`, `issue_validation.py` |
| `LocalScheduler` | the pass of a scheduler that starts its workers itself, or over SSH; the issue comes from an INSTANCE of `Intake` | `task_scheduler.py`, `mac_ssh_entrypoint.py`, `cli.py` |
| `RunnerLedger` | the file ledger of the Mac runner | `runner_jobs.py`, `mac_ssh_entrypoint.py` |
| `JobStoreProofs`, `JobStoreRefinement`, `PullRunnerProofs`, `RunnerLedgerProofs`, `LocalSchedulerProofs`, `TaskSchedulerProofs`, `WorkflowProofs`, `WorkflowPublicationProofs` (EXTENDS `WorkflowProofs`) | theorems | |
| `MCJobStore`, `MCPullRunner`, `MCTaskScheduler`, `MCWorkflow`, `MCLocalScheduler`, `MCRunnerLedger` | constants for TLC | |

The composition is `TaskScheduler` over `JobClaims`, `JobStore` implementing
`JobClaims`, and `PullRunner` driving `JobStore`: what the scheduler relies on
is what the tables provide, and the processes use the tables by their methods
only (theorems `StoreImplementsClaims`, `RunnersFollowTheStore`). `Workflow` is
what a working child of `TaskScheduler` executes; it has a module of its own,
and `TaskScheduler` sees of it the reads and writes of the row, a repair and a
push, in an order that is left open.

`LocalScheduler` over `Intake` is the other way to run the same program, without
the queue: the row, its gates, the CI poll and the review are those of
`TaskScheduler`, the processes are its own. `RunnerLedger` stands alone: the
scheduler sends its entry point `run`, `review` and `probe`, and nothing in the
source sends it `submit` today.

### JobStore

`jobs[j]` and `attempts[j][a]` are the rows, keyed by job and by attempt number
(the code's random attempt id, of which there is one per number); `runners[r]`
is the row of a runner. Each method is one database transaction and one action;
each WHERE clause is a conjunct or an IF. A method that matches no row and
returns `False` changes nothing, and is no action.

Time is `now`; a method called from the host of runner `r` reads
`now + ClockOffset[r]`. The code reads `time.time()` just before its
transaction begins; here the reading and the transaction are one step.

A claim may take any pending job that passes the tests of the loop: the code
goes through the 50 oldest by priority, but skips rows another transaction has
locked, so no order can be relied on. `MarkExpiredJobsUncertain` takes any
subset of the expired jobs, for the same reason.

`MaxAttempts` and `MaxTime` bound the claims of a job and the clock.

### PullRunner

`daemon[r]` is the place of a daemon in its loop and the handle of the job it
claimed; `proc[j][a]` the supervisor, the child and the artifact of an attempt.
One step is the code from one store call, spawn or signal to the next. The
faults, bounded by `MaxFaults`, are a failing spawn, a call that raises, SIGTERM, a
crash of the daemon, the death of a supervisor (whose child lives on, it has
its own session), a store that does not answer the report, and a reboot. A log
that cannot be written is none of them (see the end of this file).
`Horizon` bounds the leases taken, so that there is time left for each to end.

The operator's requeue (`safely_requeue_uncertain_job` has no caller in the
source; it is for operators) asks for the proof the code names: neither the
supervisor nor the child of that attempt is left.

### TaskScheduler

`row` is the task's row. `sched` holds where the pass is and, between a read
and the write that follows it, the row that was read; the code's loops over
all tasks are loops over one. `child[j]` is the process of job `j`, with the metadata and
counter it last read. `github` is the pull request and the checks
of each revision. `review[j]` is what a review job returned.

`KeepsCheckpoints` says that a job always finds the checkpoint of the workflow
(`DATABASE_URL` is set); if not, `CHECKPOINT_DB` is a file of the host, and a
job may also find none and start the workflow over. A repair job that finds a
checkpoint dies of it (finding 4 below), and so the passing runs set
`KeepsCheckpoints` to FALSE, where repairs can happen too; the violation runs
set it to TRUE, where fewer things can.

Every write goes through `Accepts`, the transition table and the READY and DONE
gates. A refused write raises: where the code catches, `WritesIfAllowed` leaves
the row; where nothing catches, `WritesOrRaises` starts the pass again, as the
restart of the scheduler process does.

Data that is abstracted: the pull request number in the row is that of
`github.pr`; reviewer independence, a clean worktree, and the fields of a
completion record are choices of the action that needs them (`independent`,
or the record is complete); a workflow is its reads and writes of the row, a
repair and a push, in any order its graph may take.

Decisions of the code that shape the model and may surprise:

- `PLANNING`, `IMPLEMENTING`, `VALIDATING`, `REVIEWING`, `PUBLISHING`,
  `FINAL_REVIEW` are all aliases of `RUNNING`, `FAILED` of `BLOCKED`, and
  `COMPLETED` of `DONE`. So "expected status" tells little.
- A failed final review is never tried again: `attempts < min(1, limit)` is
  false after the first attempt, whatever `MAX_FINAL_REVIEW_ATTEMPTS` says.
- `_sync_task_result` writes the workflow's own `final_review_status` to the key
  the final review of the pull request uses; hence `Approved`.
- A GitHub call that fails in `_poll_merged_tasks` blocks a READY task.
- `_sync_task_result` reads the status and then writes `WAITING_CI` to whatever
  the row has become: `ChildChecksStatus` and `ChildAwaitsCI`.
- `NotifiesNothing` is possible at any time: whether this status was notified
  before is not modelled.
- `reconcile_merged_task`, an operator's command, is one step, though it reads
  GitHub before it writes.
- The error path of `_sync_task_result` that writes `FAILED` with no metadata
  is a blocked workflow whose second write (`ChildRecordsBlock`) meets the row its first
  one (`ChildHalts`) left, and so changes nothing.
- `_queue_pull_runner_job` keeps the `post_ci_review` that `run_queue` took out for
  it: a task under repair may be reviewed at the same time (finding 3).
- A dispatch that failed blocks the task in two steps, as another writer may come in
  between them: `DispatchFailureReads`, `DispatchFailureBlocks`.

`MaxSequence` bounds dispatches and reviews, `MaxHeads` revisions (pushed by a
child, or by somebody else: `SomebodyPushes`), `MaxAttempts` claims of a job,
`MaxCount` the attempts a workflow reports, `MaxFaults` expired leases, failed calls and
crashes. `OthersPush` says whether `SomebodyPushes` happens.

### Workflow

`ckpt` is the checkpoint: the fields of `WorkflowState` a route or an effect
depends on, and `next`, the node LangGraph would execute. One action is a node
with the route that follows it. How the node ends is one of five operators:
`Returns` (it has no effect outside), `Saves` (it has one, and the process may die
before the checkpoint is saved: the effect stays, the node is still next),
`Fails` (a call raised, which the node catches), `Raises` (it does not), and
`DiesUnsaved`. `work` is the workspace: HEAD, and the contents of its files, dirty
when they are not those of HEAD. `remote` is the issue branch on GitHub. `passed` and
`vetted` remember which contents the validation and the reviewer of the whole plan
accepted, and `repair` what became of a CI repair; no action depends on `passed` and
`vetted`, and `repair` only keeps `RepairAsked` to one.

What is abstracted: contents are numbers up to `MaxTree`, that a coder changes as it
likes; a revision is the sequence of its commits, each with the revision its
operation id names (`of`), so that equal revisions are equal histories, as SHAs
are; a plan has `StepCount` steps; a comment is its intent. Agents, validation
and calls answer as they like. Nodes without effect that lead to one place
(`validation_success`, `review_approved`, `workflow_complete` and the like)
are part of the node before them. Only issues are modelled, whose
plans and reviews are published as comments, not prompt tasks. The repair budget is
the choice of `CoderRefused` and `FinalCoderRefused`.

`ResumeNode` is the resume table, read as LangGraph reads it: `update_state(...,
as_node=n)` goes on *after* `n`, where the route of `n` leads on the state that was
updated. `ResumesBlocked` is a `--resume` of a blocked workflow; a stage that is not
in the table (`repair_budget`) cannot be resumed. `StartsOver` is a run without `--resume`:
it counts as a fault, as nothing in the scheduler asks for it unless the
checkpoint is lost. `OperatorDiscards` is what an operator does whom `run_cli` tells
to inspect the changes of a coder that died.

`MaxCommits` bounds the commits with which a plan may be made again, and
`MaxFaults` crashes, failed calls, pushes by others, and starts over.

Decisions of the code that may surprise:

- `prepare_checkpoint` and the nodes that prepare a comment lead on also when
  they block; the next node is what stops.
- A failed planner ends the run without a cleanup.
- The cap of the simplified mode, `attempt + final_attempt >= 2`, is never true: the
  attempt was reset when the step was completed.
- A workspace that exists is refused when it has changes (`prepare_workspace` raises,
  on every resume), and, after a commit, with a branch on GitHub, because the two are
  apart. What the repository, its origin and the name of the branch are is not modelled.
- A commit with the operation id of a step or of the finalization is looked for in
  `git log --all`: found anywhere but at HEAD, it blocks the workflow
  (`CheckpointIsAway`, `FinalIsAway`). `Logged` is the history of HEAD and that of the
  pushed branch; the refs a clone may keep beside them are left out.

### RunnerLedger

`record[j]` is the JSON file of a job, `submitting[j]` the submit command that
holds its lock, `worker[j]` the process `RunnerJobStore.run`, and `command[j]`
what that process starts. The lock is `flock`: it ends with its holder, whoever
holds it, and a file is replaced by a rename; so what one holder does under the
lock is one step. Submit alone stores the record, starts the worker, and stores
the record again with the worker's pid; the worker waits for that lock.

A submit that dies before it stored the pid leaves `submitted` for ever if its
worker dies too: `get` looks only for a worker that is on record. This is why
`SubmittedJobsStart` asks for `worker_pid`. A worker that dies leaves its command
running (it has a session of its own), and the record then says
`runner_process_lost`: `OutcomesProveTheEnd` is what a final status proves, and
what it does not. A pid that the system gives to another process is left out.

### Intake

`issue` is the label `ready_to_develop` and the kind of the description:
a contract, one that `format_issue_contract` can make a contract, or one it
cannot (`Formatted`; such a text may still be trimmed and written back before it is
refused). `poll` is the scheduler at this issue with the description it has read,
`submit` the operator's command. A GitHub call and the code up to the next is one
step. `TaskStore.create` looks for the task and inserts it in another
transaction: `InsertCollides` is the scheduler whose insert meets that of
`--submit-issue`, and ends its pass with an exception.

The author's edits, labels and the operator's submissions are counted with the
faults. An edit between the scheduler's read and its `update_issue_body` is
overwritten by the formatted older text, and a label that is taken back after the
list is not looked at again: both are in the model, and no document promises more.

### LocalScheduler

`worker[w]` is the `w`-th dispatch: the client, which the scheduler waits for; the
entry point, which holds the lock of the task (with the transport `local` there
is none); and `app`, the workflow, with the row it last read. `transport` is chosen
once. `checkpoint` is what is left of the workflow, `reviewer` a final review
under way, which on the Mac holds the same lock. `Restarts` is what a crash, or an
exception nothing catches, leaves: clients that are `gone`, processes on the Mac
that go on, and local ones that go on or end with the container.

The workflow is its reads and writes of the row and its end, as in `TaskScheduler`;
a repair that finds a checkpoint dies (`AppRefuses`, finding 4). The checks, the
health report and the reviewer answer as they like.

Decisions of the code that may surprise:

- The lock is of the entry point, and the workflow does not inherit it. An entry
  point that dies alone frees it: `WorkspaceIsExclusive` says this is the one way
  round the lock. Without SSH there is no lock, and the property claims nothing.
- A row written back by a worker may lose `worker_mode`, and then no probe is made:
  what keeps a second worker out is the entry point (exit code 73).
- A delayed worker that was told to start, not to resume, starts over a workflow
  that has completed since.
- A probe takes the lock for a moment: a worker or a review that starts just then
  exits as if another were at work (`Probing`).
- A review whose ssh session ends or times out is not stopped: the task is blocked
  while it goes on holding the lock (`ReviewSessionIsLost`).
- A worker that dies while the scheduler waits for it is blocked with
  `recovery_pending` False (`ExitedIsBlocked`), and a task blocked so is no candidate:
  nobody resumes its checkpoint, not even that of a workflow which had completed,
  though `docs/architecture.md:52-53` says a stopped worker "is reconciled against its
  checkpoint on the next queue pass". `StoppedWorkersAreReconciled` only says that the
  row leaves `RUNNING`; `LostResultsReachTheRow` is about the workers a restarted
  scheduler missed (`RecoveryIsDue`), whose checkpoint it does resume.
- A recovery that overlaps the end of a worker it does not see may write back a
  metadata without the validation: `LostResultsReachTheRow` is about a checkpoint
  that is completed when nobody works.

## Runs

| Run | Constants | Distinct states | Checks |
|---|---|---|---|
| `store_fencing` | 2 jobs of one task, 2 runners with clocks one unit apart, 2 claims each, 4 instants | 449 000 | `TypeOK`, `TablesAgree`, `ExclusiveClaims`, `LeaseIsRecent`, `EndedAttemptsAreFrozen`, `LeasesOnlyMoveForward`, `ImplementsClaims` |
| `runner_faults` | 1 job, 1 host, 2 claims, 2 faults, 4 instants | 69 096 | `RunnerTypeOK`, `LiveChildrenAreAccountedFor`, `VerdictsAreTheChilds`, `EndedChildrenAreResolved`, `FencedChildrenEnd`, `OrphanedClaimsEnd` |
| `scheduler_rounds` | 2 dispatches, 2 reviews, 2 revisions, no fault, attempts not counted | 672 283 | `ReadyRevisionsWereApproved`, `ReadyFollowsGreenCI`, `CountersNeverDecrease` |
| `scheduler_progress` | 1 dispatch, 1 review, 1 code repair, 1 counted attempt, 2 faults | 165 806 | `TaskTypeOK`, `WaitingWasValidated`, `CountersNeverDecrease`, `ReservationsAreReleased`, `CIResultsAreActedOn` |
| `workflow_progress` | 1 step, 2 attempts of it and of the plan, 2 contents, 1 fault, both modes | 660 850 | `WorkflowTypeOK`, `EffectsAreAnnounced`, `PushesAreApproved`, `ForeignCommitsSurvive`, `RunsEnd` |
| `ledger` | 2 jobs, 2 faults | 9 625 | `LedgerTypeOK`, `OutcomesProveTheEnd`, `CommandsRunOnce`, `FinalStatusIsKept`, `CancelledJobsEnd`, `SubmittedJobsStart` |
| `local_scheduler` | both transports, 2 dispatches, 1 fault, 1 retry of CI | 250 816 | `LocalTypeOK`, `WorkspaceIsExclusive`, `TasksAreContracts`, `RequestsAreNotLost`, `ReadyIssuesAreTaken`, `StoppedWorkersAreReconciled`, `LostResultsReachTheRow` |
| `runner_concurrent_work` | 2 jobs of one task, 2 hosts | violation | `NoConcurrentWork` |
| `scheduler_stranded` | 1 fault | violation | `StrandedTasksAreReconciled` |
| `scheduler_ready` | as `scheduler_rounds`, and nobody else pushes | violation | `ReadyRevisionsPassedCI` |
| `workflow_repair`, `workflow_cleanup` | as `workflow_progress` | violation | `RepairsReachTheCoder`; `PublishedWasValidated` |

Why these bounds are enough to be interesting:

- Two claims of a job are what a late call needs to meet a second attempt; two
  jobs of one task are what `ExclusiveClaims` needs; the clock has room for a
  claim, an expiry, a requeue, a second claim and its renewal.
- In `runner_faults` two faults can fall between any two steps of either
  attempt: a daemon dies while the claim of a dead supervisor waits to be swept,
  or a supervisor dies of the call after one that failed. The attempt then
  expires, is requeued and is claimed again; `Horizon` leaves room for it to end.
  The theorems of `PullRunnerProofs` are for any number of hosts.
- In `scheduler_rounds` the second revision is the repair of the first, and a
  review can be reserved, overtaken by a push, refused, and reserved again.
  With one revision only, an approval of an old revision could not be told from
  one of the new.
- The attempts a workflow counts are in `scheduler_progress` (`MaxCount`), where an older
  copy can meet them after a fault; those of several dispatches are in the theorem
  `CountersStay`. `scheduler_rounds` has the count of failed checks, over two revisions.
- `scheduler_progress` has two faults: one can fall between a worker's read and
  its write, and another keep the pass from repairing what the first did.
- In `workflow_progress` a fault can fall between any effect and its checkpoint, and
  the resumed workflow can be blocked and resumed again any number of times. The
  second contents are what a coder can change and a reviewer can have missed. A
  second step would repeat the first with other baselines; without `RunsEnd` the
  instance with two steps, and the one with two faults, are within reach of TLC too,
  but with it neither is.

- In `ledger` the two jobs share nothing but the host, which restarts; two faults can
  be a submit that dies and the worker it had started.
- `local_scheduler` has one fault, at any point of any process, or one edit, label or
  submission by somebody else. The second dispatch is the recovery of the first, or
  its repair. What no liveness property needs is proved for any number of faults
  and dispatches (`LocalSchedulerProofs`).

Each property has a mutant: a definition marked "Mutant" is the action beside
it with one plausible bug, and the run fails with it. Symmetry is used in
`store_fencing` alone, over interchangeable jobs; no run of liveness has any.
The runs of `Workflow` and of `RunnerLedger` disable the deadlock check: a workflow
that is completed, or that cannot be resumed, stops for good, and so does a ledger all
of whose jobs have ended.

`EffectsAreAnnounced` and the second half of `PushesAreApproved` have the
condition that no cleanup failed: after one the workflow can go back to a stage it
passed (finding 5). The first half of `PushesAreApproved` holds without it.

Two properties have the condition that no lease has expired (`Quiet`), of the state they
speak of. `WaitingWasValidated`: after an expired lease the scheduler can block the task
with a metadata that lacks the validation, and the child lets it wait for CI all the same;
the READY gate then refuses it. `CountersNeverDecrease`, for the count of attempts: with
an expired lease the old child and the next one write it from different copies, and an
increment can be lost. The count of failed checks needs no condition, for the pass alone
writes it. `scheduler_rounds` has no fault, so the runs see an expired lease in
`scheduler_progress` only; for any number of faults there are the theorems.

`ReadyFollowsGreenCI` is what the READY gate keeps of `docs/operations.md:119-120`, READY
comes only after all checks pass: it asks for a green `ci_status`, which is that of the
revision the poll saw, and so for the reviewed revision or one before it. The sentence
itself is `ReadyRevisionsPassedCI`, and false (finding 3).

`EndedChildrenAreResolved` does not say that an outcome is kept. A supervisor writes the
artifact when its report raises or is refused; when the read before the report raises
(`runner_job_worker.py:183`), or the heartbeat of a child that has just ended is refused
(145-146, 163-165), the outcome is nowhere, and the attempt is swept. It also does not
need a report: `MarkExpiredJobsUncertain` is what keeps it, hence its mutant.

### Fairness

`LiveRunnerSpec`: weak fairness of every supervisor and daemon (the operating
system runs live processes; launchd restarts the daemon: `KeepAlive` in
`scripts/*.plist.example`), of the clock, and strong fairness of
`DaemonBeats`: the loop takes the beat whenever `heartbeat_seconds` have
passed, which happens again and again though many passes skip it. Nothing is
assumed of children, of faults, or of the operator.

`LiveTaskSpec`: weak fairness of the scheduler's steps (the loop sleeps and goes
on; the cluster restarts it), weak fairness of the checks' completion, and strong
fairness of `CIPasses \/ CIFails`: GitHub may fail to answer any number of
times, but not every time. Nothing is assumed of workers, supervisors,
runners or humans.

`LiveWorkflowSpec`: weak fairness of `NodeStep`, that is, a process that runs
executes its next node, and its calls return. Nothing is assumed of crashes, or of
anybody who would resume a workflow: `RunsEnd` says that a run ends, not that its
workflow is completed.

`LiveLedgerSpec`: weak fairness of submit's second write, of each worker, and of
`Get`, which whoever submitted a job asks for. Nothing is assumed of the
command: only a signal is sure to end it.

`LiveLocalSpec`: weak fairness of the pass (the loop goes on, the cluster restarts it)
and of the processes it has started, as long as some of them can go on, which is
enough as no worker runs twice; strong fairness of the list of issues and of
`Claims` (the poll interval ends, and dispatch is not paused for ever) and of the end of
a workflow (`RunsEnd`). Nothing is assumed of people.

### What the violation runs show

Each checks one sentence of the documentation or of a test, and TLC shows a
short behaviour of the code that contradicts it:

1. `runner_concurrent_work`. `docs/architecture.md:96-99` says claims prevent
   concurrent jobs for the same task. When a lease expires under a child that
   goes on, the job is `uncertain`, no longer `running`, and the next job of
   the task can be claimed while the child works. The scheduler does enqueue
   it: an uncertain job blocks the task, and a blocked task with failed CI or a
   review that requires changes is a candidate for repair.
2. `scheduler_stranded`. `docs/architecture.md:52-53` says a stopped worker is
   reconciled on the next pass. A child that outlives its lease can set the
   task RUNNING after the reservation was removed; when it dies, no branch
   of the pass looks at a RUNNING pull-transport task without a reservation.
3. `scheduler_ready`. `docs/operations.md:119-120` says a task is READY only after all
   required checks pass, and `docs/architecture.md:31-34` asks for green checks and a
   fresh review. `run_queue` takes `post_ci_review` out of the metadata when it
   dispatches a repair (861), which reaches the row over SSH; `_queue_pull_runner_job`
   gets the task instead, and keeps the flag (627-638), as it keeps the green
   `ci_status`. `_poll_ci` then has the repair's own revision reviewed while the repair
   runs, and it becomes READY though its checks never ran. Nobody else pushes in this
   run, and nothing fails but that the repair ends before it records its push. (That
   the repair works at all needs a workflow that finds no checkpoint, see 4.)
4. `workflow_repair`. `docs/architecture.md:381-385` says failures of CI are fed to the
   coder. `run_cli --ci-repair` updates the checkpoint as `prepare_final_review`,
   whose route then returns `final_integration_coder`; `build_graph` gives that
   branch no such destination, LangGraph raises `KeyError`, and the job dies. The
   test of it (`tests/test_cli.py:178`) has a double for the graph.
5. `workflow_cleanup`. `docs/architecture.md:241-242` says validation must succeed
   before the review can approve. `cleanup_resume_stage`, set by a cleanup that
   failed, is not reset when it is restored, and replaces the stage of the next
   block too. A workflow blocked in the final reviewer, whose cleanup failed, and then
   blocked again by a final coder that asks for input, resumes at the final
   reviewer with the coder's changes, which nobody validated, and pushes them.

The passing runs of `TaskScheduler` and `Workflow` have all these behaviours in them:
none is assumed away, and where a property needs it, its condition is in the
property. Two more weaknesses of the code are hazards without a property:
the repair budget in `metadata` can be overwritten by an older copy, and a repair
job that dies is dispatched again without `CI_RETRY_ATTEMPTS` (`README.md:85-86`)
being advanced.

## Proofs

All theorems are for every set of jobs and runners, every assignment of tasks,
branches and capabilities, every clock offset and every bound, from the
assumptions of the modules only: `RunnerAssumption`, `JobAssumption`,
`BoundAssumption` (constants have their types; leases and bounds are positive),
`FaultAssumption`, `FaultsAssumption`, `LocalAssumption`, `LimitAssumption`,
`SchedulerBoundAssumption`, `WorkflowAssumption` and `WorkflowBoundAssumption`.

`JobStoreProofs`:

- `TypeCorrect`: `TypeOK` is inductive.
- `TablesAlwaysAgree`: `TablesAgree` is inductive relative to `TypeOK`. It is
  the invariant the rest hangs on: the code fences by the jobs row and writes
  the attempts row, and only because the two agree does the fence protect the
  attempt. Its parts are `CurrentIsNewest` (the current attempt is the last one
  counted) and `AttemptAgrees` (earlier attempts are uncertain, the newest has
  the job's status, runner and lease, later ones do not exist).
- `ClaimsAreExclusive`: by `OnlyClaimsStartJobs`, the one step that makes a
  job run has looked at all running ones.
- `EndedAttemptsStayFrozen`: an action property, from the two invariants.
- `LeasesAreRecent` and `LeasesMoveForward`: a lease ends at most a full lease
  after the present of the host that holds it, so a renewal by that host moves
  it forward, whatever the clocks of others say. `LeaseStep` says how one step
  can change a lease.
- `CapacityIsRespected`, which no run repeats (jobs that fill a runner conflict in
  `store_fencing`): `SlotsInv` (the jobs that use a slot of a runner are finitely
  many, and no registration states more than the host has) and `CapacityRespected` are
  inductive together. A claim is the one step that fills a slot, and fills one; every
  other step leaves the set as it is or takes a job out of it, and a subset of a finite
  set is no larger.

`JobStoreRefinement`: `StoreImplementsClaims`, that `Spec` implies
`Claims!ClaimsSpec` with `OpenJobs` and `Verdicts` for the abstract variables:
the initial tables map to the initial queue, enqueue to `Post`, claim to
`Issue`, completion to `Settle`, a sweep to `Revoke` of the set it found, the
requeue to `Reopen`, and everything else to stuttering.

`PullRunnerProofs`: `RunnerInv` is inductive: `RunnerTypeOK`, `TablesAgree`,
`AttemptInv` (what each phase of a supervisor implies for the child, the
attempt's row and the job's row) and `HandleInv` (a handle is of an attempt
that was claimed by this host and has no process yet). The last is needed because a
spawned supervisor must find a row nobody settled. From it follow
`RunnersFollowTheStore` (so that all theorems of the store hold with the
processes around it), `RunnerTypeCorrect`, `LiveChildrenStayAccountedFor`
and `VerdictsComeFromTheChild`.

`RunnerLedgerProofs`: `LedgerInv` is inductive, one job at a time: `SubmitInv` (what
a submit that holds the lock has stored, and that nobody has changed it), `WorkerInv`
(a worker that lives finds the record as it left it; this is what makes its last write
safe) and `StatusInv` (what a status tells of the processes). From it follow
`LedgerTypeCorrect`, `OutcomesAreProofs`, and the action properties `AtMostOnce` and
`FinalStatusKept`.

`LocalSchedulerProofs`: `LocalInv` is inductive, for any number of dispatches and
faults: `LocalTypeOK`, `PassInv` (what the pass knows where it is: past the intake
there is a task, and the row that was read is one), `IntakeInv` (whatever is to be
inserted is a contract, and a poll about to remove the label has seen the task),
`WorkersInv` (no process without a dispatch, no dispatch without a task) and
`LockInv` (one holder of the lock, and a workflow only under an entry point that
holds it or has ended). The third is needed because a description is read, formatted
and inserted in different steps; the last because the lock is looked at by the entry
point alone. From it follow `LocalTypeCorrect`, `WorkspaceStaysExclusive`,
`TasksStayContracts` and `RequestsStay`.

`TaskSchedulerProofs`: `TaskInv` is inductive, for any limits and any number of
dispatches, reviews, revisions, claims and faults. Its heart is `Justified`: a status
READY, DONE or a green CI in a row, be it the task's or a copy the pass has read, is
backed by what happened to the queue, the reviews and the pull request (`ApprovedHeads`,
`PassedHeads`). Those never take anything back (`QueueKept`, `ReviewsKept`,
`GitHubKept`), so a copy that was justified when it was read may be written however late.
The rest is what that needs: `TaskTypeOK`; `PassInv`, what the pass knows at each of its
places; `HeadInv`, an open pull request has a revision; `QueueInv`, a job that succeeded
is never taken again and its child has ended, by which a finished review is not
rewritten. From it follow `TaskTypeCorrect`, `ReadyRevisionsApproved` and
`ReadyAfterGreenCI`. The queue in it is `JobClaims`, which
`StoreImplementsClaims` shows the tables to implement.

What has no such backing needs to know who holds which copy of the row. The two
invariants below are inductive relative to `TaskInv`:

- `WaitInv`, for `WaitingTasksWereValidated`: as long as no lease has expired and the
  task is not done, one of three things is the case. `Unpublished`: no copy of the row has
  the validation, nobody but the first job of the task works (`OnlyFirst`), and the pass
  holds what was read before (`EarlyPass`). `JustPublished`: the child has put it in the
  row while the pass is between the read and the write of a reconciliation. What the pass
  may write with its copy, without the validation, is a block, after the first job has
  ended and if the task is still `RUNNING`: the task is then blocked and `Unpublished`
  again; a task that already waits for CI is left alone. `Published`: every copy that may
  still be written has it, in the pass (`HoldsRow`) and in the children.
- `CountInv`, for `CountersStay`: as long as no lease has expired, one child at a time is
  at work, under a live claim (`OneAtWork`), so that the count it read is the row's when
  it writes (`CopiesCount`); and, whatever expires, the count of failed checks the pass
  read is the row's when it adds to it (`PassCounts`). `PassStepCounts` and
  `ChildStepCounts` say what one step can do to the counters.

`WorkflowProofs`: the type invariant is inductive by itself, over five families of
fields (`TypeInv`), for every number of steps, every limit and number of crashes; the
lemmas `...Does`, one for each node, say once what the node does to the fields that later
proofs ask for. That an attempt counter stays within its limit
is part of it, so `WorkflowTypeIsCorrect` is also what makes the loops of the graph
finite. `OthersCommitsSurvive` needs `ForeignIInv`: `PreparedInv` (what a workflow
has read once it is past its preparation) and `ForeignInv` (every revision it works with, the remote baseline
and the final commit among them, has the foreign commits of the issue's baseline in it,
and no others): a push is refused when the remote is no longer that baseline, and otherwise
keeps them.

`WorkflowPublicationProofs`: `PublicationIInv` is inductive: the above,
`FinalCommitInv` (a final commit anywhere has contents that were approved),
`ApprovedInv` and `PassedInv` (so has, and passed, what the workspace holds wherever the
checkpoint says that it is about to be committed or pushed, or can resume
there), `BlockedInv` (a blocked workflow stops at the next
node that looks), `IntentInv` (where a prepared intent is from), `HeadInv` and
`RemoteInv` (HEAD, and what was pushed, are what the checkpoint says or announces). They
speak of the next node and of the stage of a block alike (`At`), for a
resume turns the one into the other; and two of them only of checkpoints without the stage
of a failed cleanup, which is the weakness that finding 5 is about. From it follow
`PushesWereApproved` and `AnnouncedEffects`.

Model-checked only: liveness, since the prover handles neither fairness nor ENABLED.
Every invariant and every action property of a passing run is a theorem.

## Not modelled, and why

- The activity outbox: activities are sent in order and marked afterwards, so each
  is sent at least once, and 50 that cannot be delivered hold back the rest. The
  documents promise no more than an attempt, and no other state depends on it.
- In `LocalScheduler`: the merge of the pull request and the notes to people, which
  do not depend on the transport and are in `TaskScheduler`; revisions of the branch.
- Times in `RunnerLedger`, and a pid that is used again.
- In `PullRunner`, a log that cannot be written. The handler of a failed start
  (`runner_daemon.py:205-214`) also covers the line logged after `Popen` has succeeded
  (123-127): if that raises, the job is reported as failed while its supervisor lives,
  until it finds the attempt no longer current or is refused a heartbeat.
- In `TaskScheduler`, a second pull request: a workflow that pushes after the first was
  merged or closed would open one (`graph.py:2274-2284`); the row and the pass would
  then be about another pull request, of which the task has one here.
- Prompt tasks in the workflow, the paths a step may touch, and attempt limits that
  an operator raises for a resume.
- Agents, prompts, parsing of test output, repository context: no state between
  calls.
- Dashboard and Slack: reads and messages out.
- Migration of old databases, HTTP details of the GitHub client: pure I/O.
- More than 50 pending jobs (`LIMIT 50` in the claim), and several tasks
  that compete for workers.

## Plan

1. Done: all modules above, their runs and proofs.
2. Next proofs: the abstract publication of item 3, and that `Workflow` implements it.
3. Next models: an abstract specification of a publication (contents are validated,
   reviewed, pushed once) that `Workflow` implements, and a plan of several steps;
   the worktree that two jobs of a task share (`review_worker.py:82`); several tasks
   that compete for workers.
