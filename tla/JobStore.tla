------------------------------- MODULE JobStore -------------------------------
(***************************************************************************)
(* The job half of app/tasks.py TaskStore: the tables jobs, job_attempts    *)
(* and runners, and the nine methods that change them.  Each method runs in *)
(* one database transaction, so each is one action.  A handle (job, runner, *)
(* attempt) in an argument is arbitrary: the store defends itself against   *)
(* callers that hold an old one.                                            *)
(*                                                                          *)
(* Time is the caller's own clock, now + ClockOffset[r] on the host of      *)
(* runner r.  Row columns that only carry data (prompt, log path, result    *)
(* payload, created_at) are left out.  The scan in claim_job visits pending *)
(* rows by priority, but SKIP LOCKED lets it pass over rows another         *)
(* transaction holds, so a claim here takes any row the loop accepts.       *)
(*                                                                          *)
(* A definition marked "Mutant" is the one that follows it with one bug put *)
(* in; no specification uses it.  A property of a run is only worth having  *)
(* if it rejects one of them.                                               *)
(***************************************************************************)
EXTENDS Integers, FiniteSets

CONSTANTS
  Jobs,          \* job identities that may ever be enqueued
  Runners,       \* runner identities
  TaskOf,        \* task of a job
  BranchOf,      \* <repository, task_branch> of a job
  CapableOf,     \* runners whose capabilities cover those the job requires
  UsesCodex,     \* jobs that require the codex capability
  UsesBuild,     \* jobs that require the build capability
  MaxCodex,      \* RUNNER_MAX_CODEX_PROCESSES of a runner
  MaxBuilds,     \* RUNNER_MAX_BUILDS of a runner
  Lease,         \* lease_seconds
  StaleAfter,    \* silence after which claim_job takes a runner offline
  ClockOffset,   \* how far the clock of a runner's host is ahead
  MaxAttempts,   \* bound: claims of one job
  MaxTime        \* bound: the clock

ASSUME RunnerAssumption ==
  /\ MaxCodex \in [Runners -> Nat \ {0}]
  /\ MaxBuilds \in [Runners -> Nat \ {0}]
  /\ ClockOffset \in [Runners -> Nat]

ASSUME JobAssumption ==
  /\ DOMAIN TaskOf = Jobs
  /\ DOMAIN BranchOf = Jobs
  /\ CapableOf \in [Jobs -> SUBSET Runners]
  /\ UsesCodex \subseteq Jobs
  /\ UsesBuild \subseteq Jobs

ASSUME BoundAssumption ==
  /\ Lease \in Nat \ {0}
  /\ StaleAfter \in Nat \ {0}
  /\ MaxAttempts \in Nat \ {0}
  /\ MaxTime \in Nat

VARIABLES
  now,       \* true time
  runners,   \* the table runners
  jobs,      \* the table jobs
  attempts   \* the table job_attempts, by job and attempt_number

vars == <<now, runners, jobs, attempts>>

AttemptNumbers == 1 .. MaxAttempts
NoRunner == "no-runner"
NoAttempt == 0
NoLease == 0

RunnerStatuses == {"unregistered", "online", "offline"}
JobStatuses == {"absent", "pending", "running", "succeeded", "failed", "uncertain"}
AttemptStatuses == {"none", "running", "succeeded", "failed", "uncertain"}
Outcomes == {"succeeded", "failed"}
Pids == {"null", "recorded"}   \* of the child process, not its number

RunnerRow == [status : RunnerStatuses, max_codex : Nat, last_heartbeat_at : Nat]

JobRow == [status : JobStatuses, attempt_count : 0 .. MaxAttempts,
           runner_id : Runners \cup {NoRunner},
           current_attempt_id : 0 .. MaxAttempts, lease_expires_at : Nat]

AttemptRow == [status : AttemptStatuses, runner_id : Runners \cup {NoRunner},
               lease_expires_at : Nat, worker_pid : Pids]

\* The row of an attempt that was never inserted, and of a job never enqueued.
NullAttempt == [status |-> "none", runner_id |-> NoRunner,
                lease_expires_at |-> NoLease, worker_pid |-> "null"]

NullJob == [status |-> "absent", attempt_count |-> 0, runner_id |-> NoRunner,
            current_attempt_id |-> NoAttempt, lease_expires_at |-> NoLease]

TypeOK ==
  /\ now \in 0 .. MaxTime
  /\ runners \in [Runners -> RunnerRow]
  /\ jobs \in [Jobs -> JobRow]
  /\ attempts \in [Jobs -> [AttemptNumbers -> AttemptRow]]

-----------------------------------------------------------------------------
HostNow(r) == now + ClockOffset[r]

Running(j) == jobs[j].status = "running"

\* The two partial unique indexes, and the query on active jobs in claim_job.
Conflicts == {p \in Jobs \X Jobs : \/ TaskOf[p[1]] = TaskOf[p[2]]
                                   \/ BranchOf[p[1]] = BranchOf[p[2]]}

\* The jobs of class C that occupy a slot of runner r.
InUse(r, C) == {j \in C : Running(j) /\ jobs[j].runner_id = r}

\* The fence every call of a running attempt passes: WHERE job_id, runner_id,
\* current_attempt_id, status='running' and lease_expires_at >= now.
HoldsLease(j, r, a) ==
  /\ Running(j)
  /\ jobs[j].runner_id = r
  /\ jobs[j].current_attempt_id = a
  /\ jobs[j].lease_expires_at >= HostNow(r)

\* The WHERE clause of the statements on job_attempts.
AttemptRowMatches(j, r, a) ==
  /\ attempts[j][a].status = "running"
  /\ attempts[j][a].runner_id = r

Init ==
  /\ now = 0
  /\ runners = [r \in Runners |->
       [status |-> "unregistered", max_codex |-> 0, last_heartbeat_at |-> 0]]
  /\ jobs = [j \in Jobs |-> NullJob]
  /\ attempts = [j \in Jobs |-> [a \in AttemptNumbers |-> NullAttempt]]

Tick ==
  /\ now < MaxTime
  /\ now' = now + 1
  /\ UNCHANGED <<runners, jobs, attempts>>

-----------------------------------------------------------------------------
\* A daemon registers with its configured capacity, or 1 when Codex is throttled.
RegisterRunner(r, capacity) ==
  /\ runners' = [runners EXCEPT ![r] =
       [status |-> "online", max_codex |-> capacity, last_heartbeat_at |-> HostNow(r)]]
  /\ UNCHANGED <<now, jobs, attempts>>

\* heartbeat_runner updates no row of an unknown runner.
HeartbeatRunner(r, status) ==
  /\ runners[r].status # "unregistered"
  /\ runners' = [runners EXCEPT ![r].status = status,
                                ![r].last_heartbeat_at = HostNow(r)]
  /\ UNCHANGED <<now, jobs, attempts>>

\* A job that is there already, with the same context, is returned as it is.
EnqueueJob(j) ==
  /\ jobs[j].status = "absent"
  /\ jobs' = [jobs EXCEPT ![j] = [NullJob EXCEPT !.status = "pending"]]
  /\ UNCHANGED <<now, runners, attempts>>

RunnerIsStale(r) == HostNow(r) - runners[r].last_heartbeat_at > StaleAfter

\* claim_job of a runner silent for too long only takes it offline.
ClaimWhileStale(r) ==
  /\ runners[r].status = "online"
  /\ RunnerIsStale(r)
  /\ runners' = [runners EXCEPT ![r].status = "offline"]
  /\ UNCHANGED <<now, jobs, attempts>>

\* Mutant: no check for another running job of the task or branch.
ClaimableBesideOthers(r, j) ==
  /\ jobs[j].status = "pending"
  /\ r \in CapableOf[j]
  /\ j \in UsesCodex => Cardinality(InUse(r, UsesCodex)) < runners[r].max_codex
  /\ j \in UsesBuild => Cardinality(InUse(r, UsesBuild)) < MaxBuilds[r]

\* The conditions a pending row has to meet in the loop of claim_job.
Claimable(r, j) ==
  /\ jobs[j].status = "pending"
  /\ r \in CapableOf[j]
  /\ j \in UsesCodex => Cardinality(InUse(r, UsesCodex)) < runners[r].max_codex
  /\ j \in UsesBuild => Cardinality(InUse(r, UsesBuild)) < MaxBuilds[r]
  /\ \A k \in Jobs : Running(k) => <<j, k>> \notin Conflicts

ClaimJob(r, j) ==
  /\ runners[r].status = "online"
  /\ ~ RunnerIsStale(r)
  /\ Claimable(r, j)
  /\ jobs[j].attempt_count < MaxAttempts
  /\ LET number == jobs[j].attempt_count + 1
         expiry == HostNow(r) + Lease
     IN  /\ jobs' = [jobs EXCEPT ![j] =
              [status |-> "running", attempt_count |-> number, runner_id |-> r,
               current_attempt_id |-> number, lease_expires_at |-> expiry]]
         /\ attempts' = [attempts EXCEPT ![j][number] =
              [status |-> "running", runner_id |-> r,
               lease_expires_at |-> expiry, worker_pid |-> "null"]]
  /\ runners' = [runners EXCEPT ![r].last_heartbeat_at = HostNow(r)]
  /\ UNCHANGED now

\* Mutant: the lease ends at the heartbeat instead of a lease after it.
HeartbeatWithoutLease(j, r, a) ==
  /\ HoldsLease(j, r, a)
  /\ jobs' = [jobs EXCEPT ![j].lease_expires_at = HostNow(r)]
  /\ IF AttemptRowMatches(j, r, a)
     THEN attempts' = [attempts EXCEPT ![j][a] = [@ EXCEPT !.lease_expires_at = HostNow(r)]]
     ELSE UNCHANGED attempts
  /\ runners' = [runners EXCEPT ![r].last_heartbeat_at = HostNow(r)]
  /\ UNCHANGED now

\* Mutant: each heartbeat adds a lease to what is left of the last one.
HeartbeatAccumulating(j, r, a) ==
  /\ HoldsLease(j, r, a)
  /\ jobs' = [jobs EXCEPT ![j].lease_expires_at = @ + Lease]
  /\ IF AttemptRowMatches(j, r, a)
     THEN attempts' = [attempts EXCEPT ![j][a] = [@ EXCEPT !.lease_expires_at = @ + Lease]]
     ELSE UNCHANGED attempts
  /\ runners' = [runners EXCEPT ![r].last_heartbeat_at = HostNow(r)]
  /\ UNCHANGED now

HeartbeatJob(j, r, a) ==
  /\ HoldsLease(j, r, a)
  /\ jobs' = [jobs EXCEPT ![j].lease_expires_at = HostNow(r) + Lease]
  /\ IF AttemptRowMatches(j, r, a)
     THEN attempts' = [attempts EXCEPT ![j][a] =
                         [@ EXCEPT !.lease_expires_at = HostNow(r) + Lease]]
     ELSE UNCHANGED attempts
  /\ runners' = [runners EXCEPT ![r].last_heartbeat_at = HostNow(r)]
  /\ UNCHANGED now

RecordJobProcess(j, r, a) ==
  /\ HoldsLease(j, r, a)
  /\ AttemptRowMatches(j, r, a)
  /\ attempts' = [attempts EXCEPT ![j][a] = [@ EXCEPT !.worker_pid = "recorded"]]
  /\ UNCHANGED <<now, runners, jobs>>

\* Mutant: the verdict is written to the jobs table only.
CompleteJobRowOnly(j, r, a, outcome) ==
  /\ HoldsLease(j, r, a)
  /\ jobs' = [jobs EXCEPT ![j].status = outcome, ![j].lease_expires_at = NoLease]
  /\ UNCHANGED <<now, runners, attempts>>

\* Mutant: the category of the error is stored as the status of the attempt.
CompleteJobWithCategory(j, r, a, outcome) ==
  /\ HoldsLease(j, r, a)
  /\ jobs' = [jobs EXCEPT ![j].status = outcome, ![j].lease_expires_at = NoLease]
  /\ IF AttemptRowMatches(j, r, a)
     THEN attempts' = [attempts EXCEPT ![j][a] =
            [@ EXCEPT !.status = IF outcome = "failed" THEN "worker_exit" ELSE outcome]]
     ELSE UNCHANGED attempts
  /\ UNCHANGED <<now, runners>>

\* The job row and the attempt row get the same verdict.
CompleteJob(j, r, a, outcome) ==
  /\ HoldsLease(j, r, a)
  /\ jobs' = [jobs EXCEPT ![j].status = outcome, ![j].lease_expires_at = NoLease]
  /\ IF AttemptRowMatches(j, r, a)
     THEN attempts' = [attempts EXCEPT ![j][a] = [@ EXCEPT !.status = outcome]]
     ELSE UNCHANGED attempts
  /\ UNCHANGED <<now, runners>>

\* The running jobs whose lease is over, by the clock of the host of r.
Expired(r) == {j \in Jobs : Running(j) /\ jobs[j].lease_expires_at < HostNow(r)}

\* Mutant: the sweep gives up the job and leaves its attempt running.
MarkJobRowsUncertain(r, S) ==
  /\ S \subseteq Expired(r)
  /\ jobs' = [j \in Jobs |-> IF j \in S THEN [jobs[j] EXCEPT !.status = "uncertain"]
                                        ELSE jobs[j]]
  /\ UNCHANGED <<now, runners, attempts>>

\* One sweep from the host of r. SKIP LOCKED may leave some of them for later.
MarkExpiredJobsUncertain(r, S) ==
  /\ S \subseteq Expired(r)
  /\ jobs' = [j \in Jobs |-> IF j \in S THEN [jobs[j] EXCEPT !.status = "uncertain"]
                                        ELSE jobs[j]]
  /\ attempts' = [j \in Jobs |-> [a \in AttemptNumbers |->
       IF j \in S /\ a = jobs[j].current_attempt_id /\ attempts[j][a].status = "running"
       THEN [attempts[j][a] EXCEPT !.status = "uncertain"]
       ELSE attempts[j][a]]]
  /\ UNCHANGED <<now, runners>>

\* Mutant: the requeue starts counting attempts anew, and so reuses their rows.
RequeueResettingCount(j, a) ==
  /\ jobs[j].status = "uncertain"
  /\ jobs[j].current_attempt_id = a
  /\ jobs' = [jobs EXCEPT ![j] = [NullJob EXCEPT !.status = "pending"]]
  /\ UNCHANGED <<now, runners, attempts>>

\* Mutant: a job whose attempt still holds it is requeued as well.
RequeueOfRunningJob(j, a) ==
  /\ jobs[j].status \in {"running", "uncertain"}
  /\ jobs[j].current_attempt_id = a
  /\ jobs' = [jobs EXCEPT ![j].status = "pending", ![j].runner_id = NoRunner,
                          ![j].current_attempt_id = NoAttempt,
                          ![j].lease_expires_at = NoLease]
  /\ UNCHANGED <<now, runners, attempts>>

\* Called by an operator who has proof that the process of attempt a stopped.
SafelyRequeueUncertainJob(j, a) ==
  /\ jobs[j].status = "uncertain"
  /\ jobs[j].current_attempt_id = a
  /\ jobs' = [jobs EXCEPT ![j].status = "pending", ![j].runner_id = NoRunner,
                          ![j].current_attempt_id = NoAttempt,
                          ![j].lease_expires_at = NoLease]
  /\ UNCHANGED <<now, runners, attempts>>

-----------------------------------------------------------------------------
RunnerStep(r) ==
  \/ \E capacity \in 1 .. MaxCodex[r] : RegisterRunner(r, capacity)
  \/ \E status \in {"online", "offline"} : HeartbeatRunner(r, status)
  \/ ClaimWhileStale(r)
  \/ \E j \in Jobs : ClaimJob(r, j)
  \/ \E S \in SUBSET Jobs : MarkExpiredJobsUncertain(r, S)

AttemptStep(j, r, a) ==
  \/ HeartbeatJob(j, r, a)
  \/ RecordJobProcess(j, r, a)
  \/ \E outcome \in Outcomes : CompleteJob(j, r, a, outcome)

Next ==
  \/ Tick
  \/ \E r \in Runners : RunnerStep(r)
  \/ \E j \in Jobs : EnqueueJob(j)
  \/ \E j \in Jobs, r \in Runners, a \in AttemptNumbers : AttemptStep(j, r, a)
  \/ \E j \in Jobs, a \in AttemptNumbers : SafelyRequeueUncertainJob(j, a)

Spec == Init /\ [][Next]_vars

-----------------------------------------------------------------------------
(* Properties *)

\* The two tables tell one story of each job: its attempts are those claimed so
\* far, every attempt but the current one was given up as uncertain, and the
\* current one agrees with the job on its state, its runner and its lease.
\* Seven methods write the two tables in separate statements, fenced by separate
\* WHERE clauses (claim_job, heartbeat_job, complete_job, the expiry sweep, ...).
AttemptAgrees(j, a) ==
  LET row == attempts[j][a]
      job == jobs[j]
  IN  /\ row.status = "none" <=> a > job.attempt_count
      /\ a < job.attempt_count => row.status = "uncertain"
      /\ a = job.attempt_count =>
           /\ job.status \in {"running", "succeeded", "failed", "uncertain"} =>
                /\ row.status = job.status
                /\ row.runner_id = job.runner_id
           /\ job.status = "pending" => row.status = "uncertain"
           /\ job.status = "running" => row.lease_expires_at = job.lease_expires_at

CurrentIsNewest(j) ==
  LET job == jobs[j]
  IN  /\ job.status \in {"running", "succeeded", "failed", "uncertain"} =>
           /\ job.current_attempt_id = job.attempt_count
           /\ job.attempt_count > 0
           /\ job.runner_id \in Runners
      /\ job.status \in {"absent", "pending"} => job.current_attempt_id = NoAttempt
      /\ job.status = "absent" => job.attempt_count = 0

TablesAgree ==
  \A j \in Jobs : CurrentIsNewest(j) /\ \A a \in AttemptNumbers : AttemptAgrees(j, a)

\* Never are two jobs of one task, or of one repository branch, running at the
\* same time, whatever was claimed, expired and requeued before.
ExclusiveClaims ==
  \A j, k \in Jobs : Running(j) /\ Running(k) /\ <<j, k>> \in Conflicts => j = k

\* A runner never runs more Codex jobs or builds than its host was configured
\* for, though each registration may state a different capacity.
CapacityRespected ==
  \A r \in Runners : /\ Cardinality(InUse(r, UsesCodex)) <= MaxCodex[r]
                     /\ Cardinality(InUse(r, UsesBuild)) <= MaxBuilds[r]

\* Once an attempt was settled or given up, no later call by anyone changes its
\* row: a late heartbeat, completion or process record is fenced off.
EndedAttemptsAreFrozen ==
  [][\A j \in Jobs, a \in AttemptNumbers :
       attempts[j][a].status \in {"succeeded", "failed", "uncertain"} =>
         attempts'[j][a] = attempts[j][a]]_vars

\* While one attempt runs, its lease never moves back, whatever the offsets of
\* the clocks of the hosts.
LeasesOnlyMoveForward ==
  [][\A j \in Jobs :
       Running(j) /\ Running(j)'
         /\ jobs'[j].current_attempt_id = jobs[j].current_attempt_id =>
           jobs'[j].lease_expires_at >= jobs[j].lease_expires_at]_vars

\* LeasesOnlyMoveForward rests on this: no lease reaches further than a full
\* lease from the present of the host that holds it.
LeaseIsRecent ==
  \A j \in Jobs : Running(j) =>
    jobs[j].lease_expires_at <= HostNow(jobs[j].runner_id) + Lease

VerdictOf(status) ==
  CASE status = "none" -> "unissued"
    [] status = "running" -> "live"
    [] status = "uncertain" -> "revoked"
    [] OTHER -> status

OpenJobs == {j \in Jobs : jobs[j].status = "pending"}

Verdicts == [j \in Jobs |-> [a \in AttemptNumbers |-> VerdictOf(attempts[j][a].status)]]

Claims == INSTANCE JobClaims WITH open <- OpenJobs, verdict <- Verdicts

\* The tables implement the promise of JobClaims: the rows of job_attempts are
\* the tokens, and a job is open while its row says pending. A token is issued
\* to one holder at a time, in order, and ends once, by its holder's verdict or
\* by the sweep.
ImplementsClaims == Claims!ClaimsSpec

=============================================================================
