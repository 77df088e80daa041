---------------------------- MODULE JobStoreProofs ----------------------------
(***************************************************************************)
(* Proofs about JobStore, for every set of jobs and runners, every          *)
(* assignment of tasks, branches and capabilities, every offset of the      *)
(* clocks and every value of the bounds.                                    *)
(***************************************************************************)
EXTENDS JobStore, FiniteSetTheorems, TLAPS

\* Writing one column of an attempt's row leaves a row.
LEMMA AttemptRowEdits ==
  ASSUME NEW row \in AttemptRow
  PROVE  /\ \A s \in AttemptStatuses : [row EXCEPT !.status = s] \in AttemptRow
         /\ \A t \in Nat : [row EXCEPT !.lease_expires_at = t] \in AttemptRow
         /\ \A p \in Pids : [row EXCEPT !.worker_pid = p] \in AttemptRow
  BY DEF AttemptRow

\* The empty tables have their types ...
LEMMA InitialTypes == Init => TypeOK
  BY BoundAssumption DEF Init, TypeOK, RunnerRow, JobRow, AttemptRow, NullJob, NullAttempt,
     RunnerStatuses, JobStatuses, AttemptStatuses, Pids, NoRunner, NoAttempt, NoLease

\* ... and no step leaves them.
LEMMA TypeOKStep == TypeOK /\ [Next]_vars => TypeOK'
<1> SUFFICES ASSUME TypeOK, [Next]_vars PROVE TypeOK'
  OBVIOUS
<1> USE RunnerAssumption, BoundAssumption
<1>0. attempts \in [Jobs -> [AttemptNumbers -> AttemptRow]]
  BY DEF TypeOK
<1>1. CASE Tick
  BY <1>1 DEF Tick, TypeOK
<1>2. ASSUME NEW r \in Runners, NEW capacity \in 1 .. MaxCodex[r],
             RegisterRunner(r, capacity)
      PROVE  TypeOK'
  BY <1>2 DEF RegisterRunner, TypeOK, RunnerRow, RunnerStatuses, HostNow
<1>3. ASSUME NEW r \in Runners, NEW status \in {"online", "offline"},
             HeartbeatRunner(r, status)
      PROVE  TypeOK'
  <2>1. HostNow(r) \in Nat /\ status \in RunnerStatuses
    BY DEF TypeOK, HostNow, RunnerStatuses
  <2> QED
    BY <1>3, <2>1 DEF HeartbeatRunner, TypeOK, RunnerRow
<1>4. ASSUME NEW r \in Runners, ClaimWhileStale(r)
      PROVE  TypeOK'
  BY <1>4 DEF ClaimWhileStale, TypeOK, RunnerRow, RunnerStatuses
<1>5. ASSUME NEW r \in Runners, NEW j \in Jobs, ClaimJob(r, j)
      PROVE  TypeOK'
  <2>1. HostNow(r) \in Nat /\ HostNow(r) + Lease \in Nat
    BY DEF TypeOK, HostNow
  <2>2. jobs[j].attempt_count + 1 \in AttemptNumbers
    BY <1>5 DEF ClaimJob, TypeOK, JobRow, AttemptNumbers
  <2>3. runners' \in [Runners -> RunnerRow]
    BY <1>5, <2>1 DEF ClaimJob, TypeOK, RunnerRow
  <2>4. jobs' \in [Jobs -> JobRow]
    BY <1>5, <2>1, <2>2 DEF ClaimJob, TypeOK, JobRow, JobStatuses, AttemptNumbers
  <2>5. attempts' \in [Jobs -> [AttemptNumbers -> AttemptRow]]
    <3> DEFINE number == jobs[j].attempt_count + 1
               row == [status |-> "running", runner_id |-> r,
                       lease_expires_at |-> HostNow(r) + Lease, worker_pid |-> "null"]
    <3>1. row \in AttemptRow
      BY <2>1 DEF AttemptRow, AttemptStatuses, Pids
    <3>2. attempts' = [attempts EXCEPT ![j][number] = row]
      BY <1>5 DEF ClaimJob
    <3> HIDE DEF row
    <3> QED
      BY <3>1, <3>2, <2>2 DEF TypeOK
  <2> QED
    BY <1>5, <2>3, <2>4, <2>5 DEF ClaimJob, TypeOK
<1>6. ASSUME NEW r \in Runners, NEW S \in SUBSET Jobs, MarkExpiredJobsUncertain(r, S)
      PROVE  TypeOK'
  <2>1. "uncertain" \in JobStatuses /\ "uncertain" \in AttemptStatuses
    BY DEF JobStatuses, AttemptStatuses
  <2>2. jobs' \in [Jobs -> JobRow]
    BY <1>6, <2>1 DEF MarkExpiredJobsUncertain, TypeOK, JobRow
  <2>3. ASSUME NEW j \in Jobs, NEW a \in AttemptNumbers
        PROVE  [attempts[j][a] EXCEPT !.status = "uncertain"] \in AttemptRow
    BY <2>1, AttemptRowEdits DEF TypeOK
  <2>4. attempts' \in [Jobs -> [AttemptNumbers -> AttemptRow]]
    BY <1>6, <2>3 DEF MarkExpiredJobsUncertain, TypeOK
  <2> QED
    BY <1>6, <2>2, <2>4 DEF MarkExpiredJobsUncertain, TypeOK
<1>7. ASSUME NEW j \in Jobs, EnqueueJob(j)
      PROVE  TypeOK'
  BY <1>7 DEF EnqueueJob, TypeOK, NullJob, JobRow, JobStatuses, NoAttempt, NoLease
<1>8. ASSUME NEW j \in Jobs, NEW r \in Runners, NEW a \in AttemptNumbers,
             HeartbeatJob(j, r, a)
      PROVE  TypeOK'
  <2>1. HostNow(r) \in Nat /\ HostNow(r) + Lease \in Nat
    BY DEF TypeOK, HostNow
  <2>2. runners' \in [Runners -> RunnerRow]
    BY <1>8, <2>1 DEF HeartbeatJob, TypeOK, RunnerRow
  <2>3. jobs' \in [Jobs -> JobRow]
    BY <1>8, <2>1 DEF HeartbeatJob, TypeOK, JobRow
  <2>4. attempts' \in [Jobs -> [AttemptNumbers -> AttemptRow]]
    <3> DEFINE row == [attempts[j][a] EXCEPT !.lease_expires_at = HostNow(r) + Lease]
    <3>1. row \in AttemptRow
      BY <2>1, AttemptRowEdits DEF TypeOK
    <3>2. \/ attempts' = [attempts EXCEPT ![j][a] = row]
          \/ attempts' = attempts
      BY <1>8 DEF HeartbeatJob
    <3> HIDE DEF row
    <3> QED
      BY <3>1, <3>2, <1>0
  <2> QED
    BY <1>8, <2>2, <2>3, <2>4 DEF HeartbeatJob, TypeOK
<1>9. ASSUME NEW j \in Jobs, NEW r \in Runners, NEW a \in AttemptNumbers,
             RecordJobProcess(j, r, a)
      PROVE  TypeOK'
  <2> DEFINE row == [attempts[j][a] EXCEPT !.worker_pid = "recorded"]
  <2>1. row \in AttemptRow
    BY AttemptRowEdits DEF TypeOK, Pids
  <2>2. attempts' = [attempts EXCEPT ![j][a] = row]
    BY <1>9 DEF RecordJobProcess
  <2> HIDE DEF row
  <2>3. attempts' \in [Jobs -> [AttemptNumbers -> AttemptRow]]
    BY <2>1, <2>2, <1>0
  <2> QED
    BY <1>9, <2>3 DEF RecordJobProcess, TypeOK
<1>10. ASSUME NEW j \in Jobs, NEW r \in Runners, NEW a \in AttemptNumbers,
              NEW outcome \in Outcomes, CompleteJob(j, r, a, outcome)
       PROVE  TypeOK'
  <2>1. outcome \in JobStatuses /\ outcome \in AttemptStatuses /\ NoLease \in Nat
    BY DEF JobStatuses, AttemptStatuses, Outcomes, NoLease
  <2>2. jobs' \in [Jobs -> JobRow]
    BY <1>10, <2>1 DEF CompleteJob, TypeOK, JobRow
  <2>3. attempts' \in [Jobs -> [AttemptNumbers -> AttemptRow]]
    <3> DEFINE row == [attempts[j][a] EXCEPT !.status = outcome]
    <3>1. row \in AttemptRow
      BY <2>1, AttemptRowEdits DEF TypeOK
    <3>2. \/ attempts' = [attempts EXCEPT ![j][a] = row]
          \/ attempts' = attempts
      BY <1>10 DEF CompleteJob
    <3> HIDE DEF row
    <3> QED
      BY <3>1, <3>2, <1>0
  <2> QED
    BY <1>10, <2>2, <2>3 DEF CompleteJob, TypeOK
<1>11. ASSUME NEW j \in Jobs, NEW a \in AttemptNumbers, SafelyRequeueUncertainJob(j, a)
       PROVE  TypeOK'
  <2>1. "pending" \in JobStatuses /\ NoAttempt \in 0 .. MaxAttempts /\ NoLease \in Nat
    BY DEF JobStatuses, NoAttempt, NoLease
  <2>2. jobs[j] \in JobRow
    BY DEF TypeOK
  <2>3. [jobs[j] EXCEPT !.status = "pending", !.runner_id = NoRunner,
           !.current_attempt_id = NoAttempt, !.lease_expires_at = NoLease] \in JobRow
    BY <2>1, <2>2 DEF JobRow
  <2> QED
    BY <1>11, <2>3 DEF SafelyRequeueUncertainJob, TypeOK
<1>12. CASE UNCHANGED vars
  BY <1>12 DEF vars, TypeOK
<1> QED
  BY <1>1, <1>2, <1>3, <1>4, <1>5, <1>6, <1>7, <1>8, <1>9, <1>10, <1>11, <1>12
  DEF Next, RunnerStep, AttemptStep

\* Type correctness: every method leaves the three tables and the clock within
\* their types.
THEOREM TypeCorrect == Spec => []TypeOK
  BY InitialTypes, TypeOKStep, PTL DEF Spec

-----------------------------------------------------------------------------
\* The agreement of the two tables about one job.
JobAgrees(j) == CurrentIsNewest(j) /\ \A a \in AttemptNumbers : AttemptAgrees(j, a)

\* A step that leaves the rows of a job alone preserves their agreement.
LEMMA UntouchedJobAgrees ==
  ASSUME NEW k \in Jobs, JobAgrees(k), jobs'[k] = jobs[k], attempts'[k] = attempts[k]
  PROVE  JobAgrees(k)'
  BY DEF JobAgrees, CurrentIsNewest, AttemptAgrees

\* The tables of jobs and attempts agree, in every reachable state: the lease
\* holder of a job is its newest attempt, and every earlier attempt was given up
\* as uncertain.
LEMMA TablesAgreeStep == TypeOK /\ TablesAgree /\ [Next]_vars => TablesAgree'
<1> SUFFICES ASSUME TypeOK, TablesAgree, [Next]_vars, NEW k \in Jobs
             PROVE  JobAgrees(k)'
  BY DEF TablesAgree, JobAgrees
<1> USE BoundAssumption
<1>0. /\ JobAgrees(k)
      /\ jobs[k] \in JobRow
      /\ jobs \in [Jobs -> JobRow]
      /\ attempts \in [Jobs -> [AttemptNumbers -> AttemptRow]]
  BY DEF TablesAgree, JobAgrees, TypeOK
<1>1. CASE UNCHANGED <<jobs, attempts>>
  BY <1>0, <1>1, UntouchedJobAgrees
<1>2. ASSUME NEW r \in Runners, NEW j \in Jobs, ClaimJob(r, j)
      PROVE  JobAgrees(k)'
  <2>1. CASE k # j
    BY <1>0, <1>2, <2>1, UntouchedJobAgrees DEF ClaimJob
  <2>2. CASE k = j
    <3> DEFINE number == jobs[k].attempt_count + 1
    <3>1. /\ number \in AttemptNumbers
          /\ jobs[k].status = "pending"
          /\ jobs[k].attempt_count \in Nat
      BY <1>0, <1>2, <2>2 DEF ClaimJob, Claimable, JobRow, AttemptNumbers
    <3>2. jobs'[k] = [status |-> "running", attempt_count |-> number, runner_id |-> r,
                      current_attempt_id |-> number,
                      lease_expires_at |-> HostNow(r) + Lease]
      BY <1>0, <1>2, <2>2 DEF ClaimJob
    <3>3. attempts'[k] = [attempts[k] EXCEPT ![number] =
                [status |-> "running", runner_id |-> r,
                 lease_expires_at |-> HostNow(r) + Lease, worker_pid |-> "null"]]
      BY <1>0, <1>2, <2>2 DEF ClaimJob
    <3>4. CurrentIsNewest(k)'
      BY <3>1, <3>2 DEF CurrentIsNewest
    <3>5. ASSUME NEW a \in AttemptNumbers
          PROVE  AttemptAgrees(k, a)'
      <4>1. a \in Nat
        BY DEF AttemptNumbers
      <4>2. CASE a = number
        BY <1>0, <3>1, <3>2, <3>3, <4>2 DEF AttemptAgrees
      <4>3. CASE a # number
        <5>1. attempts'[k][a] = attempts[k][a]
          BY <1>0, <3>1, <3>3, <4>3
        <5>2. AttemptAgrees(k, a)
          BY <1>0 DEF JobAgrees
        <5> QED
          BY <3>1, <3>2, <4>1, <4>3, <5>1, <5>2 DEF AttemptAgrees
      <4> QED
        BY <4>2, <4>3
    <3> QED
      BY <3>4, <3>5 DEF JobAgrees
  <2> QED
    BY <2>1, <2>2
<1>3. ASSUME NEW r \in Runners, NEW S \in SUBSET Jobs, MarkExpiredJobsUncertain(r, S)
      PROVE  JobAgrees(k)'
  <2>1. CASE k \notin S
    <3>1. jobs'[k] = jobs[k]
      BY <1>3, <2>1 DEF MarkExpiredJobsUncertain
    <3>2. attempts'[k] = attempts[k]
      BY <1>0, <1>3, <2>1 DEF MarkExpiredJobsUncertain
    <3> QED
      BY <1>0, <3>1, <3>2, UntouchedJobAgrees
  <2>2. CASE k \in S
    <3>1. jobs[k].status = "running"
      BY <1>3, <2>2 DEF MarkExpiredJobsUncertain, Expired, Running
    <3>2. jobs'[k] = [jobs[k] EXCEPT !.status = "uncertain"]
      BY <1>3, <2>2 DEF MarkExpiredJobsUncertain
    <3>3. CurrentIsNewest(k)'
      BY <1>0, <3>1, <3>2 DEF JobAgrees, CurrentIsNewest, JobRow
    <3>4. ASSUME NEW a \in AttemptNumbers
          PROVE  AttemptAgrees(k, a)'
      <4>1. attempts'[k][a] =
              IF a = jobs[k].current_attempt_id /\ attempts[k][a].status = "running"
              THEN [attempts[k][a] EXCEPT !.status = "uncertain"] ELSE attempts[k][a]
        BY <1>3, <2>2 DEF MarkExpiredJobsUncertain
      <4>2. AttemptAgrees(k, a) /\ CurrentIsNewest(k) /\ attempts[k][a] \in AttemptRow
        BY <1>0 DEF JobAgrees
      <4> QED
        BY <1>0, <3>1, <3>2, <4>1, <4>2
        DEF AttemptAgrees, CurrentIsNewest, JobRow, AttemptRow, AttemptNumbers
    <3> QED
      BY <3>3, <3>4 DEF JobAgrees
  <2> QED
    BY <2>1, <2>2
<1>4. ASSUME NEW j \in Jobs, EnqueueJob(j)
      PROVE  JobAgrees(k)'
  <2>1. attempts' = attempts
    BY <1>4 DEF EnqueueJob
  <2>2. CASE k # j
    BY <1>0, <1>4, <2>1, <2>2, UntouchedJobAgrees DEF EnqueueJob
  <2>3. CASE k = j
    <3>1. jobs[k].status = "absent"
      BY <1>4, <2>3 DEF EnqueueJob
    <3>2. jobs'[k] = [NullJob EXCEPT !.status = "pending"]
      BY <1>0, <1>4, <2>3 DEF EnqueueJob
    <3> QED
      BY <1>0, <2>1, <3>1, <3>2
      DEF JobAgrees, CurrentIsNewest, AttemptAgrees, NullJob, NoAttempt, AttemptNumbers
  <2> QED
    BY <2>2, <2>3
<1>5. ASSUME NEW j \in Jobs, NEW r \in Runners, NEW a \in AttemptNumbers,
             HeartbeatJob(j, r, a)
      PROVE  JobAgrees(k)'
  <2>1. CASE k # j
    BY <1>0, <1>5, <2>1, UntouchedJobAgrees DEF HeartbeatJob
  <2>2. CASE k = j
    <3>1. /\ jobs[k].status = "running"
          /\ jobs[k].current_attempt_id = a
          /\ jobs[k].runner_id = r
          /\ jobs[k].attempt_count = a
      BY <1>0, <1>5, <2>2 DEF HeartbeatJob, HoldsLease, Running, JobAgrees, CurrentIsNewest
    <3>2. AttemptRowMatches(k, r, a)
      BY <1>0, <3>1 DEF JobAgrees, AttemptAgrees, AttemptRowMatches
    <3>3. jobs'[k] = [jobs[k] EXCEPT !.lease_expires_at = HostNow(r) + Lease]
      BY <1>0, <1>5, <2>2 DEF HeartbeatJob
    <3>4. attempts'[k] = [attempts[k] EXCEPT ![a] =
                            [@ EXCEPT !.lease_expires_at = HostNow(r) + Lease]]
      BY <1>0, <1>5, <2>2, <3>2 DEF HeartbeatJob
    <3>5. CurrentIsNewest(k)'
      BY <1>0, <3>1, <3>3 DEF JobAgrees, CurrentIsNewest, JobRow
    <3>6. ASSUME NEW b \in AttemptNumbers
          PROVE  AttemptAgrees(k, b)'
      <4>1. AttemptAgrees(k, b) /\ attempts[k][b] \in AttemptRow
        BY <1>0 DEF JobAgrees
      <4>2. attempts'[k][b] = IF b = a
              THEN [attempts[k][b] EXCEPT !.lease_expires_at = HostNow(r) + Lease]
              ELSE attempts[k][b]
        BY <1>0, <3>4
      <4> QED
        BY <1>0, <3>1, <3>3, <4>1, <4>2 DEF AttemptAgrees, JobRow, AttemptRow, AttemptNumbers
    <3> QED
      BY <3>5, <3>6 DEF JobAgrees
  <2> QED
    BY <2>1, <2>2
<1>6. ASSUME NEW j \in Jobs, NEW r \in Runners, NEW a \in AttemptNumbers,
             RecordJobProcess(j, r, a)
      PROVE  JobAgrees(k)'
  <2>1. jobs' = jobs
    BY <1>6 DEF RecordJobProcess
  <2>2. ASSUME NEW b \in AttemptNumbers
        PROVE  /\ attempts'[k][b].status = attempts[k][b].status
               /\ attempts'[k][b].runner_id = attempts[k][b].runner_id
               /\ attempts'[k][b].lease_expires_at = attempts[k][b].lease_expires_at
    <3>1. attempts[k][b] \in AttemptRow
      BY <1>0
    <3>2. \/ attempts'[k][b] = attempts[k][b]
          \/ attempts'[k][b] = [attempts[k][b] EXCEPT !.worker_pid = "recorded"]
      BY <1>0, <1>6 DEF RecordJobProcess
    <3> QED
      BY <3>1, <3>2 DEF AttemptRow
  <2> QED
    BY <1>0, <2>1, <2>2 DEF JobAgrees, CurrentIsNewest, AttemptAgrees
<1>7. ASSUME NEW j \in Jobs, NEW r \in Runners, NEW a \in AttemptNumbers,
             NEW outcome \in Outcomes, CompleteJob(j, r, a, outcome)
      PROVE  JobAgrees(k)'
  <2>1. CASE k # j
    BY <1>0, <1>7, <2>1, UntouchedJobAgrees DEF CompleteJob
  <2>2. CASE k = j
    <3>1. /\ jobs[k].status = "running"
          /\ jobs[k].current_attempt_id = a
          /\ jobs[k].runner_id = r
          /\ jobs[k].attempt_count = a
      BY <1>0, <1>7, <2>2 DEF CompleteJob, HoldsLease, Running, JobAgrees, CurrentIsNewest
    <3>2. AttemptRowMatches(k, r, a)
      BY <1>0, <3>1 DEF JobAgrees, AttemptAgrees, AttemptRowMatches
    <3>3. jobs'[k] = [jobs[k] EXCEPT !.status = outcome, !.lease_expires_at = NoLease]
      BY <1>0, <1>7, <2>2 DEF CompleteJob
    <3>4. attempts'[k] = [attempts[k] EXCEPT ![a] = [@ EXCEPT !.status = outcome]]
      BY <1>0, <1>7, <2>2, <3>2 DEF CompleteJob
    <3>5. CurrentIsNewest(k)'
      BY <1>0, <3>1, <3>3 DEF JobAgrees, CurrentIsNewest, JobRow, Outcomes
    <3>6. ASSUME NEW b \in AttemptNumbers
          PROVE  AttemptAgrees(k, b)'
      <4>1. AttemptAgrees(k, b) /\ attempts[k][b] \in AttemptRow
        BY <1>0 DEF JobAgrees
      <4>2. attempts'[k][b] = IF b = a THEN [attempts[k][b] EXCEPT !.status = outcome]
                                       ELSE attempts[k][b]
        BY <1>0, <3>4
      <4> QED
        BY <1>0, <3>1, <3>3, <4>1, <4>2
        DEF AttemptAgrees, JobRow, AttemptRow, AttemptNumbers, Outcomes
    <3> QED
      BY <3>5, <3>6 DEF JobAgrees
  <2> QED
    BY <2>1, <2>2
<1>8. ASSUME NEW j \in Jobs, NEW a \in AttemptNumbers, SafelyRequeueUncertainJob(j, a)
      PROVE  JobAgrees(k)'
  <2>1. attempts' = attempts
    BY <1>8 DEF SafelyRequeueUncertainJob
  <2>2. CASE k # j
    BY <1>0, <1>8, <2>1, <2>2, UntouchedJobAgrees DEF SafelyRequeueUncertainJob
  <2>3. CASE k = j
    <3>1. jobs[k].status = "uncertain"
      BY <1>8, <2>3 DEF SafelyRequeueUncertainJob
    <3>2. jobs'[k] = [jobs[k] EXCEPT !.status = "pending", !.runner_id = NoRunner,
                        !.current_attempt_id = NoAttempt, !.lease_expires_at = NoLease]
      BY <1>0, <1>8, <2>3 DEF SafelyRequeueUncertainJob
    <3> QED
      BY <1>0, <2>1, <3>1, <3>2 DEF JobAgrees, CurrentIsNewest, AttemptAgrees, JobRow
  <2> QED
    BY <2>2, <2>3
<1>9. CASE Tick
  BY <1>1, <1>9 DEF Tick
<1>10. ASSUME NEW r \in Runners,
              \/ \E capacity \in 1 .. MaxCodex[r] : RegisterRunner(r, capacity)
              \/ \E status \in {"online", "offline"} : HeartbeatRunner(r, status)
              \/ ClaimWhileStale(r)
       PROVE  JobAgrees(k)'
  BY <1>1, <1>10 DEF RegisterRunner, HeartbeatRunner, ClaimWhileStale
<1>11. CASE UNCHANGED vars
  BY <1>1, <1>11 DEF vars
<1> QED
  BY <1>2, <1>3, <1>4, <1>5, <1>6, <1>7, <1>8, <1>9, <1>10, <1>11
  DEF Next, RunnerStep, AttemptStep

\* The empty tables agree.
LEMMA InitialTables == Init => TablesAgree
  BY BoundAssumption
  DEF Init, TablesAgree, CurrentIsNewest, AttemptAgrees, NullJob, NullAttempt,
      AttemptNumbers, NoAttempt

\* Whatever is claimed, renewed, completed, expired and requeued, by any number of
\* runners with any clocks, the two tables agree on the state, the runner and the
\* lease of every job.
THEOREM TablesAlwaysAgree == Spec => []TablesAgree
  BY InitialTables, TablesAgreeStep, TypeCorrect, PTL DEF Spec

-----------------------------------------------------------------------------
\* Only a claim makes a job run, and it makes only that job run.
LEMMA OnlyClaimsStartJobs ==
  ASSUME TypeOK, [Next]_vars, NEW k \in Jobs, Running(k)', ~ Running(k)
  PROVE  \E r \in Runners : ClaimJob(r, k)
<1> USE DEF Running
<1>0. jobs \in [Jobs -> JobRow]
  BY DEF TypeOK
<1>1. ASSUME NEW r \in Runners, NEW j \in Jobs, ClaimJob(r, j)
      PROVE  \E s \in Runners : ClaimJob(s, k)
  <2>1. k = j
    BY <1>0, <1>1 DEF ClaimJob
  <2> QED
    BY <1>1, <2>1
<1>2. ASSUME NEW r \in Runners, NEW S \in SUBSET Jobs, MarkExpiredJobsUncertain(r, S)
      PROVE  FALSE
  BY <1>0, <1>2 DEF MarkExpiredJobsUncertain, JobRow
<1>3. ASSUME NEW j \in Jobs, EnqueueJob(j)
      PROVE  FALSE
  BY <1>0, <1>3 DEF EnqueueJob, NullJob
<1>4. ASSUME NEW j \in Jobs, NEW r \in Runners, NEW a \in AttemptNumbers,
             AttemptStep(j, r, a)
      PROVE  FALSE
  <2>1. CASE HeartbeatJob(j, r, a)
    BY <1>0, <2>1 DEF HeartbeatJob, JobRow
  <2>2. CASE RecordJobProcess(j, r, a)
    BY <2>2 DEF RecordJobProcess
  <2>3. ASSUME NEW outcome \in Outcomes, CompleteJob(j, r, a, outcome)
        PROVE  FALSE
    BY <1>0, <2>3 DEF CompleteJob, JobRow, Outcomes
  <2> QED
    BY <1>4, <2>1, <2>2, <2>3 DEF AttemptStep
<1>5. ASSUME NEW j \in Jobs, NEW a \in AttemptNumbers, SafelyRequeueUncertainJob(j, a)
      PROVE  FALSE
  BY <1>0, <1>5 DEF SafelyRequeueUncertainJob, JobRow
<1>6. jobs' # jobs
  OBVIOUS
<1> QED
  BY <1>1, <1>2, <1>3, <1>4, <1>5, <1>6
  DEF Next, RunnerStep, Tick, RegisterRunner, HeartbeatRunner, ClaimWhileStale, vars

\* Two jobs of one task, or of one repository branch, never run at once.
THEOREM ClaimsAreExclusive == Spec => []ExclusiveClaims
<1>1. Init => ExclusiveClaims
  BY DEF Init, ExclusiveClaims, Running, NullJob
<1>2. TypeOK /\ ExclusiveClaims /\ [Next]_vars => ExclusiveClaims'
  <2> SUFFICES ASSUME TypeOK, ExclusiveClaims, [Next]_vars,
                      NEW j \in Jobs, NEW k \in Jobs,
                      Running(j)', Running(k)', <<j, k>> \in Conflicts, j # k
               PROVE  FALSE
    BY DEF ExclusiveClaims, Conflicts
  <2>1. <<k, j>> \in Conflicts
    BY DEF Conflicts
  <2>2. ASSUME NEW x \in Jobs, NEW y \in Jobs, x # y, Running(x)', Running(y)',
               <<x, y>> \in Conflicts, ~ Running(x)
        PROVE  FALSE
    <3>1. PICK r \in Runners : ClaimJob(r, x)
      BY <2>2, OnlyClaimsStartJobs
    <3>2. jobs'[y] = jobs[y]
      BY <2>2, <3>1 DEF ClaimJob, TypeOK
    <3>3. Running(y)
      BY <2>2, <3>2 DEF Running
    <3> QED
      BY <2>2, <3>1, <3>3 DEF ClaimJob, Claimable
  <2>3. Running(j) /\ Running(k)
    BY <2>1, <2>2
  <2> QED
    BY <2>3 DEF ExclusiveClaims
<1> QED
  BY <1>1, <1>2, TypeCorrect, PTL DEF Spec

-----------------------------------------------------------------------------
\* No call on behalf of anyone changes the row of an attempt that was settled or
\* given up as uncertain.
THEOREM EndedAttemptsStayFrozen == Spec => EndedAttemptsAreFrozen
<1> DEFINE Frozen == \A j \in Jobs, a \in AttemptNumbers :
             attempts[j][a].status \in {"succeeded", "failed", "uncertain"} =>
               attempts'[j][a] = attempts[j][a]
<1>1. TypeOK /\ TablesAgree /\ [Next]_vars => Frozen
  <2> SUFFICES ASSUME TypeOK, TablesAgree, [Next]_vars,
                      NEW k \in Jobs, NEW b \in AttemptNumbers,
                      attempts[k][b].status \in {"succeeded", "failed", "uncertain"}
               PROVE  attempts'[k][b] = attempts[k][b]
    OBVIOUS
  <2>0. attempts \in [Jobs -> [AttemptNumbers -> AttemptRow]]
    BY DEF TypeOK
  <2>1. CASE UNCHANGED attempts
    BY <2>1
  <2>2. ASSUME NEW r \in Runners, NEW j \in Jobs, ClaimJob(r, j)
        PROVE  attempts'[k][b] = attempts[k][b]
    <3> DEFINE number == jobs[j].attempt_count + 1
    <3>1. PICK row : attempts' = [attempts EXCEPT ![j][number] = row]
      BY <2>2 DEF ClaimJob
    <3>2. number \in AttemptNumbers /\ number > jobs[j].attempt_count
      BY <2>2, BoundAssumption DEF ClaimJob, TypeOK, JobRow, AttemptNumbers
    <3>3. attempts[j][number].status = "none"
      BY <3>2 DEF TablesAgree, AttemptAgrees
    <3>4. k # j \/ b # number
      BY <3>3
    <3> HIDE DEF number
    <3> QED
      BY <2>0, <3>1, <3>2, <3>4
  <2>3. ASSUME NEW r \in Runners, NEW S \in SUBSET Jobs, MarkExpiredJobsUncertain(r, S)
        PROVE  attempts'[k][b] = attempts[k][b]
    BY <2>3 DEF MarkExpiredJobsUncertain
  <2>4. ASSUME NEW j \in Jobs, NEW r \in Runners, NEW a \in AttemptNumbers,
               AttemptStep(j, r, a)
        PROVE  attempts'[k][b] = attempts[k][b]
    <3>1. CASE ~ AttemptRowMatches(j, r, a)
      BY <2>4, <3>1 DEF AttemptStep, HeartbeatJob, RecordJobProcess, CompleteJob
    <3>2. CASE AttemptRowMatches(j, r, a)
      <4>1. \E row : attempts' = [attempts EXCEPT ![j][a] = row]
        BY <2>4, <3>2 DEF AttemptStep, HeartbeatJob, RecordJobProcess, CompleteJob
      <4>2. k # j \/ b # a
        BY <3>2 DEF AttemptRowMatches
      <4> QED
        BY <2>0, <4>1, <4>2
    <3> QED
      BY <3>1, <3>2
  <2> QED
    BY <2>1, <2>2, <2>3, <2>4
    DEF Next, RunnerStep, Tick, RegisterRunner, HeartbeatRunner, ClaimWhileStale,
        EnqueueJob, SafelyRequeueUncertainJob, vars
<1> QED
  BY <1>1, TypeCorrect, TablesAlwaysAgree, PTL DEF Spec, EndedAttemptsAreFrozen

-----------------------------------------------------------------------------
\* How one step can change the lease of a running job: not at all, or to a full
\* lease from the present of the host that holds it.
LEMMA LeaseStep ==
  ASSUME TypeOK, TablesAgree, [Next]_vars, NEW k \in Jobs, Running(k)'
  PROVE  \/ /\ Running(k)
            /\ jobs'[k] = jobs[k]
         \/ /\ jobs'[k].runner_id \in Runners
            /\ jobs'[k].lease_expires_at = HostNow(jobs'[k].runner_id) + Lease
            /\ now' = now
            /\ Running(k) => jobs[k].runner_id = jobs'[k].runner_id
<1>0. jobs \in [Jobs -> JobRow]
  BY DEF TypeOK
<1>1. CASE ~ Running(k)
  <2>1. PICK r \in Runners : ClaimJob(r, k)
    BY <1>1, OnlyClaimsStartJobs
  <2> QED
    BY <1>0, <1>1, <2>1 DEF ClaimJob
<1>2. CASE Running(k)
  <2>1. CASE jobs'[k] = jobs[k]
    BY <1>2, <2>1
  <2>2. ASSUME NEW r \in Runners, NEW j \in Jobs, ClaimJob(r, j)
        PROVE  jobs'[k] = jobs[k]
    BY <1>0, <1>2, <2>2 DEF ClaimJob, Claimable, Running
  <2>3. ASSUME NEW r \in Runners, NEW S \in SUBSET Jobs, MarkExpiredJobsUncertain(r, S)
        PROVE  jobs'[k] = jobs[k]
    BY <1>0, <2>3 DEF MarkExpiredJobsUncertain, Running, JobRow
  <2>4. ASSUME NEW j \in Jobs, EnqueueJob(j)
        PROVE  jobs'[k] = jobs[k]
    BY <1>0, <1>2, <2>4 DEF EnqueueJob, Running
  <2>5. ASSUME NEW j \in Jobs, NEW r \in Runners, NEW a \in AttemptNumbers,
               HeartbeatJob(j, r, a), jobs'[k] # jobs[k]
        PROVE  /\ jobs'[k].runner_id = r
               /\ jobs'[k].lease_expires_at = HostNow(r) + Lease
               /\ now' = now
               /\ jobs[k].runner_id = r
    <3>1. k = j
      BY <1>0, <2>5 DEF HeartbeatJob
    <3> QED
      BY <1>0, <2>5, <3>1 DEF HeartbeatJob, HoldsLease, JobRow
  <2>6. ASSUME NEW j \in Jobs, NEW r \in Runners, NEW a \in AttemptNumbers,
               NEW outcome \in Outcomes, CompleteJob(j, r, a, outcome)
        PROVE  jobs'[k] = jobs[k]
    BY <1>0, <2>6 DEF CompleteJob, Running, JobRow, Outcomes
  <2>7. ASSUME NEW j \in Jobs, NEW a \in AttemptNumbers, SafelyRequeueUncertainJob(j, a)
        PROVE  jobs'[k] = jobs[k]
    BY <1>0, <1>2, <2>7 DEF SafelyRequeueUncertainJob, Running
  <2> QED
    BY <1>2, <2>1, <2>2, <2>3, <2>4, <2>5, <2>6, <2>7
    DEF Next, RunnerStep, AttemptStep, Tick, RegisterRunner, HeartbeatRunner,
        ClaimWhileStale, RecordJobProcess, vars
<1> QED
  BY <1>1, <1>2

\* No lease reaches further than a full lease from the present of its host.
THEOREM LeasesAreRecent == Spec => []LeaseIsRecent
<1>1. Init => LeaseIsRecent
  BY DEF Init, LeaseIsRecent, Running, NullJob
<1>2. TypeOK /\ TablesAgree /\ LeaseIsRecent /\ [Next]_vars => LeaseIsRecent'
  <2> SUFFICES ASSUME TypeOK, TablesAgree, LeaseIsRecent, [Next]_vars,
                      NEW k \in Jobs, Running(k)'
               PROVE  jobs'[k].lease_expires_at
                        <= now' + ClockOffset[jobs'[k].runner_id] + Lease
    BY DEF LeaseIsRecent, HostNow
  <2>1. now' \in Nat /\ now \in Nat /\ now' >= now
    <3>1. now' = now \/ now' = now + 1
      BY DEF Next, RunnerStep, AttemptStep, Tick, RegisterRunner, HeartbeatRunner,
         ClaimWhileStale, ClaimJob, MarkExpiredJobsUncertain, EnqueueJob, HeartbeatJob,
         RecordJobProcess, CompleteJob, SafelyRequeueUncertainJob, vars
    <3>2. now \in Nat
      BY BoundAssumption DEF TypeOK
    <3> QED
      BY <3>1, <3>2
  <2>2. CASE Running(k) /\ jobs'[k] = jobs[k]
    <3>1. jobs[k].runner_id \in Runners /\ jobs[k].lease_expires_at \in Nat
      BY <2>2 DEF TypeOK, JobRow, TablesAgree, CurrentIsNewest, Running
    <3>2. jobs[k].lease_expires_at <= now + ClockOffset[jobs[k].runner_id] + Lease
      BY <2>2 DEF LeaseIsRecent, HostNow
    <3> QED
      BY <2>1, <2>2, <3>1, <3>2, RunnerAssumption, BoundAssumption
  <2>3. CASE ~ (Running(k) /\ jobs'[k] = jobs[k])
    <3>1. /\ jobs'[k].runner_id \in Runners
          /\ jobs'[k].lease_expires_at = now + ClockOffset[jobs'[k].runner_id] + Lease
      BY <2>3, LeaseStep DEF HostNow
    <3> QED
      BY <2>1, <3>1, RunnerAssumption, BoundAssumption
  <2> QED
    BY <2>2, <2>3
<1> QED
  BY <1>1, <1>2, TypeCorrect, TablesAlwaysAgree, PTL DEF Spec

\* The lease of a running attempt never moves back.
THEOREM LeasesMoveForward == Spec => LeasesOnlyMoveForward
<1> DEFINE Forward == \A j \in Jobs :
             Running(j) /\ Running(j)'
               /\ jobs'[j].current_attempt_id = jobs[j].current_attempt_id =>
                 jobs'[j].lease_expires_at >= jobs[j].lease_expires_at
<1>1. TypeOK /\ TablesAgree /\ LeaseIsRecent /\ [Next]_vars => Forward
  <2> SUFFICES ASSUME TypeOK, TablesAgree, LeaseIsRecent, [Next]_vars,
                      NEW k \in Jobs, Running(k), Running(k)'
               PROVE  jobs'[k].lease_expires_at >= jobs[k].lease_expires_at
    OBVIOUS
  <2>1. jobs[k].lease_expires_at \in Nat
    BY DEF TypeOK, JobRow
  <2>2. CASE jobs'[k] = jobs[k]
    BY <2>1, <2>2
  <2>3. CASE jobs'[k] # jobs[k]
    <3>1. /\ jobs'[k].lease_expires_at = HostNow(jobs'[k].runner_id) + Lease
          /\ jobs[k].runner_id = jobs'[k].runner_id
      BY <2>3, LeaseStep
    <3>2. jobs[k].lease_expires_at <= HostNow(jobs[k].runner_id) + Lease
      BY DEF LeaseIsRecent
    <3>3. /\ jobs[k].runner_id \in Runners
          /\ HostNow(jobs[k].runner_id) + Lease \in Nat
      BY RunnerAssumption, BoundAssumption
      DEF TypeOK, TablesAgree, CurrentIsNewest, Running, HostNow
    <3> QED
      BY <2>1, <3>1, <3>2, <3>3
  <2> QED
    BY <2>2, <2>3
<1> QED
  BY <1>1, TypeCorrect, TablesAlwaysAgree, LeasesAreRecent, PTL DEF Spec, LeasesOnlyMoveForward

-----------------------------------------------------------------------------
(* Capacity *)

\* Of the jobs of one class, a step adds at most the one it claims to those that occupy
\* a slot of a runner.
LEMMA SlotsStep ==
  ASSUME TypeOK, TablesAgree, [Next]_vars, NEW r \in Runners, NEW C \in SUBSET Jobs
  PROVE  \/ InUse(r, C)' \subseteq InUse(r, C)
         \/ \E j \in C : ClaimJob(r, j) /\ InUse(r, C)' \subseteq InUse(r, C) \cup {j}
<1>1. ASSUME NEW k \in InUse(r, C)', k \notin InUse(r, C)
      PROVE  k \in C /\ ClaimJob(r, k)
  <2>1. k \in Jobs /\ k \in C /\ Running(k)' /\ jobs'[k].runner_id = r
    BY <1>1 DEF InUse
  <2>2. ~ Running(k)
    BY <1>1, <2>1, LeaseStep DEF InUse
  <2>3. PICK s \in Runners : ClaimJob(s, k)
    BY <2>1, <2>2, OnlyClaimsStartJobs
  <2>4. jobs'[k].runner_id = s
    BY <2>1, <2>3 DEF ClaimJob, TypeOK
  <2> QED
    BY <2>1, <2>3, <2>4
<1>2. ASSUME NEW j \in C, ClaimJob(r, j)
      PROVE  InUse(r, C)' \subseteq InUse(r, C) \cup {j}
  BY <1>2 DEF InUse, ClaimJob, TypeOK, Running
<1>3. ASSUME NEW k \in InUse(r, C)', k \notin InUse(r, C)
      PROVE  \E j \in C : ClaimJob(r, j) /\ InUse(r, C)' \subseteq InUse(r, C) \cup {j}
  <2>1. k \in C /\ ClaimJob(r, k)
    BY <1>1, <1>3
  <2>2. InUse(r, C)' \subseteq InUse(r, C) \cup {k}
    BY <1>2, <2>1
  <2> QED
    BY <2>1, <2>2
<1> DEFINE before == InUse(r, C)
           after == InUse(r, C)'
<1>4. (\A k \in after : k \in before) \/ (\E k \in after : k \notin before)
  OBVIOUS
<1>5. (\A k \in after : k \in before) => after \subseteq before
  OBVIOUS
<1> QED
  BY <1>3, <1>4, <1>5

\* What the counts of claim_job rest on: only finitely many jobs occupy slots, no
\* registration states more than the host was configured for.
SlotsInv ==
  \A r \in Runners :
    /\ runners[r].max_codex <= MaxCodex[r]
    /\ \A C \in {UsesCodex, UsesBuild} : IsFiniteSet(InUse(r, C))

\* No step but a registration changes the capacity of a runner.
LEMMA CapacityStep ==
  ASSUME TypeOK, SlotsInv, [Next]_vars, NEW r \in Runners
  PROVE  runners'[r].max_codex <= MaxCodex[r]
<1>0. /\ runners \in [Runners -> RunnerRow] /\ runners[r] \in RunnerRow
      /\ runners[r].max_codex <= MaxCodex[r]
  BY DEF TypeOK, SlotsInv
<1>1. ASSUME NEW s \in Runners, NEW capacity \in 1 .. MaxCodex[s],
             RegisterRunner(s, capacity)
      PROVE  runners'[r].max_codex <= MaxCodex[r]
  BY <1>0, <1>1, RunnerAssumption DEF RegisterRunner
<1>2. ASSUME NEW s \in Runners,
             \/ \E status \in {"online", "offline"} : HeartbeatRunner(s, status)
             \/ ClaimWhileStale(s)
             \/ \E j \in Jobs : ClaimJob(s, j)
      PROVE  runners'[r].max_codex <= MaxCodex[r]
  BY <1>0, <1>2 DEF HeartbeatRunner, ClaimWhileStale, ClaimJob, RunnerRow
<1>3. ASSUME NEW j \in Jobs, NEW s \in Runners, NEW a \in AttemptNumbers, AttemptStep(j, s, a)
      PROVE  runners'[r].max_codex <= MaxCodex[r]
  <2>1. runners' = runners \/ runners' = [runners EXCEPT ![s].last_heartbeat_at = HostNow(s)]
    BY <1>3 DEF AttemptStep, HeartbeatJob, RecordJobProcess, CompleteJob
  <2> QED
    BY <1>0, <2>1 DEF RunnerRow
<1>4. CASE UNCHANGED runners
  BY <1>0, <1>4
<1> QED
  BY <1>1, <1>2, <1>3, <1>4
  DEF Next, RunnerStep, Tick, EnqueueJob, SafelyRequeueUncertainJob,
      MarkExpiredJobsUncertain, vars

\* The slots stay countable, and counted within any limit the claim has compared them with.
LEMMA CountStep ==
  ASSUME TypeOK, TablesAgree, [Next]_vars, NEW r \in Runners, NEW C \in SUBSET Jobs,
         IsFiniteSet(InUse(r, C)), NEW limit \in Nat,
         Cardinality(InUse(r, C)) <= limit,
         \A j \in C : ClaimJob(r, j) => Cardinality(InUse(r, C)) < limit
  PROVE  IsFiniteSet(InUse(r, C)') /\ Cardinality(InUse(r, C)') <= limit
<1> DEFINE before == InUse(r, C)
           after == InUse(r, C)'
<1>0. Cardinality(before) \in Nat
  BY FS_CardinalityType
<1>1. CASE after \subseteq before
  BY <1>0, <1>1, FS_Subset, FS_CardinalityType
<1>2. ASSUME NEW j \in C, ClaimJob(r, j), after \subseteq before \cup {j}
      PROVE  IsFiniteSet(after) /\ Cardinality(after) <= limit
  <2>1. /\ IsFiniteSet(before \cup {j})
        /\ Cardinality(before \cup {j}) \in Nat
        /\ Cardinality(before \cup {j}) <= Cardinality(before) + 1
    BY <1>0, FS_AddElement
  <2>2. /\ IsFiniteSet(after) /\ Cardinality(after) \in Nat
        /\ Cardinality(after) <= Cardinality(before \cup {j})
    BY <1>2, <2>1, FS_Subset, FS_CardinalityType
  <2>3. Cardinality(before) < limit
    BY <1>2
  <2> HIDE DEF before, after
  <2> QED
    BY <1>0, <2>1, <2>2, <2>3
<1> QED
  BY <1>1, <1>2, SlotsStep

LEMMA SlotsInvStep ==
  TypeOK /\ TablesAgree /\ SlotsInv /\ CapacityRespected /\ [Next]_vars =>
    SlotsInv' /\ CapacityRespected'
<1> SUFFICES ASSUME TypeOK, TablesAgree, SlotsInv, CapacityRespected, [Next]_vars,
                    NEW r \in Runners
             PROVE  /\ runners'[r].max_codex <= MaxCodex[r]
                    /\ IsFiniteSet(InUse(r, UsesCodex)')
                    /\ IsFiniteSet(InUse(r, UsesBuild)')
                    /\ Cardinality(InUse(r, UsesCodex)') <= MaxCodex[r]
                    /\ Cardinality(InUse(r, UsesBuild)') <= MaxBuilds[r]
  BY DEF SlotsInv, CapacityRespected
<1>1. runners'[r].max_codex <= MaxCodex[r]
  BY CapacityStep
<1>2. /\ UsesCodex \in SUBSET Jobs /\ UsesBuild \in SUBSET Jobs
      /\ IsFiniteSet(InUse(r, UsesCodex)) /\ IsFiniteSet(InUse(r, UsesBuild))
      /\ Cardinality(InUse(r, UsesCodex)) <= MaxCodex[r]
      /\ Cardinality(InUse(r, UsesBuild)) <= MaxBuilds[r]
      /\ MaxCodex[r] \in Nat /\ MaxBuilds[r] \in Nat
  BY RunnerAssumption, JobAssumption DEF SlotsInv, CapacityRespected
<1>3. ASSUME NEW j \in UsesCodex, ClaimJob(r, j)
      PROVE  Cardinality(InUse(r, UsesCodex)) < MaxCodex[r]
  <2>1. Cardinality(InUse(r, UsesCodex)) < runners[r].max_codex
    BY <1>3 DEF ClaimJob, Claimable
  <2>2. runners[r].max_codex \in Nat /\ runners[r].max_codex <= MaxCodex[r]
    BY DEF TypeOK, RunnerRow, SlotsInv
  <2>3. Cardinality(InUse(r, UsesCodex)) \in Nat
    BY <1>2, FS_CardinalityType
  <2> QED
    BY <1>2, <2>1, <2>2, <2>3
<1>4. ASSUME NEW j \in UsesBuild, ClaimJob(r, j)
      PROVE  Cardinality(InUse(r, UsesBuild)) < MaxBuilds[r]
  BY <1>4 DEF ClaimJob, Claimable
<1>5. IsFiniteSet(InUse(r, UsesCodex)') /\ Cardinality(InUse(r, UsesCodex)') <= MaxCodex[r]
  BY <1>2, <1>3, CountStep
<1>6. IsFiniteSet(InUse(r, UsesBuild)') /\ Cardinality(InUse(r, UsesBuild)') <= MaxBuilds[r]
  BY <1>2, <1>4, CountStep
<1> QED
  BY <1>1, <1>5, <1>6

LEMMA InitialSlots == Init => SlotsInv /\ CapacityRespected
<1> SUFFICES ASSUME Init PROVE SlotsInv /\ CapacityRespected
  OBVIOUS
<1>1. ASSUME NEW r \in Runners
      PROVE  /\ runners[r].max_codex <= MaxCodex[r]
             /\ InUse(r, UsesCodex) = {} /\ InUse(r, UsesBuild) = {}
  <2>1. runners[r].max_codex <= MaxCodex[r]
    BY RunnerAssumption DEF Init
  <2>2. InUse(r, UsesCodex) = {} /\ InUse(r, UsesBuild) = {}
    BY JobAssumption DEF Init, InUse, Running, NullJob
  <2> QED
    BY <2>1, <2>2
<1>2. IsFiniteSet({}) /\ Cardinality({}) = 0
  BY FS_EmptySet
<1>3. SlotsInv
  BY <1>1, <1>2 DEF SlotsInv
<1>4. ASSUME NEW r \in Runners
      PROVE  /\ Cardinality(InUse(r, UsesCodex)) <= MaxCodex[r]
             /\ Cardinality(InUse(r, UsesBuild)) <= MaxBuilds[r]
  <2>1. Cardinality(InUse(r, UsesCodex)) = 0 /\ Cardinality(InUse(r, UsesBuild)) = 0
    BY <1>1, <1>2
  <2>2. MaxCodex[r] \in Nat /\ MaxBuilds[r] \in Nat
    BY RunnerAssumption
  <2> QED
    BY <2>1, <2>2
<1>5. CapacityRespected
  BY <1>4 DEF CapacityRespected
<1> QED
  BY <1>3, <1>5

\* A runner never runs more Codex jobs or builds than its host was configured for, by
\* whatever capacities it was registered with and in whatever order jobs are claimed,
\* expire and are requeued.
THEOREM CapacityIsRespected == Spec => []CapacityRespected
  BY InitialSlots, SlotsInvStep, TypeCorrect, TablesAlwaysAgree, PTL DEF Spec

=============================================================================
