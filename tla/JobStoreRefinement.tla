-------------------------- MODULE JobStoreRefinement --------------------------
(***************************************************************************)
(* JobStore implements JobClaims: what a scheduler or an operator may rely  *)
(* on follows from the two tables and the fences of the nine methods.       *)
(***************************************************************************)
EXTENDS JobStoreProofs

\* The verdicts that stand for the states of an attempt's row.
LEMMA Verdict ==
  /\ VerdictOf("none") = "unissued"
  /\ VerdictOf("running") = "live"
  /\ VerdictOf("uncertain") = "revoked"
  /\ VerdictOf("succeeded") = "succeeded"
  /\ VerdictOf("failed") = "failed"
  /\ \A s \in AttemptStatuses : VerdictOf(s) = "live" => s = "running"
  /\ \A s \in AttemptStatuses : VerdictOf(s) = "unissued" => s = "none"
  BY DEF VerdictOf, AttemptStatuses

\* A step that changes neither the state of a job nor that of an attempt is
\* invisible to JobClaims.
LEMMA Invisible ==
  ASSUME \A j \in Jobs : (jobs'[j].status = "pending") <=> (jobs[j].status = "pending"),
         \A j \in Jobs, a \in AttemptNumbers :
           attempts'[j][a].status = attempts[j][a].status
  PROVE  UNCHANGED Claims!claimVars
<1>1. OpenJobs' = OpenJobs
  BY DEF OpenJobs
<1>2. Verdicts' = Verdicts
  BY DEF Verdicts
<1> QED
  BY <1>1, <1>2 DEF Claims!claimVars, OpenJobs, Verdicts

\* A step that gives one attempt a new status gives one token a new verdict.
LEMMA VerdictsEdit ==
  ASSUME NEW j \in Jobs, NEW a \in AttemptNumbers, NEW status,
         \A k \in Jobs, b \in AttemptNumbers :
           attempts'[k][b].status = IF k = j /\ b = a THEN status ELSE attempts[k][b].status
  PROVE  Verdicts' = [Verdicts EXCEPT ![j][a] = VerdictOf(status)]
<1>1. ASSUME NEW k \in Jobs, NEW b \in AttemptNumbers
      PROVE  VerdictOf(attempts'[k][b].status)
               = IF k = j /\ b = a THEN VerdictOf(status) ELSE VerdictOf(attempts[k][b].status)
  OBVIOUS
<1>2. Verdicts' = [k \in Jobs |-> [b \in AttemptNumbers |->
                    IF k = j /\ b = a THEN VerdictOf(status)
                                     ELSE VerdictOf(attempts[k][b].status)]]
  BY <1>1 DEF Verdicts
<1> QED
  BY <1>2 DEF Verdicts

\* A live token belongs to a running job.
LEMMA LiveIsRunning ==
  ASSUME TypeOK, TablesAgree, NEW k \in Jobs, Claims!Live(k)
  PROVE  Running(k)
<1>1. PICK a \in AttemptNumbers : VerdictOf(attempts[k][a].status) = "live"
  BY DEF Claims!Live, Claims!Tokens, AttemptNumbers, Verdicts
<1>2. attempts[k][a].status = "running"
  BY <1>1, Verdict DEF TypeOK, AttemptRow
<1>3. CurrentIsNewest(k) /\ AttemptAgrees(k, a)
  BY DEF TablesAgree
<1>4. /\ jobs[k].status \in JobStatuses
      /\ jobs[k].attempt_count \in Nat
      /\ a \in Nat
  BY BoundAssumption DEF TypeOK, JobRow, AttemptNumbers
<1>5. a = jobs[k].attempt_count
  BY <1>2, <1>3, <1>4 DEF AttemptAgrees
<1>6. jobs[k].status # "absent"
  BY <1>3, <1>4, <1>5 DEF CurrentIsNewest, AttemptNumbers
<1> QED
  BY <1>2, <1>3, <1>4, <1>5, <1>6 DEF AttemptAgrees, Running, JobStatuses

\* A claim issues the next token.
LEMMA ClaimIssues ==
  ASSUME TypeOK, TablesAgree, NEW r \in Runners, NEW j \in Jobs, ClaimJob(r, j)
  PROVE  Claims!Issue(j, jobs[j].attempt_count + 1)
<1> DEFINE number == jobs[j].attempt_count + 1
<1>0. /\ jobs \in [Jobs -> JobRow]
      /\ attempts \in [Jobs -> [AttemptNumbers -> AttemptRow]]
  BY DEF TypeOK
<1>1. /\ number \in AttemptNumbers
      /\ jobs[j].attempt_count \in Nat
      /\ jobs[j].status = "pending"
  BY <1>0, BoundAssumption DEF ClaimJob, Claimable, JobRow, AttemptNumbers
<1>2. j \in OpenJobs
  BY <1>1 DEF OpenJobs
<1>3. ASSUME NEW k \in Jobs, Claims!Live(k)
      PROVE  <<j, k>> \notin Conflicts
  BY <1>3, LiveIsRunning DEF ClaimJob, Claimable
<1>4. ASSUME NEW u \in AttemptNumbers
      PROVE  u < number <=> Verdicts[j][u] # "unissued"
  <2>1. u \in Nat /\ AttemptAgrees(j, u) /\ attempts[j][u].status \in AttemptStatuses
    <3>1. attempts[j][u] \in AttemptRow
      BY <1>0
    <3> QED
      BY <3>1, BoundAssumption DEF TablesAgree, AttemptRow, AttemptNumbers
  <2>2. Verdicts[j][u] = "unissued" <=> attempts[j][u].status = "none"
    BY <2>1, Verdict DEF Verdicts
  <2> QED
    BY <1>1, <2>1, <2>2 DEF AttemptAgrees
<1>5. OpenJobs' = OpenJobs \ {j}
  BY <1>0, <1>1 DEF ClaimJob, OpenJobs
<1>6. Verdicts' = [Verdicts EXCEPT ![j][number] = "live"]
  <2> DEFINE row == [status |-> "running", runner_id |-> r,
                     lease_expires_at |-> HostNow(r) + Lease, worker_pid |-> "null"]
  <2>1. /\ attempts' = [attempts EXCEPT ![j][number] = row]
        /\ row.status = "running"
    BY DEF ClaimJob
  <2> HIDE DEF row
  <2>2. ASSUME NEW k \in Jobs, NEW a \in AttemptNumbers
        PROVE  attempts'[k][a].status =
                 IF k = j /\ a = number THEN "running" ELSE attempts[k][a].status
    BY <1>0, <1>1, <2>1
  <2> HIDE DEF number
  <2>3. Verdicts' = [Verdicts EXCEPT ![j][number] = VerdictOf("running")]
    BY <1>1, <2>2, VerdictsEdit
  <2> QED
    BY <2>3, Verdict
<1> QED
  BY <1>2, <1>3, <1>4, <1>5, <1>6
  DEF Claims!Issue, Claims!Tokens, OpenJobs, Verdicts, AttemptNumbers

\* A sweep revokes the tokens of the jobs it visits.
LEMMA SweepRevokes ==
  ASSUME TypeOK, TablesAgree, NEW r \in Runners, NEW S \in SUBSET Jobs,
         MarkExpiredJobsUncertain(r, S)
  PROVE  Claims!Revoke(S)
<1>0. /\ jobs \in [Jobs -> JobRow]
      /\ attempts \in [Jobs -> [AttemptNumbers -> AttemptRow]]
  BY DEF TypeOK
<1>1. ASSUME NEW j \in S
      PROVE  /\ jobs[j].status = "running"
             /\ jobs[j].current_attempt_id \in AttemptNumbers
             /\ attempts[j][jobs[j].current_attempt_id].status = "running"
  <2>1. jobs[j].status = "running" /\ jobs[j] \in JobRow
    BY <1>0 DEF MarkExpiredJobsUncertain, Expired, Running
  <2>2. CurrentIsNewest(j)
    BY DEF TablesAgree
  <2>3. jobs[j].current_attempt_id \in AttemptNumbers
    BY <2>1, <2>2, BoundAssumption DEF CurrentIsNewest, JobRow, AttemptNumbers
  <2>4. AttemptAgrees(j, jobs[j].current_attempt_id)
    BY <2>3 DEF TablesAgree
  <2> QED
    BY <2>1, <2>2, <2>3, <2>4 DEF CurrentIsNewest, AttemptAgrees
<1>2. ASSUME NEW j \in S
      PROVE  Claims!Live(j)
  BY <1>1, Verdict DEF Claims!Live, Claims!Tokens, Verdicts, AttemptNumbers
<1>3. ASSUME NEW j \in Jobs, NEW a \in AttemptNumbers
      PROVE  attempts'[j][a].status =
               IF j \in S /\ attempts[j][a].status = "running"
               THEN "uncertain" ELSE attempts[j][a].status
  <2>1. attempts'[j][a] =
          IF j \in S /\ a = jobs[j].current_attempt_id /\ attempts[j][a].status = "running"
          THEN [attempts[j][a] EXCEPT !.status = "uncertain"] ELSE attempts[j][a]
    BY DEF MarkExpiredJobsUncertain
  <2>2. j \in S /\ attempts[j][a].status = "running" => a = jobs[j].current_attempt_id
    <3>1. AttemptAgrees(j, a) /\ CurrentIsNewest(j) /\ a \in Nat
          /\ jobs[j].attempt_count \in Nat
      BY <1>0, BoundAssumption DEF TablesAgree, JobRow, AttemptNumbers
    <3> QED
      BY <1>1, <3>1 DEF AttemptAgrees, CurrentIsNewest
  <2>3. attempts[j][a] \in AttemptRow
    BY <1>0
  <2> QED
    BY <2>1, <2>2, <2>3 DEF AttemptRow
<1>4. Verdicts' = [j \in Jobs |-> [a \in AttemptNumbers |->
                     IF j \in S /\ Verdicts[j][a] = "live" THEN "revoked" ELSE Verdicts[j][a]]]
  <2>1. ASSUME NEW j \in Jobs, NEW a \in AttemptNumbers
        PROVE  attempts[j][a].status \in AttemptStatuses
    <3>1. attempts[j][a] \in AttemptRow
      BY <1>0
    <3> QED
      BY <3>1 DEF AttemptRow
  <2>2. ASSUME NEW j \in Jobs, NEW a \in AttemptNumbers
        PROVE  VerdictOf(attempts'[j][a].status) =
                 IF j \in S /\ VerdictOf(attempts[j][a].status) = "live"
                 THEN "revoked" ELSE VerdictOf(attempts[j][a].status)
    BY <1>3, <2>1, Verdict
  <2> QED
    BY <2>2 DEF Verdicts
<1>5. OpenJobs' = OpenJobs
  <2>1. ASSUME NEW j \in Jobs
        PROVE  jobs'[j].status = "pending" <=> jobs[j].status = "pending"
    <3>1. jobs[j] \in JobRow
      BY <1>0
    <3>2. jobs'[j] = IF j \in S THEN [jobs[j] EXCEPT !.status = "uncertain"] ELSE jobs[j]
      BY DEF MarkExpiredJobsUncertain
    <3> QED
      BY <1>1, <3>1, <3>2 DEF JobRow
  <2> QED
    BY <2>1 DEF OpenJobs
<1> QED
  BY <1>2, <1>4, <1>5 DEF Claims!Revoke, Claims!Tokens, AttemptNumbers

\* A completion settles the token of its caller.
LEMMA CompletionSettles ==
  ASSUME TypeOK, TablesAgree, NEW j \in Jobs, NEW r \in Runners,
         NEW a \in AttemptNumbers, NEW outcome \in Outcomes, CompleteJob(j, r, a, outcome)
  PROVE  Claims!Settle(j, a, outcome)
<1>0. /\ jobs \in [Jobs -> JobRow]
      /\ attempts \in [Jobs -> [AttemptNumbers -> AttemptRow]]
  BY DEF TypeOK
<1>1. /\ jobs[j].status = "running"
      /\ jobs[j].current_attempt_id = a
      /\ jobs[j].runner_id = r
  BY DEF CompleteJob, HoldsLease, Running
<1>2. AttemptRowMatches(j, r, a)
  BY <1>1 DEF TablesAgree, CurrentIsNewest, AttemptAgrees, AttemptRowMatches
<1>3. Verdicts[j][a] = "live"
  BY <1>2, Verdict DEF AttemptRowMatches, Verdicts
<1>4. ASSUME NEW k \in Jobs, NEW b \in AttemptNumbers
      PROVE  attempts'[k][b].status = IF k = j /\ b = a THEN outcome ELSE attempts[k][b].status
  <2>1. attempts' = [attempts EXCEPT ![j][a] = [@ EXCEPT !.status = outcome]]
    BY <1>2 DEF CompleteJob
  <2>2. attempts[k][b] \in AttemptRow
    BY <1>0
  <2>3. attempts'[k][b] = IF k = j /\ b = a THEN [attempts[k][b] EXCEPT !.status = outcome]
                                            ELSE attempts[k][b]
    BY <1>0, <2>1
  <2> QED
    BY <2>2, <2>3 DEF AttemptRow
<1>5. Verdicts' = [Verdicts EXCEPT ![j][a] = outcome]
  <2>1. VerdictOf(outcome) = outcome
    BY Verdict DEF Outcomes
  <2> QED
    BY <1>4, <2>1, VerdictsEdit
<1>6. OpenJobs' = OpenJobs
  <2>1. ASSUME NEW k \in Jobs
        PROVE  jobs'[k].status = "pending" <=> jobs[k].status = "pending"
    BY <1>0, <1>1 DEF CompleteJob, JobRow, Outcomes
  <2> QED
    BY <2>1 DEF OpenJobs
<1> QED
  BY <1>3, <1>5, <1>6 DEF Claims!Settle

\* A requeue reopens a job whose newest token was revoked.
LEMMA RequeueReopens ==
  ASSUME TypeOK, TablesAgree, NEW j \in Jobs, NEW a \in AttemptNumbers,
         SafelyRequeueUncertainJob(j, a)
  PROVE  Claims!Reopen(j, a)
<1>0. /\ jobs \in [Jobs -> JobRow]
      /\ attempts \in [Jobs -> [AttemptNumbers -> AttemptRow]]
  BY DEF TypeOK
<1>1. /\ jobs[j].status = "uncertain"
      /\ jobs[j].current_attempt_id = a
      /\ attempts' = attempts
  BY DEF SafelyRequeueUncertainJob
<1>2. /\ CurrentIsNewest(j)
      /\ \A u \in AttemptNumbers : AttemptAgrees(j, u)
  BY DEF TablesAgree
<1>3. a = jobs[j].attempt_count
  BY <1>1, <1>2 DEF CurrentIsNewest
<1>4. attempts[j][a].status = "uncertain"
  BY <1>1, <1>2, <1>3 DEF AttemptAgrees
<1>5. \A u \in AttemptNumbers : u > a => attempts[j][u].status = "none"
  BY <1>2, <1>3 DEF AttemptAgrees
<1>6. Claims!Newest(j, a) /\ Verdicts[j][a] = "revoked"
  BY <1>4, <1>5, Verdict DEF Claims!Newest, Claims!Tokens, Verdicts, AttemptNumbers
<1>7. OpenJobs' = OpenJobs \cup {j}
  <2>1. ASSUME NEW k \in Jobs
        PROVE  jobs'[k].status = "pending" <=> k = j \/ jobs[k].status = "pending"
    BY <1>0 DEF SafelyRequeueUncertainJob, JobRow
  <2> QED
    BY <2>1 DEF OpenJobs
<1>8. Verdicts' = Verdicts
  BY <1>1 DEF Verdicts
<1> QED
  BY <1>1, <1>6, <1>7, <1>8 DEF Claims!Reopen, OpenJobs

\* A new job is posted.
LEMMA EnqueuePosts ==
  ASSUME TypeOK, TablesAgree, NEW j \in Jobs, EnqueueJob(j)
  PROVE  Claims!Post(j)
<1>0. jobs \in [Jobs -> JobRow]
  BY DEF TypeOK
<1>1. jobs[j].status = "absent" /\ attempts' = attempts
  BY DEF EnqueueJob
<1>2. jobs[j].attempt_count = 0
  BY <1>1 DEF TablesAgree, CurrentIsNewest
<1>3. \A a \in AttemptNumbers : attempts[j][a].status = "none"
  BY <1>2 DEF TablesAgree, AttemptAgrees, AttemptNumbers
<1>4. Claims!Unissued(j)
  BY <1>3, Verdict DEF Claims!Unissued, Claims!Tokens, Verdicts, AttemptNumbers
<1>5. OpenJobs' = OpenJobs \cup {j}
  BY <1>0 DEF EnqueueJob, NullJob, OpenJobs
<1>6. Verdicts' = Verdicts
  BY <1>1 DEF Verdicts
<1> QED
  BY <1>1, <1>4, <1>5, <1>6 DEF Claims!Post, OpenJobs

-----------------------------------------------------------------------------
\* Every behaviour of the store is a behaviour of JobClaims: each step posts,
\* issues, settles, revokes or reopens, or is invisible.
THEOREM StoreImplementsClaims == Spec => ImplementsClaims
<1>1. Init => Claims!ClaimsInit
  <2> SUFFICES ASSUME Init PROVE Claims!ClaimsInit
    OBVIOUS
  <2>1. OpenJobs = {}
    BY DEF Init, OpenJobs, NullJob
  <2>2. Verdicts = [j \in Jobs |-> [t \in AttemptNumbers |-> "unissued"]]
    BY Verdict DEF Init, Verdicts, NullAttempt
  <2> QED
    BY <2>1, <2>2 DEF Claims!ClaimsInit, Claims!Tokens, AttemptNumbers
<1>2. TypeOK /\ TablesAgree /\ [Next]_vars => [Claims!ClaimsNext]_(Claims!claimVars)
  <2> SUFFICES ASSUME TypeOK, TablesAgree, [Next]_vars
               PROVE  Claims!ClaimsNext \/ UNCHANGED Claims!claimVars
    OBVIOUS
  <2>0. Claims!Tokens = AttemptNumbers
    BY DEF Claims!Tokens, AttemptNumbers
  <2>1. CASE UNCHANGED <<jobs, attempts>>
    BY <2>1, Invisible
  <2>2. ASSUME NEW r \in Runners, NEW j \in Jobs, ClaimJob(r, j)
        PROVE  Claims!ClaimsNext
    <3>1. jobs[j].attempt_count + 1 \in AttemptNumbers
      BY <2>2, BoundAssumption DEF ClaimJob, TypeOK, JobRow, AttemptNumbers
    <3> QED
      BY <2>0, <2>2, <3>1, ClaimIssues DEF Claims!ClaimsNext
  <2>3. ASSUME NEW r \in Runners, NEW S \in SUBSET Jobs, MarkExpiredJobsUncertain(r, S)
        PROVE  Claims!ClaimsNext
    BY <2>3, SweepRevokes DEF Claims!ClaimsNext
  <2>4. ASSUME NEW j \in Jobs, EnqueueJob(j)
        PROVE  Claims!ClaimsNext
    BY <2>4, EnqueuePosts DEF Claims!ClaimsNext
  <2>5. ASSUME NEW j \in Jobs, NEW r \in Runners, NEW a \in AttemptNumbers,
               HeartbeatJob(j, r, a) \/ RecordJobProcess(j, r, a)
        PROVE  UNCHANGED Claims!claimVars
    <3>1. ASSUME NEW k \in Jobs
          PROVE  jobs'[k].status = jobs[k].status
      <4>1. jobs \in [Jobs -> JobRow] /\ jobs[k] \in JobRow
        BY DEF TypeOK
      <4>2. \/ jobs' = jobs
            \/ jobs' = [jobs EXCEPT ![j].lease_expires_at = HostNow(r) + Lease]
        BY <2>5 DEF HeartbeatJob, RecordJobProcess
      <4> QED
        BY <4>1, <4>2 DEF JobRow
    <3>2. ASSUME NEW k \in Jobs, NEW b \in AttemptNumbers
          PROVE  attempts'[k][b].status = attempts[k][b].status
      <4>1. /\ attempts \in [Jobs -> [AttemptNumbers -> AttemptRow]]
            /\ attempts[k][b] \in AttemptRow
        BY DEF TypeOK
      <4>2. \/ attempts' = attempts
            \/ attempts' = [attempts EXCEPT ![j][a] =
                              [@ EXCEPT !.lease_expires_at = HostNow(r) + Lease]]
            \/ attempts' = [attempts EXCEPT ![j][a] = [@ EXCEPT !.worker_pid = "recorded"]]
        BY <2>5 DEF HeartbeatJob, RecordJobProcess
      <4>3. \/ attempts'[k][b] = attempts[k][b]
            \/ attempts'[k][b] = [attempts[k][b] EXCEPT !.lease_expires_at = HostNow(r) + Lease]
            \/ attempts'[k][b] = [attempts[k][b] EXCEPT !.worker_pid = "recorded"]
        BY <4>1, <4>2
      <4> QED
        BY <4>1, <4>3 DEF AttemptRow
    <3> QED
      BY <3>1, <3>2, Invisible
  <2>6. ASSUME NEW j \in Jobs, NEW r \in Runners, NEW a \in AttemptNumbers,
               NEW outcome \in Outcomes, CompleteJob(j, r, a, outcome)
        PROVE  Claims!ClaimsNext
    BY <2>0, <2>6, CompletionSettles DEF Claims!ClaimsNext, Outcomes
  <2>7. ASSUME NEW j \in Jobs, NEW a \in AttemptNumbers, SafelyRequeueUncertainJob(j, a)
        PROVE  Claims!ClaimsNext
    BY <2>0, <2>7, RequeueReopens DEF Claims!ClaimsNext
  <2>8. \/ UNCHANGED <<jobs, attempts>>
        \/ \E r \in Runners, j \in Jobs : ClaimJob(r, j)
        \/ \E r \in Runners, S \in SUBSET Jobs : MarkExpiredJobsUncertain(r, S)
        \/ \E j \in Jobs : EnqueueJob(j)
        \/ \E j \in Jobs, r \in Runners, a \in AttemptNumbers :
             AttemptStep(j, r, a)
        \/ \E j \in Jobs, a \in AttemptNumbers : SafelyRequeueUncertainJob(j, a)
    BY DEF Next, RunnerStep, Tick, RegisterRunner, HeartbeatRunner, ClaimWhileStale, vars
  <2> QED
    BY <2>1, <2>2, <2>3, <2>4, <2>5, <2>6, <2>7, <2>8 DEF AttemptStep
<1> QED
  BY <1>1, <1>2, TypeCorrect, TablesAlwaysAgree, PTL
  DEF Spec, ImplementsClaims, Claims!ClaimsSpec

=============================================================================
