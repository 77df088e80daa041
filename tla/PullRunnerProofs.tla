--------------------------- MODULE PullRunnerProofs ---------------------------
(***************************************************************************)
(* Proofs about PullRunner, for every set of jobs and runner hosts, every   *)
(* number of faults and every value of the other constants.                 *)
(*                                                                          *)
(* The argument: daemons, supervisors, the scheduler and the operator act   *)
(* on the store only through its methods, so what JobStoreProofs shows of   *)
(* the tables holds here too.  With it, an invariant of each attempt        *)
(* (AttemptInv) and of each daemon that holds a handle (HandleInv) is       *)
(* inductive, and implies what the runs of PullRunner check.                *)
(***************************************************************************)
EXTENDS PullRunner, JobStoreProofs

\* A supervisor past its check, or a child at work.
Working(j, a) ==
  \/ proc[j][a].sup \in {"launching", "recording", "watching", "stopping", "reporting"}
  \/ Alive(j, a)

\* What the processes of an attempt have to do with its row and its job's row.
AttemptInv(j, a) ==
  /\ Working(j, a) => /\ jobs[j].current_attempt_id = a
                      /\ jobs[j].status \in {"running", "uncertain"}
  /\ attempts[j][a].status = "none" => proc[j][a].sup = "none"
  /\ proc[j][a].sup \in {"none", "checking", "launching"} => proc[j][a].child = "none"
  /\ proc[j][a].sup \in {"recording", "watching", "stopping"} =>
       proc[j][a].child \in {"alive", "ok", "bad"}
  /\ proc[j][a].sup = "reporting" => proc[j][a].child \in {"ok", "bad"}
  /\ attempts[j][a].status = "succeeded" => proc[j][a].child = "ok"
  /\ attempts[j][a].status = "failed" => proc[j][a].child \in {"bad", "none"}

\* The handle a daemon holds is of an attempt it claimed and that has no process.
Handed(r, j, a) ==
  /\ attempts[j][a].runner_id = r
  /\ attempts[j][a].status \in {"running", "uncertain"}
  /\ proc[j][a].sup = "none"

HandleInv(r) ==
  daemon[r].pc = "start" =>
    \E j \in Jobs, a \in AttemptNumbers : daemon[r].handle = <<j, a>> /\ Handed(r, j, a)

RunnerInv ==
  /\ RunnerTypeOK
  /\ TablesAgree
  /\ \A j \in Jobs, a \in AttemptNumbers : AttemptInv(j, a)
  /\ \A r \in Runners : HandleInv(r)

-----------------------------------------------------------------------------
\* The host of a lease holder is a runner.
LEMMA HolderIsRunner ==
  ASSUME TablesAgree, NEW j \in Jobs, NEW a \in AttemptNumbers, HoldsLease(j, Host(j, a), a)
  PROVE  Host(j, a) \in Runners
  BY DEF TablesAgree, CurrentIsNewest, HoldsLease, Running

\* Every step of the hosts is a step of the store, or none of its business.
LEMMA StepsAreStoreSteps == RunnerInv /\ [RunnerNext]_allVars => [Next]_vars
<1> SUFFICES ASSUME RunnerInv, [RunnerNext]_allVars PROVE [Next]_vars
  OBVIOUS
<1> USE DEF StoreUnchanged
<1>1. ASSUME NEW r \in Runners, DaemonStep(r) PROVE [Next]_vars
  <2>1. CASE DaemonStarts(r)
    <3>1. MaxCodex[r] \in 1 .. MaxCodex[r]
      BY RunnerAssumption
    <3> QED
      BY <2>1, <3>1 DEF DaemonStarts, Next, RunnerStep
  <2>2. CASE DaemonBeats(r)
    BY <2>2 DEF DaemonBeats, Next, RunnerStep
  <2>3. CASE DaemonSweeps(r)
    <3>1. Expired(r) \in SUBSET Jobs
      BY DEF Expired
    <3> QED
      BY <2>3, <3>1 DEF DaemonSweeps, Next, RunnerStep
  <2>4. CASE DaemonSkipsBeat(r)
    BY <2>4 DEF DaemonSkipsBeat
  <2>5. ASSUME NEW quota \in {"healthy", "throttled", "unavailable"}, DaemonPolls(r, quota)
        PROVE  [Next]_vars
    <3>1. 1 \in 1 .. MaxCodex[r] /\ MaxCodex[r] \in 1 .. MaxCodex[r]
      BY RunnerAssumption
    <3> QED
      BY <2>5, <3>1 DEF DaemonPolls, Next, RunnerStep
  <2>6. ASSUME NEW j \in Jobs, DaemonClaims(r, j) PROVE [Next]_vars
    BY <2>6 DEF DaemonClaims, Next, RunnerStep
  <2>7. CASE DaemonClaimsNothing(r)
    BY <2>7 DEF DaemonClaimsNothing, Next, RunnerStep
  <2>8. CASE DaemonStartsWorker(r)
    BY <2>8 DEF DaemonStartsWorker
  <2> QED
    BY <1>1, <2>1, <2>2, <2>3, <2>4, <2>5, <2>6, <2>7, <2>8 DEF DaemonStep
<1>2. ASSUME NEW j \in Jobs, NEW a \in AttemptNumbers, SupervisorStep(j, a)
      PROVE  [Next]_vars
  <2>0. HoldsLease(j, Host(j, a), a) => Host(j, a) \in Runners
    BY HolderIsRunner DEF RunnerInv
  <2>1. CASE SupRecords(j, a)
    BY <2>0, <2>1 DEF SupRecords, Next, AttemptStep
  <2>2. CASE SupHeartbeats(j, a)
    BY <2>0, <2>2 DEF SupHeartbeats, Next, AttemptStep
  <2>3. CASE SupReports(j, a)
    BY <2>0, <2>3 DEF SupReports, Next, AttemptStep, Outcomes
  <2> QED
    BY <1>2, <2>1, <2>2, <2>3
    DEF SupervisorStep, SupChecks, SupLaunches, SupTerminates, SupReaps
<1>3. CASE FaultStep
  <2>1. ASSUME NEW r \in Runners, DaemonCannotSpawn(r) PROVE [Next]_vars
    <3>1. PICK j \in Jobs, a \in AttemptNumbers : daemon[r].handle = <<j, a>>
      BY <2>1 DEF RunnerInv, HandleInv, DaemonCannotSpawn
    <3>2. UNCHANGED vars \/ CompleteJob(j, r, a, "failed")
      BY <2>1, <3>1 DEF DaemonCannotSpawn
    <3> QED
      BY <3>2 DEF Next, AttemptStep, Outcomes
  <2>2. ASSUME NEW r \in Runners, DaemonStops(r) PROVE [Next]_vars
    BY <2>2 DEF DaemonStops, Next, RunnerStep
  <2> QED
    BY <1>3, <2>1, <2>2
    DEF FaultStep, DaemonPassFails, DaemonCrashes, HostReboots, SupCannotReport, SupDies
<1>4. ASSUME NEW j \in Jobs, SchedulerEnqueues(j) PROVE [Next]_vars
  BY <1>4 DEF SchedulerEnqueues, Next
<1>5. ASSUME NEW j \in Jobs, NEW a \in AttemptNumbers, OperatorRequeues(j, a)
      PROVE  [Next]_vars
  BY <1>5 DEF OperatorRequeues, Next
<1>6. CASE TimePasses
  BY <1>6 DEF TimePasses, Next
<1>7. ASSUME NEW j \in Jobs, NEW a \in AttemptNumbers, NEW result \in {"ok", "bad"},
             ChildExits(j, a, result)
      PROVE  [Next]_vars
  BY <1>7 DEF ChildExits
<1> QED
  BY <1>1, <1>2, <1>3, <1>4, <1>5, <1>6, <1>7 DEF RunnerNext, allVars

-----------------------------------------------------------------------------
\* Writing a column of an attempt's processes leaves a row.
LEMMA ProcRowEdits ==
  ASSUME NEW row \in ProcRow
  PROVE  /\ \A x \in SupervisorPhases : [row EXCEPT !.sup = x] \in ProcRow
         /\ \A c \in ChildStates : [row EXCEPT !.child = c] \in ProcRow
         /\ \A t \in Artifacts : [row EXCEPT !.artifact = t] \in ProcRow
  BY DEF ProcRow

\* A supervisor that only moves to its next phase.
LEMMA SupGoesType ==
  ASSUME RunnerTypeOK, NEW j \in Jobs, NEW a \in AttemptNumbers,
         NEW phase \in SupervisorPhases, SupGoes(j, a, phase)
  PROVE  proc' \in [Jobs -> [AttemptNumbers -> ProcRow]]
<1> DEFINE row == [proc[j][a] EXCEPT !.sup = phase]
<1>1. proc \in [Jobs -> [AttemptNumbers -> ProcRow]]
  BY DEF RunnerTypeOK
<1>2. row \in ProcRow
  BY <1>1, ProcRowEdits
<1>3. proc' = [proc EXCEPT ![j][a] = row]
  BY DEF SupGoes
<1> HIDE DEF row
<1> QED
  BY <1>1, <1>2, <1>3

\* A daemon that drops its handle and goes somewhere.
LEMMA DaemonGoesType ==
  ASSUME RunnerTypeOK, NEW r \in Runners, NEW pc \in DaemonPhases, DaemonGoes(r, pc)
  PROVE  daemon' \in [Runners -> DaemonRow]
  BY DEF RunnerTypeOK, DaemonRow, DaemonGoes

\* No step leaves the types.
LEMMA RunnerTypeStep == RunnerInv /\ [RunnerNext]_allVars => RunnerTypeOK'
<1> SUFFICES ASSUME RunnerInv, [RunnerNext]_allVars
             PROVE  /\ daemon' \in [Runners -> DaemonRow]
                    /\ proc' \in [Jobs -> [AttemptNumbers -> ProcRow]]
                    /\ faults' \in 0 .. MaxFaults
  BY StepsAreStoreSteps, TypeOKStep DEF RunnerInv, RunnerTypeOK
<1> USE FaultAssumption
<1> DEFINE Typed == /\ daemon' \in [Runners -> DaemonRow]
                    /\ proc' \in [Jobs -> [AttemptNumbers -> ProcRow]]
                    /\ faults' \in 0 .. MaxFaults
<1>1. /\ RunnerTypeOK
      /\ TypeOK
      /\ daemon \in [Runners -> DaemonRow]
      /\ proc \in [Jobs -> [AttemptNumbers -> ProcRow]]
      /\ faults \in 0 .. MaxFaults
  BY DEF RunnerInv, RunnerTypeOK
<1>2. /\ \A x \in {"down", "loop", "sweep", "poll", "claim", "start"} : x \in DaemonPhases
      /\ \A x \in {"checking", "launching", "recording", "watching", "stopping",
                    "reporting", "exited"} : x \in SupervisorPhases
      /\ \A x \in {"alive", "ok", "bad", "killed"} : x \in ChildStates
      /\ \A x \in {"store_failed", "fenced"} : x \in Artifacts
  BY DEF DaemonPhases, SupervisorPhases, ChildStates, Artifacts
<1>3. Fault => faults' \in 0 .. MaxFaults
  BY <1>1 DEF Fault
<1>4. ASSUME NEW r \in Runners, DaemonStep(r) PROVE Typed
  <2>1. ASSUME NEW j \in Jobs, DaemonClaims(r, j) PROVE Typed
    <3>1. jobs'[j].current_attempt_id \in AttemptNumbers
      <4>1. jobs[j].attempt_count \in 0 .. MaxAttempts
        BY <1>1 DEF TypeOK, JobRow
      <4>2. jobs'[j].current_attempt_id = jobs[j].attempt_count + 1
        BY <1>1, <2>1 DEF DaemonClaims, ClaimJob, TypeOK
      <4>3. jobs[j].attempt_count < MaxAttempts
        BY <2>1 DEF DaemonClaims, ClaimJob
      <4> QED
        BY <4>1, <4>2, <4>3, BoundAssumption DEF AttemptNumbers
    <3> QED
      BY <1>1, <1>2, <2>1, <3>1 DEF DaemonClaims, DaemonRow
  <2>2. CASE DaemonStartsWorker(r)
    <3>1. PICK j \in Jobs, a \in AttemptNumbers : daemon[r].handle = <<j, a>>
      BY <2>2 DEF RunnerInv, HandleInv, DaemonStartsWorker
    <3>2. SupGoes(j, a, "checking")
      BY <2>2, <3>1 DEF DaemonStartsWorker, SupGoes
    <3>3. proc' \in [Jobs -> [AttemptNumbers -> ProcRow]]
      BY <1>1, <1>2, <3>2, SupGoesType
    <3>4. daemon' \in [Runners -> DaemonRow]
      BY <1>1, <1>2, <2>2, DaemonGoesType DEF DaemonStartsWorker
    <3> QED
      BY <1>1, <2>2, <3>3, <3>4 DEF DaemonStartsWorker
  <2>3. ASSUME UNCHANGED <<proc, faults>>,
               \E pc \in {"loop", "sweep", "poll", "claim"} : DaemonGoes(r, pc)
        PROVE  Typed
    BY <1>1, <1>2, <2>3, DaemonGoesType
  <2> QED
    BY <1>4, <2>1, <2>2, <2>3
    DEF DaemonStep, DaemonStarts, DaemonBeats, DaemonSweeps, DaemonSkipsBeat, DaemonPolls,
        DaemonClaimsNothing
<1>5. ASSUME NEW j \in Jobs, NEW a \in AttemptNumbers,
             \/ SupervisorStep(j, a)
             \/ \E result \in {"ok", "bad"} : ChildExits(j, a, result)
             \/ SupCannotReport(j, a)
             \/ SupDies(j, a)
      PROVE  Typed
  <2>0. /\ UNCHANGED daemon
        /\ UNCHANGED faults \/ Fault
    BY <1>5 DEF SupervisorStep, ChildExits, SupCannotReport, SupDies, SupChecks, SupLaunches,
                SupRecords, SupHeartbeats, SupTerminates, SupReaps, SupReports
  <2>1. ASSUME NEW x \in SupervisorPhases, SupGoes(j, a, x) PROVE Typed
    BY <1>1, <1>3, <2>0, <2>1, SupGoesType
  <2>2. ASSUME NEW row \in ProcRow, proc' = [proc EXCEPT ![j][a] = row] PROVE Typed
    BY <1>1, <1>3, <2>0, <2>2
  <2>3. CASE UNCHANGED proc
    BY <1>1, <1>3, <2>0, <2>3
  <2>4. CASE SupLaunches(j, a)
    <3> DEFINE row == [[proc[j][a] EXCEPT !.sup = "recording"] EXCEPT !.child = "alive"]
    <3>1. row \in ProcRow
      BY <1>1, <1>2, ProcRowEdits
    <3>2. proc' = [proc EXCEPT ![j][a] = row]
      BY <1>1, <2>4 DEF SupLaunches, ProcRow
    <3> QED
      BY <2>2, <3>1, <3>2
  <2>5. CASE SupTerminates(j, a)
    <3> DEFINE c == IF proc[j][a].child = "alive" THEN "killed" ELSE proc[j][a].child
               row == [[proc[j][a] EXCEPT !.sup = "exited"] EXCEPT !.child = c]
    <3>1. c \in ChildStates
      BY <1>1, <1>2 DEF ProcRow
    <3>2. row \in ProcRow
      BY <1>1, <1>2, <3>1, ProcRowEdits
    <3>3. proc' = [proc EXCEPT ![j][a] = row]
      BY <1>1, <2>5 DEF SupTerminates, ProcRow
    <3> QED
      BY <2>2, <3>2, <3>3
  <2>6. ASSUME NEW t \in Artifacts,
               proc' = [proc EXCEPT ![j][a].sup = "exited", ![j][a].artifact = t]
        PROVE  Typed
    <3> DEFINE row == [[proc[j][a] EXCEPT !.sup = "exited"] EXCEPT !.artifact = t]
    <3>1. row \in ProcRow
      BY <1>1, <1>2, ProcRowEdits
    <3>2. proc' = [proc EXCEPT ![j][a] = row]
      BY <1>1, <2>6 DEF ProcRow
    <3> QED
      BY <2>2, <3>1, <3>2
  <2>7. ASSUME NEW result \in {"ok", "bad"}, ChildExits(j, a, result) PROVE Typed
    <3> DEFINE row == [proc[j][a] EXCEPT !.child = result]
    <3>1. row \in ProcRow
      BY <1>1, <1>2, ProcRowEdits
    <3>2. proc' = [proc EXCEPT ![j][a] = row]
      BY <2>7 DEF ChildExits
    <3> QED
      BY <2>2, <3>1, <3>2
  <2>8. CASE SupReports(j, a) \/ SupCannotReport(j, a)
    BY <1>2, <2>1, <2>6, <2>8 DEF SupReports, SupCannotReport
  <2>9. CASE \/ SupChecks(j, a) \/ SupRecords(j, a) \/ SupHeartbeats(j, a)
             \/ SupReaps(j, a) \/ SupDies(j, a)
    BY <1>2, <2>1, <2>3, <2>9 DEF SupChecks, SupRecords, SupHeartbeats, SupReaps, SupDies
  <2> QED
    BY <1>5, <2>4, <2>5, <2>7, <2>8, <2>9 DEF SupervisorStep
<1>6. ASSUME NEW r \in Runners,
             \/ DaemonCannotSpawn(r) \/ DaemonPassFails(r)
             \/ DaemonStops(r) \/ DaemonCrashes(r)
      PROVE  Typed
  BY <1>1, <1>2, <1>3, <1>6, DaemonGoesType
  DEF DaemonCannotSpawn, DaemonPassFails, DaemonStops, DaemonCrashes
<1>7. ASSUME NEW r \in Runners, HostReboots(r) PROVE Typed
  <2>1. ASSUME NEW j \in Jobs, NEW a \in AttemptNumbers
        PROVE  [proc[j][a] EXCEPT !.sup = "exited",
                                  !.child = IF @ = "alive" THEN "killed" ELSE @] \in ProcRow
    <3> DEFINE c == IF proc[j][a].child = "alive" THEN "killed" ELSE proc[j][a].child
    <3>1. c \in ChildStates
      BY <1>1, <1>2 DEF ProcRow
    <3>2. [[proc[j][a] EXCEPT !.sup = "exited"] EXCEPT !.child = c] \in ProcRow
      BY <1>1, <1>2, <3>1, ProcRowEdits
    <3> QED
      BY <1>1, <3>2 DEF ProcRow
  <2>2. proc' \in [Jobs -> [AttemptNumbers -> ProcRow]]
    BY <1>1, <1>7, <2>1 DEF HostReboots
  <2> QED
    BY <1>1, <1>2, <1>3, <1>7, <2>2, DaemonGoesType DEF HostReboots
<1>8. ASSUME UNCHANGED runnerVars PROVE Typed
  BY <1>1, <1>8 DEF runnerVars
<1> QED
  BY <1>4, <1>5, <1>6, <1>7, <1>8
  DEF RunnerNext, FaultStep, SchedulerEnqueues, OperatorRequeues, TimePasses, allVars

-----------------------------------------------------------------------------
\* A method that neither starts, settles, revokes nor requeues an attempt of job k.
Quiet(k) ==
  /\ jobs'[k].status = jobs[k].status
  /\ jobs'[k].current_attempt_id = jobs[k].current_attempt_id
  /\ \A b \in AttemptNumbers : /\ attempts'[k][b].status = attempts[k][b].status
                               /\ attempts'[k][b].runner_id = attempts[k][b].runner_id

\* Heartbeats and process records are such methods.
LEMMA QuietMethods ==
  ASSUME TypeOK, NEW k \in Jobs,
         \/ UNCHANGED <<jobs, attempts>>
         \/ \E j \in Jobs, r \in Runners, a \in AttemptNumbers :
              HeartbeatJob(j, r, a) \/ RecordJobProcess(j, r, a)
  PROVE  Quiet(k)
<1>1. /\ jobs \in [Jobs -> JobRow]
      /\ attempts \in [Jobs -> [AttemptNumbers -> AttemptRow]]
  BY DEF TypeOK
<1>2. CASE UNCHANGED <<jobs, attempts>>
  BY <1>2 DEF Quiet
<1>3. ASSUME NEW j \in Jobs, NEW r \in Runners, NEW a \in AttemptNumbers,
             HeartbeatJob(j, r, a) \/ RecordJobProcess(j, r, a)
      PROVE  Quiet(k)
  <2>1. /\ jobs'[k].status = jobs[k].status
        /\ jobs'[k].current_attempt_id = jobs[k].current_attempt_id
    BY <1>1, <1>3 DEF HeartbeatJob, RecordJobProcess, JobRow
  <2>2. ASSUME NEW b \in AttemptNumbers
        PROVE  /\ attempts'[k][b].status = attempts[k][b].status
               /\ attempts'[k][b].runner_id = attempts[k][b].runner_id
    <3>1. attempts[k][b] \in AttemptRow
      BY <1>1
    <3>2. CASE HeartbeatJob(j, r, a)
      <4> DEFINE row == [attempts[j][a] EXCEPT !.lease_expires_at = HostNow(r) + Lease]
      <4>1. \/ attempts' = [attempts EXCEPT ![j][a] = row]
            \/ attempts' = attempts
        BY <3>2 DEF HeartbeatJob
      <4>2. /\ row.status = attempts[j][a].status
            /\ row.runner_id = attempts[j][a].runner_id
        BY <1>1 DEF AttemptRow
      <4> HIDE DEF row
      <4> QED
        BY <1>1, <4>1, <4>2
    <3>3. CASE RecordJobProcess(j, r, a)
      BY <1>1, <3>1, <3>3 DEF RecordJobProcess, AttemptRow
    <3> QED
      BY <1>3, <3>2, <3>3
  <2> QED
    BY <2>1, <2>2 DEF Quiet
<1> QED
  BY <1>2, <1>3

\* A claim makes the newest attempt of one job running, and its row new.
LEMMA ClaimEffect ==
  ASSUME TypeOK, TablesAgree, NEW k \in Jobs, NEW b \in AttemptNumbers,
         NEW r \in Runners, NEW j \in Jobs, ClaimJob(r, j)
  PROVE  LET number == jobs[j].attempt_count + 1
         IN  /\ number \in AttemptNumbers
             /\ jobs[j].status = "pending"
             /\ jobs'[j].current_attempt_id = number
             /\ attempts[j][number].status = "none"
             /\ attempts'[j][number].status = "running"
             /\ attempts'[j][number].runner_id = r
             /\ k # j => jobs'[k] = jobs[k]
             /\ k # j \/ b # number => attempts'[k][b] = attempts[k][b]
<1>1. /\ jobs \in [Jobs -> JobRow]
      /\ attempts \in [Jobs -> [AttemptNumbers -> AttemptRow]]
  BY DEF TypeOK
<1> DEFINE number == jobs[j].attempt_count + 1
<1>2. number \in AttemptNumbers /\ jobs[j].attempt_count \in Nat
  BY <1>1, BoundAssumption DEF ClaimJob, JobRow, AttemptNumbers
<1>3. attempts[j][number].status = "none"
  BY <1>2 DEF TablesAgree, AttemptAgrees
<1>4. jobs[j].status = "pending"
  BY DEF ClaimJob, Claimable
<1>5. /\ jobs'[j].current_attempt_id = number
      /\ k # j => jobs'[k] = jobs[k]
  BY <1>1 DEF ClaimJob
<1>6. /\ attempts'[j][number].status = "running"
      /\ attempts'[j][number].runner_id = r
      /\ k # j \/ b # number => attempts'[k][b] = attempts[k][b]
  BY <1>1, <1>2 DEF ClaimJob
<1> QED
  BY <1>2, <1>3, <1>4, <1>5, <1>6

\* A completion settles the current attempt of one job.
LEMMA CompletionEffect ==
  ASSUME TypeOK, TablesAgree, NEW k \in Jobs, NEW b \in AttemptNumbers,
         NEW j \in Jobs, NEW r \in Runners, NEW a \in AttemptNumbers,
         NEW outcome \in Outcomes, CompleteJob(j, r, a, outcome)
  PROVE  /\ jobs[j].current_attempt_id = a
         /\ jobs[j].status = "running"
         /\ attempts[j][a].status = "running"
         /\ attempts'[j][a].status = outcome
         /\ k # j => jobs'[k] = jobs[k]
         /\ k # j \/ b # a => attempts'[k][b] = attempts[k][b]
<1>1. /\ jobs \in [Jobs -> JobRow]
      /\ attempts \in [Jobs -> [AttemptNumbers -> AttemptRow]]
  BY DEF TypeOK
<1>2. /\ jobs[j].current_attempt_id = a
      /\ jobs[j].status = "running"
      /\ jobs[j].runner_id = r
  BY DEF CompleteJob, HoldsLease, Running
<1>3. AttemptRowMatches(j, r, a)
  BY <1>2 DEF TablesAgree, CurrentIsNewest, AttemptAgrees, AttemptRowMatches
<1>4. attempts' = [attempts EXCEPT ![j][a] = [@ EXCEPT !.status = outcome]]
  BY <1>3 DEF CompleteJob
<1>5. attempts[j][a] \in AttemptRow
  BY <1>1
<1>6. /\ attempts'[j][a].status = outcome
      /\ k # j \/ b # a => attempts'[k][b] = attempts[k][b]
  BY <1>1, <1>4, <1>5 DEF AttemptRow
<1>7. k # j => jobs'[k] = jobs[k]
  BY <1>1 DEF CompleteJob
<1> QED
  BY <1>2, <1>3, <1>6, <1>7 DEF AttemptRowMatches

\* A sweep gives up running attempts.
LEMMA SweepEffect ==
  ASSUME TypeOK, TablesAgree, NEW k \in Jobs, NEW b \in AttemptNumbers,
         NEW r \in Runners, NEW S \in SUBSET Jobs, MarkExpiredJobsUncertain(r, S)
  PROVE  /\ jobs'[k].current_attempt_id = jobs[k].current_attempt_id
         /\ \/ jobs'[k].status = jobs[k].status
            \/ jobs[k].status = "running" /\ jobs'[k].status = "uncertain"
         /\ attempts'[k][b].runner_id = attempts[k][b].runner_id
         /\ \/ attempts'[k][b].status = attempts[k][b].status
            \/ attempts[k][b].status = "running" /\ attempts'[k][b].status = "uncertain"
<1>1. jobs[k] \in JobRow /\ attempts[k][b] \in AttemptRow
  BY DEF TypeOK
<1>2. k \in S => jobs[k].status = "running"
  BY DEF MarkExpiredJobsUncertain, Expired, Running
<1> QED
  BY <1>1, <1>2 DEF MarkExpiredJobsUncertain, JobRow, AttemptRow

\* A requeue changes the row of one job, whose current attempt it names.
LEMMA RequeueEffect ==
  ASSUME TypeOK, NEW k \in Jobs, NEW j \in Jobs, NEW a \in AttemptNumbers,
         SafelyRequeueUncertainJob(j, a)
  PROVE  /\ jobs[j].current_attempt_id = a
         /\ k # j => jobs'[k] = jobs[k]
         /\ attempts' = attempts
  BY DEF SafelyRequeueUncertainJob, TypeOK

\* A job that is enqueued was absent.
LEMMA EnqueueEffect ==
  ASSUME TypeOK, NEW k \in Jobs, NEW j \in Jobs, EnqueueJob(j)
  PROVE  /\ jobs[j].status = "absent"
         /\ k # j => jobs'[k] = jobs[k]
         /\ attempts' = attempts
  BY DEF EnqueueJob, TypeOK

\* Attempts with a process at work are running or given up.
LEMMA WorkingIsUnsettled ==
  ASSUME RunnerInv, NEW k \in Jobs, NEW b \in AttemptNumbers, Working(k, b)
  PROVE  attempts[k][b].status \in {"running", "uncertain"}
<1>1. /\ jobs[k].current_attempt_id = b
      /\ jobs[k].status \in {"running", "uncertain"}
  BY DEF RunnerInv, AttemptInv
<1> QED
  BY <1>1 DEF RunnerInv, TablesAgree, CurrentIsNewest, AttemptAgrees

\* AttemptInv survives a step that leaves the processes of the attempt alone, if
\* the store at most gave it up.
LEMMA ProcessesUnmoved ==
  ASSUME NEW k \in Jobs, NEW b \in AttemptNumbers, AttemptInv(k, b), proc'[k][b] = proc[k][b],
         \/ attempts'[k][b].status = attempts[k][b].status
         \/ attempts[k][b].status = "running" /\ attempts'[k][b].status = "uncertain",
         Working(k, b) => /\ jobs'[k].current_attempt_id = jobs[k].current_attempt_id
                          /\ jobs'[k].status \in {jobs[k].status, "uncertain"}
  PROVE  AttemptInv(k, b)'
  BY DEF AttemptInv, Working, Alive

\* AttemptInv survives the steps of the daemons ...
LEMMA DaemonKeepsAttempts ==
  ASSUME RunnerInv, NEW k \in Jobs, NEW b \in AttemptNumbers, NEW r \in Runners,
         DaemonStep(r) \/ DaemonCannotSpawn(r)
  PROVE  AttemptInv(k, b)'
<1>1. /\ TypeOK /\ TablesAgree /\ RunnerTypeOK
      /\ AttemptInv(k, b)
      /\ proc \in [Jobs -> [AttemptNumbers -> ProcRow]]
  BY DEF RunnerInv, RunnerTypeOK
<1>2. CASE UNCHANGED <<jobs, attempts, proc>>
  BY <1>1, <1>2, ProcessesUnmoved
<1>3. ASSUME NEW j \in Jobs, DaemonClaims(r, j)
      PROVE  AttemptInv(k, b)'
  <2> DEFINE number == jobs[j].attempt_count + 1
  <2>1. proc'[k][b] = proc[k][b] /\ ClaimJob(r, j)
    BY <1>3 DEF DaemonClaims
  <2>2. /\ number \in AttemptNumbers
        /\ jobs[j].status = "pending"
        /\ jobs'[j].current_attempt_id = number
        /\ attempts[j][number].status = "none"
        /\ attempts'[j][number].status = "running"
        /\ k # j => jobs'[k] = jobs[k]
        /\ k # j \/ b # number => attempts'[k][b] = attempts[k][b]
    BY <1>1, <2>1, ClaimEffect
  <2> HIDE DEF number
  <2>3. k = j => ~ Working(k, b)
    BY <1>1, <2>2 DEF AttemptInv
  <2>4. CASE k = j /\ b = number
    BY <1>1, <2>1, <2>2, <2>3, <2>4 DEF AttemptInv, Working, Alive
  <2>5. CASE k # j \/ b # number
    BY <1>1, <2>1, <2>2, <2>3, <2>5, ProcessesUnmoved
  <2> QED
    BY <2>4, <2>5
<1>4. CASE DaemonSweeps(r)
  <2>1. /\ MarkExpiredJobsUncertain(r, Expired(r))
        /\ Expired(r) \in SUBSET Jobs
        /\ proc'[k][b] = proc[k][b]
    BY <1>4 DEF DaemonSweeps, Expired
  <2> QED
    BY <1>1, <2>1, SweepEffect, ProcessesUnmoved
<1>5. CASE DaemonStartsWorker(r)
  <2>1. PICK j \in Jobs, a \in AttemptNumbers : daemon[r].handle = <<j, a>> /\ Handed(r, j, a)
    BY <1>5 DEF RunnerInv, HandleInv, DaemonStartsWorker
  <2>2. /\ proc' = [proc EXCEPT ![j][a].sup = "checking"]
        /\ UNCHANGED <<jobs, attempts>>
    BY <1>5, <2>1 DEF DaemonStartsWorker, StoreUnchanged, vars
  <2>3. CASE k = j /\ b = a
    <3>1. proc'[k][b].sup = "checking" /\ proc'[k][b].child = "none"
      BY <1>1, <2>1, <2>2, <2>3 DEF Handed, AttemptInv, ProcRow
    <3> QED
      BY <1>1, <2>1, <2>2, <2>3, <3>1 DEF AttemptInv, Working, Alive, Handed
  <2>4. CASE k # j \/ b # a
    BY <1>1, <2>2, <2>4, ProcessesUnmoved
  <2> QED
    BY <2>3, <2>4
<1>6. CASE DaemonCannotSpawn(r)
  <2>1. PICK j \in Jobs, a \in AttemptNumbers : daemon[r].handle = <<j, a>> /\ Handed(r, j, a)
    BY <1>6 DEF RunnerInv, HandleInv, DaemonCannotSpawn
  <2>2. /\ proc'[k][b] = proc[k][b]
        /\ UNCHANGED <<jobs, attempts>> \/ CompleteJob(j, r, a, "failed")
    BY <1>6, <2>1 DEF DaemonCannotSpawn, StoreUnchanged, vars
  <2>3. CASE CompleteJob(j, r, a, "failed")
    <3>1. /\ jobs[j].current_attempt_id = a
          /\ attempts'[j][a].status = "failed"
          /\ k # j => jobs'[k] = jobs[k]
          /\ k # j \/ b # a => attempts'[k][b] = attempts[k][b]
      <4>1. "failed" \in Outcomes
        BY DEF Outcomes
      <4> QED
        BY <1>1, <2>3, <4>1, CompletionEffect
    <3>2. k = j => ~ Working(k, b)
      BY <1>1, <2>1, <3>1 DEF AttemptInv, Handed, Working, Alive
    <3>3. CASE k = j /\ b = a
      BY <1>1, <2>1, <2>2, <3>1, <3>2, <3>3 DEF AttemptInv, Handed, Working, Alive
    <3>4. CASE k # j \/ b # a
      BY <1>1, <2>2, <3>1, <3>2, <3>4, ProcessesUnmoved
    <3> QED
      BY <3>3, <3>4
  <2> QED
    BY <1>1, <2>2, <2>3, ProcessesUnmoved
<1> QED
  BY <1>2, <1>3, <1>4, <1>5, <1>6
  DEF DaemonStep, DaemonStarts, DaemonBeats, DaemonSkipsBeat, DaemonPolls, DaemonClaimsNothing,
      RegisterRunner, HeartbeatRunner, ClaimWhileStale, StoreUnchanged, vars

\* ... of the supervisors and children ...
LEMMA SupervisorKeepsAttempts ==
  ASSUME RunnerInv, NEW k \in Jobs, NEW b \in AttemptNumbers,
         NEW j \in Jobs, NEW a \in AttemptNumbers,
         \/ SupervisorStep(j, a) \/ SupCannotReport(j, a) \/ SupDies(j, a)
         \/ \E result \in {"ok", "bad"} : ChildExits(j, a, result)
  PROVE  AttemptInv(k, b)'
<1>1. /\ TypeOK /\ TablesAgree /\ RunnerTypeOK
      /\ AttemptInv(k, b) /\ AttemptInv(j, a)
      /\ proc \in [Jobs -> [AttemptNumbers -> ProcRow]]
      /\ proc[j][a] \in ProcRow
  BY DEF RunnerInv, RunnerTypeOK
<1>2. Working(j, a) => attempts[j][a].status \in {"running", "uncertain"}
  BY WorkingIsUnsettled
<1>3. CASE SupReports(j, a)
  <2>1. /\ proc[j][a].sup = "reporting"
        /\ proc'[j][a].sup = "exited"
        /\ proc'[j][a].child = proc[j][a].child
        /\ k # j \/ b # a => proc'[k][b] = proc[k][b]
    BY <1>1, <1>3 DEF SupReports, SupGoes, ProcRow
  <2>2. CASE UNCHANGED <<jobs, attempts>>
    BY <1>1, <2>1, <2>2, ProcessesUnmoved DEF AttemptInv, Working, Alive
  <2>3. ASSUME NEW outcome \in Outcomes, CompleteJob(j, Host(j, a), a, outcome),
               outcome = IF proc[j][a].child = "ok" THEN "succeeded" ELSE "failed",
               HoldsLease(j, Host(j, a), a)
        PROVE  AttemptInv(k, b)'
    <3>1. /\ jobs[j].current_attempt_id = a
          /\ attempts'[j][a].status = outcome
          /\ k # j => jobs'[k] = jobs[k]
          /\ k # j \/ b # a => attempts'[k][b] = attempts[k][b]
      BY <1>1, <2>3, HolderIsRunner, CompletionEffect
    <3>2. CASE k = j /\ b = a
      <4>1. proc[j][a].child \in {"ok", "bad"}
        BY <1>1, <2>1 DEF AttemptInv
      <4> QED
        BY <2>1, <2>3, <3>1, <3>2, <4>1 DEF AttemptInv, Working, Alive
    <3>3. CASE k # j \/ b # a
      <4>1. k = j => ~ Working(k, b)
        BY <1>1, <3>1, <3>3 DEF AttemptInv
      <4> QED
        BY <1>1, <2>1, <3>1, <3>3, <4>1, ProcessesUnmoved
    <3> QED
      BY <3>2, <3>3
  <2>4. /\ "succeeded" \in Outcomes /\ "failed" \in Outcomes
    BY DEF Outcomes
  <2> QED
    BY <1>3, <2>2, <2>3, <2>4 DEF SupReports, StoreUnchanged, vars
<1>4. ASSUME ~ SupReports(j, a)
      PROVE  /\ Quiet(k)
             /\ k # j \/ b # a => proc'[k][b] = proc[k][b]
  <2>1. \/ UNCHANGED <<jobs, attempts>>
        \/ \E r \in Runners : HeartbeatJob(j, r, a) \/ RecordJobProcess(j, r, a)
    BY <1>1, <1>4, HolderIsRunner
    DEF SupervisorStep, SupChecks, SupLaunches, SupRecords, SupHeartbeats, SupTerminates,
        SupReaps, SupCannotReport, SupDies, ChildExits, StoreUnchanged, vars
  <2>2. Quiet(k)
    BY <1>1, <2>1, QuietMethods
  <2>3. k # j \/ b # a => proc'[k][b] = proc[k][b]
    BY <1>1, <1>4
    DEF SupervisorStep, SupChecks, SupLaunches, SupRecords, SupHeartbeats, SupTerminates,
        SupReaps, SupCannotReport, SupDies, ChildExits, SupGoes
  <2> QED
    BY <2>2, <2>3
<1>5. ASSUME ~ SupReports(j, a), k # j \/ b # a
      PROVE  AttemptInv(k, b)'
  BY <1>1, <1>4, <1>5, ProcessesUnmoved DEF Quiet
<1>6. ASSUME ~ SupReports(j, a), k = j, b = a
      PROVE  AttemptInv(k, b)'
  <2>0. /\ Quiet(k)
        /\ attempts'[k][b].status = attempts[k][b].status
    BY <1>4, <1>6 DEF Quiet
  <2> USE <1>1, <1>2, <1>6, <2>0 DEF AttemptInv, Working, Alive, Quiet
  <2>1. CASE SupChecks(j, a)
    <3>1. /\ proc[j][a].sup = "checking"
          /\ proc'[j][a].child = proc[j][a].child
          /\ \/ proc'[j][a].sup = "launching" /\ Running(j) /\ jobs[j].current_attempt_id = a
             \/ proc'[j][a].sup = "exited"
      BY <2>1 DEF SupChecks, SupGoes, ProcRow
    <3> QED
      BY <3>1 DEF Running
  <2>2. CASE SupLaunches(j, a)
    <3>1. /\ proc[j][a].sup = "launching"
          /\ proc'[j][a].sup = "recording"
          /\ proc'[j][a].child = "alive"
      BY <2>2 DEF SupLaunches, ProcRow
    <3> QED
      BY <3>1
  <2>3. ASSUME proc[j][a].sup \in {"launching", "recording", "watching", "stopping", "reporting"},
               proc'[j][a].child = proc[j][a].child,
               proc'[j][a].sup \in {"watching", "stopping", "exited"},
               proc'[j][a].sup = "exited" \/ proc[j][a].sup \in {"recording", "watching"}
        PROVE  AttemptInv(k, b)'
    BY <2>3
  <2>4. CASE SupRecords(j, a)
    <3>1. /\ proc[j][a].sup = "recording"
          /\ proc'[j][a].child = proc[j][a].child
          /\ proc'[j][a].sup \in {"watching", "stopping"}
      BY <2>4 DEF SupRecords, SupGoes, ProcRow
    <3> QED
      BY <2>3, <3>1
  <2>5. CASE SupHeartbeats(j, a)
    <3>1. /\ proc[j][a].sup = "watching"
          /\ proc'[j][a].child = proc[j][a].child
          /\ proc'[j][a].sup \in {"watching", "stopping"}
      BY <2>5 DEF SupHeartbeats, SupGoes, ProcRow
    <3> QED
      BY <2>3, <3>1
  <2>6. CASE SupTerminates(j, a)
    <3>1. /\ proc[j][a].sup = "stopping"
          /\ proc'[j][a].sup = "exited"
          /\ proc'[j][a].child # "alive"
      BY <2>6 DEF SupTerminates, ProcRow
    <3> QED
      BY <3>1
  <2>7. CASE SupReaps(j, a)
    <3>1. /\ proc[j][a].sup = "watching"
          /\ proc'[j][a].sup = "reporting"
          /\ proc'[j][a].child = proc[j][a].child
          /\ proc[j][a].child # "alive"
      BY <2>7 DEF SupReaps, SupGoes, ProcRow
    <3> QED
      BY <3>1
  <2>8. CASE SupCannotReport(j, a)
    <3>1. /\ proc[j][a].sup = "reporting"
          /\ proc'[j][a].child = proc[j][a].child
          /\ proc'[j][a].sup = "exited"
      BY <2>8 DEF SupCannotReport, ProcRow
    <3> QED
      BY <2>3, <3>1
  <2>9. CASE SupDies(j, a)
    <3>1. /\ proc[j][a].sup # "none"
          /\ proc'[j][a].child = proc[j][a].child
          /\ proc'[j][a].sup = "exited"
      BY <2>9 DEF SupDies, SupGoes, ProcRow
    <3> QED
      BY <3>1
  <2>10. ASSUME NEW result \in {"ok", "bad"}, ChildExits(j, a, result)
         PROVE  AttemptInv(k, b)'
    <3>1. /\ proc[j][a].child = "alive"
          /\ proc'[j][a].child = result
          /\ proc'[j][a].sup = proc[j][a].sup
      BY <2>10 DEF ChildExits, ProcRow
    <3> QED
      BY <2>10, <3>1
  <2> QED
    BY <2>1, <2>2, <2>4, <2>5, <2>6, <2>7, <2>8, <2>9, <2>10 DEF SupervisorStep
<1> QED
  BY <1>3, <1>5, <1>6

\* ... and of everything else.
LEMMA EnvironmentKeepsAttempts ==
  ASSUME RunnerInv, NEW k \in Jobs, NEW b \in AttemptNumbers,
         \/ TimePasses
         \/ \E r \in Runners : \/ DaemonPassFails(r) \/ DaemonStops(r)
                              \/ DaemonCrashes(r) \/ HostReboots(r)
         \/ \E j \in Jobs : SchedulerEnqueues(j)
         \/ \E j \in Jobs, a \in AttemptNumbers : OperatorRequeues(j, a)
         \/ UNCHANGED allVars
  PROVE  AttemptInv(k, b)'
<1>1. /\ TypeOK /\ TablesAgree /\ RunnerTypeOK
      /\ AttemptInv(k, b)
      /\ proc \in [Jobs -> [AttemptNumbers -> ProcRow]]
      /\ proc[k][b] \in ProcRow
  BY DEF RunnerInv, RunnerTypeOK
<1>2. CASE UNCHANGED <<jobs, attempts, proc>>
  BY <1>1, <1>2, ProcessesUnmoved
<1>3. ASSUME NEW r \in Runners, HostReboots(r)
      PROVE  AttemptInv(k, b)'
  <2>1. UNCHANGED <<jobs, attempts>>
    BY <1>3 DEF HostReboots, StoreUnchanged, vars
  <2>2. \/ proc'[k][b] = proc[k][b]
        \/ /\ proc'[k][b].sup = "exited"
           /\ proc'[k][b].child = IF Alive(k, b) THEN "killed" ELSE proc[k][b].child
           /\ proc[k][b].sup # "none"
    BY <1>1, <1>3 DEF HostReboots, Alive, ProcRow
  <2>3. Working(k, b) => attempts[k][b].status \in {"running", "uncertain"}
    BY WorkingIsUnsettled
  <2> QED
    BY <1>1, <2>1, <2>2, <2>3, ProcessesUnmoved DEF AttemptInv, Working, Alive
<1>4. ASSUME NEW j \in Jobs, SchedulerEnqueues(j)
      PROVE  AttemptInv(k, b)'
  <2>1. /\ jobs[j].status = "absent"
        /\ k # j => jobs'[k] = jobs[k]
        /\ attempts' = attempts
        /\ proc' = proc
    BY <1>1, <1>4, EnqueueEffect DEF SchedulerEnqueues, runnerVars
  <2>2. k = j => ~ Working(k, b)
    BY <1>1, <2>1 DEF AttemptInv
  <2> QED
    BY <1>1, <2>1, <2>2, ProcessesUnmoved
<1>5. ASSUME NEW j \in Jobs, NEW a \in AttemptNumbers, OperatorRequeues(j, a)
      PROVE  AttemptInv(k, b)'
  <2>1. /\ jobs[j].current_attempt_id = a
        /\ k # j => jobs'[k] = jobs[k]
        /\ attempts' = attempts
        /\ proc' = proc
        /\ Stopped(j, a)
    BY <1>1, <1>5, RequeueEffect DEF OperatorRequeues, runnerVars
  <2>2. k = j => ~ Working(k, b)
    BY <1>1, <2>1 DEF AttemptInv, Stopped, Working, Alive
  <2> QED
    BY <1>1, <2>1, <2>2, ProcessesUnmoved
<1> QED
  BY <1>2, <1>3, <1>4, <1>5
  DEF TimePasses, Tick, DaemonPassFails, DaemonStops, DaemonCrashes, HeartbeatRunner,
      StoreUnchanged, allVars, runnerVars, vars

-----------------------------------------------------------------------------
\* A handle stays good while nobody settles its attempt or starts its supervisor.
LEMMA HandleUnmoved ==
  ASSUME NEW q \in Runners, NEW j \in Jobs, NEW a \in AttemptNumbers, Handed(q, j, a),
         proc'[j][a].sup = proc[j][a].sup,
         attempts'[j][a].runner_id = attempts[j][a].runner_id,
         \/ attempts'[j][a].status = attempts[j][a].status
         \/ attempts'[j][a].status = "uncertain"
  PROVE  Handed(q, j, a)'
  BY DEF Handed

\* Only its own daemon uses a handle, and once.
LEMMA HandleStep ==
  ASSUME RunnerInv, [RunnerNext]_allVars, NEW q \in Runners, daemon'[q].pc = "start"
  PROVE  HandleInv(q)'
<1>1. /\ TypeOK /\ TablesAgree /\ RunnerTypeOK
      /\ daemon \in [Runners -> DaemonRow]
      /\ proc \in [Jobs -> [AttemptNumbers -> ProcRow]]
  BY DEF RunnerInv, RunnerTypeOK
<1>2. ASSUME NEW j \in Jobs, DaemonClaims(q, j)
      PROVE  HandleInv(q)'
  <2> DEFINE number == jobs[j].attempt_count + 1
  <2>1. ClaimJob(q, j)
    BY <1>2 DEF DaemonClaims
  <2>2. /\ number \in AttemptNumbers
        /\ jobs'[j].current_attempt_id = number
        /\ attempts[j][number].status = "none"
        /\ attempts'[j][number].status = "running"
        /\ attempts'[j][number].runner_id = q
    <3>1. 1 \in AttemptNumbers
      BY BoundAssumption DEF AttemptNumbers
    <3> QED
      BY <1>1, <2>1, <3>1, ClaimEffect
  <2> HIDE DEF number
  <2>3. daemon'[q].handle = <<j, number>> /\ proc' = proc
    BY <1>1, <1>2, <2>2 DEF DaemonClaims
  <2>4. proc[j][number].sup = "none"
    BY <2>2 DEF RunnerInv, AttemptInv
  <2> QED
    BY <2>2, <2>3, <2>4 DEF HandleInv, Handed
<1>3. ASSUME NEW j \in Jobs, NEW a \in AttemptNumbers, Handed(q, j, a)', daemon'[q].handle = <<j, a>>
      PROVE  HandleInv(q)'
  BY <1>3 DEF HandleInv
<1>4. ASSUME daemon'[q] = daemon[q] PROVE HandleInv(q)'
  <2>1. PICK j \in Jobs, a \in AttemptNumbers : daemon[q].handle = <<j, a>> /\ Handed(q, j, a)
    BY <1>4 DEF RunnerInv, HandleInv
  <2>2. ASSUME proc'[j][a].sup = proc[j][a].sup,
               attempts'[j][a].runner_id = attempts[j][a].runner_id,
               \/ attempts'[j][a].status = attempts[j][a].status
               \/ attempts'[j][a].status = "uncertain"
        PROVE  HandleInv(q)'
    BY <1>3, <1>4, <2>1, <2>2, HandleUnmoved
  <2>3. CASE UNCHANGED <<attempts, proc>>
    BY <2>2, <2>3
  <2>4. ASSUME NEW r \in Runners, DaemonStartsWorker(r) \/ DaemonCannotSpawn(r)
        PROVE  HandleInv(q)'
    <3>1. r # q
      BY <1>1, <1>4, <2>4 DEF DaemonStartsWorker, DaemonCannotSpawn, DaemonGoes
    <3>2. PICK i \in Jobs, c \in AttemptNumbers : daemon[r].handle = <<i, c>> /\ Handed(r, i, c)
      BY <2>4 DEF RunnerInv, HandleInv, DaemonStartsWorker, DaemonCannotSpawn
    <3>3. i # j \/ c # a
      BY <2>1, <3>1, <3>2 DEF Handed
    <3>4. CASE DaemonStartsWorker(r)
      BY <1>1, <2>2, <3>2, <3>3, <3>4 DEF DaemonStartsWorker, StoreUnchanged, vars
    <3>5. CASE DaemonCannotSpawn(r)
      <4>1. proc' = proc /\ (UNCHANGED attempts \/ CompleteJob(i, r, c, "failed"))
        BY <3>2, <3>5 DEF DaemonCannotSpawn, StoreUnchanged, vars
      <4>2. "failed" \in Outcomes
        BY DEF Outcomes
      <4>3. attempts'[j][a] = attempts[j][a]
        BY <1>1, <3>3, <4>1, <4>2, CompletionEffect
      <4> QED
        BY <2>2, <4>1, <4>3
    <3> QED
      BY <2>4, <3>4, <3>5
  <2>5. ASSUME NEW r \in Runners, NEW i \in Jobs, DaemonClaims(r, i)
        PROVE  HandleInv(q)'
    <3> DEFINE number == jobs[i].attempt_count + 1
    <3>1. ClaimJob(r, i) /\ proc' = proc
      BY <2>5 DEF DaemonClaims
    <3>2. /\ attempts[i][number].status = "none"
          /\ i # j \/ a # number => attempts'[j][a] = attempts[j][a]
      BY <1>1, <3>1, ClaimEffect
    <3> HIDE DEF number
    <3>3. attempts'[j][a] = attempts[j][a]
      BY <2>1, <3>2 DEF Handed
    <3> QED
      BY <2>2, <3>1, <3>3
  <2>6. ASSUME NEW r \in Runners, DaemonSweeps(r)
        PROVE  HandleInv(q)'
    <3>1. /\ MarkExpiredJobsUncertain(r, Expired(r))
          /\ Expired(r) \in SUBSET Jobs
          /\ proc' = proc
      BY <2>6 DEF DaemonSweeps, Expired
    <3> QED
      BY <1>1, <2>2, <3>1, SweepEffect
  <2>7. ASSUME NEW i \in Jobs, NEW c \in AttemptNumbers,
               \/ SupervisorStep(i, c) \/ SupCannotReport(i, c) \/ SupDies(i, c)
               \/ \E result \in {"ok", "bad"} : ChildExits(i, c, result)
        PROVE  HandleInv(q)'
    <3>0. AttemptInv(j, a) /\ proc[j][a] \in ProcRow
      BY <1>1 DEF RunnerInv
    <3>1. CASE i # j \/ c # a
      <4>1. proc'[j][a] = proc[j][a]
        BY <1>1, <2>7, <3>1
        DEF SupervisorStep, SupChecks, SupLaunches, SupRecords, SupHeartbeats, SupTerminates,
            SupReaps, SupReports, SupCannotReport, SupDies, ChildExits, SupGoes
      <4>2. CASE SupReports(i, c)
        <5>1. \/ UNCHANGED attempts
              \/ /\ HoldsLease(i, Host(i, c), c)
                 /\ \E outcome \in Outcomes : CompleteJob(i, Host(i, c), c, outcome)
          BY <4>2 DEF SupReports, StoreUnchanged, vars, Outcomes
        <5>2. attempts'[j][a] = attempts[j][a]
          BY <1>1, <3>1, <5>1, HolderIsRunner, CompletionEffect
        <5> QED
          BY <2>2, <4>1, <5>2
      <4>3. CASE ~ SupReports(i, c)
        <5>1. \/ UNCHANGED <<jobs, attempts>>
              \/ \E r \in Runners : HeartbeatJob(i, r, c) \/ RecordJobProcess(i, r, c)
          BY <1>1, <2>7, <4>3, HolderIsRunner
          DEF SupervisorStep, SupChecks, SupLaunches, SupRecords, SupHeartbeats, SupTerminates,
              SupReaps, SupCannotReport, SupDies, ChildExits, StoreUnchanged, vars
        <5>2. Quiet(j)
          BY <1>1, <5>1, QuietMethods
        <5> QED
          BY <2>2, <4>1, <5>2 DEF Quiet
      <4> QED
        BY <4>2, <4>3
    <3>2. CASE i = j /\ c = a
      <4>1. proc[j][a].sup = "none" /\ proc[j][a].child = "none"
        BY <2>1, <3>0 DEF Handed, AttemptInv
      <4> QED
        BY <2>7, <3>2, <4>1
        DEF SupervisorStep, SupChecks, SupLaunches, SupRecords, SupHeartbeats, SupTerminates,
            SupReaps, SupReports, SupCannotReport, SupDies, ChildExits
    <3> QED
      BY <3>1, <3>2
  <2>8. ASSUME NEW r \in Runners, HostReboots(r)
        PROVE  HandleInv(q)'
    <3>1. UNCHANGED attempts
      BY <2>8 DEF HostReboots, StoreUnchanged, vars
    <3>2. proc'[j][a].sup = proc[j][a].sup
      BY <1>1, <2>1, <2>8 DEF HostReboots, Handed
    <3> QED
      BY <2>2, <3>1, <3>2
  <2>9. ASSUME NEW i \in Jobs, SchedulerEnqueues(i) PROVE HandleInv(q)'
    BY <2>3, <2>9 DEF SchedulerEnqueues, EnqueueJob, runnerVars
  <2>10. ASSUME NEW i \in Jobs, NEW c \in AttemptNumbers, OperatorRequeues(i, c)
         PROVE  HandleInv(q)'
    BY <2>3, <2>10 DEF OperatorRequeues, SafelyRequeueUncertainJob, runnerVars
  <2>11. ASSUME NEW r \in Runners, DaemonStep(r) PROVE HandleInv(q)'
    BY <2>3, <2>4, <2>5, <2>6, <2>11
    DEF DaemonStep, DaemonStarts, DaemonBeats, DaemonSkipsBeat, DaemonPolls,
        DaemonClaimsNothing, RegisterRunner, HeartbeatRunner, ClaimWhileStale,
        StoreUnchanged, vars
  <2>12. CASE FaultStep
    <3>1. ASSUME NEW r \in Runners,
                 DaemonPassFails(r) \/ DaemonStops(r) \/ DaemonCrashes(r)
          PROVE  HandleInv(q)'
      BY <2>3, <3>1
      DEF DaemonPassFails, DaemonStops, DaemonCrashes, HeartbeatRunner, StoreUnchanged, vars
    <3> QED
      BY <2>4, <2>7, <2>8, <2>12, <3>1 DEF FaultStep
  <2>13. CASE TimePasses \/ UNCHANGED allVars
    BY <2>3, <2>13 DEF TimePasses, Tick, allVars, runnerVars, vars
  <2> QED
    BY <2>7, <2>9, <2>10, <2>11, <2>12, <2>13 DEF RunnerNext
<1>5. \/ daemon'[q] = daemon[q]
      \/ \E j \in Jobs : DaemonClaims(q, j)
  <2>1. ASSUME NEW r \in Runners, NEW pc \in {"down", "loop", "sweep", "poll", "claim"},
               DaemonGoes(r, pc)
        PROVE  daemon'[q] = daemon[q]
    BY <1>1, <2>1 DEF DaemonGoes
  <2>2. ASSUME NEW r \in Runners, NEW j \in Jobs, DaemonClaims(r, j), r # q
        PROVE  daemon'[q] = daemon[q]
    BY <1>1, <2>2 DEF DaemonClaims
  <2>3. ASSUME NEW r \in Runners, DaemonStep(r)
        PROVE  \/ \E pc \in {"loop", "sweep", "poll", "claim"} : DaemonGoes(r, pc)
               \/ \E j \in Jobs : DaemonClaims(r, j)
    BY <2>3
    DEF DaemonStep, DaemonStarts, DaemonBeats, DaemonSweeps, DaemonSkipsBeat, DaemonPolls,
        DaemonClaimsNothing, DaemonStartsWorker
  <2>4. ASSUME FaultStep
        PROVE  \/ \E r \in Runners, pc \in {"down", "loop"} : DaemonGoes(r, pc)
               \/ UNCHANGED daemon
    BY <2>4
    DEF FaultStep, DaemonCannotSpawn, DaemonPassFails, DaemonStops, DaemonCrashes, HostReboots,
        SupCannotReport, SupDies
  <2>5. ASSUME NEW j \in Jobs, NEW a \in AttemptNumbers,
               SupervisorStep(j, a) \/ \E result \in {"ok", "bad"} : ChildExits(j, a, result)
        PROVE  UNCHANGED daemon
    BY <2>5
    DEF SupervisorStep, SupChecks, SupLaunches, SupRecords, SupHeartbeats, SupTerminates,
        SupReaps, SupReports, ChildExits
  <2>6. ASSUME \/ TimePasses
               \/ \E j \in Jobs : SchedulerEnqueues(j)
               \/ \E j \in Jobs, a \in AttemptNumbers : OperatorRequeues(j, a)
               \/ UNCHANGED allVars
        PROVE  UNCHANGED daemon
    BY <2>6 DEF SchedulerEnqueues, OperatorRequeues, TimePasses, allVars, runnerVars
  <2>7. CASE \E r \in Runners : DaemonStep(r)
    BY <2>1, <2>2, <2>3, <2>7
  <2>8. CASE FaultStep
    BY <2>1, <2>4, <2>8
  <2> QED
    BY <2>5, <2>6, <2>7, <2>8 DEF RunnerNext
<1> QED
  BY <1>2, <1>4, <1>5

-----------------------------------------------------------------------------
\* The invariant is inductive.
LEMMA RunnerInvStep == RunnerInv /\ [RunnerNext]_allVars => RunnerInv'
<1> SUFFICES ASSUME RunnerInv, [RunnerNext]_allVars PROVE RunnerInv'
  OBVIOUS
<1>1. RunnerTypeOK'
  BY RunnerTypeStep
<1>2. TablesAgree'
  BY StepsAreStoreSteps, TablesAgreeStep DEF RunnerInv, RunnerTypeOK
<1>3. ASSUME NEW k \in Jobs, NEW b \in AttemptNumbers
      PROVE  AttemptInv(k, b)'
  <2>1. CASE FaultStep
    BY <2>1, DaemonKeepsAttempts, SupervisorKeepsAttempts, EnvironmentKeepsAttempts DEF FaultStep
  <2> QED
    BY <2>1, DaemonKeepsAttempts, SupervisorKeepsAttempts, EnvironmentKeepsAttempts
    DEF RunnerNext
<1>4. ASSUME NEW q \in Runners
      PROVE  HandleInv(q)'
  BY HandleStep DEF HandleInv
<1> QED
  BY <1>1, <1>2, <1>3, <1>4 DEF RunnerInv

\* The invariant holds in every reachable state.
LEMMA RunnerInvHolds == RunnerSpec => []RunnerInv
<1>1. RunnerInit => RunnerInv
  <2> SUFFICES ASSUME RunnerInit PROVE RunnerInv
    OBVIOUS
  <2>1. TypeOK /\ TablesAgree
    BY InitialTypes, InitialTables DEF RunnerInit
  <2>2. RunnerTypeOK
    BY <2>1, FaultAssumption
    DEF RunnerInit, RunnerTypeOK, DaemonRow, ProcRow, DaemonPhases, SupervisorPhases,
        ChildStates, Artifacts
  <2>3. \A j \in Jobs, a \in AttemptNumbers : AttemptInv(j, a)
    BY DEF RunnerInit, Init, NullAttempt, AttemptInv, Working, Alive
  <2>4. \A r \in Runners : HandleInv(r)
    BY DEF RunnerInit, HandleInv
  <2> QED
    BY <2>1, <2>2, <2>3, <2>4 DEF RunnerInv
<1> QED
  BY <1>1, RunnerInvStep, PTL DEF RunnerSpec

\* The hosts use the store as its own specification says, so that every theorem of
\* JobStoreProofs and JobStoreRefinement holds of the system as a whole.
THEOREM RunnersFollowTheStore == RunnerSpec => Spec
<1>1. RunnerInit => Init
  BY DEF RunnerInit
<1> QED
  BY <1>1, RunnerInvHolds, StepsAreStoreSteps, PTL DEF RunnerSpec, Spec

\* Type correctness of the hosts and the store together.
THEOREM RunnerTypeCorrect == RunnerSpec => []RunnerTypeOK
<1>1. RunnerInv => RunnerTypeOK
  BY DEF RunnerInv
<1> QED
  BY <1>1, RunnerInvHolds, PTL

\* A child still at work belongs to the current attempt of a job that is running or
\* uncertain, whatever died, stalled or was fenced before.
THEOREM LiveChildrenStayAccountedFor == RunnerSpec => []LiveChildrenAreAccountedFor
<1>1. RunnerInv => LiveChildrenAreAccountedFor
  BY DEF RunnerInv, AttemptInv, Working, LiveChildrenAreAccountedFor
<1> QED
  BY <1>1, RunnerInvHolds, PTL

\* The verdict the store keeps is that of the child of the same attempt.
THEOREM VerdictsComeFromTheChild == RunnerSpec => []VerdictsAreTheChilds
<1>1. RunnerInv => VerdictsAreTheChilds
  BY DEF RunnerInv, AttemptInv, VerdictsAreTheChilds
<1> QED
  BY <1>1, RunnerInvHolds, PTL

=============================================================================
