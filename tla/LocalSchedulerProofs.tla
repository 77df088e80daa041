------------------------- MODULE LocalSchedulerProofs -------------------------
(***************************************************************************)
(* Proofs about LocalScheduler with its intake, for any number of workers,  *)
(* faults and retries.  LocalInv says what each place of the pass, of the   *)
(* intake and of a worker presupposes; it is inductive.  A step is looked   *)
(* at once for each part of the state: the row, the issue, the processes,   *)
(* the pass.                                                                *)
(***************************************************************************)
EXTENDS LocalScheduler, FiniteSetTheorems, TLAPS

-----------------------------------------------------------------------------
(* The inductive invariant *)

WorkerRecords ==
  [client : {"none", "running", "gone", "ok", "bad"},
   entry : {"none", "starting", "working", "done"},
   app : AppPhases, resume : BOOLEAN, ci_repair : BOOLEAN, read : TaskRow]

Passes ==
  [pc : SchedulerPhases, snap : TaskRow \cup {Absent}, w : Workers \cup {NoWorker}]

\* The places at which the pass works with a row it has read.
HasRead ==
  {"active", "recover", "dispatch", "spawn", "recording", "exited", "block", "ci", "review",
   "reviewing", "judging"}

PassInv ==
  /\ sched.pc \in HasRead => sched.snap \in TaskRow
  /\ sched.pc # "intake" => row # Absent
  /\ sched.pc \in {"dispatch", "spawn"} => Dispatched < MaxDispatches

\* What the intake has seen of the description and of the task.
IntakeInv ==
  /\ poll.pc \in {"create", "insert"} => poll.body = "contract"
  /\ poll.pc \in {"acknowledge", "unlabel"} => row # Absent
  /\ submit.pc \in {"create", "insert"} => submit.body = "contract"
  /\ row # Absent => row.body = "contract"

\* A worker was dispatched for a task.
WorkersInv ==
  \A w \in Workers :
    /\ ~Exists(w) => worker[w].entry = "none" /\ worker[w].app = "none"
    /\ Exists(w) => row # Absent

\* On the Mac the lock has one owner, and a workflow one entry point, alive or dead.
LockInv ==
  Remote => \A w \in Workers :
    /\ worker[w].entry = "working" =>
         ~reviewer /\ \A v \in Workers \ {w} : worker[v].entry # "working"
    /\ Works(w) => worker[w].entry \in {"working", "done"}

LocalInv == LocalTypeOK /\ PassInv /\ IntakeInv /\ WorkersInv /\ LockInv

-----------------------------------------------------------------------------
(* Types *)

LEMMA Typed ==
  ASSUME LocalTypeOK
  PROVE  /\ worker \in [Workers -> WorkerRecords]
         /\ sched \in Passes
         /\ row \in TaskRow \cup {Absent}
  BY DEF LocalTypeOK, WorkerRecords, Passes

LEMMA AbsentIsNoRow == Absent \notin TaskRow /\ \A r \in TaskRow : r.status # "absent"
  BY DEF Absent, TaskRow

LEMMA NewTaskTypes ==
  /\ \A body \in Bodies : NewTask(body) \in TaskRow /\ NewTask(body).body = body
  /\ NoRow \in TaskRow
  <1>1. ASSUME NEW body \in Bodies PROVE NewTask(body) \in TaskRow /\ NewTask(body).body = body
    BY DEF NewTask, TaskRow, Metadata, NoWorker
  <1>2. QED BY <1>1 DEF NoRow, Bodies

\* Everything the code writes into metadata.
LEMMA MetadataEdits ==
  ASSUME NEW m \in Metadata
  PROVE  /\ \A b \in BOOLEAN : [m EXCEPT !.recovery_pending = b] \in Metadata
         /\ [m EXCEPT !.recovery_pending = FALSE, !.post_ci_review = FALSE] \in Metadata
         /\ [m EXCEPT !.post_ci_review = TRUE] \in Metadata
         /\ \A w \in Workers \cup {NoWorker}, t \in {"local", "mac_ssh"} :
              [m EXCEPT !.worker = w, !.worker_mode = t] \in Metadata
         /\ \A w \in Workers \cup {NoWorker} : [m EXCEPT !.worker = w] \in Metadata
         /\ [m EXCEPT !.review_status = "approved"] \in Metadata
         /\ [m EXCEPT !.review_status = "changes_required", !.review_repairs = @ + 1]
              \in Metadata
         /\ [m EXCEPT !.validated = TRUE, !.review_status = "approved"] \in Metadata
  <1>1. /\ \A b \in BOOLEAN : [m EXCEPT !.recovery_pending = b] \in Metadata
        /\ [m EXCEPT !.recovery_pending = FALSE, !.post_ci_review = FALSE] \in Metadata
        /\ [m EXCEPT !.post_ci_review = TRUE] \in Metadata
    BY DEF Metadata
  <1>2. /\ \A w \in Workers \cup {NoWorker}, t \in {"local", "mac_ssh"} :
             [m EXCEPT !.worker = w, !.worker_mode = t] \in Metadata
        /\ \A w \in Workers \cup {NoWorker} : [m EXCEPT !.worker = w] \in Metadata
    BY DEF Metadata
  <1>3. [m EXCEPT !.review_status = "approved"] \in Metadata
    BY DEF Metadata
  <1>4. [m EXCEPT !.review_status = "changes_required", !.review_repairs = @ + 1]
          \in Metadata
    <2>1. m.review_repairs + 1 \in Nat
      BY DEF Metadata
    <2>2. \A n \in Nat :
            [m EXCEPT !.review_status = "changes_required", !.review_repairs = n] \in Metadata
      BY DEF Metadata
    <2>3. QED BY <2>1, <2>2
  <1>5. [m EXCEPT !.validated = TRUE, !.review_status = "approved"] \in Metadata
    BY DEF Metadata
  <1>6. QED BY <1>1, <1>2, <1>3, <1>4, <1>5

Statuses == {"QUEUED", "RUNNING", "WAITING_CI", "READY", "BLOCKED"}

LEMMA RowParts ==
  ASSUME NEW r \in TaskRow
  PROVE  r.metadata \in Metadata /\ r.ci_attempts \in Nat /\ r.status \in Statuses
  BY DEF TaskRow, Statuses

\* A write of a status and metadata leaves a row, of the same description.
LEMMA RowWrites ==
  ASSUME row \in TaskRow, NEW s \in Statuses, NEW m \in Metadata
  PROVE  Becomes(s, m) \in TaskRow /\ Becomes(s, m).body = row.body
  BY DEF Becomes, TaskRow, Statuses

\* So does one of the CI status with them.
WithCI(s, m, c) == [Becomes(s, m) EXCEPT !.ci_status = c]
WithFailure(s, m, n) == [Becomes(s, m) EXCEPT !.ci_status = "failed", !.ci_attempts = n]

LEMMA CIWrites ==
  ASSUME row \in TaskRow, NEW s \in Statuses, NEW m \in Metadata
  PROVE  /\ \A c \in {"none", "queued", "green", "failed"} :
              WithCI(s, m, c) \in TaskRow /\ WithCI(s, m, c).body = row.body
         /\ \A n \in Nat :
              WithFailure(s, m, n) \in TaskRow /\ WithFailure(s, m, n).body = row.body
  BY DEF WithCI, WithFailure, Becomes, TaskRow, Statuses

\* Writes that leave the metadata, or all of it but the worker.
LEMMA RowEdits ==
  ASSUME row \in TaskRow
  PROVE  /\ [row EXCEPT !.status = "BLOCKED"] \in TaskRow
         /\ [row EXCEPT !.status = "BLOCKED"].body = row.body
         /\ [row EXCEPT !.status = "WAITING_CI", !.ci_status = "queued"] \in TaskRow
         /\ [row EXCEPT !.status = "WAITING_CI", !.ci_status = "queued"].body = row.body
         /\ \A w \in Workers \cup {NoWorker} :
              /\ [row EXCEPT !.metadata.worker = w] \in TaskRow
              /\ [row EXCEPT !.metadata.worker = w].body = row.body
  <1>1. /\ [row EXCEPT !.status = "BLOCKED"] \in TaskRow
        /\ [row EXCEPT !.status = "BLOCKED"].body = row.body
        /\ [row EXCEPT !.status = "WAITING_CI", !.ci_status = "queued"] \in TaskRow
        /\ [row EXCEPT !.status = "WAITING_CI", !.ci_status = "queued"].body = row.body
    BY DEF TaskRow
  <1>2. ASSUME NEW w \in Workers \cup {NoWorker}
        PROVE  /\ [row EXCEPT !.metadata.worker = w] \in TaskRow
               /\ [row EXCEPT !.metadata.worker = w].body = row.body
    <2>1. [row.metadata EXCEPT !.worker = w] \in Metadata
      BY RowParts, MetadataEdits
    <2>2. [row EXCEPT !.metadata.worker = w]
            = [row EXCEPT !.metadata = [row.metadata EXCEPT !.worker = w]]
      BY DEF TaskRow
    <2> QED BY <2>1, <2>2 DEF TaskRow
  <1>3. QED BY <1>1, <1>2

\* There are never more workers than the bound allows.
LEMMA DispatchedBound == Dispatched \in 0 .. MaxDispatches
  <1>1. IsFiniteSet(Workers) /\ Cardinality(Workers) = MaxDispatches
    BY LocalAssumption, FS_Interval DEF Workers
  <1>2. {w \in Workers : Exists(w)} \subseteq Workers
    OBVIOUS
  <1>3. QED BY <1>1, <1>2, FS_Subset, FS_CardinalityType, LocalAssumption DEF Dispatched

-----------------------------------------------------------------------------
(* The row *)

\* A step leaves the row, or writes one for the same description.
RowKept == row' = row \/ (row \in TaskRow /\ row' \in TaskRow /\ row'.body = row.body)

LEMMA Writes ==
  ASSUME NEW new, NEW pc,
         WritesOrRestarts(new, pc) \/ WritesIfStill(new, pc)
  PROVE  row' = row \/ row' = new
  BY DEF WritesOrRestarts, WritesIfStill

LEMMA ReadRow ==
  ASSUME LocalInv, sched.pc \in HasRead
  PROVE  /\ row \in TaskRow /\ sched.snap \in TaskRow
         /\ sched.snap.metadata \in Metadata /\ row.status \in Statuses
         /\ sched.snap.ci_attempts \in Nat
  BY Typed, RowParts DEF LocalInv, PassInv, HasRead

\* The verdicts of a review are rows.
LEMMA VerdictTypes ==
  ASSUME row \in TaskRow, NEW snap \in TaskRow, NEW new \in Verdicts(snap)
  PROVE  new \in TaskRow /\ new.body = row.body
  <1> DEFINE approved == [snap.metadata EXCEPT !.review_status = "approved"]
             refused == [snap.metadata EXCEPT !.review_status = "changes_required",
                                              !.review_repairs = @ + 1]
  <1>1. snap.metadata \in Metadata /\ approved \in Metadata /\ refused \in Metadata
    BY RowParts, MetadataEdits
  <1>2. \/ new = Becomes("BLOCKED", snap.metadata)
        \/ new = Becomes("BLOCKED", approved)
        \/ new = Becomes("BLOCKED", refused)
        \/ new = WithCI("READY", approved, "green")
    BY DEF Verdicts, WithCI
  <1> HIDE DEF approved, refused
  <1>3. QED BY <1>1, <1>2, RowWrites, CIWrites DEF Statuses

LEMMA PassKeepsRow ==
  ASSUME LocalInv, PassStep \/ SchedulerCrashes, ~PollsIssues
  PROVE  RowKept
  <1>1. CASE Recovers
    <2> DEFINE m == [sched.snap.metadata EXCEPT !.recovery_pending = TRUE]
    <2>1. sched.pc \in HasRead BY <1>1 DEF Recovers, At, HasRead
    <2>2. m \in Metadata BY <2>1, ReadRow, MetadataEdits
    <2>3. row' = row \/ row' = Becomes("BLOCKED", m) BY <1>1, Writes DEF Recovers
    <2> HIDE DEF m
    <2>4. QED BY <2>1, <2>2, <2>3, ReadRow, RowWrites DEF RowKept, Statuses
  <1>2. CASE Claims
    <2> DEFINE m == [sched.snap.metadata EXCEPT !.recovery_pending = FALSE,
                                                !.post_ci_review = FALSE]
    <2>1. sched.pc \in HasRead BY <1>2 DEF Claims, At, HasRead
    <2>2. m \in Metadata BY <2>1, ReadRow, MetadataEdits
    <2>3. row' = row \/ row' = Becomes("RUNNING", m) BY <1>2 DEF Claims
    <2> HIDE DEF m
    <2>4. QED BY <2>1, <2>2, <2>3, ReadRow, RowWrites DEF RowKept, Statuses
  <1>3. CASE SpawnFails
    <2>1. sched.pc \in HasRead BY <1>3 DEF SpawnFails, At, HasRead
    <2> QED BY <1>3, <2>1, ReadRow, RowEdits DEF SpawnFails, RowKept
  <1>4. CASE Records
    <2> DEFINE m == [sched.snap.metadata EXCEPT !.worker = sched.w,
                                                !.worker_mode = transport]
    <2>1. sched.pc \in HasRead BY <1>4 DEF Records, At, HasRead
    <2>2. sched.w \in Workers \cup {NoWorker} /\ transport \in {"local", "mac_ssh"}
      BY DEF LocalInv, LocalTypeOK
    <2>3. m \in Metadata BY <2>1, <2>2, ReadRow, MetadataEdits
    <2>4. row' = row \/ row' = Becomes(row.status, m) BY <1>4 DEF Records
    <2> HIDE DEF m
    <2>5. QED BY <2>1, <2>3, <2>4, ReadRow, RowWrites DEF RowKept
  <1>5. CASE Heartbeats
    <2>1. sched.w \in Workers \cup {NoWorker} /\ row \in TaskRow
      BY <1>5, Typed DEF LocalInv, LocalTypeOK, PassInv, Heartbeats, At
    <2> QED BY <1>5, <2>1, RowEdits DEF Heartbeats, RowKept
  <1>6. CASE ExitedIsBlocked
    <2> DEFINE m == [sched.snap.metadata EXCEPT !.recovery_pending = FALSE]
    <2>1. sched.pc \in HasRead BY <1>6 DEF ExitedIsBlocked, At, HasRead
    <2>2. m \in Metadata BY <2>1, ReadRow, MetadataEdits
    <2>3. row' = row \/ row' = Becomes("BLOCKED", m) BY <1>6, Writes DEF ExitedIsBlocked
    <2> HIDE DEF m
    <2>4. QED BY <2>1, <2>2, <2>3, ReadRow, RowWrites DEF RowKept, Statuses
  <1>7. CASE CIPasses
    <2> DEFINE m == [sched.snap.metadata EXCEPT !.post_ci_review = TRUE]
    <2>1. sched.pc \in HasRead BY <1>7 DEF CIPasses, At, HasRead
    <2>2. m \in Metadata BY <2>1, ReadRow, MetadataEdits
    <2>3. row' = row \/ row' = WithCI("RUNNING", m, "green") BY <1>7 DEF CIPasses, WithCI
    <2> HIDE DEF m
    <2>4. QED BY <2>1, <2>2, <2>3, ReadRow, CIWrites DEF RowKept, Statuses
  <1>8. CASE CIFails
    <2> DEFINE n == sched.snap.ci_attempts + 1
    <2>1. sched.pc \in HasRead BY <1>8 DEF CIFails, At, HasRead
    <2>2. n \in Nat BY <2>1, ReadRow
    <2>3. row' = row \/ row' = WithFailure("BLOCKED", sched.snap.metadata, n)
      BY <1>8, Writes DEF CIFails, WithFailure
    <2> HIDE DEF n
    <2>4. QED BY <2>1, <2>2, <2>3, ReadRow, CIWrites DEF RowKept, Statuses
  <1>9. CASE ReviewIsRefused \/ ReviewSessionIsLost
    <2>1. sched.pc \in HasRead
      BY <1>9 DEF ReviewIsRefused, ReviewSessionIsLost, At, HasRead
    <2>2. row' = row \/ row' = Becomes("BLOCKED", sched.snap.metadata)
      BY <1>9, Writes DEF ReviewIsRefused, ReviewSessionIsLost
    <2>3. QED BY <2>1, <2>2, ReadRow, RowWrites DEF RowKept, Statuses
  <1>10. CASE ReviewIsJudged
    <2>1. sched.pc \in HasRead BY <1>10 DEF ReviewIsJudged, At, HasRead
    <2>2. PICK new \in Verdicts(sched.snap) : row' = row \/ row' = new
      BY <1>10, Writes DEF ReviewIsJudged
    <2>3. QED BY <2>1, <2>2, ReadRow, VerdictTypes DEF RowKept
  <1>11. CASE InsertCollides \/ SchedulerCrashes
    BY <1>11 DEF InsertCollides, SchedulerCrashes, RowKept
  <1>12. CASE ListsActive \/ ActiveIsHeld \/ ProbeFails \/ ActiveIsGone
              \/ ListsCandidates \/ DispatchPaused \/ Spawns \/ RecordReads \/ WaitEnds
    BY <1>12 DEF ListsActive, ActiveIsHeld, ProbeFails, ActiveIsGone, ListsCandidates,
                 DispatchPaused, Spawns, RecordReads, WaitEnds, RowKept
  <1>13. CASE ExitedIsLeft \/ ExitedIsGone \/ PollsCI \/ CIUnknown \/ ReviewStarts
              \/ ReviewReturns
    BY <1>13 DEF ExitedIsLeft, ExitedIsGone, PollsCI, CIUnknown, ReviewStarts,
                 ReviewReturns, RowKept
  <1>14. QED
    BY <1>1, <1>2, <1>3, <1>4, <1>5, <1>6, <1>7, <1>8, <1>9, <1>10, <1>11, <1>12, <1>13
    DEF PassStep

\* What a worker that runs has to work with.
LEMMA RunningApp ==
  ASSUME LocalInv, NEW w \in Workers, worker[w].app # "none"
  PROVE  /\ row \in TaskRow /\ Exists(w)
         /\ worker[w].read \in TaskRow /\ worker[w].read.metadata \in Metadata
  <1>1. worker[w] \in WorkerRecords
    BY Typed DEF LocalInv
  <1>2. Exists(w) /\ row # Absent
    BY DEF LocalInv, WorkersInv
  <1>3. worker[w].read \in TaskRow
    BY <1>1 DEF WorkerRecords
  <1>4. QED BY <1>2, <1>3, Typed, RowParts DEF LocalInv

LEMMA AppKeepsRow ==
  ASSUME LocalInv, NEW w \in Workers, AppStep(w)
  PROVE  RowKept
  <1>1. CASE AppBegins(w) \/ AppResumes(w) \/ AppRefuses(w) \/ AppReadsTask(w)
             \/ AppSyncs(w) \/ AppChecksStatus(w)
    BY <1>1 DEF AppBegins, AppResumes, AppRefuses, AppReadsTask, AppSyncs, AppChecksStatus,
                RowKept
  <1>2. CASE AppOpens(w) \/ AppTracks(w)
    <2>1. row \in TaskRow /\ worker[w].read.metadata \in Metadata /\ row.metadata \in Metadata
      BY <1>2, RunningApp, RowParts DEF AppOpens, AppTracks
    <2>2. \E m \in {row.metadata, worker[w].read.metadata} :
            row' = row \/ row' = Becomes("RUNNING", m)
      BY <1>2 DEF AppOpens, AppTracks, AppMarks
    <2>3. QED BY <2>1, <2>2, RowWrites DEF RowKept, Statuses
  <1>3. ASSUME NEW outcome \in {"blocked", "completed"}, AppEnds(w, outcome) PROVE RowKept
    <2>1. row \in TaskRow BY <1>3, RunningApp DEF AppEnds
    <2> QED BY <1>3, <2>1, RowEdits DEF AppEnds, RowKept
  <1>4. CASE AppWrites(w)
    <2>1. row \in TaskRow /\ worker[w].read.metadata \in Metadata
      BY <1>4, RunningApp DEF AppWrites
    <2> DEFINE m == [worker[w].read.metadata EXCEPT !.validated = TRUE,
                                                    !.review_status = "approved"]
    <2>2. m \in Metadata BY <2>1, MetadataEdits
    <2>3. \/ row' = row \/ row' = Becomes("RUNNING", m)
          \/ row' = Becomes("BLOCKED", worker[w].read.metadata)
      BY <1>4 DEF AppWrites
    <2> HIDE DEF m
    <2>4. QED BY <2>1, <2>2, <2>3, RowWrites DEF RowKept, Statuses
  <1>5. CASE AppAwaitsCI(w)
    <2>1. row \in TaskRow BY <1>5, RunningApp DEF AppAwaitsCI
    <2> QED BY <1>5, <2>1, RowEdits DEF AppAwaitsCI, RowKept
  <1>6. QED BY <1>1, <1>2, <1>3, <1>4, <1>5 DEF AppStep

-----------------------------------------------------------------------------
(* The issue *)

\* The row is kept, or is a new one, from a contract.
RowMade == RowKept \/ (row = Absent /\ row' = NewTask("contract"))

LEMMA RowStaysTyped ==
  ASSUME LocalInv, RowMade
  PROVE  /\ row' \in TaskRow \cup {Absent}
         /\ row # Absent => row' # Absent
         /\ row' # Absent => row'.body = "contract"
  BY Typed, AbsentIsNoRow, NewTaskTypes
  DEF LocalInv, RowMade, RowKept, IntakeInv, Bodies

LEMMA PollMakesRows ==
  ASSUME LocalInv, Issues!PollStep
  PROVE  RowMade
  BY DEF LocalInv, IntakeInv, RowMade, RowKept, Issues!PollStep, Issues!Lists,
         Issues!IsNotDue, Issues!LooksUp, Issues!Formats, Issues!Refuses, Issues!Creates,
         Issues!Inserts, Issues!Acknowledges, Issues!RemovesLabel, Issues!PollFails

LEMMA PeopleMakeRows ==
  ASSUME LocalInv, Issues!PeopleStep
  PROVE  RowMade
  BY DEF LocalInv, IntakeInv, RowMade, RowKept, Issues!PeopleStep, Issues!SubmitReads,
         Issues!SubmitFormats, Issues!SubmitCreates, Issues!SubmitInserts,
         Issues!AuthorEdits, Issues!AuthorLabels

\* Whoever handles the issue goes on with a description in the right form, or to a task
\* that is there.
LEMMA PollKeepsIntake ==
  ASSUME LocalInv, Issues!PollStep
  PROVE  Issues!IntakeTypeOK' /\ IntakeInv'
  <1>1. /\ Issues!IntakeTypeOK /\ IntakeInv
        /\ row # Absent => row' # Absent
        /\ row' # Absent => row'.body = "contract"
    BY PollMakesRows, RowStaysTyped DEF LocalInv, LocalTypeOK
  <1> USE DEF Issues!IntakeTypeOK, IntakeInv, Issues!Resting, Issues!PollGoes,
              Issues!PollPhases, Issues!SubmitPhases, Issues!Bodies
  <1>2. CASE Issues!Lists \/ Issues!IsNotDue
    BY <1>1, <1>2 DEF Issues!Lists, Issues!IsNotDue
  <1>3. CASE Issues!LooksUp
    BY <1>1, <1>3 DEF Issues!LooksUp, Issues!Looks
  <1>4. CASE Issues!Formats \/ Issues!Refuses
    BY <1>1, <1>4 DEF Issues!Formats, Issues!Refuses, Issues!Formatted
  <1>5. CASE Issues!Creates
    BY <1>1, <1>5 DEF Issues!Creates
  <1>6. CASE Issues!Inserts
    <2>1. row' # Absent
      BY <1>1, <1>6, NewTaskTypes, AbsentIsNoRow DEF Issues!Inserts, Bodies
    <2> QED BY <1>1, <1>6, <2>1 DEF Issues!Inserts
  <1>7. CASE Issues!Acknowledges \/ Issues!PollFails
    BY <1>1, <1>7 DEF Issues!Acknowledges, Issues!PollFails
  <1>8. CASE Issues!RemovesLabel
    BY <1>1, <1>8 DEF Issues!RemovesLabel
  <1>9. QED BY <1>2, <1>3, <1>4, <1>5, <1>6, <1>7, <1>8 DEF Issues!PollStep

LEMMA PeopleKeepIntake ==
  ASSUME LocalInv, Issues!PeopleStep
  PROVE  Issues!IntakeTypeOK' /\ IntakeInv'
  <1>1. /\ Issues!IntakeTypeOK /\ IntakeInv
        /\ row # Absent => row' # Absent
        /\ row' # Absent => row'.body = "contract"
    BY PeopleMakeRows, RowStaysTyped DEF LocalInv, LocalTypeOK
  <1> USE DEF Issues!IntakeTypeOK, IntakeInv, Issues!Resting, Issues!PollPhases,
              Issues!SubmitPhases, Issues!Bodies
  <1>2. CASE Issues!SubmitReads
    BY <1>1, <1>2 DEF Issues!SubmitReads
  <1>3. CASE Issues!SubmitFormats \/ Issues!SubmitCreates
    BY <1>1, <1>3 DEF Issues!SubmitFormats, Issues!SubmitCreates, Issues!Formatted
  <1>4. CASE Issues!SubmitInserts
    BY <1>1, <1>4 DEF Issues!SubmitInserts
  <1>5. CASE Issues!AuthorLabels \/ \E body \in Issues!Bodies : Issues!AuthorEdits(body)
    BY <1>1, <1>5 DEF Issues!AuthorLabels, Issues!AuthorEdits
  <1>6. QED BY <1>2, <1>3, <1>4, <1>5 DEF Issues!PeopleStep

\* All others leave it alone, or begin another poll.
LEMMA OthersKeepIntake ==
  ASSUME LocalInv, RowKept, UNCHANGED <<issue, submit>>,
         poll' = poll \/ poll' = Issues!Resting("due")
  PROVE  Issues!IntakeTypeOK' /\ IntakeInv'
  <1>1. /\ Issues!IntakeTypeOK /\ IntakeInv
        /\ row # Absent => row' # Absent
        /\ row' # Absent => row'.body = "contract"
    BY RowStaysTyped DEF LocalInv, LocalTypeOK, RowMade
  <1>2. QED
    BY <1>1
    DEF Issues!IntakeTypeOK, IntakeInv, Issues!Resting, Issues!PollPhases, Issues!Bodies

-----------------------------------------------------------------------------
(* The processes *)

ProcessInv == worker \in [Workers -> WorkerRecords] /\ WorkersInv /\ LockInv

LEMMA SameDispatched ==
  ASSUME \A w \in Workers : Exists(w)' <=> Exists(w)
  PROVE  Dispatched' = Dispatched
  <1>1. {w \in Workers : Exists(w)}' = {w \in Workers : Exists(w)}
    OBVIOUS
  <1>2. QED BY <1>1 DEF Dispatched

\* A worker that goes on or ends takes no lock, and what ended does not work again.
LEMMA OneWorkerMoves ==
  ASSUME LocalInv, row' # Absent, UNCHANGED <<transport, reviewer>>,
         NEW w \in Workers, Exists(w), NEW rec \in WorkerRecords,
         worker' = [worker EXCEPT ![w] = rec],
         rec.client # "none",
         rec.entry = worker[w].entry \/ rec.entry = "done",
         Works(w) \/ rec.app \in {"none", "ok", "bad"}
  PROVE  ProcessInv' /\ Dispatched' = Dispatched
  <1>1. worker \in [Workers -> WorkerRecords] /\ WorkersInv /\ LockInv
    BY Typed DEF LocalInv
  <1>2. worker' \in [Workers -> WorkerRecords]
    BY <1>1
  <1>3. worker'[w] = rec /\ \A v \in Workers \ {w} : worker'[v] = worker[v]
    BY <1>1
  <1>4. \A v \in Workers : Exists(v)' <=> Exists(v)
    BY <1>3 DEF Exists
  <1>5. WorkersInv'
    BY <1>1, <1>3 DEF WorkersInv, Exists
  <1>6. \A v \in Workers : worker'[v].entry = "working" => worker[v].entry = "working"
    BY <1>3
  <1>7. \A v \in Workers :
          Works(v)' => Works(v) /\ (worker'[v].entry = worker[v].entry \/ worker'[v].entry = "done")
    BY <1>3 DEF Works
  <1>8. LockInv'
    BY <1>1, <1>6, <1>7 DEF LockInv, Remote
  <1>9. QED BY <1>2, <1>4, <1>5, <1>8, SameDispatched DEF ProcessInv

\* The reviewer starts when nobody has the lock.
LEMMA WorkersStay ==
  ASSUME LocalInv, RowMade, UNCHANGED <<transport, worker>>,
         reviewer' => reviewer \/ ~(Remote /\ Locked)
  PROVE  ProcessInv' /\ Dispatched' = Dispatched
  <1>1. worker \in [Workers -> WorkerRecords] /\ WorkersInv /\ LockInv
    BY Typed DEF LocalInv
  <1>2. \A v \in Workers : Exists(v)' <=> Exists(v)
    BY DEF Exists
  <1>3. WorkersInv'
    BY <1>1, RowStaysTyped DEF WorkersInv, Exists
  <1>4. LockInv'
    BY <1>1 DEF LockInv, Remote, Locked, Works
  <1>5. QED BY <1>1, <1>2, <1>3, <1>4, SameDispatched DEF ProcessInv

LEMMA RestartProcesses ==
  ASSUME LocalInv, RowMade, Restarts
  PROVE  /\ ProcessInv' /\ Dispatched' = Dispatched
         /\ reviewer' \in BOOLEAN /\ UNCHANGED <<transport, checkpoint>>
  <1>1. worker \in [Workers -> WorkerRecords] /\ WorkersInv /\ LockInv
    BY Typed DEF LocalInv
  <1>2. PICK killed \in BOOLEAN :
          worker' = [w \in Workers |->
            IF worker[w].client # "running" THEN worker[w]
            ELSE [worker[w] EXCEPT !.client = "gone",
                                   !.app = IF killed /\ ~Remote THEN "bad" ELSE @]]
    BY DEF Restarts
  <1>3. ASSUME NEW w \in Workers
        PROVE  /\ worker'[w] \in WorkerRecords
               /\ worker'[w].client = "none" <=> worker[w].client = "none"
               /\ worker'[w].entry = worker[w].entry
               /\ ~Exists(w) => worker'[w] = worker[w]
               /\ Remote => worker'[w].app = worker[w].app
    <2>1. worker[w] \in WorkerRecords
      BY <1>1
    <2>2. CASE worker[w].client # "running"
      BY <1>2, <2>1, <2>2
    <2>3. CASE worker[w].client = "running"
      <3>1. worker'[w] = [worker[w] EXCEPT !.client = "gone",
                                           !.app = IF killed /\ ~Remote THEN "bad" ELSE @]
        BY <1>2, <2>3
      <3>2. QED BY <2>1, <2>3, <3>1 DEF WorkerRecords, AppPhases, Exists
    <2>4. QED BY <2>2, <2>3
  <1>4. worker' \in [Workers -> WorkerRecords]
    BY <1>2, <1>3
  <1>5. \A w \in Workers : Exists(w)' <=> Exists(w)
    BY <1>3 DEF Exists
  <1>6. WorkersInv'
    BY <1>1, <1>3, <1>5, RowStaysTyped DEF WorkersInv
  <1>7. /\ UNCHANGED <<transport, checkpoint>>
        /\ reviewer' = (reviewer /\ Remote)
    BY DEF Restarts
  <1>8. LockInv'
    <2>1. SUFFICES ASSUME Remote, NEW w \in Workers
          PROVE  /\ worker'[w].entry = "working" =>
                      ~reviewer' /\ \A v \in Workers \ {w} : worker'[v].entry # "working"
                 /\ Works(w)' => worker'[w].entry \in {"working", "done"}
      BY <1>7 DEF LockInv, Remote
    <2>2. /\ worker[w].entry = "working" =>
               ~reviewer /\ \A v \in Workers \ {w} : worker[v].entry # "working"
          /\ Works(w) => worker[w].entry \in {"working", "done"}
      BY <1>1, <2>1 DEF LockInv
    <2>3. \A v \in Workers : worker'[v].entry = worker[v].entry
      BY <1>3
    <2>4. reviewer' = reviewer
      BY <1>1, <1>7, <2>1, Typed DEF LocalInv, LocalTypeOK
    <2>5. Works(w)' <=> Works(w)
      BY <1>3, <2>1 DEF Works
    <2>6. worker'[w].entry = "working" =>
            ~reviewer' /\ \A v \in Workers \ {w} : worker'[v].entry # "working"
      BY <2>2, <2>3, <2>4
    <2>7. Works(w)' => worker'[w].entry \in {"working", "done"}
      BY <2>2, <2>3, <2>5
    <2>8. QED BY <2>6, <2>7
  <1>9. QED BY <1>4, <1>5, <1>6, <1>7, <1>8, SameDispatched DEF ProcessInv

LEMMA SpawnProcesses ==
  ASSUME LocalInv, Spawns
  PROVE  ProcessInv'
  <1>1. /\ worker \in [Workers -> WorkerRecords] /\ WorkersInv /\ LockInv
        /\ row # Absent /\ UNCHANGED <<row, transport, reviewer>>
    BY Typed DEF LocalInv, PassInv, Spawns, At
  <1> DEFINE w == Dispatched + 1
             resume == sched.snap.status = "BLOCKED"
             rec == [client |-> "running",
                     entry |-> IF Remote THEN "starting" ELSE "none",
                     app |-> IF Remote THEN "none" ELSE "starting",
                     resume |-> resume, ci_repair |-> resume /\ ToRepair(sched.snap),
                     read |-> NoRow]
  <1>2. rec \in WorkerRecords
    BY NewTaskTypes DEF WorkerRecords, AppPhases
  <1>3. w \in Workers
    BY DispatchedBound, LocalAssumption DEF LocalInv, PassInv, Spawns, At, Workers
  <1>4. worker' = [worker EXCEPT ![w] = rec]
    BY DEF Spawns
  <1>5. /\ rec.client = "running" /\ rec.entry # "working"
        /\ Remote => rec.app = "none"
    OBVIOUS
  <1> HIDE DEF w, rec
  <1>6. worker'[w] = rec /\ \A v \in Workers \ {w} : worker'[v] = worker[v]
    BY <1>1, <1>3, <1>4
  <1>7. worker' \in [Workers -> WorkerRecords]
    BY <1>1, <1>2, <1>4
  <1>8. WorkersInv'
    BY <1>1, <1>5, <1>6 DEF WorkersInv, Exists
  <1>9. LockInv'
    BY <1>1, <1>5, <1>6 DEF LockInv, Remote, Works
  <1>10. QED BY <1>7, <1>8, <1>9 DEF ProcessInv

\* The three ways a step of a workflow's process ends.
LEMMA AppMoves ==
  ASSUME LocalInv, row' # Absent, UNCHANGED <<transport, reviewer>>,
         NEW w \in Workers, Works(w),
         \/ \E pc \in AppPhases : AppGoes(w, pc) \/ AppReads(w, pc)
         \/ \E code \in {"ok", "bad"} : AppExits(w, code)
  PROVE  ProcessInv' /\ Dispatched' = Dispatched
  <1>1. /\ worker \in [Workers -> WorkerRecords] /\ worker[w] \in WorkerRecords
        /\ Exists(w) /\ row \in TaskRow /\ worker[w].client # "none"
    BY RunningApp, Typed DEF LocalInv, Works, Exists
  <1>2. ASSUME NEW pc \in AppPhases, NEW r \in TaskRow,
               worker' = [worker EXCEPT ![w].app = pc, ![w].read = r]
        PROVE  ProcessInv' /\ Dispatched' = Dispatched
    <2> DEFINE rec == [worker[w] EXCEPT !.app = pc, !.read = r]
    <2>1. worker' = [worker EXCEPT ![w] = rec]
      BY <1>1, <1>2
    <2>2. /\ rec \in WorkerRecords
          /\ rec.client = worker[w].client /\ rec.entry = worker[w].entry
      BY <1>1 DEF WorkerRecords
    <2> HIDE DEF rec
    <2>3. QED BY <1>1, <2>1, <2>2, OneWorkerMoves
  <1>3. ASSUME NEW code \in {"ok", "bad"}, AppExits(w, code)
        PROVE  ProcessInv' /\ Dispatched' = Dispatched
    <2> DEFINE entry == IF worker[w].entry = "working" THEN "done" ELSE worker[w].entry
               client == IF worker[w].client = "running" THEN code ELSE worker[w].client
               rec == [worker[w] EXCEPT !.app = code, !.read = NoRow, !.entry = entry,
                                        !.client = client]
    <2>1. worker' = [worker EXCEPT ![w] = rec]
      BY <1>1, <1>3 DEF AppExits
    <2>2. /\ entry = worker[w].entry \/ entry = "done"
          /\ entry \in {"none", "starting", "working", "done"}
          /\ client # "none" /\ client \in {"none", "running", "gone", "ok", "bad"}
      BY <1>1 DEF WorkerRecords
    <2> HIDE DEF entry, client
    <2>3. rec \in WorkerRecords /\ rec.entry = entry /\ rec.client = client
      BY <1>1, <2>2, NewTaskTypes DEF WorkerRecords, AppPhases
    <2> HIDE DEF rec
    <2>4. QED BY <1>1, <2>1, <2>2, <2>3, OneWorkerMoves
  <1>4. QED BY <1>1, <1>2, <1>3, NewTaskTypes DEF AppGoes, AppReads

LEMMA AppStepMoves ==
  ASSUME NEW w \in Workers, AppStep(w)
  PROVE  /\ Works(w)
         /\ UNCHANGED <<transport, intake, sched, reviewer, faults>>
         /\ \/ \E pc \in AppPhases : AppGoes(w, pc) \/ AppReads(w, pc)
            \/ \E code \in {"ok", "bad"} : AppExits(w, code)
  <1> USE DEF outside, Works, AppPhases
  <1>1. CASE AppBegins(w) BY <1>1 DEF AppBegins
  <1>2. CASE AppResumes(w) BY <1>2 DEF AppResumes
  <1>3. CASE AppRefuses(w) BY <1>3 DEF AppRefuses
  <1>4. CASE AppReadsTask(w) BY <1>4 DEF AppReadsTask
  <1>5. CASE AppOpens(w) \/ AppTracks(w) BY <1>5 DEF AppOpens, AppTracks, AppMarks
  <1>6. CASE \E outcome \in {"blocked", "completed"} : AppEnds(w, outcome)
    BY <1>6 DEF AppEnds
  <1>7. CASE AppSyncs(w) BY <1>7 DEF AppSyncs
  <1>8. CASE AppWrites(w) BY <1>8 DEF AppWrites
  <1>9. CASE AppChecksStatus(w) BY <1>9 DEF AppChecksStatus
  <1>10. CASE AppAwaitsCI(w) BY <1>10 DEF AppAwaitsCI
  <1>11. QED
    BY <1>1, <1>2, <1>3, <1>4, <1>5, <1>6, <1>7, <1>8, <1>9, <1>10 DEF AppStep

\* The entry point takes the lock only when it is free.
LEMMA EntryProcesses ==
  ASSUME LocalInv, NEW w \in Workers, EntryStarts(w)
  PROVE  ProcessInv' /\ Dispatched' = Dispatched
  <1>1. /\ worker \in [Workers -> WorkerRecords] /\ worker[w] \in WorkerRecords
        /\ WorkersInv /\ LockInv
        /\ worker[w].entry = "starting" /\ UNCHANGED <<row, transport, reviewer>>
    BY Typed DEF LocalInv, EntryStarts, outside
  <1>2. Exists(w) /\ row # Absent
    BY <1>1 DEF WorkersInv
  <1>3. CASE EntryEnds(w, "bad")
    <2> DEFINE client == IF worker[w].client = "running" THEN "bad" ELSE worker[w].client
               rec == [worker[w] EXCEPT !.entry = "done", !.client = client]
    <2>1. worker' = [worker EXCEPT ![w] = rec]
      BY <1>1, <1>3 DEF EntryEnds
    <2>2. client # "none" /\ client \in {"none", "running", "gone", "ok", "bad"}
      BY <1>1, <1>2 DEF WorkerRecords, Exists
    <2> HIDE DEF client
    <2>3. /\ rec \in WorkerRecords /\ rec.entry = "done" /\ rec.client = client
          /\ rec.app = worker[w].app
      BY <1>1, <2>2 DEF WorkerRecords
    <2> HIDE DEF rec
    <2>4. QED BY <1>1, <1>2, <2>1, <2>2, <2>3, OneWorkerMoves DEF Works
  <1>4. CASE ~Locked /\ ~EntryEnds(w, "bad")
    <2> DEFINE rec == [worker[w] EXCEPT !.entry = "working", !.app = "starting"]
    <2>1. worker' = [worker EXCEPT ![w] = rec]
      BY <1>1, <1>4 DEF EntryStarts
    <2>2. /\ rec \in WorkerRecords /\ rec.entry = "working"
          /\ rec.client = worker[w].client
      BY <1>1 DEF WorkerRecords, AppPhases
    <2> HIDE DEF rec
    <2>3. worker'[w] = rec /\ \A v \in Workers \ {w} : worker'[v] = worker[v]
      BY <1>1, <2>1
    <2>4. worker' \in [Workers -> WorkerRecords]
      BY <1>1, <2>1, <2>2
    <2>5. \A v \in Workers : Exists(v)' <=> Exists(v)
      BY <2>2, <2>3 DEF Exists
    <2>6. WorkersInv'
      BY <1>1, <1>2, <2>2, <2>3, <2>5 DEF WorkersInv, Exists
    <2>7. LockInv'
      BY <1>1, <1>4, <2>2, <2>3 DEF LockInv, Remote, Locked, Works
    <2>8. QED BY <2>4, <2>5, <2>6, <2>7, SameDispatched DEF ProcessInv
  <1>5. QED BY <1>3, <1>4 DEF EntryStarts

LEMMA FaultProcesses ==
  ASSUME LocalInv, NEW w \in Workers, WorkerFault(w)
  PROVE  ProcessInv' /\ Dispatched' = Dispatched
  <1>1. /\ worker \in [Workers -> WorkerRecords] /\ worker[w] \in WorkerRecords
        /\ WorkersInv /\ UNCHANGED <<row, transport, reviewer>>
    BY Typed
    DEF LocalInv, WorkerFault, EntryIsUnhealthy, SessionIsLost, EntryDies, AppDies, outside
  <1>2. Exists(w) /\ row # Absent
    BY <1>1
    DEF WorkersInv, Exists, WorkerFault, EntryIsUnhealthy, SessionIsLost, EntryDies, AppDies,
        Works
  <1>3. CASE EntryIsUnhealthy(w) \/ EntryDies(w)
    <2> DEFINE client == IF worker[w].client = "running" THEN "bad" ELSE worker[w].client
               rec == [worker[w] EXCEPT !.entry = "done", !.client = client]
    <2>1. worker' = [worker EXCEPT ![w] = rec]
      BY <1>1, <1>3 DEF EntryIsUnhealthy, EntryDies, EntryEnds
    <2>2. client # "none" /\ client \in {"none", "running", "gone", "ok", "bad"}
      BY <1>1, <1>2 DEF WorkerRecords, Exists
    <2> HIDE DEF client
    <2>3. /\ rec \in WorkerRecords /\ rec.entry = "done" /\ rec.client = client
          /\ rec.app = worker[w].app
      BY <1>1, <2>2 DEF WorkerRecords
    <2> HIDE DEF rec
    <2>4. QED BY <1>1, <1>2, <2>1, <2>2, <2>3, OneWorkerMoves DEF Works
  <1>4. CASE SessionIsLost(w)
    <2> DEFINE rec == [worker[w] EXCEPT !.client = "bad"]
    <2>1. worker' = [worker EXCEPT ![w] = rec]
      BY <1>1, <1>4 DEF SessionIsLost
    <2>2. /\ rec \in WorkerRecords /\ rec.entry = worker[w].entry
          /\ rec.client = "bad" /\ rec.app = worker[w].app
      BY <1>1 DEF WorkerRecords
    <2> HIDE DEF rec
    <2>3. QED BY <1>1, <1>2, <2>1, <2>2, OneWorkerMoves DEF Works
  <1>5. CASE AppDies(w)
    BY <1>1, <1>2, <1>5, AppMoves DEF AppDies
  <1>6. QED BY <1>3, <1>4, <1>5 DEF WorkerFault

-----------------------------------------------------------------------------
(* The pass *)

PassKept == sched' \in Passes /\ PassInv'

\* Wherever the pass goes, it has what it needs there.
LEMMA Arrives ==
  ASSUME LocalInv, RowMade, Dispatched' = Dispatched,
         NEW pc \in SchedulerPhases, NEW snap \in TaskRow \cup {Absent},
         NEW w \in Workers \cup {NoWorker},
         sched' = [pc |-> pc, snap |-> snap, w |-> w],
         pc \in HasRead => snap \in TaskRow,
         pc # "intake" => row # Absent,
         pc \in {"dispatch", "spawn"} => Dispatched < MaxDispatches
  PROVE  PassKept
  BY RowStaysTyped DEF PassKept, PassInv, Passes

LEMMA GoesOn ==
  ASSUME LocalInv, RowMade, Dispatched' = Dispatched,
         NEW pc \in SchedulerPhases \ HasRead, Goes(pc), pc # "intake" => row # Absent
  PROVE  PassKept
  BY Arrives DEF Goes, HasRead

LEMMA ReadsRow ==
  ASSUME LocalInv, RowMade, Dispatched' = Dispatched,
         NEW pc \in SchedulerPhases, Reads(pc), row # Absent,
         pc \in {"dispatch", "spawn"} => Dispatched < MaxDispatches
  PROVE  PassKept
  <1>1. /\ row \in TaskRow /\ sched \in Passes
        /\ sched' = [sched EXCEPT !.pc = pc, !.snap = row]
    BY Typed DEF LocalInv, Reads
  <1>2. sched.w \in Workers \cup {NoWorker} /\ sched' = [pc |-> pc, snap |-> row, w |-> sched.w]
    BY <1>1 DEF Passes
  <1>3. QED BY <1>1, <1>2, Arrives

LEMMA KeepsRead ==
  ASSUME LocalInv, RowMade, Dispatched' = Dispatched,
         NEW pc \in SchedulerPhases \ {"dispatch"}, sched.pc \in HasRead,
         sched' = [sched EXCEPT !.pc = pc],
         pc = "spawn" => sched.pc = "dispatch"
  PROVE  PassKept
  <1>1. sched.snap \in TaskRow /\ sched \in Passes /\ row # Absent
    BY Typed, ReadRow, AbsentIsNoRow DEF LocalInv
  <1>2. /\ sched.w \in Workers \cup {NoWorker}
        /\ sched' = [pc |-> pc, snap |-> sched.snap, w |-> sched.w]
    BY <1>1 DEF Passes
  <1>3. pc \in {"dispatch", "spawn"} => Dispatched < MaxDispatches
    BY DEF LocalInv, PassInv
  <1>4. QED BY <1>1, <1>2, <1>3, Arrives

\* The processes, and what the intake knows, are left, or the scheduler restarts.
LeavesOthers ==
  /\ UNCHANGED <<transport, issue, submit, worker, checkpoint>>
  /\ poll' = poll \/ poll' = Issues!Resting("due")
  /\ reviewer' \in BOOLEAN
  /\ reviewer' => reviewer \/ ~(Remote /\ Locked)

LEMMA OthersLeft ==
  ASSUME LocalInv, RowMade, LeavesOthers
  PROVE  ProcessInv' /\ Dispatched' = Dispatched
  BY WorkersStay DEF LeavesOthers

LEMMA ContinuesKeeps ==
  ASSUME LocalInv, RowMade, NEW pc \in SchedulerPhases \ HasRead, Continues(pc),
         row # Absent
  PROVE  LeavesOthers /\ PassKept
  <1>1. LeavesOthers
    BY DEF Continues, LeavesOthers, intake, processes, LocalInv, LocalTypeOK
  <1>2. QED BY <1>1, OthersLeft, GoesOn DEF Continues

LEMMA RestartKeeps ==
  ASSUME LocalInv, RowMade, Restarts
  PROVE  PassKept
  BY RestartProcesses, GoesOn DEF Restarts, SchedulerPhases, HasRead

LEMMA RestartIntake ==
  ASSUME Restarts
  PROVE  UNCHANGED <<issue, submit>> /\ poll' = Issues!Resting("due")
  BY DEF Restarts

\* A write that may be refused, and what follows it.
LEMMA WritesKeep ==
  ASSUME LocalInv, RowMade, NEW new, NEW pc \in SchedulerPhases \ HasRead,
         WritesOrRestarts(new, pc) \/ WritesIfStill(new, pc), row # Absent
  PROVE  (LeavesOthers \/ Restarts) /\ PassKept
  <1>1. CASE Restarts BY <1>1, RestartKeeps
  <1>2. CASE Continues(pc) BY <1>2, ContinuesKeeps
  <1>3. QED BY <1>1, <1>2 DEF WritesOrRestarts, WritesIfStill

LEMMA PassKeeps ==
  ASSUME LocalInv, RowMade, PassStep \/ SchedulerCrashes, ~PollsIssues, ~Spawns
  PROVE  (LeavesOthers \/ Restarts) /\ PassKept
  <1>1. sched.pc # "intake" => row # Absent
    BY DEF LocalInv, PassInv
  <1>2. CASE InsertCollides \/ SchedulerCrashes
    BY <1>2, RestartKeeps DEF InsertCollides, SchedulerCrashes
  <1>3. CASE ListsActive
    <2>1. LeavesOthers
      BY <1>3 DEF ListsActive, LeavesOthers, processes, LocalInv, LocalTypeOK
    <2>2. row.status = "RUNNING" => row # Absent
      BY DEF Absent
    <2>3. QED
      BY <1>3, <2>1, <2>2, OthersLeft, ReadsRow, GoesOn
      DEF ListsActive, SchedulerPhases, HasRead
  <1>4. CASE ActiveIsHeld \/ ProbeFails \/ DispatchPaused \/ ExitedIsLeft \/ CIUnknown
    BY <1>1, <1>4, ContinuesKeeps
    DEF ActiveIsHeld, ProbeFails, DispatchPaused, ExitedIsLeft, CIUnknown, At,
        SchedulerPhases, HasRead
  <1>5. CASE Recovers \/ ExitedIsBlocked \/ CIFails \/ ReviewIsRefused
             \/ ReviewSessionIsLost \/ ReviewIsJudged
    BY <1>1, <1>5, WritesKeep
    DEF Recovers, ExitedIsBlocked, CIFails, ReviewIsRefused, ReviewSessionIsLost,
        ReviewIsJudged, At, SchedulerPhases, HasRead
  <1>6. CASE ActiveIsGone \/ ExitedIsGone \/ ReviewReturns
    <2>1. CASE ActiveIsGone \/ ExitedIsGone
      <3>1. LeavesOthers
        BY <2>1
        DEF ActiveIsGone, ExitedIsGone, LeavesOthers, intake, processes, LocalInv,
            LocalTypeOK
      <3>2. QED
        BY <2>1, <3>1, OthersLeft, KeepsRead
        DEF ActiveIsGone, ExitedIsGone, At, SchedulerPhases, HasRead
    <2>2. CASE ReviewReturns
      <3>1. LeavesOthers
        BY <2>2 DEF ReviewReturns, LeavesOthers, intake
      <3>2. QED
        BY <2>2, <3>1, OthersLeft, KeepsRead DEF ReviewReturns, At, SchedulerPhases, HasRead
    <2>3. QED BY <1>6, <2>1, <2>2
  <1>7. CASE ReviewStarts
    <2>1. LeavesOthers
      BY <1>7 DEF ReviewStarts, LeavesOthers, intake
    <2>2. QED
      BY <1>7, <2>1, OthersLeft, KeepsRead
      DEF ReviewStarts, At, SchedulerPhases, HasRead
  <1>8. CASE ListsCandidates
    <2>1. LeavesOthers
      BY <1>8 DEF ListsCandidates, LeavesOthers, intake, processes, LocalInv, LocalTypeOK
    <2>2. QED
      BY <1>1, <1>8, <2>1, OthersLeft, ReadsRow, GoesOn
      DEF ListsCandidates, At, SchedulerPhases, HasRead
  <1>9. CASE Claims
    <2>1. LeavesOthers
      BY <1>9 DEF Claims, LeavesOthers, intake, processes, LocalInv, LocalTypeOK
    <2>2. QED
      BY <1>1, <1>9, <2>1, OthersLeft, KeepsRead, GoesOn
      DEF Claims, At, SchedulerPhases, HasRead
  <1>10. CASE SpawnFails
    BY <1>1, <1>10, ContinuesKeeps, RestartKeeps
    DEF SpawnFails, At, SchedulerPhases, HasRead
  <1>11. CASE RecordReads
    <2>1. LeavesOthers
      BY <1>11 DEF RecordReads, LeavesOthers, intake, processes, LocalInv, LocalTypeOK
    <2>2. QED
      BY <1>1, <1>11, <2>1, OthersLeft, ReadsRow DEF RecordReads, At, SchedulerPhases
  <1>12. CASE Records
    <2>1. CASE Restarts BY <2>1, RestartKeeps
    <2>2. CASE ~Restarts
      <3>1. /\ LeavesOthers
            /\ sched' = [sched EXCEPT !.pc = "wait", !.snap = Absent]
        BY <1>12, <2>2 DEF Records, LeavesOthers, intake, processes, LocalInv, LocalTypeOK
      <3>2. /\ sched.w \in Workers \cup {NoWorker}
            /\ sched' = [pc |-> "wait", snap |-> Absent, w |-> sched.w]
        BY <3>1, Typed DEF LocalInv, Passes
      <3>3. row # Absent BY <1>1, <1>12 DEF Records, At
      <3>4. QED BY <3>1, <3>2, <3>3, OthersLeft, Arrives DEF SchedulerPhases, HasRead
    <2>3. QED BY <2>1, <2>2
  <1>13. CASE Heartbeats
    <2>1. LeavesOthers
      BY <1>13 DEF Heartbeats, LeavesOthers, intake, processes, LocalInv, LocalTypeOK
    <2>2. sched.pc = "wait" /\ UNCHANGED sched
      BY <1>13 DEF Heartbeats, At
    <2>3. PassKept
      BY <1>1, <2>2, Typed, RowStaysTyped DEF LocalInv, PassKept, PassInv, HasRead
    <2>4. QED BY <2>1, <2>3
  <1>14. CASE WaitEnds
    <2>1. LeavesOthers
      BY <1>14 DEF WaitEnds, LeavesOthers, intake, processes, LocalInv, LocalTypeOK
    <2>2. QED
      BY <1>1, <1>14, <2>1, OthersLeft, ReadsRow, GoesOn
      DEF WaitEnds, At, SchedulerPhases, HasRead
  <1>15. CASE PollsCI
    <2>1. LeavesOthers
      BY <1>15 DEF PollsCI, LeavesOthers, intake, processes, LocalInv, LocalTypeOK
    <2>2. row # Absent BY <1>1, <1>15 DEF PollsCI, At
    <2>3. Reads("ci") \/ Reads("review") \/ Goes("intake") BY <1>15 DEF PollsCI
    <2>4. QED
      BY <2>1, <2>2, <2>3, OthersLeft, ReadsRow, GoesOn DEF SchedulerPhases, HasRead
  <1>16. CASE CIPasses
    <2>1. CASE Restarts BY <2>1, RestartKeeps
    <2>2. CASE ~Restarts
      <3>1. /\ LeavesOthers
            /\ sched' = [pc |-> "review", snap |-> row', w |-> NoWorker]
        BY <1>16, <2>2 DEF CIPasses, LeavesOthers, intake, processes, LocalInv, LocalTypeOK
      <3>2. row' \in TaskRow /\ row # Absent
        BY <1>1, <1>16, RowStaysTyped DEF CIPasses, At
      <3>3. QED BY <3>1, <3>2, OthersLeft, Arrives DEF SchedulerPhases, HasRead
    <2>3. QED BY <2>1, <2>2
  <1>17. QED
    BY <1>2, <1>3, <1>4, <1>5, <1>6, <1>7, <1>8, <1>9, <1>10, <1>11, <1>12, <1>13, <1>14,
       <1>15, <1>16
    DEF PassStep

LEMMA SpawnKeeps ==
  ASSUME LocalInv, Spawns
  PROVE  PassKept
  <1>1. /\ row # Absent /\ row' = row /\ row \in TaskRow \cup {Absent}
        /\ Dispatched < MaxDispatches
    BY Typed DEF LocalInv, PassInv, Spawns, At
  <1>2. sched' = [pc |-> "record", snap |-> Absent, w |-> Dispatched + 1]
    BY DEF Spawns
  <1>3. Dispatched + 1 \in Workers
    BY <1>1, DispatchedBound, LocalAssumption DEF Workers
  <1> HIDE DEF Dispatched
  <1>4. sched' \in Passes /\ sched'.pc = "record"
    BY <1>2, <1>3 DEF Passes, SchedulerPhases
  <1>5. QED BY <1>1, <1>4 DEF PassKept, PassInv, HasRead

-----------------------------------------------------------------------------
(* The invariant is inductive *)

LEMMA Assembled ==
  ASSUME LocalInv, RowMade, PassKept, ProcessInv', Issues!IntakeTypeOK', IntakeInv',
         UNCHANGED transport, reviewer' \in BOOLEAN,
         checkpoint' \in {"none", "open", "blocked", "completed"},
         faults' = faults \/ Fault
  PROVE  LocalInv'
  <1>1. faults' \in 0 .. MaxFaults
    BY LocalAssumption DEF LocalInv, LocalTypeOK, Fault
  <1>2. transport' \in {"local", "mac_ssh"} /\ row' \in TaskRow \cup {Absent}
    BY RowStaysTyped DEF LocalInv, LocalTypeOK
  <1>3. LocalTypeOK'
    BY <1>1, <1>2 DEF LocalTypeOK, ProcessInv, WorkerRecords, PassKept, Passes
  <1>4. QED BY <1>3 DEF LocalInv, PassKept, ProcessInv

LEMMA LocalInitially == LocalInit => LocalInv
  <1> SUFFICES ASSUME LocalInit PROVE LocalInv
    OBVIOUS
  <1>1. row = Absent /\ Issues!IntakeTypeOK /\ IntakeInv
    BY DEF LocalInit, Issues!IntakeInit, Issues!IntakeTypeOK, Issues!Resting, Issues!Bodies,
           Issues!PollPhases, Issues!SubmitPhases, IntakeInv
  <1>2. NotStarted \in WorkerRecords
    BY NewTaskTypes DEF NotStarted, WorkerRecords, AppPhases
  <1>3. worker \in [Workers -> WorkerRecords] /\ \A w \in Workers : worker[w] = NotStarted
    BY <1>2 DEF LocalInit
  <1>4. sched \in Passes /\ sched.pc = "intake"
    BY DEF LocalInit, Passes, SchedulerPhases
  <1>5. LocalTypeOK
    <2>1. faults \in 0 .. MaxFaults BY LocalAssumption DEF LocalInit
    <2>2. /\ transport \in {"local", "mac_ssh"} /\ reviewer \in BOOLEAN
          /\ checkpoint \in {"none", "open", "blocked", "completed"}
      BY DEF LocalInit
    <2>3. QED BY <1>1, <1>3, <1>4, <2>1, <2>2 DEF LocalTypeOK, WorkerRecords, Passes
  <1>6. PassInv
    BY <1>4 DEF PassInv, HasRead
  <1>7. WorkersInv
    BY <1>3 DEF WorkersInv, Exists, NotStarted
  <1>8. LockInv
    BY <1>3 DEF LockInv, Works, NotStarted
  <1>9. QED BY <1>1, <1>5, <1>6, <1>7, <1>8 DEF LocalInv

LEMMA PassFaults ==
  ASSUME PassStep \/ SchedulerCrashes, ~PollsIssues
  PROVE  faults' = faults \/ Fault
  <1>1. CASE InsertCollides \/ SchedulerCrashes \/ ListsActive \/ ActiveIsHeld
             \/ ProbeFails \/ ActiveIsGone \/ Recovers \/ ListsCandidates
    BY <1>1 DEF InsertCollides, SchedulerCrashes, ListsActive, ActiveIsHeld, ProbeFails,
                ActiveIsGone, Recovers, ListsCandidates
  <1>2. CASE DispatchPaused \/ Claims \/ Spawns \/ SpawnFails \/ RecordReads \/ Records
             \/ Heartbeats \/ WaitEnds
    BY <1>2 DEF DispatchPaused, Claims, Spawns, SpawnFails, RecordReads, Records, Heartbeats,
                WaitEnds
  <1>3. CASE ExitedIsLeft \/ ExitedIsGone \/ ExitedIsBlocked \/ PollsCI \/ CIPasses
             \/ CIFails \/ CIUnknown
    BY <1>3 DEF ExitedIsLeft, ExitedIsGone, ExitedIsBlocked, PollsCI, CIPasses, CIFails,
                CIUnknown
  <1>4. CASE ReviewStarts \/ ReviewIsRefused \/ ReviewReturns \/ ReviewIsJudged
             \/ ReviewSessionIsLost
    BY <1>4 DEF ReviewStarts, ReviewIsRefused, ReviewReturns, ReviewIsJudged,
                ReviewSessionIsLost
  <1>5. QED BY <1>1, <1>2, <1>3, <1>4 DEF PassStep

LEMMA PassInvariant ==
  ASSUME LocalInv, PassStep \/ SchedulerCrashes
  PROVE  LocalInv'
  <1>1. CASE PollsIssues
    <2>1. /\ Issues!PollStep /\ UNCHANGED <<transport, sched, worker, reviewer, checkpoint>>
      BY <1>1 DEF PollsIssues, processes
    <2>2. RowMade /\ Issues!IntakeTypeOK' /\ IntakeInv'
      BY <2>1, PollMakesRows, PollKeepsIntake
    <2>3. ProcessInv' /\ Dispatched' = Dispatched
      BY <2>1, <2>2, WorkersStay
    <2>4. PassKept
      BY <2>1, <2>2, <2>3, Typed, RowStaysTyped DEF LocalInv, PassKept, PassInv
    <2>5. faults' = faults \/ Fault
      BY <2>1
      DEF Fault, Issues!PollStep, Issues!Lists, Issues!IsNotDue, Issues!LooksUp,
          Issues!Formats, Issues!Refuses, Issues!Creates, Issues!Inserts,
          Issues!Acknowledges, Issues!RemovesLabel, Issues!PollFails, Issues!Disturbs
    <2>6. QED BY <2>1, <2>2, <2>3, <2>4, <2>5, Assembled DEF LocalInv, LocalTypeOK
  <1>2. CASE ~PollsIssues /\ Spawns
    <2>1. UNCHANGED <<transport, issue, poll, submit, row, reviewer, checkpoint>> /\ RowMade
      BY <1>2 DEF Spawns, intake, RowMade, RowKept
    <2>2. Issues!IntakeTypeOK' /\ IntakeInv'
      BY <1>2, <2>1, OthersKeepIntake DEF RowKept
    <2>3. QED
      BY <1>2, <2>1, <2>2, SpawnProcesses, SpawnKeeps, PassFaults, Assembled
      DEF LocalInv, LocalTypeOK
  <1>3. CASE ~PollsIssues /\ ~Spawns
    <2>1. RowKept /\ RowMade
      BY <1>3, PassKeepsRow DEF RowMade
    <2>2. (LeavesOthers \/ Restarts) /\ PassKept
      BY <1>3, <2>1, PassKeeps
    <2>3. /\ ProcessInv' /\ reviewer' \in BOOLEAN
          /\ UNCHANGED <<transport, checkpoint>>
      BY <2>1, <2>2, OthersLeft, RestartProcesses DEF LeavesOthers
    <2>4. Issues!IntakeTypeOK' /\ IntakeInv'
      BY <2>1, <2>2, OthersKeepIntake, RestartIntake DEF LeavesOthers
    <2>5. QED
      BY <1>3, <2>1, <2>2, <2>3, <2>4, PassFaults, Assembled DEF LocalInv, LocalTypeOK
  <1>4. QED BY <1>1, <1>2, <1>3

LEMMA CheckpointTypes ==
  ASSUME LocalInv, NEW w \in Workers, AppStep(w)
  PROVE  checkpoint' \in {"none", "open", "blocked", "completed"}
  BY DEF LocalInv, LocalTypeOK, AppStep, AppBegins, AppOpens, AppResumes, AppRefuses,
         AppReadsTask, AppTracks, AppEnds, AppSyncs, AppWrites, AppChecksStatus, AppAwaitsCI

\* A step that leaves the pass and the issue alone.
LEMMA PassStays ==
  ASSUME LocalInv, RowKept, UNCHANGED <<issue, poll, submit, sched>>, Dispatched' = Dispatched
  PROVE  RowMade /\ PassKept /\ Issues!IntakeTypeOK' /\ IntakeInv'
  <1>1. RowMade BY DEF RowMade
  <1>2. PassKept BY <1>1, Typed, RowStaysTyped DEF LocalInv, PassKept, PassInv
  <1>3. QED BY <1>1, <1>2, OthersKeepIntake

LEMMA WorkerInvariant ==
  ASSUME LocalInv, NEW w \in Workers, EntryStarts(w) \/ AppStep(w) \/ WorkerFault(w)
  PROVE  LocalInv'
  <1>1. CASE AppStep(w)
    <2>1. /\ Works(w) /\ UNCHANGED <<transport, intake, sched, reviewer, faults>>
          /\ \/ \E pc \in AppPhases : AppGoes(w, pc) \/ AppReads(w, pc)
             \/ \E code \in {"ok", "bad"} : AppExits(w, code)
      BY <1>1, AppStepMoves
    <2>2. RowKept BY <1>1, AppKeepsRow
    <2>3. row' # Absent
      BY <2>1, <2>2, RunningApp, RowStaysTyped, AbsentIsNoRow DEF RowMade, Works
    <2>4. ProcessInv' /\ Dispatched' = Dispatched
      BY <2>1, <2>3, AppMoves
    <2>5. RowMade /\ PassKept /\ Issues!IntakeTypeOK' /\ IntakeInv'
      BY <2>1, <2>2, <2>4, PassStays DEF intake
    <2>6. QED
      BY <1>1, <2>1, <2>4, <2>5, CheckpointTypes, Assembled DEF LocalInv, LocalTypeOK
  <1>2. CASE EntryStarts(w) \/ WorkerFault(w)
    <2>1. /\ UNCHANGED <<transport, issue, poll, submit, sched, reviewer, row, checkpoint>>
          /\ faults' = faults \/ Fault
      BY <1>2
      DEF EntryStarts, WorkerFault, EntryIsUnhealthy, SessionIsLost, EntryDies, AppDies,
          outside, intake
    <2>2. RowKept BY <2>1 DEF RowKept
    <2>3. ProcessInv' /\ Dispatched' = Dispatched
      BY <1>2, EntryProcesses, FaultProcesses
    <2>4. RowMade /\ PassKept /\ Issues!IntakeTypeOK' /\ IntakeInv'
      BY <2>1, <2>2, <2>3, PassStays
    <2>5. QED BY <2>1, <2>3, <2>4, Assembled DEF LocalInv, LocalTypeOK
  <1>3. QED BY <1>1, <1>2

LEMMA OtherInvariant ==
  ASSUME LocalInv, ReviewEndsAlone \/ PeopleAct \/ UNCHANGED localVars
  PROVE  LocalInv'
  <1>1. CASE PeopleAct
    <2>1. Issues!PeopleStep /\ UNCHANGED <<transport, sched, worker, reviewer, checkpoint>>
      BY <1>1 DEF PeopleAct, processes
    <2>2. RowMade /\ Issues!IntakeTypeOK' /\ IntakeInv'
      BY <2>1, PeopleMakeRows, PeopleKeepIntake
    <2>3. ProcessInv' /\ Dispatched' = Dispatched
      BY <2>1, <2>2, WorkersStay
    <2>4. PassKept
      BY <2>1, <2>2, <2>3, Typed, RowStaysTyped DEF LocalInv, PassKept, PassInv
    <2>5. faults' = faults \/ Fault
      BY <2>1
      DEF Fault, Issues!PeopleStep, Issues!SubmitReads, Issues!SubmitFormats,
          Issues!SubmitCreates, Issues!SubmitInserts, Issues!AuthorEdits,
          Issues!AuthorLabels, Issues!Disturbs
    <2>6. QED BY <2>1, <2>2, <2>3, <2>4, <2>5, Assembled DEF LocalInv, LocalTypeOK
  <1>2. CASE ReviewEndsAlone \/ UNCHANGED localVars
    <2>1. /\ UNCHANGED <<transport, issue, poll, submit, row, sched, worker, checkpoint,
                          faults>>
          /\ reviewer' = FALSE \/ reviewer' = reviewer
      BY <1>2 DEF ReviewEndsAlone, intake, localVars
    <2>2. RowKept BY <2>1 DEF RowKept
    <2>3. ProcessInv' /\ Dispatched' = Dispatched
      BY <2>1, <2>2, WorkersStay DEF RowMade
    <2>4. RowMade /\ PassKept /\ Issues!IntakeTypeOK' /\ IntakeInv'
      BY <2>1, <2>2, <2>3, PassStays
    <2>5. reviewer' \in BOOLEAN BY <2>1 DEF LocalInv, LocalTypeOK
    <2>6. QED BY <2>1, <2>3, <2>4, <2>5, Assembled DEF LocalInv, LocalTypeOK
  <1>3. QED BY <1>1, <1>2

LEMMA LocalStep == LocalInv /\ [LocalNext]_localVars => LocalInv'
  BY PassInvariant, WorkerInvariant, OtherInvariant DEF LocalNext

LEMMA LocalInvariant == LocalSpec => []LocalInv
  BY LocalInitially, LocalStep, PTL DEF LocalSpec

-----------------------------------------------------------------------------
(* The properties of the run *)

\* The variables keep their types, whatever the processes and people do.
THEOREM LocalTypeCorrect == LocalSpec => []LocalTypeOK
  <1>1. LocalInv => LocalTypeOK BY DEF LocalInv
  <1>2. QED BY <1>1, LocalInvariant, PTL

\* A workspace on the Mac has one process at work in it, however many workers were
\* started, and however often the scheduler forgets them (mac_ssh_entrypoint.py).
THEOREM WorkspaceStaysExclusive == LocalSpec => []WorkspaceIsExclusive
  <1>1. LocalInv => WorkspaceIsExclusive
    BY DEF LocalInv, LockInv, WorkspaceIsExclusive
  <1>2. QED BY <1>1, LocalInvariant, PTL

\* Tasks are made of descriptions in the form of a contract only, whoever edits the issue
\* between the check and the insert (_poll_ready_issues, run_cli).
THEOREM TasksStayContracts == LocalSpec => []TasksAreContracts
  <1>1. LocalInv => TasksAreContracts
    BY DEF LocalInv, IntakeInv, TasksAreContracts
  <1>2. QED BY <1>1, LocalInvariant, PTL

\* Nobody but the author takes the label off an issue that has no task
\* (_poll_ready_issues).
THEOREM RequestsStay == LocalSpec => RequestsAreNotLost
  <1> DEFINE A == issue.label /\ ~issue'.label /\ faults' = faults => row # Absent
  <1>1. LocalInv /\ [LocalNext]_localVars => [A]_localVars
    <2> SUFFICES ASSUME LocalInv, LocalNext, issue.label, ~issue'.label, faults' = faults
                 PROVE  row # Absent
      OBVIOUS
    <2>1. issue' # issue OBVIOUS
    <2>2. CASE PollsIssues
      BY <2>1, <2>2
      DEF LocalInv, LocalTypeOK, IntakeInv, PollsIssues, Issues!PollStep, Issues!Lists,
          Issues!IsNotDue, Issues!LooksUp, Issues!Formats, Issues!Refuses, Issues!Creates,
          Issues!Inserts, Issues!Acknowledges, Issues!RemovesLabel, Issues!PollFails,
          Issues!IntakeTypeOK
    <2>3. CASE PeopleAct
      <3>1. faults \in Int BY DEF LocalInv, LocalTypeOK
      <3>2. ~Issues!Disturbs BY <3>1 DEF Issues!Disturbs
      <3>3. QED
        BY <2>1, <2>3, <3>2
        DEF LocalInv, LocalTypeOK, Issues!IntakeTypeOK, PeopleAct, Issues!PeopleStep,
            Issues!SubmitReads, Issues!SubmitFormats, Issues!SubmitCreates,
            Issues!SubmitInserts, Issues!AuthorEdits, Issues!AuthorLabels
    <2>4. CASE (PassStep \/ SchedulerCrashes) /\ ~PollsIssues
      <3>1. CASE Spawns BY <2>1, <3>1 DEF Spawns, intake
      <3>2. CASE ~Spawns
        BY <2>1, <2>4, <3>2, PassKeepsRow, PassKeeps, RestartIntake
        DEF RowMade, LeavesOthers
      <3>3. QED BY <3>1, <3>2
    <2>5. CASE \E w \in Workers : EntryStarts(w) \/ AppStep(w) \/ WorkerFault(w)
      BY <2>1, <2>5, AppStepMoves
      DEF EntryStarts, WorkerFault, EntryIsUnhealthy, SessionIsLost, EntryDies, AppDies,
          outside, intake
    <2>6. CASE ReviewEndsAlone BY <2>1, <2>6 DEF ReviewEndsAlone, intake
    <2>7. QED BY <2>2, <2>3, <2>4, <2>5, <2>6 DEF LocalNext
  <1>2. QED BY <1>1, LocalInvariant, PTL DEF LocalSpec, RequestsAreNotLost

=============================================================================
