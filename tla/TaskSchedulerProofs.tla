-------------------------- MODULE TaskSchedulerProofs --------------------------
(***************************************************************************)
(* Proofs about TaskScheduler, for any limits, numbers of jobs, revisions   *)
(* and faults.  What makes a row READY is justified by what happened to the *)
(* queue, the reviews and the pull request, and those never take anything   *)
(* back; so a copy of the row that was justified when it was read is        *)
(* justified when it is written, however long after.  The validation and    *)
(* the counters have no such backing: a copy without them may be written    *)
(* over them, and what forbids it is that one child at a time works, and    *)
(* which copies anybody holds while it does.                                *)
(***************************************************************************)
EXTENDS TaskScheduler, TLAPS

-----------------------------------------------------------------------------
(* The inductive invariant *)

\* A job that succeeded is over: nobody takes it again, and its child has ended.
Succeeded(j) == \E t \in Store!Tokens : verdict[j][t] = "succeeded"

\* The revisions a finished review approved.
ApprovedHeads ==
  {h \in Heads : \E j \in ReviewJobs : j[3] = h /\ review[j] = "approved" /\ Succeeded(j)}

\* The revisions that passed their checks, or follow one that did.
PassedHeads == {h \in Heads : \E g \in 1 .. h : github.checks[g] = "success"}

\* The status is one this metadata may come with.
Backed(status, metadata) ==
  /\ status = "READY" => metadata.review_head \in ApprovedHeads \cap PassedHeads
  /\ status = "DONE" /\ metadata.completion = "scheduler_poll" =>
       github.pr = "merged" /\ github.head \in ApprovedHeads

Justified(r) ==
  /\ Backed(r.status, r.metadata)
  /\ r.status # "DONE" /\ r.ci_status = "green" => github.head \in PassedHeads

\* What the pass knows where it is.
PassInv(s) ==
  /\ s.pc = "settle" => s.snap.metadata.runner_job # NoJob
  /\ s.pc = "dispatch" => s.snap.metadata.sequence <= MaxSequence /\ s.snap.status # "DONE"
  /\ s.pc \in {"enqueue", "enqueue_review"} => s.job \in JobIds
  /\ s.pc \in {"ci", "review", "enqueue_review"} =>
       s.snap.metadata.review_sequence <= MaxSequence
  /\ s.pc \in {"review", "enqueue_review"} => s.snap.status = "RUNNING"
  /\ s.pc = "merged" => s.snap.status = "READY"

HeadInv == github.pr # "none" => github.head \in Heads

\* Tokens are issued in order, and one that lives or succeeded is the last of its job.
TokensInv(j) ==
  /\ Store!Unissued(j) \/ \E t \in Store!Tokens : Store!Newest(j, t)
  /\ \A t \in Store!Tokens : verdict[j][t] \in {"succeeded", "live"} =>
       j \notin open /\ Store!Newest(j, t)

QueueInv ==
  \A j \in JobIds : TokensInv(j) /\ (Succeeded(j) => child[j].pc = "ok")

TaskInv ==
  /\ TaskTypeOK /\ PassInv(sched) /\ HeadInv /\ QueueInv
  /\ Justified(row) /\ Justified(sched.snap)

-----------------------------------------------------------------------------
(* Records *)

\* A row of this status, CI status and metadata.
IsEntry(r, status, ci, metadata) ==
  r \in TaskRow /\ r.status = status /\ r.ci_status = ci /\ r.metadata = metadata

CIStates == {"none", "queued", "green", "failed", "not_required"}

Passes == [pc : SchedulerPhases, snap : TaskRow, job : JobIds \cup {NoJob}]

Children == [pc : ChildPhases, metadata : Metadata, attempts : 0 .. MaxCount]

LEMMA Typed ==
  ASSUME TaskTypeOK
  PROVE  /\ row \in TaskRow /\ sched \in Passes /\ sched.snap \in TaskRow
         /\ child \in [JobIds -> Children]
         /\ github \in GitHubStates
  BY DEF TaskTypeOK, Passes, Children

LEMMA RowFields ==
  ASSUME NEW r \in TaskRow
  PROVE  /\ r.status \in Statuses /\ r.ci_status \in CIStates /\ r.ci_attempts \in Nat
         /\ r.implementation_attempts \in 0 .. MaxCount /\ r.metadata \in Metadata
  BY DEF TaskRow, CIStates

\* What is written into the row.
LEMMA RowForms ==
  ASSUME row \in TaskRow,
         NEW s \in Statuses, NEW m \in Metadata, NEW c \in CIStates, NEW n \in Nat,
         NEW k \in 0 .. MaxCount
  PROVE  /\ IsEntry(Becomes(s, m), s, row.ci_status, m)
         /\ IsEntry([Becomes(s, m) EXCEPT !.ci_status = c], s, c, m)
         /\ IsEntry([Becomes(s, m) EXCEPT !.ci_status = c, !.ci_attempts = n], s, c, m)
         /\ IsEntry([Becomes(s, m) EXCEPT !.implementation_attempts = k],
                    s, row.ci_status, m)
         /\ IsEntry([row EXCEPT !.status = s], s, row.ci_status, row.metadata)
         /\ IsEntry([row EXCEPT !.status = s, !.implementation_attempts = k],
                    s, row.ci_status, row.metadata)
         /\ IsEntry([row EXCEPT !.status = s, !.ci_status = c], s, c, row.metadata)
         /\ IsEntry([row EXCEPT !.metadata = m], row.status, row.ci_status, m)
  <1>1. IsEntry(Becomes(s, m), s, row.ci_status, m)
    BY DEF Becomes, IsEntry, TaskRow
  <1>2. IsEntry([Becomes(s, m) EXCEPT !.ci_status = c], s, c, m)
    BY <1>1 DEF IsEntry, TaskRow, CIStates
  <1>3. IsEntry([Becomes(s, m) EXCEPT !.ci_status = c, !.ci_attempts = n], s, c, m)
    BY <1>1 DEF IsEntry, TaskRow, CIStates
  <1>4. IsEntry([Becomes(s, m) EXCEPT !.implementation_attempts = k], s, row.ci_status, m)
    BY <1>1 DEF IsEntry, TaskRow
  <1>5. IsEntry([row EXCEPT !.status = s], s, row.ci_status, row.metadata)
    BY DEF IsEntry, TaskRow
  <1>6. IsEntry([row EXCEPT !.status = s, !.ci_status = c], s, c, row.metadata)
    BY DEF IsEntry, TaskRow, CIStates
  <1>7. IsEntry([row EXCEPT !.metadata = m], row.status, row.ci_status, m)
    BY DEF IsEntry, TaskRow
  <1>8. IsEntry([row EXCEPT !.status = s, !.implementation_attempts = k],
                s, row.ci_status, row.metadata)
    BY DEF IsEntry, TaskRow
  <1>9. QED BY <1>1, <1>2, <1>3, <1>4, <1>5, <1>6, <1>7, <1>8

\* A job of the queue has a sequence number; those that work name no revision.
LEMMA JobParts ==
  /\ \A j \in WorkJobs : j[2] \in Sequences
  /\ \A j \in ReviewJobs : j[2] \in Sequences /\ j[3] \in Heads
  /\ NoJob \notin JobIds
  BY DEF WorkJobs, ReviewJobs, JobIds, NoJob

\* What is written into the metadata.
LEMMA MetadataEdits ==
  ASSUME NEW m \in Metadata
  PROVE  /\ m.runner_job # NoJob =>
              /\ Released(m) \in Metadata
              /\ Released(m).review_head = m.review_head
              /\ Released(m).completion = m.completion
         /\ \A j \in WorkJobs : [m EXCEPT !.runner_job = j] \in Metadata
         /\ \A j \in ReviewJobs : [m EXCEPT !.review_job = j] \in Metadata
         /\ \A c \in {"no_changes", "scheduler_poll", "manual_reconciliation"} :
              /\ [m EXCEPT !.completion = c] \in Metadata
              /\ [m EXCEPT !.completion = c].completion = c
         /\ Approved(m) \in Metadata
  <1>1. ASSUME m.runner_job # NoJob
        PROVE  /\ Released(m) \in Metadata
               /\ Released(m).review_head = m.review_head
               /\ Released(m).completion = m.completion
    <2>1. m.runner_job \in WorkJobs
      BY <1>1 DEF Metadata
    <2>2. m.runner_job[2] + 1 \in 0 .. MaxSequence + 1
      BY <2>1, JobParts, SchedulerBoundAssumption DEF Sequences
    <2>3. \A n \in 0 .. MaxSequence + 1 :
            /\ [m EXCEPT !.runner_job = NoJob, !.sequence = n] \in Metadata
            /\ [m EXCEPT !.runner_job = NoJob, !.sequence = n].review_head = m.review_head
            /\ [m EXCEPT !.runner_job = NoJob, !.sequence = n].completion = m.completion
      BY DEF Metadata
    <2>4. QED BY <2>2, <2>3 DEF Released
  <1>2. \A j \in WorkJobs : [m EXCEPT !.runner_job = j] \in Metadata
    BY DEF Metadata
  <1>3. \A j \in ReviewJobs : [m EXCEPT !.review_job = j] \in Metadata
    BY DEF Metadata
  <1>4. \A c \in {"no_changes", "scheduler_poll", "manual_reconciliation"} :
          /\ [m EXCEPT !.completion = c] \in Metadata
          /\ [m EXCEPT !.completion = c].completion = c
    BY DEF Metadata
  <1>5. Approved(m) \in Metadata
    BY DEF Approved, Metadata
  <1>6. QED BY <1>1, <1>2, <1>3, <1>4, <1>5

LEMMA BudgetEdits ==
  ASSUME NEW m \in Metadata, NEW n \in 0 .. MaxRepairs
  PROVE  /\ [m EXCEPT !.repairs_used = n] \in Metadata
         /\ [m EXCEPT !.repairs_used = n].review_head = m.review_head
         /\ [m EXCEPT !.repairs_used = n].completion = m.completion
  BY DEF Metadata

LEMMA ReviewPhaseEdits ==
  ASSUME NEW m \in Metadata
  PROVE  /\ [m EXCEPT !.post_ci_review = TRUE] \in Metadata
         /\ [m EXCEPT !.post_ci_review = TRUE].review_sequence = m.review_sequence
  BY DEF Metadata

\* What the end of a review writes there.
LEMMA ReviewEdits ==
  ASSUME NEW m \in Metadata, m.review_sequence <= MaxSequence, NEW h \in Heads
  PROVE  /\ [m EXCEPT !.review_job = NoJob, !.review_sequence = @ + 1] \in Metadata
         /\ \A s \in {"approved", "changes_required"} :
              LET r == [m EXCEPT !.review_job = NoJob, !.review_sequence = @ + 1,
                                 !.review_status = s, !.review_head = h]
              IN  r \in Metadata /\ r.review_head = h
         /\ [[m EXCEPT !.review_job = NoJob, !.review_sequence = @ + 1,
                       !.review_status = "changes_required", !.review_head = h]
              EXCEPT !.review_repairs = @ + 1] \in Metadata
  <1>1. m.review_sequence + 1 \in 0 .. MaxSequence + 1
    BY SchedulerBoundAssumption DEF Metadata
  <1>2. \A n \in 0 .. MaxSequence + 1 :
          [m EXCEPT !.review_job = NoJob, !.review_sequence = n] \in Metadata
    BY DEF Metadata
  <1>3. \A n \in 0 .. MaxSequence + 1, s \in {"approved", "changes_required"} :
          LET r == [m EXCEPT !.review_job = NoJob, !.review_sequence = n,
                             !.review_status = s, !.review_head = h]
          IN  r \in Metadata /\ r.review_head = h
    BY DEF Metadata
  <1>4. \A r \in Metadata : [r EXCEPT !.review_repairs = @ + 1] \in Metadata
    <2>1. ASSUME NEW r \in Metadata PROVE [r EXCEPT !.review_repairs = @ + 1] \in Metadata
      <3>1. r.review_repairs + 1 \in Nat
        BY DEF Metadata
      <3>2. \A n \in Nat : [r EXCEPT !.review_repairs = n] \in Metadata
        BY DEF Metadata
      <3>3. QED BY <3>1, <3>2
    <2>2. QED BY <2>1
  <1>5. QED BY <1>1, <1>2, <1>3, <1>4

-----------------------------------------------------------------------------
(* What may be written *)

RowOK(r) == r \in TaskRow /\ Justified(r)

PassOK(s) == s \in Passes /\ PassInv(s) /\ Justified(s.snap)

LEMMA InvParts ==
  ASSUME TaskInv
  PROVE  /\ RowOK(row) /\ PassOK(sched) /\ sched.snap \in TaskRow
         /\ row.status \in Statuses /\ row.ci_status \in CIStates
         /\ row.ci_attempts \in Nat /\ row.implementation_attempts \in 0 .. MaxCount
         /\ row.metadata \in Metadata
         /\ sched.snap.status \in Statuses /\ sched.snap.ci_status \in CIStates
         /\ sched.snap.ci_attempts \in Nat
         /\ sched.snap.metadata \in Metadata
         /\ Backed(sched.snap.status, sched.snap.metadata)
         /\ Backed(row.status, row.metadata)
  <1>1. /\ row \in TaskRow /\ sched \in Passes /\ sched.snap \in TaskRow
        /\ Justified(row) /\ PassInv(sched) /\ Justified(sched.snap)
    BY Typed DEF TaskInv
  <1>2. QED BY <1>1, RowFields DEF RowOK, PassOK, Justified

\* Where a step of the pass may lead with nothing in hand.
Starts == {"reconcile", "list", "dispatch_failed", "poll_ci", "poll_merged", "notify"}

LEMMA FreshIsOK == RowOK(FreshRow) /\ FreshRow.metadata.runner_job = NoJob
  <1>1. FreshMetadata \in Metadata
    BY SchedulerBoundAssumption, LimitAssumption DEF FreshMetadata, Metadata
  <1>2. QED
    BY <1>1, SchedulerBoundAssumption
    DEF RowOK, Justified, Backed, FreshRow, FreshMetadata, TaskRow, Statuses

LEMMA GoesIsOK ==
  ASSUME NEW pc \in Starts, Goes(pc)
  PROVE  PassOK(sched')
  <1>1. sched' = [pc |-> pc, snap |-> FreshRow, job |-> NoJob]
    BY DEF Goes
  <1>2. pc \in SchedulerPhases
    BY DEF Starts, SchedulerPhases
  <1>3. sched' \in Passes
    BY <1>1, <1>2, FreshIsOK DEF Passes, RowOK
  <1>4. PassInv(sched')
    BY <1>1 DEF PassInv, Starts
  <1>5. QED BY <1>1, <1>3, <1>4, FreshIsOK DEF PassOK, RowOK

\* A row may be written if its status is backed, a done task stays done, and a green CI
\* is that of the row or that of a revision that passed.
LEMMA EntryIsOK ==
  ASSUME TaskInv, NEW r, NEW s, NEW c, NEW m, IsEntry(r, s, c, m), Backed(s, m),
         row.status = "DONE" => s = "DONE",
         c = "green" /\ s # "DONE" => c = row.ci_status \/ github.head \in PassedHeads
  PROVE  RowOK(r)
  BY InvParts DEF IsEntry, RowOK, Justified

LEMMA AcceptedKeepsDone ==
  ASSUME NEW new, Accepts(new), row.status = "DONE"
  PROVE  new.status = "DONE"
  BY DEF Accepts, TRANSITIONS

\* The same for a write that is accepted.
LEMMA AcceptedIsOK ==
  ASSUME TaskInv, NEW r, NEW s, NEW c, NEW m, IsEntry(r, s, c, m), Backed(s, m),
         c = "green" /\ s # "DONE" => c = row.ci_status \/ github.head \in PassedHeads
  PROVE  Accepts(r) => RowOK(r)
  <1> SUFFICES ASSUME Accepts(r) PROVE RowOK(r)
    OBVIOUS
  <1>1. row.status = "DONE" => s = "DONE"
    BY AcceptedKeepsDone DEF IsEntry
  <1>2. QED BY <1>1, EntryIsOK

LEMMA WriteIfAllowedIsOK ==
  ASSUME TaskInv, NEW new, Accepts(new) => RowOK(new), WritesIfAllowed(new)
  PROVE  RowOK(row')
  BY InvParts DEF WritesIfAllowed

LEMMA WriteOrRaiseIsOK ==
  ASSUME TaskInv, NEW new, NEW pc \in Starts, Accepts(new) => RowOK(new),
         WritesOrRaises(new, pc)
  PROVE  RowOK(row') /\ PassOK(sched')
  <1>1. CASE Accepts(new)
    BY <1>1, GoesIsOK DEF WritesOrRaises
  <1>2. CASE ~Accepts(new)
    <2>1. Goes("reconcile") /\ row' = row
      BY <1>2 DEF WritesOrRaises, Raises
    <2>2. QED BY <2>1, InvParts, GoesIsOK DEF Starts
  <1>3. QED BY <1>1, <1>2

LEMMA RaiseIsOK ==
  ASSUME TaskInv, Raises
  PROVE  RowOK(row') /\ PassOK(sched')
  BY InvParts, GoesIsOK DEF Raises, Starts

\* The statuses that need nothing to back them.
LEMMA PlainIsBacked ==
  ASSUME NEW s \in {"QUEUED", "RUNNING", "WAITING_CI", "BLOCKED"}, NEW m
  PROVE  Backed(s, m)
  BY DEF Backed

-----------------------------------------------------------------------------
(* The pass and the row *)

LEMMA SucceededStatus ==
  ASSUME TaskInv, NEW j \in JobIds, JobStatus(j) = "succeeded"
  PROVE  Succeeded(j)
  <1>1. j \notin open /\ ~Store!Unissued(j)
    BY DEF JobStatus
  <1>2. PICK u \in Store!Tokens : Store!Newest(j, u)
    BY <1>1 DEF TaskInv, QueueInv, TokensInv
  <1> DEFINE t == CHOOSE t \in Store!Tokens : Store!Newest(j, t)
  <1>3. t \in Store!Tokens
    BY <1>2
  <1>4. verdict[j][t] = "succeeded"
    BY <1>1 DEF JobStatus
  <1>5. QED BY <1>3, <1>4 DEF Succeeded

\* Giving up a review: the row is blocked, and the slot is free.
LEMMA ReviewFailureIsOK ==
  ASSUME TaskInv, At("review") \/ At("enqueue_review"), ReviewFailsWith(sched.snap.metadata)
  PROVE  RowOK(row') /\ PassOK(sched')
  <1> DEFINE m == [sched.snap.metadata EXCEPT !.review_job = NoJob, !.review_sequence = @ + 1]
             new == Becomes("BLOCKED", m)
  <1>1. sched.snap.metadata \in Metadata /\ sched.snap.metadata.review_sequence <= MaxSequence
    BY InvParts DEF PassOK, PassInv, At
  <1>2. m \in Metadata
    <2>1. 1 \in Heads
      BY SchedulerBoundAssumption DEF Heads
    <2>2. QED BY <1>1, <2>1, ReviewEdits
  <1>3. WritesOrRaises(new, "poll_merged")
    BY DEF ReviewFailsWith
  <1> HIDE DEF m
  <1>4. IsEntry(new, "BLOCKED", row.ci_status, m)
    BY <1>2, InvParts, RowForms DEF Statuses, RowOK
  <1>5. Accepts(new) => RowOK(new)
    BY <1>4, InvParts, AcceptedIsOK, PlainIsBacked
  <1> HIDE DEF new
  <1>6. QED BY <1>3, <1>5, WriteOrRaiseIsOK DEF Starts

\* A reviewed revision that the job names was approved by a finished review.
LEMMA ReviewIsEvidence ==
  ASSUME TaskInv, NEW result, HasReview(result)
  PROVE  /\ github.head \in Heads
         /\ result = "approved" => github.head \in ApprovedHeads
  <1>1. ReviewJob \in ReviewJobs
    BY InvParts DEF HasReview, ReviewJob, Metadata
  <1>2. /\ JobStatus(ReviewJob) = "succeeded" /\ ReviewJob[3] = github.head
        /\ review[ReviewJob] = result
    BY DEF HasReview
  <1>3. ReviewJob \in JobIds /\ ReviewJob[3] \in Heads
    BY <1>1, JobParts DEF JobIds
  <1>4. Succeeded(ReviewJob)
    BY <1>2, <1>3, SucceededStatus
  <1>5. QED BY <1>1, <1>2, <1>3, <1>4 DEF ApprovedHeads

\* Blocking a row that was READY or RUNNING.
LEMMA BlockingIsOK ==
  ASSUME TaskInv, row.status # "DONE"
  PROVE  RowOK([row EXCEPT !.status = "BLOCKED"])
  <1>1. IsEntry([row EXCEPT !.status = "BLOCKED"], "BLOCKED", row.ci_status, row.metadata)
    BY InvParts, RowForms, LimitAssumption DEF Statuses, RowOK
  <1>2. QED BY <1>1, EntryIsOK, PlainIsBacked

LEMMA ReadsIsOK ==
  ASSUME TaskInv, NEW pc \in SchedulerPhases, Reads(pc),
         PassInv([pc |-> pc, snap |-> row, job |-> NoJob]), row' = row
  PROVE  RowOK(row') /\ PassOK(sched')
  <1>1. sched' = [pc |-> pc, snap |-> row, job |-> NoJob]
    BY DEF Reads
  <1>2. sched' \in Passes
    BY <1>1, InvParts DEF Passes, RowOK
  <1>3. QED BY <1>1, <1>2, InvParts DEF PassOK, RowOK

LEMMA PassKeepsRow ==
  ASSUME TaskInv,
         ReconcileReads \/ ReconcileWaits \/ ListsCandidates \/ DispatchPaused \/ Enqueues
         \/ PollsCI \/ CIUnknown \/ EnqueuesReview \/ ReviewWaits \/ PollsMerged
         \/ MergePending \/ Notifies \/ NotifiesNothing \/ SchedulerCrashes
         \/ ReserveFails \/ EnqueueFails \/ DispatchFailureReads
  PROVE  RowOK(row') /\ PassOK(sched')
  <1>1. row' = row
    BY DEF ReconcileReads, ReconcileWaits, ListsCandidates, DispatchPaused, Enqueues, PollsCI,
           CIUnknown, EnqueuesReview, ReviewWaits, PollsMerged, MergePending, Notifies,
           NotifiesNothing, SchedulerCrashes, Raises, ReserveFails, EnqueueFails,
           DispatchFailureReads
  <1>2. ASSUME NEW pc \in Starts, Goes(pc) PROVE RowOK(row') /\ PassOK(sched')
    BY <1>1, <1>2, InvParts, GoesIsOK
  <1>3. CASE ReconcileReads
    <2>1. CASE row.metadata.runner_job # NoJob
      <3>1. Reads("settle")
        BY <1>3, <2>1 DEF ReconcileReads
      <3>2. QED BY <1>1, <2>1, <3>1, ReadsIsOK DEF PassInv, SchedulerPhases
    <2>2. CASE row.metadata.runner_job = NoJob
      BY <1>2, <1>3, <2>2 DEF ReconcileReads, Starts
    <2>3. QED BY <2>1, <2>2
  <1>4. CASE ListsCandidates
    <2>1. CASE Candidate(row) /\ row.metadata.sequence <= MaxSequence
      <3>1. Reads("dispatch")
        BY <1>4, <2>1 DEF ListsCandidates
      <3>2. row.status # "DONE"
        BY <2>1 DEF Candidate
      <3>3. QED BY <1>1, <2>1, <3>1, <3>2, ReadsIsOK DEF PassInv, SchedulerPhases
    <2>2. CASE ~(Candidate(row) /\ row.metadata.sequence <= MaxSequence)
      <3>1. Goes("poll_ci")
        BY <1>4, <2>2 DEF ListsCandidates
      <3>2. QED BY <1>2, <3>1 DEF Starts
    <2>3. QED BY <2>1, <2>2
  <1>5. CASE PollsCI
    <2>1. CASE row.status = "WAITING_CI" /\ WithinBounds(row)
      <3>1. Reads("ci")
        BY <1>5, <2>1 DEF PollsCI
      <3>2. row.metadata.review_sequence <= MaxSequence
        BY <2>1 DEF WithinBounds
      <3>3. QED BY <1>1, <3>1, <3>2, ReadsIsOK DEF PassInv, SchedulerPhases
    <2>2. CASE row.status = "RUNNING" /\ row.metadata.post_ci_review /\ WithinBounds(row)
      <3>1. Reads("review")
        BY <1>5, <2>2 DEF PollsCI
      <3>2. row.metadata.review_sequence <= MaxSequence
        BY <2>2 DEF WithinBounds
      <3>3. QED BY <1>1, <2>2, <3>1, <3>2, ReadsIsOK DEF PassInv, SchedulerPhases
    <2>3. CASE ~(row.status = "WAITING_CI" /\ WithinBounds(row))
               /\ ~(row.status = "RUNNING" /\ row.metadata.post_ci_review /\ WithinBounds(row))
      <3>1. Goes("poll_merged")
        BY <1>5, <2>3 DEF PollsCI
      <3>2. QED BY <1>2, <3>1 DEF Starts
    <2>4. QED BY <2>1, <2>2, <2>3
  <1>6. CASE PollsMerged
    <2>1. CASE row.status = "READY"
      <3>1. Reads("merged")
        BY <1>6, <2>1 DEF PollsMerged
      <3>2. QED BY <1>1, <2>1, <3>1, ReadsIsOK DEF PassInv, SchedulerPhases
    <2>2. CASE row.status # "READY"
      BY <1>2, <1>6, <2>2 DEF PollsMerged, Starts
    <2>3. QED BY <2>1, <2>2
  <1>7. CASE Notifies
    <2>1. CASE row.status \in {"READY", "BLOCKED", "DONE"}
      <3>1. Reads("notified")
        BY <1>7, <2>1 DEF Notifies
      <3>2. QED BY <1>1, <3>1, ReadsIsOK DEF PassInv, SchedulerPhases
    <2>2. CASE row.status \notin {"READY", "BLOCKED", "DONE"}
      BY <1>2, <1>7, <2>2 DEF Notifies, Starts
    <2>3. QED BY <2>1, <2>2
  <1>8. CASE ReconcileWaits \/ DispatchPaused \/ Enqueues \/ CIUnknown \/ EnqueuesReview
             \/ ReviewWaits \/ MergePending \/ NotifiesNothing \/ SchedulerCrashes
             \/ ReserveFails \/ EnqueueFails
    <2>1. \E pc \in Starts : Goes(pc)
      BY <1>8 DEF ReconcileWaits, DispatchPaused, Enqueues, CIUnknown, EnqueuesReview,
                  ReviewWaits, MergePending, NotifiesNothing, SchedulerCrashes, ReserveFails,
                  EnqueueFails, Raises, Starts
    <2>2. QED BY <1>2, <2>1
  <1>9. CASE DispatchFailureReads
    <2>1. CASE row.status = "RUNNING"
      <3>1. Reads("block_dispatch")
        BY <1>9, <2>1 DEF DispatchFailureReads
      <3>2. QED BY <1>1, <3>1, ReadsIsOK DEF PassInv, SchedulerPhases
    <2>2. CASE row.status # "RUNNING"
      BY <1>2, <1>9, <2>2 DEF DispatchFailureReads, Starts
    <2>3. QED BY <2>1, <2>2
  <1>10. QED BY <1>3, <1>4, <1>5, <1>6, <1>7, <1>8, <1>9

LEMMA ReconcileSucceededIsOK ==
  ASSUME TaskInv, ReconcileSucceeded
  PROVE  RowOK(row') /\ PassOK(sched')
  <1> DEFINE m == Released(sched.snap.metadata)
             st == sched.snap.status
             new == Becomes(st, m)
  <1>1. WritesOrRaises(new, "list")
    BY DEF ReconcileSucceeded
  <1>2. /\ m \in Metadata
        /\ m.review_head = sched.snap.metadata.review_head
        /\ m.completion = sched.snap.metadata.completion
    BY InvParts, MetadataEdits DEF PassOK, PassInv, ReconcileSucceeded, At
  <1> HIDE DEF m
  <1>3. IsEntry(new, st, row.ci_status, m)
    BY <1>2, InvParts, RowForms DEF RowOK
  <1>4. Backed(st, m)
    BY <1>2, InvParts DEF Backed
  <1>5. Accepts(new) => RowOK(new)
    BY <1>3, <1>4, AcceptedIsOK
  <1> HIDE DEF new
  <1>6. QED BY <1>1, <1>5, WriteOrRaiseIsOK DEF Starts

LEMMA ReconcileBlocksIsOK ==
  ASSUME TaskInv, ReconcileBlocks
  PROVE  RowOK(row') /\ PassOK(sched')
  <1> DEFINE m == Released(sched.snap.metadata)
             st == sched.snap.status
  <1>1. \/ st \in {"DONE", "BLOCKED"} /\ WritesOrRaises(Becomes(st, m), "list")
        \/ WritesOrRaises(Becomes("BLOCKED", m), "list")
        \/ Raises
    BY DEF ReconcileBlocks
  <1>2. /\ m \in Metadata
        /\ m.review_head = sched.snap.metadata.review_head
        /\ m.completion = sched.snap.metadata.completion
    BY InvParts, MetadataEdits DEF PassOK, PassInv, ReconcileBlocks, At
  <1> HIDE DEF m
  <1>3. ASSUME NEW s \in {st, "BLOCKED"}, WritesOrRaises(Becomes(s, m), "list")
        PROVE  RowOK(row') /\ PassOK(sched')
    <2>1. s \in Statuses
      BY InvParts DEF Statuses
    <2>2. IsEntry(Becomes(s, m), s, row.ci_status, m)
      BY <1>2, <2>1, InvParts, RowForms DEF RowOK
    <2>3. Backed(s, m)
      BY <1>2, InvParts DEF Backed
    <2>4. Accepts(Becomes(s, m)) => RowOK(Becomes(s, m))
      BY <2>2, <2>3, AcceptedIsOK
    <2>5. QED BY <1>3, <2>4, WriteOrRaiseIsOK DEF Starts
  <1>4. QED BY <1>1, <1>3, RaiseIsOK

LEMMA ReservesIsOK ==
  ASSUME TaskInv, Reserves
  PROVE  RowOK(row') /\ PassOK(sched')
  <1> DEFINE snap == sched.snap
             kind == IF snap.status = "QUEUED" THEN "IMPLEMENT" ELSE "REPAIR"
             job == <<kind, snap.metadata.sequence, NoHead>>
             m == [snap.metadata EXCEPT !.runner_job = job]
             new == Becomes("RUNNING", m)
  <1>1. /\ row.status = snap.status /\ row' = new
        /\ sched' = [pc |-> "enqueue", snap |-> FreshRow, job |-> job]
    BY DEF Reserves
  <1>2. snap.metadata.sequence \in Sequences /\ snap.status # "DONE"
    <2>1. /\ snap.metadata.sequence <= MaxSequence /\ snap.status # "DONE"
          /\ snap.metadata \in Metadata
      BY InvParts DEF PassOK, PassInv, Reserves, At
    <2>2. snap.metadata.sequence \in 0 .. MaxSequence + 1
      BY <2>1 DEF Metadata
    <2>3. QED BY <2>1, <2>2, SchedulerBoundAssumption DEF Sequences
  <1>3. job \in WorkJobs
    BY <1>2 DEF WorkJobs
  <1> HIDE DEF job
  <1>4. m \in Metadata
    BY <1>3, InvParts, MetadataEdits
  <1> HIDE DEF m
  <1>5. IsEntry(new, "RUNNING", row.ci_status, m)
    BY <1>4, InvParts, RowForms DEF RowOK, Statuses
  <1>6. RowOK(new)
    BY <1>1, <1>2, <1>5, EntryIsOK, PlainIsBacked
  <1> HIDE DEF new
  <1>7. sched' \in Passes /\ PassInv(sched')
    BY <1>1, <1>3, FreshIsOK DEF Passes, PassInv, SchedulerPhases, JobIds, RowOK
  <1>8. QED BY <1>1, <1>6, <1>7, FreshIsOK DEF PassOK, RowOK

\* The steps that block a task still in the status they ask for.
LEMMA BlockingStepIsOK ==
  ASSUME TaskInv, RefusesMerge \/ MergedCallFails
  PROVE  RowOK(row') /\ PassOK(sched')
  <1>1. /\ \/ row' = row
           \/ row.status # "DONE" /\ row' = [row EXCEPT !.status = "BLOCKED"]
        /\ Goes("notify")
    BY DEF RefusesMerge, MergedCallFails
  <1>2. QED BY <1>1, InvParts, BlockingIsOK, GoesIsOK DEF Starts

LEMMA DispatchFailureIsOK ==
  ASSUME TaskInv, DispatchFailureBlocks
  PROVE  RowOK(row') /\ PassOK(sched')
  <1> DEFINE new == Becomes("BLOCKED", sched.snap.metadata)
  <1>1. CASE row.status = "RUNNING"
    <2>1. row' = new /\ Goes("poll_ci")
      BY <1>1 DEF DispatchFailureBlocks
    <2>2. IsEntry(new, "BLOCKED", row.ci_status, sched.snap.metadata)
      BY InvParts, RowForms DEF RowOK, Statuses
    <2>3. RowOK(new)
      BY <1>1, <2>2, EntryIsOK, PlainIsBacked
    <2> HIDE DEF new
    <2>4. QED BY <2>1, <2>3, GoesIsOK DEF Starts
  <1>2. CASE row.status # "RUNNING"
    BY <1>2, RaiseIsOK DEF DispatchFailureBlocks
  <1>3. QED BY <1>1, <1>2

LEMMA CIPassesIsOK ==
  ASSUME TaskInv, CIPasses
  PROVE  RowOK(row') /\ PassOK(sched')
  <1> DEFINE m == [sched.snap.metadata EXCEPT !.post_ci_review = TRUE]
             new == [Becomes("RUNNING", m) EXCEPT !.ci_status = "green"]
  <1>1. IF Accepts(new)
        THEN row' = new /\ sched' = [pc |-> "review", snap |-> new, job |-> NoJob]
        ELSE Raises
    BY DEF CIPasses
  <1>2. m \in Metadata /\ m.review_sequence = sched.snap.metadata.review_sequence
    BY InvParts, ReviewPhaseEdits
  <1>3. github.head \in PassedHeads
    <2>1. github.head \in Heads \cup {NoHead} /\ Checks = "success"
      BY Typed DEF TaskInv, GitHubStates, CIPasses
    <2>2. github.head \in Heads /\ github.checks[github.head] = "success"
      BY <2>1 DEF Checks, Heads, NoHead
    <2>3. github.head \in 1 .. github.head
      BY <2>2, SchedulerBoundAssumption DEF Heads
    <2>4. QED BY <2>2, <2>3 DEF PassedHeads
  <1> HIDE DEF m
  <1>4. IsEntry(new, "RUNNING", "green", m)
    BY <1>2, InvParts, RowForms DEF RowOK, Statuses, CIStates
  <1>5. Accepts(new) => RowOK(new)
    BY <1>3, <1>4, AcceptedIsOK, PlainIsBacked
  <1> HIDE DEF new
  <1>6. CASE Accepts(new)
    <2>1. /\ row' = new /\ RowOK(new)
          /\ sched' = [pc |-> "review", snap |-> new, job |-> NoJob]
      BY <1>1, <1>5, <1>6
    <2>2. new.status = "RUNNING" /\ new.metadata.review_sequence <= MaxSequence
      <3>1. m.review_sequence <= MaxSequence
        BY <1>2, InvParts DEF PassOK, PassInv, CIPasses, At
      <3>2. QED BY <1>4, <3>1 DEF IsEntry
    <2>3. sched' \in Passes /\ PassInv(sched')
      BY <2>1, <2>2 DEF Passes, PassInv, SchedulerPhases, RowOK
    <2>4. QED BY <2>1, <2>3 DEF PassOK, RowOK
  <1>7. CASE ~Accepts(new)
    BY <1>1, <1>7, RaiseIsOK
  <1>8. QED BY <1>6, <1>7

LEMMA CIFailsIsOK ==
  ASSUME TaskInv, CIFails
  PROVE  RowOK(row') /\ PassOK(sched')
  <1> DEFINE m == sched.snap.metadata
             n == sched.snap.ci_attempts + 1
             new == [Becomes("BLOCKED", m) EXCEPT !.ci_status = "failed", !.ci_attempts = n]
  <1>1. WritesOrRaises(new, "poll_merged")
    BY DEF CIFails
  <1>2. n \in Nat
    BY InvParts
  <1> HIDE DEF n
  <1>3. IsEntry(new, "BLOCKED", "failed", m)
    BY <1>2, InvParts, RowForms DEF RowOK, Statuses, CIStates
  <1>4. Accepts(new) => RowOK(new)
    BY <1>3, AcceptedIsOK, PlainIsBacked
  <1> HIDE DEF new
  <1>5. QED BY <1>1, <1>4, WriteOrRaiseIsOK DEF Starts

LEMMA ReviewReservesIsOK ==
  ASSUME TaskInv, ReviewReserves
  PROVE  RowOK(row') /\ PassOK(sched')
  <1> DEFINE snap == sched.snap
             job == <<"REVIEW", snap.metadata.review_sequence, github.head>>
             m == [snap.metadata EXCEPT !.review_job = job]
             new == Becomes("RUNNING", m)
  <1>1. CASE row.status # snap.status
    <2>1. ReviewFailsWith(snap.metadata)
      BY <1>1 DEF ReviewReserves
    <2>2. QED BY <2>1, ReviewFailureIsOK DEF ReviewReserves
  <1>2. CASE row.status = snap.status
    <2>1. row' = new /\ sched' = [sched EXCEPT !.pc = "enqueue_review", !.job = job]
      BY <1>2 DEF ReviewReserves
    <2>2. /\ snap.metadata \in Metadata
          /\ snap.metadata.review_sequence <= MaxSequence /\ snap.status = "RUNNING"
      BY InvParts DEF PassOK, PassInv, ReviewReserves, At
    <2>3. job \in ReviewJobs
      <3>1. github.head \in Heads
        BY DEF TaskInv, HeadInv, ReviewReserves
      <3>2. snap.metadata.review_sequence \in Sequences
        BY <2>2, SchedulerBoundAssumption DEF Metadata, Sequences
      <3>3. QED BY <3>1, <3>2 DEF ReviewJobs
    <2> HIDE DEF job
    <2>4. m \in Metadata
      BY <2>2, <2>3, MetadataEdits
    <2> HIDE DEF m
    <2>5. IsEntry(new, "RUNNING", row.ci_status, m)
      BY <2>4, InvParts, RowForms DEF RowOK, Statuses
    <2>6. RowOK(new)
      BY <1>2, <2>2, <2>5, EntryIsOK, PlainIsBacked
    <2> HIDE DEF new
    <2>7. /\ sched' \in Passes /\ sched'.snap = snap /\ sched'.pc = "enqueue_review"
          /\ sched'.job = job
      BY <2>1, <2>3, InvParts DEF Passes, SchedulerPhases, JobIds, PassOK
    <2>8. PassInv(sched')
      BY <2>2, <2>3, <2>7 DEF PassInv, JobIds
    <2>9. QED BY <2>1, <2>6, <2>7, <2>8, InvParts DEF PassOK
  <1>3. QED BY <1>1, <1>2

LEMMA ReviewCannotIsOK ==
  ASSUME TaskInv, ReviewCallFails \/ ReviewUnusable
  PROVE  RowOK(row') /\ PassOK(sched')
  BY ReviewFailureIsOK DEF ReviewCallFails, ReviewUnusable

LEMMA ReviewApprovesIsOK ==
  ASSUME TaskInv, NEW independent \in BOOLEAN, ReviewApproves(independent)
  PROVE  RowOK(row') /\ PassOK(sched')
  <1> DEFINE m == Reviewed("approved")
             gates == independent /\ sched.snap.ci_status = "green"
                        /\ sched.snap.metadata.validated
             ready == [Becomes("READY", m) EXCEPT !.ci_status = "green"]
             blocked == Becomes("BLOCKED", m)
  <1>1. /\ HasReview("approved")
        /\ \/ gates /\ WritesOrRaises(ready, "poll_merged")
           \/ WritesOrRaises(blocked, "poll_merged")
    BY DEF ReviewApproves
  <1>2. github.head \in Heads /\ github.head \in ApprovedHeads
    BY <1>1, ReviewIsEvidence
  <1>3. /\ sched.snap.metadata \in Metadata
        /\ sched.snap.metadata.review_sequence <= MaxSequence
        /\ sched.snap.status = "RUNNING"
    BY <1>1, InvParts DEF PassOK, PassInv, HasReview, At
  <1>4. m \in Metadata /\ m.review_head = github.head
    BY <1>2, <1>3, ReviewEdits DEF Reviewed
  <1> HIDE DEF m
  <1>5. CASE gates /\ WritesOrRaises(ready, "poll_merged")
    <2>1. github.head \in PassedHeads
      BY <1>3, <1>5, InvParts DEF PassOK, Justified
    <2>2. Backed("READY", m)
      BY <1>2, <1>4, <2>1 DEF Backed
    <2>3. IsEntry(ready, "READY", "green", m)
      BY <1>4, InvParts, RowForms DEF RowOK, Statuses, CIStates
    <2>4. Accepts(ready) => RowOK(ready)
      BY <2>1, <2>2, <2>3, AcceptedIsOK
    <2> HIDE DEF ready
    <2>5. QED BY <1>5, <2>4, WriteOrRaiseIsOK DEF Starts
  <1>6. CASE WritesOrRaises(blocked, "poll_merged")
    <2>1. IsEntry(blocked, "BLOCKED", row.ci_status, m)
      BY <1>4, InvParts, RowForms DEF RowOK, Statuses
    <2>2. Accepts(blocked) => RowOK(blocked)
      BY <2>1, AcceptedIsOK, PlainIsBacked
    <2> HIDE DEF blocked
    <2>3. QED BY <1>6, <2>2, WriteOrRaiseIsOK DEF Starts
  <1>7. QED BY <1>1, <1>5, <1>6

LEMMA ReviewRequiresChangesIsOK ==
  ASSUME TaskInv, ReviewRequiresChanges
  PROVE  RowOK(row') /\ PassOK(sched')
  <1> DEFINE m == [Reviewed("changes_required") EXCEPT !.review_repairs = @ + 1]
             new == Becomes("BLOCKED", m)
  <1>1. HasReview("changes_required") /\ WritesOrRaises(new, "poll_merged")
    BY DEF ReviewRequiresChanges
  <1>2. github.head \in Heads
    BY <1>1, ReviewIsEvidence
  <1>3. /\ sched.snap.metadata \in Metadata
        /\ sched.snap.metadata.review_sequence <= MaxSequence
    BY <1>1, InvParts DEF PassOK, PassInv, HasReview, At
  <1>4. m \in Metadata
    BY <1>2, <1>3, ReviewEdits DEF Reviewed
  <1> HIDE DEF m
  <1>5. IsEntry(new, "BLOCKED", row.ci_status, m)
    BY <1>4, InvParts, RowForms DEF RowOK, Statuses
  <1>6. Accepts(new) => RowOK(new)
    BY <1>5, AcceptedIsOK, PlainIsBacked
  <1> HIDE DEF new
  <1>7. QED BY <1>1, <1>6, WriteOrRaiseIsOK DEF Starts

LEMMA RecordsMergeIsOK ==
  ASSUME TaskInv, RecordsMerge
  PROVE  RowOK(row') /\ PassOK(sched')
  <1> DEFINE m == [sched.snap.metadata EXCEPT !.completion = "scheduler_poll"]
             new == [Becomes("DONE", m) EXCEPT !.ci_status = "green"]
  <1>1. /\ github.pr = "merged" /\ sched.snap.metadata.review_head = github.head
        /\ row' = new \/ row' = row
        /\ Goes("notify")
    BY DEF RecordsMerge
  <1>2. sched.snap.status = "READY"
    BY InvParts DEF PassOK, PassInv, RecordsMerge, At
  <1>3. m \in Metadata
    BY InvParts, MetadataEdits
  <1> HIDE DEF m
  <1>4. IsEntry(new, "DONE", "green", m)
    BY <1>3, InvParts, RowForms DEF RowOK, Statuses, CIStates
  <1>5. Backed("DONE", m)
    BY <1>1, <1>2, InvParts DEF Backed
  <1>6. RowOK(new)
    BY <1>4, <1>5, EntryIsOK
  <1> HIDE DEF new
  <1>7. QED BY <1>1, <1>6, InvParts, GoesIsOK DEF Starts

LEMMA NotificationRecordedIsOK ==
  ASSUME TaskInv, NotificationRecorded
  PROVE  RowOK(row') /\ PassOK(sched')
  <1> DEFINE new == Becomes(sched.snap.status, sched.snap.metadata)
  <1>1. WritesIfAllowed(new) /\ Goes("reconcile")
    BY DEF NotificationRecorded
  <1>2. IsEntry(new, sched.snap.status, row.ci_status, sched.snap.metadata)
    BY InvParts, RowForms DEF RowOK
  <1>3. Accepts(new) => RowOK(new)
    BY <1>2, InvParts, AcceptedIsOK
  <1> HIDE DEF new
  <1>4. QED BY <1>1, <1>3, WriteIfAllowedIsOK, GoesIsOK DEF Starts

\* What the pass leaves alone.
LEMMA PassStepShape ==
  ASSUME TaskInv, SchedulerStep \/ SchedulerFault
  PROVE  /\ UNCHANGED <<child, review, github>>
         /\ UNCHANGED queue \/ \E j \in JobIds : Store!Post(j)
         /\ faults' \in 0 .. MaxFaults
  <1>1. UNCHANGED faults \/ Fault
    BY DEF SchedulerStep, SchedulerFault, ReconcileReads, ReconcileWaits,
           ReconcileSucceeded, ReconcileBlocks, ListsCandidates, DispatchPaused, Reserves,
           ReserveFails, Enqueues, PollsCI, CIPasses, CIFails, CIUnknown, ReviewReserves,
           EnqueuesReview, ReviewWaits, ReviewUnusable, ReviewApproves,
           ReviewRequiresChanges, PollsMerged, RecordsMerge, RefusesMerge, MergePending,
           Notifies, NotifiesNothing, NotificationRecorded, DispatchFailureReads,
           DispatchFailureBlocks, EnqueueFails, ReviewCallFails, MergedCallFails,
           SchedulerCrashes
  <1>2. faults' \in 0 .. MaxFaults
    BY <1>1, SchedulerBoundAssumption DEF Fault, TaskInv, TaskTypeOK
  <1>3. UNCHANGED <<child, review, github>>
    BY DEF SchedulerStep, SchedulerFault, ReconcileReads, ReconcileWaits,
           ReconcileSucceeded, ReconcileBlocks, ListsCandidates, DispatchPaused, Reserves,
           ReserveFails, Enqueues, PollsCI, CIPasses, CIFails, CIUnknown, ReviewReserves,
           EnqueuesReview, ReviewWaits, ReviewUnusable, ReviewApproves,
           ReviewRequiresChanges, PollsMerged, RecordsMerge, RefusesMerge, MergePending,
           Notifies, NotifiesNothing, NotificationRecorded, DispatchFailureReads,
           DispatchFailureBlocks, EnqueueFails, ReviewCallFails, MergedCallFails,
           SchedulerCrashes, workers
  <1>4. CASE Enqueues \/ EnqueuesReview
    <2>1. sched.job \in JobIds
      BY <1>4, InvParts DEF PassOK, PassInv, Enqueues, EnqueuesReview, At
    <2>2. UNCHANGED queue \/ Store!Post(sched.job)
      BY <1>4 DEF Enqueues, EnqueuesReview
    <2>3. QED BY <1>2, <1>3, <2>1, <2>2
  <1>5. CASE ~Enqueues /\ ~EnqueuesReview
    <2>1. UNCHANGED queue
      BY <1>5 DEF SchedulerStep, SchedulerFault, ReconcileReads, ReconcileWaits,
                  ReconcileSucceeded, ReconcileBlocks, ListsCandidates, DispatchPaused,
                  Reserves, ReserveFails, PollsCI, CIPasses, CIFails, CIUnknown,
                  ReviewReserves, ReviewWaits, ReviewUnusable, ReviewApproves,
                  ReviewRequiresChanges, PollsMerged, RecordsMerge, RefusesMerge,
                  MergePending, Notifies, NotifiesNothing, NotificationRecorded,
                  DispatchFailureReads, DispatchFailureBlocks, EnqueueFails,
                  ReviewCallFails, MergedCallFails, SchedulerCrashes
    <2>2. QED BY <1>2, <1>3, <2>1
  <1>6. QED BY <1>4, <1>5

LEMMA PassStepIsOK ==
  ASSUME TaskInv, SchedulerStep \/ SchedulerFault
  PROVE  RowOK(row') /\ PassOK(sched')
  BY PassKeepsRow, ReconcileSucceededIsOK, ReconcileBlocksIsOK, ReservesIsOK,
     BlockingStepIsOK, DispatchFailureIsOK, CIPassesIsOK, CIFailsIsOK, ReviewReservesIsOK,
     ReviewCannotIsOK, ReviewApprovesIsOK, ReviewRequiresChangesIsOK, RecordsMergeIsOK,
     NotificationRecordedIsOK
  DEF SchedulerStep, SchedulerFault

-----------------------------------------------------------------------------
(* The workers and the row *)

LEMMA ChildParts ==
  ASSUME TaskInv, NEW j \in JobIds
  PROVE  /\ child[j] \in Children /\ child[j].metadata \in Metadata
         /\ child[j].attempts \in 0 .. MaxCount
  BY Typed DEF TaskInv, Children

LEMMA ChildKeepsRow ==
  ASSUME TaskInv, NEW j \in JobIds, row' = row
  PROVE  RowOK(row')
  BY InvParts

\* A write of a status that needs no backing, with any metadata.
LEMMA PlainWriteIsOK ==
  ASSUME TaskInv, NEW s \in {"RUNNING", "BLOCKED"}, NEW m \in Metadata,
         WritesIfAllowed(Becomes(s, m))
  PROVE  RowOK(row')
  <1>1. IsEntry(Becomes(s, m), s, row.ci_status, m)
    BY InvParts, RowForms DEF RowOK, Statuses
  <1>2. Accepts(Becomes(s, m)) => RowOK(Becomes(s, m))
    BY <1>1, AcceptedIsOK, PlainIsBacked
  <1>3. QED BY <1>2, WriteIfAllowedIsOK

LEMMA CountedWriteIsOK ==
  ASSUME TaskInv, NEW m \in Metadata, NEW n \in 0 .. MaxCount,
         WritesIfAllowed([Becomes("RUNNING", m) EXCEPT !.implementation_attempts = n])
  PROVE  RowOK(row')
  <1> DEFINE new == [Becomes("RUNNING", m) EXCEPT !.implementation_attempts = n]
  <1>1. IsEntry(new, "RUNNING", row.ci_status, m)
    BY InvParts, RowForms DEF RowOK, Statuses
  <1>2. Accepts(new) => RowOK(new)
    BY <1>1, AcceptedIsOK, PlainIsBacked
  <1>3. WritesIfAllowed(new)
    OBVIOUS
  <1> HIDE DEF new
  <1>4. QED BY <1>2, <1>3, WriteIfAllowedIsOK

\* The repair budget alone.
LEMMA BudgetWriteIsOK ==
  ASSUME TaskInv, NEW n \in 0 .. MaxRepairs, row' = [row EXCEPT !.metadata.repairs_used = n]
  PROVE  RowOK(row')
  <1> DEFINE m == [row.metadata EXCEPT !.repairs_used = n]
  <1>1. /\ m \in Metadata /\ m.review_head = row.metadata.review_head
        /\ m.completion = row.metadata.completion
    BY InvParts, BudgetEdits
  <1>2. row' = [row EXCEPT !.metadata = m]
    BY InvParts DEF RowOK, TaskRow
  <1> HIDE DEF m
  <1>3. IsEntry(row', row.status, row.ci_status, m)
    BY <1>1, <1>2, InvParts, RowForms DEF RowOK
  <1>4. Backed(row.status, m)
    BY <1>1, InvParts DEF Backed
  <1>5. QED BY <1>3, <1>4, EntryIsOK

LEMMA ChildBudgetIsOK ==
  ASSUME TaskInv, NEW j \in JobIds, ChildReservesRepair(j) \/ ChildRefundsRepair(j)
  PROVE  RowOK(row')
  <1> DEFINE used == row.metadata.repairs_used
  <1>1. used \in 0 .. MaxRepairs
    BY InvParts DEF Metadata
  <1>2. CASE ChildReservesRepair(j)
    <2>1. \/ used < MaxRepairs /\ row' = [row EXCEPT !.metadata.repairs_used = used + 1]
          \/ row' = row
      BY <1>2 DEF ChildReservesRepair
    <2>2. used < MaxRepairs => used + 1 \in 0 .. MaxRepairs
      BY <1>1, LimitAssumption
    <2>3. QED BY <2>1, <2>2, BudgetWriteIsOK, InvParts
  <1>3. CASE ChildRefundsRepair(j)
    <2> DEFINE left == IF used > 0 THEN used - 1 ELSE 0
    <2>1. row' = [row EXCEPT !.metadata.repairs_used = left]
      BY <1>3 DEF ChildRefundsRepair
    <2>2. left \in 0 .. MaxRepairs
      BY <1>1, LimitAssumption
    <2> HIDE DEF left
    <2>3. QED BY <2>1, <2>2, BudgetWriteIsOK
  <1>4. QED BY <1>2, <1>3

LEMMA ChildWritesAreOK ==
  ASSUME TaskInv, NEW j \in JobIds
  PROVE  /\ \A count \in 0 .. MaxCount : ChildTracks(j, count) => RowOK(row')
         /\ ChildPublishes(j) => RowOK(row')
         /\ \A metadata \in {row.metadata, child[j].metadata} :
              ChildOpens(j, metadata) => RowOK(row')
         /\ \A count \in 0 .. MaxCount : ChildHalts(j, count) => RowOK(row')
         /\ ChildRecordsBlock(j) => RowOK(row')
  <1>1. ASSUME NEW count \in 0 .. MaxCount, ChildTracks(j, count) PROVE RowOK(row')
    <2>1. Larger(child[j].attempts, count) \in 0 .. MaxCount
      BY ChildParts DEF Larger
    <2>2. QED BY <1>1, <2>1, ChildParts, CountedWriteIsOK DEF ChildTracks
  <1>2. ASSUME ChildPublishes(j) PROVE RowOK(row')
    <2>1. Approved(child[j].metadata) \in Metadata
      BY ChildParts, MetadataEdits
    <2>2. QED BY <1>2, <2>1, ChildParts, CountedWriteIsOK DEF ChildPublishes
  <1>3. ASSUME NEW metadata \in {row.metadata, child[j].metadata}, ChildOpens(j, metadata)
        PROVE  RowOK(row')
    BY <1>3, InvParts, ChildParts, PlainWriteIsOK DEF ChildOpens
  <1>4. ASSUME ChildRecordsBlock(j) PROVE RowOK(row')
    BY <1>4, ChildParts, PlainWriteIsOK DEF ChildRecordsBlock
  <1>5. ASSUME NEW count \in 0 .. MaxCount, ChildHalts(j, count) PROVE RowOK(row')
    <2> DEFINE n == Larger(child[j].attempts, count)
               new == [row EXCEPT !.status = "BLOCKED", !.implementation_attempts = n]
    <2>1. n \in 0 .. MaxCount
      BY ChildParts DEF Larger
    <2>2. WritesIfAllowed(new)
      BY <1>5 DEF ChildHalts
    <2> HIDE DEF n
    <2>3. IsEntry(new, "BLOCKED", row.ci_status, row.metadata)
      BY <2>1, InvParts, RowForms DEF RowOK, Statuses
    <2>4. Accepts(new) => RowOK(new)
      BY <2>3, InvParts, AcceptedIsOK, PlainIsBacked
    <2> HIDE DEF new
    <2>5. QED BY <2>2, <2>4, WriteIfAllowedIsOK
  <1>6. QED BY <1>1, <1>2, <1>3, <1>4, <1>5

LEMMA ChildAwaitsIsOK ==
  ASSUME TaskInv, NEW j \in JobIds, ChildAwaitsCI(j)
  PROVE  RowOK(row')
  <1> DEFINE new == [row EXCEPT !.status = "WAITING_CI", !.ci_status = "queued"]
  <1>1. \/ Accepts(new) /\ row' = new
        \/ row' = row
    BY DEF ChildAwaitsCI
  <1>2. IsEntry(new, "WAITING_CI", "queued", row.metadata)
    BY InvParts, RowForms, LimitAssumption DEF RowOK, Statuses, CIStates
  <1>3. Accepts(new) => RowOK(new)
    BY <1>2, AcceptedIsOK, PlainIsBacked
  <1> HIDE DEF new
  <1>4. QED BY <1>1, <1>3, InvParts

\* A task that is done without the scheduler needs nothing to back it.
LEMMA CompletionIsOK ==
  ASSUME TaskInv, NEW m \in Metadata, m.completion # "scheduler_poll", NEW c \in CIStates
  PROVE  RowOK([Becomes("DONE", m) EXCEPT !.ci_status = c])
  <1>1. IsEntry([Becomes("DONE", m) EXCEPT !.ci_status = c], "DONE", c, m)
    BY InvParts, RowForms DEF RowOK, Statuses
  <1>2. Backed("DONE", m)
    BY DEF Backed
  <1>3. QED BY <1>1, <1>2, EntryIsOK

LEMMA FindsNothingIsOK ==
  ASSUME TaskInv, NEW j \in JobIds, ChildFindsNothing(j)
  PROVE  RowOK(row')
  <1> DEFINE m == [Approved(child[j].metadata) EXCEPT !.completion = "no_changes"]
             new == [Becomes("DONE", m) EXCEPT !.ci_status = "not_required"]
  <1>1. WritesIfAllowed(new)
    BY DEF ChildFindsNothing
  <1>2. Approved(child[j].metadata) \in Metadata
    BY ChildParts, MetadataEdits
  <1>3. m \in Metadata /\ m.completion = "no_changes"
    BY <1>2, MetadataEdits
  <1> HIDE DEF m
  <1>4. RowOK(new)
    BY <1>3, CompletionIsOK DEF CIStates
  <1> HIDE DEF new
  <1>5. QED BY <1>1, <1>4, WriteIfAllowedIsOK

LEMMA OperatorIsOK ==
  ASSUME TaskInv, OperatorReconcilesMerge
  PROVE  RowOK(row')
  <1> DEFINE m == [row.metadata EXCEPT !.completion = "manual_reconciliation"]
  <1>1. row' = [Becomes("DONE", m) EXCEPT !.ci_status = "green"]
    BY DEF OperatorReconcilesMerge
  <1>2. m \in Metadata /\ m.completion = "manual_reconciliation"
    BY InvParts, MetadataEdits
  <1> HIDE DEF m
  <1>3. QED BY <1>1, <1>2, CompletionIsOK DEF CIStates

-----------------------------------------------------------------------------
(* The queue *)

Outcomes == {"unissued", "live", "succeeded", "failed", "revoked"}

QueueTypeOK ==
  open \subseteq JobIds /\ verdict \in [JobIds -> [Store!Tokens -> Outcomes]]

\* A step of the queue: what it has stays in order, and no success is taken back.
QueueKept ==
  /\ QueueTypeOK'
  /\ \A j \in JobIds : TokensInv(j)'
  /\ \A j \in JobIds : Succeeded(j) => Succeeded(j)'

LEMMA QueueParts ==
  ASSUME TaskInv
  PROVE  QueueTypeOK /\ \A j \in JobIds : TokensInv(j)
  BY DEF TaskInv, TaskTypeOK, QueueTypeOK, Outcomes, QueueInv, Store!Tokens

LEMMA QueueStays ==
  ASSUME TaskInv, UNCHANGED queue
  PROVE  QueueKept /\ \A j \in JobIds : Succeeded(j)' <=> Succeeded(j)
  <1>1. open' = open /\ verdict' = verdict
    BY DEF queue
  <1>2. QED
    BY <1>1, QueueParts
    DEF QueueKept, QueueTypeOK, TokensInv, Succeeded, Store!Unissued, Store!Newest

LEMMA PostKeeps ==
  ASSUME TaskInv, NEW j \in JobIds, Store!Post(j)
  PROVE  QueueKept /\ \A k \in JobIds : Succeeded(k)' <=> Succeeded(k)
  <1>1. /\ verdict' = verdict /\ open' = open \cup {j}
        /\ \A t \in Store!Tokens : verdict[j][t] = "unissued"
    BY DEF Store!Post, Store!Unissued
  <1>2. \A k \in JobIds : Succeeded(k)' <=> Succeeded(k)
    BY <1>1 DEF Succeeded
  <1>3. ASSUME NEW k \in JobIds PROVE TokensInv(k)'
    <2>1. TokensInv(k)
      BY QueueParts
    <2>2. k = j => \A t \in Store!Tokens : verdict[k][t] \notin {"succeeded", "live"}
      BY <1>1
    <2>3. QED BY <1>1, <2>1, <2>2 DEF TokensInv, Store!Unissued, Store!Newest
  <1>4. QED BY <1>1, <1>2, <1>3, QueueParts DEF QueueKept, QueueTypeOK

LEMMA ReopenKeeps ==
  ASSUME TaskInv, NEW j \in JobIds, NEW t \in Store!Tokens, Store!Reopen(j, t)
  PROVE  QueueKept /\ \A k \in JobIds : Succeeded(k)' <=> Succeeded(k)
  <1>1. /\ verdict' = verdict /\ open' = open \cup {j}
        /\ Store!Newest(j, t) /\ verdict[j][t] = "revoked"
    BY DEF Store!Reopen
  <1>2. \A k \in JobIds : Succeeded(k)' <=> Succeeded(k)
    BY <1>1 DEF Succeeded
  <1>3. \A u \in Store!Tokens : Store!Newest(j, u) => u = t
    BY <1>1 DEF Store!Newest, Store!Tokens
  <1>4. ASSUME NEW k \in JobIds PROVE TokensInv(k)'
    <2>1. TokensInv(k)
      BY QueueParts
    <2>2. k = j => \A u \in Store!Tokens : verdict[k][u] \notin {"succeeded", "live"}
      BY <1>1, <1>3, <2>1 DEF TokensInv
    <2>3. QED BY <1>1, <2>1, <2>2 DEF TokensInv, Store!Unissued, Store!Newest
  <1>5. QED BY <1>1, <1>2, <1>4, QueueParts DEF QueueKept, QueueTypeOK

LEMMA IssueKeeps ==
  ASSUME TaskInv, NEW j \in JobIds, NEW t \in Store!Tokens, Store!Issue(j, t)
  PROVE  QueueKept /\ ~Succeeded(j) /\ \A k \in JobIds : Succeeded(k)' <=> Succeeded(k)
  <1>1. /\ j \in open /\ open' = open \ {j}
        /\ \A u \in Store!Tokens : u < t <=> verdict[j][u] # "unissued"
        /\ verdict' = [verdict EXCEPT ![j][t] = "live"]
    BY DEF Store!Issue
  <1>2. QueueTypeOK
    BY QueueParts
  <1>3. QueueTypeOK'
    BY <1>1, <1>2 DEF QueueTypeOK, Outcomes
  <1>4. /\ \A k \in JobIds \ {j} : verdict'[k] = verdict[k]
        /\ \A u \in Store!Tokens : verdict'[j][u] = IF u = t THEN "live" ELSE verdict[j][u]
    BY <1>1, <1>2 DEF QueueTypeOK
  <1>5. \A u \in Store!Tokens : verdict[j][u] \notin {"succeeded", "live"}
    BY <1>1, QueueParts DEF TokensInv
  <1>6. \A k \in JobIds : Succeeded(k)' <=> Succeeded(k)
    BY <1>4, <1>5 DEF Succeeded
  <1>7. ASSUME NEW k \in JobIds, k # j PROVE TokensInv(k)'
    <2>1. TokensInv(k)
      BY QueueParts
    <2>2. QED BY <1>1, <1>4, <1>7, <2>1 DEF TokensInv, Store!Unissued, Store!Newest
  <1>8. TokensInv(j)'
    <2>1. Store!Newest(j, t)'
      BY <1>1, <1>4 DEF Store!Newest, Store!Tokens
    <2>2. \A u \in Store!Tokens : verdict'[j][u] \in {"succeeded", "live"} => u = t
      BY <1>4, <1>5
    <2>3. QED BY <1>1, <2>1, <2>2 DEF TokensInv
  <1>9. QED BY <1>3, <1>5, <1>6, <1>7, <1>8 DEF QueueKept, Succeeded

LEMMA SettleKeeps ==
  ASSUME TaskInv, NEW j \in JobIds, NEW t \in Store!Tokens,
         NEW v \in {"succeeded", "failed"}, Store!Settle(j, t, v)
  PROVE  /\ QueueKept
         /\ \A k \in JobIds : Succeeded(k)' => Succeeded(k) \/ (k = j /\ v = "succeeded")
  <1>1. /\ verdict[j][t] = "live" /\ open' = open
        /\ verdict' = [verdict EXCEPT ![j][t] = v]
    BY DEF Store!Settle
  <1>2. QueueTypeOK
    BY QueueParts
  <1>3. QueueTypeOK'
    BY <1>1, <1>2 DEF QueueTypeOK, Outcomes
  <1>4. /\ \A k \in JobIds \ {j} : verdict'[k] = verdict[k]
        /\ \A u \in Store!Tokens : verdict'[j][u] = IF u = t THEN v ELSE verdict[j][u]
    BY <1>1, <1>2 DEF QueueTypeOK
  <1>5. \A k \in JobIds : Succeeded(k) => Succeeded(k)'
    BY <1>1, <1>4 DEF Succeeded
  <1>6. \A k \in JobIds : Succeeded(k)' => Succeeded(k) \/ (k = j /\ v = "succeeded")
    BY <1>4 DEF Succeeded
  <1>7. ASSUME NEW k \in JobIds, k # j PROVE TokensInv(k)'
    <2>1. TokensInv(k)
      BY QueueParts
    <2>2. QED BY <1>1, <1>4, <1>7, <2>1 DEF TokensInv, Store!Unissued, Store!Newest
  <1>8. TokensInv(j)'
    <2>1. TokensInv(j)
      BY QueueParts
    <2>2. \A u \in Store!Tokens : verdict'[j][u] = "unissued" <=> verdict[j][u] = "unissued"
      BY <1>1, <1>4
    <2>3. \A u \in Store!Tokens : Store!Newest(j, u)' <=> Store!Newest(j, u)
      BY <2>2 DEF Store!Newest
    <2>4. j \notin open /\ Store!Newest(j, t)
      BY <1>1, <2>1 DEF TokensInv
    <2>5. \A u \in Store!Tokens : verdict'[j][u] \in {"succeeded", "live"} =>
            u = t \/ verdict[j][u] \in {"succeeded", "live"}
      BY <1>4
    <2>6. QED BY <1>1, <2>1, <2>3, <2>4, <2>5 DEF TokensInv
  <1>9. QED BY <1>3, <1>5, <1>6, <1>7, <1>8 DEF QueueKept

LEMMA RevokeKeeps ==
  ASSUME TaskInv, NEW j \in JobIds, Store!Revoke({j})
  PROVE  QueueKept /\ \A k \in JobIds : Succeeded(k)' <=> Succeeded(k)
  <1>1. /\ open' = open
        /\ verdict' = [k \in JobIds |-> [t \in Store!Tokens |->
                         IF k \in {j} /\ verdict[k][t] = "live"
                         THEN "revoked" ELSE verdict[k][t]]]
    BY DEF Store!Revoke
  <1>2. QueueTypeOK
    BY QueueParts
  <1>3. ASSUME NEW k \in JobIds, NEW t \in Store!Tokens
        PROVE  /\ verdict'[k][t] \in Outcomes
               /\ verdict'[k][t] = "unissued" <=> verdict[k][t] = "unissued"
               /\ verdict'[k][t] = "succeeded" <=> verdict[k][t] = "succeeded"
               /\ verdict'[k][t] = "live" => verdict[k][t] = "live"
    <2>1. verdict'[k][t] =
            IF k \in {j} /\ verdict[k][t] = "live" THEN "revoked" ELSE verdict[k][t]
      BY <1>1
    <2>2. QED BY <1>2, <2>1 DEF QueueTypeOK, Outcomes
  <1>4. QueueTypeOK'
    BY <1>1, <1>2, <1>3 DEF QueueTypeOK
  <1>5. \A k \in JobIds : Succeeded(k)' <=> Succeeded(k)
    BY <1>3 DEF Succeeded
  <1>6. ASSUME NEW k \in JobIds PROVE TokensInv(k)'
    <2>1. TokensInv(k)
      BY QueueParts
    <2>2. \A t \in Store!Tokens : Store!Newest(k, t)' <=> Store!Newest(k, t)
      BY <1>3 DEF Store!Newest
    <2>3. Store!Unissued(k)' <=> Store!Unissued(k)
      BY <1>3 DEF Store!Unissued
    <2>4. QED BY <1>1, <1>3, <2>1, <2>2, <2>3 DEF TokensInv
  <1>7. QED BY <1>4, <1>5, <1>6 DEF QueueKept

-----------------------------------------------------------------------------
(* The workers, the reviews and the pull request *)

\* The child of j goes from some phase of its work to another.
ChildMoves(j) ==
  /\ child[j].pc \in Working
  /\ \E c \in Children : child' = [child EXCEPT ![j] = c]

LEMMA ChildTypes ==
  ASSUME TaskInv
  PROVE  /\ \A pc \in ChildPhases : [NoChild EXCEPT !.pc = pc] \in Children
         /\ \A pc \in ChildPhases :
              [pc |-> pc, metadata |-> row.metadata, attempts |-> row.implementation_attempts]
                \in Children
  <1>1. FreshMetadata \in Metadata
    BY FreshIsOK, RowFields DEF RowOK, FreshRow
  <1>2. \A pc \in ChildPhases : [NoChild EXCEPT !.pc = pc] \in Children
    BY <1>1, SchedulerBoundAssumption DEF NoChild, Children
  <1>3. \A pc \in ChildPhases :
          [pc |-> pc, metadata |-> row.metadata, attempts |-> row.implementation_attempts]
            \in Children
    BY InvParts DEF Children
  <1>4. QED BY <1>2, <1>3

LEMMA GoesMoves ==
  ASSUME TaskInv, NEW j \in JobIds, child[j].pc \in Working, NEW pc \in ChildPhases,
         ChildGoes(j, pc) \/ ChildReads(j, pc)
  PROVE  ChildMoves(j)
  BY ChildTypes DEF ChildGoes, ChildReads, ChildMoves

LEMMA ChildStepMoves ==
  ASSUME TaskInv, NEW j \in JobIds, ChildStep(j) \/ ChildDies(j)
  PROVE  ChildMoves(j)
  <1>1. ASSUME NEW pc \in ChildPhases, ChildGoes(j, pc) \/ ChildReads(j, pc)
        PROVE  child[j].pc \in Working => ChildMoves(j)
    BY <1>1, GoesMoves
  <1>2. CASE \/ ChildStarts(j)
             \/ \E metadata \in {row.metadata, child[j].metadata} : ChildOpens(j, metadata)
    BY <1>1, <1>2 DEF ChildStarts, ChildOpens, Working, ChildPhases
  <1>3. CASE ChildReadsTask(j) \/ \E count \in 0 .. MaxCount : ChildTracks(j, count)
    BY <1>1, <1>3 DEF ChildReadsTask, ChildTracks, Working, ChildPhases
  <1>4. CASE ChildReservesRepair(j) \/ ChildRefundsRepair(j) \/ ChildRepaired(j)
    BY <1>1, <1>4 DEF ChildReservesRepair, ChildRefundsRepair, ChildRepaired, Working,
                      ChildPhases
  <1>5. CASE ChildPushes(j) \/ ChildSyncs(j) \/ ChildPublishes(j)
    BY <1>1, <1>5 DEF ChildPushes, ChildSyncs, ChildPublishes, Working, ChildPhases
  <1>6. CASE ChildChecksStatus(j)
    BY <1>1, <1>6 DEF ChildChecksStatus, Working, ChildPhases
  <1>7. CASE ChildAwaitsCI(j)
    <2>1. ChildGoes(j, "ok") \/ ChildGoes(j, "bad")
      BY <1>7 DEF ChildAwaitsCI
    <2>2. QED BY <1>1, <1>7, <2>1 DEF ChildAwaitsCI, Working, ChildPhases
  <1>8. CASE ChildConcludes(j) \/ ChildFindsNothing(j)
    BY <1>1, <1>8 DEF ChildConcludes, ChildFindsNothing, Working, ChildPhases
  <1>9. CASE \/ ChildBlocks(j) \/ \E count \in 0 .. MaxCount : ChildHalts(j, count)
             \/ ChildSyncsBlock(j) \/ ChildRecordsBlock(j)
    BY <1>1, <1>9 DEF ChildBlocks, ChildHalts, ChildSyncsBlock, ChildRecordsBlock, Working,
                      ChildPhases
  <1>10. CASE \E result \in {"approved", "changes_required"} : ChildReviews(j, result)
    BY <1>1, <1>10 DEF ChildReviews, Working, ChildPhases
  <1>11. CASE ChildDies(j)
    BY <1>1, <1>11 DEF ChildDies, ChildPhases
  <1>12. QED
    BY <1>2, <1>3, <1>4, <1>5, <1>6, <1>7, <1>8, <1>9, <1>10, <1>11 DEF ChildStep

LEMMA ChildStepRow ==
  ASSUME TaskInv, NEW j \in JobIds, ChildStep(j) \/ ChildDies(j)
  PROVE  RowOK(row')
  <1>1. \/ row' = row
        \/ \E count \in 0 .. MaxCount : ChildTracks(j, count)
        \/ ChildReservesRepair(j) \/ ChildRefundsRepair(j) \/ ChildPublishes(j)
        \/ ChildAwaitsCI(j) \/ ChildFindsNothing(j) \/ ChildRecordsBlock(j)
        \/ \E metadata \in {row.metadata, child[j].metadata} : ChildOpens(j, metadata)
        \/ \E count \in 0 .. MaxCount : ChildHalts(j, count)
    BY DEF ChildStep, ChildStarts, ChildBlocks, ChildSyncsBlock, ChildReadsTask,
           ChildRepaired, ChildPushes, ChildSyncs, ChildChecksStatus, ChildConcludes,
           ChildReviews, ChildDies
  <1>2. QED
    BY <1>1, InvParts, ChildWritesAreOK, ChildBudgetIsOK, ChildAwaitsIsOK, FindsNothingIsOK

\* What a review writes is of a job that is not over.
ReviewsKept ==
  /\ review' \in [ReviewJobs -> {"none", "approved", "changes_required"}]
  /\ \A j \in ReviewJobs : child[j].pc = "ok" => review'[j] = review[j]

\* Checks and merges are final, and the branch only grows.
GitHubKept ==
  /\ github' \in GitHubStates
  /\ HeadInv'
  /\ PassedHeads \subseteq PassedHeads'
  /\ github.head \in PassedHeads => github'.head \in PassedHeads'
  /\ github.pr = "merged" => github'.pr = "merged" /\ github'.head = github.head

LEMMA GitHubStays ==
  ASSUME TaskInv, github' = github
  PROVE  GitHubKept
  BY DEF TaskInv, TaskTypeOK, GitHubKept, HeadInv, PassedHeads

LEMMA PushKeeps ==
  ASSUME TaskInv, github.head < MaxHeads, github.pr \in {"none", "open"},
         github' = [github EXCEPT !.head = @ + 1, !.pr = IF @ = "none" THEN "open" ELSE @]
           \/ (github.pr = "open" /\ github' = [github EXCEPT !.head = @ + 1])
  PROVE  GitHubKept
  <1>1. github \in GitHubStates
    BY Typed DEF TaskInv
  <1>2. /\ github.head \in 0 .. MaxHeads
        /\ github.checks \in [Heads -> {"pending", "success", "failure"}]
    BY <1>1, SchedulerBoundAssumption DEF GitHubStates, Heads, NoHead
  <1>3. github.head + 1 \in Heads
    BY <1>2, SchedulerBoundAssumption DEF Heads
  <1>4. /\ github' \in GitHubStates
        /\ github'.head = github.head + 1 /\ github'.pr = "open"
        /\ github'.checks = github.checks
    <2> DEFINE Pushed(h) == [github EXCEPT !.head = h, !.pr = "open"]
    <2>1. \A h \in Heads : /\ Pushed(h) \in GitHubStates
                           /\ Pushed(h).head = h /\ Pushed(h).pr = "open"
                           /\ Pushed(h).checks = github.checks
      BY <1>1 DEF GitHubStates
    <2>2. github.pr = "open" =>
            \A h \in Heads : [github EXCEPT !.head = h] = Pushed(h)
      BY <1>1 DEF GitHubStates
    <2>3. \/ github' = Pushed(github.head + 1)
          \/ github.pr = "open" /\ github' = [github EXCEPT !.head = github.head + 1]
      <3>1. CASE github.pr = "none"
        BY <3>1
      <3>2. CASE github.pr = "open"
        BY <3>2
      <3>3. QED BY <3>1, <3>2
    <2> HIDE DEF Pushed
    <2>4. github' = Pushed(github.head + 1)
      BY <1>3, <2>2, <2>3
    <2>5. QED BY <1>3, <2>1, <2>4
  <1>5. PassedHeads' = PassedHeads
    BY <1>4 DEF PassedHeads
  <1>6. github.head \in PassedHeads => github.head + 1 \in PassedHeads
    BY <1>2, <1>3, SchedulerBoundAssumption DEF PassedHeads, Heads
  <1>7. QED BY <1>2, <1>3, <1>4, <1>5, <1>6 DEF GitHubKept, HeadInv

LEMMA ChecksKeep ==
  ASSUME TaskInv, NEW h \in Heads, NEW result \in {"success", "failure"},
         ChecksFinish(h, result)
  PROVE  GitHubKept
  <1>1. github \in GitHubStates
    BY Typed DEF TaskInv
  <1>2. /\ github.checks[h] = "pending"
        /\ github' = [github EXCEPT !.checks = [github.checks EXCEPT ![h] = result]]
    BY <1>1 DEF ChecksFinish, GitHubStates
  <1>3. [github.checks EXCEPT ![h] = result] \in [Heads -> {"pending", "success", "failure"}]
    BY <1>1 DEF GitHubStates
  <1>4. /\ github' \in GitHubStates /\ github'.head = github.head /\ github'.pr = github.pr
        /\ github'.checks = [github.checks EXCEPT ![h] = result]
    BY <1>1, <1>2, <1>3 DEF GitHubStates
  <1>5. \A g \in Heads : github.checks[g] = "success" => github'.checks[g] = "success"
    BY <1>1, <1>2, <1>4 DEF GitHubStates
  <1>6. PassedHeads \subseteq PassedHeads'
    <2>1. \A k \in Heads : 1 .. k \subseteq Heads
      BY SchedulerBoundAssumption DEF Heads
    <2>2. QED BY <1>5, <2>1 DEF PassedHeads
  <1>7. HeadInv'
    BY <1>4 DEF HeadInv, TaskInv
  <1>8. QED BY <1>4, <1>6, <1>7 DEF GitHubKept

LEMMA EndKeeps ==
  ASSUME TaskInv, NEW state \in {"merged", "closed"}, PullRequestEnds(state)
  PROVE  GitHubKept
  <1>1. github \in GitHubStates /\ HeadInv
    BY Typed DEF TaskInv
  <1>2. github.pr = "open" /\ github' = [github EXCEPT !.pr = state]
    BY DEF PullRequestEnds
  <1>3. /\ github' \in GitHubStates /\ github'.head = github.head
        /\ github'.checks = github.checks
    BY <1>1, <1>2 DEF GitHubStates
  <1>4. PassedHeads' = PassedHeads
    BY <1>3 DEF PassedHeads
  <1>5. QED BY <1>1, <1>2, <1>3, <1>4 DEF GitHubKept, HeadInv

LEMMA GitHubStepKeeps ==
  ASSUME TaskInv, GitHubStep
  PROVE  GitHubKept
  BY ChecksKeep, EndKeeps, PushKeeps DEF GitHubStep, SomebodyPushes

LEMMA ChildStepGitHub ==
  ASSUME TaskInv, NEW j \in JobIds, ChildStep(j) \/ ChildDies(j)
  PROVE  GitHubKept
  <1>1. github' = github \/ ChildPushes(j)
    BY DEF ChildStep, ChildStarts, ChildOpens, ChildReadsTask, ChildTracks,
           ChildReservesRepair, ChildRefundsRepair, ChildRepaired, ChildSyncs,
           ChildPublishes, ChildChecksStatus, ChildAwaitsCI, ChildConcludes,
           ChildFindsNothing, ChildBlocks, ChildHalts, ChildSyncsBlock, ChildRecordsBlock,
           ChildReviews, ChildDies
  <1>2. QED BY <1>1, GitHubStays, PushKeeps DEF ChildPushes

LEMMA ReviewsStay ==
  ASSUME TaskInv, review' = review
  PROVE  ReviewsKept
  BY DEF TaskInv, TaskTypeOK, ReviewsKept

LEMMA ChildStepReview ==
  ASSUME TaskInv, NEW j \in JobIds, ChildStep(j) \/ ChildDies(j)
  PROVE  ReviewsKept
  <1>1. \/ review' = review
        \/ \E result \in {"approved", "changes_required"} : ChildReviews(j, result)
    BY DEF ChildStep, ChildStarts, ChildOpens, ChildReadsTask, ChildTracks,
           ChildReservesRepair, ChildRefundsRepair, ChildRepaired, ChildPushes, ChildSyncs,
           ChildPublishes, ChildChecksStatus, ChildAwaitsCI, ChildConcludes,
           ChildFindsNothing, ChildBlocks, ChildHalts, ChildSyncsBlock, ChildRecordsBlock,
           ChildDies
  <1>2. ASSUME NEW result \in {"approved", "changes_required"}, ChildReviews(j, result)
        PROVE  ReviewsKept
    BY <1>2 DEF ChildReviews, ReviewsKept, TaskInv, TaskTypeOK
  <1>3. QED BY <1>1, <1>2, ReviewsStay

\* What a child leaves alone.
LEMMA ChildStepShape ==
  ASSUME TaskInv, NEW j \in JobIds, ChildStep(j) \/ ChildDies(j)
  PROVE  UNCHANGED <<sched, queue, faults>>
  BY DEF ChildStep, ChildStarts, ChildOpens, ChildReadsTask, ChildTracks,
         ChildReservesRepair, ChildRefundsRepair, ChildRepaired, ChildPushes, ChildSyncs,
         ChildPublishes, ChildChecksStatus, ChildAwaitsCI, ChildConcludes,
         ChildFindsNothing, ChildBlocks, ChildHalts, ChildSyncsBlock, ChildRecordsBlock,
         ChildReviews, ChildDies

-----------------------------------------------------------------------------
(* The invariant *)

LEMMA InitHolds == TaskInit => TaskInv
  <1> SUFFICES ASSUME TaskInit PROVE TaskInv
    OBVIOUS
  <1>1. FreshRow \in TaskRow /\ Justified(FreshRow) /\ FreshMetadata \in Metadata
    BY FreshIsOK, RowFields DEF RowOK, FreshRow
  <1>2. /\ row = FreshRow /\ sched = [pc |-> "reconcile", snap |-> FreshRow, job |-> NoJob]
        /\ child = [j \in JobIds |-> NoChild]
        /\ review = [j \in ReviewJobs |-> "none"]
        /\ github = [pr |-> "none", head |-> NoHead, checks |-> [h \in Heads |-> "pending"]]
        /\ faults = 0
    BY DEF TaskInit
  <1>3. /\ open = {}
        /\ verdict = [j \in JobIds |-> [t \in Store!Tokens |-> "unissued"]]
    BY DEF TaskInit, Store!ClaimsInit
  <1>4. sched \in Passes /\ PassInv(sched)
    BY <1>1, <1>2 DEF Passes, SchedulerPhases, PassInv
  <1>5. child \in [JobIds -> Children]
    BY <1>1, <1>2, SchedulerBoundAssumption DEF Children, NoChild, ChildPhases
  <1>6. github \in GitHubStates /\ HeadInv
    BY <1>2 DEF GitHubStates, HeadInv
  <1>7. QueueTypeOK
    BY <1>3 DEF QueueTypeOK, Outcomes
  <1>8. TaskTypeOK
    BY <1>1, <1>2, <1>4, <1>5, <1>6, <1>7, SchedulerBoundAssumption
    DEF TaskTypeOK, Passes, Children, QueueTypeOK, Outcomes, Store!Tokens
  <1>9. QueueInv
    BY <1>3 DEF QueueInv, TokensInv, Succeeded, Store!Unissued
  <1>10. QED BY <1>1, <1>2, <1>4, <1>6, <1>8, <1>9 DEF TaskInv

\* A finished review is not written again, so an approval stays.
LEMMA ApprovalsStay ==
  ASSUME TaskInv, QueueKept, ReviewsKept
  PROVE  ApprovedHeads \subseteq ApprovedHeads'
  <1> SUFFICES ASSUME NEW h \in ApprovedHeads PROVE h \in ApprovedHeads'
    OBVIOUS
  <1>1. PICK j \in ReviewJobs : j[3] = h /\ review[j] = "approved" /\ Succeeded(j)
    BY DEF ApprovedHeads
  <1>2. j \in JobIds /\ child[j].pc = "ok"
    BY <1>1 DEF JobIds, TaskInv, QueueInv
  <1>3. Succeeded(j)' /\ review'[j] = "approved"
    BY <1>1, <1>2 DEF QueueKept, ReviewsKept
  <1>4. h \in Heads
    BY DEF ApprovedHeads
  <1>5. QED BY <1>1, <1>3, <1>4 DEF ApprovedHeads

LEMMA Assemble ==
  ASSUME TaskInv, RowOK(row'), PassOK(sched'), QueueKept, ReviewsKept, GitHubKept,
         child' \in [JobIds -> Children],
         \A j \in JobIds : Succeeded(j)' => child'[j].pc = "ok",
         faults' \in 0 .. MaxFaults
  PROVE  TaskInv'
  <1>1. ApprovedHeads \subseteq ApprovedHeads'
    BY ApprovalsStay
  <1>2. \A r : Justified(r) =>
          /\ r.status = "READY" =>
               /\ r.metadata.review_head \in ApprovedHeads'
               /\ r.metadata.review_head \in PassedHeads'
          /\ r.status = "DONE" /\ r.metadata.completion = "scheduler_poll" =>
               github'.pr = "merged" /\ github'.head \in ApprovedHeads'
          /\ r.status # "DONE" /\ r.ci_status = "green" => github'.head \in PassedHeads'
    BY <1>1 DEF Justified, Backed, GitHubKept
  <1>3. Justified(row)' /\ Justified(sched.snap)'
    BY <1>2 DEF Justified, Backed, RowOK, PassOK
  <1>4. row' \in TaskRow /\ sched' \in Passes /\ PassInv(sched)'
    BY DEF RowOK, PassOK, PassInv
  <1>5. TaskTypeOK'
    BY <1>4
    DEF TaskTypeOK, Passes, Children, QueueKept, QueueTypeOK, Outcomes, ReviewsKept,
        GitHubKept, Store!Tokens
  <1>6. QueueInv' /\ HeadInv'
    BY DEF QueueInv, QueueKept, GitHubKept
  <1>7. QED BY <1>3, <1>4, <1>5, <1>6 DEF TaskInv

\* A success goes with a child that has ended, as long as only working ones move.
LEMMA SuccessStays ==
  ASSUME TaskInv, NEW j \in JobIds, ~Succeeded(j), NEW c \in Children,
         child' = [child EXCEPT ![j] = c],
         \A k \in JobIds : Succeeded(k)' <=> Succeeded(k)
  PROVE  /\ child' \in [JobIds -> Children]
         /\ \A k \in JobIds : Succeeded(k)' => child'[k].pc = "ok"
  <1>1. child \in [JobIds -> Children] /\ \A k \in JobIds : Succeeded(k) => child[k].pc = "ok"
    BY Typed DEF TaskInv, QueueInv
  <1>2. child' \in [JobIds -> Children]
    BY <1>1
  <1>3. \A k \in JobIds \ {j} : child'[k] = child[k]
    BY <1>1
  <1>4. QED BY <1>1, <1>2, <1>3

LEMMA ChildrenStay ==
  ASSUME TaskInv, child' = child, \A k \in JobIds : Succeeded(k)' <=> Succeeded(k)
  PROVE  /\ child' \in [JobIds -> Children]
         /\ \A k \in JobIds : Succeeded(k)' => child'[k].pc = "ok"
  BY Typed DEF TaskInv, QueueInv

LEMMA PassKeepsInv ==
  ASSUME TaskInv, SchedulerStep \/ SchedulerFault
  PROVE  TaskInv'
  <1>1. /\ child' = child /\ review' = review /\ github' = github
        /\ faults' \in 0 .. MaxFaults
        /\ UNCHANGED queue \/ \E j \in JobIds : Store!Post(j)
    BY PassStepShape
  <1>2. QueueKept /\ \A k \in JobIds : Succeeded(k)' <=> Succeeded(k)
    BY <1>1, QueueStays, PostKeeps
  <1>3. ReviewsKept /\ GitHubKept
    BY <1>1, ReviewsStay, GitHubStays
  <1>4. RowOK(row') /\ PassOK(sched')
    BY PassStepIsOK
  <1>5. QED BY <1>1, <1>2, <1>3, <1>4, ChildrenStay, Assemble

LEMMA ChildKeepsInv ==
  ASSUME TaskInv, NEW j \in JobIds, ChildStep(j) \/ ChildDies(j)
  PROVE  TaskInv'
  <1>1. /\ sched' = sched /\ UNCHANGED queue /\ faults' = faults
    BY ChildStepShape
  <1>2. PassOK(sched') /\ faults' \in 0 .. MaxFaults
    BY <1>1, InvParts DEF TaskInv, TaskTypeOK
  <1>3. QueueKept /\ \A k \in JobIds : Succeeded(k)' <=> Succeeded(k)
    BY <1>1, QueueStays
  <1>4. PICK c \in Children : child' = [child EXCEPT ![j] = c]
    BY ChildStepMoves DEF ChildMoves
  <1>5. ~Succeeded(j)
    BY ChildStepMoves DEF ChildMoves, Working, TaskInv, QueueInv
  <1>6. /\ child' \in [JobIds -> Children]
        /\ \A k \in JobIds : Succeeded(k)' => child'[k].pc = "ok"
    BY <1>3, <1>4, <1>5, SuccessStays
  <1>7. RowOK(row') /\ ReviewsKept /\ GitHubKept
    BY ChildStepRow, ChildStepReview, ChildStepGitHub
  <1>8. QED BY <1>2, <1>3, <1>6, <1>7, Assemble

\* The steps of the queue that are not the scheduler's.
LEMMA QueueStepKeepsInv ==
  ASSUME TaskInv, NEW j \in JobIds, NEW t \in Store!Tokens,
         \/ LeaseExpires(j) \/ RunnerClaims(j, t)
         \/ SupervisorReports(j, t) \/ OperatorRequeues(j, t)
  PROVE  TaskInv'
  <1>1. /\ row' = row /\ review' = review /\ github' = github /\ sched' = sched
        /\ UNCHANGED faults \/ Fault
    BY DEF LeaseExpires, RunnerClaims, SupervisorReports, OperatorRequeues
  <1>2. RowOK(row') /\ PassOK(sched') /\ ReviewsKept /\ GitHubKept
    BY <1>1, InvParts, ReviewsStay, GitHubStays
  <1>3. faults' \in 0 .. MaxFaults
    BY <1>1, SchedulerBoundAssumption DEF Fault, TaskInv, TaskTypeOK
  <1>4. CASE LeaseExpires(j) \/ OperatorRequeues(j, t)
    <2>1. child' = child /\ QueueKept /\ \A k \in JobIds : Succeeded(k)' <=> Succeeded(k)
      BY <1>4, RevokeKeeps, ReopenKeeps DEF LeaseExpires, OperatorRequeues
    <2>2. QED BY <1>2, <1>3, <2>1, ChildrenStay, Assemble
  <1>5. CASE RunnerClaims(j, t)
    <2>1. /\ QueueKept /\ ~Succeeded(j)
          /\ \A k \in JobIds : Succeeded(k)' <=> Succeeded(k)
      BY <1>5, IssueKeeps DEF RunnerClaims
    <2>2. PICK c \in Children : child' = [child EXCEPT ![j] = c]
      BY <1>5, ChildTypes DEF RunnerClaims, ChildGoes, ChildPhases
    <2>3. QED BY <1>2, <1>3, <2>1, <2>2, SuccessStays, Assemble
  <1>6. CASE SupervisorReports(j, t)
    <2>1. PICK v \in {"succeeded", "failed"} :
            Store!Settle(j, t, v) /\ (v = "succeeded" => child[j].pc = "ok")
      BY <1>6 DEF SupervisorReports
    <2>2. /\ QueueKept
          /\ \A k \in JobIds : Succeeded(k)' => Succeeded(k) \/ (k = j /\ v = "succeeded")
      BY <2>1, SettleKeeps
    <2>3. child' = child /\ child \in [JobIds -> Children]
      BY <1>6, Typed DEF SupervisorReports, TaskInv
    <2>4. \A k \in JobIds : Succeeded(k)' => child'[k].pc = "ok"
      BY <2>1, <2>2, <2>3 DEF TaskInv, QueueInv
    <2>5. QED BY <1>2, <1>3, <2>2, <2>3, <2>4, Assemble
  <1>7. QED BY <1>4, <1>5, <1>6

LEMMA OthersKeepInv ==
  ASSUME TaskInv, OperatorReconcilesMerge \/ GitHubStep \/ UNCHANGED schedulerVars
  PROVE  TaskInv'
  <1>1. /\ UNCHANGED queue /\ child' = child /\ review' = review /\ sched' = sched
        /\ faults' = faults
    BY DEF OperatorReconcilesMerge, GitHubStep, ChecksFinish, PullRequestEnds,
           SomebodyPushes, schedulerVars
  <1>2. RowOK(row')
    <2>1. row' = row \/ OperatorReconcilesMerge
      BY DEF GitHubStep, ChecksFinish, PullRequestEnds, SomebodyPushes, schedulerVars
    <2>2. QED BY <2>1, InvParts, OperatorIsOK
  <1>3. GitHubKept
    <2>1. github' = github \/ GitHubStep
      BY DEF OperatorReconcilesMerge, schedulerVars
    <2>2. QED BY <2>1, GitHubStays, GitHubStepKeeps
  <1>4. QueueKept /\ \A k \in JobIds : Succeeded(k)' <=> Succeeded(k)
    BY <1>1, QueueStays
  <1>5. PassOK(sched') /\ ReviewsKept /\ faults' \in 0 .. MaxFaults
    BY <1>1, InvParts, ReviewsStay DEF TaskInv, TaskTypeOK
  <1>6. QED BY <1>1, <1>2, <1>3, <1>4, <1>5, ChildrenStay, Assemble

LEMMA NextKeepsInv == TaskInv /\ [TaskNext]_schedulerVars => TaskInv'
  <1> SUFFICES ASSUME TaskInv, [TaskNext]_schedulerVars PROVE TaskInv'
    OBVIOUS
  <1>1. CASE SchedulerStep \/ SchedulerFault
    BY <1>1, PassKeepsInv
  <1>2. ASSUME NEW j \in JobIds, ChildStep(j) \/ ChildDies(j) PROVE TaskInv'
    BY <1>2, ChildKeepsInv
  <1>3. ASSUME NEW j \in JobIds, LeaseExpires(j) PROVE TaskInv'
    <2>1. 1 \in Store!Tokens
      BY SchedulerBoundAssumption DEF Store!Tokens
    <2>2. QED BY <1>3, <2>1, QueueStepKeepsInv
  <1>4. ASSUME NEW j \in JobIds, NEW t \in Store!Tokens,
               RunnerClaims(j, t) \/ SupervisorReports(j, t) \/ OperatorRequeues(j, t)
        PROVE  TaskInv'
    BY <1>4, QueueStepKeepsInv
  <1>5. CASE OperatorReconcilesMerge \/ GitHubStep \/ UNCHANGED schedulerVars
    BY <1>5, OthersKeepInv
  <1>6. QED BY <1>1, <1>2, <1>3, <1>4, <1>5 DEF TaskNext

LEMMA TaskInvHolds == TaskSpec => []TaskInv
  BY InitHolds, NextKeepsInv, PTL DEF TaskSpec

-----------------------------------------------------------------------------
(* Theorems *)

\* Whatever the scheduler, the workers, the operator and GitHub do to the row, it is one
\* (TaskScheduler, TaskTypeOK: no counter or job outside its range is ever written).
THEOREM TaskTypeCorrect == TaskSpec => []TaskTypeOK
  <1>1. TaskInv => TaskTypeOK
    BY DEF TaskInv
  <1>2. QED BY <1>1, TaskInvHolds, PTL

\* A READY task names a revision that a finished review approved, and one that the
\* scheduler completed was merged at such a revision, for any number of revisions,
\* dispatches, reviews, claims and faults (_run_final_review, _poll_merged_tasks).
THEOREM ReadyRevisionsApproved == TaskSpec => []ReadyRevisionsWereApproved
  <1>1. \A h \in ApprovedHeads : ApprovedRevision(h)
    BY DEF ApprovedHeads, ApprovedRevision
  <1>2. TaskInv => ReadyRevisionsWereApproved
    BY <1>1 DEF TaskInv, Justified, Backed, ReadyRevisionsWereApproved
  <1>3. QED BY <1>2, TaskInvHolds, PTL

\* A READY task has green checks behind it, at its revision or before (the READY gate,
\* whose ci_status outlives the revision it is of).
THEOREM ReadyAfterGreenCI == TaskSpec => []ReadyFollowsGreenCI
  <1>1. TaskInv => ReadyFollowsGreenCI
    BY DEF TaskInv, Justified, Backed, PassedHeads, ReadyFollowsGreenCI
  <1>2. QED BY <1>1, TaskInvHolds, PTL

-----------------------------------------------------------------------------
(* The validation a task that waits for CI has on record *)

\* The first job of a task.
First == <<"IMPLEMENT", 0, NoHead>>

\* What was recorded of a task before its validation was.
Early(m) ==
  /\ ~m.validated /\ ~m.post_ci_review /\ m.review_status # "changes_required"
  /\ m.runner_job \in {NoJob, First}

EarlyRow(r) ==
  /\ r.status \in {"QUEUED", "RUNNING", "BLOCKED"} /\ r.ci_status = "none"
  /\ Early(r.metadata)
  /\ r.status = "QUEUED" => r.metadata.runner_job = NoJob /\ r.metadata.sequence = 0

Idle(j) == j \notin open /\ Store!Unissued(j) /\ child[j].pc = "none"

\* Nobody works on another job than the first, which is claimed once.
OnlyFirst ==
  /\ \A j \in JobIds \ {First} : Idle(j)
  /\ First \in open => Store!Unissued(First)
  /\ Store!Unissued(First) => child[First].pc = "none"
  /\ \A t \in Store!Tokens :
       verdict[First][t] \in {"succeeded", "failed"} => child[First].pc \in {"ok", "bad"}
  /\ Early(child[First].metadata)

\* The pass has reserved a job, and not enqueued it.
Dispatching == {"enqueue", "dispatch_failed", "block_dispatch"}

\* The pass before the validation is on record.
EarlyPass ==
  /\ sched.pc \in {"reconcile", "settle", "list", "dispatch", "enqueue", "dispatch_failed",
                   "block_dispatch", "poll_ci", "poll_merged", "notify", "notified"}
  /\ EarlyRow(sched.snap)
  /\ sched.pc = "settle" /\ sched.snap.status = "BLOCKED" => row.status = "BLOCKED"
  /\ sched.pc = "dispatch" => row.status = "QUEUED" /\ sched.snap.status = "QUEUED"
  /\ sched.pc = "notified" => row.status = "BLOCKED" /\ sched.snap.status = "BLOCKED"
  /\ sched.pc = "enqueue" => sched.job = First
  /\ sched.pc \in Dispatching => row.status = "RUNNING" /\ Idle(First)

\* The phases of a child that has blocked the task, or does not work.
Halted == {"halted", "blocking"}
Resting == Halted \cup {"none", "ok", "bad"}

\* No validation is on record yet.
Unpublished ==
  /\ EarlyRow(row) /\ EarlyPass /\ OnlyFirst
  /\ child[First].pc \notin {"published", "awaiting"}
  /\ row.status = "QUEUED" => Idle(First)
  /\ row.status = "BLOCKED" =>
       First \notin open /\ child[First].pc \in Resting

\* It is, but the pass has read the row before it was.
JustPublished ==
  /\ row.metadata.validated /\ row.status \in {"RUNNING", "WAITING_CI"}
  /\ row.status = "RUNNING" => row.ci_status = "none"
  /\ OnlyFirst /\ child[First].pc \in {"published", "awaiting", "ok", "bad"}
  /\ sched.pc = "settle" /\ EarlyRow(sched.snap) /\ sched.snap.status = "RUNNING"

\* It is in every copy of the row that may be written.
HoldsRow ==
  {"settle", "dispatch", "block_dispatch", "ci", "review", "enqueue_review", "merged",
   "notified"}

HoldsCopy == {"opening", "tracking", "blocking"}

Published ==
  /\ row.metadata.validated
  /\ sched.pc \in HoldsRow => sched.snap.metadata.validated
  /\ \A j \in JobIds :
       child[j].pc \in HoldsCopy => child[j].metadata.validated

WaitInv ==
  Quiet /\ row.status # "DONE" => Unpublished \/ JustPublished \/ Published

-----------------------------------------------------------------------------
(* What copies and writes keep of it *)

LEMMA ValidationEdits ==
  ASSUME NEW m \in Metadata
  PROVE  /\ Released(m).validated = m.validated
         /\ \A j : [m EXCEPT !.runner_job = j].validated = m.validated
         /\ \A j : [m EXCEPT !.review_job = j].validated = m.validated
         /\ \A c : [m EXCEPT !.completion = c].validated = m.validated
         /\ \A n : [m EXCEPT !.repairs_used = n].validated = m.validated
         /\ [m EXCEPT !.post_ci_review = TRUE].validated = m.validated
         /\ Approved(m).validated
  BY DEF Metadata, Released, Approved

LEMMA ReviewValidationEdits ==
  ASSUME NEW m \in Metadata
  PROVE  LET free == [m EXCEPT !.review_job = NoJob, !.review_sequence = @ + 1]
         IN  /\ free.validated = m.validated
             /\ \A s, h : [m EXCEPT !.review_job = NoJob, !.review_sequence = @ + 1,
                                    !.review_status = s, !.review_head = h].validated
                            = m.validated
             /\ \A s, h : [[m EXCEPT !.review_job = NoJob, !.review_sequence = @ + 1,
                                     !.review_status = s, !.review_head = h]
                             EXCEPT !.review_repairs = @ + 1].validated
                            = m.validated
  BY DEF Metadata

LEMMA EarlyEdits ==
  ASSUME NEW m \in Metadata, Early(m)
  PROVE  /\ Early(Released(m))
         /\ Early([m EXCEPT !.runner_job = First])
         /\ \A n : Early([m EXCEPT !.repairs_used = n])
  BY DEF Metadata, Early, Released

LEMMA EarlyStart ==
  /\ EarlyRow(FreshRow) /\ Early(FreshMetadata) /\ First \in JobIds
  /\ First \in WorkJobs /\ First # NoJob
  <1>1. 0 \in Sequences
    BY SchedulerBoundAssumption DEF Sequences
  <1>2. First \in WorkJobs
    BY <1>1 DEF First, WorkJobs
  <1>3. QED BY <1>2, JobParts DEF JobIds, EarlyRow, Early, FreshRow, FreshMetadata

\* A child that is given a phase, or a copy of the row.
LEMMA ChildIs ==
  ASSUME TaskInv, NEW j \in JobIds, NEW pc, ChildGoes(j, pc) \/ ChildReads(j, pc)
  PROVE  /\ child'[j].pc = pc
         /\ ChildGoes(j, pc) => child'[j].metadata = FreshMetadata
         /\ ChildReads(j, pc) => child'[j].metadata = row.metadata
         /\ \A k \in JobIds \ {j} : child'[k] = child[k]
  <1>1. child \in [JobIds -> Children]
    BY Typed DEF TaskInv
  <1>2. CASE ChildGoes(j, pc)
    <2>1. child' = [child EXCEPT ![j] = [NoChild EXCEPT !.pc = pc]]
      BY <1>2 DEF ChildGoes
    <2>2. /\ [NoChild EXCEPT !.pc = pc].pc = pc
          /\ [NoChild EXCEPT !.pc = pc].metadata = FreshMetadata
      BY DEF NoChild
    <2>3. ~ChildReads(j, pc) \/ row.metadata = FreshMetadata
      BY <1>1, <2>1, <2>2 DEF ChildReads
    <2>4. QED BY <1>1, <2>1, <2>2, <2>3
  <1>3. CASE ChildReads(j, pc)
    <2>1. child' = [child EXCEPT ![j] = [pc |-> pc, metadata |-> row.metadata,
                                         attempts |-> row.implementation_attempts]]
      BY <1>3 DEF ChildReads
    <2>2. ~ChildGoes(j, pc) \/ row.metadata = FreshMetadata
      BY <1>1, <2>1 DEF ChildGoes, NoChild
    <2>3. QED BY <1>1, <2>1, <2>2
  <1>4. QED BY <1>2, <1>3

\* A job that ended, or was never there, has no child at work.
LEMMA EndedStatus ==
  ASSUME TaskInv, Quiet, OnlyFirst,
         JobStatus(First) \in {"succeeded", "failed", "uncertain", "absent"}
  PROVE  First \notin open /\ child[First].pc \in {"none", "ok", "bad"}
  <1>1. First \notin open
    BY DEF JobStatus
  <1>2. CASE Store!Unissued(First)
    BY <1>1, <1>2 DEF OnlyFirst
  <1>3. CASE ~Store!Unissued(First)
    <2>1. PICK u \in Store!Tokens : Store!Newest(First, u)
      BY <1>3, EarlyStart DEF TaskInv, QueueInv, TokensInv
    <2> DEFINE t == CHOOSE t \in Store!Tokens : Store!Newest(First, t)
    <2>2. t \in Store!Tokens /\ Store!Newest(First, t)
      BY <2>1
    <2>3. JobStatus(First) = CASE verdict[First][t] = "live" -> "running"
                               [] verdict[First][t] = "revoked" -> "uncertain"
                               [] OTHER -> verdict[First][t]
      BY <1>1, <1>3 DEF JobStatus
    <2> HIDE DEF t
    <2>4. verdict[First][t] # "revoked"
      BY <2>2, EarlyStart DEF Quiet
    <2>5. verdict[First][t] \in {"succeeded", "failed"}
      BY <2>2, <2>3, <2>4, EarlyStart, QueueParts DEF QueueTypeOK, Outcomes, Store!Newest
    <2>6. QED BY <1>1, <2>2, <2>5 DEF OnlyFirst
  <1>4. QED BY <1>2, <1>3

-----------------------------------------------------------------------------
(* Once every copy has the validation *)

PassValid ==
  row'.metadata.validated /\ (sched'.pc \in HoldsRow => sched'.snap.metadata.validated)

LEMMA WriteOrRaiseIsValid ==
  ASSUME row.metadata.validated, NEW new, new.metadata.validated, NEW pc \in Starts,
         WritesOrRaises(new, pc)
  PROVE  PassValid
  BY DEF WritesOrRaises, Raises, Goes, PassValid, HoldsRow, Starts

LEMMA ReviewFailureIsValid ==
  ASSUME TaskInv, row.metadata.validated, sched.snap.metadata.validated,
         ReviewFailsWith(sched.snap.metadata)
  PROVE  PassValid
  <1> DEFINE m == [sched.snap.metadata EXCEPT !.review_job = NoJob, !.review_sequence = @ + 1]
             new == Becomes("BLOCKED", m)
  <1>1. m.validated
    BY InvParts, ReviewValidationEdits
  <1>2. WritesOrRaises(new, "poll_merged")
    BY DEF ReviewFailsWith
  <1> HIDE DEF m
  <1>3. new.metadata.validated
    BY <1>1, InvParts DEF Becomes, RowOK, TaskRow
  <1> HIDE DEF new
  <1>4. QED BY <1>2, <1>3, WriteOrRaiseIsValid DEF Starts

LEMMA RowIsRow == ASSUME TaskInv PROVE row \in TaskRow
  BY Typed DEF TaskInv

LEMMA PassStaysValid ==
  ASSUME TaskInv, Published, SchedulerStep \/ SchedulerFault
  PROVE  PassValid
  <1> DEFINE sm == sched.snap.metadata
  <1>1. sm \in Metadata /\ row.metadata.validated
    BY InvParts DEF Published
  <1>2. CASE ReconcileReads \/ ReconcileWaits \/ ListsCandidates \/ DispatchPaused
             \/ Enqueues \/ PollsCI \/ CIUnknown \/ EnqueuesReview \/ ReviewWaits
             \/ PollsMerged \/ MergePending \/ Notifies \/ NotifiesNothing
             \/ SchedulerCrashes \/ ReserveFails \/ EnqueueFails \/ DispatchFailureReads
    <2>1. row' = row
      BY <1>2 DEF ReconcileReads, ReconcileWaits, ListsCandidates, DispatchPaused, Enqueues,
           PollsCI, CIUnknown, EnqueuesReview, ReviewWaits, PollsMerged, MergePending,
           Notifies, NotifiesNothing, SchedulerCrashes, ReserveFails, EnqueueFails,
           DispatchFailureReads, Raises
    <2>2. (\E pc \in Starts : Goes(pc)) \/ (\E pc \in HoldsRow : Reads(pc))
      BY <1>2 DEF ReconcileReads, ReconcileWaits, ListsCandidates, DispatchPaused, Enqueues,
           PollsCI, CIUnknown, EnqueuesReview, ReviewWaits, PollsMerged, MergePending,
           Notifies, NotifiesNothing, SchedulerCrashes, ReserveFails, EnqueueFails,
           DispatchFailureReads, Raises, Starts, HoldsRow
    <2>3. QED BY <1>1, <2>1, <2>2 DEF Goes, Reads, PassValid, Starts, HoldsRow
  <1>3. CASE ReconcileSucceeded \/ ReconcileBlocks
    <2>1. sm.validated
      BY <1>3 DEF Published, HoldsRow, ReconcileSucceeded, ReconcileBlocks, At
    <2>2. Released(sm).validated
      BY <1>1, <2>1, ValidationEdits
    <2>3. \/ Raises
          \/ \E s \in {sched.snap.status, "BLOCKED"} :
               WritesOrRaises(Becomes(s, Released(sm)), "list")
      BY <1>3 DEF ReconcileSucceeded, ReconcileBlocks
    <2>4. Raises => PassValid
      BY <1>1 DEF Raises, Goes, PassValid, HoldsRow
    <2>5. \A s : Becomes(s, Released(sm)).metadata = Released(sm)
      BY RowIsRow DEF TaskRow, Becomes
    <2>6. QED BY <1>1, <2>2, <2>3, <2>4, <2>5, WriteOrRaiseIsValid DEF Starts
  <1>4. CASE Reserves
    <2>1. sm.validated
      BY <1>4 DEF Published, HoldsRow, Reserves, At
    <2>2. PICK job : /\ row' = Becomes("RUNNING", [sm EXCEPT !.runner_job = job])
                     /\ sched'.pc = "enqueue"
      BY <1>4 DEF Reserves
    <2>3. [sm EXCEPT !.runner_job = job].validated
      BY <1>1, <2>1, ValidationEdits
    <2>4. row'.metadata.validated
      BY <2>2, <2>3, RowIsRow DEF TaskRow, Becomes
    <2>5. QED BY <2>2, <2>4 DEF PassValid, HoldsRow
  <1>5. CASE RefusesMerge \/ MergedCallFails \/ DispatchFailureBlocks
    <2>1. /\ \/ row' = row \/ row' = [row EXCEPT !.status = "BLOCKED"]
             \/ row' = Becomes("BLOCKED", sm) /\ At("block_dispatch")
          /\ \E pc \in {"reconcile", "poll_ci", "notify"} : Goes(pc)
      BY <1>5 DEF DispatchFailureBlocks, RefusesMerge, MergedCallFails, Raises
    <2>2. At("block_dispatch") => sm.validated
      BY DEF Published, HoldsRow, At
    <2>3. row'.metadata.validated
      BY <1>1, <2>1, <2>2, RowIsRow DEF TaskRow, Becomes
    <2>4. QED BY <2>1, <2>3 DEF Goes, PassValid, HoldsRow
  <1>6. CASE CIPasses
    <2> DEFINE m == [sm EXCEPT !.post_ci_review = TRUE]
               new == [Becomes("RUNNING", m) EXCEPT !.ci_status = "green"]
    <2>1. sm.validated
      BY <1>6 DEF Published, HoldsRow, CIPasses, At
    <2>2. m.validated
      BY <1>1, <2>1, ValidationEdits
    <2>3. \/ row' = new /\ sched' = [pc |-> "review", snap |-> new, job |-> NoJob]
          \/ Raises
      BY <1>6 DEF CIPasses
    <2> HIDE DEF m
    <2>4. new.metadata.validated
      BY <2>2, RowIsRow DEF TaskRow, Becomes
    <2> HIDE DEF new
    <2>5. QED BY <1>1, <2>3, <2>4 DEF Raises, Goes, PassValid, HoldsRow
  <1>7. CASE CIFails
    <2> DEFINE new == [Becomes("BLOCKED", sm) EXCEPT
                         !.ci_status = "failed",
                         !.ci_attempts = sched.snap.ci_attempts + 1]
    <2>1. sm.validated
      BY <1>7 DEF Published, HoldsRow, CIFails, At
    <2>2. WritesOrRaises(new, "poll_merged")
      BY <1>7 DEF CIFails
    <2>3. new.metadata.validated
      BY <2>1, RowIsRow DEF TaskRow, Becomes
    <2> HIDE DEF new
    <2>4. QED BY <1>1, <2>2, <2>3, WriteOrRaiseIsValid DEF Starts
  <1>8. CASE ReviewReserves
    <2>1. sm.validated
      BY <1>8 DEF Published, HoldsRow, ReviewReserves, At
    <2>2. \/ ReviewFailsWith(sm)
          \/ \E job : /\ row' = Becomes("RUNNING", [sm EXCEPT !.review_job = job])
                      /\ sched' = [sched EXCEPT !.pc = "enqueue_review", !.job = job]
      BY <1>8 DEF ReviewReserves
    <2>3. ASSUME NEW job, row' = Becomes("RUNNING", [sm EXCEPT !.review_job = job]),
                 sched' = [sched EXCEPT !.pc = "enqueue_review", !.job = job]
          PROVE  PassValid
      <3>1. [sm EXCEPT !.review_job = job].validated
        BY <1>1, <2>1, ValidationEdits
      <3>2. row'.metadata.validated
        BY <2>3, <3>1, RowIsRow DEF TaskRow, Becomes
      <3>3. sched'.snap = sched.snap
        BY <2>3, InvParts DEF PassOK, Passes
      <3>4. QED BY <2>1, <3>2, <3>3 DEF PassValid
    <2>4. QED BY <1>1, <2>1, <2>2, <2>3, ReviewFailureIsValid
  <1>9. CASE ReviewUnusable \/ ReviewCallFails
    <2>1. sm.validated /\ ReviewFailsWith(sm)
      BY <1>9 DEF Published, HoldsRow, ReviewUnusable, ReviewCallFails, At
    <2>2. QED BY <1>1, <2>1, ReviewFailureIsValid
  <1>10. CASE \E independent \in BOOLEAN : ReviewApproves(independent)
    <2> DEFINE m == Reviewed("approved")
               ready == [Becomes("READY", m) EXCEPT !.ci_status = "green"]
               blocked == Becomes("BLOCKED", m)
    <2>1. sm.validated
      BY <1>10 DEF Published, HoldsRow, ReviewApproves, HasReview, At
    <2>2. m.validated
      BY <1>1, <2>1, ReviewValidationEdits DEF Reviewed
    <2>3. WritesOrRaises(ready, "poll_merged") \/ WritesOrRaises(blocked, "poll_merged")
      BY <1>10 DEF ReviewApproves
    <2> HIDE DEF m
    <2>4. ready.metadata.validated /\ blocked.metadata.validated
      BY <2>2, RowIsRow DEF TaskRow, Becomes
    <2> HIDE DEF ready, blocked
    <2>5. QED BY <1>1, <2>3, <2>4, WriteOrRaiseIsValid DEF Starts
  <1>11. CASE ReviewRequiresChanges
    <2> DEFINE m == [Reviewed("changes_required") EXCEPT !.review_repairs = @ + 1]
    <2>1. sm.validated
      BY <1>11 DEF Published, HoldsRow, ReviewRequiresChanges, HasReview, At
    <2>2. m.validated
      BY <1>1, <2>1, ReviewValidationEdits DEF Reviewed
    <2>3. WritesOrRaises(Becomes("BLOCKED", m), "poll_merged")
      BY <1>11 DEF ReviewRequiresChanges
    <2> HIDE DEF m
    <2>4. Becomes("BLOCKED", m).metadata.validated
      BY <2>2, RowIsRow DEF TaskRow, Becomes
    <2>5. QED BY <1>1, <2>3, <2>4, WriteOrRaiseIsValid DEF Starts
  <1>12. CASE RecordsMerge
    <2> DEFINE m == [sm EXCEPT !.completion = "scheduler_poll"]
    <2>1. sm.validated
      BY <1>12 DEF Published, HoldsRow, RecordsMerge, At
    <2>2. m.validated
      BY <1>1, <2>1, ValidationEdits
    <2>3. /\ row' = row \/ row' = [Becomes("DONE", m) EXCEPT !.ci_status = "green"]
          /\ Goes("notify")
      BY <1>12 DEF RecordsMerge
    <2> HIDE DEF m
    <2>4. row'.metadata.validated
      BY <1>1, <2>2, <2>3, RowIsRow DEF TaskRow, Becomes
    <2>5. QED BY <2>3, <2>4 DEF Goes, PassValid, HoldsRow
  <1>13. CASE NotificationRecorded
    <2>1. sm.validated
      BY <1>13 DEF Published, HoldsRow, NotificationRecorded, At
    <2>2. /\ row' = row \/ row' = Becomes(sched.snap.status, sm)
          /\ Goes("reconcile")
      BY <1>13 DEF NotificationRecorded, WritesIfAllowed
    <2>3. row'.metadata.validated
      BY <1>1, <2>1, <2>2, RowIsRow DEF TaskRow, Becomes
    <2>4. QED BY <2>2, <2>3 DEF Goes, PassValid, HoldsRow
  <1>14. QED
    BY <1>2, <1>3, <1>4, <1>5, <1>6, <1>7, <1>8, <1>9, <1>10, <1>11, <1>12, <1>13
    DEF SchedulerStep, SchedulerFault

\* No copy a child has read is older than the validation.
ChildrenValid ==
  \A j \in JobIds :
    child[j].pc \in HoldsCopy => child[j].metadata.validated

LEMMA ChildStaysValid ==
  ASSUME TaskInv, Published, NEW j \in JobIds, ChildStep(j) \/ ChildDies(j)
  PROVE  row'.metadata.validated /\ ChildrenValid'
  <1> DEFINE cm == child[j].metadata
  <1>1. cm \in Metadata /\ row.metadata.validated /\ ChildrenValid
    BY ChildParts DEF Published, ChildrenValid
  <1>2. ASSUME NEW pc, ChildGoes(j, pc), pc \notin HoldsCopy
        PROVE  ChildrenValid'
    BY <1>1, <1>2, ChildIs DEF ChildrenValid
  <1>3. ASSUME NEW pc, ChildReads(j, pc) PROVE ChildrenValid'
    BY <1>1, <1>3, ChildIs DEF ChildrenValid
  <1>4. ChildrenValid'
    <2>1. \/ \E pc \in ChildPhases \ HoldsCopy : ChildGoes(j, pc)
          \/ \E pc \in ChildPhases : ChildReads(j, pc)
      BY DEF ChildStep, ChildStarts, ChildOpens, ChildReadsTask, ChildTracks,
             ChildReservesRepair, ChildRefundsRepair, ChildRepaired, ChildPushes,
             ChildSyncs, ChildPublishes, ChildChecksStatus, ChildAwaitsCI, ChildConcludes,
             ChildFindsNothing, ChildBlocks, ChildHalts, ChildSyncsBlock, ChildRecordsBlock,
             ChildReviews, ChildDies, ChildPhases, HoldsCopy
    <2>2. QED BY <1>2, <1>3, <2>1
  <1>5. row'.metadata.validated
    <2>1. CASE row' = row
      BY <1>1, <2>1
    <2>2. CASE \E count \in 0 .. MaxCount : ChildTracks(j, count)
      <3>1. cm.validated
        BY <1>1, <2>2 DEF ChildrenValid, ChildTracks, HoldsCopy
      <3>2. \/ row' = row
            \/ \E n : row' = [Becomes("RUNNING", cm) EXCEPT !.implementation_attempts = n]
        BY <2>2 DEF ChildTracks, WritesIfAllowed
      <3>3. QED BY <1>1, <3>1, <3>2, RowIsRow DEF TaskRow, Becomes
    <2>3. CASE ChildReservesRepair(j) \/ ChildRefundsRepair(j)
      <3>1. \/ row' = row
            \/ \E n : row' = [row EXCEPT !.metadata.repairs_used = n]
        BY <2>3 DEF ChildReservesRepair, ChildRefundsRepair
      <3>2. ASSUME NEW n, row' = [row EXCEPT !.metadata.repairs_used = n]
            PROVE  row'.metadata.validated
        <4>1. row'.metadata = [row.metadata EXCEPT !.repairs_used = n]
          BY <3>2, InvParts DEF RowOK, TaskRow
        <4>2. QED BY <1>1, <4>1, InvParts, ValidationEdits
      <3>3. QED BY <1>1, <3>1, <3>2
    <2>4. CASE ChildPublishes(j)
      <3>1. \/ row' = row
            \/ \E n : row' = [Becomes("RUNNING", Approved(cm)) EXCEPT
                                !.implementation_attempts = n]
        BY <2>4 DEF ChildPublishes, WritesIfAllowed
      <3>2. QED BY <1>1, <3>1, ValidationEdits, RowIsRow DEF TaskRow, Becomes
    <2>5. CASE ChildAwaitsCI(j)
      <3>1. \/ row' = row
            \/ row' = [row EXCEPT !.status = "WAITING_CI", !.ci_status = "queued"]
        BY <2>5 DEF ChildAwaitsCI
      <3>2. QED BY <1>1, <3>1, RowIsRow DEF TaskRow, Becomes
    <2>6. CASE ChildFindsNothing(j)
      <3> DEFINE m == [Approved(cm) EXCEPT !.completion = "no_changes"]
      <3>1. \/ row' = row
            \/ row' = [Becomes("DONE", m) EXCEPT !.ci_status = "not_required"]
        BY <2>6 DEF ChildFindsNothing, WritesIfAllowed
      <3>2. Approved(cm) \in Metadata /\ Approved(cm).validated
        BY <1>1, MetadataEdits, ValidationEdits
      <3>3. m.validated
        BY <3>2, ValidationEdits
      <3> HIDE DEF m
      <3>4. QED BY <1>1, <3>1, <3>3, RowIsRow DEF TaskRow, Becomes
    <2>7. CASE \E count \in 0 .. MaxCount : ChildHalts(j, count)
      <3>1. \/ row' = row
            \/ \E n : row' = [row EXCEPT !.status = "BLOCKED",
                                         !.implementation_attempts = n]
        BY <2>7 DEF ChildHalts, WritesIfAllowed
      <3>2. QED BY <1>1, <3>1, RowIsRow DEF TaskRow
    <2>8. CASE ChildRecordsBlock(j)
      <3>1. cm.validated
        BY <1>1, <2>8 DEF ChildrenValid, ChildRecordsBlock, HoldsCopy
      <3>2. row' = row \/ row' = Becomes("BLOCKED", cm)
        BY <2>8 DEF ChildRecordsBlock, WritesIfAllowed
      <3>3. QED BY <1>1, <3>1, <3>2, RowIsRow DEF TaskRow, Becomes
    <2>9. CASE \E metadata \in {row.metadata, cm} : ChildOpens(j, metadata)
      <3>1. cm.validated
        BY <1>1, <2>9 DEF ChildrenValid, ChildOpens, HoldsCopy
      <3>2. row' = row \/ \E m \in {row.metadata, cm} : row' = Becomes("RUNNING", m)
        BY <2>9 DEF ChildOpens, WritesIfAllowed
      <3>3. QED BY <1>1, <3>1, <3>2, RowIsRow DEF TaskRow, Becomes
    <2>10. QED
      BY <2>1, <2>2, <2>3, <2>4, <2>5, <2>6, <2>7, <2>8, <2>9
      DEF ChildStep, ChildStarts, ChildReadsTask, ChildRepaired, ChildPushes, ChildSyncs,
          ChildChecksStatus, ChildConcludes, ChildBlocks, ChildSyncsBlock, ChildReviews,
          ChildDies
  <1>6. QED BY <1>4, <1>5

LEMMA PublishedStays ==
  ASSUME TaskInv, Published, TaskNext
  PROVE  Published'
  <1>1. row.metadata.validated /\ ChildrenValid
    BY DEF Published, ChildrenValid
  <1>2. CASE SchedulerStep \/ SchedulerFault
    <2>1. child' = child
      BY <1>2, PassStepShape
    <2>2. PassValid
      BY <1>2, PassStaysValid
    <2>3. QED BY <1>1, <2>1, <2>2 DEF Published, PassValid, ChildrenValid
  <1>3. ASSUME NEW j \in JobIds, ChildStep(j) \/ ChildDies(j) PROVE Published'
    <2>1. sched' = sched
      BY <1>3, ChildStepShape
    <2>2. row'.metadata.validated /\ ChildrenValid'
      BY <1>3, ChildStaysValid
    <2>3. QED BY <2>1, <2>2 DEF Published, ChildrenValid
  <1>4. ASSUME NEW j \in JobIds, NEW t \in Store!Tokens, RunnerClaims(j, t)
        PROVE  Published'
    <2>1. row' = row /\ sched' = sched /\ ChildGoes(j, "starting")
      BY <1>4 DEF RunnerClaims
    <2>2. ChildrenValid'
      BY <1>1, <2>1, ChildIs DEF ChildrenValid, HoldsCopy
    <2>3. QED BY <2>1, <2>2 DEF Published, ChildrenValid
  <1>5. ASSUME \/ \E j \in JobIds : LeaseExpires(j)
               \/ \E j \in JobIds, t \in Store!Tokens :
                    SupervisorReports(j, t) \/ OperatorRequeues(j, t)
               \/ GitHubStep
        PROVE  Published'
    <2>1. row' = row /\ sched' = sched /\ child' = child
      BY <1>5 DEF LeaseExpires, SupervisorReports, OperatorRequeues, GitHubStep,
                  ChecksFinish, PullRequestEnds, SomebodyPushes
    <2>2. QED BY <2>1 DEF Published
  <1>6. CASE OperatorReconcilesMerge
    <2> DEFINE m == [row.metadata EXCEPT !.completion = "manual_reconciliation"]
    <2>1. /\ row' = [Becomes("DONE", m) EXCEPT !.ci_status = "green"]
          /\ sched' = sched /\ child' = child
      BY <1>6 DEF OperatorReconcilesMerge
    <2>2. m.validated
      BY <1>1, InvParts, ValidationEdits
    <2> HIDE DEF m
    <2>3. row'.metadata.validated
      BY <2>1, <2>2, RowIsRow DEF TaskRow, Becomes
    <2>4. QED BY <2>1, <2>3 DEF Published
  <1>7. QED BY <1>2, <1>3, <1>4, <1>5, <1>6 DEF TaskNext

-----------------------------------------------------------------------------
(* What is not taken back *)

\* A verdict that was revoked stays so.
LEMMA QuietBefore ==
  ASSUME TaskInv, TaskNext, Quiet'
  PROVE  Quiet
  <1> SUFFICES ASSUME NEW k \in JobIds, NEW u \in Store!Tokens, verdict[k][u] = "revoked"
               PROVE  verdict'[k][u] = "revoked"
    BY DEF Quiet
  <1>1. verdict \in [JobIds -> [Store!Tokens -> Outcomes]]
    BY QueueParts DEF QueueTypeOK
  <1>2. CASE verdict' = verdict
    BY <1>2
  <1>3. CASE SchedulerStep \/ SchedulerFault
    <2>1. UNCHANGED queue \/ \E j \in JobIds : Store!Post(j)
      BY <1>3, PassStepShape
    <2>2. QED BY <1>2, <2>1 DEF queue, Store!Post
  <1>4. ASSUME NEW j \in JobIds, ChildStep(j) \/ ChildDies(j)
        PROVE  verdict' = verdict
    BY <1>4, ChildStepShape DEF queue
  <1>5. ASSUME NEW j \in JobIds, LeaseExpires(j)
        PROVE  verdict'[k][u] = "revoked"
    BY <1>1, <1>5 DEF LeaseExpires, Store!Revoke
  <1>6. ASSUME NEW j \in JobIds, NEW t \in Store!Tokens, RunnerClaims(j, t)
        PROVE  verdict'[k][u] = "revoked"
    <2>1. /\ verdict' = [verdict EXCEPT ![j][t] = "live"]
          /\ verdict[j][t] = "unissued" \/ t < t
      BY <1>6 DEF RunnerClaims, Store!Issue
    <2>2. ~(t < t)
      BY DEF Store!Tokens
    <2>3. QED BY <1>1, <2>1, <2>2
  <1>7. ASSUME NEW j \in JobIds, NEW t \in Store!Tokens, SupervisorReports(j, t)
        PROVE  verdict'[k][u] = "revoked"
    <2>1. PICK v : Store!Settle(j, t, v)
      BY <1>7 DEF SupervisorReports
    <2>2. QED BY <1>1, <2>1 DEF Store!Settle
  <1>8. ASSUME \/ \E j \in JobIds, t \in Store!Tokens : OperatorRequeues(j, t)
               \/ OperatorReconcilesMerge \/ GitHubStep
        PROVE  verdict' = verdict
    BY <1>8 DEF OperatorRequeues, Store!Reopen, OperatorReconcilesMerge, GitHubStep,
                ChecksFinish, PullRequestEnds, SomebodyPushes, queue
  <1>9. QED BY <1>2, <1>3, <1>4, <1>5, <1>6, <1>7, <1>8 DEF TaskNext

\* A task that is done stays done.
LEMMA DoneStays ==
  ASSUME TaskInv, row.status = "DONE", TaskNext
  PROVE  row'.status = "DONE"
  <1>1. row \in TaskRow
    BY RowIsRow
  <1>2. ASSUME NEW new, Accepts(new), row' = new PROVE row'.status = "DONE"
    BY <1>2, AcceptedKeepsDone
  <1>3. ASSUME NEW new, WritesIfAllowed(new) PROVE row'.status = "DONE"
    BY <1>2, <1>3 DEF WritesIfAllowed
  <1>4. ASSUME NEW new, NEW pc, WritesOrRaises(new, pc) PROVE row'.status = "DONE"
    BY <1>2, <1>4 DEF WritesOrRaises, Raises
  <1>5. CASE ReconcileReads \/ ReconcileWaits \/ ListsCandidates \/ DispatchPaused
             \/ ReserveFails \/ Enqueues \/ PollsCI \/ CIUnknown \/ EnqueuesReview
             \/ ReviewWaits \/ PollsMerged \/ RecordsMerge \/ RefusesMerge
             \/ MergePending \/ Notifies \/ NotifiesNothing \/ EnqueueFails
             \/ MergedCallFails \/ SchedulerCrashes
             \/ DispatchFailureReads \/ DispatchFailureBlocks
    <2>1. row' = row
      BY <1>5 DEF ReconcileReads, ReconcileWaits, ListsCandidates, DispatchPaused,
                  ReserveFails, Enqueues, PollsCI, CIUnknown, EnqueuesReview, ReviewWaits,
                  PollsMerged, RecordsMerge, RefusesMerge, MergePending, Notifies,
                  NotifiesNothing, DispatchFailureReads, DispatchFailureBlocks,
                  EnqueueFails, MergedCallFails, SchedulerCrashes, Raises
    <2>2. QED BY <2>1
  <1>6. CASE ReconcileSucceeded \/ ReconcileBlocks
    <2>1. row' = row \/ \E new, pc : WritesOrRaises(new, pc)
      BY <1>6 DEF ReconcileSucceeded, ReconcileBlocks, Raises
    <2>2. QED BY <1>4, <2>1
  <1>7. CASE CIPasses
    <2>1. row' = row \/ \E new : Accepts(new) /\ row' = new
      BY <1>7 DEF CIPasses, Raises
    <2>2. QED BY <1>2, <2>1
  <1>8. CASE CIFails
    BY <1>4, <1>8 DEF CIFails
  <1>9. CASE ReviewUnusable \/ ReviewCallFails
    BY <1>4, <1>9 DEF ReviewUnusable, ReviewCallFails, ReviewFailsWith
  <1>10. CASE ReviewRequiresChanges
    BY <1>4, <1>10 DEF ReviewRequiresChanges
  <1>11. CASE \E independent \in BOOLEAN : ReviewApproves(independent)
    BY <1>4, <1>11 DEF ReviewApproves
  <1>12. CASE NotificationRecorded
    BY <1>3, <1>12 DEF NotificationRecorded
  <1>13. CASE Reserves
    BY <1>13, InvParts DEF Reserves, At, PassOK, PassInv
  <1>14. CASE ReviewReserves
    <2>1. sched.snap.status = "RUNNING"
      BY <1>14, InvParts DEF ReviewReserves, At, PassOK, PassInv
    <2>2. QED BY <1>4, <1>14, <2>1 DEF ReviewReserves, ReviewFailsWith
  <1>15. ASSUME NEW j \in JobIds, ChildStep(j) \/ ChildDies(j) PROVE row'.status = "DONE"
    <2>1. CASE ChildReservesRepair(j) \/ ChildRefundsRepair(j)
      BY <1>1, <2>1 DEF ChildReservesRepair, ChildRefundsRepair, TaskRow
    <2>2. CASE ChildAwaitsCI(j)
      <3>1. row' = row \/ \E new : Accepts(new) /\ row' = new
        BY <2>2 DEF ChildAwaitsCI
      <3>2. QED BY <1>2, <3>1
    <2>3. CASE ~ChildReservesRepair(j) /\ ~ChildRefundsRepair(j) /\ ~ChildAwaitsCI(j)
      <3>1. row' = row \/ \E new : WritesIfAllowed(new)
        BY <1>15, <2>3 DEF ChildStep, ChildStarts, ChildOpens, ChildReadsTask, ChildTracks,
                           ChildRepaired, ChildPushes, ChildSyncs, ChildPublishes,
                           ChildChecksStatus, ChildConcludes, ChildFindsNothing,
                           ChildBlocks, ChildHalts, ChildSyncsBlock, ChildRecordsBlock,
                           ChildReviews, ChildDies
      <3>2. QED BY <1>3, <3>1
    <2>4. QED BY <2>1, <2>2, <2>3
  <1>16. ASSUME \/ \E j \in JobIds : LeaseExpires(j)
                \/ \E j \in JobIds, t \in Store!Tokens :
                     RunnerClaims(j, t) \/ SupervisorReports(j, t) \/ OperatorRequeues(j, t)
                \/ OperatorReconcilesMerge \/ GitHubStep
         PROVE  row'.status = "DONE"
    <2>1. row' = row
      BY <1>16 DEF LeaseExpires, RunnerClaims, SupervisorReports, OperatorRequeues,
           OperatorReconcilesMerge, GitHubStep, ChecksFinish, PullRequestEnds,
           SomebodyPushes
    <2>2. QED BY <2>1
  <1>17. QED
    BY <1>5, <1>6, <1>7, <1>8, <1>9, <1>10, <1>11, <1>12, <1>13, <1>14, <1>15, <1>16
    DEF TaskNext, SchedulerStep, SchedulerFault

-----------------------------------------------------------------------------
(* Before the validation is on record *)

Stopped == First \notin open /\ child[First].pc \in Resting

LEMMA FirstStays ==
  ASSUME UNCHANGED <<queue, child>>
  PROVE  /\ OnlyFirst => OnlyFirst'
         /\ Idle(First) => Idle(First)'
         /\ Stopped => Stopped'
         /\ child' = child /\ open' = open
  BY DEF queue, OnlyFirst, Idle, Early, Stopped, Store!Unissued

\* A step of the pass that writes nothing and holds nothing.
LEMMA PassGoesOn ==
  ASSUME Unpublished, NEW pc \in Starts, Goes(pc), row' = row, UNCHANGED <<queue, child>>,
         pc = "dispatch_failed" => row.status = "RUNNING" /\ Idle(First)
  PROVE  Unpublished'
  <1>1. /\ sched'.pc = pc /\ sched'.snap = FreshRow
        /\ pc \notin {"settle", "dispatch", "notified", "enqueue", "block_dispatch"}
    BY DEF Goes, Starts
  <1>2. EarlyPass'
    BY <1>1, EarlyStart, FirstStays DEF EarlyPass, Starts, EarlyRow, Early, Dispatching
  <1>3. QED BY <1>2, FirstStays DEF Unpublished, EarlyRow, Early, Stopped

\* A step of the pass that blocks the task while nobody works on it.
LEMMA PassBlocks ==
  ASSUME TaskInv, OnlyFirst, Stopped, child[First].pc \notin Halted,
         NEW m \in Metadata, Early(m), IsEntry(row', "BLOCKED", "none", m),
         NEW pc \in Starts \ {"dispatch_failed"}, Goes(pc), UNCHANGED <<queue, child>>
  PROVE  Unpublished'
  <1>1. /\ sched'.pc = pc /\ sched'.snap = FreshRow
        /\ pc \notin {"settle", "dispatch", "notified"} \cup Dispatching
    BY DEF Goes, Starts, Dispatching
  <1>2. EarlyPass'
    BY <1>1, EarlyStart DEF EarlyPass, Starts, EarlyRow, Early
  <1>3. EarlyRow(row)' /\ row'.status = "BLOCKED"
    BY DEF IsEntry, EarlyRow, Early
  <1>4. Stopped' /\ OnlyFirst' /\ child' = child
    BY FirstStays
  <1>5. QED BY <1>2, <1>3, <1>4 DEF Unpublished, Stopped, Resting, Halted

\* Settling the first job blocks the task, or does nothing.
LEMMA SettlesFirst ==
  ASSUME TaskInv, Quiet, OnlyFirst, At("settle"), EarlyRow(sched.snap),
         ReconcileSucceeded \/ ReconcileBlocks
  PROVE  /\ UNCHANGED <<queue, child>>
         /\ First \notin open /\ child[First].pc \in {"none", "ok", "bad"}
         /\ \/ Raises
            \/ \E m \in Metadata :
                 Early(m) /\ IsEntry(row', "BLOCKED", row.ci_status, m) /\ Goes("list")
         /\ ReconcileSucceeded => sched.snap.status # "RUNNING"
         /\ sched.snap.status = "RUNNING" => row.status = "RUNNING" \/ Raises
  <1> DEFINE snap == sched.snap
             m == Released(snap.metadata)
  <1>1. /\ snap.metadata \in Metadata /\ snap.metadata.runner_job = First
        /\ snap.status \in {"RUNNING", "BLOCKED"}
    BY InvParts DEF PassOK, PassInv, At, EarlyRow, Early
  <1>2. m \in Metadata /\ Early(m)
    <2>1. snap.metadata.runner_job # NoJob /\ Early(snap.metadata)
      BY <1>1, EarlyStart DEF EarlyRow
    <2>2. QED BY <1>1, <2>1, MetadataEdits, EarlyEdits
  <1>3. IsEntry(Becomes("BLOCKED", m), "BLOCKED", row.ci_status, m)
    BY <1>2, InvParts, RowForms DEF RowOK, Statuses
  <1>4. JobStatus(First) \in {"succeeded", "failed", "uncertain", "absent"}
    BY <1>1 DEF ReconcileSucceeded, ReconcileBlocks
  <1>5. First \notin open /\ child[First].pc \in {"none", "ok", "bad"}
    BY <1>4, EndedStatus
  <1>6. Raises \/ WritesOrRaises(Becomes("BLOCKED", m), "list")
    BY <1>1 DEF ReconcileSucceeded, ReconcileBlocks
  <1>7. snap.status = "RUNNING" => row.status = "RUNNING" \/ Raises
    BY <1>1 DEF ReconcileSucceeded, ReconcileBlocks
  <1>8. UNCHANGED <<queue, child>> /\ (ReconcileSucceeded => snap.status # "RUNNING")
    BY DEF ReconcileSucceeded, ReconcileBlocks, workers
  <1> HIDE DEF m
  <1>9. Raises \/ (IsEntry(row', "BLOCKED", row.ci_status, m) /\ Goes("list"))
    BY <1>3, <1>6 DEF WritesOrRaises
  <1>10. QED BY <1>2, <1>5, <1>7, <1>8, <1>9

LEMMA UnpublishedPass ==
  ASSUME TaskInv, Quiet, Unpublished, SchedulerStep \/ SchedulerFault
  PROVE  Unpublished'
  <1>1. /\ child' = child /\ EarlyRow(row) /\ EarlyPass /\ OnlyFirst
        /\ row.ci_status = "none" /\ row.status \in {"QUEUED", "RUNNING", "BLOCKED"}
        /\ Early(row.metadata)
    BY PassStepShape DEF Unpublished, EarlyRow
  <1>2. CASE ReconcileWaits \/ DispatchPaused \/ NotifiesNothing \/ SchedulerCrashes
    <2>1. /\ row' = row /\ UNCHANGED queue
          /\ \E pc \in Starts \ {"dispatch_failed"} : Goes(pc)
      BY <1>2 DEF ReconcileWaits, DispatchPaused, NotifiesNothing, SchedulerCrashes,
                  Raises, Starts
    <2>2. QED BY <1>1, <2>1, PassGoesOn
  <1>3. CASE ReconcileReads
    <2>1. row' = row /\ UNCHANGED queue
      BY <1>3 DEF ReconcileReads
    <2>2. CASE Reads("settle")
      <3>1. sched'.pc = "settle" /\ sched'.snap = row
        BY <2>2 DEF Reads
      <3>2. EarlyPass'
        BY <1>1, <2>1, <3>1 DEF EarlyPass, EarlyRow, Early, Dispatching
      <3>3. QED BY <1>1, <2>1, <3>2, FirstStays DEF Unpublished, EarlyRow, Early
    <2>3. CASE Goes("list")
      BY <1>1, <2>1, <2>3, PassGoesOn DEF Starts
    <2>4. QED BY <1>3, <2>2, <2>3 DEF ReconcileReads
  <1>4. CASE ReconcileSucceeded \/ ReconcileBlocks
    <2>1. At("settle") /\ EarlyRow(sched.snap)
      BY <1>1, <1>4 DEF ReconcileSucceeded, ReconcileBlocks, EarlyPass
    <2>2. /\ UNCHANGED queue /\ First \notin open
          /\ child[First].pc \in {"none", "ok", "bad"}
          /\ \/ Raises
             \/ \E m \in Metadata :
                  Early(m) /\ IsEntry(row', "BLOCKED", row.ci_status, m) /\ Goes("list")
      BY <1>1, <1>4, <2>1, SettlesFirst
    <2>3. CASE Raises
      BY <1>1, <2>2, <2>3, PassGoesOn DEF Raises, Starts
    <2>4. ASSUME NEW m \in Metadata, Early(m), IsEntry(row', "BLOCKED", row.ci_status, m),
                 Goes("list")
          PROVE  Unpublished'
      BY <1>1, <2>2, <2>4, PassBlocks DEF Starts, Stopped, Resting, Halted
    <2>5. QED BY <2>2, <2>3, <2>4
  <1>5. CASE ListsCandidates
    <2>1. row' = row /\ UNCHANGED queue
      BY <1>5 DEF ListsCandidates
    <2>2. CASE Candidate(row) /\ Reads("dispatch")
      <3>1. sched'.pc = "dispatch" /\ sched'.snap = row
        BY <2>2 DEF Reads
      <3>2. row.status = "QUEUED"
        BY <1>1, <2>2 DEF Candidate, Early
      <3>3. EarlyPass'
        BY <1>1, <2>1, <3>1, <3>2 DEF EarlyPass, EarlyRow, Early, Dispatching
      <3>4. QED BY <1>1, <2>1, <3>3, FirstStays DEF Unpublished, EarlyRow, Early
    <2>3. CASE Goes("poll_ci")
      BY <1>1, <2>1, <2>3, PassGoesOn DEF Starts
    <2>4. QED BY <1>5, <2>2, <2>3 DEF ListsCandidates
  <1>6. CASE Reserves
    <2> DEFINE sm == sched.snap.metadata
               m == [sm EXCEPT !.runner_job = First]
    <2>1. /\ row.status = "QUEUED" /\ sched.snap.status = "QUEUED" /\ sm \in Metadata
          /\ Early(sm) /\ sm.sequence = 0 /\ Idle(First)
      BY <1>1, <1>6, InvParts DEF Reserves, At, EarlyPass, EarlyRow, Unpublished
    <2>2. /\ row' = Becomes("RUNNING", m) /\ UNCHANGED queue
          /\ sched'.pc = "enqueue" /\ sched'.snap = FreshRow /\ sched'.job = First
      BY <1>6, <2>1 DEF Reserves, First
    <2>3. m \in Metadata /\ Early(m)
      BY <2>1, MetadataEdits, EarlyEdits, EarlyStart
    <2> HIDE DEF m
    <2>4. IsEntry(row', "RUNNING", "none", m)
      BY <1>1, <2>2, <2>3, InvParts, RowForms DEF RowOK, Statuses
    <2>5. EarlyRow(row)' /\ row'.status = "RUNNING"
      BY <2>3, <2>4 DEF IsEntry, EarlyRow, Early
    <2>6. EarlyPass'
      BY <1>1, <2>1, <2>2, <2>5, EarlyStart, FirstStays
      DEF EarlyPass, EarlyRow, Early, Dispatching
    <2>7. child'[First].pc = "none"
      BY <1>1, <2>1 DEF Idle
    <2>8. QED BY <1>1, <2>2, <2>5, <2>6, <2>7, FirstStays DEF Unpublished
  <1>7. CASE ReserveFails
    BY <1>1, <1>7 DEF ReserveFails, At, EarlyPass
  <1>8. CASE Enqueues
    <2>1. /\ row' = row /\ row.status = "RUNNING" /\ sched.job = First /\ Idle(First)
          /\ Goes("poll_ci")
          /\ UNCHANGED queue \/ Store!Post(First)
      BY <1>1, <1>8 DEF Enqueues, At, EarlyPass, Dispatching
    <2>2. CASE UNCHANGED queue
      BY <1>1, <2>1, <2>2, PassGoesOn DEF Starts
    <2>3. CASE Store!Post(First)
      <3>1. /\ open' = open \cup {First} /\ verdict' = verdict
            /\ Store!Unissued(First) /\ child[First].pc = "none"
        BY <2>1, <2>3 DEF Store!Post, Idle
      <3>2. OnlyFirst'
        BY <1>1, <3>1 DEF OnlyFirst, Idle, Early, Store!Unissued
      <3>3. sched'.pc = "poll_ci" /\ sched'.snap = FreshRow
        BY <2>1 DEF Goes
      <3>4. EarlyPass'
        BY <3>3, EarlyStart DEF EarlyPass, EarlyRow, Early, Dispatching
      <3>5. EarlyRow(row)'
        BY <1>1, <2>1 DEF EarlyRow, Early
      <3>6. QED BY <1>1, <2>1, <3>1, <3>2, <3>4, <3>5 DEF Unpublished
    <2>4. QED BY <2>1, <2>2, <2>3
  <1>9. CASE EnqueueFails
    <2>1. /\ row.status = "RUNNING" /\ Idle(First) /\ UNCHANGED queue /\ row' = row
          /\ Goes("dispatch_failed")
      BY <1>1, <1>9 DEF EnqueueFails, At, EarlyPass, Dispatching
    <2>2. QED BY <1>1, <2>1, PassGoesOn DEF Starts
  <1>10. CASE DispatchFailureReads
    <2>1. /\ row.status = "RUNNING" /\ Idle(First) /\ UNCHANGED queue /\ row' = row
          /\ sched'.pc = "block_dispatch" /\ sched'.snap = row
      BY <1>1, <1>10 DEF DispatchFailureReads, At, EarlyPass, Dispatching, Reads
    <2>2. EarlyPass'
      BY <1>1, <2>1, FirstStays DEF EarlyPass, EarlyRow, Early, Dispatching
    <2>3. QED BY <1>1, <2>1, <2>2, FirstStays DEF Unpublished, EarlyRow, Early
  <1>11. CASE DispatchFailureBlocks
    <2> DEFINE m == sched.snap.metadata
    <2>1. /\ row.status = "RUNNING" /\ Idle(First) /\ UNCHANGED queue /\ Goes("poll_ci")
          /\ row' = Becomes("BLOCKED", m)
      BY <1>1, <1>11 DEF DispatchFailureBlocks, At, EarlyPass, Dispatching
    <2>2. m \in Metadata /\ Early(m)
      BY <1>1, InvParts DEF EarlyPass, EarlyRow
    <2> HIDE DEF m
    <2>3. IsEntry(row', "BLOCKED", "none", m)
      BY <1>1, <2>1, <2>2, InvParts, RowForms DEF RowOK, Statuses
    <2>4. QED
      BY <1>1, <2>1, <2>2, <2>3, PassBlocks DEF Idle, Stopped, Starts, Resting, Halted
  <1>12. CASE PollsCI \/ PollsMerged
    <2>1. /\ row' = row /\ UNCHANGED queue
          /\ Goes("poll_merged") \/ Goes("notify")
      BY <1>1, <1>12 DEF PollsCI, PollsMerged, Early
    <2>2. QED BY <1>1, <2>1, PassGoesOn DEF Starts
  <1>13. CASE Notifies
    <2>1. row' = row /\ UNCHANGED queue
      BY <1>13 DEF Notifies
    <2>2. CASE row.status = "BLOCKED" /\ Reads("notified")
      <3>1. sched'.pc = "notified" /\ sched'.snap = row
        BY <2>2 DEF Reads
      <3>2. EarlyPass'
        BY <1>1, <2>1, <2>2, <3>1 DEF EarlyPass, EarlyRow, Early, Dispatching
      <3>3. QED BY <1>1, <2>1, <3>2, FirstStays DEF Unpublished, EarlyRow, Early
    <2>3. CASE Goes("reconcile")
      BY <1>1, <2>1, <2>3, PassGoesOn DEF Starts
    <2>4. QED BY <1>1, <1>13, <2>2, <2>3 DEF Notifies
  <1>14. CASE NotificationRecorded
    <2> DEFINE m == sched.snap.metadata
    <2>1. /\ row.status = "BLOCKED" /\ sched.snap.status = "BLOCKED"
          /\ m \in Metadata /\ Early(m) /\ Stopped
          /\ UNCHANGED queue /\ Goes("reconcile")
          /\ row' = row \/ row' = Becomes("BLOCKED", m)
      BY <1>1, <1>14, InvParts
      DEF NotificationRecorded, At, EarlyPass, EarlyRow, WritesIfAllowed, Unpublished,
          Stopped
    <2>2. EarlyRow(row)' /\ row'.status = "BLOCKED"
      <3>1. CASE row' = row
        BY <1>1, <2>1, <3>1 DEF EarlyRow, Early
      <3>2. CASE row' = Becomes("BLOCKED", m)
        <4>1. IsEntry(row', "BLOCKED", "none", m)
          BY <1>1, <2>1, <3>2, InvParts, RowForms DEF RowOK, Statuses
        <4>2. QED BY <2>1, <4>1 DEF IsEntry, EarlyRow, Early
      <3>3. QED BY <2>1, <3>1, <3>2
    <2>3. sched'.pc = "reconcile" /\ sched'.snap = FreshRow
      BY <2>1 DEF Goes
    <2>4. EarlyPass'
      BY <2>3, EarlyStart DEF EarlyPass, EarlyRow, Early, Dispatching
    <2>5. QED BY <1>1, <2>1, <2>2, <2>4, FirstStays DEF Unpublished, Stopped
  <1>15. CASE CIPasses \/ CIFails \/ CIUnknown \/ ReviewReserves \/ EnqueuesReview
              \/ ReviewWaits \/ ReviewUnusable \/ ReviewRequiresChanges \/ RecordsMerge
              \/ RefusesMerge \/ MergePending \/ ReviewCallFails \/ MergedCallFails
              \/ \E independent \in BOOLEAN : ReviewApproves(independent)
    <2>1. sched.pc \in {"ci", "review", "enqueue_review", "merged"}
      BY <1>15 DEF CIPasses, CIFails, CIUnknown, ReviewReserves, EnqueuesReview,
           ReviewWaits, ReviewUnusable, ReviewApproves, ReviewRequiresChanges,
           RecordsMerge, RefusesMerge, MergePending, ReviewCallFails, MergedCallFails,
           HasReview, At
    <2>2. QED BY <1>1, <2>1 DEF EarlyPass
  <1>16. QED
    BY <1>2, <1>3, <1>4, <1>5, <1>6, <1>7, <1>8, <1>9, <1>10, <1>11, <1>12, <1>13, <1>14,
       <1>15
    DEF SchedulerStep, SchedulerFault

\* While the first child is at work the task is running, and the pass holds no copy of
\* another status.
LEMMA FirstAtWork ==
  ASSUME TaskInv, Unpublished, child[First].pc \in Working
  PROVE  /\ First \notin open /\ ~Store!Unissued(First)
         /\ \A t \in Store!Tokens : verdict[First][t] \notin {"succeeded", "failed"}
         /\ row.status # "QUEUED" /\ sched.pc \notin {"dispatch"} \cup Dispatching
         /\ child[First].pc \notin Halted =>
              /\ row.status = "RUNNING" /\ sched.pc # "notified"
              /\ sched.pc = "settle" => sched.snap.status = "RUNNING"
  <1>1. child[First].pc \notin {"none", "ok", "bad"}
    BY DEF Working
  <1>2. ~Store!Unissued(First) /\ ~Idle(First) /\ First \notin open
        /\ \A t \in Store!Tokens : verdict[First][t] \notin {"succeeded", "failed"}
    BY <1>1 DEF Unpublished, OnlyFirst, Idle
  <1>3. row.status # "QUEUED" /\ sched.pc \notin {"dispatch"} \cup Dispatching
    BY <1>2 DEF Unpublished, EarlyPass, Dispatching
  <1>4. ASSUME child[First].pc \notin Halted
        PROVE  /\ row.status = "RUNNING" /\ sched.pc # "notified"
               /\ sched.pc = "settle" => sched.snap.status = "RUNNING"
    <2>1. row.status = "RUNNING"
      BY <1>1, <1>3, <1>4 DEF Unpublished, EarlyRow, Resting
    <2>2. sched.pc # "notified"
      BY <2>1 DEF Unpublished, EarlyPass
    <2>3. ASSUME sched.pc = "settle" PROVE sched.snap.status = "RUNNING"
      <3>1. sched.snap.metadata.runner_job # NoJob
        BY <2>3, InvParts DEF PassOK, PassInv
      <3>2. QED BY <2>1, <2>3, <3>1 DEF Unpublished, EarlyPass, EarlyRow
    <2>4. QED BY <2>1, <2>2, <2>3
  <1>5. QED BY <1>2, <1>3, <1>4

\* A step of the first child that publishes nothing.
LEMMA FirstGoesOn ==
  ASSUME TaskInv, Unpublished, child[First].pc \in Working,
         UNCHANGED <<queue, sched>>, EarlyRow(row)', row'.status # "QUEUED",
         row.status = "BLOCKED" => row'.status = "BLOCKED",
         NEW pc \in ChildPhases, pc \notin {"none", "published", "awaiting"},
         row'.status = "BLOCKED" => pc \in Resting,
         ChildGoes(First, pc) \/ ChildReads(First, pc)
  PROVE  Unpublished'
  <1>1. /\ child'[First].pc = pc
        /\ child'[First].metadata \in {FreshMetadata, row.metadata}
        /\ \A k \in JobIds \ {First} : child'[k] = child[k]
    BY ChildIs, EarlyStart
  <1>2. Early(child'[First].metadata)
    BY <1>1, EarlyStart DEF Unpublished, EarlyRow
  <1>3. open' = open /\ verdict' = verdict /\ sched' = sched
    BY DEF queue
  <1>4. OnlyFirst'
    <2>1. \A k \in JobIds \ {First} : Idle(k)'
      BY <1>1, <1>3 DEF Unpublished, OnlyFirst, Idle, Store!Unissued
    <2>2. /\ First \notin open' /\ ~Store!Unissued(First)'
          /\ \A t \in Store!Tokens : verdict'[First][t] \notin {"succeeded", "failed"}
      BY <1>3, FirstAtWork DEF Store!Unissued
    <2>3. Early(child[First].metadata)'
      BY <1>2 DEF Early
    <2>4. QED BY <2>1, <2>2, <2>3 DEF OnlyFirst
  <1>5. EarlyPass'
    BY <1>3, FirstAtWork DEF Unpublished, EarlyPass, EarlyRow, Early, Dispatching
  <1>6. QED BY <1>1, <1>3, <1>4, <1>5, FirstAtWork DEF Unpublished

\* The write that puts it on record.
LEMMA FirstPublishes ==
  ASSUME TaskInv, Unpublished, ChildPublishes(First)
  PROVE  JustPublished' \/ Published'
  <1> DEFINE m == Approved(child[First].metadata)
             n == child[First].attempts
             new == [Becomes("RUNNING", m) EXCEPT !.implementation_attempts = n]
  <1>1. /\ WritesIfAllowed(new) /\ ChildGoes(First, "published")
        /\ UNCHANGED queue /\ sched' = sched /\ child[First].pc = "publishing"
    BY DEF ChildPublishes
  <1>2. m \in Metadata /\ m.validated /\ n \in 0 .. MaxCount
    BY ChildParts, MetadataEdits, ValidationEdits, EarlyStart
  <1> HIDE DEF m, n
  <1>3. IsEntry(new, "RUNNING", row.ci_status, m)
    BY <1>2, InvParts, RowForms DEF RowOK, Statuses
  <1>4. /\ row.status = "RUNNING"
        /\ sched.pc \notin {"notified", "dispatch"} \cup Dispatching
        /\ sched.pc = "settle" => sched.snap.status = "RUNNING"
        /\ First \notin open /\ ~Store!Unissued(First)
        /\ \A t \in Store!Tokens : verdict[First][t] \notin {"succeeded", "failed"}
    BY <1>1, FirstAtWork DEF Working, ChildPhases, Halted
  <1>5. Accepts(new)
    BY <1>3, <1>4 DEF Accepts, IsEntry
  <1>6. /\ row'.status = "RUNNING" /\ row'.ci_status = "none" /\ row'.metadata.validated
    BY <1>1, <1>2, <1>3, <1>5 DEF WritesIfAllowed, IsEntry, Unpublished, EarlyRow
  <1>7. /\ child'[First].pc = "published" /\ child'[First].metadata = FreshMetadata
        /\ \A k \in JobIds \ {First} : child'[k] = child[k] /\ child[k].pc = "none"
    BY <1>1, ChildIs, EarlyStart DEF Unpublished, OnlyFirst, Idle
  <1>8. OnlyFirst'
    <2>1. open' = open /\ verdict' = verdict
      BY <1>1 DEF queue
    <2>2. \A k \in JobIds \ {First} : Idle(k)'
      BY <1>7, <2>1 DEF Unpublished, OnlyFirst, Idle, Store!Unissued
    <2>3. Early(child[First].metadata)'
      BY <1>7, EarlyStart DEF Early
    <2>4. QED BY <1>4, <2>1, <2>2, <2>3 DEF OnlyFirst, Store!Unissued
  <1>9. CASE sched.pc = "settle"
    <2>1. EarlyRow(sched.snap)' /\ sched'.snap.status = "RUNNING"
      BY <1>1, <1>4, <1>9 DEF Unpublished, EarlyPass, EarlyRow, Early
    <2>2. QED BY <1>1, <1>6, <1>7, <1>8, <1>9, <2>1 DEF JustPublished
  <1>10. CASE sched.pc # "settle"
    <2>1. sched'.pc \notin HoldsRow
      BY <1>1, <1>4, <1>10 DEF Unpublished, EarlyPass, HoldsRow, Dispatching
    <2>2. QED BY <1>6, <1>7, <2>1 DEF Published, HoldsCopy
  <1>11. QED BY <1>9, <1>10

LEMMA UnpublishedChild ==
  ASSUME TaskInv, Unpublished, NEW j \in JobIds, ChildStep(j) \/ ChildDies(j)
  PROVE  Unpublished' \/ JustPublished' \/ Published' \/ row'.status = "DONE"
  <1> DEFINE pc == child[First].pc
             cm == child[First].metadata
  <1>1. child[j].pc \in Working
    BY ChildStepMoves DEF ChildMoves
  <1>2. j = First
    BY <1>1 DEF Unpublished, OnlyFirst, Idle, Working
  <1>3. /\ UNCHANGED <<queue, sched>> /\ EarlyRow(row)
        /\ row.ci_status = "none" /\ row.metadata \in Metadata /\ Early(row.metadata)
        /\ cm \in Metadata /\ Early(cm) /\ row.status # "QUEUED"
        /\ pc \notin {"published", "awaiting"}
        /\ pc \notin Halted => row.status = "RUNNING"
    BY <1>1, <1>2, ChildStepShape, ChildParts, InvParts, FirstAtWork
    DEF Unpublished, OnlyFirst, EarlyRow
  <1>4. ASSUME row' = row, NEW p \in ChildPhases \ {"none", "published", "awaiting"},
               ChildGoes(First, p) \/ ChildReads(First, p),
               pc \notin Halted \/ p \in {"blocking", "ok", "bad"}
        PROVE  Unpublished'
    <2>1. EarlyRow(row)' /\ (row'.status = "BLOCKED" => p \in Resting)
      BY <1>3, <1>4 DEF EarlyRow, Early, Resting, Halted
    <2>2. QED BY <1>1, <1>2, <1>3, <1>4, <2>1, FirstGoesOn
  <1>5. ASSUME NEW m \in Metadata, Early(m), IsEntry(row', "RUNNING", "none", m),
               NEW p \in ChildPhases \ {"none", "published", "awaiting"},
               ChildGoes(First, p), pc \notin Halted
        PROVE  Unpublished'
    <2>1. EarlyRow(row)' /\ row'.status = "RUNNING"
      BY <1>5 DEF IsEntry, EarlyRow, Early
    <2>2. QED BY <1>1, <1>2, <1>3, <1>5, <2>1, FirstGoesOn
  <1>6. CASE ChildStarts(First)
    <2>1. /\ row' = row /\ pc = "starting"
          /\ ChildReads(First, "opening") \/ ChildGoes(First, "bad")
      BY <1>6 DEF ChildStarts
    <2>2. QED BY <1>4, <2>1 DEF ChildPhases, Halted
  <1>7. CASE ChildReadsTask(First) \/ ChildRepaired(First) \/ ChildPushes(First)
             \/ ChildSyncs(First) \/ ChildConcludes(First) \/ ChildBlocks(First)
    <2>1. /\ row' = row /\ pc \notin Halted
          /\ \E p \in {"tracking", "working", "completing", "publishing", "concluding",
                       "halting"} :
               ChildGoes(First, p) \/ ChildReads(First, p)
      BY <1>7 DEF ChildReadsTask, ChildRepaired, ChildPushes, ChildSyncs, ChildConcludes,
                  ChildBlocks, Halted
    <2>2. QED BY <1>4, <2>1 DEF ChildPhases
  <1>8. CASE \E count \in 0 .. MaxCount : ChildTracks(First, count)
    <2>1. PICK count \in 0 .. MaxCount : ChildTracks(First, count)
      BY <1>8
    <2> DEFINE k == Larger(child[First].attempts, count)
               new == [Becomes("RUNNING", cm) EXCEPT !.implementation_attempts = k]
    <2>2. k \in 0 .. MaxCount
      BY ChildParts, EarlyStart DEF Larger
    <2>3. row' \in {row, new} /\ ChildGoes(First, "working") /\ pc = "tracking"
      BY <2>1 DEF ChildTracks, WritesIfAllowed
    <2> HIDE DEF k
    <2>4. IsEntry(new, "RUNNING", "none", cm)
      BY <1>3, <2>2, InvParts, RowForms DEF RowOK, Statuses
    <2> HIDE DEF new
    <2>5. QED BY <1>3, <1>4, <1>5, <2>3, <2>4 DEF ChildPhases, Halted
  <1>9. CASE ChildReservesRepair(First) \/ ChildRefundsRepair(First)
    <2> DEFINE used == row.metadata.repairs_used
    <2>1. used \in 0 .. MaxRepairs
      BY InvParts DEF Metadata
    <2>2. /\ \/ row' = row
             \/ \E n \in 0 .. MaxRepairs : row' = [row EXCEPT !.metadata.repairs_used = n]
          /\ ChildGoes(First, "repairing") \/ ChildGoes(First, "stopping")
          /\ pc \notin Halted
      <3>1. used < MaxRepairs => used + 1 \in 0 .. MaxRepairs
        BY <2>1, LimitAssumption
      <3>2. (IF used > 0 THEN used - 1 ELSE 0) \in 0 .. MaxRepairs
        BY <2>1, LimitAssumption
      <3>3. QED BY <1>9, <3>1, <3>2 DEF ChildReservesRepair, ChildRefundsRepair, Halted
    <2>3. ASSUME NEW n \in 0 .. MaxRepairs, row' = [row EXCEPT !.metadata.repairs_used = n]
          PROVE  Unpublished'
      <3> DEFINE m == [row.metadata EXCEPT !.repairs_used = n]
      <3>1. m \in Metadata /\ Early(m)
        BY <1>3, BudgetEdits, EarlyEdits
      <3>2. row' = [row EXCEPT !.metadata = m]
        BY <2>3, InvParts DEF RowOK, TaskRow
      <3> HIDE DEF m
      <3>3. IsEntry(row', "RUNNING", "none", m)
        BY <1>3, <2>2, <3>1, <3>2, InvParts, RowForms, LimitAssumption DEF RowOK
      <3>4. QED BY <1>5, <2>2, <3>1, <3>3 DEF ChildPhases
    <2>4. QED BY <1>4, <2>2, <2>3 DEF ChildPhases
  <1>10. CASE ChildPublishes(First)
    BY <1>10, FirstPublishes
  <1>11. CASE ChildFindsNothing(First)
    <2> DEFINE m == [Approved(cm) EXCEPT !.completion = "no_changes"]
               new == [Becomes("DONE", m) EXCEPT !.ci_status = "not_required"]
    <2>1. row' \in {row, new} /\ ChildGoes(First, "ok") /\ pc = "concluding"
      BY <1>11 DEF ChildFindsNothing, WritesIfAllowed
    <2>2. new.status = "DONE"
      BY RowIsRow DEF TaskRow, Becomes
    <2> HIDE DEF new
    <2>3. QED BY <1>4, <2>1, <2>2 DEF ChildPhases
  <1>12. CASE \E count \in 0 .. MaxCount : ChildHalts(First, count)
    <2>1. PICK count \in 0 .. MaxCount : ChildHalts(First, count)
      BY <1>12
    <2> DEFINE n == Larger(child[First].attempts, count)
               new == [row EXCEPT !.status = "BLOCKED", !.implementation_attempts = n]
    <2>2. n \in 0 .. MaxCount
      BY ChildParts, EarlyStart DEF Larger
    <2>3. row' \in {row, new} /\ ChildGoes(First, "halted") /\ pc = "halting"
      BY <2>1 DEF ChildHalts, WritesIfAllowed
    <2> HIDE DEF n
    <2>4. IsEntry(new, "BLOCKED", "none", row.metadata)
      BY <1>3, <2>2, InvParts, RowForms DEF RowOK, Statuses
    <2> HIDE DEF new
    <2>5. CASE row' = row
      BY <1>4, <2>3, <2>5 DEF ChildPhases, Halted
    <2>6. CASE row' = new
      <3>1. EarlyRow(row)' /\ row'.status = "BLOCKED"
        BY <1>3, <2>4, <2>6 DEF IsEntry, EarlyRow, Early
      <3>2. QED
        BY <1>1, <1>2, <1>3, <2>3, <3>1, FirstGoesOn DEF ChildPhases, Resting, Halted
    <2>7. QED BY <2>3, <2>5, <2>6
  <1>13. CASE ChildRecordsBlock(First)
    <2>1. row' \in {row, Becomes("BLOCKED", cm)} /\ ChildGoes(First, "ok")
      BY <1>13 DEF ChildRecordsBlock, WritesIfAllowed
    <2>2. IsEntry(Becomes("BLOCKED", cm), "BLOCKED", "none", cm)
      BY <1>3, InvParts, RowForms DEF RowOK, Statuses
    <2>3. CASE row' = row
      BY <1>4, <2>1, <2>3 DEF ChildPhases
    <2>4. CASE row' = Becomes("BLOCKED", cm)
      <3>1. IsEntry(row', "BLOCKED", "none", cm)
        BY <2>2, <2>4
      <3>2. EarlyRow(row)' /\ row'.status = "BLOCKED"
        BY <1>3, <3>1 DEF IsEntry, EarlyRow, Early
      <3>3. QED BY <1>1, <1>2, <1>3, <2>1, <3>2, FirstGoesOn DEF ChildPhases, Resting
    <2>5. QED BY <2>1, <2>3, <2>4
  <1>14. CASE ChildDies(First)
    <2>1. row' = row /\ ChildGoes(First, "bad")
      BY <1>14 DEF ChildDies
    <2>2. QED BY <1>4, <2>1 DEF ChildPhases
  <1>15. CASE \E m \in {row.metadata, cm} : ChildOpens(First, m)
    <2>1. PICK m \in {row.metadata, cm} : ChildOpens(First, m)
      BY <1>15
    <2>2. /\ row' \in {row, Becomes("RUNNING", m)} /\ ChildGoes(First, "working")
          /\ pc = "opening" /\ m \in Metadata /\ Early(m)
      BY <1>3, <2>1 DEF ChildOpens, WritesIfAllowed
    <2>3. IsEntry(Becomes("RUNNING", m), "RUNNING", "none", m)
      BY <1>3, <2>2, InvParts, RowForms DEF RowOK, Statuses
    <2>4. QED BY <1>3, <1>4, <1>5, <2>2, <2>3 DEF ChildPhases, Halted
  <1>16. CASE ChildSyncsBlock(First)
    <2>1. row' = row /\ ChildReads(First, "blocking")
      BY <1>16 DEF ChildSyncsBlock
    <2>2. QED BY <1>4, <2>1 DEF ChildPhases
  <1>17. ~ChildChecksStatus(First) /\ ~ChildAwaitsCI(First)
         /\ \A result : ~ChildReviews(First, result)
    BY <1>3 DEF ChildChecksStatus, ChildAwaitsCI, ChildReviews, ReviewJobs, First
  <1>18. QED
    BY <1>2, <1>6, <1>7, <1>8, <1>9, <1>10, <1>11, <1>12, <1>13, <1>14, <1>15, <1>16, <1>17
    DEF ChildStep

\* The steps of the queue before a validation is on record, or just after.
LEMMA OnlyFirstQueue ==
  ASSUME TaskInv, Quiet, OnlyFirst, NEW j \in JobIds, NEW t \in Store!Tokens,
         RunnerClaims(j, t) \/ SupervisorReports(j, t) \/ OperatorRequeues(j, t)
  PROVE  /\ OnlyFirst' /\ row' = row /\ sched' = sched
         /\ \/ /\ j = First /\ RunnerClaims(First, t)
               /\ First \in open /\ child[First].pc = "none" /\ child'[First].pc = "starting"
            \/ /\ ~Idle(First) /\ open' = open /\ child' = child
               /\ ~Store!Unissued(First) /\ ~Store!Unissued(First)'
  <1>1. verdict \in [JobIds -> [Store!Tokens -> Outcomes]]
    BY QueueParts DEF QueueTypeOK
  <1>2. ~OperatorRequeues(j, t)
    BY DEF OperatorRequeues, Store!Reopen, Quiet
  <1>3. CASE RunnerClaims(j, t)
    <2>1. j = First /\ First \in open /\ Store!Unissued(First) /\ child[First].pc = "none"
      BY <1>3 DEF RunnerClaims, Store!Issue, OnlyFirst, Idle
    <2>2. /\ row' = row /\ sched' = sched /\ ChildGoes(First, "starting")
          /\ open' = open \ {First} /\ verdict' = [verdict EXCEPT ![First][t] = "live"]
      BY <1>3, <2>1 DEF RunnerClaims, Store!Issue
    <2>3. /\ child'[First].pc = "starting" /\ child'[First].metadata = FreshMetadata
          /\ \A k \in JobIds \ {First} : child'[k] = child[k]
      BY <2>2, ChildIs, EarlyStart
    <2>4. /\ verdict'[First][t] = "live"
          /\ \A u \in Store!Tokens : verdict'[First][u] \in {"live", "unissued"}
          /\ \A k \in JobIds \ {First} : verdict'[k] = verdict[k]
      BY <1>1, <2>1, <2>2, EarlyStart DEF Store!Unissued
    <2>5. \A k \in JobIds \ {First} : Idle(k)'
      BY <2>2, <2>3, <2>4 DEF OnlyFirst, Idle, Store!Unissued
    <2>6. First \notin open' /\ ~Store!Unissued(First)'
      BY <2>2, <2>4 DEF Store!Unissued
    <2>7. Early(child[First].metadata)'
      BY <2>3, EarlyStart DEF Early
    <2>8. OnlyFirst'
      BY <2>4, <2>5, <2>6, <2>7 DEF OnlyFirst
    <2>9. QED BY <1>3, <2>1, <2>2, <2>3, <2>8
  <1>4. CASE SupervisorReports(j, t)
    <2>1. PICK v \in {"succeeded", "failed"} : Store!Settle(j, t, v)
      BY <1>4 DEF SupervisorReports
    <2>2. /\ row' = row /\ sched' = sched /\ child' = child /\ open' = open
          /\ child[j].pc \in {"ok", "bad"} /\ verdict[j][t] = "live"
          /\ verdict' = [verdict EXCEPT ![j][t] = v]
      BY <1>4, <2>1 DEF SupervisorReports, Store!Settle
    <2>3. j = First
      BY <2>2 DEF OnlyFirst, Idle
    <2>4. /\ verdict'[First][t] = v
          /\ \A k \in JobIds \ {First} : verdict'[k] = verdict[k]
      BY <1>1, <2>2, <2>3
    <2>5. ~Store!Unissued(First) /\ ~Store!Unissued(First)' /\ ~Idle(First)
      BY <2>1, <2>2, <2>3, <2>4 DEF Store!Unissued, Idle
    <2>6. \A k \in JobIds \ {First} : Idle(k)'
      BY <2>2, <2>4 DEF OnlyFirst, Idle, Store!Unissued
    <2>7. OnlyFirst'
      BY <2>2, <2>3, <2>5, <2>6 DEF OnlyFirst, Early
    <2>8. QED BY <2>2, <2>5, <2>7
  <1>5. QED BY <1>2, <1>3, <1>4

LEMMA UnpublishedQueue ==
  ASSUME TaskInv, Quiet, Unpublished, NEW j \in JobIds, NEW t \in Store!Tokens,
         RunnerClaims(j, t) \/ SupervisorReports(j, t) \/ OperatorRequeues(j, t)
  PROVE  Unpublished'
  <1>1. OnlyFirst /\ EarlyRow(row) /\ EarlyPass
    BY DEF Unpublished
  <1>2. OnlyFirst' /\ row' = row /\ sched' = sched
    BY <1>1, OnlyFirstQueue
  <1>3. EarlyRow(row)' /\ EarlyRow(sched.snap)'
    BY <1>1, <1>2 DEF EarlyRow, Early, EarlyPass
  <1>4. CASE /\ First \in open /\ child[First].pc = "none"
             /\ child'[First].pc = "starting"
    <2>1. row.status = "RUNNING" /\ ~Idle(First)
      BY <1>4 DEF Unpublished, EarlyRow, Idle, Resting, Halted
    <2>2. EarlyPass'
      BY <1>1, <1>2, <1>3, <2>1 DEF EarlyPass, Dispatching
    <2>3. QED BY <1>2, <1>3, <1>4, <2>1, <2>2 DEF Unpublished
  <1>5. CASE ~Idle(First) /\ open' = open /\ child' = child
    <2>1. EarlyPass'
      BY <1>1, <1>2, <1>3, <1>5 DEF EarlyPass, Dispatching
    <2>2. QED BY <1>2, <1>3, <1>5, <2>1 DEF Unpublished
  <1>6. QED BY <1>1, <1>4, <1>5, OnlyFirstQueue

-----------------------------------------------------------------------------
(* While the pass holds the copy it read before *)

LEMMA JustPublishedPass ==
  ASSUME TaskInv, Quiet, JustPublished, SchedulerStep \/ SchedulerFault
  PROVE  Unpublished' \/ Published'
  <1>1. /\ child' = child /\ row.metadata.validated /\ OnlyFirst /\ sched.pc = "settle"
        /\ EarlyRow(sched.snap) /\ sched.snap.status = "RUNNING"
        /\ row.status = "RUNNING" => row.ci_status = "none"
        /\ child[First].pc \in {"published", "awaiting", "ok", "bad"}
    BY PassStepShape DEF JustPublished
  <1>2. ASSUME row' = row, NEW pc \in Starts, Goes(pc) PROVE Published'
    <2>1. sched'.pc \notin HoldsRow
      BY <1>2 DEF Goes, Starts, HoldsRow
    <2>2. \A k \in JobIds : child[k].pc \notin HoldsCopy
      BY <1>1 DEF OnlyFirst, Idle, HoldsCopy
    <2>3. QED BY <1>1, <1>2, <2>1, <2>2 DEF Published
  <1>3. CASE ReconcileWaits \/ SchedulerCrashes
    BY <1>2, <1>3 DEF ReconcileWaits, SchedulerCrashes, Raises, Starts
  <1>4. CASE ReconcileSucceeded \/ ReconcileBlocks
    <2>1. /\ UNCHANGED <<queue, child>> /\ First \notin open
          /\ child[First].pc \in {"none", "ok", "bad"}
          /\ \/ Raises
             \/ /\ row.status = "RUNNING"
                /\ \E m \in Metadata :
                     Early(m) /\ IsEntry(row', "BLOCKED", row.ci_status, m) /\ Goes("list")
      BY <1>1, <1>4, SettlesFirst DEF At
    <2>2. CASE Raises
      BY <1>2, <2>2 DEF Raises, Starts
    <2>3. ASSUME row.status = "RUNNING", NEW m \in Metadata, Early(m),
                 IsEntry(row', "BLOCKED", row.ci_status, m), Goes("list")
          PROVE  Unpublished'
      BY <1>1, <2>1, <2>3, PassBlocks DEF Starts, Stopped, Resting, Halted
    <2>4. QED BY <2>1, <2>2, <2>3
  <1>5. QED
    BY <1>1, <1>3, <1>4
    DEF SchedulerStep, SchedulerFault, ReconcileReads, ListsCandidates, DispatchPaused,
        Reserves, ReserveFails, Enqueues, PollsCI, CIPasses, CIFails, CIUnknown,
        ReviewReserves, EnqueuesReview, ReviewWaits, ReviewUnusable, ReviewApproves,
        ReviewRequiresChanges, HasReview, PollsMerged, RecordsMerge, RefusesMerge,
        MergePending, Notifies, NotifiesNothing, NotificationRecorded, DispatchFailureReads,
        DispatchFailureBlocks, EnqueueFails, ReviewCallFails, MergedCallFails, At

LEMMA JustPublishedChild ==
  ASSUME TaskInv, JustPublished, NEW j \in JobIds, ChildStep(j) \/ ChildDies(j)
  PROVE  JustPublished'
  <1>1. child[j].pc \in Working
    BY ChildStepMoves DEF ChildMoves
  <1>2. j = First
    BY <1>1 DEF JustPublished, OnlyFirst, Idle, Working
  <1>3. child[First].pc \in {"published", "awaiting"}
    BY <1>1, <1>2 DEF JustPublished, Working
  <1>4. UNCHANGED queue /\ sched' = sched
    BY ChildStepShape
  <1>5. /\ \E pc \in {"awaiting", "ok", "bad"} : ChildGoes(First, pc)
        /\ \/ row' = row
           \/ row' = [row EXCEPT !.status = "WAITING_CI", !.ci_status = "queued"]
    BY <1>2, <1>3
    DEF ChildStep, ChildStarts, ChildOpens, ChildReadsTask, ChildTracks,
        ChildReservesRepair, ChildRefundsRepair, ChildRepaired, ChildPushes, ChildSyncs,
        ChildPublishes, ChildChecksStatus, ChildAwaitsCI, ChildConcludes, ChildFindsNothing,
        ChildBlocks, ChildHalts, ChildSyncsBlock, ChildRecordsBlock, ChildReviews, ChildDies
  <1>6. /\ child'[First].pc \in {"awaiting", "ok", "bad"}
        /\ child'[First].metadata = FreshMetadata
        /\ \A k \in JobIds \ {First} : child'[k] = child[k]
    BY <1>5, ChildIs, EarlyStart
  <1>7. /\ row'.metadata.validated /\ row'.status \in {"RUNNING", "WAITING_CI"}
        /\ row'.status = "RUNNING" => row'.ci_status = "none"
    BY <1>5, RowIsRow DEF JustPublished, TaskRow
  <1>8. OnlyFirst'
    <2>1. open' = open /\ verdict' = verdict
      BY <1>4 DEF queue
    <2>2. First \notin open /\ ~Store!Unissued(First)
          /\ \A t \in Store!Tokens : verdict[First][t] \notin {"succeeded", "failed"}
      BY <1>3 DEF JustPublished, OnlyFirst
    <2>3. \A k \in JobIds \ {First} : Idle(k)'
      BY <1>6, <2>1 DEF JustPublished, OnlyFirst, Idle, Store!Unissued
    <2>4. Early(child[First].metadata)'
      BY <1>6, EarlyStart DEF Early
    <2>5. QED BY <2>1, <2>2, <2>3, <2>4 DEF OnlyFirst, Store!Unissued
  <1>9. QED BY <1>4, <1>6, <1>7, <1>8 DEF JustPublished, EarlyRow, Early

-----------------------------------------------------------------------------
(* Every step *)

LEMMA WaitInit == TaskInit => WaitInv
  <1> SUFFICES ASSUME TaskInit PROVE Unpublished
    BY DEF WaitInv
  <1>1. /\ row = FreshRow /\ sched.pc = "reconcile" /\ sched.snap = FreshRow
        /\ open = {} /\ \A j \in JobIds : Store!Unissued(j)
        /\ \A j \in JobIds : child[j].pc = "none" /\ child[j].metadata = FreshMetadata
    BY DEF TaskInit, Store!ClaimsInit, Store!Unissued, NoChild
  <1>2. \A j \in JobIds : Idle(j)
    BY <1>1 DEF Idle
  <1>3. OnlyFirst
    BY <1>1, <1>2, EarlyStart DEF OnlyFirst, Store!Unissued
  <1>4. EarlyPass
    BY <1>1, EarlyStart DEF EarlyPass, Dispatching
  <1>5. QED BY <1>1, <1>2, <1>3, <1>4, EarlyStart DEF Unpublished, FreshRow

LEMMA WaitNext == TaskInv /\ WaitInv /\ [TaskNext]_schedulerVars => WaitInv'
  <1> SUFFICES ASSUME TaskInv, WaitInv, [TaskNext]_schedulerVars, Quiet',
                      row'.status # "DONE"
               PROVE  Unpublished' \/ JustPublished' \/ Published'
    BY DEF WaitInv
  <1>1. CASE UNCHANGED schedulerVars
    BY <1>1
    DEF schedulerVars, queue, WaitInv, Quiet, Unpublished, JustPublished, Published,
        EarlyRow, Early, EarlyPass, OnlyFirst, Idle, Store!Unissued
  <1> SUFFICES ASSUME TaskNext PROVE Unpublished' \/ JustPublished' \/ Published'
    BY <1>1
  <1>2. Quiet
    BY QuietBefore
  <1>3. row.status # "DONE"
    BY DoneStays
  <1>4. CASE Published
    BY <1>4, PublishedStays
  <1>5. ASSUME Unpublished \/ JustPublished
        PROVE  Unpublished' \/ JustPublished' \/ Published'
    <2>1. CASE SchedulerStep \/ SchedulerFault
      BY <1>2, <1>5, <2>1, UnpublishedPass, JustPublishedPass
    <2>2. ASSUME NEW j \in JobIds, ChildStep(j) \/ ChildDies(j)
          PROVE  Unpublished' \/ JustPublished' \/ Published'
      BY <1>5, <2>2, UnpublishedChild, JustPublishedChild
    <2>3. ASSUME NEW j \in JobIds, NEW t \in Store!Tokens,
                 RunnerClaims(j, t) \/ SupervisorReports(j, t) \/ OperatorRequeues(j, t)
          PROVE  Unpublished' \/ JustPublished' \/ Published'
      <3>1. CASE Unpublished
        BY <1>2, <2>3, <3>1, UnpublishedQueue
      <3>2. CASE JustPublished
        <4>1. OnlyFirst /\ child[First].pc # "none"
          BY <3>2 DEF JustPublished
        <4>2. OnlyFirst' /\ row' = row /\ sched' = sched /\ child' = child
          BY <1>2, <2>3, <4>1, OnlyFirstQueue
        <4>3. QED BY <3>2, <4>2 DEF JustPublished, EarlyRow, Early
      <3>3. QED BY <1>5, <3>1, <3>2
    <2>4. ASSUME NEW j \in JobIds, LeaseExpires(j) PROVE FALSE
      <3>1. PICK t \in Store!Tokens : verdict[j][t] = "live"
        BY <2>4 DEF LeaseExpires, Store!Revoke, Store!Live
      <3>2. verdict'[j][t] = "revoked"
        BY <2>4, <3>1 DEF LeaseExpires, Store!Revoke
      <3>3. QED BY <3>2 DEF Quiet
    <2>5. CASE OperatorReconcilesMerge
      <3>1. row'.status = "DONE"
        BY <2>5, RowIsRow DEF OperatorReconcilesMerge, Becomes, TaskRow
      <3>2. QED BY <3>1
    <2>6. CASE GitHubStep
      <3>1. row' = row /\ sched' = sched /\ child' = child /\ UNCHANGED queue
        BY <2>6 DEF GitHubStep, ChecksFinish, PullRequestEnds, SomebodyPushes
      <3>2. QED
        BY <1>5, <3>1
        DEF queue, Unpublished, JustPublished, EarlyRow, Early, EarlyPass, OnlyFirst,
            Idle, Store!Unissued
    <2>7. QED BY <2>1, <2>2, <2>3, <2>4, <2>5, <2>6 DEF TaskNext
  <1>6. QED BY <1>2, <1>3, <1>4, <1>5 DEF WaitInv

\* As long as no lease expires, a task that waits for CI has its validation on record,
\* for any number of dispatches, repairs, reviews, failed calls and crashes: whoever
\* writes an older copy of the row over it read it afterwards, or is refused
\* (_sync_task_result, _reconcile_pull_runner_jobs).
THEOREM WaitingTasksWereValidated == TaskSpec => []WaitingWasValidated
  <1>1. WaitInv => WaitingWasValidated
    BY DEF WaitInv, Quiet, WaitingWasValidated, Unpublished, EarlyRow, JustPublished, Published
  <1>2. QED BY <1>1, TaskInvHolds, WaitInit, WaitNext, PTL DEF TaskSpec

-----------------------------------------------------------------------------
(* The counters *)

\* One child at a time is at work, if its claim lasts as long.
OneAtWork ==
  Quiet =>
    /\ \A j \in JobIds : child[j].pc \in Working => Store!Live(j)
    /\ \A j, k \in JobIds : Store!Live(j) /\ Store!Live(k) => j = k

\* So the count it has read is that of the row when it writes.
Counting == {"tracking", "publishing", "halting"}

CopiesCount ==
  Quiet =>
    \A j \in JobIds :
      child[j].pc \in Counting =>
        child[j].attempts = row.implementation_attempts

\* Nobody but the pass counts failed checks.
PassCounts == At("ci") => sched.snap.ci_attempts = row.ci_attempts

CountInv == OneAtWork /\ CopiesCount /\ PassCounts

KeepsCounters(r) ==
  /\ r.ci_attempts = row.ci_attempts
  /\ r.implementation_attempts = row.implementation_attempts

LEMMA WriteOrRaiseKeeps ==
  ASSUME NEW new, KeepsCounters(new), NEW pc \in Starts, WritesOrRaises(new, pc)
  PROVE  KeepsCounters(row') /\ sched'.pc # "ci"
  BY DEF WritesOrRaises, Raises, Goes, KeepsCounters, Starts

LEMMA BecomesKeeps ==
  ASSUME TaskInv, NEW s, NEW m, NEW c
  PROVE  /\ KeepsCounters(Becomes(s, m))
         /\ KeepsCounters([Becomes(s, m) EXCEPT !.ci_status = c])
  BY RowIsRow DEF KeepsCounters, Becomes, TaskRow

LEMMA ReviewFailureKeeps ==
  ASSUME TaskInv, NEW m, ReviewFailsWith(m)
  PROVE  KeepsCounters(row') /\ sched'.pc # "ci"
  <1> DEFINE n == [m EXCEPT !.review_job = NoJob, !.review_sequence = @ + 1]
             new == Becomes("BLOCKED", n)
  <1>1. WritesOrRaises(new, "poll_merged")
    BY DEF ReviewFailsWith
  <1> HIDE DEF n
  <1>2. KeepsCounters(new)
    BY BecomesKeeps
  <1> HIDE DEF new
  <1>3. QED BY <1>1, <1>2, WriteOrRaiseKeeps DEF Starts

\* What a step of the pass does to the counters.
LEMMA PassStepCounts ==
  ASSUME TaskInv, SchedulerStep \/ SchedulerFault
  PROVE  \/ KeepsCounters(row') /\ sched'.pc # "ci"
         \/ row' = row /\ sched'.snap = row
         \/ /\ At("ci") /\ sched'.pc # "ci"
            /\ row'.ci_attempts = sched.snap.ci_attempts + 1
            /\ row'.implementation_attempts = row.implementation_attempts
  <1>1. ASSUME row' = row, NEW pc \in Starts, Goes(pc)
        PROVE  KeepsCounters(row') /\ sched'.pc # "ci"
    BY <1>1 DEF KeepsCounters, Goes, Starts
  <1>2. CASE ReconcileReads \/ ReconcileWaits \/ ListsCandidates \/ DispatchPaused
             \/ Enqueues \/ PollsCI \/ CIUnknown \/ EnqueuesReview \/ ReviewWaits
             \/ PollsMerged \/ MergePending \/ Notifies \/ NotifiesNothing
             \/ SchedulerCrashes \/ ReserveFails \/ EnqueueFails \/ DispatchFailureReads
    <2>1. row' = row
      BY <1>2 DEF ReconcileReads, ReconcileWaits, ListsCandidates, DispatchPaused, Enqueues,
           PollsCI, CIUnknown, EnqueuesReview, ReviewWaits, PollsMerged, MergePending,
           Notifies, NotifiesNothing, SchedulerCrashes, ReserveFails, EnqueueFails,
           DispatchFailureReads, Raises
    <2>2. (\E pc \in Starts : Goes(pc)) \/ (\E pc \in SchedulerPhases : Reads(pc))
      BY <1>2 DEF ReconcileReads, ReconcileWaits, ListsCandidates, DispatchPaused, Enqueues,
           PollsCI, CIUnknown, EnqueuesReview, ReviewWaits, PollsMerged, MergePending,
           Notifies, NotifiesNothing, SchedulerCrashes, ReserveFails, EnqueueFails,
           DispatchFailureReads, Raises, Starts, SchedulerPhases
    <2>3. QED BY <1>1, <2>1, <2>2 DEF Reads
  <1>3. CASE ReconcileSucceeded \/ ReconcileBlocks
    <2>1. Raises \/ \E s, m : WritesOrRaises(Becomes(s, m), "list")
      BY <1>3 DEF ReconcileSucceeded, ReconcileBlocks
    <2>2. QED BY <1>1, <2>1, BecomesKeeps, WriteOrRaiseKeeps DEF Raises, Starts
  <1>4. CASE Reserves
    <2>1. (\E s, m : row' = Becomes(s, m)) /\ sched'.pc = "enqueue"
      BY <1>4 DEF Reserves
    <2>2. QED BY <2>1, BecomesKeeps
  <1>5. CASE DispatchFailureBlocks \/ RefusesMerge \/ MergedCallFails
    <2>1. /\ \/ row' = row \/ row' = [row EXCEPT !.status = "BLOCKED"]
             \/ \E m : row' = Becomes("BLOCKED", m)
          /\ \E pc \in {"reconcile", "poll_ci", "notify"} : Goes(pc)
      BY <1>5 DEF DispatchFailureBlocks, RefusesMerge, MergedCallFails, Raises
    <2>2. KeepsCounters(row')
      BY <2>1, RowIsRow DEF KeepsCounters, Becomes, TaskRow
    <2>3. QED BY <2>1, <2>2 DEF Goes
  <1>6. CASE CIPasses
    <2> DEFINE m == [sched.snap.metadata EXCEPT !.post_ci_review = TRUE]
               new == [Becomes("RUNNING", m) EXCEPT !.ci_status = "green"]
    <2>1. \/ row' = new /\ sched' = [pc |-> "review", snap |-> new, job |-> NoJob]
          \/ Raises
      BY <1>6 DEF CIPasses
    <2> HIDE DEF m
    <2>2. KeepsCounters(new)
      BY BecomesKeeps
    <2> HIDE DEF new
    <2>3. QED BY <1>1, <2>1, <2>2 DEF Raises, Starts
  <1>7. CASE CIFails
    <2> DEFINE n == sched.snap.ci_attempts + 1
               new == [Becomes("BLOCKED", sched.snap.metadata) EXCEPT
                         !.ci_status = "failed", !.ci_attempts = n]
    <2>1. WritesOrRaises(new, "poll_merged") /\ At("ci")
      BY <1>7 DEF CIFails
    <2>2. new.ci_attempts = n /\ new.implementation_attempts = row.implementation_attempts
      BY RowIsRow DEF Becomes, TaskRow
    <2> HIDE DEF new
    <2>3. QED BY <1>1, <2>1, <2>2 DEF WritesOrRaises, Raises, Goes, Starts
  <1>8. CASE ReviewReserves
    <2>1. \/ ReviewFailsWith(sched.snap.metadata)
          \/ /\ \E s, m : row' = Becomes(s, m)
             /\ \E job : sched' = [sched EXCEPT !.pc = "enqueue_review", !.job = job]
      BY <1>8 DEF ReviewReserves
    <2>2. ASSUME NEW job, sched' = [sched EXCEPT !.pc = "enqueue_review", !.job = job]
          PROVE  sched'.pc = "enqueue_review"
      BY <2>2, InvParts DEF PassOK, Passes
    <2>3. CASE ReviewFailsWith(sched.snap.metadata)
      BY <2>3, ReviewFailureKeeps
    <2>4. ASSUME NEW s, NEW m, row' = Becomes(s, m) PROVE KeepsCounters(row')
      BY <2>4, BecomesKeeps
    <2>5. QED BY <2>1, <2>2, <2>3, <2>4
  <1>9. CASE ReviewUnusable \/ ReviewCallFails
    BY <1>9, ReviewFailureKeeps DEF ReviewUnusable, ReviewCallFails
  <1>10. CASE \E independent \in BOOLEAN : ReviewApproves(independent)
    <2> DEFINE m == Reviewed("approved")
               ready == [Becomes("READY", m) EXCEPT !.ci_status = "green"]
    <2>1. WritesOrRaises(ready, "poll_merged")
          \/ WritesOrRaises(Becomes("BLOCKED", m), "poll_merged")
      BY <1>10 DEF ReviewApproves
    <2> HIDE DEF m
    <2>2. KeepsCounters(ready) /\ KeepsCounters(Becomes("BLOCKED", m))
      BY BecomesKeeps
    <2> HIDE DEF ready
    <2>3. QED BY <2>1, <2>2, WriteOrRaiseKeeps DEF Starts
  <1>11. CASE ReviewRequiresChanges
    <2>1. \E s, m : WritesOrRaises(Becomes(s, m), "poll_merged")
      BY <1>11 DEF ReviewRequiresChanges
    <2>2. QED BY <2>1, BecomesKeeps, WriteOrRaiseKeeps DEF Starts
  <1>12. CASE RecordsMerge
    <2> DEFINE m == [sched.snap.metadata EXCEPT !.completion = "scheduler_poll"]
               new == [Becomes("DONE", m) EXCEPT !.ci_status = "green"]
    <2>1. row' \in {row, new} /\ Goes("notify")
      BY <1>12 DEF RecordsMerge
    <2> HIDE DEF m
    <2>2. KeepsCounters(new)
      BY BecomesKeeps
    <2> HIDE DEF new
    <2>3. QED BY <1>1, <2>1, <2>2 DEF Goes, Starts
  <1>13. CASE NotificationRecorded
    <2>1. (row' = row \/ \E s, m : row' = Becomes(s, m)) /\ Goes("reconcile")
      BY <1>13 DEF NotificationRecorded, WritesIfAllowed
    <2>2. QED BY <1>1, <2>1, BecomesKeeps DEF Goes, Starts
  <1>14. QED
    BY <1>2, <1>3, <1>4, <1>5, <1>6, <1>7, <1>8, <1>9, <1>10, <1>11, <1>12, <1>13
    DEF SchedulerStep, SchedulerFault

\* What a step of a child does to them.
LEMMA ChildStepCounts ==
  ASSUME TaskInv, NEW j \in JobIds, ChildStep(j) \/ ChildDies(j)
  PROVE  /\ row'.ci_attempts = row.ci_attempts
         /\ \/ row'.implementation_attempts = row.implementation_attempts
            \/ /\ child[j].pc \in Counting
               /\ row'.implementation_attempts >= child[j].attempts
               /\ child'[j].pc \notin Counting
         /\ child'[j].pc \in Counting =>
              child'[j].attempts = row'.implementation_attempts
  <1>1. row \in TaskRow /\ child \in [JobIds -> Children] /\ child[j].attempts \in 0 .. MaxCount
    BY Typed, ChildParts DEF TaskInv
  <1>2. CASE \/ ChildStarts(j) \/ ChildBlocks(j) \/ ChildSyncsBlock(j)
             \/ ChildReadsTask(j) \/ ChildRepaired(j) \/ ChildPushes(j)
             \/ ChildSyncs(j) \/ ChildChecksStatus(j) \/ ChildConcludes(j) \/ ChildDies(j)
             \/ \E result \in {"approved", "changes_required"} : ChildReviews(j, result)
    <2>1. row' = row
      BY <1>2 DEF ChildStarts, ChildBlocks, ChildSyncsBlock, ChildReadsTask, ChildRepaired,
                  ChildPushes, ChildSyncs, ChildChecksStatus, ChildConcludes, ChildReviews,
                  ChildDies
    <2>2. \/ \E pc \in ChildPhases \ Counting : ChildGoes(j, pc)
          \/ \E pc \in ChildPhases : ChildReads(j, pc)
      BY <1>2 DEF ChildStarts, ChildBlocks, ChildSyncsBlock, ChildReadsTask, ChildRepaired,
                  ChildPushes, ChildSyncs, ChildChecksStatus, ChildConcludes, ChildReviews,
                  ChildDies, ChildPhases, Counting
    <2>3. ASSUME NEW pc, ChildReads(j, pc)
          PROVE  child'[j].attempts = row.implementation_attempts
      BY <1>1, <2>3 DEF ChildReads
    <2>4. QED BY <2>1, <2>2, <2>3, ChildIs
  <1>3. ASSUME NEW n \in 0 .. MaxCount, n >= child[j].attempts, NEW m,
               WritesIfAllowed([Becomes("RUNNING", m) EXCEPT !.implementation_attempts = n])
        PROVE  /\ row'.ci_attempts = row.ci_attempts
               /\ \/ row'.implementation_attempts = row.implementation_attempts
                  \/ row'.implementation_attempts >= child[j].attempts
    BY <1>1, <1>3 DEF WritesIfAllowed, Becomes, TaskRow
  <1>4. CASE \E count \in 0 .. MaxCount : ChildTracks(j, count)
    <2>1. PICK count \in 0 .. MaxCount : ChildTracks(j, count)
      BY <1>4
    <2> DEFINE n == Larger(child[j].attempts, count)
    <2>2. n \in 0 .. MaxCount /\ n >= child[j].attempts
      BY <1>1 DEF Larger
    <2>3. /\ WritesIfAllowed([Becomes("RUNNING", child[j].metadata) EXCEPT
                                !.implementation_attempts = n])
          /\ child[j].pc = "tracking" /\ ChildGoes(j, "working")
      BY <2>1 DEF ChildTracks
    <2> HIDE DEF n
    <2>4. child'[j].pc = "working"
      BY <2>3, ChildIs
    <2>5. QED BY <1>3, <2>2, <2>3, <2>4 DEF Counting
  <1>5. CASE ChildPublishes(j)
    <2>1. /\ WritesIfAllowed([Becomes("RUNNING", Approved(child[j].metadata)) EXCEPT
                                !.implementation_attempts = child[j].attempts])
          /\ child[j].pc = "publishing" /\ ChildGoes(j, "published")
      BY <1>5 DEF ChildPublishes
    <2>2. child'[j].pc = "published" /\ child[j].attempts >= child[j].attempts
      BY <1>1, <2>1, ChildIs
    <2>3. QED BY <1>1, <1>3, <2>1, <2>2 DEF Counting
  <1>6. CASE \/ ChildReservesRepair(j) \/ ChildRefundsRepair(j) \/ ChildAwaitsCI(j)
             \/ ChildFindsNothing(j) \/ ChildRecordsBlock(j)
             \/ \E m \in {row.metadata, child[j].metadata} : ChildOpens(j, m)
    <2>1. \/ row' = row
          \/ \E n : row' = [row EXCEPT !.metadata.repairs_used = n]
          \/ row' = [row EXCEPT !.status = "WAITING_CI", !.ci_status = "queued"]
          \/ \E m : row' = [Becomes("DONE", m) EXCEPT !.ci_status = "not_required"]
          \/ \E st, m : row' = Becomes(st, m)
      BY <1>6 DEF ChildReservesRepair, ChildRefundsRepair, ChildAwaitsCI,
                  ChildFindsNothing, ChildRecordsBlock, ChildOpens, WritesIfAllowed
    <2>2. KeepsCounters(row')
      BY <1>1, <2>1 DEF KeepsCounters, Becomes, TaskRow
    <2>3. \E pc \in {"repairing", "stopping", "ok", "bad", "working"} : ChildGoes(j, pc)
      BY <1>6 DEF ChildReservesRepair, ChildRefundsRepair, ChildAwaitsCI,
                  ChildFindsNothing, ChildRecordsBlock, ChildOpens
    <2>4. child'[j].pc \notin Counting
      BY <2>3, ChildIs DEF Counting
    <2>5. QED BY <2>2, <2>4 DEF KeepsCounters
  <1>7. CASE \E count \in 0 .. MaxCount : ChildHalts(j, count)
    <2>1. PICK count \in 0 .. MaxCount : ChildHalts(j, count)
      BY <1>7
    <2> DEFINE n == Larger(child[j].attempts, count)
    <2>2. n \in 0 .. MaxCount /\ n >= child[j].attempts
      BY <1>1 DEF Larger
    <2>3. /\ row' = row \/ row' = [row EXCEPT !.status = "BLOCKED",
                                              !.implementation_attempts = n]
          /\ child[j].pc = "halting" /\ ChildGoes(j, "halted")
      BY <2>1 DEF ChildHalts, WritesIfAllowed
    <2> HIDE DEF n
    <2>4. /\ row'.ci_attempts = row.ci_attempts
          /\ \/ row'.implementation_attempts = row.implementation_attempts
             \/ row'.implementation_attempts = n
      BY <1>1, <2>3 DEF TaskRow
    <2>5. child'[j].pc = "halted"
      BY <2>3, ChildIs
    <2>6. QED BY <2>2, <2>3, <2>4, <2>5 DEF Counting
  <1>8. QED BY <1>2, <1>4, <1>5, <1>6, <1>7 DEF ChildStep

\* A verdict that was live, and what a claim does to it.
LEMMA OneAtWorkStep ==
  ASSUME TaskInv, OneAtWork, TaskNext
  PROVE  OneAtWork'
  <1> SUFFICES ASSUME Quiet'
               PROVE  /\ \A j \in JobIds : child'[j].pc \in Working => Store!Live(j)'
                      /\ \A j, k \in JobIds : Store!Live(j)' /\ Store!Live(k)' => j = k
    BY DEF OneAtWork
  <1>1. /\ \A j \in JobIds : child[j].pc \in Working => Store!Live(j)
        /\ \A j, k \in JobIds : Store!Live(j) /\ Store!Live(k) => j = k
    BY QuietBefore DEF OneAtWork
  <1>2. /\ verdict \in [JobIds -> [Store!Tokens -> Outcomes]]
        /\ child \in [JobIds -> Children]
    BY QueueParts, Typed DEF QueueTypeOK, TaskInv
  <1>3. ASSUME verdict' = verdict,
               \A k \in JobIds : child'[k].pc \in Working => child[k].pc \in Working
        PROVE  /\ \A j \in JobIds : child'[j].pc \in Working => Store!Live(j)'
               /\ \A j, k \in JobIds : Store!Live(j)' /\ Store!Live(k)' => j = k
    BY <1>1, <1>3 DEF Store!Live
  <1>4. CASE SchedulerStep \/ SchedulerFault
    <2>1. child' = child /\ verdict' = verdict
      BY <1>4, PassStepShape DEF queue, Store!Post
    <2>2. QED BY <1>3, <2>1
  <1>5. ASSUME NEW j \in JobIds, ChildStep(j) \/ ChildDies(j)
        PROVE  /\ \A k \in JobIds : child'[k].pc \in Working => Store!Live(k)'
               /\ \A i, k \in JobIds : Store!Live(i)' /\ Store!Live(k)' => i = k
    <2>1. verdict' = verdict
      BY <1>5, ChildStepShape DEF queue
    <2>2. child[j].pc \in Working /\ \A k \in JobIds \ {j} : child'[k] = child[k]
      BY <1>2, <1>5, ChildStepMoves DEF ChildMoves
    <2>3. QED BY <1>3, <2>1, <2>2
  <1>6. ASSUME NEW j \in JobIds, NEW t \in Store!Tokens, RunnerClaims(j, t)
        PROVE  /\ \A k \in JobIds : child'[k].pc \in Working => Store!Live(k)'
               /\ \A i, k \in JobIds : Store!Live(i)' /\ Store!Live(k)' => i = k
    <2>1. /\ \A k \in JobIds : ~Store!Live(k)
          /\ verdict' = [verdict EXCEPT ![j][t] = "live"] /\ ChildGoes(j, "starting")
      BY <1>6 DEF RunnerClaims, Store!Issue
    <2>2. \A k \in JobIds : Store!Live(k)' <=> k = j
      BY <1>2, <2>1 DEF Store!Live
    <2>3. \A k \in JobIds \ {j} : child'[k] = child[k]
      BY <2>1, ChildIs
    <2>4. QED BY <1>1, <2>1, <2>2, <2>3
  <1>7. ASSUME NEW j \in JobIds, NEW t \in Store!Tokens, SupervisorReports(j, t)
        PROVE  /\ \A k \in JobIds : child'[k].pc \in Working => Store!Live(k)'
               /\ \A i, k \in JobIds : Store!Live(i)' /\ Store!Live(k)' => i = k
    <2>1. PICK v \in {"succeeded", "failed"} : Store!Settle(j, t, v)
      BY <1>7 DEF SupervisorReports
    <2>2. child' = child /\ child[j].pc \notin Working
      BY <1>7 DEF SupervisorReports, Working
    <2>3. verdict' = [verdict EXCEPT ![j][t] = v] /\ v # "live"
      BY <2>1 DEF Store!Settle
    <2>4. \A k \in JobIds : Store!Live(k)' => Store!Live(k)
      BY <1>2, <2>3 DEF Store!Live
    <2>5. \A k \in JobIds \ {j} : Store!Live(k) => Store!Live(k)'
      BY <1>2, <2>3 DEF Store!Live
    <2>6. QED BY <1>1, <2>2, <2>4, <2>5
  <1>8. ASSUME NEW j \in JobIds, LeaseExpires(j) PROVE FALSE
    <2>1. PICK t \in Store!Tokens : verdict[j][t] = "live"
      BY <1>8 DEF LeaseExpires, Store!Revoke, Store!Live
    <2>2. verdict'[j][t] = "revoked"
      BY <1>8, <2>1 DEF LeaseExpires, Store!Revoke
    <2>3. QED BY <2>2 DEF Quiet
  <1>9. CASE \/ \E j \in JobIds, t \in Store!Tokens : OperatorRequeues(j, t)
             \/ OperatorReconcilesMerge \/ GitHubStep
    <2>1. verdict' = verdict /\ child' = child
      BY <1>9 DEF OperatorRequeues, Store!Reopen, OperatorReconcilesMerge, GitHubStep,
                  ChecksFinish, PullRequestEnds, SomebodyPushes, queue
    <2>2. QED BY <1>3, <2>1
  <1>10. QED BY <1>4, <1>5, <1>6, <1>7, <1>8, <1>9 DEF TaskNext

\* One step: what it does to the counters, and to what is known of the copies.
LEMMA CountStep ==
  ASSUME TaskInv, CountInv, TaskNext
  PROVE  /\ CopiesCount' /\ PassCounts'
         /\ row'.ci_attempts >= row.ci_attempts
         /\ Quiet => row'.implementation_attempts >= row.implementation_attempts
  <1>1. row.ci_attempts \in Nat /\ row.implementation_attempts \in 0 .. MaxCount
    BY InvParts
  <1>2. Quiet' => Quiet
    BY QuietBefore
  <1>3. CASE SchedulerStep \/ SchedulerFault
    <2>1. child' = child
      BY <1>3, PassStepShape
    <2>2. row'.implementation_attempts = row.implementation_attempts
      BY <1>3, PassStepCounts DEF KeepsCounters
    <2>3. PassCounts' /\ row'.ci_attempts >= row.ci_attempts
      BY <1>1, <1>3, PassStepCounts DEF KeepsCounters, CountInv, PassCounts, At
    <2>4. QED BY <1>1, <1>2, <2>1, <2>2, <2>3 DEF CountInv, CopiesCount
  <1>4. ASSUME NEW j \in JobIds, ChildStep(j) \/ ChildDies(j)
        PROVE  /\ CopiesCount' /\ PassCounts'
               /\ row'.ci_attempts >= row.ci_attempts
               /\ Quiet => row'.implementation_attempts >= row.implementation_attempts
    <2>1. sched' = sched
      BY <1>4, ChildStepShape
    <2>2. /\ row'.ci_attempts = row.ci_attempts
          /\ \/ row'.implementation_attempts = row.implementation_attempts
             \/ /\ child[j].pc \in Counting
                /\ row'.implementation_attempts >= child[j].attempts
          /\ child'[j].pc \in Counting =>
               child'[j].attempts = row'.implementation_attempts
      BY <1>4, ChildStepCounts
    <2>3. child[j].pc \in Working /\ \A k \in JobIds \ {j} : child'[k] = child[k]
      BY <1>4, Typed, ChildStepMoves DEF ChildMoves, TaskInv
    <2>4. ASSUME Quiet, NEW k \in JobIds \ {j} PROVE child[k].pc \notin Working
      BY <2>3, <2>4 DEF CountInv, OneAtWork
    <2>5. CopiesCount'
      <3>1. Counting \subseteq Working
        BY DEF Working, ChildPhases, Counting
      <3>2. QED BY <1>2, <2>2, <2>3, <2>4, <3>1 DEF CopiesCount
    <2>6. PassCounts'
      BY <2>1, <2>2 DEF CountInv, PassCounts, At
    <2>7. ASSUME Quiet PROVE row'.implementation_attempts >= row.implementation_attempts
      BY <1>1, <2>2, <2>7 DEF CountInv, CopiesCount
    <2>8. QED BY <1>1, <2>2, <2>5, <2>6, <2>7
  <1>5. ASSUME NEW j \in JobIds, NEW t \in Store!Tokens, RunnerClaims(j, t)
        PROVE  /\ CopiesCount' /\ PassCounts' /\ row' = row
    <2>1. row' = row /\ sched' = sched /\ ChildGoes(j, "starting")
      BY <1>5 DEF RunnerClaims
    <2>2. child'[j].pc = "starting" /\ \A k \in JobIds \ {j} : child'[k] = child[k]
      BY <2>1, ChildIs
    <2>3. QED BY <1>2, <2>1, <2>2 DEF CountInv, CopiesCount, PassCounts, At, Counting
  <1>6. ASSUME \/ \E j \in JobIds : LeaseExpires(j)
               \/ \E j \in JobIds, t \in Store!Tokens :
                    SupervisorReports(j, t) \/ OperatorRequeues(j, t)
               \/ OperatorReconcilesMerge \/ GitHubStep
        PROVE  /\ CopiesCount' /\ PassCounts' /\ KeepsCounters(row')
    <2>1. /\ child' = child /\ sched' = sched
          /\ row' = row \/ OperatorReconcilesMerge
      BY <1>6 DEF LeaseExpires, SupervisorReports, OperatorRequeues,
           OperatorReconcilesMerge, GitHubStep, ChecksFinish, PullRequestEnds,
           SomebodyPushes
    <2>2. KeepsCounters(row')
      BY <2>1, RowIsRow DEF OperatorReconcilesMerge, KeepsCounters, Becomes, TaskRow
    <2>3. QED
      BY <1>2, <2>1, <2>2 DEF CountInv, CopiesCount, PassCounts, At, KeepsCounters
  <1>7. QED BY <1>1, <1>3, <1>4, <1>5, <1>6 DEF TaskNext, KeepsCounters

LEMMA CountInit == TaskInit => CountInv
  <1> SUFFICES ASSUME TaskInit PROVE CountInv
    OBVIOUS
  <1>1. /\ sched.pc = "reconcile" /\ \A j \in JobIds : child[j].pc = "none"
        /\ \A j \in JobIds, t \in Store!Tokens : verdict[j][t] = "unissued"
    BY DEF TaskInit, NoChild, Store!ClaimsInit
  <1>2. QED
    BY <1>1
    DEF CountInv, OneAtWork, CopiesCount, PassCounts, At, Working, Store!Live, Counting

LEMMA CountIsInductive == TaskSpec => [](TaskInv /\ CountInv)
  <1>1. TaskInv /\ CountInv /\ [TaskNext]_schedulerVars => CountInv'
    <2> SUFFICES ASSUME TaskInv, CountInv, [TaskNext]_schedulerVars PROVE CountInv'
      OBVIOUS
    <2>1. CASE TaskNext
      BY <2>1, CountStep, OneAtWorkStep DEF CountInv
    <2>2. CASE UNCHANGED schedulerVars
      BY <2>2
      DEF schedulerVars, queue, CountInv, OneAtWork, CopiesCount, PassCounts, At, Quiet,
          Store!Live
    <2>3. QED BY <2>1, <2>2
  <1>2. QED BY <1>1, CountInit, TaskInvHolds, PTL DEF TaskSpec

\* The count of failed checks never loses an increment to an older copy of the row,
\* whatever expires, fails or crashes; that of attempts does not as long as no lease
\* expires, for then one child at a time reads and writes it (_poll_ci,
\* _track_task_state, _sync_task_result).
THEOREM CountersStay == TaskSpec => CountersNeverDecrease
  <1>1. TaskInv /\ CountInv /\ [TaskNext]_schedulerVars =>
          [/\ row'.ci_attempts >= row.ci_attempts
           /\ row'.implementation_attempts < row.implementation_attempts => ~Quiet]_schedulerVars
    <2> SUFFICES ASSUME TaskInv, CountInv, TaskNext
                 PROVE  /\ row'.ci_attempts >= row.ci_attempts
                        /\ row'.implementation_attempts < row.implementation_attempts => ~Quiet
      OBVIOUS
    <2>1. TaskInv'
      BY NextKeepsInv
    <2>2. /\ row.implementation_attempts \in 0 .. MaxCount /\ row'.implementation_attempts \in 0 .. MaxCount
      BY <2>1 DEF TaskInv, TaskTypeOK, TaskRow
    <2>3. /\ row'.ci_attempts >= row.ci_attempts
          /\ Quiet => row'.implementation_attempts >= row.implementation_attempts
      BY CountStep
    <2>4. QED BY <2>2, <2>3
  <1>2. QED BY <1>1, CountIsInductive, PTL DEF TaskSpec, CountersNeverDecrease

================================================================================
