------------------------------ MODULE Workflow ------------------------------
(***************************************************************************)
(* The workflow of one issue: the nodes of app/graph.py, the checkpoint     *)
(* LangGraph saves after each of them, the workspace and the remote branch  *)
(* the nodes change, and how app/cli.py starts and resumes it.              *)
(*                                                                          *)
(* One action is a node with the route that follows it: the state it read,  *)
(* its effect, the state it returns and the next node are one checkpoint.   *)
(* An effect that was made is not undone when the process dies before the   *)
(* checkpoint is saved; the next process then executes the node again.      *)
(* Agents, validation and GitHub answer as they like.                       *)
(*                                                                          *)
(* Nodes that only read or print are part of the node before them.  Only    *)
(* issues are modelled, whose comments are published, not prompt tasks.     *)
(***************************************************************************)
EXTENDS Integers, Sequences

CONSTANTS
  StepCount,         \* steps of a plan
  MaxAttempts,       \* MAX_ATTEMPTS
  MaxFinalAttempts,  \* MAX_FINAL_ATTEMPTS
  MaxTree,           \* bound: contents the workspace may have
  MaxCommits,        \* bound: commits in the workspace when a plan is made
  MaxFaults          \* bound: crashes, failed calls, and pushes by others

ASSUME WorkflowAssumption ==
  /\ StepCount \in Nat \ {0}
  /\ MaxAttempts \in Nat \ {0}
  /\ MaxFinalAttempts \in Nat \ {0}

ASSUME WorkflowBoundAssumption ==
  MaxTree \in Nat /\ MaxCommits \in Nat /\ MaxFaults \in Nat

VARIABLES
  ckpt,     \* the checkpoint: WorkflowState, and the node that is next
  running,  \* a process executes the graph
  work,     \* the workspace: its HEAD, and what its files contain
  env,      \* the Dev Container runs
  remote,   \* the issue branch on GitHub
  passed,   \* contents that passed the validation of the whole plan
  vetted,   \* contents the reviewer of the whole plan approved
  repair,   \* what became of the CI repair that was asked for
  faults

outside == <<work, env, remote, passed, vetted, repair>>
workflowVars == <<ckpt, running, faults, outside>>

-----------------------------------------------------------------------------
Trees == 0 .. MaxTree

\* A revision is its history from the base branch on, as a commit SHA is. A commit bears
\* the operation that made it: of is the revision its operation_id names.
NoRevision == <<>>
Commit(revision, kind, step, tree, of) ==
  Append(revision, [kind |-> kind, step |-> step, tree |-> tree, of |-> of])
Base == Commit(NoRevision, "base", 0, 0, NoRevision)
Foreign(revision) ==
  Commit(IF revision = NoRevision THEN Base ELSE revision, "foreign", 0, 0, NoRevision)

Tip(revision) == revision[Len(revision)]
Parent(revision) == SubSeq(revision, 1, Len(revision) - 1)
TreeOf(revision) == IF revision = NoRevision THEN 0 ELSE Tip(revision).tree
EndsWith(revision, kind) == revision # NoRevision /\ Tip(revision).kind = kind

Nodes ==
  {"prepare_workspace", "planner", "prepare_plan_comment", "publish_plan",
   "awaiting_user_input", "start_environment", "prepare_current_step", "coder",
   "run_validation", "isolate_failure", "reviewer", "prepare_review_comment",
   "publish_review", "prepare_checkpoint", "complete_step", "prepare_final_review",
   "final_validation", "final_integration_coder", "isolate_final_failure",
   "final_reviewer", "prepare_finalize_history", "finalize_history",
   "prepare_push_branch", "push_branch", "prepare_draft_pr", "create_draft_pr",
   "blocked", "cleanup", "END"}

StepNodes ==
  {"coder", "run_validation", "isolate_failure", "reviewer", "prepare_review_comment",
   "publish_review", "prepare_checkpoint", "complete_step"}
PlanNodes ==
  {"final_validation", "final_integration_coder", "isolate_final_failure",
   "final_reviewer", "prepare_finalize_history", "finalize_history"}

Stages == Nodes \cup {"", "environment", "repair_budget"}

Intents == {"none", "plan", "review", "checkpoint", "final", "push", "pr"}

ValidationResults == {"success", "failure", "environment_failure"}

InitialState(simplified) ==
  [next |-> "prepare_workspace", status |-> "active", stage |-> "", cleanup_stage |-> "",
   simplified |-> simplified, prepared |-> FALSE, issue_baseline |-> NoRevision,
   remote_baseline |-> NoRevision, asks |-> FALSE, step |-> 0,
   attempt |-> 0, step_baseline |-> NoRevision, validation |-> "none",
   review |-> "none",
   final_attempt |-> 0, final_baseline |-> NoRevision, final_validation |-> "none",
   approved |-> FALSE,
   final_commit |-> NoRevision, intent |-> "none", expected |-> NoRevision,
   pr |-> FALSE, no_change |-> FALSE, environment_started |-> FALSE]

AttemptLimit == IF ckpt.simplified /\ MaxAttempts > 2 THEN 2 ELSE MaxAttempts
FinalLimit == IF ckpt.simplified THEN 1 ELSE MaxFinalAttempts

IsRevision(h) ==
  /\ h \in Seq({h[i] : i \in DOMAIN h})
  /\ \A i \in DOMAIN h : /\ h[i].kind \in {"base", "step", "final", "foreign"}
                         /\ h[i].step \in 0 .. StepCount
                         /\ h[i].tree \in Trees

\* The revisions a workflow knows.
Known ==
  {ckpt.issue_baseline, ckpt.remote_baseline, ckpt.step_baseline, ckpt.final_baseline,
   ckpt.final_commit, ckpt.expected, work.head, remote}

WorkflowTypeOK ==
  /\ ckpt.next \in Nodes /\ ckpt.status \in {"active", "blocked", "completed"}
  /\ ckpt.stage \in Stages /\ ckpt.cleanup_stage \in Stages
  /\ \A h \in Known : IsRevision(h)
  /\ ckpt.step \in 0 .. StepCount /\ ckpt.attempt \in 0 .. AttemptLimit
  /\ ckpt.final_attempt \in 0 .. FinalLimit
  /\ ckpt.review \in {"none", "approved", "changes_required", "review_failure"}
  /\ {ckpt.validation, ckpt.final_validation} \subseteq ValidationResults \cup {"none"}
  /\ ckpt.intent \in Intents
  /\ work.cloned \in BOOLEAN /\ work.tree \in Trees
  /\ passed \subseteq Trees /\ vetted \subseteq Trees
  /\ repair \in {"none", "coding", "failed"}
  /\ {running, env, ckpt.simplified, ckpt.prepared, ckpt.asks, ckpt.approved, ckpt.pr,
      ckpt.no_change, ckpt.environment_started} \subseteq BOOLEAN
  /\ faults \in 0 .. MaxFaults

WorkflowInit ==
  /\ \E simplified \in BOOLEAN : ckpt = InitialState(simplified)
  /\ running = TRUE
  /\ work = [cloned |-> FALSE, head |-> NoRevision, tree |-> 0]
  /\ env = FALSE
  /\ remote \in {NoRevision, Foreign(NoRevision)}
  /\ passed = {}
  /\ vetted = {}
  /\ repair = "none"
  /\ faults = 0

-----------------------------------------------------------------------------
(* How a node ends. *)

Node(name) == running /\ ckpt.next = name

Fault == faults < MaxFaults /\ faults' = faults + 1

\* The process dies after the effect of the node and before its checkpoint.
DiesUnsaved == Fault /\ running' = FALSE /\ UNCHANGED ckpt

Returns(state) == ckpt' = state /\ UNCHANGED <<running, faults>>

Saves(state) == Returns(state) \/ DiesUnsaved

\* A call of the node failed, which it returns as state.
Fails(state) == Fault /\ ckpt' = state /\ UNCHANGED running

\* An exception the node does not catch: the process ends, the node stays next.
Raises == running' = FALSE /\ UNCHANGED <<ckpt, faults>>

Goes(node) == [ckpt EXCEPT !.next = node]

\* state.get("step_baseline_sha") or current_head(workspace)
StepBaseline == IF ckpt.step_baseline = NoRevision THEN work.head ELSE ckpt.step_baseline

\* No intent is prepared, or the same one.
MayIntend(kind, expected) ==
  ckpt.intent = "none" \/ (ckpt.intent = kind /\ ckpt.expected = expected)

Blocks(stage) == [ckpt EXCEPT !.status = "blocked", !.stage = stage, !.next = "blocked"]

\* (the status is left to the node blocked)
StopsAt(stage) == [ckpt EXCEPT !.stage = stage, !.next = "blocked"]

Dirty == work.tree # TreeOf(work.head)

\* archive_and_reset_failed_attempt.
ResetTo(revision) == work' = [work EXCEPT !.head = revision, !.tree = TreeOf(revision)]

-----------------------------------------------------------------------------
(* Planning *)

\* load_issue, prepare_workspace: an existing workspace is taken if it has no changes, and
\* the branch on GitHub, if there is one, is where its HEAD is.
PrepareWorkspace ==
  /\ Node("prepare_workspace")
  /\ LET local == CASE work.cloned -> work.head
                    [] ~work.cloned /\ remote # NoRevision -> remote
                    [] OTHER -> Base
         refused == \/ work.cloned /\ Dirty
                    \/ remote # NoRevision /\ local # remote
                    \/ ckpt.remote_baseline # NoRevision /\ ckpt.remote_baseline # remote
     IN  /\ work' = IF work.cloned THEN work
                    ELSE [cloned |-> TRUE, head |-> local, tree |-> TreeOf(local)]
         /\ IF refused THEN Raises
            ELSE Saves([Goes("planner") EXCEPT
                          !.issue_baseline = IF ckpt.prepared THEN @ ELSE local,
                          !.prepared = TRUE, !.remote_baseline = remote])
  /\ UNCHANGED <<env, remote, passed, vetted, repair>>

\* planner, and planning_failure, which ends the run without a cleanup.
PlannerPlans(asks) ==
  /\ Node("planner")
  /\ Returns([Goes("prepare_plan_comment") EXCEPT
                !.status = "active", !.asks = asks, !.step = 0])
  /\ UNCHANGED outside

PlannerFails ==
  /\ Node("planner")
  /\ Returns([Goes("END") EXCEPT !.status = "blocked", !.stage = "planner"])
  /\ UNCHANGED outside

\* prepare_plan_comment and prepare_review_comment: the edge to the node that publishes
\* is taken also when this one blocks.  same: the text is that of the saved intent.
PrepareComment(kind, prepare, publish) ==
  /\ Node(prepare)
  /\ \E same \in BOOLEAN :
       IF ckpt.intent = "none" \/ (same /\ ckpt.intent = kind)
       THEN Returns([Goes(publish) EXCEPT !.status = "active", !.stage = "",
                                          !.intent = kind])
       ELSE Returns([Goes(publish) EXCEPT !.status = "blocked", !.stage = prepare])
  /\ UNCHANGED outside

\* publish_plan and publish_review: the comment is updated in place.
PublishComment(kind, publish, after) ==
  /\ Node(publish)
  /\ IF ckpt.intent # kind
     THEN Returns(Blocks(publish))
     ELSE \/ Saves([Goes(IF ckpt.status = "blocked" THEN "blocked" ELSE after) EXCEPT
                      !.intent = "none"])
          \/ Fails(Blocks(publish))
  /\ UNCHANGED outside

AfterPlan == IF ckpt.asks THEN "awaiting_user_input" ELSE "start_environment"

AwaitingUserInput ==
  /\ Node("awaiting_user_input")
  /\ Returns([Goes("END") EXCEPT !.status = "blocked", !.stage = "awaiting_user_input"])
  /\ UNCHANGED outside

StartEnvironment ==
  /\ Node("start_environment")
  /\ \/ /\ env' = TRUE
        /\ Saves([Goes("prepare_current_step") EXCEPT
                    !.environment_started = TRUE, !.cleanup_stage = ""])
     \/ /\ Fails([StopsAt("environment") EXCEPT
                    !.environment_started = FALSE, !.cleanup_stage = ""])
        /\ UNCHANGED env
  /\ UNCHANGED <<work, remote, passed, vetted, repair>>

-----------------------------------------------------------------------------
(* The steps of the plan *)

\* The nodes that look their step up in the plan.
StepNode(name) == Node(name) /\ ckpt.step < StepCount

NoSuchStep ==
  /\ \E name \in {"prepare_current_step", "isolate_failure", "reviewer",
                   "prepare_checkpoint", "complete_step"} : Node(name)
  /\ ckpt.step >= StepCount
  /\ Raises
  /\ UNCHANGED outside

\* Changes that are there already are archived.
PrepareCurrentStep ==
  /\ StepNode("prepare_current_step")
  /\ ResetTo(work.head)
  /\ Returns([Goes("coder") EXCEPT
                !.status = "active", !.stage = "", !.attempt = 0,
                !.step_baseline = work.head, !.validation = "none", !.review = "none"])
  /\ UNCHANGED <<env, remote, passed, vetted, repair>>

\* reserve_code_repair for the second attempt, and the third.
CoderRefused ==
  /\ Node("coder")
  /\ ckpt.attempt > 0
  /\ Returns(Blocks("repair_budget"))
  /\ UNCHANGED outside

CoderCompletes(tree) ==
  /\ Node("coder")
  /\ work' = [work EXCEPT !.tree = tree]
  /\ Saves([Goes("run_validation") EXCEPT
              !.status = "active", !.stage = "", !.attempt = @ + 1, !.review = "none"])
  /\ UNCHANGED <<env, remote, passed, vetted, repair>>

CoderAsks(tree) ==
  /\ Node("coder")
  /\ work' = [work EXCEPT !.tree = tree]
  /\ Returns([Blocks("awaiting_user_input") EXCEPT !.asks = TRUE])
  /\ UNCHANGED <<env, remote, passed, vetted, repair>>

\* Only a coder that left changes has used up its attempt. The changes are archived,
\* unless that fails.
CoderFails(tree) ==
  /\ Node("coder")
  /\ LET candidate == tree # TreeOf(work.head)
         failed == [StopsAt("coder") EXCEPT !.attempt = IF candidate THEN @ + 1 ELSE @]
     IN  \/ Returns(failed) /\ ResetTo(IF candidate THEN StepBaseline ELSE work.head)
         \/ candidate /\ Fails(failed) /\ work' = [work EXCEPT !.tree = tree]
  /\ UNCHANGED <<env, remote, passed, vetted, repair>>

AfterValidation(result) ==
  CASE result = "success" -> IF ckpt.simplified THEN "prepare_checkpoint" ELSE "reviewer"
    [] result = "environment_failure" -> "blocked"
    [] OTHER -> "isolate_failure"

RunValidation(result) ==
  /\ Node("run_validation")
  /\ Returns([Goes(AfterValidation(result)) EXCEPT !.validation = result,
                !.stage = IF result = "environment_failure" THEN "environment" ELSE @])
  /\ UNCHANGED outside

\* Mutant: one attempt more.
AfterFailedAttemptTooMany == IF ckpt.attempt <= AttemptLimit THEN "coder" ELSE "blocked"

AfterFailedAttempt == IF ckpt.attempt < AttemptLimit THEN "coder" ELSE "blocked"

\* isolate_validation_failure, isolate_review_failure.
IsolateFailure ==
  /\ StepNode("isolate_failure")
  /\ \/ /\ ResetTo(StepBaseline)
        /\ Saves([Goes(AfterFailedAttempt) EXCEPT
                    !.stage = IF ckpt.attempt < AttemptLimit THEN "" ELSE "coder"])
     \/ Fails(Blocks("coder")) /\ UNCHANGED work
  /\ UNCHANGED <<env, remote, passed, vetted, repair>>

Reviewer(result) ==
  /\ StepNode("reviewer")
  /\ Returns(IF result = "review_failure"
             THEN [StopsAt("reviewer") EXCEPT !.review = result]
             ELSE [Goes("prepare_review_comment") EXCEPT !.status = "active", !.review = result])
  /\ UNCHANGED outside

AfterReview == IF ckpt.review = "approved" THEN "prepare_checkpoint" ELSE "isolate_failure"

\* Mutant: the intent is not written ahead.
PrepareCheckpointUnannounced ==
  /\ StepNode("prepare_checkpoint")
  /\ Returns(IF MayIntend("checkpoint", StepBaseline)
             THEN [Goes("complete_step") EXCEPT !.status = "active", !.stage = ""]
             ELSE [Goes("complete_step") EXCEPT !.status = "blocked",
                                                !.stage = "prepare_checkpoint"])
  /\ UNCHANGED outside

\* The edge to complete_step is taken also when this node blocks.
PrepareCheckpoint ==
  /\ StepNode("prepare_checkpoint")
  /\ Returns(IF MayIntend("checkpoint", StepBaseline)
             THEN [Goes("complete_step") EXCEPT !.status = "active", !.stage = "",
                      !.intent = "checkpoint", !.expected = StepBaseline]
             ELSE [Goes("complete_step") EXCEPT !.status = "blocked",
                                                !.stage = "prepare_checkpoint"])
  /\ UNCHANGED outside

\* The revision the step has to be committed on, if any is known.
StepParent == IF ckpt.intent = "checkpoint" THEN ckpt.expected ELSE ckpt.step_baseline

\* What git log --all lists: the history of HEAD, and that of the branch on GitHub as far
\* as the workspace has pushed it.
Logged ==
  {SubSeq(work.head, 1, i) : i \in DOMAIN work.head} \cup
  {SubSeq(remote, 1, i) : i \in DOMAIN remote}

\* The commit that names this operation: this step, on this parent.
IsCheckpoint(revision) ==
  /\ EndsWith(revision, "step")
  /\ Tip(revision).step = ckpt.step /\ Tip(revision).of = StepParent

CheckpointIsHead == ckpt.intent = "checkpoint" /\ IsCheckpoint(work.head)

CheckpointIsAway ==
  /\ ckpt.intent = "checkpoint" /\ ~IsCheckpoint(work.head)
  /\ \E revision \in Logged : IsCheckpoint(revision)

AfterStep(state) ==
  CASE state.status = "blocked" -> "blocked"
    [] state.status # "blocked" /\ state.step >= StepCount -> "prepare_final_review"
    [] OTHER -> "prepare_current_step"

\* commit_step: it adopts the commit an earlier execution made, and makes none when
\* nothing changed.
CompleteStep ==
  /\ StepNode("complete_step")
  /\ LET done ==
           LET s == [ckpt EXCEPT !.step = @ + 1, !.attempt = 0, !.intent = "none",
                                 !.step_baseline = NoRevision]
           IN  [s EXCEPT !.next = AfterStep(s)]
         moved == ~CheckpointIsHead /\ StepParent \notin {work.head, NoRevision}
     IN  \/ /\ ckpt.intent \notin {"none", "checkpoint"}
            /\ Returns(Blocks("complete_step"))
            /\ UNCHANGED work
         \/ /\ ckpt.intent \in {"none", "checkpoint"}
            /\ CASE CheckpointIsHead -> Returns(done) /\ UNCHANGED work
                 [] CheckpointIsAway \/ moved ->
                      Returns(Blocks("complete_step")) /\ UNCHANGED work
                 [] ~CheckpointIsHead /\ ~CheckpointIsAway /\ ~moved /\ ~Dirty ->
                      Returns(done) /\ UNCHANGED work
                 [] OTHER ->
                      \/ /\ work' = [work EXCEPT
                                     !.head = Commit(@, "step", ckpt.step, work.tree, StepParent)]
                         /\ Saves(done)
                      \/ Fails(Blocks("complete_step")) /\ UNCHANGED work
  /\ UNCHANGED <<env, remote, passed, vetted, repair>>

-----------------------------------------------------------------------------
(* The whole plan *)

RouteAfterPrepareFinalReview(status, ci_repair) ==
  CASE status = "blocked" -> "blocked"
    [] status # "blocked" /\ ci_repair -> "final_integration_coder"
    [] OTHER -> "final_validation"

\* The destinations build_graph gives the branch after this node.
DestinationsOfPrepareFinalReview == {"final_validation", "blocked"}

PrepareFinalReview ==
  /\ Node("prepare_final_review")
  /\ Returns(IF Dirty THEN Blocks("prepare_final_review")
             ELSE [Goes(RouteAfterPrepareFinalReview("active", FALSE)) EXCEPT
                     !.status = "active", !.stage = "", !.final_baseline = work.head,
                     !.final_attempt = 0, !.final_validation = "none", !.approved = FALSE])
  /\ UNCHANGED outside

\* The common end of route_after_final_validation and route_after_final_reviewer.
AfterFinalFailure ==
  IF ckpt.final_attempt = 0 /\ ~(ckpt.simplified /\ ckpt.attempt + ckpt.final_attempt >= 2)
  THEN "final_integration_coder"
  ELSE "isolate_final_failure"

AfterFinalValidation(result) ==
  CASE result = "success" -> "final_reviewer"
    [] result = "environment_failure" -> "blocked"
    [] OTHER -> AfterFinalFailure

FinalValidation(result) ==
  /\ Node("final_validation")
  /\ passed' = IF result = "success" THEN passed \cup {work.tree} ELSE passed
  /\ Returns([Goes(AfterFinalValidation(result)) EXCEPT !.final_validation = result,
                !.stage = CASE result = "success" -> ""
                            [] result = "failure" -> @
                            [] OTHER -> "environment"])
  /\ UNCHANGED <<work, env, remote, vetted, repair>>

FinalCoderRefused ==
  /\ Node("final_integration_coder")
  /\ Returns(Blocks("repair_budget"))
  /\ UNCHANGED outside

\* Mutant: the attempt is not counted.
FinalCoderUncounted(tree) ==
  /\ Node("final_integration_coder")
  /\ work' = [work EXCEPT !.tree = tree]
  /\ Saves([Goes("final_validation") EXCEPT
              !.status = "active", !.stage = "", !.approved = FALSE])
  /\ UNCHANGED <<env, remote, passed, vetted, repair>>

\* Mutant: the repair goes to the reviewer unvalidated.
FinalCoderUnvalidated(tree) ==
  /\ Node("final_integration_coder")
  /\ work' = [work EXCEPT !.tree = tree]
  /\ Saves([Goes("final_reviewer") EXCEPT
              !.status = "active", !.stage = "", !.final_attempt = @ + 1,
              !.approved = FALSE])
  /\ UNCHANGED <<env, remote, passed, vetted, repair>>

FinalCoderCompletes(tree) ==
  /\ Node("final_integration_coder")
  /\ work' = [work EXCEPT !.tree = tree]
  /\ Saves([Goes("final_validation") EXCEPT
              !.status = "active", !.stage = "", !.final_attempt = @ + 1,
              !.approved = FALSE])
  /\ UNCHANGED <<env, remote, passed, vetted, repair>>

FinalCoderAsks(tree) ==
  /\ Node("final_integration_coder")
  /\ work' = [work EXCEPT !.tree = tree]
  /\ Returns([Blocks("awaiting_user_input") EXCEPT !.asks = TRUE])
  /\ UNCHANGED <<env, remote, passed, vetted, repair>>

FinalCoderFails(tree) ==
  /\ Node("final_integration_coder")
  /\ LET candidate == tree # TreeOf(work.head)
         failed == StopsAt("final_integration_coder")
     IN  \/ Returns(failed) /\ ResetTo(IF candidate THEN ckpt.final_baseline ELSE work.head)
         \/ candidate /\ Fails(failed) /\ work' = [work EXCEPT !.tree = tree]
  /\ UNCHANGED <<env, remote, passed, vetted, repair>>

FinalReviewer(result) ==
  /\ Node("final_reviewer")
  /\ vetted' = IF result = "approved" THEN vetted \cup {work.tree} ELSE vetted
  /\ Returns(CASE result = "approved" ->
                    [Goes("prepare_finalize_history") EXCEPT !.status = "active",
                       !.stage = "", !.approved = TRUE]
               [] result = "changes_required" ->
                    [Goes(AfterFinalFailure) EXCEPT !.status = "active", !.stage = "",
                                                    !.approved = FALSE]
               [] OTHER -> [StopsAt("final_reviewer") EXCEPT !.approved = FALSE])
  /\ UNCHANGED <<work, env, remote, passed, repair>>

\* isolate_final_validation_failure, isolate_final_review_failure.
IsolateFinalFailure ==
  /\ Node("isolate_final_failure")
  /\ \/ /\ ResetTo(ckpt.final_baseline)
        /\ Saves(IF ckpt.final_attempt < FinalLimit
                 THEN Goes("final_integration_coder")
                 ELSE StopsAt("final_integration_coder"))
     \/ Fails(Blocks("final_integration_coder")) /\ UNCHANGED work
  /\ UNCHANGED <<env, remote, passed, vetted, repair>>

PrepareFinalizeHistory ==
  /\ Node("prepare_finalize_history")
  /\ Returns(IF MayIntend("final", ckpt.final_baseline)
             THEN [Goes("finalize_history") EXCEPT !.status = "active", !.stage = "",
                      !.intent = "final", !.expected = ckpt.final_baseline]
             ELSE Blocks("prepare_finalize_history"))
  /\ UNCHANGED outside

\* finalize_checkpoint_history puts the final commit on the baseline of the issue, or
\* keeps the commits of the steps and adds one if the files changed since.
FinalParent == IF ckpt.simplified THEN work.head ELSE ckpt.issue_baseline

IsFinal(revision) == EndsWith(revision, "final") /\ Tip(revision).of = ckpt.expected

FinalIsHead == IsFinal(work.head)

FinalIsAway == ~FinalIsHead /\ \E revision \in Logged : IsFinal(revision)

Finalized ==
  IF ckpt.simplified /\ ~Dirty THEN work.head
  ELSE Commit(FinalParent, "final", 0, work.tree, ckpt.expected)

FinalizeHistory ==
  /\ Node("finalize_history")
  /\ LET done(revision) == [Goes("prepare_push_branch") EXCEPT
                              !.intent = "none", !.final_commit = revision, !.stage = ""]
         nothing == work.tree = TreeOf(ckpt.issue_baseline)
         moved == \/ FinalIsAway
                  \/ /\ work.head # ckpt.expected
                     /\ ckpt.simplified \/ work.head # ckpt.issue_baseline
     IN  CASE ckpt.intent # "final" -> Returns(Blocks("finalize_history")) /\ UNCHANGED work
           [] ckpt.intent = "final" /\ FinalIsHead ->
                Returns(done(work.head)) /\ UNCHANGED work
           [] ckpt.intent = "final" /\ ~FinalIsHead /\ (moved \/ (nothing /\ Dirty)) ->
                Returns(Blocks("finalize_history")) /\ UNCHANGED work
           [] ckpt.intent = "final" /\ ~FinalIsHead /\ ~moved /\ nothing /\ ~Dirty ->
                /\ UNCHANGED work
                /\ Returns(IF ckpt.approved /\ ckpt.final_validation = "success"
                           THEN [Goes("cleanup") EXCEPT !.status = "completed", !.stage = "",
                                   !.intent = "none", !.no_change = TRUE]
                           ELSE Blocks("finalize_history"))
           [] OTHER ->
                \/ work' = [work EXCEPT !.head = Finalized] /\ Saves(done(Finalized))
                \/ Fails(Blocks("finalize_history")) /\ UNCHANGED work
  /\ UNCHANGED <<env, remote, passed, vetted, repair>>

-----------------------------------------------------------------------------
(* Publication *)

\* Mutant: the branch is pushed over whatever is there.
PreparePushOverAnything ==
  /\ Node("prepare_push_branch")
  /\ Returns([Goes("push_branch") EXCEPT !.status = "active", !.stage = "",
                                         !.intent = "push", !.expected = remote])
  /\ UNCHANGED outside

PreparePushBranch ==
  /\ Node("prepare_push_branch")
  /\ \/ Returns(IF remote \in {ckpt.final_commit, ckpt.remote_baseline}
                THEN [Goes("push_branch") EXCEPT !.status = "active", !.stage = "",
                                                 !.intent = "push", !.expected = remote]
                ELSE Blocks("prepare_push_branch"))
     \/ Fails(Blocks("prepare_push_branch"))
  /\ UNCHANGED outside

\* The push has the lease of the revision that was expected; a failure after it leaves
\* the branch pushed.
PushBranch ==
  /\ Node("push_branch")
  /\ LET done == [Goes("prepare_draft_pr") EXCEPT !.intent = "none", !.stage = ""]
         pushed == remote = ckpt.final_commit
     IN  CASE ckpt.intent = "push" /\ pushed -> Returns(done) /\ UNCHANGED remote
           [] ckpt.intent = "push" /\ ~pushed
                /\ remote = ckpt.expected /\ work.head = ckpt.final_commit ->
                \/ /\ remote' = ckpt.final_commit
                   /\ Saves(done) \/ Fails(Blocks("push_branch"))
                \/ Fails(Blocks("push_branch")) /\ UNCHANGED remote
           [] OTHER -> Returns(Blocks("push_branch")) /\ UNCHANGED remote
  /\ UNCHANGED <<work, env, passed, vetted, repair>>

PrepareDraftPR ==
  /\ Node("prepare_draft_pr")
  /\ Returns([Goes("create_draft_pr") EXCEPT !.status = "active", !.stage = "",
                                             !.intent = "pr"])
  /\ UNCHANGED outside

\* The open pull request of the branch is updated, or one is created.
CreateDraftPR ==
  /\ Node("create_draft_pr")
  /\ IF ckpt.intent # "pr"
     THEN Returns(Blocks("prepare_draft_pr"))
     ELSE \/ Returns([Goes("cleanup") EXCEPT !.status = "completed", !.stage = "",
                                             !.intent = "none", !.pr = TRUE])
          \/ Fails(Blocks("create_draft_pr"))
  /\ UNCHANGED outside

Blocked ==
  /\ Node("blocked")
  /\ Returns([Goes("cleanup") EXCEPT !.status = "blocked"])
  /\ UNCHANGED outside

AfterCleanup ==
  LET stopped == Goes("END")
  IN  CASE ckpt.cleanup_stage # "" ->
             [stopped EXCEPT !.status = "blocked", !.stage = ckpt.cleanup_stage]
        [] ckpt.cleanup_stage = "" /\ (ckpt.pr \/ ckpt.no_change) ->
             [stopped EXCEPT !.status = "completed", !.stage = ""]
        [] OTHER -> stopped

Cleanup ==
  /\ Node("cleanup")
  /\ \/ /\ env' = IF ckpt.environment_started THEN FALSE ELSE env
        /\ Saves(AfterCleanup)
     \/ /\ ckpt.environment_started
        /\ Fails([Goes("END") EXCEPT !.status = "blocked", !.stage = "cleanup",
                                     !.cleanup_stage = ckpt.stage])
        /\ UNCHANGED env
  /\ UNCHANGED <<work, remote, passed, vetted, repair>>

Ends ==
  /\ Node("END")
  /\ running' = FALSE
  /\ UNCHANGED <<ckpt, faults, outside>>

-----------------------------------------------------------------------------
(* Processes, operators, and others who push *)

Crashes ==
  /\ running
  /\ Fault
  /\ running' = FALSE
  /\ UNCHANGED <<ckpt, outside>>

\* A coder that dies leaves what it wrote.
CoderDies(tree) ==
  /\ Node("coder") \/ Node("final_integration_coder")
  /\ work' = [work EXCEPT !.tree = tree]
  /\ DiesUnsaved
  /\ UNCHANGED <<env, remote, passed, vetted, repair>>

\* The node after the one resume_from_for_stage names, for update_state goes on after it:
\* where the route of that one leads, if it has one.
ResumeNode ==
  [awaiting_user_input |-> "planner", planner |-> "planner",
   environment |-> "prepare_workspace", prepare_plan_comment |-> "publish_plan",
   publish_plan |-> AfterPlan, coder |-> "prepare_current_step",
   reviewer |-> AfterValidation(ckpt.validation),
   prepare_review_comment |-> "publish_review", publish_review |-> AfterReview,
   prepare_checkpoint |-> "complete_step", complete_step |-> "complete_step",
   prepare_final_review |-> AfterStep([ckpt EXCEPT !.status = "active"]),
   final_integration_coder |-> "final_validation",
   final_reviewer |-> AfterFinalValidation(ckpt.final_validation),
   prepare_finalize_history |-> "finalize_history",
   finalize_history |-> "finalize_history",
   prepare_push_branch |-> IF ckpt.no_change THEN "cleanup" ELSE "prepare_push_branch",
   push_branch |-> "push_branch",
   prepare_draft_pr |-> "prepare_draft_pr", create_draft_pr |-> "create_draft_pr",
   cleanup |-> "cleanup"]

\* run_cli --resume of a blocked workflow.
ResumesBlocked ==
  /\ ~running
  /\ ckpt.status = "blocked"
  /\ ckpt.stage \in DOMAIN ResumeNode
  /\ ckpt.stage = "coder" => ckpt.attempt < AttemptLimit
  /\ ckpt.stage = "final_integration_coder" => ckpt.final_attempt < FinalLimit
  /\ ckpt.stage \in {"awaiting_user_input", "planner", "environment"} =>
       Len(work.head) <= MaxCommits + 1
  /\ ckpt' = LET replans == ckpt.stage = "awaiting_user_input"
             IN  [ckpt EXCEPT !.status = "active", !.stage = "",
                    !.next = ResumeNode[ckpt.stage],
                    !.asks = IF replans THEN FALSE ELSE @, !.step = IF replans THEN 0 ELSE @]
  /\ running' = TRUE
  /\ UNCHANGED <<faults, outside>>

\* run_cli --resume of a workflow whose process died: not over a coder's changes.
ResumesInterrupted ==
  /\ ~running
  /\ ckpt.status = "active"
  /\ ckpt.next # "END"
  /\ ckpt.next \in {"coder", "final_integration_coder"} => ~Dirty
  /\ running' = TRUE
  /\ UNCHANGED <<ckpt, faults, outside>>

\* run_cli without --resume: the job is run again from the start, in the workspace that
\* is there.
StartsOver ==
  /\ ~running
  /\ Len(work.head) <= MaxCommits + 1
  /\ Fault
  /\ ckpt' = InitialState(ckpt.simplified)
  /\ running' = TRUE
  /\ UNCHANGED outside

\* run_cli --resume --ci-repair: update_state takes the branch after prepare_final_review,
\* and raises KeyError for a destination the branch does not have.
RepairAsked ==
  /\ ~running
  /\ ckpt.pr
  /\ ckpt.status = "completed"
  /\ repair = "none"
  /\ LET next == RouteAfterPrepareFinalReview("active", TRUE)
     IN  IF next \in DestinationsOfPrepareFinalReview
         THEN /\ ckpt' = [ckpt EXCEPT !.status = "active", !.final_attempt = 0,
                                      !.approved = FALSE, !.stage = "", !.next = next]
              /\ running' = TRUE
              /\ repair' = "coding"
         ELSE repair' = "failed" /\ UNCHANGED <<ckpt, running>>
  /\ UNCHANGED <<faults, work, env, remote, passed, vetted>>

\* An operator looks at the changes of a coder that died, as run_cli asks, and discards
\* them.
OperatorDiscards ==
  /\ ~running
  /\ ckpt.status = "active"
  /\ ckpt.next \in {"coder", "final_integration_coder"}
  /\ Dirty
  /\ ResetTo(work.head)
  /\ UNCHANGED <<ckpt, running, faults, env, remote, passed, vetted, repair>>

SomebodyPushes ==
  /\ Fault
  /\ remote' = Foreign(remote)
  /\ UNCHANGED <<ckpt, running, work, env, passed, vetted, repair>>

-----------------------------------------------------------------------------
PlanningStep ==
  \/ PrepareWorkspace
  \/ PlannerFails \/ \E asks \in BOOLEAN : PlannerPlans(asks)
  \/ PrepareComment("plan", "prepare_plan_comment", "publish_plan")
  \/ PublishComment("plan", "publish_plan", AfterPlan)
  \/ AwaitingUserInput
  \/ StartEnvironment

ImplementationStep ==
  \/ NoSuchStep
  \/ PrepareCurrentStep
  \/ CoderRefused
  \/ \E tree \in Trees : CoderCompletes(tree) \/ CoderAsks(tree) \/ CoderFails(tree)
  \/ \E result \in ValidationResults : RunValidation(result)
  \/ IsolateFailure
  \/ \E result \in {"approved", "changes_required", "review_failure"} : Reviewer(result)
  \/ PrepareComment("review", "prepare_review_comment", "publish_review")
  \/ PublishComment("review", "publish_review", AfterReview)
  \/ PrepareCheckpoint
  \/ CompleteStep

IntegrationStep ==
  \/ PrepareFinalReview
  \/ \E result \in ValidationResults : FinalValidation(result)
  \/ FinalCoderRefused
  \/ \E tree \in Trees :
       FinalCoderCompletes(tree) \/ FinalCoderAsks(tree) \/ FinalCoderFails(tree)
  \/ \E result \in {"approved", "changes_required", "review_failure"} : FinalReviewer(result)
  \/ IsolateFinalFailure
  \/ PrepareFinalizeHistory
  \/ FinalizeHistory

PublicationStep ==
  \/ PreparePushBranch \/ PushBranch
  \/ PrepareDraftPR \/ CreateDraftPR
  \/ Blocked \/ Cleanup \/ Ends

NodeStep == PlanningStep \/ ImplementationStep \/ IntegrationStep \/ PublicationStep

WorkflowNext ==
  \/ NodeStep
  \/ Crashes \/ \E tree \in Trees : CoderDies(tree)
  \/ ResumesBlocked \/ ResumesInterrupted \/ StartsOver \/ RepairAsked
  \/ OperatorDiscards \/ SomebodyPushes

WorkflowSpec == WorkflowInit /\ [][WorkflowNext]_workflowVars

\* A process that runs executes the next node. Nobody has to resume a workflow.
LiveWorkflowSpec == WorkflowSpec /\ WF_workflowVars(NodeStep)

-----------------------------------------------------------------------------
(* Properties that hold *)

Own(revision) == revision # NoRevision /\ Tip(revision).kind # "foreign"

\* What is pushed to the issue branch is, file for file, what the reviewer of the whole
\* plan approved, by whatever stages the workflow was blocked, resumed or started over;
\* and what the validation of the whole plan passed, unless the stage of a failed cleanup
\* is left in the checkpoint (route_after_final_validation, route_after_final_reviewer,
\* resume_from_for_stage, finalize_checkpoint_history; cleanup_node).
PushesAreApproved ==
  [][remote' # remote /\ Own(remote') =>
       /\ TreeOf(remote') \in vetted
       /\ ckpt.cleanup_stage = "" => TreeOf(remote') \in passed]_workflowVars

\* HEAD of the workspace is the revision the checkpoint names for the stage that is next,
\* or the commit that its prepared intent announces: so a process that dies after a
\* commit is found out by the next, and none is made twice or lost; and until
\* there is a pull request, what was pushed is known to be its own (side_effects.py,
\* commit_changes, finalize_checkpoint_history). The stage of a failed cleanup that is
\* left in the checkpoint can send a workflow back to a stage it has passed.
EffectsAreAnnounced ==
  /\ ckpt.cleanup_stage = "" =>
       /\ ckpt.next \in StepNodes /\ ckpt.step < StepCount =>
            work.head = StepBaseline \/ CheckpointIsHead
       /\ ckpt.next \in PlanNodes =>
            work.head = ckpt.final_baseline \/ (ckpt.intent = "final" /\ FinalIsHead)
       /\ ckpt.next \in {"prepare_push_branch", "push_branch"} => work.head = ckpt.final_commit
  /\ ckpt.prepared /\ ~ckpt.pr /\ Own(remote) =>
       remote \in {ckpt.final_commit, ckpt.remote_baseline}

\* A commit somebody else pushed to the issue branch is never overwritten, however old
\* the revision the push was prepared for (prepare_push_branch_node, push_branch).
ForeignCommitsSurvive ==
  [][\A i \in DOMAIN remote :
       remote[i].kind = "foreign" => i \in DOMAIN remote' /\ remote'[i] = remote[i]]_workflowVars

\* Every run comes to an end: the loops of coding, validation and review are bounded by
\* the attempts in the checkpoint (route_after_failed_attempt,
\* route_after_final_failed_attempt).
RunsEnd == running ~> ~running

-----------------------------------------------------------------------------
(* What documents and tests say, and the code does not do *)

\* The failures of CI are fed to the coder (docs/architecture.md).
RepairsReachTheCoder == repair # "failed"

\* Nothing is published that did not pass the validation of the whole plan
\* (docs/architecture.md).
PublishedWasValidated == Own(remote) => TreeOf(remote) \in passed

=============================================================================
