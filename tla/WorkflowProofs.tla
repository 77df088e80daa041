----------------------------- MODULE WorkflowProofs -----------------------------
(***************************************************************************)
(* Proofs about Workflow, for plans of any length, any limits of attempts,  *)
(* and any number of contents, commits and faults.                          *)
(***************************************************************************)
EXTENDS Workflow, TLAPS

-----------------------------------------------------------------------------
(* The inductive invariant *)

\* The stages at which the workflow is resumed with the whole plan implemented.
PlanStages ==
  {"final_integration_coder", "final_reviewer", "prepare_finalize_history",
   "finalize_history"}

\* There is a workspace with a HEAD once it was prepared, and a baseline for the whole
\* plan once that was reached; a workflow that was not prepared knows no revision.
PreparedInv ==
  /\ ckpt.next # "prepare_workspace" => ckpt.prepared
  /\ ckpt.prepared => work.cloned
  /\ work.cloned => work.head # NoRevision
  /\ ~ckpt.prepared => ckpt.status = "active"
  /\ ~ckpt.prepared =>
       {ckpt.remote_baseline, ckpt.step_baseline, ckpt.final_baseline,
        ckpt.final_commit, ckpt.expected} \subseteq {NoRevision}
  /\ ckpt.next \in PlanNodes \/ {ckpt.stage, ckpt.cleanup_stage} \cap PlanStages # {} =>
       ckpt.final_baseline # NoRevision

\* The commits of others in one revision are in the other, where they were.
KeepsForeign(old, new) ==
  \A i \in DOMAIN old : old[i].kind = "foreign" => i \in DOMAIN new /\ new[i] = old[i]

SameForeign(g, h) == KeepsForeign(g, h) /\ KeepsForeign(h, g)

\* Of the commits of others, every revision the workflow works with has those it started
\* from, and no more.
WorksWith ==
  {ckpt.remote_baseline, ckpt.step_baseline, ckpt.final_baseline, ckpt.final_commit,
   ckpt.expected, work.head}

ForeignInv ==
  ckpt.prepared =>
    \A h \in WorksWith : h = NoRevision \/ SameForeign(h, ckpt.issue_baseline)

-----------------------------------------------------------------------------
(* What a step does *)

\* The steps that are not of a node.
ProcessStep ==
  \/ Crashes \/ \E tree \in Trees : CoderDies(tree)
  \/ ResumesBlocked \/ ResumesInterrupted \/ StartsOver \/ RepairAsked
  \/ OperatorDiscards \/ SomebodyPushes

\* Checkpoint and workspace are records of the fields they have at first.
Shape ==
  /\ DOMAIN ckpt = DOMAIN InitialState(TRUE)
  /\ DOMAIN work = {"cloned", "head", "tree"}

\* The parts of the type.
NamesOK ==
  /\ ckpt.next \in Nodes /\ ckpt.status \in {"active", "blocked", "completed"}
  /\ ckpt.stage \in Stages /\ ckpt.cleanup_stage \in Stages

Steps == 0 .. StepCount
Attempts == 0 .. AttemptLimit
FinalAttempts == 0 .. FinalLimit

CountersOK ==
  /\ ckpt.step \in Steps /\ ckpt.attempt \in Attempts /\ ckpt.final_attempt \in FinalAttempts
  /\ ckpt.next = "coder" => ckpt.attempt < AttemptLimit
  /\ ckpt.next = "final_integration_coder" => ckpt.final_attempt < FinalLimit

ResultsOK ==
  /\ ckpt.review \in {"none", "approved", "changes_required", "review_failure"}
  /\ ckpt.validation \in ValidationResults \cup {"none"}
  /\ ckpt.final_validation \in ValidationResults \cup {"none"}
  /\ ckpt.intent \in Intents

FlagsOK ==
  /\ running \in BOOLEAN /\ env \in BOOLEAN
  /\ ckpt.simplified \in BOOLEAN /\ ckpt.prepared \in BOOLEAN /\ ckpt.asks \in BOOLEAN
  /\ ckpt.approved \in BOOLEAN /\ ckpt.pr \in BOOLEAN /\ ckpt.no_change \in BOOLEAN
  /\ ckpt.environment_started \in BOOLEAN

SpaceOK ==
  /\ work.cloned \in BOOLEAN /\ work.tree \in Trees
  /\ passed \subseteq Trees /\ vetted \subseteq Trees
  /\ repair \in {"none", "coding", "failed"}

RevisionsOK == \A h \in Known : IsRevision(h)

\* The contents a workspace can be reset to.
TreesOK ==
  /\ TreeOf(Base) \in Trees /\ TreeOf(remote) \in Trees
  /\ TreeOf(work.head) \in Trees /\ TreeOf(ckpt.step_baseline) \in Trees
  /\ TreeOf(ckpt.final_baseline) \in Trees

\* The type, with what it needs to be inductive.
TypeInv ==
  /\ Shape /\ NamesOK /\ CountersOK /\ ResultsOK /\ FlagsOK /\ SpaceOK /\ RevisionsOK
  /\ faults \in 0 .. MaxFaults

\* The provers look the fields of a record up here.
Fields ==
  /\ "next" \in DOMAIN ckpt /\ "status" \in DOMAIN ckpt /\ "stage" \in DOMAIN ckpt
  /\ "cleanup_stage" \in DOMAIN ckpt /\ "simplified" \in DOMAIN ckpt
  /\ "prepared" \in DOMAIN ckpt /\ "issue_baseline" \in DOMAIN ckpt
  /\ "remote_baseline" \in DOMAIN ckpt /\ "asks" \in DOMAIN ckpt
  /\ "step" \in DOMAIN ckpt /\ "attempt" \in DOMAIN ckpt
  /\ "step_baseline" \in DOMAIN ckpt /\ "validation" \in DOMAIN ckpt
  /\ "review" \in DOMAIN ckpt /\ "final_attempt" \in DOMAIN ckpt
  /\ "final_baseline" \in DOMAIN ckpt /\ "final_validation" \in DOMAIN ckpt
  /\ "approved" \in DOMAIN ckpt /\ "final_commit" \in DOMAIN ckpt
  /\ "intent" \in DOMAIN ckpt /\ "expected" \in DOMAIN ckpt /\ "pr" \in DOMAIN ckpt
  /\ "no_change" \in DOMAIN ckpt /\ "environment_started" \in DOMAIN ckpt
  /\ "cloned" \in DOMAIN work /\ "head" \in DOMAIN work /\ "tree" \in DOMAIN work

LEMMA RecordFields == ASSUME Shape PROVE Fields
  BY DEF Shape, Fields, InitialState

LEMMA NodeNames ==
  /\ "prepare_workspace" \in Nodes /\ "planner" \in Nodes
  /\ "prepare_plan_comment" \in Nodes /\ "publish_plan" \in Nodes
  /\ "awaiting_user_input" \in Nodes /\ "start_environment" \in Nodes
  /\ "prepare_current_step" \in Nodes /\ "coder" \in Nodes /\ "run_validation" \in Nodes
  /\ "isolate_failure" \in Nodes /\ "reviewer" \in Nodes
  /\ "prepare_review_comment" \in Nodes /\ "publish_review" \in Nodes
  /\ "prepare_checkpoint" \in Nodes /\ "complete_step" \in Nodes
  /\ "prepare_final_review" \in Nodes /\ "final_validation" \in Nodes
  /\ "final_integration_coder" \in Nodes /\ "isolate_final_failure" \in Nodes
  /\ "final_reviewer" \in Nodes /\ "prepare_finalize_history" \in Nodes
  /\ "finalize_history" \in Nodes /\ "prepare_push_branch" \in Nodes
  /\ "push_branch" \in Nodes /\ "prepare_draft_pr" \in Nodes
  /\ "create_draft_pr" \in Nodes /\ "blocked" \in Nodes /\ "cleanup" \in Nodes
  /\ "END" \in Nodes
  BY DEF Nodes

LEMMA StageNames ==
  /\ "prepare_workspace" \in Stages /\ "planner" \in Stages
  /\ "prepare_plan_comment" \in Stages /\ "publish_plan" \in Stages
  /\ "awaiting_user_input" \in Stages /\ "start_environment" \in Stages
  /\ "prepare_current_step" \in Stages /\ "coder" \in Stages
  /\ "run_validation" \in Stages /\ "isolate_failure" \in Stages
  /\ "reviewer" \in Stages /\ "prepare_review_comment" \in Stages
  /\ "publish_review" \in Stages /\ "prepare_checkpoint" \in Stages
  /\ "complete_step" \in Stages /\ "prepare_final_review" \in Stages
  /\ "final_validation" \in Stages /\ "final_integration_coder" \in Stages
  /\ "isolate_final_failure" \in Stages /\ "final_reviewer" \in Stages
  /\ "prepare_finalize_history" \in Stages /\ "finalize_history" \in Stages
  /\ "prepare_push_branch" \in Stages /\ "push_branch" \in Stages
  /\ "prepare_draft_pr" \in Stages /\ "create_draft_pr" \in Stages
  /\ "blocked" \in Stages /\ "cleanup" \in Stages /\ "END" \in Stages /\ "" \in Stages
  /\ "environment" \in Stages /\ "repair_budget" \in Stages
  BY NodeNames DEF Stages

LEMMA LimitsArePositive ==
  ASSUME ckpt.simplified \in BOOLEAN
  PROVE  AttemptLimit \in Nat \ {0} /\ FinalLimit \in Nat \ {0}
  BY WorkflowAssumption DEF AttemptLimit, FinalLimit

LEMMA InitialFields ==
  ASSUME NEW simplified
  PROVE  /\ DOMAIN InitialState(simplified) = DOMAIN InitialState(TRUE)
         /\ InitialState(simplified).simplified = simplified
  BY DEF InitialState

-----------------------------------------------------------------------------
(* Where a workflow is resumed *)

\* Where a stage is resumed.
LEMMA ResumesAt ==
  ASSUME Fields, NEW stage \in DOMAIN ResumeNode
  PROVE  \/ stage \in {"awaiting_user_input", "planner"} /\ ResumeNode[stage] = "planner"
         \/ stage = "environment" /\ ResumeNode[stage] = "prepare_workspace"
         \/ stage = "prepare_plan_comment" /\ ResumeNode[stage] = "publish_plan"
         \/ stage = "publish_plan" /\ ResumeNode[stage] = AfterPlan
         \/ stage = "coder" /\ ResumeNode[stage] = "prepare_current_step"
         \/ stage = "reviewer" /\ ResumeNode[stage] = AfterValidation(ckpt.validation)
         \/ stage = "prepare_review_comment" /\ ResumeNode[stage] = "publish_review"
         \/ stage = "publish_review" /\ ResumeNode[stage] = AfterReview
         \/ /\ stage \in {"prepare_checkpoint", "complete_step"}
            /\ ResumeNode[stage] = "complete_step"
         \/ /\ stage = "prepare_final_review"
            /\ ResumeNode[stage] = IF ckpt.step >= StepCount THEN "prepare_final_review"
                                   ELSE "prepare_current_step"
         \/ stage = "final_integration_coder" /\ ResumeNode[stage] = "final_validation"
         \/ /\ stage = "final_reviewer"
            /\ ResumeNode[stage] = AfterFinalValidation(ckpt.final_validation)
         \/ /\ stage \in {"prepare_finalize_history", "finalize_history"}
            /\ ResumeNode[stage] = "finalize_history"
         \/ /\ stage = "prepare_push_branch"
            /\ ResumeNode[stage] = IF ckpt.no_change THEN "cleanup" ELSE "prepare_push_branch"
         \/ /\ stage \in {"push_branch", "prepare_draft_pr", "create_draft_pr", "cleanup"}
            /\ ResumeNode[stage] = stage
  <1>1. AfterStep([ckpt EXCEPT !.status = "active"]) =
          IF ckpt.step >= StepCount THEN "prepare_final_review" ELSE "prepare_current_step"
    BY DEF AfterStep, Fields
  <1>2. QED BY <1>1 DEF ResumeNode

LEMMA ResumesAtNoCoder ==
  ASSUME Fields, NEW stage \in DOMAIN ResumeNode
  PROVE  /\ ResumeNode[stage] # "coder"
         /\ ResumeNode[stage] = "final_integration_coder" => ckpt.final_attempt = 0
  BY ResumesAt DEF AfterPlan, AfterValidation, AfterReview, AfterFinalValidation, AfterFinalFailure

LEMMA ResumesPlan ==
  ASSUME Fields, NEW stage \in DOMAIN ResumeNode, ResumeNode[stage] \in PlanNodes
  PROVE  stage \in PlanStages
  BY ResumesAt
     DEF AfterPlan, AfterValidation, AfterReview, AfterFinalValidation, AfterFinalFailure,
         PlanNodes, PlanStages

LEMMA ResumeNodes ==
  ASSUME Fields
  PROVE  \A stage \in DOMAIN ResumeNode : ResumeNode[stage] \in Nodes
  BY ResumesAt, NodeNames
     DEF AfterPlan, AfterValidation, AfterReview, AfterFinalValidation, AfterFinalFailure

-----------------------------------------------------------------------------
(* What each node does *)

\* The fields that may change.
Only(fields) ==
  /\ DOMAIN ckpt' = DOMAIN ckpt
  /\ \A f \in DOMAIN ckpt \ fields : ckpt'[f] = ckpt[f]

Moves(node, status, stage) == ckpt'.next = node /\ ckpt'.status = status /\ ckpt'.stage = stage

BlockedAt(stage) == Moves("blocked", "blocked", stage) /\ Only({"next", "status", "stage"})

StoppedAt(stage) == Moves("blocked", ckpt.status, stage) /\ Only({"next", "stage"})

HeadIs(revision) ==
  work'.cloned = work.cloned /\ work'.head = revision /\ work'.tree = TreeOf(revision)

\* The HEAD of a workspace that is prepared.
Local ==
  CASE work.cloned -> work.head
    [] ~work.cloned /\ remote # NoRevision -> remote
    [] OTHER -> Base

\* The state commit_step returns when the step is done.
StepDone ==
  LET s == [ckpt EXCEPT !.step = @ + 1, !.attempt = 0, !.intent = "none",
                        !.step_baseline = NoRevision]
  IN  [s EXCEPT !.next = AfterStep(s)]

AfterStepDone ==
  IF ckpt.status = "blocked" THEN "blocked"
  ELSE IF ckpt.step + 1 >= StepCount THEN "prepare_final_review" ELSE "prepare_current_step"

StepCommit == Commit(work.head, "step", ckpt.step, work.tree, StepParent)

StepCommitted ==
  /\ CheckpointIsHead \/ StepParent \in {work.head, NoRevision}
  /\ \/ work' = work /\ (CheckpointIsHead \/ ~Dirty)
     \/ ~CheckpointIsHead /\ Dirty /\ work' = [work EXCEPT !.head = StepCommit]

\* The state finalize_history returns with the final commit.
FinalDone(revision) ==
  [Goes("prepare_push_branch") EXCEPT !.intent = "none", !.final_commit = revision, !.stage = ""]

FinalCommitted ==
  /\ ckpt.intent = "final" /\ ~FinalIsHead
  /\ work.head = ckpt.expected \/ (~ckpt.simplified /\ work.head = ckpt.issue_baseline)
  /\ work' = [work EXCEPT !.head = Finalized]

Pushed ==
  /\ ckpt.intent = "push" /\ remote = ckpt.expected /\ work.head = ckpt.final_commit
  /\ remote' = ckpt.final_commit

LEMMA ResetIs == ASSUME Fields, NEW revision, ResetTo(revision) PROVE HeadIs(revision)
  BY DEF Fields, ResetTo, HeadIs

LEMMA BlocksFields ==
  ASSUME Fields, NEW stage, ckpt' = Blocks(stage)
  PROVE  BlockedAt(stage)
  <1>1. Only({"next", "status", "stage"})
    BY DEF Fields, Blocks, Only
  <1>2. Moves("blocked", "blocked", stage)
    BY DEF Fields, Blocks, Moves
  <1>3. QED BY <1>1, <1>2 DEF BlockedAt

LEMMA StopsAtFields ==
  ASSUME Fields, NEW stage, ckpt' = StopsAt(stage)
  PROVE  StoppedAt(stage)
  <1>1. Only({"next", "stage"})
    BY DEF Fields, StopsAt, Only
  <1>2. Moves("blocked", ckpt.status, stage)
    BY DEF Fields, StopsAt, Moves
  <1>3. QED BY <1>1, <1>2 DEF StoppedAt

LEMMA PrepareWorkspaceDoes ==
  ASSUME Fields, PrepareWorkspace
  PROVE  /\ ckpt.next = "prepare_workspace" /\ UNCHANGED <<env, remote, passed, vetted, repair>>
         /\ work'.cloned /\ work'.head = Local
         /\ work'.tree = IF work.cloned THEN work.tree ELSE TreeOf(Local)
         /\ \/ UNCHANGED ckpt
            \/ /\ ckpt'.next = "planner" /\ ckpt'.prepared = TRUE /\ ckpt'.remote_baseline = remote
               /\ ckpt'.issue_baseline = (IF ckpt.prepared THEN ckpt.issue_baseline ELSE Local)
               /\ Only({"next", "prepared", "remote_baseline", "issue_baseline"})
               /\ remote \in {NoRevision, Local} /\ ckpt.remote_baseline \in {NoRevision, remote}
  <1>1. ASSUME ckpt' = [Goes("planner") EXCEPT !.issue_baseline = IF ckpt.prepared THEN @
                        ELSE Local, !.prepared = TRUE, !.remote_baseline = remote]
       PROVE  /\ ckpt'.next = "planner" /\ ckpt'.prepared = TRUE
              /\ ckpt'.remote_baseline = remote
              /\ ckpt'.issue_baseline = (IF ckpt.prepared THEN ckpt.issue_baseline ELSE Local)
              /\ Only({"next", "prepared", "remote_baseline", "issue_baseline"})
    BY <1>1 DEF Fields, Only, Goes
  <1>2. QED BY <1>1 DEF PrepareWorkspace, Local, Saves, Returns, DiesUnsaved, Raises, Node

LEMMA PlannerFailsDoes ==
  ASSUME Fields, PlannerFails
  PROVE  /\ ckpt.next = "planner" /\ UNCHANGED outside
         /\ Moves("END", "blocked", "planner") /\ Only({"next", "status", "stage"})
  <1>1. ASSUME ckpt' = [Goes("END") EXCEPT !.status = "blocked", !.stage = "planner"]
       PROVE  /\ Moves("END", "blocked", "planner") /\ Only({"next", "status", "stage"})
    BY <1>1 DEF Fields, Only, Moves, Goes
  <1>2. QED BY <1>1 DEF PlannerFails, Returns, Node, outside

LEMMA PlannerPlansDoes ==
  ASSUME Fields, NEW asks \in BOOLEAN, PlannerPlans(asks)
  PROVE  /\ ckpt.next = "planner" /\ UNCHANGED outside
         /\ ckpt'.next = "prepare_plan_comment" /\ ckpt'.status = "active" /\ ckpt'.asks = asks
         /\ ckpt'.step = 0 /\ Only({"next", "status", "asks", "step"})
  <1>1. ASSUME ckpt' = [Goes("prepare_plan_comment") EXCEPT !.status = "active", !.asks =
                        asks, !.step = 0]
       PROVE  /\ ckpt'.next = "prepare_plan_comment" /\ ckpt'.status = "active"
              /\ ckpt'.asks = asks /\ ckpt'.step = 0
              /\ Only({"next", "status", "asks", "step"})
    BY <1>1 DEF Fields, Only, Goes
  <1>2. QED BY <1>1 DEF PlannerPlans, Returns, Node, outside

LEMMA PreparePlanDoes ==
  ASSUME Fields, PrepareComment("plan", "prepare_plan_comment", "publish_plan")
  PROVE  /\ ckpt.next = "prepare_plan_comment" /\ UNCHANGED outside
         /\ \/ /\ Moves("publish_plan", "active", "") /\ ckpt'.intent = "plan"
               /\ Only({"next", "status", "stage", "intent"}) /\ ckpt.intent \in {"none", "plan"}
            \/ /\ Moves("publish_plan", "blocked", "prepare_plan_comment")
               /\ Only({"next", "status", "stage"})
  <1>1. ASSUME ckpt' = [Goes("publish_plan") EXCEPT !.status = "active", !.stage = "",
                        !.intent = "plan"]
       PROVE  /\ Moves("publish_plan", "active", "") /\ ckpt'.intent = "plan"
              /\ Only({"next", "status", "stage", "intent"})
    BY <1>1 DEF Fields, Only, Moves, Goes
  <1>2. ASSUME ckpt' = [Goes("publish_plan") EXCEPT !.status = "blocked", !.stage =
                        "prepare_plan_comment"]
       PROVE  /\ Moves("publish_plan", "blocked", "prepare_plan_comment")
              /\ Only({"next", "status", "stage"})
    BY <1>2 DEF Fields, Only, Moves, Goes
  <1>3. QED BY <1>1, <1>2 DEF PrepareComment, Returns, Node, outside

LEMMA PrepareReviewDoes ==
  ASSUME Fields, PrepareComment("review", "prepare_review_comment", "publish_review")
  PROVE  /\ ckpt.next = "prepare_review_comment" /\ UNCHANGED outside
         /\ \/ /\ Moves("publish_review", "active", "") /\ ckpt'.intent = "review"
               /\ Only({"next", "status", "stage", "intent"}) /\ ckpt.intent \in {"none", "review"}
            \/ /\ Moves("publish_review", "blocked", "prepare_review_comment")
               /\ Only({"next", "status", "stage"})
  <1>1. ASSUME ckpt' = [Goes("publish_review") EXCEPT !.status = "active", !.stage = "",
                        !.intent = "review"]
       PROVE  /\ Moves("publish_review", "active", "") /\ ckpt'.intent = "review"
              /\ Only({"next", "status", "stage", "intent"})
    BY <1>1 DEF Fields, Only, Moves, Goes
  <1>2. ASSUME ckpt' = [Goes("publish_review") EXCEPT !.status = "blocked", !.stage =
                        "prepare_review_comment"]
       PROVE  /\ Moves("publish_review", "blocked", "prepare_review_comment")
              /\ Only({"next", "status", "stage"})
    BY <1>2 DEF Fields, Only, Moves, Goes
  <1>3. QED BY <1>1, <1>2 DEF PrepareComment, Returns, Node, outside

LEMMA PublishPlanDoes ==
  ASSUME Fields, PublishComment("plan", "publish_plan", AfterPlan)
  PROVE  /\ ckpt.next = "publish_plan" /\ UNCHANGED outside
         /\ \/ UNCHANGED ckpt
            \/ /\ ckpt'.next = (IF ckpt.status = "blocked" THEN "blocked" ELSE AfterPlan)
               /\ ckpt'.intent = "none" /\ Only({"next", "intent"}) /\ ckpt.intent = "plan"
            \/ BlockedAt("publish_plan")
  <1>1. ASSUME ckpt' = [Goes(IF ckpt.status = "blocked" THEN "blocked" ELSE AfterPlan) EXCEPT
                        !.intent = "none"]
       PROVE  /\ ckpt'.next = (IF ckpt.status = "blocked" THEN "blocked" ELSE AfterPlan)
              /\ ckpt'.intent = "none" /\ Only({"next", "intent"})
    BY <1>1 DEF Fields, Only, Goes
  <1>2. QED BY <1>1, BlocksFields
    DEF PublishComment, Saves, Returns, DiesUnsaved, Fails, Node, outside

LEMMA PublishReviewDoes ==
  ASSUME Fields, PublishComment("review", "publish_review", AfterReview)
  PROVE  /\ ckpt.next = "publish_review" /\ UNCHANGED outside
         /\ \/ UNCHANGED ckpt
            \/ /\ ckpt'.next = (IF ckpt.status = "blocked" THEN "blocked" ELSE AfterReview)
               /\ ckpt'.intent = "none" /\ Only({"next", "intent"}) /\ ckpt.intent = "review"
            \/ BlockedAt("publish_review")
  <1>1. ASSUME ckpt' = [Goes(IF ckpt.status = "blocked" THEN "blocked" ELSE AfterReview)
                        EXCEPT !.intent = "none"]
       PROVE  /\ ckpt'.next = (IF ckpt.status = "blocked" THEN "blocked" ELSE AfterReview)
              /\ ckpt'.intent = "none" /\ Only({"next", "intent"})
    BY <1>1 DEF Fields, Only, Goes
  <1>2. QED BY <1>1, BlocksFields
    DEF PublishComment, Saves, Returns, DiesUnsaved, Fails, Node, outside

LEMMA AwaitingUserInputDoes ==
  ASSUME Fields, AwaitingUserInput
  PROVE  /\ ckpt.next = "awaiting_user_input" /\ UNCHANGED outside
         /\ Moves("END", "blocked", "awaiting_user_input") /\ Only({"next", "status", "stage"})
  <1>1. ASSUME ckpt' = [Goes("END") EXCEPT !.status = "blocked", !.stage =
                        "awaiting_user_input"]
       PROVE  /\ Moves("END", "blocked", "awaiting_user_input")
              /\ Only({"next", "status", "stage"})
    BY <1>1 DEF Fields, Only, Moves, Goes
  <1>2. QED BY <1>1 DEF AwaitingUserInput, Returns, Node, outside

LEMMA StartEnvironmentDoes ==
  ASSUME Fields, StartEnvironment
  PROVE  /\ ckpt.next = "start_environment" /\ env' \in {TRUE, env}
         /\ UNCHANGED <<work, remote, passed, vetted, repair>>
         /\ \/ UNCHANGED ckpt
            \/ /\ ckpt'.next = "prepare_current_step" /\ ckpt'.environment_started = TRUE
               /\ ckpt'.cleanup_stage = "" /\ Only({"next", "environment_started", "cleanup_stage"})
            \/ /\ ckpt'.next = "blocked" /\ ckpt'.stage = "environment"
               /\ ckpt'.environment_started = FALSE /\ ckpt'.cleanup_stage = ""
               /\ Only({"next", "stage", "environment_started", "cleanup_stage"})
  <1>1. ASSUME ckpt' = [Goes("prepare_current_step") EXCEPT !.environment_started = TRUE,
                        !.cleanup_stage = ""]
       PROVE  /\ ckpt'.next = "prepare_current_step" /\ ckpt'.environment_started = TRUE
              /\ ckpt'.cleanup_stage = ""
              /\ Only({"next", "environment_started", "cleanup_stage"})
    BY <1>1 DEF Fields, Only, Goes
  <1>2. ASSUME ckpt' = [StopsAt("environment") EXCEPT !.environment_started = FALSE,
                        !.cleanup_stage = ""]
       PROVE  /\ ckpt'.next = "blocked" /\ ckpt'.stage = "environment"
              /\ ckpt'.environment_started = FALSE /\ ckpt'.cleanup_stage = ""
              /\ Only({"next", "stage", "environment_started", "cleanup_stage"})
    BY <1>2 DEF Fields, Only, StopsAt
  <1>3. QED BY <1>1, <1>2 DEF StartEnvironment, Saves, Returns, DiesUnsaved, Fails, Node

LEMMA PrepareCurrentStepDoes ==
  ASSUME Fields, PrepareCurrentStep
  PROVE  /\ ckpt.next = "prepare_current_step" /\ UNCHANGED <<env, remote, passed, vetted, repair>>
         /\ HeadIs(work.head)
         /\ Moves("coder", "active", "") /\ ckpt'.attempt = 0 /\ ckpt'.step_baseline = work.head
         /\ ckpt'.validation = "none" /\ ckpt'.review = "none"
         /\ Only({"next", "status", "stage", "attempt", "step_baseline", "validation", "review"})
  <1>1. ASSUME ckpt' = [Goes("coder") EXCEPT !.status = "active", !.stage = "", !.attempt =
                        0, !.step_baseline = work.head, !.validation = "none", !.review =
                        "none"]
       PROVE  /\ Moves("coder", "active", "") /\ ckpt'.attempt = 0
              /\ ckpt'.step_baseline = work.head /\ ckpt'.validation = "none"
              /\ ckpt'.review = "none"
              /\ Only({"next", "status", "stage", "attempt", "step_baseline", "validation", "review"})
    BY <1>1 DEF Fields, Only, Moves, Goes
  <1>2. QED BY <1>1, ResetIs DEF PrepareCurrentStep, StepNode, Returns, Node

LEMMA CoderRefusedDoes ==
  ASSUME Fields, CoderRefused
  PROVE  /\ ckpt.next = "coder" /\ UNCHANGED outside
         /\ BlockedAt("repair_budget")
  <1>1. QED BY BlocksFields DEF CoderRefused, Returns, Node, outside

LEMMA CoderCompletesDoes ==
  ASSUME Fields, NEW tree \in Trees, CoderCompletes(tree)
  PROVE  /\ ckpt.next = "coder" /\ work' = [work EXCEPT !.tree = tree]
         /\ UNCHANGED <<env, remote, passed, vetted, repair>>
         /\ \/ UNCHANGED ckpt
            \/ /\ Moves("run_validation", "active", "") /\ ckpt'.attempt = ckpt.attempt + 1
               /\ ckpt'.review = "none" /\ Only({"next", "status", "stage", "attempt", "review"})
  <1>1. ASSUME ckpt' = [Goes("run_validation") EXCEPT !.status = "active", !.stage = "",
                        !.attempt = @ + 1, !.review = "none"]
       PROVE  /\ Moves("run_validation", "active", "")
              /\ ckpt'.attempt = ckpt.attempt + 1 /\ ckpt'.review = "none"
              /\ Only({"next", "status", "stage", "attempt", "review"})
    BY <1>1 DEF Fields, Only, Moves, Goes
  <1>2. QED BY <1>1 DEF CoderCompletes, Saves, Returns, DiesUnsaved, Node

LEMMA CoderAsksDoes ==
  ASSUME Fields, NEW tree \in Trees, CoderAsks(tree)
  PROVE  /\ ckpt.next = "coder" /\ work' = [work EXCEPT !.tree = tree]
         /\ UNCHANGED <<env, remote, passed, vetted, repair>>
         /\ Moves("blocked", "blocked", "awaiting_user_input") /\ ckpt'.asks = TRUE
         /\ Only({"next", "status", "stage", "asks"})
  <1>1. ASSUME ckpt' = [Blocks("awaiting_user_input") EXCEPT !.asks = TRUE]
       PROVE  /\ Moves("blocked", "blocked", "awaiting_user_input") /\ ckpt'.asks = TRUE
              /\ Only({"next", "status", "stage", "asks"})
    BY <1>1 DEF Fields, Only, Moves, Blocks
  <1>2. QED BY <1>1 DEF CoderAsks, Returns, Node

LEMMA CoderFailsDoes ==
  ASSUME Fields, NEW tree \in Trees, CoderFails(tree)
  PROVE  /\ ckpt.next = "coder" /\ UNCHANGED <<env, remote, passed, vetted, repair>>
         /\ \/ work' = [work EXCEPT !.tree = tree] \/ HeadIs(work.head) \/ HeadIs(StepBaseline)
         /\ ckpt'.next = "blocked" /\ ckpt'.stage = "coder"
         /\ ckpt'.attempt = (IF tree # TreeOf(work.head) THEN ckpt.attempt + 1 ELSE ckpt.attempt)
         /\ Only({"next", "stage", "attempt"})
  <1>1. ASSUME ckpt' = [StopsAt("coder") EXCEPT !.attempt = IF tree # TreeOf(work.head) THEN
                        @ + 1 ELSE @]
       PROVE  /\ ckpt'.next = "blocked" /\ ckpt'.stage = "coder"
              /\ ckpt'.attempt = (IF tree # TreeOf(work.head) THEN ckpt.attempt + 1 ELSE ckpt.attempt)
              /\ Only({"next", "stage", "attempt"})
    BY <1>1 DEF Fields, Only, StopsAt
  <1>2. QED BY <1>1, ResetIs DEF CoderFails, Returns, Fails, Node

LEMMA RunValidationDoes ==
  ASSUME Fields, NEW result \in ValidationResults, RunValidation(result)
  PROVE  /\ ckpt.next = "run_validation" /\ UNCHANGED outside
         /\ ckpt'.next = AfterValidation(result)
         /\ ckpt'.stage = (IF result = "environment_failure" THEN "environment" ELSE ckpt.stage)
         /\ ckpt'.validation = result /\ Only({"next", "stage", "validation"})
  <1>1. ASSUME ckpt' = [Goes(AfterValidation(result)) EXCEPT !.validation = result, !.stage =
                        IF result = "environment_failure" THEN "environment" ELSE @]
       PROVE  /\ ckpt'.next = AfterValidation(result)
              /\ ckpt'.stage = (IF result = "environment_failure" THEN "environment" ELSE ckpt.stage)
              /\ ckpt'.validation = result /\ Only({"next", "stage", "validation"})
    BY <1>1 DEF Fields, Only, Goes
  <1>2. QED BY <1>1 DEF RunValidation, Returns, Node, outside

LEMMA IsolateFailureDoes ==
  ASSUME Fields, IsolateFailure
  PROVE  /\ ckpt.next = "isolate_failure" /\ UNCHANGED <<env, remote, passed, vetted, repair>>
         /\ \/ /\ UNCHANGED ckpt /\ HeadIs(StepBaseline)
            \/ /\ ckpt'.next = AfterFailedAttempt
               /\ ckpt'.stage = (IF ckpt.attempt < AttemptLimit THEN "" ELSE "coder")
               /\ Only({"next", "stage"}) /\ HeadIs(StepBaseline)
            \/ /\ BlockedAt("coder") /\ work' = work
  <1>1. ASSUME ckpt' = [Goes(AfterFailedAttempt) EXCEPT !.stage = IF ckpt.attempt <
                        AttemptLimit THEN "" ELSE "coder"]
       PROVE  /\ ckpt'.next = AfterFailedAttempt
              /\ ckpt'.stage = (IF ckpt.attempt < AttemptLimit THEN "" ELSE "coder")
              /\ Only({"next", "stage"})
    BY <1>1 DEF Fields, Only, Goes
  <1>2. QED BY <1>1, BlocksFields, ResetIs
    DEF IsolateFailure, StepNode, Saves, Returns, DiesUnsaved, Fails, Node

LEMMA ReviewerDoes ==
  ASSUME Fields, NEW result \in {"approved", "changes_required", "review_failure"}, Reviewer(result)
  PROVE  /\ ckpt.next = "reviewer" /\ UNCHANGED outside
         /\ \/ /\ ckpt'.next = "blocked" /\ ckpt'.stage = "reviewer" /\ ckpt'.review = result
               /\ Only({"next", "stage", "review"}) /\ result = "review_failure"
            \/ /\ ckpt'.next = "prepare_review_comment" /\ ckpt'.status = "active"
               /\ ckpt'.review = result /\ Only({"next", "status", "review"})
  <1>1. ASSUME ckpt' = [StopsAt("reviewer") EXCEPT !.review = result]
       PROVE  /\ ckpt'.next = "blocked" /\ ckpt'.stage = "reviewer"
              /\ ckpt'.review = result /\ Only({"next", "stage", "review"})
    BY <1>1 DEF Fields, Only, StopsAt
  <1>2. ASSUME ckpt' = [Goes("prepare_review_comment") EXCEPT !.status = "active", !.review =
                        result]
       PROVE  /\ ckpt'.next = "prepare_review_comment" /\ ckpt'.status = "active"
              /\ ckpt'.review = result /\ Only({"next", "status", "review"})
    BY <1>2 DEF Fields, Only, Goes
  <1>3. QED BY <1>1, <1>2 DEF Reviewer, StepNode, Returns, Node, outside

LEMMA PrepareCheckpointDoes ==
  ASSUME Fields, PrepareCheckpoint
  PROVE  /\ ckpt.next = "prepare_checkpoint" /\ UNCHANGED outside
         /\ \/ /\ Moves("complete_step", "active", "") /\ ckpt'.intent = "checkpoint"
               /\ ckpt'.expected = StepBaseline
               /\ Only({"next", "status", "stage", "intent", "expected"})
               /\ MayIntend("checkpoint", StepBaseline)
            \/ /\ Moves("complete_step", "blocked", "prepare_checkpoint")
               /\ Only({"next", "status", "stage"})
  <1>1. ASSUME ckpt' = [Goes("complete_step") EXCEPT !.status = "active", !.stage = "",
                        !.intent = "checkpoint", !.expected = StepBaseline]
       PROVE  /\ Moves("complete_step", "active", "") /\ ckpt'.intent = "checkpoint"
              /\ ckpt'.expected = StepBaseline
              /\ Only({"next", "status", "stage", "intent", "expected"})
    BY <1>1 DEF Fields, Only, Moves, Goes
  <1>2. ASSUME ckpt' = [Goes("complete_step") EXCEPT !.status = "blocked", !.stage =
                        "prepare_checkpoint"]
       PROVE  /\ Moves("complete_step", "blocked", "prepare_checkpoint")
              /\ Only({"next", "status", "stage"})
    BY <1>2 DEF Fields, Only, Moves, Goes
  <1>3. QED BY <1>1, <1>2 DEF PrepareCheckpoint, StepNode, Returns, Node, outside

LEMMA CompleteStepDoes ==
  ASSUME Fields, CompleteStep
  PROVE  /\ ckpt.next = "complete_step" /\ ckpt.step < StepCount
         /\ UNCHANGED <<env, remote, passed, vetted, repair>>
         /\ \/ /\ BlockedAt("complete_step") /\ work' = work
            \/ /\ ckpt'.next = AfterStepDone
               /\ ckpt'.step = ckpt.step + 1 /\ ckpt'.attempt = 0 /\ ckpt'.intent = "none"
               /\ ckpt'.step_baseline = NoRevision
               /\ Only({"next", "step", "attempt", "intent", "step_baseline"})
               /\ ckpt.intent \in {"none", "checkpoint"} /\ StepCommitted
            \/ /\ UNCHANGED ckpt /\ StepCommitted
  <1>1. ASSUME ckpt' = StepDone
       PROVE  /\ ckpt'.next = AfterStepDone
              /\ ckpt'.step = ckpt.step + 1 /\ ckpt'.attempt = 0
              /\ ckpt'.intent = "none" /\ ckpt'.step_baseline = NoRevision
              /\ Only({"next", "step", "attempt", "intent", "step_baseline"})
    BY <1>1 DEF Fields, Only, StepDone, AfterStep, AfterStepDone
  <1>2. QED BY BlocksFields, <1>1
    DEF CompleteStep, StepDone, StepCommit, StepCommitted, StepNode, Saves, Returns,
        DiesUnsaved, Fails, Node

LEMMA PrepareFinalReviewDoes ==
  ASSUME Fields, PrepareFinalReview
  PROVE  /\ ckpt.next = "prepare_final_review" /\ UNCHANGED outside
         /\ \/ BlockedAt("prepare_final_review")
            \/ /\ Moves("final_validation", "active", "") /\ ckpt'.final_baseline = work.head
               /\ ckpt'.final_attempt = 0 /\ ckpt'.final_validation = "none" /\ ckpt'.approved = FALSE
               /\ Only({"next", "status", "stage", "final_baseline", "final_attempt", "final_validation", "approved"})
               /\ ~Dirty
  <1>1. ASSUME ckpt' = [Goes("final_validation") EXCEPT !.status = "active", !.stage = "",
                        !.final_baseline = work.head, !.final_attempt = 0, !.final_validation
                        = "none", !.approved = FALSE]
       PROVE  /\ Moves("final_validation", "active", "")
              /\ ckpt'.final_baseline = work.head /\ ckpt'.final_attempt = 0
              /\ ckpt'.final_validation = "none" /\ ckpt'.approved = FALSE
              /\ Only({"next", "status", "stage", "final_baseline", "final_attempt", "final_validation", "approved"})
    BY <1>1 DEF Fields, Only, Moves, Goes
  <1>2. QED BY BlocksFields, <1>1
    DEF PrepareFinalReview, RouteAfterPrepareFinalReview, Returns, Node, outside

LEMMA FinalValidationDoes ==
  ASSUME Fields, NEW result \in ValidationResults, FinalValidation(result)
  PROVE  /\ ckpt.next = "final_validation" /\ UNCHANGED <<work, env, remote, vetted, repair>>
         /\ passed' = IF result = "success" THEN passed \cup {work.tree} ELSE passed
         /\ ckpt'.next = AfterFinalValidation(result) /\ ckpt'.final_validation = result
         /\ ckpt'.stage = (CASE result = "success" -> "" [] result = "failure" -> ckpt.stage [] OTHER -> "environment")
         /\ Only({"next", "final_validation", "stage"})
  <1>1. ASSUME ckpt' = [Goes(AfterFinalValidation(result)) EXCEPT !.final_validation =
                        result, !.stage = CASE result = "success" -> "" [] result = "failure"
                        -> @ [] OTHER -> "environment"]
       PROVE  /\ ckpt'.next = AfterFinalValidation(result)
              /\ ckpt'.final_validation = result
              /\ ckpt'.stage = (CASE result = "success" -> "" [] result = "failure" -> ckpt.stage [] OTHER -> "environment")
              /\ Only({"next", "final_validation", "stage"})
    BY <1>1 DEF Fields, Only, Goes
  <1>2. QED BY <1>1 DEF FinalValidation, Returns, Node

LEMMA FinalCoderRefusedDoes ==
  ASSUME Fields, FinalCoderRefused
  PROVE  /\ ckpt.next = "final_integration_coder" /\ UNCHANGED outside
         /\ BlockedAt("repair_budget")
  <1>1. QED BY BlocksFields DEF FinalCoderRefused, Returns, Node, outside

LEMMA FinalCoderCompletesDoes ==
  ASSUME Fields, NEW tree \in Trees, FinalCoderCompletes(tree)
  PROVE  /\ ckpt.next = "final_integration_coder" /\ work' = [work EXCEPT !.tree = tree]
         /\ UNCHANGED <<env, remote, passed, vetted, repair>>
         /\ \/ UNCHANGED ckpt
            \/ /\ Moves("final_validation", "active", "")
               /\ ckpt'.final_attempt = ckpt.final_attempt + 1 /\ ckpt'.approved = FALSE
               /\ Only({"next", "status", "stage", "final_attempt", "approved"})
  <1>1. ASSUME ckpt' = [Goes("final_validation") EXCEPT !.status = "active", !.stage = "",
                        !.final_attempt = @ + 1, !.approved = FALSE]
       PROVE  /\ Moves("final_validation", "active", "")
              /\ ckpt'.final_attempt = ckpt.final_attempt + 1 /\ ckpt'.approved = FALSE
              /\ Only({"next", "status", "stage", "final_attempt", "approved"})
    BY <1>1 DEF Fields, Only, Moves, Goes
  <1>2. QED BY <1>1 DEF FinalCoderCompletes, Saves, Returns, DiesUnsaved, Node

LEMMA FinalCoderAsksDoes ==
  ASSUME Fields, NEW tree \in Trees, FinalCoderAsks(tree)
  PROVE  /\ ckpt.next = "final_integration_coder" /\ work' = [work EXCEPT !.tree = tree]
         /\ UNCHANGED <<env, remote, passed, vetted, repair>>
         /\ Moves("blocked", "blocked", "awaiting_user_input") /\ ckpt'.asks = TRUE
         /\ Only({"next", "status", "stage", "asks"})
  <1>1. ASSUME ckpt' = [Blocks("awaiting_user_input") EXCEPT !.asks = TRUE]
       PROVE  /\ Moves("blocked", "blocked", "awaiting_user_input") /\ ckpt'.asks = TRUE
              /\ Only({"next", "status", "stage", "asks"})
    BY <1>1 DEF Fields, Only, Moves, Blocks
  <1>2. QED BY <1>1 DEF FinalCoderAsks, Returns, Node

LEMMA FinalCoderFailsDoes ==
  ASSUME Fields, NEW tree \in Trees, FinalCoderFails(tree)
  PROVE  /\ ckpt.next = "final_integration_coder" /\ UNCHANGED <<env, remote, passed, vetted, repair>>
         /\ \/ work' = [work EXCEPT !.tree = tree] \/ HeadIs(work.head) \/ HeadIs(ckpt.final_baseline)
         /\ StoppedAt("final_integration_coder")
  <1>1. QED BY StopsAtFields, ResetIs DEF FinalCoderFails, Returns, Fails, Node

LEMMA FinalReviewerDoes ==
  ASSUME Fields, NEW result \in {"approved", "changes_required", "review_failure"}, FinalReviewer(result)
  PROVE  /\ ckpt.next = "final_reviewer" /\ UNCHANGED <<work, env, remote, passed, repair>>
         /\ vetted' = IF result = "approved" THEN vetted \cup {work.tree} ELSE vetted
         /\ \/ /\ Moves("prepare_finalize_history", "active", "") /\ ckpt'.approved = TRUE
               /\ Only({"next", "status", "stage", "approved"}) /\ result = "approved"
            \/ /\ Moves(AfterFinalFailure, "active", "") /\ ckpt'.approved = FALSE
               /\ Only({"next", "status", "stage", "approved"})
            \/ /\ ckpt'.next = "blocked" /\ ckpt'.stage = "final_reviewer" /\ ckpt'.approved = FALSE
               /\ Only({"next", "stage", "approved"})
  <1>1. ASSUME ckpt' = [Goes("prepare_finalize_history") EXCEPT !.status = "active", !.stage
                        = "", !.approved = TRUE]
       PROVE  /\ Moves("prepare_finalize_history", "active", "")
              /\ ckpt'.approved = TRUE /\ Only({"next", "status", "stage", "approved"})
    BY <1>1 DEF Fields, Only, Moves, Goes
  <1>2. ASSUME ckpt' = [Goes(AfterFinalFailure) EXCEPT !.status = "active", !.stage = "",
                        !.approved = FALSE]
       PROVE  /\ Moves(AfterFinalFailure, "active", "") /\ ckpt'.approved = FALSE
              /\ Only({"next", "status", "stage", "approved"})
    BY <1>2 DEF Fields, Only, Moves, Goes
  <1>3. ASSUME ckpt' = [StopsAt("final_reviewer") EXCEPT !.approved = FALSE]
       PROVE  /\ ckpt'.next = "blocked" /\ ckpt'.stage = "final_reviewer"
              /\ ckpt'.approved = FALSE /\ Only({"next", "stage", "approved"})
    BY <1>3 DEF Fields, Only, StopsAt
  <1>4. QED BY <1>1, <1>2, <1>3 DEF FinalReviewer, Returns, Node

LEMMA IsolateFinalFailureDoes ==
  ASSUME Fields, IsolateFinalFailure
  PROVE  /\ ckpt.next = "isolate_final_failure" /\ UNCHANGED <<env, remote, passed, vetted, repair>>
         /\ \/ /\ UNCHANGED ckpt /\ HeadIs(ckpt.final_baseline)
            \/ /\ ckpt'.next = "final_integration_coder" /\ Only({"next"})
               /\ ckpt.final_attempt < FinalLimit /\ HeadIs(ckpt.final_baseline)
            \/ /\ StoppedAt("final_integration_coder") /\ HeadIs(ckpt.final_baseline)
            \/ /\ BlockedAt("final_integration_coder") /\ work' = work
  <1>1. ASSUME ckpt' = Goes("final_integration_coder")
       PROVE  /\ ckpt'.next = "final_integration_coder" /\ Only({"next"})
    BY <1>1 DEF Fields, Only, Goes
  <1>2. QED BY <1>1, StopsAtFields, BlocksFields, ResetIs
    DEF IsolateFinalFailure, Saves, Returns, DiesUnsaved, Fails, Node

LEMMA PrepareFinalizeHistoryDoes ==
  ASSUME Fields, PrepareFinalizeHistory
  PROVE  /\ ckpt.next = "prepare_finalize_history" /\ UNCHANGED outside
         /\ \/ /\ Moves("finalize_history", "active", "") /\ ckpt'.intent = "final"
               /\ ckpt'.expected = ckpt.final_baseline
               /\ Only({"next", "status", "stage", "intent", "expected"})
               /\ MayIntend("final", ckpt.final_baseline)
            \/ BlockedAt("prepare_finalize_history")
  <1>1. ASSUME ckpt' = [Goes("finalize_history") EXCEPT !.status = "active", !.stage = "",
                        !.intent = "final", !.expected = ckpt.final_baseline]
       PROVE  /\ Moves("finalize_history", "active", "") /\ ckpt'.intent = "final"
              /\ ckpt'.expected = ckpt.final_baseline
              /\ Only({"next", "status", "stage", "intent", "expected"})
    BY <1>1 DEF Fields, Only, Moves, Goes
  <1>2. QED BY <1>1, BlocksFields DEF PrepareFinalizeHistory, Returns, Node, outside

LEMMA FinalizeHistoryDoes ==
  ASSUME Fields, FinalizeHistory
  PROVE  /\ ckpt.next = "finalize_history" /\ UNCHANGED <<env, remote, passed, vetted, repair>>
         /\ \/ /\ BlockedAt("finalize_history") /\ work' = work
            \/ /\ ckpt'.next = "prepare_push_branch" /\ ckpt'.stage = "" /\ ckpt'.intent = "none"
               /\ ckpt'.final_commit = work.head /\ Only({"next", "stage", "intent", "final_commit"})
               /\ ckpt.intent = "final" /\ FinalIsHead /\ work' = work
            \/ /\ Moves("cleanup", "completed", "") /\ ckpt'.intent = "none" /\ ckpt'.no_change = TRUE
               /\ Only({"next", "status", "stage", "intent", "no_change"})
               /\ ckpt.intent = "final" /\ work' = work
            \/ /\ ckpt'.next = "prepare_push_branch" /\ ckpt'.stage = "" /\ ckpt'.intent = "none"
               /\ ckpt'.final_commit = Finalized /\ Only({"next", "stage", "intent", "final_commit"})
               /\ FinalCommitted
            \/ /\ UNCHANGED ckpt /\ FinalCommitted
  <1>1. ASSUME ckpt' = FinalDone(work.head)
       PROVE  /\ ckpt'.next = "prepare_push_branch" /\ ckpt'.stage = ""
              /\ ckpt'.intent = "none" /\ ckpt'.final_commit = work.head
              /\ Only({"next", "stage", "intent", "final_commit"})
    BY <1>1 DEF Fields, Only, FinalDone, Goes
  <1>2. ASSUME ckpt' = [Goes("cleanup") EXCEPT !.status = "completed", !.stage = "", !.intent
                        = "none", !.no_change = TRUE]
       PROVE  /\ Moves("cleanup", "completed", "") /\ ckpt'.intent = "none"
              /\ ckpt'.no_change = TRUE
              /\ Only({"next", "status", "stage", "intent", "no_change"})
    BY <1>2 DEF Fields, Only, Moves, Goes
  <1>3. ASSUME ckpt' = FinalDone(Finalized)
       PROVE  /\ ckpt'.next = "prepare_push_branch" /\ ckpt'.stage = ""
              /\ ckpt'.intent = "none" /\ ckpt'.final_commit = Finalized
              /\ Only({"next", "stage", "intent", "final_commit"})
    BY <1>3 DEF Fields, Only, FinalDone, Goes
  <1>4. QED BY BlocksFields, <1>1, <1>2, <1>3
    DEF FinalizeHistory, FinalDone, FinalCommitted, Saves, Returns, DiesUnsaved, Fails,
        Node

LEMMA PreparePushBranchDoes ==
  ASSUME Fields, PreparePushBranch
  PROVE  /\ ckpt.next = "prepare_push_branch" /\ UNCHANGED outside
         /\ \/ /\ Moves("push_branch", "active", "") /\ ckpt'.intent = "push"
               /\ ckpt'.expected = remote /\ Only({"next", "status", "stage", "intent", "expected"})
               /\ remote \in {ckpt.final_commit, ckpt.remote_baseline}
            \/ BlockedAt("prepare_push_branch")
  <1>1. ASSUME ckpt' = [Goes("push_branch") EXCEPT !.status = "active", !.stage = "",
                        !.intent = "push", !.expected = remote]
       PROVE  /\ Moves("push_branch", "active", "") /\ ckpt'.intent = "push"
              /\ ckpt'.expected = remote
              /\ Only({"next", "status", "stage", "intent", "expected"})
    BY <1>1 DEF Fields, Only, Moves, Goes
  <1>2. QED BY <1>1, BlocksFields DEF PreparePushBranch, Returns, Fails, Node, outside

LEMMA PushBranchDoes ==
  ASSUME Fields, PushBranch
  PROVE  /\ ckpt.next = "push_branch" /\ UNCHANGED <<work, env, passed, vetted, repair>>
         /\ remote' = remote \/ Pushed
         /\ \/ /\ UNCHANGED ckpt /\ Pushed
            \/ /\ ckpt'.next = "prepare_draft_pr" /\ ckpt'.stage = "" /\ ckpt'.intent = "none"
               /\ Only({"next", "stage", "intent"})
               /\ ckpt.intent = "push" /\ remote' = ckpt.final_commit
            \/ BlockedAt("push_branch")
  <1>1. ASSUME ckpt' = [Goes("prepare_draft_pr") EXCEPT !.intent = "none", !.stage = ""]
       PROVE  /\ ckpt'.next = "prepare_draft_pr" /\ ckpt'.stage = ""
              /\ ckpt'.intent = "none" /\ Only({"next", "stage", "intent"})
    BY <1>1 DEF Fields, Only, Goes
  <1>2. QED BY <1>1, BlocksFields
    DEF PushBranch, Pushed, Saves, Returns, DiesUnsaved, Fails, Node

LEMMA PrepareDraftPRDoes ==
  ASSUME Fields, PrepareDraftPR
  PROVE  /\ ckpt.next = "prepare_draft_pr" /\ UNCHANGED outside
         /\ Moves("create_draft_pr", "active", "") /\ ckpt'.intent = "pr"
         /\ Only({"next", "status", "stage", "intent"})
  <1>1. ASSUME ckpt' = [Goes("create_draft_pr") EXCEPT !.status = "active", !.stage = "",
                        !.intent = "pr"]
       PROVE  /\ Moves("create_draft_pr", "active", "") /\ ckpt'.intent = "pr"
              /\ Only({"next", "status", "stage", "intent"})
    BY <1>1 DEF Fields, Only, Moves, Goes
  <1>2. QED BY <1>1 DEF PrepareDraftPR, Returns, Node, outside

LEMMA CreateDraftPRDoes ==
  ASSUME Fields, CreateDraftPR
  PROVE  /\ ckpt.next = "create_draft_pr" /\ UNCHANGED outside
         /\ \/ BlockedAt("prepare_draft_pr")
            \/ /\ Moves("cleanup", "completed", "") /\ ckpt'.intent = "none" /\ ckpt'.pr = TRUE
               /\ Only({"next", "status", "stage", "intent", "pr"}) /\ ckpt.intent = "pr"
            \/ BlockedAt("create_draft_pr")
  <1>1. ASSUME ckpt' = [Goes("cleanup") EXCEPT !.status = "completed", !.stage = "", !.intent
                        = "none", !.pr = TRUE]
       PROVE  /\ Moves("cleanup", "completed", "") /\ ckpt'.intent = "none"
              /\ ckpt'.pr = TRUE /\ Only({"next", "status", "stage", "intent", "pr"})
    BY <1>1 DEF Fields, Only, Moves, Goes
  <1>2. QED BY BlocksFields, <1>1 DEF CreateDraftPR, Returns, Fails, Node, outside

LEMMA BlockedDoes ==
  ASSUME Fields, Blocked
  PROVE  /\ ckpt.next = "blocked" /\ UNCHANGED outside
         /\ ckpt'.next = "cleanup" /\ ckpt'.status = "blocked" /\ Only({"next", "status"})
  <1>1. ASSUME ckpt' = [Goes("cleanup") EXCEPT !.status = "blocked"]
       PROVE  /\ ckpt'.next = "cleanup" /\ ckpt'.status = "blocked"
              /\ Only({"next", "status"})
    BY <1>1 DEF Fields, Only, Goes
  <1>2. QED BY <1>1 DEF Blocked, Returns, Node, outside

LEMMA CleanupDoes ==
  ASSUME Fields, Cleanup
  PROVE  /\ ckpt.next = "cleanup" /\ env' \in {FALSE, env}
         /\ UNCHANGED <<work, remote, passed, vetted, repair>>
         /\ \/ UNCHANGED ckpt
            \/ /\ Moves("END", "blocked", ckpt.cleanup_stage) /\ Only({"next", "status", "stage"})
               /\ ckpt.cleanup_stage # ""
            \/ /\ Moves("END", "completed", "") /\ Only({"next", "status", "stage"})
               /\ ckpt.pr \/ ckpt.no_change
            \/ /\ ckpt'.next = "END" /\ Only({"next"})
            \/ /\ Moves("END", "blocked", "cleanup") /\ ckpt'.cleanup_stage = ckpt.stage
               /\ Only({"next", "status", "stage", "cleanup_stage"})
  <1>1. ASSUME ckpt' = [Goes("END") EXCEPT !.status = "blocked", !.stage =
                        ckpt.cleanup_stage]
       PROVE  /\ Moves("END", "blocked", ckpt.cleanup_stage)
              /\ Only({"next", "status", "stage"})
    BY <1>1 DEF Fields, Only, Moves, Goes
  <1>2. ASSUME ckpt' = [Goes("END") EXCEPT !.status = "completed", !.stage = ""]
       PROVE  /\ Moves("END", "completed", "") /\ Only({"next", "status", "stage"})
    BY <1>2 DEF Fields, Only, Moves, Goes
  <1>3. ASSUME ckpt' = Goes("END")
       PROVE  /\ ckpt'.next = "END" /\ Only({"next"})
    BY <1>3 DEF Fields, Only, Goes
  <1>4. ASSUME ckpt' = [Goes("END") EXCEPT !.status = "blocked", !.stage = "cleanup",
                        !.cleanup_stage = ckpt.stage]
       PROVE  /\ Moves("END", "blocked", "cleanup") /\ ckpt'.cleanup_stage = ckpt.stage
              /\ Only({"next", "status", "stage", "cleanup_stage"})
    BY <1>4 DEF Fields, Only, Moves, Goes
  <1>5. QED BY <1>1, <1>2, <1>3, <1>4
    DEF Cleanup, AfterCleanup, Saves, Returns, DiesUnsaved, Fails, Node

LEMMA ResumesBlockedDoes ==
  ASSUME Fields, ResumesBlocked
  PROVE  /\ ckpt.status = "blocked" /\ ckpt.stage \in DOMAIN ResumeNode /\ UNCHANGED outside
         /\ ckpt.stage = "coder" => ckpt.attempt < AttemptLimit
         /\ ckpt.stage = "final_integration_coder" => ckpt.final_attempt < FinalLimit
         /\ Moves(ResumeNode[ckpt.stage], "active", "")
         /\ ckpt'.asks = (IF ckpt.stage = "awaiting_user_input" THEN FALSE ELSE ckpt.asks)
         /\ ckpt'.step = (IF ckpt.stage = "awaiting_user_input" THEN 0 ELSE ckpt.step)
         /\ Only({"next", "status", "stage", "asks", "step"})
  <1>1. ASSUME ckpt' = [ckpt EXCEPT !.status = "active", !.stage = "", !.next =
                        ResumeNode[ckpt.stage], !.asks = IF ckpt.stage = "awaiting_user_input"
                        THEN FALSE ELSE @, !.step = IF ckpt.stage = "awaiting_user_input" THEN
                        0 ELSE @]
       PROVE  /\ Moves(ResumeNode[ckpt.stage], "active", "")
              /\ ckpt'.asks = (IF ckpt.stage = "awaiting_user_input" THEN FALSE ELSE ckpt.asks)
              /\ ckpt'.step = (IF ckpt.stage = "awaiting_user_input" THEN 0 ELSE ckpt.step)
              /\ Only({"next", "status", "stage", "asks", "step"})
    BY <1>1 DEF Fields, Only, Moves
  <1>2. QED BY <1>1 DEF ResumesBlocked, outside

LEMMA RepairAskedDoes ==
  ASSUME Fields, RepairAsked
  PROVE  /\ repair' = "failed" /\ UNCHANGED <<running, faults, work, env, remote, passed, vetted>>
         /\ UNCHANGED ckpt
  <1>1. QED BY
    DEF RepairAsked, RouteAfterPrepareFinalReview, DestinationsOfPrepareFinalReview

LEMMA OperatorDiscardsDoes ==
  ASSUME Fields, OperatorDiscards
  PROVE  /\ UNCHANGED <<running, faults, env, remote, passed, vetted, repair>> /\ HeadIs(work.head)
         /\ ckpt.next \in {"coder", "final_integration_coder"}
         /\ UNCHANGED ckpt
  <1>1. QED BY ResetIs DEF OperatorDiscards

-----------------------------------------------------------------------------
(* The types *)

LEMMA ShapeStep == ASSUME Shape, WorkflowNext PROVE Shape'
  <1> USE DEF Shape, Node, StepNode, Returns, Saves, DiesUnsaved, Fails, Raises, Goes, Blocks,
          StopsAt, ResetTo, outside
  <1>1. CASE PlanningStep
    BY <1>1
    DEF PlanningStep, PrepareWorkspace, PlannerFails, PlannerPlans, PrepareComment,
        PublishComment, AfterPlan, AwaitingUserInput, StartEnvironment
  <1>2. CASE ImplementationStep
    BY <1>2
    DEF ImplementationStep, NoSuchStep, PrepareCurrentStep, CoderRefused,
        CoderCompletes, CoderAsks, CoderFails, RunValidation, AfterValidation,
        IsolateFailure, AfterFailedAttempt, Reviewer, PrepareComment, PublishComment,
        AfterReview, PrepareCheckpoint, CompleteStep, AfterStep
  <1>3. CASE IntegrationStep
    BY <1>3
    DEF IntegrationStep, PrepareFinalReview, RouteAfterPrepareFinalReview,
        FinalValidation, AfterFinalValidation, AfterFinalFailure, FinalCoderRefused,
        FinalCoderCompletes, FinalCoderAsks, FinalCoderFails, FinalReviewer,
        IsolateFinalFailure, PrepareFinalizeHistory, FinalizeHistory
  <1>4. CASE PublicationStep
    BY <1>4
    DEF PublicationStep, PreparePushBranch, PushBranch, PrepareDraftPR, CreateDraftPR,
        Blocked, Cleanup, AfterCleanup, Ends
  <1>5. CASE StartsOver
    BY <1>5, InitialFields DEF StartsOver
  <1>6. CASE ProcessStep /\ ~StartsOver
    BY <1>6
    DEF ProcessStep, Crashes, CoderDies, ResumesBlocked, ResumesInterrupted,
        RepairAsked, OperatorDiscards, SomebodyPushes
  <1>7. QED BY <1>1, <1>2, <1>3, <1>4, <1>5, <1>6 DEF WorkflowNext, NodeStep, ProcessStep

LEMMA FaultsStep == ASSUME WorkflowNext PROVE UNCHANGED faults \/ Fault
  <1> USE DEF Returns, Saves, DiesUnsaved, Fails, Raises, outside
  <1>1. CASE PlanningStep
    BY <1>1
    DEF PlanningStep, PrepareWorkspace, PlannerFails, PlannerPlans, PrepareComment,
        PublishComment, AfterPlan, AwaitingUserInput, StartEnvironment
  <1>2. CASE ImplementationStep
    BY <1>2
    DEF ImplementationStep, NoSuchStep, PrepareCurrentStep, CoderRefused,
        CoderCompletes, CoderAsks, CoderFails, RunValidation, AfterValidation,
        IsolateFailure, AfterFailedAttempt, Reviewer, PrepareComment, PublishComment,
        AfterReview, PrepareCheckpoint, CompleteStep, AfterStep
  <1>3. CASE IntegrationStep
    BY <1>3
    DEF IntegrationStep, PrepareFinalReview, RouteAfterPrepareFinalReview,
        FinalValidation, AfterFinalValidation, AfterFinalFailure, FinalCoderRefused,
        FinalCoderCompletes, FinalCoderAsks, FinalCoderFails, FinalReviewer,
        IsolateFinalFailure, PrepareFinalizeHistory, FinalizeHistory
  <1>4. CASE PublicationStep
    BY <1>4
    DEF PublicationStep, PreparePushBranch, PushBranch, PrepareDraftPR, CreateDraftPR,
        Blocked, Cleanup, AfterCleanup, Ends
  <1>5. CASE ProcessStep
    BY <1>5
    DEF ProcessStep, Crashes, CoderDies, ResumesBlocked, ResumesInterrupted, StartsOver,
        RepairAsked, OperatorDiscards, SomebodyPushes
  <1>6. QED BY <1>1, <1>2, <1>3, <1>4, <1>5 DEF WorkflowNext, NodeStep, ProcessStep

LEMMA SimplifiedStep ==
  ASSUME Fields, WorkflowNext
  PROVE  ckpt'.simplified = ckpt.simplified
  <1> USE DEF Fields, Only, Moves, BlockedAt, StoppedAt, outside
  <1>1. CASE PrepareWorkspace
    BY <1>1, PrepareWorkspaceDoes
  <1>2. CASE PlannerFails
    BY <1>2, PlannerFailsDoes
  <1>3. ASSUME NEW asks \in BOOLEAN, PlannerPlans(asks)
          PROVE  ckpt'.simplified = ckpt.simplified
    BY <1>3, PlannerPlansDoes
  <1>4. CASE PrepareComment("plan", "prepare_plan_comment", "publish_plan")
    BY <1>4, PreparePlanDoes
  <1>5. CASE PublishComment("plan", "publish_plan", AfterPlan)
    BY <1>5, PublishPlanDoes
  <1>6. CASE AwaitingUserInput
    BY <1>6, AwaitingUserInputDoes
  <1>7. CASE StartEnvironment
    BY <1>7, StartEnvironmentDoes
  <1>8. CASE NoSuchStep
    BY <1>8 DEF NoSuchStep, Raises, outside
  <1>9. CASE PrepareCurrentStep
    BY <1>9, PrepareCurrentStepDoes
  <1>10. CASE CoderRefused
    BY <1>10, CoderRefusedDoes
  <1>11. ASSUME NEW tree \in Trees, CoderCompletes(tree)
          PROVE  ckpt'.simplified = ckpt.simplified
    BY <1>11, CoderCompletesDoes
  <1>12. ASSUME NEW tree \in Trees, CoderAsks(tree)
          PROVE  ckpt'.simplified = ckpt.simplified
    BY <1>12, CoderAsksDoes
  <1>13. ASSUME NEW tree \in Trees, CoderFails(tree)
          PROVE  ckpt'.simplified = ckpt.simplified
    BY <1>13, CoderFailsDoes
  <1>14. ASSUME NEW result \in ValidationResults, RunValidation(result)
          PROVE  ckpt'.simplified = ckpt.simplified
    BY <1>14, RunValidationDoes
  <1>15. CASE IsolateFailure
    BY <1>15, IsolateFailureDoes
  <1>16. ASSUME NEW result \in {"approved", "changes_required", "review_failure"}, Reviewer(result)
          PROVE  ckpt'.simplified = ckpt.simplified
    BY <1>16, ReviewerDoes
  <1>17. CASE PrepareComment("review", "prepare_review_comment", "publish_review")
    BY <1>17, PrepareReviewDoes
  <1>18. CASE PublishComment("review", "publish_review", AfterReview)
    BY <1>18, PublishReviewDoes
  <1>19. CASE PrepareCheckpoint
    BY <1>19, PrepareCheckpointDoes
  <1>20. CASE CompleteStep
    BY <1>20, CompleteStepDoes
  <1>21. CASE PrepareFinalReview
    BY <1>21, PrepareFinalReviewDoes
  <1>22. ASSUME NEW result \in ValidationResults, FinalValidation(result)
          PROVE  ckpt'.simplified = ckpt.simplified
    BY <1>22, FinalValidationDoes
  <1>23. CASE FinalCoderRefused
    BY <1>23, FinalCoderRefusedDoes
  <1>24. ASSUME NEW tree \in Trees, FinalCoderCompletes(tree)
          PROVE  ckpt'.simplified = ckpt.simplified
    BY <1>24, FinalCoderCompletesDoes
  <1>25. ASSUME NEW tree \in Trees, FinalCoderAsks(tree)
          PROVE  ckpt'.simplified = ckpt.simplified
    BY <1>25, FinalCoderAsksDoes
  <1>26. ASSUME NEW tree \in Trees, FinalCoderFails(tree)
          PROVE  ckpt'.simplified = ckpt.simplified
    BY <1>26, FinalCoderFailsDoes
  <1>27. ASSUME NEW result \in {"approved", "changes_required", "review_failure"}, FinalReviewer(result)
          PROVE  ckpt'.simplified = ckpt.simplified
    BY <1>27, FinalReviewerDoes
  <1>28. CASE IsolateFinalFailure
    BY <1>28, IsolateFinalFailureDoes
  <1>29. CASE PrepareFinalizeHistory
    BY <1>29, PrepareFinalizeHistoryDoes
  <1>30. CASE FinalizeHistory
    BY <1>30, FinalizeHistoryDoes
  <1>31. CASE PreparePushBranch
    BY <1>31, PreparePushBranchDoes
  <1>32. CASE PushBranch
    BY <1>32, PushBranchDoes
  <1>33. CASE PrepareDraftPR
    BY <1>33, PrepareDraftPRDoes
  <1>34. CASE CreateDraftPR
    BY <1>34, CreateDraftPRDoes
  <1>35. CASE Blocked
    BY <1>35, BlockedDoes
  <1>36. CASE Cleanup
    BY <1>36, CleanupDoes
  <1>37. CASE Ends
    BY <1>37 DEF Ends, outside
  <1>38. CASE Crashes
    BY <1>38 DEF Crashes, outside
  <1>39. ASSUME NEW tree \in Trees, CoderDies(tree)
          PROVE  ckpt'.simplified = ckpt.simplified
    BY <1>39 DEF CoderDies, DiesUnsaved, Node
  <1>40. CASE ResumesBlocked
    BY <1>40, ResumesBlockedDoes
  <1>41. CASE ResumesInterrupted
    BY <1>41 DEF ResumesInterrupted, outside
  <1>42. CASE StartsOver
    BY <1>42, InitialFields DEF StartsOver
  <1>43. CASE RepairAsked
    BY <1>43, RepairAskedDoes
  <1>44. CASE OperatorDiscards
    BY <1>44, OperatorDiscardsDoes
  <1>45. CASE SomebodyPushes
    BY <1>45 DEF SomebodyPushes
  <1>46. QED BY <1>1, <1>2, <1>3, <1>4, <1>5, <1>6, <1>7, <1>8, <1>9, <1>10, <1>11,
      <1>12, <1>13, <1>14, <1>15, <1>16, <1>17, <1>18, <1>19, <1>20, <1>21, <1>22,
      <1>23, <1>24, <1>25, <1>26, <1>27, <1>28, <1>29, <1>30, <1>31, <1>32, <1>33,
      <1>34, <1>35, <1>36, <1>37, <1>38, <1>39, <1>40, <1>41, <1>42, <1>43, <1>44,
      <1>45
    DEF WorkflowNext, NodeStep, PlanningStep, ImplementationStep, IntegrationStep,
        PublicationStep

LEMMA LimitsStep ==
  ASSUME Fields, WorkflowNext
  PROVE  AttemptLimit' = AttemptLimit /\ FinalLimit' = FinalLimit
  BY SimplifiedStep DEF AttemptLimit, FinalLimit

LEMMA RunningStep == ASSUME running \in BOOLEAN, WorkflowNext PROVE running' \in BOOLEAN
  <1> USE DEF Returns, Saves, DiesUnsaved, Fails, Raises, outside
  <1>1. CASE PlanningStep
    BY <1>1
    DEF PlanningStep, PrepareWorkspace, PlannerFails, PlannerPlans, PrepareComment,
        PublishComment, AfterPlan, AwaitingUserInput, StartEnvironment
  <1>2. CASE ImplementationStep
    BY <1>2
    DEF ImplementationStep, NoSuchStep, PrepareCurrentStep, CoderRefused,
        CoderCompletes, CoderAsks, CoderFails, RunValidation, AfterValidation,
        IsolateFailure, AfterFailedAttempt, Reviewer, PrepareComment, PublishComment,
        AfterReview, PrepareCheckpoint, CompleteStep, AfterStep
  <1>3. CASE IntegrationStep
    BY <1>3
    DEF IntegrationStep, PrepareFinalReview, RouteAfterPrepareFinalReview,
        FinalValidation, AfterFinalValidation, AfterFinalFailure, FinalCoderRefused,
        FinalCoderCompletes, FinalCoderAsks, FinalCoderFails, FinalReviewer,
        IsolateFinalFailure, PrepareFinalizeHistory, FinalizeHistory
  <1>4. CASE PublicationStep
    BY <1>4
    DEF PublicationStep, PreparePushBranch, PushBranch, PrepareDraftPR, CreateDraftPR,
        Blocked, Cleanup, AfterCleanup, Ends
  <1>5. CASE ProcessStep
    BY <1>5
    DEF ProcessStep, Crashes, CoderDies, ResumesBlocked, ResumesInterrupted, StartsOver,
        RepairAsked, OperatorDiscards, SomebodyPushes
  <1>6. QED BY <1>1, <1>2, <1>3, <1>4, <1>5 DEF WorkflowNext, NodeStep, ProcessStep

\* The nodes and stages of the checkpoint exist.
LEMMA NamesStep ==
  ASSUME Fields, NamesOK, WorkflowNext
  PROVE  NamesOK'
  <1> USE DEF Fields, Only, Moves, BlockedAt, StoppedAt, NamesOK
  <1>1. CASE PrepareWorkspace
    BY <1>1, PrepareWorkspaceDoes, NodeNames, StageNames
  <1>2. CASE PlannerFails
    BY <1>2, PlannerFailsDoes, NodeNames, StageNames
  <1>3. ASSUME NEW asks \in BOOLEAN, PlannerPlans(asks) PROVE NamesOK'
    BY <1>3, PlannerPlansDoes, NodeNames, StageNames
  <1>4. CASE PrepareComment("plan", "prepare_plan_comment", "publish_plan")
    BY <1>4, PreparePlanDoes, NodeNames, StageNames
  <1>5. CASE PublishComment("plan", "publish_plan", AfterPlan)
    <2>1. AfterPlan \in Nodes
      BY NodeNames DEF AfterPlan
    <2>2. QED BY <1>5, <2>1, PublishPlanDoes, NodeNames, StageNames
  <1>6. CASE AwaitingUserInput
    BY <1>6, AwaitingUserInputDoes, NodeNames, StageNames
  <1>7. CASE StartEnvironment
    BY <1>7, StartEnvironmentDoes, NodeNames, StageNames
  <1>8. CASE NoSuchStep
    BY <1>8, NodeNames, StageNames DEF NoSuchStep, Raises, outside
  <1>9. CASE PrepareCurrentStep
    BY <1>9, PrepareCurrentStepDoes, NodeNames, StageNames
  <1>10. CASE CoderRefused
    BY <1>10, CoderRefusedDoes, NodeNames, StageNames
  <1>11. ASSUME NEW tree \in Trees, CoderCompletes(tree) PROVE NamesOK'
    BY <1>11, CoderCompletesDoes, NodeNames, StageNames
  <1>12. ASSUME NEW tree \in Trees, CoderAsks(tree) PROVE NamesOK'
    BY <1>12, CoderAsksDoes, NodeNames, StageNames
  <1>13. ASSUME NEW tree \in Trees, CoderFails(tree) PROVE NamesOK'
    BY <1>13, CoderFailsDoes, NodeNames, StageNames
  <1>14. ASSUME NEW result \in ValidationResults, RunValidation(result) PROVE NamesOK'
    BY <1>14, RunValidationDoes, NodeNames, StageNames DEF AfterValidation
  <1>15. CASE IsolateFailure
    BY <1>15, IsolateFailureDoes, NodeNames, StageNames DEF AfterFailedAttempt
  <1>16. ASSUME NEW result \in {"approved", "changes_required", "review_failure"}, Reviewer(result)
          PROVE  NamesOK'
    BY <1>16, ReviewerDoes, NodeNames, StageNames
  <1>17. CASE PrepareComment("review", "prepare_review_comment", "publish_review")
    BY <1>17, PrepareReviewDoes, NodeNames, StageNames
  <1>18. CASE PublishComment("review", "publish_review", AfterReview)
    <2>1. AfterReview \in Nodes
      BY NodeNames DEF AfterReview
    <2>2. QED BY <1>18, <2>1, PublishReviewDoes, NodeNames, StageNames
  <1>19. CASE PrepareCheckpoint
    BY <1>19, PrepareCheckpointDoes, NodeNames, StageNames
  <1>20. CASE CompleteStep
    BY <1>20, CompleteStepDoes, NodeNames, StageNames DEF AfterStepDone
  <1>21. CASE PrepareFinalReview
    BY <1>21, PrepareFinalReviewDoes, NodeNames, StageNames
  <1>22. ASSUME NEW result \in ValidationResults, FinalValidation(result) PROVE NamesOK'
    BY <1>22, FinalValidationDoes, NodeNames, StageNames
    DEF AfterFinalValidation, AfterFinalFailure
  <1>23. CASE FinalCoderRefused
    BY <1>23, FinalCoderRefusedDoes, NodeNames, StageNames
  <1>24. ASSUME NEW tree \in Trees, FinalCoderCompletes(tree) PROVE NamesOK'
    BY <1>24, FinalCoderCompletesDoes, NodeNames, StageNames
  <1>25. ASSUME NEW tree \in Trees, FinalCoderAsks(tree) PROVE NamesOK'
    BY <1>25, FinalCoderAsksDoes, NodeNames, StageNames
  <1>26. ASSUME NEW tree \in Trees, FinalCoderFails(tree) PROVE NamesOK'
    BY <1>26, FinalCoderFailsDoes, NodeNames, StageNames
  <1>27. ASSUME NEW result \in {"approved", "changes_required", "review_failure"}, FinalReviewer(result)
          PROVE  NamesOK'
    BY <1>27, FinalReviewerDoes, NodeNames, StageNames DEF AfterFinalFailure
  <1>28. CASE IsolateFinalFailure
    BY <1>28, IsolateFinalFailureDoes, NodeNames, StageNames
  <1>29. CASE PrepareFinalizeHistory
    BY <1>29, PrepareFinalizeHistoryDoes, NodeNames, StageNames
  <1>30. CASE FinalizeHistory
    BY <1>30, FinalizeHistoryDoes, NodeNames, StageNames
  <1>31. CASE PreparePushBranch
    BY <1>31, PreparePushBranchDoes, NodeNames, StageNames
  <1>32. CASE PushBranch
    BY <1>32, PushBranchDoes, NodeNames, StageNames
  <1>33. CASE PrepareDraftPR
    BY <1>33, PrepareDraftPRDoes, NodeNames, StageNames
  <1>34. CASE CreateDraftPR
    BY <1>34, CreateDraftPRDoes, NodeNames, StageNames
  <1>35. CASE Blocked
    BY <1>35, BlockedDoes, NodeNames, StageNames
  <1>36. CASE Cleanup
    BY <1>36, CleanupDoes, NodeNames, StageNames
  <1>37. CASE Ends
    BY <1>37, NodeNames, StageNames DEF Ends, outside
  <1>38. CASE Crashes
    BY <1>38, NodeNames, StageNames DEF Crashes, outside
  <1>39. ASSUME NEW tree \in Trees, CoderDies(tree) PROVE NamesOK'
    BY <1>39, NodeNames, StageNames DEF CoderDies, DiesUnsaved, Node
  <1>40. CASE ResumesBlocked
    BY <1>40, ResumesBlockedDoes, NodeNames, StageNames, ResumeNodes
  <1>41. CASE ResumesInterrupted
    BY <1>41, NodeNames, StageNames DEF ResumesInterrupted, outside
  <1>42. CASE StartsOver
    BY <1>42, NodeNames, StageNames DEF StartsOver, outside, InitialState
  <1>43. CASE RepairAsked
    BY <1>43, RepairAskedDoes, NodeNames, StageNames
  <1>44. CASE OperatorDiscards
    BY <1>44, OperatorDiscardsDoes, NodeNames, StageNames
  <1>45. CASE SomebodyPushes
    BY <1>45, NodeNames, StageNames DEF SomebodyPushes
  <1>46. QED BY <1>1, <1>2, <1>3, <1>4, <1>5, <1>6, <1>7, <1>8, <1>9, <1>10, <1>11,
      <1>12, <1>13, <1>14, <1>15, <1>16, <1>17, <1>18, <1>19, <1>20, <1>21, <1>22,
      <1>23, <1>24, <1>25, <1>26, <1>27, <1>28, <1>29, <1>30, <1>31, <1>32, <1>33,
      <1>34, <1>35, <1>36, <1>37, <1>38, <1>39, <1>40, <1>41, <1>42, <1>43, <1>44,
      <1>45
    DEF WorkflowNext, NodeStep, PlanningStep, ImplementationStep, IntegrationStep,
        PublicationStep

\* Results and intents are of their kinds.
LEMMA ResultsStep ==
  ASSUME Fields, ResultsOK, WorkflowNext
  PROVE  ResultsOK'
  <1> USE DEF Fields, Only, Moves, BlockedAt, StoppedAt, ResultsOK, ValidationResults,
          Intents
  <1>1. CASE PrepareWorkspace
    BY <1>1, PrepareWorkspaceDoes
  <1>2. CASE PlannerFails
    BY <1>2, PlannerFailsDoes
  <1>3. ASSUME NEW asks \in BOOLEAN, PlannerPlans(asks) PROVE ResultsOK'
    BY <1>3, PlannerPlansDoes
  <1>4. CASE PrepareComment("plan", "prepare_plan_comment", "publish_plan")
    BY <1>4, PreparePlanDoes
  <1>5. CASE PublishComment("plan", "publish_plan", AfterPlan)
    BY <1>5, PublishPlanDoes
  <1>6. CASE AwaitingUserInput
    BY <1>6, AwaitingUserInputDoes
  <1>7. CASE StartEnvironment
    BY <1>7, StartEnvironmentDoes
  <1>8. CASE NoSuchStep
    BY <1>8 DEF NoSuchStep, Raises, outside
  <1>9. CASE PrepareCurrentStep
    BY <1>9, PrepareCurrentStepDoes
  <1>10. CASE CoderRefused
    BY <1>10, CoderRefusedDoes
  <1>11. ASSUME NEW tree \in Trees, CoderCompletes(tree) PROVE ResultsOK'
    BY <1>11, CoderCompletesDoes
  <1>12. ASSUME NEW tree \in Trees, CoderAsks(tree) PROVE ResultsOK'
    BY <1>12, CoderAsksDoes
  <1>13. ASSUME NEW tree \in Trees, CoderFails(tree) PROVE ResultsOK'
    BY <1>13, CoderFailsDoes
  <1>14. ASSUME NEW result \in ValidationResults, RunValidation(result) PROVE ResultsOK'
    BY <1>14, RunValidationDoes
  <1>15. CASE IsolateFailure
    BY <1>15, IsolateFailureDoes
  <1>16. ASSUME NEW result \in {"approved", "changes_required", "review_failure"}, Reviewer(result)
          PROVE  ResultsOK'
    BY <1>16, ReviewerDoes
  <1>17. CASE PrepareComment("review", "prepare_review_comment", "publish_review")
    BY <1>17, PrepareReviewDoes
  <1>18. CASE PublishComment("review", "publish_review", AfterReview)
    BY <1>18, PublishReviewDoes
  <1>19. CASE PrepareCheckpoint
    BY <1>19, PrepareCheckpointDoes
  <1>20. CASE CompleteStep
    BY <1>20, CompleteStepDoes
  <1>21. CASE PrepareFinalReview
    BY <1>21, PrepareFinalReviewDoes
  <1>22. ASSUME NEW result \in ValidationResults, FinalValidation(result)
          PROVE  ResultsOK'
    BY <1>22, FinalValidationDoes
  <1>23. CASE FinalCoderRefused
    BY <1>23, FinalCoderRefusedDoes
  <1>24. ASSUME NEW tree \in Trees, FinalCoderCompletes(tree) PROVE ResultsOK'
    BY <1>24, FinalCoderCompletesDoes
  <1>25. ASSUME NEW tree \in Trees, FinalCoderAsks(tree) PROVE ResultsOK'
    BY <1>25, FinalCoderAsksDoes
  <1>26. ASSUME NEW tree \in Trees, FinalCoderFails(tree) PROVE ResultsOK'
    BY <1>26, FinalCoderFailsDoes
  <1>27. ASSUME NEW result \in {"approved", "changes_required", "review_failure"}, FinalReviewer(result)
          PROVE  ResultsOK'
    BY <1>27, FinalReviewerDoes
  <1>28. CASE IsolateFinalFailure
    BY <1>28, IsolateFinalFailureDoes
  <1>29. CASE PrepareFinalizeHistory
    BY <1>29, PrepareFinalizeHistoryDoes
  <1>30. CASE FinalizeHistory
    BY <1>30, FinalizeHistoryDoes
  <1>31. CASE PreparePushBranch
    BY <1>31, PreparePushBranchDoes
  <1>32. CASE PushBranch
    BY <1>32, PushBranchDoes
  <1>33. CASE PrepareDraftPR
    BY <1>33, PrepareDraftPRDoes
  <1>34. CASE CreateDraftPR
    BY <1>34, CreateDraftPRDoes
  <1>35. CASE Blocked
    BY <1>35, BlockedDoes
  <1>36. CASE Cleanup
    BY <1>36, CleanupDoes
  <1>37. CASE Ends
    BY <1>37 DEF Ends, outside
  <1>38. CASE Crashes
    BY <1>38 DEF Crashes, outside
  <1>39. ASSUME NEW tree \in Trees, CoderDies(tree) PROVE ResultsOK'
    BY <1>39 DEF CoderDies, DiesUnsaved, Node
  <1>40. CASE ResumesBlocked
    BY <1>40, ResumesBlockedDoes
  <1>41. CASE ResumesInterrupted
    BY <1>41 DEF ResumesInterrupted, outside
  <1>42. CASE StartsOver
    BY <1>42 DEF StartsOver, outside, InitialState
  <1>43. CASE RepairAsked
    BY <1>43, RepairAskedDoes
  <1>44. CASE OperatorDiscards
    BY <1>44, OperatorDiscardsDoes
  <1>45. CASE SomebodyPushes
    BY <1>45 DEF SomebodyPushes
  <1>46. QED BY <1>1, <1>2, <1>3, <1>4, <1>5, <1>6, <1>7, <1>8, <1>9, <1>10, <1>11,
      <1>12, <1>13, <1>14, <1>15, <1>16, <1>17, <1>18, <1>19, <1>20, <1>21, <1>22,
      <1>23, <1>24, <1>25, <1>26, <1>27, <1>28, <1>29, <1>30, <1>31, <1>32, <1>33,
      <1>34, <1>35, <1>36, <1>37, <1>38, <1>39, <1>40, <1>41, <1>42, <1>43, <1>44,
      <1>45
    DEF WorkflowNext, NodeStep, PlanningStep, ImplementationStep, IntegrationStep,
        PublicationStep

\* Flags are Boolean.
LEMMA FlagsStep ==
  ASSUME Fields, FlagsOK, WorkflowNext
  PROVE  FlagsOK'
  <1> USE DEF Fields, Only, Moves, BlockedAt, StoppedAt, FlagsOK, outside
  <1>1. CASE PrepareWorkspace
    BY <1>1, PrepareWorkspaceDoes, RunningStep
  <1>2. CASE PlannerFails
    BY <1>2, PlannerFailsDoes, RunningStep
  <1>3. ASSUME NEW asks \in BOOLEAN, PlannerPlans(asks) PROVE FlagsOK'
    BY <1>3, PlannerPlansDoes, RunningStep
  <1>4. CASE PrepareComment("plan", "prepare_plan_comment", "publish_plan")
    BY <1>4, PreparePlanDoes, RunningStep
  <1>5. CASE PublishComment("plan", "publish_plan", AfterPlan)
    BY <1>5, PublishPlanDoes, RunningStep
  <1>6. CASE AwaitingUserInput
    BY <1>6, AwaitingUserInputDoes, RunningStep
  <1>7. CASE StartEnvironment
    BY <1>7, StartEnvironmentDoes, RunningStep
  <1>8. CASE NoSuchStep
    BY <1>8, RunningStep DEF NoSuchStep, Raises, outside
  <1>9. CASE PrepareCurrentStep
    BY <1>9, PrepareCurrentStepDoes, RunningStep
  <1>10. CASE CoderRefused
    BY <1>10, CoderRefusedDoes, RunningStep
  <1>11. ASSUME NEW tree \in Trees, CoderCompletes(tree) PROVE FlagsOK'
    BY <1>11, CoderCompletesDoes, RunningStep
  <1>12. ASSUME NEW tree \in Trees, CoderAsks(tree) PROVE FlagsOK'
    BY <1>12, CoderAsksDoes, RunningStep
  <1>13. ASSUME NEW tree \in Trees, CoderFails(tree) PROVE FlagsOK'
    BY <1>13, CoderFailsDoes, RunningStep
  <1>14. ASSUME NEW result \in ValidationResults, RunValidation(result) PROVE FlagsOK'
    BY <1>14, RunValidationDoes, RunningStep
  <1>15. CASE IsolateFailure
    BY <1>15, IsolateFailureDoes, RunningStep
  <1>16. ASSUME NEW result \in {"approved", "changes_required", "review_failure"}, Reviewer(result)
          PROVE  FlagsOK'
    BY <1>16, ReviewerDoes, RunningStep
  <1>17. CASE PrepareComment("review", "prepare_review_comment", "publish_review")
    BY <1>17, PrepareReviewDoes, RunningStep
  <1>18. CASE PublishComment("review", "publish_review", AfterReview)
    BY <1>18, PublishReviewDoes, RunningStep
  <1>19. CASE PrepareCheckpoint
    BY <1>19, PrepareCheckpointDoes, RunningStep
  <1>20. CASE CompleteStep
    BY <1>20, CompleteStepDoes, RunningStep
  <1>21. CASE PrepareFinalReview
    BY <1>21, PrepareFinalReviewDoes, RunningStep
  <1>22. ASSUME NEW result \in ValidationResults, FinalValidation(result) PROVE FlagsOK'
    BY <1>22, FinalValidationDoes, RunningStep
  <1>23. CASE FinalCoderRefused
    BY <1>23, FinalCoderRefusedDoes, RunningStep
  <1>24. ASSUME NEW tree \in Trees, FinalCoderCompletes(tree) PROVE FlagsOK'
    BY <1>24, FinalCoderCompletesDoes, RunningStep
  <1>25. ASSUME NEW tree \in Trees, FinalCoderAsks(tree) PROVE FlagsOK'
    BY <1>25, FinalCoderAsksDoes, RunningStep
  <1>26. ASSUME NEW tree \in Trees, FinalCoderFails(tree) PROVE FlagsOK'
    BY <1>26, FinalCoderFailsDoes, RunningStep
  <1>27. ASSUME NEW result \in {"approved", "changes_required", "review_failure"}, FinalReviewer(result)
          PROVE  FlagsOK'
    BY <1>27, FinalReviewerDoes, RunningStep
  <1>28. CASE IsolateFinalFailure
    BY <1>28, IsolateFinalFailureDoes, RunningStep
  <1>29. CASE PrepareFinalizeHistory
    BY <1>29, PrepareFinalizeHistoryDoes, RunningStep
  <1>30. CASE FinalizeHistory
    BY <1>30, FinalizeHistoryDoes, RunningStep
  <1>31. CASE PreparePushBranch
    BY <1>31, PreparePushBranchDoes, RunningStep
  <1>32. CASE PushBranch
    BY <1>32, PushBranchDoes, RunningStep
  <1>33. CASE PrepareDraftPR
    BY <1>33, PrepareDraftPRDoes, RunningStep
  <1>34. CASE CreateDraftPR
    BY <1>34, CreateDraftPRDoes, RunningStep
  <1>35. CASE Blocked
    BY <1>35, BlockedDoes, RunningStep
  <1>36. CASE Cleanup
    BY <1>36, CleanupDoes, RunningStep
  <1>37. CASE Ends
    BY <1>37, RunningStep DEF Ends, outside
  <1>38. CASE Crashes
    BY <1>38, RunningStep DEF Crashes, outside
  <1>39. ASSUME NEW tree \in Trees, CoderDies(tree) PROVE FlagsOK'
    BY <1>39, RunningStep DEF CoderDies, DiesUnsaved, Node
  <1>40. CASE ResumesBlocked
    BY <1>40, ResumesBlockedDoes, RunningStep
  <1>41. CASE ResumesInterrupted
    BY <1>41, RunningStep DEF ResumesInterrupted, outside
  <1>42. CASE StartsOver
    BY <1>42, RunningStep DEF StartsOver, outside, InitialState
  <1>43. CASE RepairAsked
    BY <1>43, RepairAskedDoes, RunningStep
  <1>44. CASE OperatorDiscards
    BY <1>44, OperatorDiscardsDoes, RunningStep
  <1>45. CASE SomebodyPushes
    BY <1>45, RunningStep DEF SomebodyPushes
  <1>46. QED BY <1>1, <1>2, <1>3, <1>4, <1>5, <1>6, <1>7, <1>8, <1>9, <1>10, <1>11,
      <1>12, <1>13, <1>14, <1>15, <1>16, <1>17, <1>18, <1>19, <1>20, <1>21, <1>22,
      <1>23, <1>24, <1>25, <1>26, <1>27, <1>28, <1>29, <1>30, <1>31, <1>32, <1>33,
      <1>34, <1>35, <1>36, <1>37, <1>38, <1>39, <1>40, <1>41, <1>42, <1>43, <1>44,
      <1>45
    DEF WorkflowNext, NodeStep, PlanningStep, ImplementationStep, IntegrationStep,
        PublicationStep

\* Workspace, contents and repair.
LEMMA SpaceStep ==
  ASSUME Fields, SpaceOK, TreesOK, WorkflowNext
  PROVE  SpaceOK'
  <1> USE DEF Fields, Only, Moves, BlockedAt, StoppedAt, SpaceOK, TreesOK, HeadIs,
          outside, StepBaseline
  <1>1. CASE PrepareWorkspace
    BY <1>1, PrepareWorkspaceDoes DEF Local
  <1>2. CASE PlannerFails
    BY <1>2, PlannerFailsDoes
  <1>3. ASSUME NEW asks \in BOOLEAN, PlannerPlans(asks) PROVE SpaceOK'
    BY <1>3, PlannerPlansDoes
  <1>4. CASE PrepareComment("plan", "prepare_plan_comment", "publish_plan")
    BY <1>4, PreparePlanDoes
  <1>5. CASE PublishComment("plan", "publish_plan", AfterPlan)
    BY <1>5, PublishPlanDoes
  <1>6. CASE AwaitingUserInput
    BY <1>6, AwaitingUserInputDoes
  <1>7. CASE StartEnvironment
    BY <1>7, StartEnvironmentDoes
  <1>8. CASE NoSuchStep
    BY <1>8 DEF NoSuchStep, Raises, outside
  <1>9. CASE PrepareCurrentStep
    BY <1>9, PrepareCurrentStepDoes
  <1>10. CASE CoderRefused
    BY <1>10, CoderRefusedDoes
  <1>11. ASSUME NEW tree \in Trees, CoderCompletes(tree) PROVE SpaceOK'
    BY <1>11, CoderCompletesDoes
  <1>12. ASSUME NEW tree \in Trees, CoderAsks(tree) PROVE SpaceOK'
    BY <1>12, CoderAsksDoes
  <1>13. ASSUME NEW tree \in Trees, CoderFails(tree) PROVE SpaceOK'
    BY <1>13, CoderFailsDoes
  <1>14. ASSUME NEW result \in ValidationResults, RunValidation(result) PROVE SpaceOK'
    BY <1>14, RunValidationDoes
  <1>15. CASE IsolateFailure
    BY <1>15, IsolateFailureDoes
  <1>16. ASSUME NEW result \in {"approved", "changes_required", "review_failure"}, Reviewer(result)
          PROVE  SpaceOK'
    BY <1>16, ReviewerDoes
  <1>17. CASE PrepareComment("review", "prepare_review_comment", "publish_review")
    BY <1>17, PrepareReviewDoes
  <1>18. CASE PublishComment("review", "publish_review", AfterReview)
    BY <1>18, PublishReviewDoes
  <1>19. CASE PrepareCheckpoint
    BY <1>19, PrepareCheckpointDoes
  <1>20. CASE CompleteStep
    BY <1>20, CompleteStepDoes DEF StepCommitted
  <1>21. CASE PrepareFinalReview
    BY <1>21, PrepareFinalReviewDoes
  <1>22. ASSUME NEW result \in ValidationResults, FinalValidation(result) PROVE SpaceOK'
    BY <1>22, FinalValidationDoes
  <1>23. CASE FinalCoderRefused
    BY <1>23, FinalCoderRefusedDoes
  <1>24. ASSUME NEW tree \in Trees, FinalCoderCompletes(tree) PROVE SpaceOK'
    BY <1>24, FinalCoderCompletesDoes
  <1>25. ASSUME NEW tree \in Trees, FinalCoderAsks(tree) PROVE SpaceOK'
    BY <1>25, FinalCoderAsksDoes
  <1>26. ASSUME NEW tree \in Trees, FinalCoderFails(tree) PROVE SpaceOK'
    BY <1>26, FinalCoderFailsDoes
  <1>27. ASSUME NEW result \in {"approved", "changes_required", "review_failure"}, FinalReviewer(result)
          PROVE  SpaceOK'
    BY <1>27, FinalReviewerDoes
  <1>28. CASE IsolateFinalFailure
    BY <1>28, IsolateFinalFailureDoes
  <1>29. CASE PrepareFinalizeHistory
    BY <1>29, PrepareFinalizeHistoryDoes
  <1>30. CASE FinalizeHistory
    BY <1>30, FinalizeHistoryDoes DEF FinalCommitted
  <1>31. CASE PreparePushBranch
    BY <1>31, PreparePushBranchDoes
  <1>32. CASE PushBranch
    BY <1>32, PushBranchDoes
  <1>33. CASE PrepareDraftPR
    BY <1>33, PrepareDraftPRDoes
  <1>34. CASE CreateDraftPR
    BY <1>34, CreateDraftPRDoes
  <1>35. CASE Blocked
    BY <1>35, BlockedDoes
  <1>36. CASE Cleanup
    BY <1>36, CleanupDoes
  <1>37. CASE Ends
    BY <1>37 DEF Ends, outside
  <1>38. CASE Crashes
    BY <1>38 DEF Crashes, outside
  <1>39. ASSUME NEW tree \in Trees, CoderDies(tree) PROVE SpaceOK'
    BY <1>39 DEF CoderDies, DiesUnsaved, Node
  <1>40. CASE ResumesBlocked
    BY <1>40, ResumesBlockedDoes
  <1>41. CASE ResumesInterrupted
    BY <1>41 DEF ResumesInterrupted, outside
  <1>42. CASE StartsOver
    BY <1>42 DEF StartsOver, outside, InitialState
  <1>43. CASE RepairAsked
    BY <1>43, RepairAskedDoes
  <1>44. CASE OperatorDiscards
    BY <1>44, OperatorDiscardsDoes
  <1>45. CASE SomebodyPushes
    BY <1>45 DEF SomebodyPushes
  <1>46. QED BY <1>1, <1>2, <1>3, <1>4, <1>5, <1>6, <1>7, <1>8, <1>9, <1>10, <1>11,
      <1>12, <1>13, <1>14, <1>15, <1>16, <1>17, <1>18, <1>19, <1>20, <1>21, <1>22,
      <1>23, <1>24, <1>25, <1>26, <1>27, <1>28, <1>29, <1>30, <1>31, <1>32, <1>33,
      <1>34, <1>35, <1>36, <1>37, <1>38, <1>39, <1>40, <1>41, <1>42, <1>43, <1>44,
      <1>45
    DEF WorkflowNext, NodeStep, PlanningStep, ImplementationStep, IntegrationStep,
        PublicationStep

LEMMA Counting ==
  ASSUME ckpt.simplified \in BOOLEAN
  PROVE  /\ 0 \in Steps /\ \A n \in Steps : n < StepCount => n + 1 \in Steps
         /\ 0 \in Attempts /\ 0 < AttemptLimit
         /\ \A n \in Attempts : n < AttemptLimit => n + 1 \in Attempts
         /\ 0 \in FinalAttempts /\ 0 < FinalLimit
         /\ \A n \in FinalAttempts : n < FinalLimit => n + 1 \in FinalAttempts
  BY LimitsArePositive, WorkflowAssumption DEF Steps, Attempts, FinalAttempts

\* Steps and attempts are within their limits, and a coder has an attempt left.
LEMMA CountersStep ==
  ASSUME Fields, FlagsOK, CountersOK, WorkflowNext
  PROVE  CountersOK'
  <1> USE DEF Fields, Only, Moves, BlockedAt, StoppedAt, CountersOK
  <1>a. /\ 0 \in Steps /\ \A n \in Steps : n < StepCount => n + 1 \in Steps
        /\ 0 \in Attempts /\ 0 < AttemptLimit
        /\ \A n \in Attempts : n < AttemptLimit => n + 1 \in Attempts
        /\ 0 \in FinalAttempts /\ 0 < FinalLimit
        /\ \A n \in FinalAttempts : n < FinalLimit => n + 1 \in FinalAttempts
        /\ AttemptLimit' = AttemptLimit /\ Attempts' = Attempts
        /\ FinalLimit' = FinalLimit /\ FinalAttempts' = FinalAttempts
    BY Counting, LimitsStep DEF Attempts, FinalAttempts, FlagsOK
  <1>1. CASE PrepareWorkspace
    BY <1>1, PrepareWorkspaceDoes, <1>a
  <1>2. CASE PlannerFails
    BY <1>2, PlannerFailsDoes, <1>a
  <1>3. ASSUME NEW asks \in BOOLEAN, PlannerPlans(asks) PROVE CountersOK'
    BY <1>3, PlannerPlansDoes, <1>a
  <1>4. CASE PrepareComment("plan", "prepare_plan_comment", "publish_plan")
    BY <1>4, PreparePlanDoes, <1>a
  <1>5. CASE PublishComment("plan", "publish_plan", AfterPlan)
    BY <1>5, PublishPlanDoes, <1>a DEF AfterPlan
  <1>6. CASE AwaitingUserInput
    BY <1>6, AwaitingUserInputDoes, <1>a
  <1>7. CASE StartEnvironment
    BY <1>7, StartEnvironmentDoes, <1>a
  <1>8. CASE NoSuchStep
    BY <1>8, <1>a DEF NoSuchStep, Raises, outside
  <1>9. CASE PrepareCurrentStep
    BY <1>9, PrepareCurrentStepDoes, <1>a
  <1>10. CASE CoderRefused
    BY <1>10, CoderRefusedDoes, <1>a
  <1>11. ASSUME NEW tree \in Trees, CoderCompletes(tree) PROVE CountersOK'
    BY <1>11, CoderCompletesDoes, <1>a
  <1>12. ASSUME NEW tree \in Trees, CoderAsks(tree) PROVE CountersOK'
    BY <1>12, CoderAsksDoes, <1>a
  <1>13. ASSUME NEW tree \in Trees, CoderFails(tree) PROVE CountersOK'
    BY <1>13, CoderFailsDoes, <1>a
  <1>14. ASSUME NEW result \in ValidationResults, RunValidation(result) PROVE CountersOK'
    BY <1>14, RunValidationDoes, <1>a DEF AfterValidation
  <1>15. CASE IsolateFailure
    BY <1>15, IsolateFailureDoes, <1>a DEF AfterFailedAttempt
  <1>16. ASSUME NEW result \in {"approved", "changes_required", "review_failure"}, Reviewer(result)
          PROVE  CountersOK'
    BY <1>16, ReviewerDoes, <1>a
  <1>17. CASE PrepareComment("review", "prepare_review_comment", "publish_review")
    BY <1>17, PrepareReviewDoes, <1>a
  <1>18. CASE PublishComment("review", "publish_review", AfterReview)
    BY <1>18, PublishReviewDoes, <1>a DEF AfterReview
  <1>19. CASE PrepareCheckpoint
    BY <1>19, PrepareCheckpointDoes, <1>a
  <1>20. CASE CompleteStep
    BY <1>20, CompleteStepDoes, <1>a DEF AfterStepDone
  <1>21. CASE PrepareFinalReview
    BY <1>21, PrepareFinalReviewDoes, <1>a
  <1>22. ASSUME NEW result \in ValidationResults, FinalValidation(result)
          PROVE  CountersOK'
    BY <1>22, FinalValidationDoes, <1>a DEF AfterFinalValidation, AfterFinalFailure
  <1>23. CASE FinalCoderRefused
    BY <1>23, FinalCoderRefusedDoes, <1>a
  <1>24. ASSUME NEW tree \in Trees, FinalCoderCompletes(tree) PROVE CountersOK'
    BY <1>24, FinalCoderCompletesDoes, <1>a
  <1>25. ASSUME NEW tree \in Trees, FinalCoderAsks(tree) PROVE CountersOK'
    BY <1>25, FinalCoderAsksDoes, <1>a
  <1>26. ASSUME NEW tree \in Trees, FinalCoderFails(tree) PROVE CountersOK'
    BY <1>26, FinalCoderFailsDoes, <1>a
  <1>27. ASSUME NEW result \in {"approved", "changes_required", "review_failure"}, FinalReviewer(result)
          PROVE  CountersOK'
    BY <1>27, FinalReviewerDoes, <1>a DEF AfterFinalFailure
  <1>28. CASE IsolateFinalFailure
    BY <1>28, IsolateFinalFailureDoes, <1>a
  <1>29. CASE PrepareFinalizeHistory
    BY <1>29, PrepareFinalizeHistoryDoes, <1>a
  <1>30. CASE FinalizeHistory
    BY <1>30, FinalizeHistoryDoes, <1>a
  <1>31. CASE PreparePushBranch
    BY <1>31, PreparePushBranchDoes, <1>a
  <1>32. CASE PushBranch
    BY <1>32, PushBranchDoes, <1>a
  <1>33. CASE PrepareDraftPR
    BY <1>33, PrepareDraftPRDoes, <1>a
  <1>34. CASE CreateDraftPR
    BY <1>34, CreateDraftPRDoes, <1>a
  <1>35. CASE Blocked
    BY <1>35, BlockedDoes, <1>a
  <1>36. CASE Cleanup
    BY <1>36, CleanupDoes, <1>a
  <1>37. CASE Ends
    BY <1>37, <1>a DEF Ends, outside
  <1>38. CASE Crashes
    BY <1>38, <1>a DEF Crashes, outside
  <1>39. ASSUME NEW tree \in Trees, CoderDies(tree) PROVE CountersOK'
    BY <1>39, <1>a DEF CoderDies, DiesUnsaved, Node
  <1>40. CASE ResumesBlocked
    BY <1>40, ResumesBlockedDoes, <1>a, ResumesAtNoCoder
  <1>41. CASE ResumesInterrupted
    BY <1>41, <1>a DEF ResumesInterrupted, outside
  <1>42. CASE StartsOver
    BY <1>42, <1>a DEF StartsOver, outside, InitialState
  <1>43. CASE RepairAsked
    BY <1>43, RepairAskedDoes, <1>a
  <1>44. CASE OperatorDiscards
    BY <1>44, OperatorDiscardsDoes, <1>a
  <1>45. CASE SomebodyPushes
    BY <1>45, <1>a DEF SomebodyPushes
  <1>46. QED BY <1>1, <1>2, <1>3, <1>4, <1>5, <1>6, <1>7, <1>8, <1>9, <1>10, <1>11,
      <1>12, <1>13, <1>14, <1>15, <1>16, <1>17, <1>18, <1>19, <1>20, <1>21, <1>22,
      <1>23, <1>24, <1>25, <1>26, <1>27, <1>28, <1>29, <1>30, <1>31, <1>32, <1>33,
      <1>34, <1>35, <1>36, <1>37, <1>38, <1>39, <1>40, <1>41, <1>42, <1>43, <1>44,
      <1>45
    DEF WorkflowNext, NodeStep, PlanningStep, ImplementationStep, IntegrationStep,
        PublicationStep

-----------------------------------------------------------------------------
(* Revisions *)

\* A revision is a sequence.
IsSequence(h) == h \in Seq({h[i] : i \in DOMAIN h})

LEMMA Appended ==
  ASSUME NEW h, IsSequence(h), NEW c
  PROVE  /\ IsSequence(Append(h, c))
         /\ Len(Append(h, c)) = Len(h) + 1 /\ Append(h, c)[Len(h) + 1] = c
         /\ \A i \in DOMAIN h : Append(h, c)[i] = h[i]
         /\ DOMAIN Append(h, c) = DOMAIN h \cup {Len(h) + 1}
         /\ Len(h) + 1 \notin DOMAIN h
         /\ Append(h, c) # NoRevision
  <1> DEFINE S == {h[i] : i \in DOMAIN h} \cup {c}
             g == Append(h, c)
  <1>1. h \in Seq({h[i] : i \in DOMAIN h})
    BY DEF IsSequence
  <1>2. h \in Seq(S)
    BY <1>1
  <1>3. g \in Seq(S) /\ Len(g) = Len(h) + 1
    BY <1>2
  <1>4. g[Len(h) + 1] = c /\ \A i \in 1 .. Len(h) : g[i] = h[i]
    BY <1>2
  <1>5. DOMAIN h = 1 .. Len(h) /\ DOMAIN g = 1 .. Len(h) + 1 /\ Len(h) \in Nat
    BY <1>2, <1>3
  <1>6. g \in Seq({g[i] : i \in DOMAIN g})
    BY <1>3, <1>5
  <1>7. g # NoRevision
    BY <1>5 DEF NoRevision
  <1>8. QED BY <1>3, <1>4, <1>5, <1>6, <1>7 DEF IsSequence

\* A commit of this workflow, or of others, on a revision.
LEMMA CommitIsRevision ==
  ASSUME NEW h, IsRevision(h), NEW kind \in {"base", "step", "final", "foreign"},
         NEW step \in Steps, NEW tree \in Trees, NEW of
  PROVE  IsRevision(Commit(h, kind, step, tree, of))
  <1> DEFINE c == [kind |-> kind, step |-> step, tree |-> tree, of |-> of]
             g == Append(h, c)
  <1>1. IsSequence(h)
    BY DEF IsRevision, IsSequence
  <1>2. g \in Seq({g[i] : i \in DOMAIN g})
    <2> HIDE DEF c
    <2>1. IsSequence(g)
      BY <1>1, Appended
    <2>2. QED BY <2>1 DEF IsSequence
  <1>3. c.kind = kind /\ c.step = step /\ c.tree = tree
    OBVIOUS
  <1>4. ASSUME NEW i \in DOMAIN g
        PROVE  /\ g[i].kind \in {"base", "step", "final", "foreign"}
               /\ g[i].step \in Steps /\ g[i].tree \in Trees
    <2>1. CASE i \in DOMAIN h
      <3>1. g[i] = h[i]
        BY <1>1, <2>1, Appended
      <3>2. QED BY <2>1, <3>1 DEF IsRevision, Steps
    <2>2. CASE i = Len(h) + 1
      <3>1. g[i] = c
        BY <1>1, <2>2, Appended
      <3>2. QED BY <1>3, <3>1
    <2>3. QED BY <1>1, <1>4, <2>1, <2>2, Appended
  <1>5. QED BY <1>2, <1>4 DEF IsRevision, Commit, Steps

LEMMA NoRevisionIsRevision == IsRevision(NoRevision)
  BY DEF IsRevision, NoRevision

LEMMA BaseIsRevision == IsRevision(Base)
  <1>1. 0 \in Steps /\ 0 \in Trees
    BY WorkflowAssumption, WorkflowBoundAssumption DEF Steps, Trees
  <1>2. QED BY <1>1, CommitIsRevision, NoRevisionIsRevision DEF Base

LEMMA ForeignIsRevision == ASSUME NEW h, IsRevision(h) PROVE IsRevision(Foreign(h))
  <1>1. 0 \in Steps /\ 0 \in Trees
    BY WorkflowAssumption, WorkflowBoundAssumption DEF Steps, Trees
  <1>2. QED BY <1>1, CommitIsRevision, BaseIsRevision DEF Foreign

LEMMA TreeOfRevision == ASSUME NEW h, IsRevision(h) PROVE TreeOf(h) \in Trees
  <1>1. CASE h = NoRevision
    BY <1>1, WorkflowBoundAssumption DEF TreeOf, Trees
  <1>2. CASE h # NoRevision
    <2>1. Len(h) \in DOMAIN h
      BY <1>2 DEF IsRevision, NoRevision
    <2>2. QED BY <1>2, <2>1 DEF TreeOf, Tip, IsRevision
  <1>3. QED BY <1>1, <1>2

LEMMA RevisionsHaveTrees == ASSUME RevisionsOK PROVE TreesOK
  BY TreeOfRevision, BaseIsRevision DEF RevisionsOK, Known, TreesOK

\* The revisions a step makes.
LEMMA NewRevisions ==
  ASSUME RevisionsOK, CountersOK, SpaceOK
  PROVE  \A h \in {NoRevision, Base, StepCommit, Finalized, Foreign(remote)} : IsRevision(h)
  <1>1. IsRevision(work.head) /\ IsRevision(ckpt.issue_baseline) /\ IsRevision(remote)
    BY DEF RevisionsOK, Known
  <1>2. IsRevision(StepCommit)
    BY <1>1, CommitIsRevision DEF StepCommit, CountersOK, SpaceOK
  <1>3. 0 \in Steps
    BY WorkflowAssumption DEF Steps
  <1>4. IsRevision(Finalized)
    BY <1>1, <1>3, CommitIsRevision DEF Finalized, FinalParent, SpaceOK
  <1>5. QED BY <1>1, <1>2, <1>4, NoRevisionIsRevision, BaseIsRevision, ForeignIsRevision

\* The revisions that are known after a step.
LEMMA KnownStep ==
  ASSUME Fields, work.cloned \in BOOLEAN, WorkflowNext
  PROVE  \/ /\ Known' \subseteq Known \cup {NoRevision, Base, StepCommit, Foreign(remote)}
            /\ ckpt'.final_commit \in {ckpt.final_commit, NoRevision}
         \/ FinalizeHistory /\ FinalCommitted /\ Known' \subseteq Known \cup {Finalized}
         \/ FinalizeHistory /\ Known' \subseteq Known
  <1> USE DEF Fields, Only, Moves, BlockedAt, StoppedAt, Known, HeadIs, StepBaseline,
          outside
  <1> DEFINE kept ==
            \/ /\ Known' \subseteq Known \cup {NoRevision, Base, StepCommit, Foreign(remote)}
               /\ ckpt'.final_commit \in {ckpt.final_commit, NoRevision}
            \/ FinalizeHistory /\ FinalCommitted /\ Known' \subseteq Known \cup {Finalized}
            \/ FinalizeHistory /\ Known' \subseteq Known
  <1>1. CASE PrepareWorkspace
    BY <1>1, PrepareWorkspaceDoes DEF Local
  <1>2. CASE PlannerFails
    BY <1>2, PlannerFailsDoes
  <1>3. ASSUME NEW asks \in BOOLEAN, PlannerPlans(asks)
          PROVE  kept
    BY <1>3, PlannerPlansDoes
  <1>4. CASE PrepareComment("plan", "prepare_plan_comment", "publish_plan")
    BY <1>4, PreparePlanDoes
  <1>5. CASE PublishComment("plan", "publish_plan", AfterPlan)
    BY <1>5, PublishPlanDoes
  <1>6. CASE AwaitingUserInput
    BY <1>6, AwaitingUserInputDoes
  <1>7. CASE StartEnvironment
    BY <1>7, StartEnvironmentDoes
  <1>8. CASE NoSuchStep
    BY <1>8 DEF NoSuchStep, Raises, outside
  <1>9. CASE PrepareCurrentStep
    BY <1>9, PrepareCurrentStepDoes
  <1>10. CASE CoderRefused
    BY <1>10, CoderRefusedDoes
  <1>11. ASSUME NEW tree \in Trees, CoderCompletes(tree)
          PROVE  kept
    BY <1>11, CoderCompletesDoes
  <1>12. ASSUME NEW tree \in Trees, CoderAsks(tree)
          PROVE  kept
    BY <1>12, CoderAsksDoes
  <1>13. ASSUME NEW tree \in Trees, CoderFails(tree)
          PROVE  kept
    BY <1>13, CoderFailsDoes
  <1>14. ASSUME NEW result \in ValidationResults, RunValidation(result)
          PROVE  kept
    BY <1>14, RunValidationDoes
  <1>15. CASE IsolateFailure
    BY <1>15, IsolateFailureDoes
  <1>16. ASSUME NEW result \in {"approved", "changes_required", "review_failure"}, Reviewer(result)
          PROVE  kept
    BY <1>16, ReviewerDoes
  <1>17. CASE PrepareComment("review", "prepare_review_comment", "publish_review")
    BY <1>17, PrepareReviewDoes
  <1>18. CASE PublishComment("review", "publish_review", AfterReview)
    BY <1>18, PublishReviewDoes
  <1>19. CASE PrepareCheckpoint
    BY <1>19, PrepareCheckpointDoes
  <1>20. CASE CompleteStep
    BY <1>20, CompleteStepDoes DEF StepCommitted
  <1>21. CASE PrepareFinalReview
    BY <1>21, PrepareFinalReviewDoes
  <1>22. ASSUME NEW result \in ValidationResults, FinalValidation(result)
          PROVE  kept
    BY <1>22, FinalValidationDoes
  <1>23. CASE FinalCoderRefused
    BY <1>23, FinalCoderRefusedDoes
  <1>24. ASSUME NEW tree \in Trees, FinalCoderCompletes(tree)
          PROVE  kept
    BY <1>24, FinalCoderCompletesDoes
  <1>25. ASSUME NEW tree \in Trees, FinalCoderAsks(tree)
          PROVE  kept
    BY <1>25, FinalCoderAsksDoes
  <1>26. ASSUME NEW tree \in Trees, FinalCoderFails(tree)
          PROVE  kept
    BY <1>26, FinalCoderFailsDoes
  <1>27. ASSUME NEW result \in {"approved", "changes_required", "review_failure"}, FinalReviewer(result)
          PROVE  kept
    BY <1>27, FinalReviewerDoes
  <1>28. CASE IsolateFinalFailure
    BY <1>28, IsolateFinalFailureDoes
  <1>29. CASE PrepareFinalizeHistory
    BY <1>29, PrepareFinalizeHistoryDoes
  <1>30. CASE FinalizeHistory
    <2>1. CASE FinalCommitted
      <3>1. work'.head = Finalized /\ remote' = remote
        BY <1>30, <2>1, FinalizeHistoryDoes DEF FinalCommitted
      <3>2. UNCHANGED ckpt \/ ckpt'.final_commit = Finalized \/ ckpt'.final_commit = ckpt.final_commit \/ ckpt'.final_commit = work.head
        BY <1>30, FinalizeHistoryDoes
      <3>3. Only({"next", "status", "stage", "intent", "final_commit", "no_change"})
        BY <1>30, FinalizeHistoryDoes
      <3>4. QED BY <1>30, <2>1, <3>1, <3>2, <3>3
    <2>2. CASE ~FinalCommitted
      BY <1>30, <2>2, FinalizeHistoryDoes
    <2>3. QED BY <2>1, <2>2
  <1>31. CASE PreparePushBranch
    BY <1>31, PreparePushBranchDoes
  <1>32. CASE PushBranch
    BY <1>32, PushBranchDoes DEF Pushed
  <1>33. CASE PrepareDraftPR
    BY <1>33, PrepareDraftPRDoes
  <1>34. CASE CreateDraftPR
    BY <1>34, CreateDraftPRDoes
  <1>35. CASE Blocked
    BY <1>35, BlockedDoes
  <1>36. CASE Cleanup
    BY <1>36, CleanupDoes
  <1>37. CASE Ends
    BY <1>37 DEF Ends, outside
  <1>38. CASE Crashes
    BY <1>38 DEF Crashes, outside
  <1>39. ASSUME NEW tree \in Trees, CoderDies(tree)
          PROVE  kept
    BY <1>39 DEF CoderDies, DiesUnsaved, Node
  <1>40. CASE ResumesBlocked
    BY <1>40, ResumesBlockedDoes
  <1>41. CASE ResumesInterrupted
    BY <1>41 DEF ResumesInterrupted, outside
  <1>42. CASE StartsOver
    BY <1>42 DEF StartsOver, outside, InitialState
  <1>43. CASE RepairAsked
    BY <1>43, RepairAskedDoes
  <1>44. CASE OperatorDiscards
    BY <1>44, OperatorDiscardsDoes
  <1>45. CASE SomebodyPushes
    BY <1>45 DEF SomebodyPushes
  <1>46. QED BY <1>1, <1>2, <1>3, <1>4, <1>5, <1>6, <1>7, <1>8, <1>9, <1>10, <1>11,
      <1>12, <1>13, <1>14, <1>15, <1>16, <1>17, <1>18, <1>19, <1>20, <1>21, <1>22,
      <1>23, <1>24, <1>25, <1>26, <1>27, <1>28, <1>29, <1>30, <1>31, <1>32, <1>33,
      <1>34, <1>35, <1>36, <1>37, <1>38, <1>39, <1>40, <1>41, <1>42, <1>43, <1>44,
      <1>45
    DEF WorkflowNext, NodeStep, PlanningStep, ImplementationStep, IntegrationStep,
        PublicationStep

LEMMA RevisionsStep ==
  ASSUME Fields, RevisionsOK, CountersOK, SpaceOK, WorkflowNext
  PROVE  RevisionsOK'
  <1>1. work.cloned \in BOOLEAN
    BY DEF SpaceOK
  <1>2. Known' \subseteq Known \cup {NoRevision, Base, StepCommit, Finalized, Foreign(remote)}
    BY <1>1, KnownStep
  <1>3. QED BY <1>2, NewRevisions DEF RevisionsOK

LEMMA TypeInit == ASSUME WorkflowInit PROVE TypeInv
  <1> USE DEF WorkflowInit
  <1>1. PICK simplified \in BOOLEAN : ckpt = InitialState(simplified)
    OBVIOUS
  <1>2. Shape
    BY <1>1, InitialFields DEF Shape
  <1>3. NamesOK
    BY <1>1, NodeNames, StageNames DEF NamesOK, InitialState
  <1>4. ckpt.simplified = simplified
    BY <1>1, InitialFields
  <1>5. CountersOK
    BY <1>1, <1>4, Counting DEF CountersOK, InitialState
  <1>6. ResultsOK
    BY <1>1 DEF ResultsOK, InitialState, Intents
  <1>7. FlagsOK
    BY <1>1 DEF FlagsOK, InitialState
  <1>8. SpaceOK
    BY WorkflowBoundAssumption DEF SpaceOK, Trees
  <1>9. IsRevision(remote)
    BY NoRevisionIsRevision, ForeignIsRevision
  <1>10. RevisionsOK
    BY <1>1, <1>9, NoRevisionIsRevision DEF RevisionsOK, Known, InitialState
  <1>11. faults \in 0 .. MaxFaults
    BY WorkflowBoundAssumption
  <1>12. QED BY <1>2, <1>3, <1>5, <1>6, <1>7, <1>8, <1>10, <1>11 DEF TypeInv

LEMMA TypeStep == ASSUME TypeInv, WorkflowNext PROVE TypeInv'
  <1>1. Fields /\ Shape
    BY RecordFields DEF TypeInv
  <1>2. Shape' /\ NamesOK' /\ ResultsOK' /\ FlagsOK' /\ CountersOK'
    BY <1>1, ShapeStep, NamesStep, ResultsStep, FlagsStep, CountersStep DEF TypeInv
  <1>3. SpaceOK' /\ RevisionsOK'
    BY <1>1, RevisionsHaveTrees, SpaceStep, RevisionsStep DEF TypeInv
  <1>4. faults' \in 0 .. MaxFaults
    BY FaultsStep, WorkflowBoundAssumption DEF TypeInv, Fault
  <1>5. QED BY <1>2, <1>3, <1>4 DEF TypeInv

LEMMA TypeStutter == ASSUME TypeInv, UNCHANGED workflowVars PROVE TypeInv'
  <1> USE DEF workflowVars, outside
  <1>1. Shape' /\ NamesOK' /\ ResultsOK'
    BY DEF TypeInv, Shape, NamesOK, ResultsOK
  <1>2. FlagsOK' /\ SpaceOK' /\ faults' \in 0 .. MaxFaults
    BY DEF TypeInv, FlagsOK, SpaceOK
  <1>3. Known' = Known
    BY DEF Known
  <1>4. RevisionsOK'
    BY <1>3 DEF TypeInv, RevisionsOK
  <1>5. AttemptLimit' = AttemptLimit /\ FinalLimit' = FinalLimit
    BY DEF AttemptLimit, FinalLimit
  <1>6. CountersOK'
    BY <1>5 DEF TypeInv, CountersOK, Attempts, FinalAttempts
  <1>7. QED BY <1>1, <1>2, <1>4, <1>6 DEF TypeInv

LEMMA TypeIsInductive == WorkflowSpec => []TypeInv
  <1>1. WorkflowInit => TypeInv
    BY TypeInit
  <1>2. TypeInv /\ [WorkflowNext]_workflowVars => TypeInv'
    BY TypeStep, TypeStutter
  <1>3. QED BY <1>1, <1>2, PTL DEF WorkflowSpec

\* The checkpoint, the workspace and the branch are what the nodes and the process that
\* starts and resumes them expect, through all retries, resumptions and faults: no node
\* that does not exist is next, no attempt is made beyond its limit, and every revision
\* that is known is a history (build_graph, resume_from_for_stage).
THEOREM WorkflowTypeIsCorrect == WorkflowSpec => []WorkflowTypeOK
  <1>1. TypeInv => WorkflowTypeOK
    <2> SUFFICES ASSUME TypeInv PROVE WorkflowTypeOK
      OBVIOUS
    <2>1. /\ ckpt.step \in 0 .. StepCount /\ ckpt.attempt \in 0 .. AttemptLimit
          /\ ckpt.final_attempt \in 0 .. FinalLimit
      BY DEF TypeInv, CountersOK, Steps, Attempts, FinalAttempts
    <2>2. \A h \in Known : IsRevision(h)
      BY DEF TypeInv, RevisionsOK
    <2>3. {ckpt.validation, ckpt.final_validation} \subseteq ValidationResults \cup {"none"}
      BY DEF TypeInv, ResultsOK
    <2>4. {running, env, ckpt.simplified, ckpt.prepared, ckpt.asks, ckpt.approved, ckpt.pr,
           ckpt.no_change, ckpt.environment_started} \subseteq BOOLEAN
      BY DEF TypeInv, FlagsOK
    <2>5. QED BY <2>1, <2>2, <2>3, <2>4 DEF WorkflowTypeOK, TypeInv, NamesOK, ResultsOK, SpaceOK
  <1>2. QED BY <1>1, TypeIsInductive, PTL

-----------------------------------------------------------------------------
(* Commits of others *)

\* A commit on a revision has the commits of others the revision has, and is none.
LEMMA CommitKeepsForeign ==
  ASSUME NEW h, IsRevision(h), NEW kind, kind # "foreign", NEW step, NEW tree, NEW of
  PROVE  SameForeign(h, Commit(h, kind, step, tree, of)) /\ Commit(h, kind, step, tree, of) # NoRevision
  <1> DEFINE c == [kind |-> kind, step |-> step, tree |-> tree, of |-> of]
             g == Append(h, c)
  <1>1. c.kind # "foreign"
    OBVIOUS
  <1> HIDE DEF c
  <1>2. IsSequence(h)
    BY DEF IsRevision, IsSequence
  <1>3. KeepsForeign(h, g)
    BY <1>2, Appended DEF KeepsForeign
  <1>4. KeepsForeign(g, h)
    BY <1>1, <1>2, Appended DEF KeepsForeign
  <1>5. g # NoRevision
    BY <1>2, Appended
  <1>6. QED BY <1>3, <1>4, <1>5 DEF SameForeign, Commit, c

LEMMA ForeignKeepsForeign ==
  ASSUME NEW h, IsRevision(h)
  PROVE  KeepsForeign(h, Foreign(h))
  <1>1. CASE h = NoRevision
    BY <1>1 DEF KeepsForeign, NoRevision
  <1>2. CASE h # NoRevision
    <2>1. IsSequence(h)
      BY DEF IsRevision, IsSequence
    <2>2. QED BY <1>2, <2>1, Appended DEF KeepsForeign, Foreign, Commit
  <1>3. QED BY <1>1, <1>2

LEMMA SameForeignIsEquivalence ==
  /\ \A g : SameForeign(g, g)
  /\ \A g, h : SameForeign(g, h) => SameForeign(h, g)
  /\ \A f, g, h : SameForeign(f, g) /\ SameForeign(g, h) => SameForeign(f, h)
  <1>1. \A f, g, h : KeepsForeign(f, g) /\ KeepsForeign(g, h) => KeepsForeign(f, h)
    BY DEF KeepsForeign
  <1>2. \A g : KeepsForeign(g, g)
    BY DEF KeepsForeign
  <1>3. QED BY <1>1, <1>2 DEF SameForeign

LEMMA BaseIsCommit == Base # NoRevision
  BY NoRevisionIsRevision, CommitKeepsForeign DEF Base

LEMMA NewRevisionsKeepForeign ==
  ASSUME RevisionsOK
  PROVE  /\ SameForeign(work.head, StepCommit) /\ StepCommit # NoRevision
         /\ Finalized = work.head \/ (SameForeign(FinalParent, Finalized) /\ Finalized # NoRevision)
         /\ FinalParent \in {work.head, ckpt.issue_baseline}
  <1>1. IsRevision(work.head) /\ IsRevision(ckpt.issue_baseline)
    BY DEF RevisionsOK, Known
  <1>2. SameForeign(work.head, StepCommit) /\ StepCommit # NoRevision
    BY <1>1, CommitKeepsForeign DEF StepCommit
  <1>3. FinalParent \in {work.head, ckpt.issue_baseline}
    BY DEF FinalParent
  <1>4. Finalized = work.head \/ (SameForeign(FinalParent, Finalized) /\ Finalized # NoRevision)
    BY <1>1, <1>3, CommitKeepsForeign DEF Finalized
  <1>5. QED BY <1>2, <1>3, <1>4

\* There is a workspace.
LEMMA PreparedStep ==
  ASSUME Fields, RevisionsOK, FlagsOK, SpaceOK, PreparedInv, WorkflowNext
  PROVE  PreparedInv'
  <1> USE DEF Fields, Only, Moves, BlockedAt, StoppedAt, PreparedInv, PlanNodes,
          PlanStages, HeadIs, outside
  <1>a. Base # NoRevision /\ StepCommit # NoRevision /\ (work.head # NoRevision => Finalized # NoRevision)
    BY BaseIsCommit, NewRevisionsKeepForeign
  <1>1. CASE PrepareWorkspace
    BY <1>1, PrepareWorkspaceDoes, <1>a DEF Local, SpaceOK, FlagsOK
  <1>2. CASE PlannerFails
    BY <1>2, PlannerFailsDoes, <1>a
  <1>3. ASSUME NEW asks \in BOOLEAN, PlannerPlans(asks) PROVE PreparedInv'
    BY <1>3, PlannerPlansDoes, <1>a
  <1>4. CASE PrepareComment("plan", "prepare_plan_comment", "publish_plan")
    BY <1>4, PreparePlanDoes, <1>a
  <1>5. CASE PublishComment("plan", "publish_plan", AfterPlan)
    BY <1>5, PublishPlanDoes, <1>a DEF AfterPlan
  <1>6. CASE AwaitingUserInput
    BY <1>6, AwaitingUserInputDoes, <1>a
  <1>7. CASE StartEnvironment
    BY <1>7, StartEnvironmentDoes, <1>a
  <1>8. CASE NoSuchStep
    BY <1>8, <1>a DEF NoSuchStep, Raises, outside
  <1>9. CASE PrepareCurrentStep
    BY <1>9, PrepareCurrentStepDoes, <1>a
  <1>10. CASE CoderRefused
    BY <1>10, CoderRefusedDoes, <1>a
  <1>11. ASSUME NEW tree \in Trees, CoderCompletes(tree) PROVE PreparedInv'
    BY <1>11, CoderCompletesDoes, <1>a
  <1>12. ASSUME NEW tree \in Trees, CoderAsks(tree) PROVE PreparedInv'
    BY <1>12, CoderAsksDoes, <1>a
  <1>13. ASSUME NEW tree \in Trees, CoderFails(tree) PROVE PreparedInv'
    BY <1>13, CoderFailsDoes, <1>a DEF StepBaseline
  <1>14. ASSUME NEW result \in ValidationResults, RunValidation(result)
          PROVE  PreparedInv'
    BY <1>14, RunValidationDoes, <1>a DEF AfterValidation
  <1>15. CASE IsolateFailure
    BY <1>15, IsolateFailureDoes, <1>a DEF AfterFailedAttempt, StepBaseline
  <1>16. ASSUME NEW result \in {"approved", "changes_required", "review_failure"}, Reviewer(result)
          PROVE  PreparedInv'
    BY <1>16, ReviewerDoes, <1>a
  <1>17. CASE PrepareComment("review", "prepare_review_comment", "publish_review")
    BY <1>17, PrepareReviewDoes, <1>a
  <1>18. CASE PublishComment("review", "publish_review", AfterReview)
    BY <1>18, PublishReviewDoes, <1>a DEF AfterReview
  <1>19. CASE PrepareCheckpoint
    BY <1>19, PrepareCheckpointDoes, <1>a DEF StepBaseline
  <1>20. CASE CompleteStep
    BY <1>20, CompleteStepDoes, <1>a DEF AfterStepDone, StepCommitted
  <1>21. CASE PrepareFinalReview
    BY <1>21, PrepareFinalReviewDoes, <1>a
  <1>22. ASSUME NEW result \in ValidationResults, FinalValidation(result)
          PROVE  PreparedInv'
    BY <1>22, FinalValidationDoes, <1>a DEF AfterFinalValidation, AfterFinalFailure
  <1>23. CASE FinalCoderRefused
    BY <1>23, FinalCoderRefusedDoes, <1>a
  <1>24. ASSUME NEW tree \in Trees, FinalCoderCompletes(tree) PROVE PreparedInv'
    BY <1>24, FinalCoderCompletesDoes, <1>a
  <1>25. ASSUME NEW tree \in Trees, FinalCoderAsks(tree) PROVE PreparedInv'
    BY <1>25, FinalCoderAsksDoes, <1>a
  <1>26. ASSUME NEW tree \in Trees, FinalCoderFails(tree) PROVE PreparedInv'
    BY <1>26, FinalCoderFailsDoes, <1>a
  <1>27. ASSUME NEW result \in {"approved", "changes_required", "review_failure"}, FinalReviewer(result)
          PROVE  PreparedInv'
    BY <1>27, FinalReviewerDoes, <1>a DEF AfterFinalFailure
  <1>28. CASE IsolateFinalFailure
    BY <1>28, IsolateFinalFailureDoes, <1>a
  <1>29. CASE PrepareFinalizeHistory
    BY <1>29, PrepareFinalizeHistoryDoes, <1>a
  <1>30. CASE FinalizeHistory
    BY <1>30, FinalizeHistoryDoes, <1>a DEF FinalCommitted
  <1>31. CASE PreparePushBranch
    BY <1>31, PreparePushBranchDoes, <1>a
  <1>32. CASE PushBranch
    BY <1>32, PushBranchDoes, <1>a
  <1>33. CASE PrepareDraftPR
    BY <1>33, PrepareDraftPRDoes, <1>a
  <1>34. CASE CreateDraftPR
    BY <1>34, CreateDraftPRDoes, <1>a
  <1>35. CASE Blocked
    BY <1>35, BlockedDoes, <1>a
  <1>36. CASE Cleanup
    BY <1>36, CleanupDoes, <1>a
  <1>37. CASE Ends
    BY <1>37, <1>a DEF Ends, outside
  <1>38. CASE Crashes
    BY <1>38, <1>a DEF Crashes, outside
  <1>39. ASSUME NEW tree \in Trees, CoderDies(tree) PROVE PreparedInv'
    BY <1>39, <1>a DEF CoderDies, DiesUnsaved, Node
  <1>40. CASE ResumesBlocked
    BY <1>40, ResumesBlockedDoes, ResumesPlan
  <1>41. CASE ResumesInterrupted
    BY <1>41, <1>a DEF ResumesInterrupted, outside
  <1>42. CASE StartsOver
    BY <1>42, <1>a DEF StartsOver, outside, InitialState
  <1>43. CASE RepairAsked
    BY <1>43, RepairAskedDoes, <1>a
  <1>44. CASE OperatorDiscards
    BY <1>44, OperatorDiscardsDoes, <1>a
  <1>45. CASE SomebodyPushes
    BY <1>45, <1>a DEF SomebodyPushes
  <1>46. QED BY <1>1, <1>2, <1>3, <1>4, <1>5, <1>6, <1>7, <1>8, <1>9, <1>10, <1>11,
      <1>12, <1>13, <1>14, <1>15, <1>16, <1>17, <1>18, <1>19, <1>20, <1>21, <1>22,
      <1>23, <1>24, <1>25, <1>26, <1>27, <1>28, <1>29, <1>30, <1>31, <1>32, <1>33,
      <1>34, <1>35, <1>36, <1>37, <1>38, <1>39, <1>40, <1>41, <1>42, <1>43, <1>44,
      <1>45
    DEF WorkflowNext, NodeStep, PlanningStep, ImplementationStep, IntegrationStep,
        PublicationStep

\* The revisions a workflow works with after a step.
LEMMA WorksWithStep ==
  ASSUME Fields, SpaceOK, PreparedInv, ~PrepareWorkspace, ~StartsOver, WorkflowNext
  PROVE  /\ ckpt'.prepared = ckpt.prepared /\ ckpt'.issue_baseline = ckpt.issue_baseline
         /\ WorksWith' \subseteq WorksWith \cup {NoRevision, StepCommit, Finalized}
  <1> USE DEF Fields, Only, Moves, BlockedAt, StoppedAt, WorksWith, HeadIs, outside
  <1> DEFINE kept ==
           /\ ckpt'.prepared = ckpt.prepared /\ ckpt'.issue_baseline = ckpt.issue_baseline
           /\ WorksWith' \subseteq WorksWith \cup {NoRevision, StepCommit, Finalized}
  <1>2. CASE PlannerFails
    BY <1>2, PlannerFailsDoes
  <1>3. ASSUME NEW asks \in BOOLEAN, PlannerPlans(asks) PROVE kept
    BY <1>3, PlannerPlansDoes
  <1>4. CASE PrepareComment("plan", "prepare_plan_comment", "publish_plan")
    BY <1>4, PreparePlanDoes
  <1>5. CASE PublishComment("plan", "publish_plan", AfterPlan)
    BY <1>5, PublishPlanDoes
  <1>6. CASE AwaitingUserInput
    BY <1>6, AwaitingUserInputDoes
  <1>7. CASE StartEnvironment
    BY <1>7, StartEnvironmentDoes
  <1>8. CASE NoSuchStep
    BY <1>8 DEF NoSuchStep, Raises, outside
  <1>9. CASE PrepareCurrentStep
    BY <1>9, PrepareCurrentStepDoes
  <1>10. CASE CoderRefused
    BY <1>10, CoderRefusedDoes
  <1>11. ASSUME NEW tree \in Trees, CoderCompletes(tree) PROVE kept
    BY <1>11, CoderCompletesDoes
  <1>12. ASSUME NEW tree \in Trees, CoderAsks(tree) PROVE kept
    BY <1>12, CoderAsksDoes
  <1>13. ASSUME NEW tree \in Trees, CoderFails(tree) PROVE kept
    BY <1>13, CoderFailsDoes DEF StepBaseline
  <1>14. ASSUME NEW result \in ValidationResults, RunValidation(result) PROVE kept
    BY <1>14, RunValidationDoes
  <1>15. CASE IsolateFailure
    BY <1>15, IsolateFailureDoes DEF StepBaseline
  <1>16. ASSUME NEW result \in {"approved", "changes_required", "review_failure"}, Reviewer(result) PROVE kept
    BY <1>16, ReviewerDoes
  <1>17. CASE PrepareComment("review", "prepare_review_comment", "publish_review")
    BY <1>17, PrepareReviewDoes
  <1>18. CASE PublishComment("review", "publish_review", AfterReview)
    BY <1>18, PublishReviewDoes
  <1>19. CASE PrepareCheckpoint
    BY <1>19, PrepareCheckpointDoes DEF StepBaseline
  <1>20. CASE CompleteStep
    BY <1>20, CompleteStepDoes DEF StepCommitted
  <1>21. CASE PrepareFinalReview
    BY <1>21, PrepareFinalReviewDoes
  <1>22. ASSUME NEW result \in ValidationResults, FinalValidation(result) PROVE kept
    BY <1>22, FinalValidationDoes
  <1>23. CASE FinalCoderRefused
    BY <1>23, FinalCoderRefusedDoes
  <1>24. ASSUME NEW tree \in Trees, FinalCoderCompletes(tree) PROVE kept
    BY <1>24, FinalCoderCompletesDoes
  <1>25. ASSUME NEW tree \in Trees, FinalCoderAsks(tree) PROVE kept
    BY <1>25, FinalCoderAsksDoes
  <1>26. ASSUME NEW tree \in Trees, FinalCoderFails(tree) PROVE kept
    BY <1>26, FinalCoderFailsDoes
  <1>27. ASSUME NEW result \in {"approved", "changes_required", "review_failure"}, FinalReviewer(result) PROVE kept
    BY <1>27, FinalReviewerDoes
  <1>28. CASE IsolateFinalFailure
    BY <1>28, IsolateFinalFailureDoes
  <1>29. CASE PrepareFinalizeHistory
    BY <1>29, PrepareFinalizeHistoryDoes
  <1>30. CASE FinalizeHistory
    BY <1>30, FinalizeHistoryDoes DEF FinalCommitted
  <1>31. CASE PreparePushBranch
    BY <1>31, PreparePushBranchDoes
  <1>32. CASE PushBranch
    BY <1>32, PushBranchDoes
  <1>33. CASE PrepareDraftPR
    BY <1>33, PrepareDraftPRDoes
  <1>34. CASE CreateDraftPR
    BY <1>34, CreateDraftPRDoes
  <1>35. CASE Blocked
    BY <1>35, BlockedDoes
  <1>36. CASE Cleanup
    BY <1>36, CleanupDoes
  <1>37. CASE Ends
    BY <1>37 DEF Ends, outside
  <1>38. CASE Crashes
    BY <1>38 DEF Crashes, outside
  <1>39. ASSUME NEW tree \in Trees, CoderDies(tree) PROVE kept
    BY <1>39 DEF CoderDies, DiesUnsaved, Node
  <1>40. CASE ResumesBlocked
    BY <1>40, ResumesBlockedDoes
  <1>41. CASE ResumesInterrupted
    BY <1>41 DEF ResumesInterrupted, outside
  <1>43. CASE RepairAsked
    BY <1>43, RepairAskedDoes
  <1>44. CASE OperatorDiscards
    BY <1>44, OperatorDiscardsDoes
  <1>45. CASE SomebodyPushes
    BY <1>45 DEF SomebodyPushes
  <1>46. QED BY <1>2, <1>3, <1>4, <1>5, <1>6, <1>7, <1>8, <1>9, <1>10, <1>11,
      <1>12, <1>13, <1>14, <1>15, <1>16, <1>17, <1>18, <1>19, <1>20, <1>21, <1>22,
      <1>23, <1>24, <1>25, <1>26, <1>27, <1>28, <1>29, <1>30, <1>31, <1>32, <1>33,
      <1>34, <1>35, <1>36, <1>37, <1>38, <1>39, <1>40, <1>41, <1>43, <1>44,
      <1>45
    DEF WorkflowNext, NodeStep, PlanningStep, ImplementationStep, IntegrationStep,
        PublicationStep

LEMMA ForeignStep ==
  ASSUME Fields, RevisionsOK, FlagsOK, SpaceOK, PreparedInv, ForeignInv, WorkflowNext
  PROVE  ForeignInv'
  <1>1. CASE PrepareWorkspace
    <2>1. CASE UNCHANGED ckpt
      <3>1. ckpt.prepared => work' = work
        BY <1>1, <2>1 DEF PrepareWorkspace, PreparedInv
      <3>2. QED BY <2>1, <3>1 DEF ForeignInv, WorksWith
    <2>2. CASE ckpt'.prepared /\ ckpt.prepared /\ ckpt' # ckpt
      <3>1. work'.head = work.head /\ Local = work.head /\ ckpt'.issue_baseline = ckpt.issue_baseline
        BY <1>1, <2>2, PrepareWorkspaceDoes DEF Local, PreparedInv
      <3>2. WorksWith' \subseteq WorksWith \cup {NoRevision}
        BY <1>1, <2>2, <3>1, PrepareWorkspaceDoes DEF WorksWith, Only, Fields
      <3>3. QED BY <2>2, <3>1, <3>2 DEF ForeignInv
    <2>3. CASE ckpt'.prepared /\ ~ckpt.prepared /\ ckpt' # ckpt
      <3>1. WorksWith' \subseteq {NoRevision, Local} /\ ckpt'.issue_baseline = Local
        BY <1>1, <2>3, PrepareWorkspaceDoes DEF WorksWith, Only, Fields, PreparedInv
      <3>2. QED BY <3>1, SameForeignIsEquivalence DEF ForeignInv
    <2>4. ckpt' # ckpt => ckpt'.prepared
      BY <1>1, PrepareWorkspaceDoes
    <2>5. QED BY <2>1, <2>2, <2>3, <2>4 DEF FlagsOK
  <1>2. CASE StartsOver
    BY <1>2 DEF StartsOver, InitialState, ForeignInv
  <1>3. CASE ~PrepareWorkspace /\ ~StartsOver
    <2>1. /\ ckpt'.prepared = ckpt.prepared /\ ckpt'.issue_baseline = ckpt.issue_baseline
          /\ WorksWith' \subseteq WorksWith \cup {NoRevision, StepCommit, Finalized}
      BY <1>3, WorksWithStep
    <2>2. ASSUME ckpt.prepared, NEW h \in {StepCommit, Finalized}
          PROVE  SameForeign(h, ckpt.issue_baseline)
      <3>1. SameForeign(work.head, ckpt.issue_baseline)
        BY <2>2 DEF ForeignInv, PreparedInv, WorksWith
      <3>2. QED BY <2>2, <3>1, NewRevisionsKeepForeign, SameForeignIsEquivalence
    <2>3. QED BY <2>1, <2>2 DEF ForeignInv
  <1>4. QED BY <1>1, <1>2, <1>3

ForeignIInv == TypeInv /\ PreparedInv /\ ForeignInv

LEMMA ForeignInit == ASSUME WorkflowInit PROVE ForeignIInv
  <1>1. PICK simplified \in BOOLEAN : ckpt = InitialState(simplified)
    BY DEF WorkflowInit
  <1>2. PreparedInv /\ ForeignInv
    BY <1>1 DEF WorkflowInit, InitialState, PreparedInv, PlanNodes, PlanStages, ForeignInv
  <1>3. QED BY <1>2, TypeInit DEF ForeignIInv

LEMMA ForeignNext == ASSUME ForeignIInv, [WorkflowNext]_workflowVars PROVE ForeignIInv'
  <1>1. CASE WorkflowNext
    <2>1. Fields
      BY RecordFields DEF ForeignIInv, TypeInv
    <2>2. PreparedInv' /\ ForeignInv'
      BY <1>1, <2>1, PreparedStep, ForeignStep DEF ForeignIInv, TypeInv
    <2>3. QED BY <1>1, <2>2, TypeStep DEF ForeignIInv
  <1>2. CASE UNCHANGED workflowVars
    BY <1>2, TypeStutter DEF ForeignIInv, PreparedInv, ForeignInv, WorksWith, workflowVars, outside
  <1>3. QED BY <1>1, <1>2

LEMMA ForeignIsInductive == WorkflowSpec => []ForeignIInv
  BY ForeignInit, ForeignNext, PTL DEF WorkflowSpec

\* What changes the branch.
LEMMA RemoteStep ==
  ASSUME Fields, WorkflowNext
  PROVE  remote' = remote \/ (PushBranch /\ Pushed) \/ remote' = Foreign(remote)
  <1>1. CASE PlanningStep
    BY <1>1, PreparePlanDoes, PublishPlanDoes, PrepareWorkspaceDoes, PlannerFailsDoes,
       PlannerPlansDoes, AwaitingUserInputDoes, StartEnvironmentDoes DEF PlanningStep, outside
  <1>2. CASE ImplementationStep
    BY <1>2, PrepareCurrentStepDoes, CoderRefusedDoes, CoderCompletesDoes, CoderAsksDoes,
       CoderFailsDoes, RunValidationDoes, IsolateFailureDoes, ReviewerDoes, PrepareReviewDoes,
       PublishReviewDoes, PrepareCheckpointDoes, CompleteStepDoes
    DEF ImplementationStep, NoSuchStep, outside
  <1>3. CASE IntegrationStep
    BY <1>3, PrepareFinalReviewDoes, FinalValidationDoes, FinalCoderRefusedDoes,
       FinalCoderCompletesDoes, FinalCoderAsksDoes, FinalCoderFailsDoes, FinalReviewerDoes,
       IsolateFinalFailureDoes, PrepareFinalizeHistoryDoes, FinalizeHistoryDoes
    DEF IntegrationStep, outside
  <1>4. CASE PublicationStep
    BY <1>4, PreparePushBranchDoes, PushBranchDoes, PrepareDraftPRDoes, CreateDraftPRDoes,
       BlockedDoes, CleanupDoes DEF PublicationStep, Ends, outside
  <1>5. CASE ProcessStep
    BY <1>5, ResumesBlockedDoes, RepairAskedDoes, OperatorDiscardsDoes
    DEF ProcessStep, Crashes, CoderDies, ResumesInterrupted, StartsOver, SomebodyPushes, outside
  <1>6. QED BY <1>1, <1>2, <1>3, <1>4, <1>5 DEF WorkflowNext, NodeStep, ProcessStep

\* A commit somebody else pushed to the issue branch is never overwritten, however old
\* the revision the push was prepared for, and whatever was retried, resumed or started
\* over in between (prepare_push_branch_node, push_branch).
THEOREM OthersCommitsSurvive == WorkflowSpec => ForeignCommitsSurvive
  <1>1. ForeignIInv /\ [WorkflowNext]_workflowVars => KeepsForeign(remote, remote')
    <2> SUFFICES ASSUME ForeignIInv, [WorkflowNext]_workflowVars PROVE KeepsForeign(remote, remote')
      OBVIOUS
    <2>1. Fields /\ IsRevision(remote)
      BY RecordFields DEF ForeignIInv, TypeInv, RevisionsOK, Known
    <2>2. CASE remote' = remote
      BY <2>2 DEF KeepsForeign
    <2>3. CASE remote' = Foreign(remote)
      BY <2>1, <2>3, ForeignKeepsForeign
    <2>4. CASE PushBranch /\ Pushed
      <3>1. /\ remote = ckpt.expected /\ remote' = work.head /\ ckpt.prepared
            /\ work.head # NoRevision
        BY <2>1, <2>4, PushBranchDoes DEF Pushed, ForeignIInv, PreparedInv
      <3>2. CASE remote = NoRevision
        BY <3>2 DEF KeepsForeign, NoRevision
      <3>3. CASE remote # NoRevision
        <4>1. SameForeign(remote, ckpt.issue_baseline) /\ SameForeign(work.head, ckpt.issue_baseline)
          BY <3>1, <3>3 DEF ForeignIInv, ForeignInv, WorksWith
        <4>2. QED BY <3>1, <4>1, SameForeignIsEquivalence DEF SameForeign
      <3>4. QED BY <3>2, <3>3
    <2>5. CASE UNCHANGED workflowVars
      BY <2>5 DEF workflowVars, outside, KeepsForeign
    <2>6. QED BY <2>1, <2>2, <2>3, <2>4, <2>5, RemoteStep
  <1>2. ForeignIInv /\ [WorkflowNext]_workflowVars =>
          [\A i \in DOMAIN remote :
             remote[i].kind = "foreign" => i \in DOMAIN remote' /\ remote'[i] = remote[i]]_workflowVars
    BY <1>1 DEF KeepsForeign
  <1>3. QED BY <1>2, ForeignIsInductive, PTL DEF WorkflowSpec, ForeignCommitsSurvive

=============================================================================
