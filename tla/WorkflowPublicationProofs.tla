----------------------- MODULE WorkflowPublicationProofs -----------------------
(***************************************************************************)
(* Proofs about what Workflow commits and pushes: only what was validated   *)
(* and approved as a whole is pushed, and the checkpoint tells at every     *)
(* node what HEAD of the workspace and the issue branch are.                *)
(***************************************************************************)
EXTENDS WorkflowProofs

-----------------------------------------------------------------------------
(* The inductive invariant *)

\* The nodes on the way to the end, which do nothing with the workspace.
Stops == {"blocked", "cleanup", "END"}

\* The workflow is at a node, or stopped at a stage.
At(nodes, stages) == ckpt.next \in nodes \/ (ckpt.next \in Stops /\ ckpt.stage \in stages)

\* Of a cleanup that failed, no stage is left in the checkpoint.
Clean == ckpt.cleanup_stage = ""

\* The stages of a step, at which it is resumed as it is.
StepStages ==
  {"reviewer", "prepare_review_comment", "publish_review", "prepare_checkpoint",
   "complete_step"}

PushNodes == {"prepare_push_branch", "push_branch"}

FinalizeNodes == {"prepare_finalize_history", "finalize_history"}

\* Where the whole plan was validated.
ReviewedNodes == {"final_reviewer", "prepare_finalize_history", "finalize_history"}

\* Where no intent to make the final commit is prepared.
BeforeFinal ==
  {"prepare_final_review", "final_validation", "final_integration_coder",
   "isolate_final_failure", "final_reviewer", "prepare_finalize_history"}

BeforeFinalStages == {"prepare_final_review", "final_integration_coder", "final_reviewer"}

\* commit_step or finalize_checkpoint_history is next.
AtCheckpoint == At({"complete_step"}, {"prepare_checkpoint", "complete_step"})
AtFinalize == At({"finalize_history"}, FinalizeNodes)

\* A final commit has contents that were approved, and is not the commit it names.
FinalCommitInv ==
  /\ \A h \in Known :
       EndsWith(h, "final") => TreeOf(h) \in vetted /\ Tip(h).of # h
  /\ ckpt.final_commit # NoRevision => TreeOf(ckpt.final_commit) \in vetted

\* What is about to become the final commit was approved.  A cleanup that failed there
\* sends the workflow back there, but from nowhere where contents change.
ApprovedInv ==
  /\ {ckpt.next, ckpt.stage, ckpt.cleanup_stage} \cap FinalizeNodes # {} =>
       work.tree \in vetted
  /\ ckpt.stage \in FinalizeNodes => ckpt.next \in Stops
  /\ ckpt.cleanup_stage \in FinalizeNodes =>
       /\ ckpt.next \in FinalizeNodes \cup PushNodes \cup Stops
                          \cup {"prepare_draft_pr", "create_draft_pr"}
       /\ ckpt.stage \in FinalizeNodes \cup PushNodes
                           \cup {"", "prepare_draft_pr", "create_draft_pr", "cleanup"}

\* What is about to become the final commit, or is pushed, passed the validation of the
\* whole plan.
PassedInv ==
  Clean =>
    /\ At(ReviewedNodes, ReviewedNodes) => work.tree \in passed
    /\ At(PushNodes, PushNodes) => TreeOf(ckpt.final_commit) \in passed

\* A workflow that is blocked stops at the next node that looks.
BlockedInv ==
  ckpt.status = "blocked" =>
    \/ ckpt.next \in Stops
    \/ ckpt.next = "publish_plan" /\ ckpt.stage = "prepare_plan_comment"
    \/ ckpt.next = "publish_review" /\ ckpt.stage = "prepare_review_comment"
    \/ ckpt.next = "complete_step" /\ ckpt.stage = "prepare_checkpoint"

\* Where the prepared intents are from, as far as a later node relies on it.
IntentInv ==
  Clean =>
    /\ At(BeforeFinal, BeforeFinalStages) =>
         ckpt.intent # "final"
    /\ AtCheckpoint /\ ckpt.intent = "none" => ckpt.step_baseline = NoRevision
    /\ AtFinalize /\ ckpt.intent = "final" /\ FinalIsHead => ~Dirty

\* HEAD of the workspace is what the place tells.
HeadInv ==
  Clean =>
    /\ At(StepNodes, StepStages) =>
         work.head = StepBaseline \/ (AtCheckpoint /\ CheckpointIsHead)
    /\ At(PlanNodes, PlanStages) =>
         \/ work.head = ckpt.final_baseline
         \/ AtFinalize /\ ckpt.intent = "final" /\ FinalIsHead
    /\ At(PushNodes, PushNodes) => work.head = ckpt.final_commit

\* What was pushed is known until there is a pull request, and no other commit takes its
\* place, for the intent to push is on record.
RemoteInv ==
  ckpt.prepared /\ ~ckpt.pr /\ Own(remote) =>
    \/ remote = ckpt.remote_baseline
    \/ /\ remote = ckpt.final_commit
       /\ ckpt.intent \in {"push", "pr"} \/ ckpt.next = "prepare_draft_pr"


PublicationIInv ==
  /\ TypeInv /\ PreparedInv
  /\ FinalCommitInv /\ ApprovedInv /\ PassedInv
  /\ BlockedInv /\ IntentInv /\ HeadInv /\ RemoteInv

-----------------------------------------------------------------------------
(* The commits a workflow makes *)

\* The last commit of a revision that got one.
LEMMA TipOfCommit ==
  ASSUME NEW h, IsRevision(h), NEW kind, NEW step, NEW tree, NEW of
  PROVE  LET g == Commit(h, kind, step, tree, of)
         IN  /\ g # NoRevision /\ Tip(g).kind = kind /\ Tip(g).step = step
             /\ Tip(g).tree = tree /\ Tip(g).of = of /\ TreeOf(g) = tree
  <1> DEFINE c == [kind |-> kind, step |-> step, tree |-> tree, of |-> of]
             g == Append(h, c)
  <1>1. c.kind = kind /\ c.step = step /\ c.tree = tree /\ c.of = of
    OBVIOUS
  <1> HIDE DEF c
  <1>2. IsSequence(h)
    BY DEF IsRevision, IsSequence
  <1>3. g # NoRevision /\ Len(g) = Len(h) + 1 /\ g[Len(h) + 1] = c
    BY <1>2, Appended
  <1>4. Tip(g) = c
    BY <1>3 DEF Tip
  <1>5. g = Commit(h, kind, step, tree, of)
    BY DEF Commit, c
  <1>6. QED BY <1>1, <1>3, <1>4, <1>5 DEF TreeOf

LEMMA CommitsEnd ==
  ASSUME RevisionsOK
  PROVE  /\ ~EndsWith(NoRevision, "final") /\ ~EndsWith(Base, "final")
         /\ ~EndsWith(StepCommit, "final") /\ ~EndsWith(Foreign(remote), "final")
         /\ ~Own(Foreign(remote))
         /\ TreeOf(StepCommit) = work.tree /\ Tip(StepCommit).of = StepParent
         /\ Tip(StepCommit).step = ckpt.step /\ EndsWith(StepCommit, "step")
         /\ \/ Finalized = work.head /\ ckpt.simplified /\ ~Dirty
            \/ /\ EndsWith(Finalized, "final") /\ TreeOf(Finalized) = work.tree
               /\ Tip(Finalized).of = ckpt.expected
  <1>1. IsRevision(work.head) /\ IsRevision(ckpt.issue_baseline) /\ IsRevision(remote)
    BY DEF RevisionsOK, Known
  <1>2. ~EndsWith(NoRevision, "final")
    BY DEF EndsWith
  <1>3. Tip(Base).kind = "base"
    BY NoRevisionIsRevision, TipOfCommit DEF Base
  <1>4. TreeOf(StepCommit) = work.tree /\ Tip(StepCommit).of = StepParent
        /\ Tip(StepCommit).step = ckpt.step /\ Tip(StepCommit).kind = "step"
        /\ EndsWith(StepCommit, "step")
    BY <1>1, TipOfCommit DEF StepCommit, EndsWith
  <1>5. Tip(Foreign(remote)).kind = "foreign"
    BY <1>1, BaseIsRevision, TipOfCommit DEF Foreign
  <1>6. \/ Finalized = work.head /\ ckpt.simplified /\ ~Dirty
        \/ /\ EndsWith(Finalized, "final") /\ TreeOf(Finalized) = work.tree
           /\ Tip(Finalized).of = ckpt.expected
    <2>1. IsRevision(FinalParent)
      BY <1>1 DEF FinalParent
    <2>2. QED BY <2>1, TipOfCommit DEF Finalized, EndsWith
  <1>7. QED BY <1>2, <1>3, <1>4, <1>5, <1>6 DEF EndsWith, Own

\* Whether HEAD is the commit an intent announces is up to the intent and to HEAD.
LEMMA SameFinal ==
  ASSUME ckpt'.expected = ckpt.expected, work'.head = work.head
  PROVE  FinalIsHead' = FinalIsHead
  BY DEF FinalIsHead, IsFinal

LEMMA SameCheckpoint ==
  ASSUME ckpt'.intent = ckpt.intent, ckpt'.expected = ckpt.expected, ckpt'.step = ckpt.step,
         ckpt'.step_baseline = ckpt.step_baseline, work'.head = work.head
  PROVE  CheckpointIsHead' = CheckpointIsHead
  BY DEF CheckpointIsHead, IsCheckpoint, StepParent

LEMMA SameBaseline ==
  ASSUME ckpt'.step_baseline = ckpt.step_baseline, work'.head = work.head
  PROVE  StepBaseline' = StepBaseline
  BY DEF StepBaseline

LEMMA SameContents ==
  ASSUME work'.tree = work.tree, work'.head = work.head
  PROVE  Dirty' = Dirty
  BY DEF Dirty

\* The stages from which a final commit is made or published.
LEMMA ResumesPublication ==
  ASSUME Fields, NEW stage \in DOMAIN ResumeNode
  PROVE  /\ ResumeNode[stage] \in FinalizeNodes => stage \in FinalizeNodes
         /\ stage \in FinalizeNodes => ResumeNode[stage] = "finalize_history"
         /\ ResumeNode[stage] \in PushNodes => stage \in PushNodes
         /\ stage \in PushNodes \cup {"prepare_draft_pr", "create_draft_pr", "cleanup"} =>
              ResumeNode[stage] \in {stage, "cleanup"}
         /\ stage # ""
         /\ ResumeNode[stage] = "final_reviewer" => stage = "final_reviewer"
         /\ ResumeNode[stage] # "prepare_draft_pr" \/ stage = "prepare_draft_pr"
  BY ResumesAt
     DEF AfterPlan, AfterValidation, AfterReview, AfterFinalValidation, AfterFinalFailure,
         FinalizeNodes, PushNodes

\* The places a resumption leads to are those the workflow was blocked at.
LEMMA ResumesWhereBlocked ==
  ASSUME Fields, BlockedInv, ResumesBlocked
  PROVE  /\ At(ReviewedNodes, ReviewedNodes)' => At(ReviewedNodes, ReviewedNodes)
         /\ At(PushNodes, PushNodes)' => At(PushNodes, PushNodes)
         /\ At(BeforeFinal, BeforeFinalStages)' => At(BeforeFinal, BeforeFinalStages)
         /\ At(StepNodes, StepStages)' => At(StepNodes, StepStages)
         /\ At(PlanNodes, PlanStages)' => At(PlanNodes, PlanStages)
         /\ AtCheckpoint' <=> AtCheckpoint
         /\ AtFinalize' <=> AtFinalize
         /\ ckpt'.step = ckpt.step \/ ckpt'.next = "planner"
         /\ ckpt.next # "prepare_draft_pr"
  <1> USE DEF ReviewedNodes, PushNodes, BeforeFinal, BeforeFinalStages, StepNodes,
              StepStages,
              PlanNodes, PlanStages, FinalizeNodes, Stops
  <1>1. /\ ckpt.stage \in DOMAIN ResumeNode
        /\ ckpt'.next = ResumeNode[ckpt.stage] /\ ckpt'.stage = ""
        /\ ckpt.status = "blocked"
        /\ ckpt'.step = ckpt.step \/ ckpt.stage = "awaiting_user_input"
    BY ResumesBlockedDoes DEF Moves
  <1>2. \/ ckpt.next \in Stops
        \/ ckpt.next = "publish_plan" /\ ckpt.stage = "prepare_plan_comment"
        \/ ckpt.next = "publish_review" /\ ckpt.stage = "prepare_review_comment"
        \/ ckpt.next = "complete_step" /\ ckpt.stage = "prepare_checkpoint"
    BY <1>1 DEF BlockedInv
  <1>3. /\ ckpt'.next \in ReviewedNodes => ckpt.stage \in ReviewedNodes
        /\ ckpt'.next \in PushNodes => ckpt.stage \in PushNodes
        /\ ckpt'.next \in BeforeFinal => ckpt.stage \in BeforeFinalStages
        /\ ckpt'.next \in StepNodes => ckpt.stage \in StepStages
        /\ ckpt'.next \in PlanNodes => ckpt.stage \in PlanStages
        /\ ckpt'.next = "complete_step" =>
           ckpt.stage \in {"prepare_checkpoint", "complete_step"}
        /\ ckpt'.next = "finalize_history" => ckpt.stage \in FinalizeNodes
        /\ ckpt.stage \in {"prepare_checkpoint", "complete_step"} =>
           ckpt'.next = "complete_step"
        /\ ckpt.stage \in FinalizeNodes => ckpt'.next = "finalize_history"
        /\ ckpt.stage = "awaiting_user_input" => ckpt'.next = "planner"
    BY <1>1, ResumesAt
       DEF AfterPlan, AfterValidation, AfterReview, AfterFinalValidation, AfterFinalFailure
  <1>4. /\ At(ReviewedNodes, ReviewedNodes)' => At(ReviewedNodes, ReviewedNodes)
        /\ At(PushNodes, PushNodes)' => At(PushNodes, PushNodes)
        /\ At(BeforeFinal, BeforeFinalStages)' => At(BeforeFinal, BeforeFinalStages)
        /\ At(StepNodes, StepStages)' => At(StepNodes, StepStages)
        /\ At(PlanNodes, PlanStages)' => At(PlanNodes, PlanStages)
        /\ AtCheckpoint' <=> AtCheckpoint
        /\ AtFinalize' <=> AtFinalize
    BY <1>1, <1>2, <1>3 DEF At, AtCheckpoint, AtFinalize
  <1>5. QED BY <1>1, <1>2, <1>3, <1>4

-----------------------------------------------------------------------------
(* What a step preserves *)

\* What was validated or approved once remains so.
LEMMA VettedStep ==
  ASSUME Fields, WorkflowNext
  PROVE  vetted \subseteq vetted' /\ passed \subseteq passed'
  <1> USE DEF Fields, Only, Moves, BlockedAt, StoppedAt, outside
  <1>1. CASE PrepareWorkspace
    BY <1>1, PrepareWorkspaceDoes
  <1>2. CASE PlannerFails
    BY <1>2, PlannerFailsDoes
  <1>3. ASSUME NEW asks \in BOOLEAN, PlannerPlans(asks)
          PROVE  vetted \subseteq vetted' /\ passed \subseteq passed'
    BY <1>3, PlannerPlansDoes
  <1>4. CASE PrepareComment("plan", "prepare_plan_comment", "publish_plan")
    BY <1>4, PreparePlanDoes
  <1>5. CASE PublishComment("plan", "publish_plan", AfterPlan)
    BY <1>5, PublishPlanDoes
  <1>6. CASE AwaitingUserInput
    BY <1>6, AwaitingUserInputDoes
  <1>7. CASE StartEnvironment
    BY <1>7, StartEnvironmentDoes
  <1>8. CASE NoSuchStep
    BY <1>8 DEF NoSuchStep, Raises, outside
  <1>9. CASE PrepareCurrentStep
    BY <1>9, PrepareCurrentStepDoes
  <1>10. CASE CoderRefused
    BY <1>10, CoderRefusedDoes
  <1>11. ASSUME NEW tree \in Trees, CoderCompletes(tree)
          PROVE  vetted \subseteq vetted' /\ passed \subseteq passed'
    BY <1>11, CoderCompletesDoes
  <1>12. ASSUME NEW tree \in Trees, CoderAsks(tree)
          PROVE  vetted \subseteq vetted' /\ passed \subseteq passed'
    BY <1>12, CoderAsksDoes
  <1>13. ASSUME NEW tree \in Trees, CoderFails(tree)
          PROVE  vetted \subseteq vetted' /\ passed \subseteq passed'
    BY <1>13, CoderFailsDoes
  <1>14. ASSUME NEW result \in ValidationResults, RunValidation(result)
          PROVE  vetted \subseteq vetted' /\ passed \subseteq passed'
    BY <1>14, RunValidationDoes
  <1>15. CASE IsolateFailure
    BY <1>15, IsolateFailureDoes
  <1>16. ASSUME NEW result \in {"approved", "changes_required", "review_failure"},
                Reviewer(result)
          PROVE  vetted \subseteq vetted' /\ passed \subseteq passed'
    BY <1>16, ReviewerDoes
  <1>17. CASE PrepareComment("review", "prepare_review_comment", "publish_review")
    BY <1>17, PrepareReviewDoes
  <1>18. CASE PublishComment("review", "publish_review", AfterReview)
    BY <1>18, PublishReviewDoes
  <1>19. CASE PrepareCheckpoint
    BY <1>19, PrepareCheckpointDoes
  <1>20. CASE CompleteStep
    BY <1>20, CompleteStepDoes
  <1>21. CASE PrepareFinalReview
    BY <1>21, PrepareFinalReviewDoes
  <1>22. ASSUME NEW result \in ValidationResults, FinalValidation(result)
          PROVE  vetted \subseteq vetted' /\ passed \subseteq passed'
    BY <1>22, FinalValidationDoes
  <1>23. CASE FinalCoderRefused
    BY <1>23, FinalCoderRefusedDoes
  <1>24. ASSUME NEW tree \in Trees, FinalCoderCompletes(tree)
          PROVE  vetted \subseteq vetted' /\ passed \subseteq passed'
    BY <1>24, FinalCoderCompletesDoes
  <1>25. ASSUME NEW tree \in Trees, FinalCoderAsks(tree)
          PROVE  vetted \subseteq vetted' /\ passed \subseteq passed'
    BY <1>25, FinalCoderAsksDoes
  <1>26. ASSUME NEW tree \in Trees, FinalCoderFails(tree)
          PROVE  vetted \subseteq vetted' /\ passed \subseteq passed'
    BY <1>26, FinalCoderFailsDoes
  <1>27. ASSUME NEW result \in {"approved", "changes_required", "review_failure"},
                FinalReviewer(result)
          PROVE  vetted \subseteq vetted' /\ passed \subseteq passed'
    BY <1>27, FinalReviewerDoes
  <1>28. CASE IsolateFinalFailure
    BY <1>28, IsolateFinalFailureDoes
  <1>29. CASE PrepareFinalizeHistory
    BY <1>29, PrepareFinalizeHistoryDoes
  <1>30. CASE FinalizeHistory
    BY <1>30, FinalizeHistoryDoes
  <1>31. CASE PreparePushBranch
    BY <1>31, PreparePushBranchDoes
  <1>32. CASE PushBranch
    BY <1>32, PushBranchDoes
  <1>33. CASE PrepareDraftPR
    BY <1>33, PrepareDraftPRDoes
  <1>34. CASE CreateDraftPR
    BY <1>34, CreateDraftPRDoes
  <1>35. CASE Blocked
    BY <1>35, BlockedDoes
  <1>36. CASE Cleanup
    BY <1>36, CleanupDoes
  <1>37. CASE Ends
    BY <1>37 DEF Ends, outside
  <1>38. CASE Crashes
    BY <1>38 DEF Crashes, outside
  <1>39. ASSUME NEW tree \in Trees, CoderDies(tree)
          PROVE  vetted \subseteq vetted' /\ passed \subseteq passed'
    BY <1>39 DEF CoderDies, DiesUnsaved, Node
  <1>40. CASE ResumesBlocked
    BY <1>40, ResumesBlockedDoes
  <1>41. CASE ResumesInterrupted
    BY <1>41 DEF ResumesInterrupted, outside
  <1>42. CASE StartsOver
    BY <1>42 DEF StartsOver, outside, InitialState
  <1>43. CASE RepairAsked
    BY <1>43, RepairAskedDoes
  <1>44. CASE OperatorDiscards
    BY <1>44, OperatorDiscardsDoes
  <1>45. CASE SomebodyPushes
    BY <1>45 DEF SomebodyPushes
  <1>46. QED BY <1>1, <1>2, <1>3, <1>4, <1>5, <1>6, <1>7, <1>8, <1>9, <1>10, <1>11,
      <1>12, <1>13, <1>14, <1>15, <1>16, <1>17, <1>18, <1>19, <1>20, <1>21, <1>22,
      <1>23, <1>24, <1>25, <1>26, <1>27, <1>28, <1>29, <1>30, <1>31, <1>32, <1>33,
      <1>34, <1>35, <1>36, <1>37, <1>38, <1>39, <1>40, <1>41, <1>42, <1>43, <1>44,
      <1>45
    DEF WorkflowNext, NodeStep, PlanningStep, ImplementationStep, IntegrationStep,
        PublicationStep

\* A workflow that is blocked stops.
LEMMA BlockedStep ==
  ASSUME Fields, BlockedInv, WorkflowNext
  PROVE  BlockedInv'
  <1> USE DEF Fields, Only, Moves, BlockedAt, StoppedAt, BlockedInv, Stops, outside
  <1>1. CASE PrepareWorkspace
    BY <1>1, PrepareWorkspaceDoes
  <1>2. CASE PlannerFails
    BY <1>2, PlannerFailsDoes
  <1>3. ASSUME NEW asks \in BOOLEAN, PlannerPlans(asks) PROVE BlockedInv'
    BY <1>3, PlannerPlansDoes
  <1>4. CASE PrepareComment("plan", "prepare_plan_comment", "publish_plan")
    BY <1>4, PreparePlanDoes
  <1>5. CASE PublishComment("plan", "publish_plan", AfterPlan)
    BY <1>5, PublishPlanDoes
  <1>6. CASE AwaitingUserInput
    BY <1>6, AwaitingUserInputDoes
  <1>7. CASE StartEnvironment
    BY <1>7, StartEnvironmentDoes
  <1>8. CASE NoSuchStep
    BY <1>8 DEF NoSuchStep, Raises, outside
  <1>9. CASE PrepareCurrentStep
    BY <1>9, PrepareCurrentStepDoes
  <1>10. CASE CoderRefused
    BY <1>10, CoderRefusedDoes
  <1>11. ASSUME NEW tree \in Trees, CoderCompletes(tree) PROVE BlockedInv'
    BY <1>11, CoderCompletesDoes
  <1>12. ASSUME NEW tree \in Trees, CoderAsks(tree) PROVE BlockedInv'
    BY <1>12, CoderAsksDoes
  <1>13. ASSUME NEW tree \in Trees, CoderFails(tree) PROVE BlockedInv'
    BY <1>13, CoderFailsDoes
  <1>14. ASSUME NEW result \in ValidationResults, RunValidation(result) PROVE BlockedInv'
    BY <1>14, RunValidationDoes
  <1>15. CASE IsolateFailure
    BY <1>15, IsolateFailureDoes
  <1>16. ASSUME NEW result \in {"approved", "changes_required", "review_failure"},
                Reviewer(result)
          PROVE  BlockedInv'
    BY <1>16, ReviewerDoes
  <1>17. CASE PrepareComment("review", "prepare_review_comment", "publish_review")
    BY <1>17, PrepareReviewDoes
  <1>18. CASE PublishComment("review", "publish_review", AfterReview)
    BY <1>18, PublishReviewDoes
  <1>19. CASE PrepareCheckpoint
    BY <1>19, PrepareCheckpointDoes
  <1>20. CASE CompleteStep
    BY <1>20, CompleteStepDoes DEF AfterStepDone
  <1>21. CASE PrepareFinalReview
    BY <1>21, PrepareFinalReviewDoes
  <1>22. ASSUME NEW result \in ValidationResults, FinalValidation(result)
          PROVE  BlockedInv'
    BY <1>22, FinalValidationDoes
  <1>23. CASE FinalCoderRefused
    BY <1>23, FinalCoderRefusedDoes
  <1>24. ASSUME NEW tree \in Trees, FinalCoderCompletes(tree) PROVE BlockedInv'
    BY <1>24, FinalCoderCompletesDoes
  <1>25. ASSUME NEW tree \in Trees, FinalCoderAsks(tree) PROVE BlockedInv'
    BY <1>25, FinalCoderAsksDoes
  <1>26. ASSUME NEW tree \in Trees, FinalCoderFails(tree) PROVE BlockedInv'
    BY <1>26, FinalCoderFailsDoes
  <1>27. ASSUME NEW result \in {"approved", "changes_required", "review_failure"},
                FinalReviewer(result)
          PROVE  BlockedInv'
    BY <1>27, FinalReviewerDoes
  <1>28. CASE IsolateFinalFailure
    BY <1>28, IsolateFinalFailureDoes
  <1>29. CASE PrepareFinalizeHistory
    BY <1>29, PrepareFinalizeHistoryDoes
  <1>30. CASE FinalizeHistory
    BY <1>30, FinalizeHistoryDoes
  <1>31. CASE PreparePushBranch
    BY <1>31, PreparePushBranchDoes
  <1>32. CASE PushBranch
    BY <1>32, PushBranchDoes
  <1>33. CASE PrepareDraftPR
    BY <1>33, PrepareDraftPRDoes
  <1>34. CASE CreateDraftPR
    BY <1>34, CreateDraftPRDoes
  <1>35. CASE Blocked
    BY <1>35, BlockedDoes
  <1>36. CASE Cleanup
    BY <1>36, CleanupDoes
  <1>37. CASE Ends
    BY <1>37 DEF Ends, outside
  <1>38. CASE Crashes
    BY <1>38 DEF Crashes, outside
  <1>39. ASSUME NEW tree \in Trees, CoderDies(tree) PROVE BlockedInv'
    BY <1>39 DEF CoderDies, DiesUnsaved, Node
  <1>40. CASE ResumesBlocked
    BY <1>40, ResumesBlockedDoes
  <1>41. CASE ResumesInterrupted
    BY <1>41 DEF ResumesInterrupted, outside
  <1>42. CASE StartsOver
    BY <1>42 DEF StartsOver, outside, InitialState
  <1>43. CASE RepairAsked
    BY <1>43, RepairAskedDoes
  <1>44. CASE OperatorDiscards
    BY <1>44, OperatorDiscardsDoes
  <1>45. CASE SomebodyPushes
    BY <1>45 DEF SomebodyPushes
  <1>46. QED BY <1>1, <1>2, <1>3, <1>4, <1>5, <1>6, <1>7, <1>8, <1>9, <1>10, <1>11,
      <1>12, <1>13, <1>14, <1>15, <1>16, <1>17, <1>18, <1>19, <1>20, <1>21, <1>22,
      <1>23, <1>24, <1>25, <1>26, <1>27, <1>28, <1>29, <1>30, <1>31, <1>32, <1>33,
      <1>34, <1>35, <1>36, <1>37, <1>38, <1>39, <1>40, <1>41, <1>42, <1>43, <1>44,
      <1>45
    DEF WorkflowNext, NodeStep, PlanningStep, ImplementationStep, IntegrationStep,
        PublicationStep

\* Only approved contents reach the stages of the final commit.
LEMMA ApprovedStep ==
  ASSUME Fields, SpaceOK, ApprovedInv, WorkflowNext
  PROVE  ApprovedInv'
  <1> USE DEF Fields, Only, Moves, BlockedAt, StoppedAt, ApprovedInv, FinalizeNodes,
          PushNodes, Stops, HeadIs, outside
  <1>1. CASE PrepareWorkspace
    BY <1>1, PrepareWorkspaceDoes DEF SpaceOK
  <1>2. CASE PlannerFails
    BY <1>2, PlannerFailsDoes
  <1>3. ASSUME NEW asks \in BOOLEAN, PlannerPlans(asks) PROVE ApprovedInv'
    BY <1>3, PlannerPlansDoes
  <1>4. CASE PrepareComment("plan", "prepare_plan_comment", "publish_plan")
    BY <1>4, PreparePlanDoes
  <1>5. CASE PublishComment("plan", "publish_plan", AfterPlan)
    <2>1. AfterPlan \notin FinalizeNodes
      BY DEF AfterPlan, FinalizeNodes
    <2>2. QED BY <1>5, <2>1, PublishPlanDoes
  <1>6. CASE AwaitingUserInput
    BY <1>6, AwaitingUserInputDoes
  <1>7. CASE StartEnvironment
    BY <1>7, StartEnvironmentDoes
  <1>8. CASE NoSuchStep
    BY <1>8 DEF NoSuchStep, Raises, outside
  <1>9. CASE PrepareCurrentStep
    BY <1>9, PrepareCurrentStepDoes
  <1>10. CASE CoderRefused
    BY <1>10, CoderRefusedDoes
  <1>11. ASSUME NEW tree \in Trees, CoderCompletes(tree) PROVE ApprovedInv'
    BY <1>11, CoderCompletesDoes
  <1>12. ASSUME NEW tree \in Trees, CoderAsks(tree) PROVE ApprovedInv'
    BY <1>12, CoderAsksDoes
  <1>13. ASSUME NEW tree \in Trees, CoderFails(tree) PROVE ApprovedInv'
    BY <1>13, CoderFailsDoes
  <1>14. ASSUME NEW result \in ValidationResults, RunValidation(result)
          PROVE  ApprovedInv'
    BY <1>14, RunValidationDoes DEF AfterValidation
  <1>15. CASE IsolateFailure
    BY <1>15, IsolateFailureDoes DEF AfterFailedAttempt
  <1>16. ASSUME NEW result \in {"approved", "changes_required", "review_failure"},
                Reviewer(result)
          PROVE  ApprovedInv'
    BY <1>16, ReviewerDoes
  <1>17. CASE PrepareComment("review", "prepare_review_comment", "publish_review")
    BY <1>17, PrepareReviewDoes
  <1>18. CASE PublishComment("review", "publish_review", AfterReview)
    <2>1. AfterReview \notin FinalizeNodes
      BY DEF AfterReview, FinalizeNodes
    <2>2. QED BY <1>18, <2>1, PublishReviewDoes
  <1>19. CASE PrepareCheckpoint
    BY <1>19, PrepareCheckpointDoes
  <1>20. CASE CompleteStep
    BY <1>20, CompleteStepDoes DEF AfterStepDone, StepCommitted
  <1>21. CASE PrepareFinalReview
    BY <1>21, PrepareFinalReviewDoes
  <1>22. ASSUME NEW result \in ValidationResults, FinalValidation(result)
          PROVE  ApprovedInv'
    BY <1>22, FinalValidationDoes DEF AfterFinalValidation, AfterFinalFailure
  <1>23. CASE FinalCoderRefused
    BY <1>23, FinalCoderRefusedDoes
  <1>24. ASSUME NEW tree \in Trees, FinalCoderCompletes(tree) PROVE ApprovedInv'
    BY <1>24, FinalCoderCompletesDoes
  <1>25. ASSUME NEW tree \in Trees, FinalCoderAsks(tree) PROVE ApprovedInv'
    BY <1>25, FinalCoderAsksDoes
  <1>26. ASSUME NEW tree \in Trees, FinalCoderFails(tree) PROVE ApprovedInv'
    BY <1>26, FinalCoderFailsDoes
  <1>27. ASSUME NEW result \in {"approved", "changes_required", "review_failure"},
                FinalReviewer(result)
          PROVE  ApprovedInv'
    BY <1>27, FinalReviewerDoes DEF AfterFinalFailure
  <1>28. CASE IsolateFinalFailure
    BY <1>28, IsolateFinalFailureDoes
  <1>29. CASE PrepareFinalizeHistory
    BY <1>29, PrepareFinalizeHistoryDoes
  <1>30. CASE FinalizeHistory
    BY <1>30, FinalizeHistoryDoes DEF FinalCommitted
  <1>31. CASE PreparePushBranch
    BY <1>31, PreparePushBranchDoes
  <1>32. CASE PushBranch
    BY <1>32, PushBranchDoes DEF Pushed
  <1>33. CASE PrepareDraftPR
    BY <1>33, PrepareDraftPRDoes
  <1>34. CASE CreateDraftPR
    BY <1>34, CreateDraftPRDoes
  <1>35. CASE Blocked
    BY <1>35, BlockedDoes
  <1>36. CASE Cleanup
    BY <1>36, CleanupDoes
  <1>37. CASE Ends
    BY <1>37 DEF Ends, outside
  <1>38. CASE Crashes
    BY <1>38 DEF Crashes, outside
  <1>39. ASSUME NEW tree \in Trees, CoderDies(tree) PROVE ApprovedInv'
    BY <1>39 DEF CoderDies, DiesUnsaved, Node
  <1>40. CASE ResumesBlocked
    <2>1. ckpt.stage \in DOMAIN ResumeNode /\ Moves(ResumeNode[ckpt.stage], "active", "")
          /\ ckpt'.cleanup_stage = ckpt.cleanup_stage /\ work' = work /\ vetted' = vetted
      BY <1>40, ResumesBlockedDoes
    <2>2. ckpt'.next \in FinalizeNodes => ckpt.stage \in FinalizeNodes
      BY <2>1, ResumesPublication
    <2>3. ckpt.stage \in FinalizeNodes \cup PushNodes
                           \cup {"", "prepare_draft_pr", "create_draft_pr", "cleanup"} =>
            ckpt'.next \in {ckpt.stage, "cleanup", "finalize_history"}
      BY <2>1, ResumesPublication
    <2>4. ckpt.stage # ""
      BY <2>1, ResumesPublication
    <2>5. QED BY <2>1, <2>2, <2>3, <2>4
  <1>41. CASE ResumesInterrupted
    BY <1>41 DEF ResumesInterrupted, outside
  <1>42. CASE StartsOver
    BY <1>42 DEF StartsOver, outside, InitialState
  <1>43. CASE RepairAsked
    BY <1>43, RepairAskedDoes
  <1>44. CASE OperatorDiscards
    BY <1>44, OperatorDiscardsDoes
  <1>45. CASE SomebodyPushes
    BY <1>45 DEF SomebodyPushes
  <1>46. QED BY <1>1, <1>2, <1>3, <1>4, <1>5, <1>6, <1>7, <1>8, <1>9, <1>10, <1>11,
      <1>12, <1>13, <1>14, <1>15, <1>16, <1>17, <1>18, <1>19, <1>20, <1>21, <1>22,
      <1>23, <1>24, <1>25, <1>26, <1>27, <1>28, <1>29, <1>30, <1>31, <1>32, <1>33,
      <1>34, <1>35, <1>36, <1>37, <1>38, <1>39, <1>40, <1>41, <1>42, <1>43, <1>44,
      <1>45
    DEF WorkflowNext, NodeStep, PlanningStep, ImplementationStep, IntegrationStep,
        PublicationStep

\* No final commit has contents that were not approved.
LEMMA FinalCommitStep ==
  ASSUME Fields, SpaceOK, RevisionsOK, ApprovedInv, FinalCommitInv, WorkflowNext
  PROVE  FinalCommitInv'
  <1>1. vetted \subseteq vetted'
    BY VettedStep
  <1>2. CASE /\ Known' \subseteq Known \cup {NoRevision, Base, StepCommit, Foreign(remote)}
             /\ ckpt'.final_commit \in {ckpt.final_commit, NoRevision}
    <2>1. ASSUME NEW h \in Known', EndsWith(h, "final")
          PROVE  TreeOf(h) \in vetted' /\ Tip(h).of # h
      <3>1. h \in Known
        BY <1>2, <2>1, CommitsEnd
      <3>2. QED BY <1>1, <2>1, <3>1 DEF FinalCommitInv
    <2>2. QED BY <1>1, <1>2, <2>1 DEF FinalCommitInv
  <1>3. ASSUME FinalizeHistory, NEW h, h = work.head \/ h = Finalized,
               Finalized = h => FinalCommitted, EndsWith(h, "final") \/ h = Finalized
        PROVE  TreeOf(h) \in vetted /\ (EndsWith(h, "final") => Tip(h).of # h)
    <2>1. work.tree \in vetted
      BY <1>3, FinalizeHistoryDoes DEF ApprovedInv, FinalizeNodes
    <2>2. CASE EndsWith(h, "final") /\ h = work.head
      BY <2>2 DEF FinalCommitInv, Known
    <2>3. CASE h = Finalized /\ h = work.head /\ ~Dirty
      BY <2>1, <2>3 DEF Dirty, FinalCommitInv, Known
    <2>4. CASE h = Finalized /\ TreeOf(h) = work.tree /\ Tip(h).of = ckpt.expected
      <3>1. EndsWith(ckpt.expected, "final") => Tip(ckpt.expected).of # ckpt.expected
        BY DEF FinalCommitInv, Known
      <3>2. QED BY <2>1, <2>4, <3>1
    <2>5. QED BY <1>3, <2>2, <2>3, <2>4, CommitsEnd
  <1>4. CASE FinalizeHistory /\ FinalCommitted /\ Known' \subseteq Known \cup {Finalized}
    <2>1. TreeOf(Finalized) \in vetted
          /\ (EndsWith(Finalized, "final") => Tip(Finalized).of # Finalized)
      BY <1>3, <1>4
    <2>2. ckpt'.final_commit \in {ckpt.final_commit, Finalized}
      BY <1>4, FinalizeHistoryDoes DEF FinalCommitted, Fields, Only, BlockedAt
    <2>3. QED BY <1>1, <1>4, <2>1, <2>2 DEF FinalCommitInv
  <1>5. CASE FinalizeHistory /\ ~FinalCommitted /\ Known' \subseteq Known
    <2>1. \/ ckpt'.final_commit = ckpt.final_commit
          \/ ckpt'.final_commit = work.head /\ FinalIsHead
      BY <1>5, FinalizeHistoryDoes DEF Fields, Only, BlockedAt
    <2>2. FinalIsHead => TreeOf(work.head) \in vetted
      BY DEF FinalIsHead, IsFinal, FinalCommitInv, Known
    <2>3. QED BY <1>1, <1>5, <2>1, <2>2 DEF FinalCommitInv
  <1>6. QED BY <1>2, <1>4, <1>5, KnownStep DEF SpaceOK

\* What is about to be finalized or pushed passed the validation of the whole plan: a push
\* follows the final commit of contents that did.
LEMMA PassedStep ==
  ASSUME Fields, RevisionsOK, IntentInv, BlockedInv, PassedInv, WorkflowNext
  PROVE  PassedInv'
  <1> USE DEF Fields, Only, Moves, BlockedAt, StoppedAt, PassedInv, Clean, At,
          ReviewedNodes, PushNodes, Stops, HeadIs, outside
  <1>1. CASE PrepareWorkspace
    BY <1>1, PrepareWorkspaceDoes
  <1>2. CASE PlannerFails
    BY <1>2, PlannerFailsDoes
  <1>3. ASSUME NEW asks \in BOOLEAN, PlannerPlans(asks) PROVE PassedInv'
    BY <1>3, PlannerPlansDoes
  <1>4. CASE PrepareComment("plan", "prepare_plan_comment", "publish_plan")
    BY <1>4, PreparePlanDoes
  <1>5. CASE PublishComment("plan", "publish_plan", AfterPlan)
    <2>1. /\ ckpt'.cleanup_stage = ckpt.cleanup_stage
             /\ ckpt'.final_commit = ckpt.final_commit
          /\ work' = work /\ passed' = passed
          /\ ckpt.next = "publish_plan"
             /\ AfterPlan \in {"awaiting_user_input", "start_environment"}
          /\ \/ ckpt'.next = ckpt.next /\ ckpt'.stage = ckpt.stage
             \/ ckpt'.next = AfterPlan
             \/ ckpt'.next = "blocked"
                /\ ckpt'.stage \in {"publish_plan", "prepare_plan_comment"}
      BY <1>5, PublishPlanDoes DEF BlockedInv, AfterPlan
    <2>2. QED BY <2>1
  <1>6. CASE AwaitingUserInput
    BY <1>6, AwaitingUserInputDoes
  <1>7. CASE StartEnvironment
    BY <1>7, StartEnvironmentDoes
  <1>8. CASE NoSuchStep
    BY <1>8 DEF NoSuchStep, Raises, outside
  <1>9. CASE PrepareCurrentStep
    BY <1>9, PrepareCurrentStepDoes
  <1>10. CASE CoderRefused
    BY <1>10, CoderRefusedDoes
  <1>11. ASSUME NEW tree \in Trees, CoderCompletes(tree) PROVE PassedInv'
    BY <1>11, CoderCompletesDoes
  <1>12. ASSUME NEW tree \in Trees, CoderAsks(tree) PROVE PassedInv'
    BY <1>12, CoderAsksDoes
  <1>13. ASSUME NEW tree \in Trees, CoderFails(tree) PROVE PassedInv'
    BY <1>13, CoderFailsDoes
  <1>14. ASSUME NEW result \in ValidationResults, RunValidation(result) PROVE PassedInv'
    BY <1>14, RunValidationDoes DEF AfterValidation
  <1>15. CASE IsolateFailure
    BY <1>15, IsolateFailureDoes DEF AfterFailedAttempt
  <1>16. ASSUME NEW result \in {"approved", "changes_required", "review_failure"},
                Reviewer(result)
          PROVE  PassedInv'
    BY <1>16, ReviewerDoes
  <1>17. CASE PrepareComment("review", "prepare_review_comment", "publish_review")
    BY <1>17, PrepareReviewDoes
  <1>18. CASE PublishComment("review", "publish_review", AfterReview)
    <2>1. /\ ckpt'.cleanup_stage = ckpt.cleanup_stage
             /\ ckpt'.final_commit = ckpt.final_commit
          /\ work' = work /\ passed' = passed
          /\ ckpt.next = "publish_review"
             /\ AfterReview \in {"prepare_checkpoint", "isolate_failure"}
          /\ \/ ckpt'.next = ckpt.next /\ ckpt'.stage = ckpt.stage
             \/ ckpt'.next = AfterReview
             \/ ckpt'.next = "blocked"
                /\ ckpt'.stage \in {"publish_review", "prepare_review_comment"}
      BY <1>18, PublishReviewDoes DEF BlockedInv, AfterReview
    <2>2. QED BY <2>1
  <1>19. CASE PrepareCheckpoint
    BY <1>19, PrepareCheckpointDoes
  <1>20. CASE CompleteStep
    <2>1. /\ ckpt'.cleanup_stage = ckpt.cleanup_stage
             /\ ckpt'.final_commit = ckpt.final_commit
          /\ passed' = passed /\ ckpt.next = "complete_step"
          /\ \/ UNCHANGED ckpt
             \/ ckpt'.next \in {"prepare_final_review", "prepare_current_step"}
             \/ ckpt'.next = "blocked"
                /\ ckpt'.stage \in {"complete_step", "prepare_checkpoint"}
      BY <1>20, CompleteStepDoes DEF BlockedInv, AfterStepDone
    <2>2. QED BY <2>1
  <1>21. CASE PrepareFinalReview
    BY <1>21, PrepareFinalReviewDoes
  <1>22. ASSUME NEW result \in ValidationResults, FinalValidation(result)
          PROVE  PassedInv'
    BY <1>22, FinalValidationDoes DEF AfterFinalValidation, AfterFinalFailure
  <1>23. CASE FinalCoderRefused
    BY <1>23, FinalCoderRefusedDoes
  <1>24. ASSUME NEW tree \in Trees, FinalCoderCompletes(tree) PROVE PassedInv'
    BY <1>24, FinalCoderCompletesDoes
  <1>25. ASSUME NEW tree \in Trees, FinalCoderAsks(tree) PROVE PassedInv'
    BY <1>25, FinalCoderAsksDoes
  <1>26. ASSUME NEW tree \in Trees, FinalCoderFails(tree) PROVE PassedInv'
    BY <1>26, FinalCoderFailsDoes
  <1>27. ASSUME NEW result \in {"approved", "changes_required", "review_failure"},
                FinalReviewer(result)
          PROVE  PassedInv'
    <2>1. /\ ckpt'.cleanup_stage = ckpt.cleanup_stage
             /\ ckpt'.final_commit = ckpt.final_commit
          /\ work' = work /\ passed' = passed
          /\ ckpt.next = "final_reviewer"
          /\ \/ ckpt'.next \in {"prepare_finalize_history", "final_integration_coder", "isolate_final_failure"}
             \/ ckpt'.next = "blocked" /\ ckpt'.stage = "final_reviewer"
      BY <1>27, FinalReviewerDoes DEF AfterFinalFailure
    <2>2. QED BY <2>1
  <1>28. CASE IsolateFinalFailure
    BY <1>28, IsolateFinalFailureDoes
  <1>29. CASE PrepareFinalizeHistory
    <2>1. /\ ckpt'.cleanup_stage = ckpt.cleanup_stage
             /\ ckpt'.final_commit = ckpt.final_commit
          /\ work' = work /\ passed' = passed
          /\ ckpt.next = "prepare_finalize_history"
          /\ \/ ckpt'.next = "finalize_history"
             \/ ckpt'.next = "blocked" /\ ckpt'.stage = "prepare_finalize_history"
      BY <1>29, PrepareFinalizeHistoryDoes
    <2>2. QED BY <2>1
  <1>30. CASE FinalizeHistory
    <2>1. /\ ckpt'.cleanup_stage = ckpt.cleanup_stage /\ work'.tree = work.tree
          /\ passed' = passed /\ ckpt.next = "finalize_history"
          /\ \/ ckpt'.next = ckpt.next /\ ckpt'.stage = ckpt.stage
             \/ ckpt'.next = "blocked" /\ ckpt'.stage = "finalize_history"
             \/ ckpt'.next = "cleanup" /\ ckpt'.stage = ""
             \/ ckpt'.next = "prepare_push_branch"
      BY <1>30, FinalizeHistoryDoes DEF FinalCommitted
    <2>2. ckpt'.next = "prepare_push_branch"
          /\ Clean => TreeOf(ckpt'.final_commit) = work.tree
      <3>1. ckpt.intent = "final" /\ FinalIsHead /\ Clean => TreeOf(work.head) = work.tree
        BY <2>1 DEF IntentInv, AtFinalize, Dirty
      <3>2. TreeOf(Finalized) = work.tree
        BY CommitsEnd DEF Dirty
      <3>3. ckpt'.next = "prepare_push_branch" =>
              \/ ckpt'.final_commit = work.head /\ ckpt.intent = "final" /\ FinalIsHead
              \/ ckpt'.final_commit = Finalized
        BY <1>30, FinalizeHistoryDoes
      <3>4. QED BY <3>1, <3>2, <3>3
    <2>3. QED BY <2>1, <2>2
  <1>31. CASE PreparePushBranch
    <2>1. /\ ckpt'.cleanup_stage = ckpt.cleanup_stage
             /\ ckpt'.final_commit = ckpt.final_commit
          /\ work' = work /\ passed' = passed
          /\ ckpt.next = "prepare_push_branch"
          /\ \/ ckpt'.next = "push_branch"
             \/ ckpt'.next = "blocked" /\ ckpt'.stage = "prepare_push_branch"
      BY <1>31, PreparePushBranchDoes
    <2>2. QED BY <2>1
  <1>32. CASE PushBranch
    <2>1. /\ ckpt'.cleanup_stage = ckpt.cleanup_stage
             /\ ckpt'.final_commit = ckpt.final_commit
          /\ work' = work /\ passed' = passed
          /\ ckpt.next = "push_branch"
          /\ \/ UNCHANGED ckpt
             \/ ckpt'.next = "prepare_draft_pr"
             \/ ckpt'.next = "blocked" /\ ckpt'.stage = "push_branch"
      BY <1>32, PushBranchDoes
    <2>2. QED BY <2>1
  <1>33. CASE PrepareDraftPR
    BY <1>33, PrepareDraftPRDoes
  <1>34. CASE CreateDraftPR
    BY <1>34, CreateDraftPRDoes
  <1>35. CASE Blocked
    <2>1. /\ ckpt'.cleanup_stage = ckpt.cleanup_stage
             /\ ckpt'.final_commit = ckpt.final_commit /\ ckpt'.stage = ckpt.stage
          /\ work' = work /\ passed' = passed
          /\ ckpt.next = "blocked" /\ ckpt'.next = "cleanup"
      BY <1>35, BlockedDoes
    <2>2. QED BY <2>1
  <1>36. CASE Cleanup
    <2>1. /\ ckpt'.final_commit = ckpt.final_commit
          /\ work' = work /\ passed' = passed
          /\ ckpt.next = "cleanup"
          /\ \/ UNCHANGED ckpt
             \/ ckpt'.next = "END" /\ ckpt'.cleanup_stage = ckpt.cleanup_stage
                /\ (ckpt'.stage = ckpt.stage \/ ckpt'.stage = "" \/ ckpt.cleanup_stage # "")
             \/ ckpt'.next = "END" /\ ckpt'.stage = "cleanup"
      BY <1>36, CleanupDoes
    <2>2. QED BY <2>1
  <1>37. CASE Ends
    BY <1>37 DEF Ends, outside
  <1>38. CASE Crashes
    BY <1>38 DEF Crashes, outside
  <1>39. ASSUME NEW tree \in Trees, CoderDies(tree) PROVE PassedInv'
    BY <1>39 DEF CoderDies, DiesUnsaved, Node
  <1>40. CASE ResumesBlocked
    <2> HIDE DEF At, ReviewedNodes, PushNodes, Stops
    <2>1. ckpt'.cleanup_stage = ckpt.cleanup_stage /\ ckpt'.final_commit = ckpt.final_commit
          /\ work' = work /\ passed' = passed
      BY <1>40, ResumesBlockedDoes
    <2>2. QED BY <1>40, <2>1, ResumesWhereBlocked
  <1>41. CASE ResumesInterrupted
    BY <1>41 DEF ResumesInterrupted, outside
  <1>42. CASE StartsOver
    BY <1>42 DEF StartsOver, outside, InitialState
  <1>43. CASE RepairAsked
    <2>1. /\ UNCHANGED ckpt
          /\ work' = work /\ passed' = passed
      BY <1>43, RepairAskedDoes
    <2>2. QED BY <2>1
  <1>44. CASE OperatorDiscards
    BY <1>44, OperatorDiscardsDoes
  <1>45. CASE SomebodyPushes
    BY <1>45 DEF SomebodyPushes
  <1>46. QED BY <1>1, <1>2, <1>3, <1>4, <1>5, <1>6, <1>7, <1>8, <1>9, <1>10, <1>11,
      <1>12, <1>13, <1>14, <1>15, <1>16, <1>17, <1>18, <1>19, <1>20, <1>21, <1>22,
      <1>23, <1>24, <1>25, <1>26, <1>27, <1>28, <1>29, <1>30, <1>31, <1>32, <1>33,
      <1>34, <1>35, <1>36, <1>37, <1>38, <1>39, <1>40, <1>41, <1>42, <1>43, <1>44,
      <1>45
    DEF WorkflowNext, NodeStep, PlanningStep, ImplementationStep, IntegrationStep,
        PublicationStep

\* Nodes that adopt a commit find the intent it was announced with.
LEMMA IntentStep ==
  ASSUME Fields, RevisionsOK, HeadInv, FinalCommitInv, BlockedInv, IntentInv, WorkflowNext
  PROVE  IntentInv'
  <1> USE DEF Fields, Only, Moves, BlockedAt, StoppedAt, IntentInv, Clean, At,
          AtCheckpoint, AtFinalize, BeforeFinal, BeforeFinalStages, FinalizeNodes,
          Stops, outside
  <1>1. CASE PrepareWorkspace
    BY <1>1, PrepareWorkspaceDoes, SameFinal, SameContents
  <1>2. CASE PlannerFails
    BY <1>2, PlannerFailsDoes, SameFinal, SameContents
  <1>3. ASSUME NEW asks \in BOOLEAN, PlannerPlans(asks) PROVE IntentInv'
    BY <1>3, PlannerPlansDoes, SameFinal, SameContents
  <1>4. CASE PrepareComment("plan", "prepare_plan_comment", "publish_plan")
    BY <1>4, PreparePlanDoes, SameFinal, SameContents
  <1>5. CASE PublishComment("plan", "publish_plan", AfterPlan)
    <2>1. /\ ckpt'.cleanup_stage = ckpt.cleanup_stage /\ ckpt'.expected = ckpt.expected
             /\ ckpt'.step_baseline = ckpt.step_baseline
          /\ work' = work
          /\ ckpt.next = "publish_plan"
             /\ AfterPlan \in {"awaiting_user_input", "start_environment"}
          /\ \/ ckpt'.next = ckpt.next /\ ckpt'.stage = ckpt.stage
                /\ ckpt'.intent = ckpt.intent
             \/ ckpt'.next = AfterPlan
             \/ ckpt'.next = "blocked"
                /\ ckpt'.stage \in {"publish_plan", "prepare_plan_comment"}
      BY <1>5, PublishPlanDoes DEF BlockedInv, AfterPlan
    <2>2. QED BY <2>1, SameFinal, SameContents
  <1>6. CASE AwaitingUserInput
    BY <1>6, AwaitingUserInputDoes, SameFinal, SameContents
  <1>7. CASE StartEnvironment
    BY <1>7, StartEnvironmentDoes, SameFinal, SameContents
  <1>8. CASE NoSuchStep
    BY <1>8, SameFinal, SameContents DEF NoSuchStep, Raises, outside
  <1>9. CASE PrepareCurrentStep
    BY <1>9, PrepareCurrentStepDoes, SameFinal, SameContents
  <1>10. CASE CoderRefused
    BY <1>10, CoderRefusedDoes, SameFinal, SameContents
  <1>11. ASSUME NEW tree \in Trees, CoderCompletes(tree) PROVE IntentInv'
    BY <1>11, CoderCompletesDoes, SameFinal, SameContents
  <1>12. ASSUME NEW tree \in Trees, CoderAsks(tree) PROVE IntentInv'
    BY <1>12, CoderAsksDoes, SameFinal, SameContents
  <1>13. ASSUME NEW tree \in Trees, CoderFails(tree) PROVE IntentInv'
    BY <1>13, CoderFailsDoes, SameFinal, SameContents
  <1>14. ASSUME NEW result \in ValidationResults, RunValidation(result) PROVE IntentInv'
    BY <1>14, RunValidationDoes, SameFinal, SameContents DEF AfterValidation
  <1>15. CASE IsolateFailure
    BY <1>15, IsolateFailureDoes, SameFinal, SameContents DEF AfterFailedAttempt
  <1>16. ASSUME NEW result \in {"approved", "changes_required", "review_failure"},
                Reviewer(result)
          PROVE  IntentInv'
    BY <1>16, ReviewerDoes, SameFinal, SameContents
  <1>17. CASE PrepareComment("review", "prepare_review_comment", "publish_review")
    BY <1>17, PrepareReviewDoes, SameFinal, SameContents
  <1>18. CASE PublishComment("review", "publish_review", AfterReview)
    <2>1. /\ ckpt'.cleanup_stage = ckpt.cleanup_stage /\ ckpt'.expected = ckpt.expected
             /\ ckpt'.step_baseline = ckpt.step_baseline
          /\ work' = work
          /\ ckpt.next = "publish_review"
             /\ AfterReview \in {"prepare_checkpoint", "isolate_failure"}
          /\ \/ ckpt'.next = ckpt.next /\ ckpt'.stage = ckpt.stage
                /\ ckpt'.intent = ckpt.intent
             \/ ckpt'.next = AfterReview
             \/ ckpt'.next = "blocked"
                /\ ckpt'.stage \in {"publish_review", "prepare_review_comment"}
      BY <1>18, PublishReviewDoes DEF BlockedInv, AfterReview
    <2>2. QED BY <2>1, SameFinal, SameContents
  <1>19. CASE PrepareCheckpoint
    <2>1. /\ ckpt'.cleanup_stage = ckpt.cleanup_stage /\ ckpt.next = "prepare_checkpoint"
          /\ ckpt'.next = "complete_step" /\ ckpt'.intent # "none"
      BY <1>19, PrepareCheckpointDoes DEF PrepareCheckpoint, MayIntend, Returns, StepNode,
         Node
    <2>2. QED BY <2>1
  <1>20. CASE CompleteStep
    BY <1>20, CompleteStepDoes, SameFinal, SameContents DEF AfterStepDone
  <1>21. CASE PrepareFinalReview
    BY <1>21, PrepareFinalReviewDoes, SameFinal, SameContents
  <1>22. ASSUME NEW result \in ValidationResults, FinalValidation(result)
          PROVE  IntentInv'
    BY <1>22, FinalValidationDoes, SameFinal, SameContents
    DEF AfterFinalValidation, AfterFinalFailure
  <1>23. CASE FinalCoderRefused
    BY <1>23, FinalCoderRefusedDoes, SameFinal, SameContents
  <1>24. ASSUME NEW tree \in Trees, FinalCoderCompletes(tree) PROVE IntentInv'
    BY <1>24, FinalCoderCompletesDoes, SameFinal, SameContents
  <1>25. ASSUME NEW tree \in Trees, FinalCoderAsks(tree) PROVE IntentInv'
    BY <1>25, FinalCoderAsksDoes, SameFinal, SameContents
  <1>26. ASSUME NEW tree \in Trees, FinalCoderFails(tree) PROVE IntentInv'
    BY <1>26, FinalCoderFailsDoes, SameFinal, SameContents
  <1>27. ASSUME NEW result \in {"approved", "changes_required", "review_failure"},
                FinalReviewer(result)
          PROVE  IntentInv'
    BY <1>27, FinalReviewerDoes, SameFinal, SameContents DEF AfterFinalFailure
  <1>28. CASE IsolateFinalFailure
    BY <1>28, IsolateFinalFailureDoes, SameFinal, SameContents
  <1>29. CASE PrepareFinalizeHistory
    <2>1. /\ ckpt'.cleanup_stage = ckpt.cleanup_stage /\ work' = work
          /\ ckpt.next = "prepare_finalize_history"
          /\ \/ ckpt'.next = "finalize_history" /\ ckpt'.intent = "final"
                /\ ckpt'.expected = ckpt.final_baseline
             \/ ckpt'.next = "blocked" /\ ckpt'.intent = ckpt.intent
                /\ ckpt'.stage = "prepare_finalize_history"
      BY <1>29, PrepareFinalizeHistoryDoes
    <2>2. Clean => work.head = ckpt.final_baseline /\ ckpt.intent # "final"
      BY <2>1 DEF HeadInv, PlanNodes
    <2>3. EndsWith(work.head, "final") => Tip(work.head).of # work.head
      BY DEF FinalCommitInv, Known
    <2>4. ckpt'.next = "finalize_history" /\ Clean => ~FinalIsHead'
      BY <2>1, <2>2, <2>3 DEF FinalIsHead, IsFinal
    <2>5. QED BY <2>1, <2>2, <2>4
  <1>30. CASE FinalizeHistory
    <2>1. /\ ckpt'.cleanup_stage = ckpt.cleanup_stage /\ ckpt.next = "finalize_history"
          /\ \/ ckpt'.next = "blocked" /\ ckpt'.stage = "finalize_history"
                /\ ckpt'.intent = ckpt.intent /\ ckpt'.expected = ckpt.expected
                   /\ work' = work
             \/ ckpt'.next \in {"cleanup", "prepare_push_branch"} /\ ckpt'.stage = ""
             \/ UNCHANGED ckpt /\ work'.head = Finalized /\ work'.tree = work.tree
      BY <1>30, FinalizeHistoryDoes DEF FinalCommitted
    <2>2. TreeOf(Finalized) = work.tree
      BY CommitsEnd DEF Dirty
    <2>3. work'.head = Finalized /\ work'.tree = work.tree => ~Dirty'
      BY <2>2 DEF Dirty
    <2>4. work' = work /\ ckpt'.expected = ckpt.expected =>
            Dirty' = Dirty /\ FinalIsHead' = FinalIsHead
      BY SameFinal, SameContents
    <2>5. QED BY <2>1, <2>3, <2>4
  <1>31. CASE PreparePushBranch
    BY <1>31, PreparePushBranchDoes, SameFinal, SameContents
  <1>32. CASE PushBranch
    BY <1>32, PushBranchDoes, SameFinal, SameContents
  <1>33. CASE PrepareDraftPR
    BY <1>33, PrepareDraftPRDoes, SameFinal, SameContents
  <1>34. CASE CreateDraftPR
    BY <1>34, CreateDraftPRDoes, SameFinal, SameContents
  <1>35. CASE Blocked
    BY <1>35, BlockedDoes, SameFinal, SameContents
  <1>36. CASE Cleanup
    BY <1>36, CleanupDoes, SameFinal, SameContents
  <1>37. CASE Ends
    BY <1>37, SameFinal, SameContents DEF Ends, outside
  <1>38. CASE Crashes
    BY <1>38, SameFinal, SameContents DEF Crashes, outside
  <1>39. ASSUME NEW tree \in Trees, CoderDies(tree) PROVE IntentInv'
    BY <1>39, SameFinal, SameContents DEF CoderDies, DiesUnsaved, Node
  <1>40. CASE ResumesBlocked
    <2> HIDE DEF At, AtCheckpoint, AtFinalize, BeforeFinal
    <2>1. ckpt'.cleanup_stage = ckpt.cleanup_stage /\ ckpt'.intent = ckpt.intent
          /\ ckpt'.expected = ckpt.expected /\ ckpt'.step_baseline = ckpt.step_baseline
          /\ work' = work
      BY <1>40, ResumesBlockedDoes
    <2>2. QED BY <1>40, <2>1, ResumesWhereBlocked, SameFinal, SameContents
  <1>41. CASE ResumesInterrupted
    BY <1>41, SameFinal, SameContents DEF ResumesInterrupted, outside
  <1>42. CASE StartsOver
    BY <1>42, SameFinal, SameContents DEF StartsOver, outside, InitialState
  <1>43. CASE RepairAsked
    BY <1>43, RepairAskedDoes, SameFinal, SameContents
  <1>44. CASE OperatorDiscards
    BY <1>44, OperatorDiscardsDoes, SameFinal, SameContents
  <1>45. CASE SomebodyPushes
    BY <1>45, SameFinal, SameContents DEF SomebodyPushes
  <1>46. QED BY <1>1, <1>2, <1>3, <1>4, <1>5, <1>6, <1>7, <1>8, <1>9, <1>10, <1>11,
      <1>12, <1>13, <1>14, <1>15, <1>16, <1>17, <1>18, <1>19, <1>20, <1>21, <1>22,
      <1>23, <1>24, <1>25, <1>26, <1>27, <1>28, <1>29, <1>30, <1>31, <1>32, <1>33,
      <1>34, <1>35, <1>36, <1>37, <1>38, <1>39, <1>40, <1>41, <1>42, <1>43, <1>44,
      <1>45
    DEF WorkflowNext, NodeStep, PlanningStep, ImplementationStep, IntegrationStep,
        PublicationStep

\* A commit is made only with its intent on record, so HEAD is never a surprise.
LEMMA HeadStep ==
  ASSUME Fields, RevisionsOK, FinalCommitInv, BlockedInv, IntentInv, HeadInv, WorkflowNext
  PROVE  HeadInv'
  <1> USE DEF Fields, Only, Moves, BlockedAt, StoppedAt, HeadInv, Clean, At, StepNodes,
          StepStages, PlanNodes, PlanStages, AtCheckpoint, AtFinalize, FinalizeNodes,
          PushNodes, Stops, HeadIs, outside
  <1>1. CASE PrepareWorkspace
    BY <1>1, PrepareWorkspaceDoes, SameFinal, SameCheckpoint, SameBaseline
  <1>2. CASE PlannerFails
    BY <1>2, PlannerFailsDoes, SameFinal, SameCheckpoint, SameBaseline
  <1>3. ASSUME NEW asks \in BOOLEAN, PlannerPlans(asks) PROVE HeadInv'
    BY <1>3, PlannerPlansDoes, SameFinal, SameCheckpoint, SameBaseline
  <1>4. CASE PrepareComment("plan", "prepare_plan_comment", "publish_plan")
    BY <1>4, PreparePlanDoes, SameFinal, SameCheckpoint, SameBaseline
  <1>5. CASE PublishComment("plan", "publish_plan", AfterPlan)
    <2>1. /\ ckpt'.cleanup_stage = ckpt.cleanup_stage
             /\ ckpt'.final_commit = ckpt.final_commit
             /\ ckpt'.final_baseline = ckpt.final_baseline /\ ckpt'.expected = ckpt.expected
             /\ ckpt'.step = ckpt.step /\ ckpt'.step_baseline = ckpt.step_baseline
          /\ work' = work
          /\ ckpt.next = "publish_plan"
             /\ AfterPlan \in {"awaiting_user_input", "start_environment"}
          /\ \/ ckpt'.next = ckpt.next /\ ckpt'.stage = ckpt.stage
                /\ ckpt'.intent = ckpt.intent
             \/ ckpt'.next = AfterPlan
             \/ ckpt'.next = "blocked"
                /\ ckpt'.stage \in {"publish_plan", "prepare_plan_comment"}
      BY <1>5, PublishPlanDoes DEF BlockedInv, AfterPlan
    <2>2. QED BY <2>1, SameFinal, SameCheckpoint, SameBaseline
  <1>6. CASE AwaitingUserInput
    BY <1>6, AwaitingUserInputDoes, SameFinal, SameCheckpoint, SameBaseline
  <1>7. CASE StartEnvironment
    BY <1>7, StartEnvironmentDoes, SameFinal, SameCheckpoint, SameBaseline
  <1>8. CASE NoSuchStep
    BY <1>8, SameFinal, SameCheckpoint, SameBaseline DEF NoSuchStep, Raises, outside
  <1>9. CASE PrepareCurrentStep
    <2>1. /\ ckpt'.cleanup_stage = ckpt.cleanup_stage
          /\ ckpt'.next = "coder" /\ ckpt'.stage = ""
          /\ ckpt'.step_baseline = work.head /\ work'.head = work.head
      BY <1>9, PrepareCurrentStepDoes
    <2>2. QED BY <2>1 DEF StepBaseline
  <1>10. CASE CoderRefused
    BY <1>10, CoderRefusedDoes, SameFinal, SameCheckpoint, SameBaseline
  <1>11. ASSUME NEW tree \in Trees, CoderCompletes(tree) PROVE HeadInv'
    BY <1>11, CoderCompletesDoes, SameFinal, SameCheckpoint, SameBaseline
  <1>12. ASSUME NEW tree \in Trees, CoderAsks(tree) PROVE HeadInv'
    BY <1>12, CoderAsksDoes, SameFinal, SameCheckpoint, SameBaseline
  <1>13. ASSUME NEW tree \in Trees, CoderFails(tree) PROVE HeadInv'
    BY <1>13, CoderFailsDoes, SameFinal, SameCheckpoint, SameBaseline
  <1>14. ASSUME NEW result \in ValidationResults, RunValidation(result) PROVE HeadInv'
    BY <1>14, RunValidationDoes, SameFinal, SameCheckpoint, SameBaseline
    DEF AfterValidation
  <1>15. CASE IsolateFailure
    BY <1>15, IsolateFailureDoes, SameFinal, SameCheckpoint, SameBaseline
    DEF AfterFailedAttempt
  <1>16. ASSUME NEW result \in {"approved", "changes_required", "review_failure"},
                Reviewer(result)
          PROVE  HeadInv'
    BY <1>16, ReviewerDoes, SameFinal, SameCheckpoint, SameBaseline
  <1>17. CASE PrepareComment("review", "prepare_review_comment", "publish_review")
    BY <1>17, PrepareReviewDoes, SameFinal, SameCheckpoint, SameBaseline
  <1>18. CASE PublishComment("review", "publish_review", AfterReview)
    <2>1. /\ ckpt'.cleanup_stage = ckpt.cleanup_stage
             /\ ckpt'.final_commit = ckpt.final_commit
             /\ ckpt'.final_baseline = ckpt.final_baseline /\ ckpt'.expected = ckpt.expected
             /\ ckpt'.step = ckpt.step /\ ckpt'.step_baseline = ckpt.step_baseline
          /\ work' = work
          /\ ckpt.next = "publish_review"
             /\ AfterReview \in {"prepare_checkpoint", "isolate_failure"}
          /\ \/ ckpt'.next = ckpt.next /\ ckpt'.stage = ckpt.stage
                /\ ckpt'.intent = ckpt.intent
             \/ ckpt'.next = AfterReview
             \/ ckpt'.next = "blocked"
                /\ ckpt'.stage \in {"publish_review", "prepare_review_comment"}
      BY <1>18, PublishReviewDoes DEF BlockedInv, AfterReview
    <2>2. QED BY <2>1, SameFinal, SameCheckpoint, SameBaseline
  <1>19. CASE PrepareCheckpoint
    BY <1>19, PrepareCheckpointDoes, SameFinal, SameCheckpoint, SameBaseline
  <1>20. CASE CompleteStep
    <2>1. /\ ckpt'.cleanup_stage = ckpt.cleanup_stage /\ ckpt.next = "complete_step"
          /\ \/ ckpt'.next = "blocked" /\ ckpt'.stage = "complete_step" /\ UNCHANGED work
                /\ ckpt'.intent = ckpt.intent /\ ckpt'.expected = ckpt.expected
                /\ ckpt'.step = ckpt.step /\ ckpt'.step_baseline = ckpt.step_baseline
             \/ ckpt'.next \in {"prepare_final_review", "prepare_current_step"}
             \/ ckpt'.next = "blocked" /\ ckpt'.stage = "prepare_checkpoint"
                /\ ckpt'.step_baseline = NoRevision
             \/ UNCHANGED ckpt /\ StepCommitted
      BY <1>20, CompleteStepDoes DEF BlockedInv, AfterStepDone
    <2>2. UNCHANGED ckpt => ckpt.intent \in {"none", "checkpoint"}
      BY <1>20, <2>1 DEF CompleteStep, Blocks, Returns
    <2>3. ASSUME UNCHANGED ckpt, StepCommitted, Clean
          PROVE  work'.head = StepBaseline' \/ CheckpointIsHead'
      <3>1. CASE UNCHANGED work
        BY <2>1, <2>3, <3>1, SameBaseline, SameCheckpoint
      <3>2. CASE work'.head = StepCommit /\ ckpt.intent = "checkpoint"
        <4>1. /\ EndsWith(StepCommit, "step") /\ Tip(StepCommit).of = StepParent
              /\ Tip(StepCommit).step = ckpt.step
          BY CommitsEnd DEF EndsWith
        <4>2. StepParent' = StepParent
          BY <2>3 DEF StepParent
        <4>3. QED BY <2>3, <3>2, <4>1, <4>2 DEF CheckpointIsHead, IsCheckpoint
      <3>3. CASE ckpt.intent = "none"
        BY <2>1, <2>3, <3>3 DEF IntentInv, StepBaseline
      <3>4. QED BY <2>2, <2>3, <3>1, <3>2, <3>3 DEF StepCommitted
    <2>4. UNCHANGED work
          /\ ckpt'.step_baseline = ckpt.step_baseline => StepBaseline' = StepBaseline
      BY SameBaseline
    <2>5. UNCHANGED work /\ ckpt'.intent = ckpt.intent /\ ckpt'.expected = ckpt.expected
            /\ ckpt'.step = ckpt.step /\ ckpt'.step_baseline = ckpt.step_baseline =>
            CheckpointIsHead' = CheckpointIsHead
      BY SameCheckpoint
    <2>6. ckpt'.step_baseline = NoRevision => StepBaseline' = work'.head
      BY DEF StepBaseline
    <2>7. QED BY <2>1, <2>3, <2>4, <2>5, <2>6
  <1>21. CASE PrepareFinalReview
    BY <1>21, PrepareFinalReviewDoes, SameFinal, SameCheckpoint, SameBaseline
  <1>22. ASSUME NEW result \in ValidationResults, FinalValidation(result) PROVE HeadInv'
    BY <1>22, FinalValidationDoes, SameFinal, SameCheckpoint, SameBaseline
    DEF AfterFinalValidation, AfterFinalFailure
  <1>23. CASE FinalCoderRefused
    BY <1>23, FinalCoderRefusedDoes, SameFinal, SameCheckpoint, SameBaseline
  <1>24. ASSUME NEW tree \in Trees, FinalCoderCompletes(tree) PROVE HeadInv'
    BY <1>24, FinalCoderCompletesDoes, SameFinal, SameCheckpoint, SameBaseline
  <1>25. ASSUME NEW tree \in Trees, FinalCoderAsks(tree) PROVE HeadInv'
    BY <1>25, FinalCoderAsksDoes, SameFinal, SameCheckpoint, SameBaseline
  <1>26. ASSUME NEW tree \in Trees, FinalCoderFails(tree) PROVE HeadInv'
    BY <1>26, FinalCoderFailsDoes, SameFinal, SameCheckpoint, SameBaseline
  <1>27. ASSUME NEW result \in {"approved", "changes_required", "review_failure"},
                FinalReviewer(result)
          PROVE  HeadInv'
    BY <1>27, FinalReviewerDoes, SameFinal, SameCheckpoint, SameBaseline
    DEF AfterFinalFailure
  <1>28. CASE IsolateFinalFailure
    BY <1>28, IsolateFinalFailureDoes, SameFinal, SameCheckpoint, SameBaseline
  <1>29. CASE PrepareFinalizeHistory
    BY <1>29, PrepareFinalizeHistoryDoes, SameFinal, SameCheckpoint, SameBaseline
  <1>30. CASE FinalizeHistory
    <2>1. /\ ckpt'.cleanup_stage = ckpt.cleanup_stage /\ ckpt.next = "finalize_history"
          /\ \/ ckpt'.next = "blocked" /\ ckpt'.stage = "finalize_history" /\ UNCHANGED work
                /\ ckpt'.intent = ckpt.intent /\ ckpt'.expected = ckpt.expected
                /\ ckpt'.final_baseline = ckpt.final_baseline
             \/ ckpt'.next = "cleanup" /\ ckpt'.stage = ""
             \/ ckpt'.next = "prepare_push_branch" /\ ckpt'.final_commit = work'.head
             \/ UNCHANGED ckpt /\ work'.head = Finalized /\ ckpt.intent = "final"
      BY <1>30, FinalizeHistoryDoes DEF FinalCommitted
    <2>2. work'.head = work.head
          /\ ckpt'.expected = ckpt.expected => FinalIsHead' = FinalIsHead
      BY SameFinal
    <2>3. UNCHANGED ckpt /\ work'.head = Finalized => work'.head = work.head \/ FinalIsHead'
      BY CommitsEnd DEF FinalIsHead, IsFinal
    <2>4. QED BY <2>1, <2>2, <2>3
  <1>31. CASE PreparePushBranch
    BY <1>31, PreparePushBranchDoes, SameFinal, SameCheckpoint, SameBaseline
  <1>32. CASE PushBranch
    BY <1>32, PushBranchDoes, SameFinal, SameCheckpoint, SameBaseline
  <1>33. CASE PrepareDraftPR
    BY <1>33, PrepareDraftPRDoes, SameFinal, SameCheckpoint, SameBaseline
  <1>34. CASE CreateDraftPR
    BY <1>34, CreateDraftPRDoes, SameFinal, SameCheckpoint, SameBaseline
  <1>35. CASE Blocked
    BY <1>35, BlockedDoes, SameFinal, SameCheckpoint, SameBaseline
  <1>36. CASE Cleanup
    BY <1>36, CleanupDoes, SameFinal, SameCheckpoint, SameBaseline
  <1>37. CASE Ends
    BY <1>37, SameFinal, SameCheckpoint, SameBaseline DEF Ends, outside
  <1>38. CASE Crashes
    BY <1>38, SameFinal, SameCheckpoint, SameBaseline DEF Crashes, outside
  <1>39. ASSUME NEW tree \in Trees, CoderDies(tree) PROVE HeadInv'
    BY <1>39, SameFinal, SameCheckpoint, SameBaseline DEF CoderDies, DiesUnsaved, Node
  <1>40. CASE ResumesBlocked
    <2> HIDE DEF At, AtCheckpoint, AtFinalize, StepNodes, StepStages, PlanNodes, PlanStages
    <2> HIDE DEF PushNodes, Stops
    <2>1. ckpt'.cleanup_stage = ckpt.cleanup_stage /\ ckpt'.final_commit = ckpt.final_commit
          /\ ckpt'.final_baseline = ckpt.final_baseline /\ ckpt'.intent = ckpt.intent
          /\ ckpt'.expected = ckpt.expected /\ ckpt'.step_baseline = ckpt.step_baseline
          /\ work' = work
      BY <1>40, ResumesBlockedDoes
    <2>2. FinalIsHead' = FinalIsHead /\ StepBaseline' = StepBaseline
      BY <2>1, SameFinal, SameBaseline
    <2>3. ckpt'.step = ckpt.step => CheckpointIsHead' = CheckpointIsHead
      BY <2>1, SameCheckpoint
    <2>4. AtCheckpoint' => ckpt'.step = ckpt.step
      BY <1>40, <2>1, ResumesWhereBlocked, ResumesBlockedDoes DEF AtCheckpoint, At, Stops
    <2>5. QED BY <1>40, <2>1, <2>2, <2>3, <2>4, ResumesWhereBlocked
  <1>41. CASE ResumesInterrupted
    BY <1>41, SameFinal, SameCheckpoint, SameBaseline DEF ResumesInterrupted, outside
  <1>42. CASE StartsOver
    BY <1>42, SameFinal, SameCheckpoint, SameBaseline
    DEF StartsOver, outside, InitialState
  <1>43. CASE RepairAsked
    BY <1>43, RepairAskedDoes, SameFinal, SameCheckpoint, SameBaseline
  <1>44. CASE OperatorDiscards
    BY <1>44, OperatorDiscardsDoes, SameFinal, SameCheckpoint, SameBaseline
  <1>45. CASE SomebodyPushes
    BY <1>45, SameFinal, SameCheckpoint, SameBaseline DEF SomebodyPushes
  <1>46. QED BY <1>1, <1>2, <1>3, <1>4, <1>5, <1>6, <1>7, <1>8, <1>9, <1>10, <1>11,
      <1>12, <1>13, <1>14, <1>15, <1>16, <1>17, <1>18, <1>19, <1>20, <1>21, <1>22,
      <1>23, <1>24, <1>25, <1>26, <1>27, <1>28, <1>29, <1>30, <1>31, <1>32, <1>33,
      <1>34, <1>35, <1>36, <1>37, <1>38, <1>39, <1>40, <1>41, <1>42, <1>43, <1>44,
      <1>45
    DEF WorkflowNext, NodeStep, PlanningStep, ImplementationStep, IntegrationStep,
        PublicationStep

\* Only the final commit is pushed.
LEMMA RemoteInvStep ==
  ASSUME Fields, RevisionsOK, PreparedInv, BlockedInv, RemoteInv, WorkflowNext
  PROVE  RemoteInv'
  <1> USE DEF Fields, Only, Moves, BlockedAt, StoppedAt, RemoteInv, Own, outside
  <1>1. CASE PrepareWorkspace
    BY <1>1, PrepareWorkspaceDoes
  <1>2. CASE PlannerFails
    BY <1>2, PlannerFailsDoes
  <1>3. ASSUME NEW asks \in BOOLEAN, PlannerPlans(asks) PROVE RemoteInv'
    BY <1>3, PlannerPlansDoes
  <1>4. CASE PrepareComment("plan", "prepare_plan_comment", "publish_plan")
    BY <1>4, PreparePlanDoes
  <1>5. CASE PublishComment("plan", "publish_plan", AfterPlan)
    BY <1>5, PublishPlanDoes
  <1>6. CASE AwaitingUserInput
    BY <1>6, AwaitingUserInputDoes
  <1>7. CASE StartEnvironment
    BY <1>7, StartEnvironmentDoes
  <1>8. CASE NoSuchStep
    BY <1>8 DEF NoSuchStep, Raises, outside
  <1>9. CASE PrepareCurrentStep
    BY <1>9, PrepareCurrentStepDoes
  <1>10. CASE CoderRefused
    BY <1>10, CoderRefusedDoes
  <1>11. ASSUME NEW tree \in Trees, CoderCompletes(tree) PROVE RemoteInv'
    BY <1>11, CoderCompletesDoes
  <1>12. ASSUME NEW tree \in Trees, CoderAsks(tree) PROVE RemoteInv'
    BY <1>12, CoderAsksDoes
  <1>13. ASSUME NEW tree \in Trees, CoderFails(tree) PROVE RemoteInv'
    BY <1>13, CoderFailsDoes
  <1>14. ASSUME NEW result \in ValidationResults, RunValidation(result) PROVE RemoteInv'
    BY <1>14, RunValidationDoes
  <1>15. CASE IsolateFailure
    BY <1>15, IsolateFailureDoes
  <1>16. ASSUME NEW result \in {"approved", "changes_required", "review_failure"},
                Reviewer(result)
          PROVE  RemoteInv'
    BY <1>16, ReviewerDoes
  <1>17. CASE PrepareComment("review", "prepare_review_comment", "publish_review")
    BY <1>17, PrepareReviewDoes
  <1>18. CASE PublishComment("review", "publish_review", AfterReview)
    BY <1>18, PublishReviewDoes
  <1>19. CASE PrepareCheckpoint
    <2>1. /\ ckpt'.prepared = ckpt.prepared /\ ckpt'.pr = ckpt.pr
             /\ ckpt'.remote_baseline = ckpt.remote_baseline
             /\ ckpt'.final_commit = ckpt.final_commit
          /\ remote' = remote /\ ckpt.next = "prepare_checkpoint"
          /\ ckpt'.intent = ckpt.intent \/ ckpt.intent \in {"none", "checkpoint"}
      BY <1>19, PrepareCheckpointDoes DEF MayIntend
    <2>2. QED BY <2>1
  <1>20. CASE CompleteStep
    BY <1>20, CompleteStepDoes
  <1>21. CASE PrepareFinalReview
    BY <1>21, PrepareFinalReviewDoes
  <1>22. ASSUME NEW result \in ValidationResults, FinalValidation(result)
          PROVE  RemoteInv'
    BY <1>22, FinalValidationDoes
  <1>23. CASE FinalCoderRefused
    BY <1>23, FinalCoderRefusedDoes
  <1>24. ASSUME NEW tree \in Trees, FinalCoderCompletes(tree) PROVE RemoteInv'
    BY <1>24, FinalCoderCompletesDoes
  <1>25. ASSUME NEW tree \in Trees, FinalCoderAsks(tree) PROVE RemoteInv'
    BY <1>25, FinalCoderAsksDoes
  <1>26. ASSUME NEW tree \in Trees, FinalCoderFails(tree) PROVE RemoteInv'
    BY <1>26, FinalCoderFailsDoes
  <1>27. ASSUME NEW result \in {"approved", "changes_required", "review_failure"},
                FinalReviewer(result)
          PROVE  RemoteInv'
    BY <1>27, FinalReviewerDoes
  <1>28. CASE IsolateFinalFailure
    BY <1>28, IsolateFinalFailureDoes
  <1>29. CASE PrepareFinalizeHistory
    <2>1. /\ ckpt'.prepared = ckpt.prepared /\ ckpt'.pr = ckpt.pr
             /\ ckpt'.remote_baseline = ckpt.remote_baseline
             /\ ckpt'.final_commit = ckpt.final_commit
          /\ remote' = remote /\ ckpt.next = "prepare_finalize_history"
          /\ ckpt'.intent = ckpt.intent \/ ckpt.intent \in {"none", "final"}
      BY <1>29, PrepareFinalizeHistoryDoes DEF MayIntend
    <2>2. QED BY <2>1
  <1>30. CASE FinalizeHistory
    <2>1. /\ ckpt'.prepared = ckpt.prepared /\ ckpt'.pr = ckpt.pr
             /\ ckpt'.remote_baseline = ckpt.remote_baseline
          /\ remote' = remote /\ ckpt.next = "finalize_history"
          /\ (ckpt'.intent = ckpt.intent /\ ckpt'.final_commit = ckpt.final_commit)
             \/ ckpt.intent = "final"
      BY <1>30, FinalizeHistoryDoes DEF FinalCommitted
    <2>2. QED BY <2>1
  <1>31. CASE PreparePushBranch
    BY <1>31, PreparePushBranchDoes
  <1>32. CASE PushBranch
    <2>1. ckpt'.prepared = ckpt.prepared /\ ckpt'.pr = ckpt.pr
          /\ ckpt'.remote_baseline = ckpt.remote_baseline
          /\ ckpt'.final_commit = ckpt.final_commit /\ ckpt.next = "push_branch"
      BY <1>32, PushBranchDoes
    <2>2. ckpt'.intent = ckpt.intent
          \/ (ckpt'.next = "prepare_draft_pr" /\ remote' = ckpt.final_commit)
      BY <1>32, PushBranchDoes
    <2>3. remote' = remote \/ (remote' = ckpt.final_commit /\ ckpt.intent = "push")
      BY <1>32, PushBranchDoes DEF Pushed
    <2>4. QED BY <2>1, <2>2, <2>3
  <1>33. CASE PrepareDraftPR
    BY <1>33, PrepareDraftPRDoes
  <1>34. CASE CreateDraftPR
    BY <1>34, CreateDraftPRDoes
  <1>35. CASE Blocked
    BY <1>35, BlockedDoes
  <1>36. CASE Cleanup
    BY <1>36, CleanupDoes
  <1>37. CASE Ends
    BY <1>37 DEF Ends, outside
  <1>38. CASE Crashes
    BY <1>38 DEF Crashes, outside
  <1>39. ASSUME NEW tree \in Trees, CoderDies(tree) PROVE RemoteInv'
    BY <1>39 DEF CoderDies, DiesUnsaved, Node
  <1>40. CASE ResumesBlocked
    <2>1. ckpt'.prepared = ckpt.prepared /\ ckpt'.pr = ckpt.pr
          /\ ckpt'.remote_baseline = ckpt.remote_baseline
          /\ ckpt'.final_commit = ckpt.final_commit /\ ckpt'.intent = ckpt.intent
          /\ remote' = remote
      BY <1>40, ResumesBlockedDoes
    <2>2. ckpt.next # "prepare_draft_pr"
      BY <1>40, ResumesWhereBlocked
    <2>3. QED BY <2>1, <2>2
  <1>41. CASE ResumesInterrupted
    BY <1>41 DEF ResumesInterrupted, outside
  <1>42. CASE StartsOver
    BY <1>42 DEF StartsOver, outside, InitialState
  <1>43. CASE RepairAsked
    BY <1>43, RepairAskedDoes
  <1>44. CASE OperatorDiscards
    BY <1>44, OperatorDiscardsDoes
  <1>45. CASE SomebodyPushes
    <2>1. ckpt' = ckpt /\ remote' = Foreign(remote)
      BY <1>45 DEF SomebodyPushes
    <2>2. QED BY <2>1, CommitsEnd
  <1>46. QED BY <1>1, <1>2, <1>3, <1>4, <1>5, <1>6, <1>7, <1>8, <1>9, <1>10, <1>11,
      <1>12, <1>13, <1>14, <1>15, <1>16, <1>17, <1>18, <1>19, <1>20, <1>21, <1>22,
      <1>23, <1>24, <1>25, <1>26, <1>27, <1>28, <1>29, <1>30, <1>31, <1>32, <1>33,
      <1>34, <1>35, <1>36, <1>37, <1>38, <1>39, <1>40, <1>41, <1>42, <1>43, <1>44,
      <1>45
    DEF WorkflowNext, NodeStep, PlanningStep, ImplementationStep, IntegrationStep,
        PublicationStep

-----------------------------------------------------------------------------
(* The theorems *)

LEMMA PublicationInit == ASSUME WorkflowInit PROVE PublicationIInv
  <1>1. PICK simplified \in BOOLEAN : ckpt = InitialState(simplified)
    BY DEF WorkflowInit
  <1>2. ~EndsWith(NoRevision, "final")
    BY DEF EndsWith
  <1>3. Foreign(NoRevision) # NoRevision /\ Tip(Foreign(NoRevision)).kind = "foreign"
    BY BaseIsRevision, TipOfCommit DEF Foreign
  <1>4. \A h \in Known : ~EndsWith(h, "final")
    BY <1>1, <1>2, <1>3 DEF WorkflowInit, InitialState, Known, EndsWith
  <1>5. FinalCommitInv /\ ApprovedInv /\ BlockedInv
    BY <1>1, <1>4 DEF InitialState, FinalCommitInv, ApprovedInv, BlockedInv, FinalizeNodes
  <1>6. ckpt.next = "prepare_workspace" /\ ckpt.stage = ""
    BY <1>1 DEF InitialState
  <1>7. PassedInv /\ IntentInv /\ HeadInv
    BY <1>6 DEF PassedInv, IntentInv, HeadInv, AtCheckpoint, AtFinalize, At, Stops,
                ReviewedNodes, PushNodes, BeforeFinal, StepNodes, PlanNodes
  <1>8. PreparedInv
    BY ForeignInit DEF ForeignIInv
  <1>9. RemoteInv
    BY <1>1 DEF InitialState, RemoteInv
  <1>10. QED BY <1>5, <1>7, <1>8, <1>9, TypeInit DEF PublicationIInv

LEMMA PublicationNext == ASSUME PublicationIInv, WorkflowNext PROVE PublicationIInv'
  <1>1. Fields /\ SpaceOK /\ RevisionsOK
    BY RecordFields DEF PublicationIInv, TypeInv
  <1>2. TypeInv' /\ PreparedInv'
    BY <1>1, TypeStep, PreparedStep DEF PublicationIInv, TypeInv
  <1>3. FinalCommitInv' /\ ApprovedInv' /\ BlockedInv'
    BY <1>1, FinalCommitStep, ApprovedStep, BlockedStep DEF PublicationIInv
  <1>4. PassedInv' /\ IntentInv'
    BY <1>1, PassedStep, IntentStep DEF PublicationIInv
  <1>5. HeadInv' /\ RemoteInv'
    BY <1>1, HeadStep, RemoteInvStep DEF PublicationIInv
  <1>6. QED BY <1>2, <1>3, <1>4, <1>5 DEF PublicationIInv

LEMMA PublicationStutter ==
  ASSUME PublicationIInv, UNCHANGED workflowVars PROVE PublicationIInv'
  <1> USE DEF workflowVars, outside
  <1>1. TypeInv' /\ PreparedInv'
    BY TypeStutter DEF PublicationIInv, PreparedInv
  <1>2. Known' = Known
    BY DEF Known
  <1>3. FinalCommitInv' /\ ApprovedInv' /\ BlockedInv'
    BY <1>2 DEF PublicationIInv, FinalCommitInv, ApprovedInv, BlockedInv
  <1>4. FinalIsHead' = FinalIsHead /\ Dirty' = Dirty /\ StepBaseline' = StepBaseline
    BY SameFinal, SameContents, SameBaseline
  <1>5. CheckpointIsHead' = CheckpointIsHead
    BY SameCheckpoint
  <1>6. AtCheckpoint' = AtCheckpoint /\ AtFinalize' = AtFinalize /\ Clean' = Clean
    BY DEF AtCheckpoint, AtFinalize, At, Clean
  <1>7. PassedInv' /\ IntentInv' /\ HeadInv' /\ RemoteInv'
    BY <1>4, <1>5, <1>6 DEF PublicationIInv, PassedInv, IntentInv, HeadInv, RemoteInv, At
  <1>8. QED BY <1>1, <1>3, <1>7 DEF PublicationIInv

LEMMA PublicationIsInductive == WorkflowSpec => []PublicationIInv
  <1>1. WorkflowInit => PublicationIInv
    BY PublicationInit
  <1>2. PublicationIInv /\ [WorkflowNext]_workflowVars => PublicationIInv'
    BY PublicationNext, PublicationStutter
  <1>3. QED BY <1>1, <1>2, PTL DEF WorkflowSpec

\* What is pushed to the issue branch is, file for file, what the reviewer of the whole
\* plan approved, by whatever stages the workflow was blocked, resumed or started over;
\* and what the validation of the whole plan passed, unless the stage of a failed cleanup
\* is left in the checkpoint (route_after_final_validation, route_after_final_reviewer,
\* resume_from_for_stage, finalize_checkpoint_history; cleanup_node).
THEOREM PushesWereApproved == WorkflowSpec => PushesAreApproved
  <1>1. ASSUME PublicationIInv, [WorkflowNext]_workflowVars, remote' # remote, Own(remote')
        PROVE  /\ TreeOf(remote') \in vetted
               /\ ckpt.cleanup_stage = "" => TreeOf(remote') \in passed
    <2>1. Fields /\ RevisionsOK
      BY <1>1, RecordFields DEF PublicationIInv, TypeInv
    <2>2. WorkflowNext
      BY <1>1 DEF workflowVars, outside
    <2>3. PushBranch /\ Pushed
      BY <1>1, <2>1, <2>2, RemoteStep, CommitsEnd
    <2>4. ckpt.next = "push_branch" /\ remote' = ckpt.final_commit
      BY <2>1, <2>3, PushBranchDoes DEF Pushed
    <2>5. TreeOf(remote') \in vetted
      BY <1>1, <2>4 DEF PublicationIInv, FinalCommitInv, Own
    <2>6. ckpt.cleanup_stage = "" => TreeOf(remote') \in passed
      BY <1>1, <2>4 DEF PublicationIInv, PassedInv, Clean, At, PushNodes
    <2>7. QED BY <2>5, <2>6
  <1>2. PublicationIInv /\ [WorkflowNext]_workflowVars =>
          [remote' # remote /\ Own(remote') =>
             /\ TreeOf(remote') \in vetted
             /\ ckpt.cleanup_stage = "" => TreeOf(remote') \in passed]_workflowVars
    BY <1>1
  <1>3. QED BY <1>2, PublicationIsInductive, PTL DEF WorkflowSpec, PushesAreApproved

\* HEAD of the workspace is the revision the checkpoint names for the stage that is next,
\* or the commit that its prepared intent announces, whatever died, was resumed or started
\* over; and until there is a pull request, what was pushed is known to be the workflow's
\* own (side_effects.py, commit_changes, finalize_checkpoint_history). The stage of a
\* failed cleanup that is left in the checkpoint is excepted (cleanup_node).
THEOREM AnnouncedEffects == WorkflowSpec => []EffectsAreAnnounced
  <1>1. PublicationIInv => EffectsAreAnnounced
    <2> SUFFICES ASSUME PublicationIInv PROVE EffectsAreAnnounced
      OBVIOUS
    <2>1. ASSUME ckpt.cleanup_stage = "", ckpt.next \in StepNodes
          PROVE  work.head = StepBaseline \/ CheckpointIsHead
      BY <2>1 DEF PublicationIInv, HeadInv, Clean, At
    <2>2. ASSUME ckpt.cleanup_stage = "", ckpt.next \in PlanNodes
          PROVE  work.head = ckpt.final_baseline \/ (ckpt.intent = "final" /\ FinalIsHead)
      BY <2>2 DEF PublicationIInv, HeadInv, Clean, At
    <2>3. ASSUME ckpt.cleanup_stage = "",
                 ckpt.next \in {"prepare_push_branch", "push_branch"}
          PROVE  work.head = ckpt.final_commit
      BY <2>3 DEF PublicationIInv, HeadInv, Clean, At, PushNodes
    <2>4. ASSUME ckpt.prepared, ~ckpt.pr, Own(remote)
          PROVE  remote \in {ckpt.final_commit, ckpt.remote_baseline}
      BY <2>4 DEF PublicationIInv, RemoteInv
    <2>5. QED BY <2>1, <2>2, <2>3, <2>4 DEF EffectsAreAnnounced
  <1>2. QED BY <1>1, PublicationIsInductive, PTL

=============================================================================
