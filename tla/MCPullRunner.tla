----------------------------- MODULE MCPullRunner -----------------------------
\* Concrete constants for the runs of PullRunner.
EXTENDS PullRunner

SharedTask == [j \in Jobs |-> "issue-1"]
SharedBranch == [j \in Jobs |-> "agent/issue-1"]
EveryRunner == [j \in Jobs |-> Runners]
One == [r \in Runners |-> 1]
NoOffset == [r \in Runners |-> 0]

=============================================================================
