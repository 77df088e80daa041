------------------------------ MODULE MCJobStore ------------------------------
\* Concrete constants for the runs of JobStore.
EXTENDS JobStore, TLC

\* All jobs belong to one task, and so work on one branch.
SharedTask == [j \in Jobs |-> "issue-1"]
SharedBranch == [j \in Jobs |-> "agent/issue-1"]

EveryRunner == [j \in Jobs |-> Runners]
One == [r \in Runners |-> 1]

\* The clocks of the hosts are all different.
Offsets == CHOOSE f \in [Runners -> 0 .. Cardinality(Runners) - 1] :
             \A r, s \in Runners : r # s => f[r] # f[s]

\* Jobs of one task with equal needs are interchangeable (safety runs only).
JobSymmetry == Permutations(Jobs)

=============================================================================
