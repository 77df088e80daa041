------------------------------ MODULE JobClaims ------------------------------
(***************************************************************************)
(* What the PostgreSQL runner queue promises the scheduler and the people   *)
(* who operate it, with no leases, clocks, runners or rows: a job is handed *)
(* out under numbered tokens, one at a time; a token ends exactly once, by  *)
(* a verdict of its holder or by being revoked; and two jobs of one task or *)
(* one branch are never handed out together.  JobStore implements it.       *)
(***************************************************************************)
EXTENDS Integers

CONSTANTS
  Jobs,          \* job identities
  MaxAttempts,   \* bound on the tokens of one job
  Conflicts      \* the pairs of jobs that share a task or a branch

VARIABLES
  open,     \* the jobs a runner may take
  verdict   \* verdict[j][t]: what became of token t of job j

claimVars == <<open, verdict>>

Tokens == 1 .. MaxAttempts

Live(j) == \E t \in Tokens : verdict[j][t] = "live"

Unissued(j) == \A t \in Tokens : verdict[j][t] = "unissued"

\* The newest token of j: no later one was issued.
Newest(j, t) ==
  /\ verdict[j][t] # "unissued"
  /\ \A u \in Tokens : u > t => verdict[j][u] = "unissued"

ClaimsInit ==
  /\ open = {}
  /\ verdict = [j \in Jobs |-> [t \in Tokens |-> "unissued"]]

Post(j) ==
  /\ j \notin open
  /\ Unissued(j)
  /\ open' = open \cup {j}
  /\ UNCHANGED verdict

\* Tokens are issued in order, to an open job that nothing live conflicts with.
Issue(j, t) ==
  /\ j \in open
  /\ \A k \in Jobs : Live(k) => <<j, k>> \notin Conflicts
  /\ \A u \in Tokens : u < t <=> verdict[j][u] # "unissued"
  /\ open' = open \ {j}
  /\ verdict' = [verdict EXCEPT ![j][t] = "live"]

Settle(j, t, v) ==
  /\ verdict[j][t] = "live"
  /\ verdict' = [verdict EXCEPT ![j][t] = v]
  /\ UNCHANGED open

\* Several tokens can be revoked at once.
Revoke(S) ==
  /\ \A j \in S : Live(j)
  /\ verdict' = [j \in Jobs |-> [t \in Tokens |->
                   IF j \in S /\ verdict[j][t] = "live"
                   THEN "revoked" ELSE verdict[j][t]]]
  /\ UNCHANGED open

\* A job comes back only when its newest token was revoked.
Reopen(j, t) ==
  /\ j \notin open
  /\ Newest(j, t)
  /\ verdict[j][t] = "revoked"
  /\ open' = open \cup {j}
  /\ UNCHANGED verdict

ClaimsNext ==
  \/ \E j \in Jobs : Post(j)
  \/ \E j \in Jobs, t \in Tokens : Issue(j, t) \/ Reopen(j, t)
  \/ \E j \in Jobs, t \in Tokens, v \in {"succeeded", "failed"} : Settle(j, t, v)
  \/ \E S \in SUBSET Jobs : Revoke(S)

ClaimsSpec == ClaimsInit /\ [][ClaimsNext]_claimVars

=============================================================================
