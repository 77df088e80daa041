------------------------------- MODULE Intake -------------------------------
(***************************************************************************)
(* How one GitHub issue becomes a task: _poll_ready_issues of               *)
(* app/task_scheduler.py, and run_cli --submit-issue of app/cli.py, which   *)
(* an operator may run beside it.                                           *)
(*                                                                          *)
(* Both read the issue, bring its description into the form of a contract   *)
(* if that makes it one, refuse it if not, and create the task.  The        *)
(* scheduler then takes the label off, which it may fail to do, or die      *)
(* before; the author may edit and label the issue at any time.  Comments   *)
(* are left out, but for the failure of the call that makes them.           *)
(*                                                                          *)
(* The row of the task belongs to the scheduler that uses this module; it   *)
(* is Absent, or made by NewTask from the description.                      *)
(***************************************************************************)
EXTENDS Integers

CONSTANTS
  Absent,       \* the row of a task that does not exist
  NewTask(_),   \* the row of a new task with this description
  MaxFaults     \* bound: failed calls, edits by the author and submissions

VARIABLES
  issue,   \* its label ready_to_develop, and the kind of its description
  poll,    \* where the scheduler is with the issue, and the description it has read
  submit,  \* the same of the operator's command
  row,     \* the task
  faults

\* A description that format_issue_contract cannot make valid, one it can, one that is.
Bodies == {"incomplete", "free_form", "contract"}

PollPhases ==
  {"due", "look", "format", "refuse", "create", "insert", "acknowledge", "unlabel", "done"}

SubmitPhases == {"none", "format", "create", "insert"}

IntakeTypeOK ==
  /\ issue \in [label : BOOLEAN, body : Bodies]
  /\ poll \in [pc : PollPhases, body : Bodies]
  /\ submit \in [pc : SubmitPhases, body : Bodies]

Resting(pc) == [pc |-> pc, body |-> "contract"]

IntakeInit ==
  /\ issue \in [label : {TRUE}, body : Bodies]
  /\ poll = Resting("due")
  /\ submit = Resting("none")
  /\ row = Absent

\* format_issue_contract: one that it cannot make valid is at most trimmed.
Formatted(body) == IF body = "incomplete" THEN body ELSE "contract"

Disturbs == faults < MaxFaults /\ faults' = faults + 1

-----------------------------------------------------------------------------
(* _poll_ready_issues *)

PollGoes(pc) == poll' = [poll EXCEPT !.pc = pc]

\* list_ready_issues.
Lists ==
  /\ poll.pc = "due"
  /\ poll' = IF issue.label THEN [pc |-> "look", body |-> issue.body] ELSE Resting("done")
  /\ UNCHANGED <<issue, submit, row, faults>>

\* poll_interval_seconds have not passed since the last poll.
IsNotDue ==
  /\ poll.pc = "due"
  /\ poll' = Resting("done")
  /\ UNCHANGED <<issue, submit, row, faults>>

\* A text that formatting changes is sent back before it is validated.
Looks(next, body) ==
  row = Absent /\ poll.body = body /\ (PollGoes("format") \/ PollGoes(next))

\* Mutant: the contract is not validated.
LooksUpUnchecked ==
  /\ poll.pc = "look"
  /\ \/ row # Absent /\ poll' = Resting("acknowledge")
     \/ Looks("format", "free_form") \/ Looks("create", "contract")
     \/ Looks("create", "incomplete")
  /\ UNCHANGED <<issue, submit, row, faults>>

\* Mutant: an issue whose task exists is passed over.
LooksUpNew ==
  /\ poll.pc = "look"
  /\ \/ row # Absent /\ poll' = Resting("done")
     \/ Looks("format", "free_form") \/ Looks("create", "contract")
     \/ Looks("refuse", "incomplete")
  /\ UNCHANGED <<issue, submit, row, faults>>

\* A task that exists is only acknowledged; else the description is formatted, and
\* refused if that does not make it valid.
LooksUp ==
  /\ poll.pc = "look"
  /\ \/ row # Absent /\ poll' = Resting("acknowledge")
     \/ Looks("format", "free_form") \/ Looks("create", "contract")
     \/ Looks("refuse", "incomplete")
  /\ UNCHANGED <<issue, submit, row, faults>>

\* update_issue_body, over whatever the author has written since; then the new text is
\* validated.
Formats ==
  /\ poll.pc = "format"
  /\ issue' = [issue EXCEPT !.body = Formatted(poll.body)]
  /\ poll' = [pc |-> IF poll.body = "incomplete" THEN "refuse" ELSE "create",
              body |-> Formatted(poll.body)]
  /\ UNCHANGED <<submit, row, faults>>

\* A comment lists what is missing; the label stays.
Refuses ==
  /\ poll.pc = "refuse"
  /\ poll' = Resting("done")
  /\ UNCHANGED <<issue, submit, row, faults>>

\* Mutant: the label goes before the task is there.
CreatesUnlabelled ==
  /\ poll.pc = "create"
  /\ issue' = [issue EXCEPT !.label = FALSE]
  /\ PollGoes(IF row = Absent THEN "insert" ELSE "acknowledge")
  /\ UNCHANGED <<submit, row, faults>>

\* TaskStore.create looks for the task ...
Creates ==
  /\ poll.pc = "create"
  /\ PollGoes(IF row = Absent THEN "insert" ELSE "acknowledge")
  /\ UNCHANGED <<issue, submit, row, faults>>

\* ... and inserts it in a transaction of its own.
Inserts ==
  /\ poll.pc = "insert"
  /\ row = Absent
  /\ row' = NewTask(poll.body)
  /\ poll' = Resting("acknowledge")
  /\ UNCHANGED <<issue, submit, faults>>

\* The key is taken: the driver's exception is none of those the loop catches.
Collides == poll.pc = "insert" /\ row # Absent

\* The comment that names the task's status, then remove_issue_label.
Acknowledges ==
  /\ poll.pc = "acknowledge"
  /\ poll' = Resting("unlabel")
  /\ UNCHANGED <<issue, submit, row, faults>>

RemovesLabel ==
  /\ poll.pc = "unlabel"
  /\ issue' = [issue EXCEPT !.label = FALSE]
  /\ poll' = Resting("done")
  /\ UNCHANGED <<submit, row, faults>>

\* A call to GitHub raises: the issue is left for the next poll.
PollFails ==
  /\ poll.pc \in {"due", "format", "refuse", "create", "acknowledge", "unlabel"}
  /\ poll' = Resting("done")
  /\ Disturbs
  /\ UNCHANGED <<issue, submit, row>>

PollStep ==
  \/ Lists \/ IsNotDue \/ LooksUp \/ Formats \/ Refuses \/ Creates \/ Inserts
  \/ Acknowledges \/ RemovesLabel \/ PollFails

-----------------------------------------------------------------------------
(* run_cli --submit-issue; it leaves the label alone, and ends when a call raises. *)

SubmitReads ==
  /\ submit.pc = "none"
  /\ \/ submit' = [pc |-> "format", body |-> issue.body]
     \/ issue.body = "contract" /\ submit' = Resting("create")
  /\ Disturbs
  /\ UNCHANGED <<issue, poll, row>>

SubmitFormats ==
  /\ submit.pc = "format"
  /\ issue' = [issue EXCEPT !.body = Formatted(submit.body)]
  /\ submit' = Resting(IF submit.body = "incomplete" THEN "none" ELSE "create")
  /\ UNCHANGED <<poll, row, faults>>

SubmitCreates ==
  /\ submit.pc = "create"
  /\ submit' = Resting(IF row = Absent THEN "insert" ELSE "none")
  /\ UNCHANGED <<issue, poll, row, faults>>

SubmitInserts ==
  /\ submit.pc = "insert"
  /\ row' = IF row = Absent THEN NewTask(submit.body) ELSE row
  /\ submit' = Resting("none")
  /\ UNCHANGED <<issue, poll, faults>>

AuthorEdits(body) ==
  /\ body # issue.body
  /\ issue' = [issue EXCEPT !.body = body]
  /\ Disturbs
  /\ UNCHANGED <<poll, submit, row>>

\* The author asks for another look, or takes the authorization back.
AuthorLabels ==
  /\ issue' = [issue EXCEPT !.label = ~@]
  /\ Disturbs
  /\ UNCHANGED <<poll, submit, row>>

PeopleStep ==
  \/ SubmitReads \/ SubmitFormats \/ SubmitCreates \/ SubmitInserts
  \/ \E body \in Bodies : AuthorEdits(body)
  \/ AuthorLabels

=============================================================================
