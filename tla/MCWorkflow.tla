----------------------------- MODULE MCWorkflow -----------------------------
\* The runs of Workflow: its constants are numbers, which the cfg files give.
EXTENDS Workflow

=============================================================================
