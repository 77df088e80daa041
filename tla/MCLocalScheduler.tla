-------------------------- MODULE MCLocalScheduler --------------------------
\* The run of LocalScheduler: its constants are numbers, which the cfg file gives.
EXTENDS LocalScheduler

=============================================================================
