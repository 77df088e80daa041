--------------------------- MODULE MCTaskScheduler ---------------------------
\* The runs of TaskScheduler: its constants are numbers, which the cfg files give.
EXTENDS TaskScheduler

=============================================================================
