---------------------------- MODULE MCRunnerLedger ----------------------------
\* The run of RunnerLedger: its constants are given in the cfg file.
EXTENDS RunnerLedger

=============================================================================
