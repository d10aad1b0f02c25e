------------------------ MODULE MCRecoveryExecution ------------------------
(* Small instances of RecoveryExecution for TLC. *)
EXTENDS RecoveryProperties

\* One server process with a request thread and its retry worker, and a second
\* process with a worker of its own.
TwoProcesses == {{"hook", "worker1"}, {"worker2"}}
\* One server process.
OneProcess == {{"hook", "worker1"}}
=============================================================================
