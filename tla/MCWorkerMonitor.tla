--------------------------- MODULE MCWorkerMonitor ---------------------------
(* One run of any front end: each run has a child, a pipe and a monitor of   *)
(* its own, and shares the stores and the screen with the others.            *)
EXTENDS WorkerMonitor
=============================================================================
