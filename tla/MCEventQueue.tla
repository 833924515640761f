---------------------------- MODULE MCEventQueue ----------------------------
\* The trace queue for TLC: two runs, download threads beside the pipeline.
EXTENDS EventQueue
=============================================================================
