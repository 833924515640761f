SPECIFICATION Spec
CONSTANTS
  Pool = {p1}
  Main = main
  Listener = listener
  None = none
  Sentinel = sentinel
  BufferSize = 2
  RunsKept = 1
  MaxRuns = 2
  MaxEvents = 3
INVARIANTS TraceIsFaithful FailuresReachDisk
PROPERTY TeardownEnds
CHECK_DEADLOCK FALSE
