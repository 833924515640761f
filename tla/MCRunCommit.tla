---------------------------- MODULE MCRunCommit ----------------------------
(* RunCommit with a handful of runs: three are enough for a split run, a run *)
(* that fails while converging it and a third that converges both.           *)
EXTENDS RunCommit

CONSTANT MaxRun

MCRuns == 1..MaxRun

=============================================================================
