-------------------------- MODULE MCSnapshotRestore --------------------------
(* Two runs: an archive of the first, active files of the second.            *)
EXTENDS SnapshotRestore

\* A constraint: the properties say nothing of what follows a race.
Unraced == ~raced

=============================================================================
