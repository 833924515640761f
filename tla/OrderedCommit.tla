---------------------------- MODULE OrderedCommit ----------------------------
(***************************************************************************)
(* What the run history promises about two stores that are committed one   *)
(* after the other without a common transaction: never more than the       *)
(* stores hold.  `first` and `second` are the facts, `claim` is what a     *)
(* reader of the history is told, and `lost` are the runs that stopped     *)
(* between the two commits and left nobody to say so.                      *)
(***************************************************************************)
EXTENDS Naturals

CONSTANT Runs

VARIABLES
    first,    \* runs durable in the store committed first
    second,   \* runs durable in the store committed second
    claim,    \* what the history says of each run
    lost      \* split runs whose split was never recorded

vars == <<first, second, claim, lost>>

Claims == {"none", "open", "undone", "done", "split", "resolved"}

Init ==
    /\ first = {} /\ second = {} /\ lost = {}
    /\ claim = [r \in Runs |-> "none"]

Open(r) ==
    /\ claim[r] = "none"
    /\ claim' = [claim EXCEPT ![r] = "open"]
    /\ UNCHANGED <<first, second, lost>>

CommitFirst(r) ==
    /\ claim[r] = "open"
    /\ first' = first \cup {r}
    /\ UNCHANGED <<second, claim, lost>>

CommitSecond(r) ==
    /\ claim[r] = "open"
    /\ r \in first
    /\ second' = second \cup {r}
    /\ UNCHANGED <<first, claim, lost>>

Lose(r) ==
    /\ claim[r] = "open"
    /\ r \in first \ second
    /\ lost' = lost \cup {r}
    /\ UNCHANGED <<first, second, claim>>

\* Nothing of the run is in the second store, and nothing in the first one
\* either unless the split was lost.
Undone(r) ==
    /\ r \notin second
    /\ r \in first => r \in lost

Verdict(r, c) ==
    /\ claim[r] = "open"
    /\ \/ c = "undone" /\ Undone(r)
       \/ c = "done" /\ r \in first \cap second
       \/ c = "split" /\ r \in first
    /\ claim' = [claim EXCEPT ![r] = c]
    /\ UNCHANGED <<first, second, lost>>

\* A split is resolved only by a run that started later and is in both.
Resolve(r) ==
    /\ claim[r] = "split"
    /\ \E s \in first \cap second : s > r
    /\ claim' = [claim EXCEPT ![r] = "resolved"]
    /\ UNCHANGED <<first, second, lost>>

Next ==
    \E r \in Runs :
        \/ Open(r) \/ CommitFirst(r) \/ CommitSecond(r) \/ Lose(r)
        \/ Resolve(r)
        \/ \E c \in Claims : Verdict(r, c)

Spec == Init /\ [][Next]_vars

=============================================================================
