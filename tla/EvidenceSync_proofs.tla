-------------------------- MODULE EvidenceSync_proofs --------------------------
(***************************************************************************)
(* Proofs about EvidenceSync, for any paths, categories and contents: the  *)
(* vault never holds bytes under the wrong identity and never loses those  *)
(* of a statement; a run that succeeds has caught what drifted, leaves     *)
(* nothing pending, and where base names are unique has loaded what it     *)
(* calls SYNCED into a Bronze that holds each file once.                   *)
(***************************************************************************)
EXTENDS EvidenceSync, TLAPS

\* Types of the registry and of what the run remembers of the folder.
RegistryType ==
    /\ disk \in [Paths -> Bytes]
    /\ cp \in [Paths -> Entry]
    /\ cpView \in [Paths -> Entry]
    /\ found \subseteq Paths
    /\ todo \subseteq Paths

\* A live row has its payload, and the digest of it.
Vaulted(r, p) ==
    r[p].status \in {"PENDING", "SYNCED"}
        => r[p].payload # None /\ r[p].payload = r[p].hash

Outside == {"idle", "pruning", "requeueing", "begun", "discovered"}

\* The inductive invariant: it holds of what is durable, and of what the run
\* sees for every path that it has not still to capture.
VaultInv ==
    /\ RegistryType
    /\ pc \in PC
    /\ pc \in Outside => cpView = cp
    /\ pc # "capturing" => todo = {}
    /\ \A p \in Paths : Vaulted(cp, p)
    /\ \A p \in Paths \ todo : Vaulted(cpView, p)

\* The first state satisfies it.
LEMMA VaultInit == Init => VaultInv
BY DEF Init, VaultInv, RegistryType, Vaulted, Unregistered, Entry, Bytes,
       Outside, PC

\* A path that was not found is live no more, and only a replaced category
\* loses the bytes with it.
LEMMA RemovedRow ==
    ASSUME NEW p \in Paths, cpView[p] \in Entry
    PROVE  /\ AfterRemoval(p) \in Entry
           /\ AfterRemoval(p).status \notin {"PENDING", "SYNCED"}
           /\ Cat[p] \notin FullReplace
                => AfterRemoval(p).payload = cpView[p].payload
<1> DEFINE e == MarkRemoved(cpView[p])
<1>1. /\ e \in Entry
      /\ e.status \notin {"PENDING", "SYNCED"}
      /\ e.payload = cpView[p].payload
  BY DEF MarkRemoved, Entry
<1>2. PrunePayload(e) \in Entry /\ PrunePayload(e).status = e.status
  BY <1>1 DEF PrunePayload, Entry, Bytes
<1>3. AfterRemoval(p) = IF Cat[p] \in FullReplace THEN PrunePayload(e) ELSE e
  BY DEF AfterRemoval
<1> HIDE DEF e
<1>4. QED
  BY <1>1, <1>2, <1>3

\* What sync_with_disk makes of a row: a row of the registry again, and a
\* vaulted one unless the path is still to be captured.
LEMMA SyncStep ==
    ASSUME VaultInv, SyncWithDisk
    PROVE  /\ cpView' \in [Paths -> Entry]
           /\ todo' \subseteq Paths
           /\ \A p \in Paths \ todo' : Vaulted(cpView, p)'
<1> USE DEF VaultInv, RegistryType
<1> DEFINE taken(taker) == {taker[q] : q \in Renamable}
           row(taker, p) ==
             CASE p \in taken(taker) ->
                     Moved(cpView[CHOOSE q \in Renamable : taker[q] = p])
               [] p \in Renamable -> Tombstone(cpView[p])
               [] p \notin found \cup Renamable -> AfterRemoval(p)
               [] OTHER -> MarkHealed(cpView[p])
<1>1. PICK taker \in [Renamable -> found] :
        /\ \A q \in Renamable : taker[q] \in Takers(q)
        /\ todo' = {p \in found \ taken(taker) : IsNew(p) \/ IsChanged(p)}
        /\ cpView' = [p \in Paths |-> row(taker, p)]
  BY Zenon DEF SyncWithDisk
<1>2. todo' \subseteq Paths
  BY <1>1
<1>3. ASSUME NEW p \in Paths
      PROVE  cpView'[p] \in Entry /\ (p \notin todo' => Vaulted(cpView, p)')
  <2>0. cpView'[p] = row(taker, p)
    <3> HIDE DEF row
    <3> QED
      BY <1>1
  <2> DEFINE old == CHOOSE q \in Renamable : taker[q] = p
  <2>1. CASE p \in taken(taker)
    <3>1. old \in Renamable /\ taker[old] = p
      BY <2>1
    <3>2. old \in Paths /\ Live(old) /\ cpView[old].payload # None
      <4>1. old \in Paths /\ cpView[old].payload # None
        BY <3>1 DEF Renamable
      <4>2. PICK t \in found : RenameCandidates(t) = {old}
        BY <3>1 DEF Renamable, Takers
      <4>3. QED
        BY <4>1, <4>2 DEF RenameCandidates
    <3>3. cpView'[p] = cpView[old]
      <4>1. p \in found /\ p \notin Renamable
        BY <2>1 DEF Renamable
      <4>2. cpView[p].status # "REMOVED"
        BY <1>1, <3>1 DEF Takers, Registered
      <4>3. QED
        BY <2>0, <2>1, <4>1, <4>2 DEF Moved
    <3>4. Vaulted(cpView, old)
      BY <3>2, SyncWithDisk DEF SyncWithDisk
    <3>5. QED
      BY <3>2, <3>3, <3>4 DEF Vaulted, Live
  <2>2. CASE p \notin taken(taker) /\ p \in Renamable
    <3>1. cpView'[p] = [cpView[p] EXCEPT !.status = "REMOVED", !.payload = None]
      <4>1. p \notin found
        BY <2>2 DEF Renamable
      <4>2. QED
        BY <2>0, <2>2, <4>1 DEF Tombstone
    <3>2. QED
      BY <3>1 DEF Vaulted, Entry, Bytes
  <2>3. CASE p \notin taken(taker) /\ p \notin Renamable
             /\ p \in found /\ cpView[p].status = "REMOVED"
    <3>1. cpView'[p] = [cpView[p] EXCEPT !.status = "PENDING"]
      BY <2>0, <2>3 DEF MarkHealed
    <3>2. p \in todo'
      BY <1>1, <2>3 DEF IsNew, HasPayload, Live
    <3>3. QED
      BY <3>1, <3>2 DEF Entry
  <2>4. CASE p \notin taken(taker) /\ p \notin Renamable /\ p \notin found
    <3>1. cpView'[p] = AfterRemoval(p)
      BY <2>0, <2>4
    <3>2. QED
      BY <3>1, RemovedRow DEF Vaulted
  <2>5. CASE p \notin taken(taker) /\ p \notin Renamable
             /\ p \in found /\ cpView[p].status # "REMOVED"
    <3>1. cpView'[p] = cpView[p]
      BY <2>0, <2>5 DEF MarkHealed
    <3>2. Vaulted(cpView, p)
      BY SyncWithDisk DEF SyncWithDisk
    <3>3. QED
      BY <3>1, <3>2 DEF Vaulted
  <2>6. QED
    BY <2>1, <2>2, <2>3, <2>4, <2>5
<1>4. cpView' = [p \in Paths |-> cpView'[p]]
  <2> HIDE DEF row
  <2> QED
    BY <1>1
<1>5. QED
  BY <1>2, <1>3, <1>4

\* Every step preserves it.
LEMMA VaultStep == VaultInv /\ [Next]_vars => VaultInv'
<1> SUFFICES ASSUME VaultInv, [Next]_vars PROVE VaultInv'
  OBVIOUS
<1> USE DEF VaultInv, RegistryType, Vaulted, Outside, PC, durable, views,
            memory, Goto
<1>1. CASE User
  <2>1. CASE EditFile
    BY <2>1 DEF EditFile, Edited
  <2>2. CASE MoveFile
    <3>1. PICK p, q \in Paths : disk' = [disk EXCEPT ![p] = None, ![q] = disk[p]]
      BY <2>2 DEF MoveFile, Edited
    <3>2. disk' \in [Paths -> Bytes]
      BY <3>1 DEF Bytes
    <3>3. QED
      BY <2>2, <3>2 DEF MoveFile, Edited
  <2>3. CASE LoseWarehouse
    BY <2>3 DEF LoseWarehouse
  <2>4. QED
    BY <1>1, <2>1, <2>2, <2>3 DEF User
<1>2. CASE StartHealing \/ PruneDangling \/ PruningDone
  BY <1>2 DEF StartHealing, PruneDangling, PruningDone
<1>3. CASE Requeue
  <2>1. PICK p \in Paths : /\ SyncRecordMissing(p)
                           /\ cp' = [cp EXCEPT ![p].status = "PENDING"]
                           /\ cpView' = cp'
    BY <1>3 DEF Requeue, Requeued
  <2>2. cp' \in [Paths -> Entry]
    BY <2>1 DEF Entry
  <2>3. \A q \in Paths : Vaulted(cp, q)'
    BY <2>1 DEF SyncRecordMissing
  <2>4. QED
    BY <1>3, <2>1, <2>2, <2>3 DEF Requeue
<1>4. CASE BeginRun \/ SkipDiscovery \/ AllCaptured \/ MigrateIdentity
  BY <1>4 DEF BeginRun, SkipDiscovery, AllCaptured, MigrateIdentity
<1>5. CASE Discover
  BY <1>5 DEF Discover
<1>6. CASE SyncWithDisk
  <2>1. /\ cpView' \in [Paths -> Entry]
        /\ todo' \subseteq Paths
        /\ \A p \in Paths \ todo' : Vaulted(cpView, p)'
    BY <1>6, SyncStep
  <2>2. /\ pc' = "capturing"
        /\ UNCHANGED <<disk, cp, found>>
    BY <1>6 DEF SyncWithDisk
  <2>3. QED
    BY <2>1, <2>2
<1>7. CASE Ingest
  <2>1. PICK p \in todo :
          /\ disk[p] # None
          /\ cpView' = [cpView EXCEPT ![p] = [status |-> "PENDING",
                                              hash |-> disk[p],
                                              payload |-> disk[p]]]
          /\ todo' = todo \ {p}
    BY <1>7 DEF Ingest, Captured
  <2>2. p \in Paths /\ disk[p] \in Bytes
    BY <2>1
  <2>3. cpView' \in [Paths -> Entry]
    BY <2>1, <2>2 DEF Entry
  <2>4. \A q \in Paths \ todo' : Vaulted(cpView, q)'
    BY <2>1, <2>2
  <2>5. UNCHANGED <<disk, cp, pc, found>> /\ pc = "capturing"
    BY <1>7 DEF Ingest
  <2>6. QED
    BY <2>1, <2>3, <2>4, <2>5
<1>8. CASE LoadBronze
  <2>1. cpView' = [p \in Paths |->
            IF cpView[p].status = "PENDING"
            THEN [cpView[p] EXCEPT !.status = "SYNCED"] ELSE cpView[p]]
    BY <1>8 DEF LoadBronze, Pending, MarkSynced
  <2>2. cpView' \in [Paths -> Entry]
    BY <2>1 DEF Entry
  <2>3. pc = "migrating" /\ pc' = "loaded" /\ UNCHANGED <<disk, cp, found, todo>>
    BY <1>8 DEF LoadBronze
  <2>4. \A p \in Paths : Vaulted(cpView, p)'
    BY <2>1, <2>3 DEF Entry
  <2>5. QED
    BY <2>2, <2>3, <2>4
<1>9. CASE CommitDuckDB \/ CommitSQLite
  BY <1>9 DEF CommitDuckDB, CommitSQLite
<1>10. CASE EndRun
  BY <1>10 DEF EndRun
<1>11. CASE UNCHANGED vars
  BY <1>11 DEF vars
<1>12. QED
  BY <1>1, <1>2, <1>3, <1>4, <1>5, <1>6, <1>7, <1>8, <1>9, <1>10, <1>11
     DEF Next, Heal, Run

\* The inductive invariant holds of every behaviour.
THEOREM VaultInvariant == Spec => []VaultInv
<1>1. Init => VaultInv
  BY VaultInit
<1>2. VaultInv /\ [Next]_vars => VaultInv'
  BY VaultStep
<1>3. QED
  BY <1>1, <1>2, PTL DEF Spec

\* A durable row that is PENDING or SYNCED has its payload and the digest of
\* it, whatever was renamed, edited during a run, rolled back or split.
THEOREM EvidenceIsVaulted == Spec => []EvidenceVaulted
<1>1. VaultInv => EvidenceVaulted
  BY DEF VaultInv, Vaulted, EvidenceVaulted
<1>2. QED
  BY <1>1, VaultInvariant, PTL

\* Bytes of a statement that are durable in the vault are still there for the
\* run, under the same path or, once a rename took them, under a path that it
\* will not capture over.
Kept(p) ==
    Cat[p] \notin FullReplace /\ cp[p].payload # None
        => \/ cpView[p].payload # None
           \/ \E q \in Paths \ todo : cpView[q].payload = cp[p].payload

KeepInv == VaultInv /\ \A p \in Paths : Kept(p)

\* sync_with_disk keeps the bytes: what is not renamed away stays.
LEMMA SyncKeeps ==
    ASSUME KeepInv, SyncWithDisk
    PROVE  \A p \in Paths : Kept(p)'
<1> USE DEF KeepInv, VaultInv, RegistryType
<1> DEFINE taken(taker) == {taker[q] : q \in Renamable}
           row(taker, p) ==
             CASE p \in taken(taker) ->
                     Moved(cpView[CHOOSE q \in Renamable : taker[q] = p])
               [] p \in Renamable -> Tombstone(cpView[p])
               [] p \notin found \cup Renamable -> AfterRemoval(p)
               [] OTHER -> MarkHealed(cpView[p])
<1>1. PICK taker \in [Renamable -> found] :
        /\ \A q \in Renamable : taker[q] \in Takers(q)
        /\ todo' = {p \in found \ taken(taker) : IsNew(p) \/ IsChanged(p)}
        /\ cpView' = [p \in Paths |-> row(taker, p)]
  BY Zenon DEF SyncWithDisk
<1>2. cpView = cp /\ cp' = cp
  BY DEF SyncWithDisk, Outside, durable
<1>3. ASSUME NEW p \in Paths
      PROVE  cpView'[p] = row(taker, p)
  <2> HIDE DEF row
  <2> QED
    BY <1>1
\* Only one path can have given its bytes to a taker.
<1>4. ASSUME NEW t \in Paths, NEW q \in Renamable, taker[q] = t
      PROVE  /\ t \notin todo'
             /\ cpView'[t].payload = cpView[q].payload
  <2> DEFINE giver == CHOOSE r \in Renamable : taker[r] = t
  <2>1. giver \in Renamable /\ taker[giver] = t
    BY <1>4
  <2>2. RenameCandidates(t) = {giver} /\ RenameCandidates(t) = {q}
    BY <1>1, <1>4, <2>1 DEF Takers
  <2>3. giver = q
    BY <2>2
  <2>4. t \in taken(taker) /\ t \in found /\ t \notin Renamable
    BY <1>4 DEF Renamable
  <2>5. cpView[t].status # "REMOVED"
    BY <1>1, <1>4 DEF Takers, Registered
  <2>6. cpView'[t] = cpView[giver]
    BY <1>3, <2>4, <2>5 DEF Moved
  <2>7. QED
    BY <1>1, <2>3, <2>4, <2>6
<1>5. SUFFICES ASSUME NEW p \in Paths,
                      Cat[p] \notin FullReplace, cp[p].payload # None
               PROVE  \/ cpView'[p].payload # None
                      \/ \E q \in Paths \ todo' :
                            cpView'[q].payload = cp[p].payload
  BY <1>2 DEF Kept
<1>6. CASE p \in taken(taker)
  <2>1. PICK q \in Renamable : taker[q] = p
    BY <1>6
  <2>2. QED
    BY <1>4, <2>1 DEF Renamable
<1>7. CASE p \in Renamable
  <2>1. taker[p] \in Paths
    BY <1>1, <1>7
  <2>2. QED
    BY <1>2, <1>4, <1>7, <2>1
<1>8. CASE p \notin taken(taker) /\ p \notin Renamable
  <2>1. cpView'[p].payload = cpView[p].payload
    <3>1. cpView[p] \in Entry
      OBVIOUS
    <3>2. CASE p \in found /\ cpView[p].status = "REMOVED"
      <4>1. cpView'[p] = [cpView[p] EXCEPT !.status = "PENDING"]
        BY <1>3, <1>8, <3>2 DEF MarkHealed
      <4>2. QED
        BY <3>1, <4>1 DEF Entry
    <3>3. CASE p \in found /\ cpView[p].status # "REMOVED"
      BY <1>3, <1>8, <3>3 DEF MarkHealed
    <3>4. CASE p \notin found
      <4>1. cpView'[p] = AfterRemoval(p)
        BY <1>3, <1>8, <3>4
      <4>2. QED
        BY <1>5, <3>1, <4>1, RemovedRow
    <3>5. QED
      BY <3>2, <3>3, <3>4
  <2>2. QED
    BY <1>2, <1>5, <2>1
<1>9. QED
  BY <1>6, <1>7, <1>8

\* Every step preserves it.
LEMMA KeepStep == KeepInv /\ [Next]_vars => KeepInv'
<1> SUFFICES ASSUME KeepInv, [Next]_vars PROVE KeepInv'
  OBVIOUS
<1>1. VaultInv'
  BY VaultStep DEF KeepInv
<1> SUFFICES \A p \in Paths : Kept(p)'
  BY <1>1 DEF KeepInv
<1> USE DEF KeepInv, VaultInv, RegistryType, Kept, Outside, durable, views,
            memory, Goto
<1>2. CASE User \/ StartHealing \/ PruneDangling \/ PruningDone
  BY <1>2 DEF User, EditFile, MoveFile, Edited, LoseWarehouse, StartHealing,
              PruneDangling, PruningDone
<1>3. CASE Requeue
  BY <1>3 DEF Requeue, Requeued
<1>4. CASE BeginRun \/ SkipDiscovery \/ AllCaptured \/ MigrateIdentity \/ Discover
  BY <1>4 DEF BeginRun, SkipDiscovery, AllCaptured, MigrateIdentity, Discover
<1>5. CASE SyncWithDisk
  BY <1>5, SyncKeeps
<1>6. CASE Ingest
  <2>1. PICK p \in todo :
          /\ disk[p] # None
          /\ cpView' = [cpView EXCEPT ![p] = [status |-> "PENDING",
                                              hash |-> disk[p],
                                              payload |-> disk[p]]]
          /\ todo' = todo \ {p}
    BY <1>6 DEF Ingest, Captured
  <2>2. cp' = cp
    BY <1>6 DEF Ingest
  <2>3. QED
    BY <2>1, <2>2
<1>7. CASE LoadBronze
  <2>1. cpView' = [p \in Paths |->
            IF cpView[p].status = "PENDING"
            THEN [cpView[p] EXCEPT !.status = "SYNCED"] ELSE cpView[p]]
    BY <1>7 DEF LoadBronze, Pending, MarkSynced
  <2>2. \A p \in Paths : cpView'[p].payload = cpView[p].payload
    BY <2>1 DEF Entry
  <2>3. cp' = cp /\ todo' = todo
    BY <1>7 DEF LoadBronze
  <2>4. QED
    BY <2>2, <2>3
<1>8. CASE CommitDuckDB \/ CommitSQLite \/ EndRun
  BY <1>8 DEF CommitDuckDB, CommitSQLite, EndRun
<1>9. CASE UNCHANGED vars
  BY <1>9 DEF vars
<1>10. QED
  BY <1>2, <1>3, <1>4, <1>5, <1>6, <1>7, <1>8, <1>9 DEF Next, Heal, Run

\* Durable bytes of a statement are never lost: they stay in the vault, here
\* or under the new name, until the same path is captured again.
THEOREM EvidenceIsKept == Spec => VaultKeepsEvidence
<1> DEFINE Keeps ==
      \A p \in Paths :
        /\ Cat[p] \notin FullReplace
        /\ cp[p].payload # None
        => \/ \E q \in Paths : cp'[q].payload = cp[p].payload
           \/ cp'[p].payload # None
<1>1. Init => KeepInv
  BY VaultInit DEF Init, KeepInv, Kept
<1>2. KeepInv /\ [Next]_vars => KeepInv'
  BY KeepStep
<1>3. KeepInv /\ [Next]_vars => Keeps
  <2> SUFFICES ASSUME KeepInv, [Next]_vars PROVE Keeps
    OBVIOUS
  <2>1. CASE UNCHANGED cp
    BY <2>1
  <2>2. CASE Requeue
    <3>1. PICK p \in Paths : cp' = [cp EXCEPT ![p].status = "PENDING"]
      BY <2>2 DEF Requeue, Requeued
    <3>2. \A q \in Paths : cp'[q].payload = cp[q].payload
      BY <3>1 DEF KeepInv, VaultInv, RegistryType, Entry
    <3>3. QED
      BY <3>2
  <2>3. CASE CommitSQLite
    BY <2>3 DEF CommitSQLite, KeepInv, Kept
  <2>4. QED
    BY <2>1, <2>2, <2>3 DEF Next, User, EditFile, MoveFile, Edited,
       LoseWarehouse, Heal, StartHealing, PruneDangling, PruningDone, Run,
       BeginRun, Discover, SkipDiscovery, SyncWithDisk, Ingest, AllCaptured,
       MigrateIdentity, LoadBronze, CommitDuckDB, EndRun, vars, durable
<1>4. QED
  BY <1>1, <1>2, <1>3, PTL DEF Spec, VaultKeepsEvidence

-----------------------------------------------------------------------------
(* What a successful run leaves behind. *)

\* After the comparison, exactly the files that were found are live or still
\* to be captured; after the load, exactly they are SYNCED.
SyncInv ==
    /\ edits \in Nat
    /\ pc \in {"idle", "pruning", "requeueing", "begun"} => scanned = None
    /\ pc = "discovered" => scanned # None
    /\ pc \in {"capturing", "migrating"} /\ scanned # None =>
          \A p \in Paths : p \in found <=> p \in todo \/ Live(p)
    /\ pc \in {"loaded", "half", "done"} =>
          \A p \in Paths :
              /\ cpView[p].status # "PENDING"
              /\ scanned # None => (cpView[p].status = "SYNCED" <=> p \in found)
    /\ pc = "done" => cp = cpView

\* sync_with_disk accounts for every path.
LEMMA SyncAccounts ==
    ASSUME VaultInv, SyncWithDisk
    PROVE  \A p \in Paths : (p \in found <=> p \in todo' \/ Live(p)')
<1> USE DEF VaultInv, RegistryType
<1> DEFINE taken(taker) == {taker[q] : q \in Renamable}
           row(taker, p) ==
             CASE p \in taken(taker) ->
                     Moved(cpView[CHOOSE q \in Renamable : taker[q] = p])
               [] p \in Renamable -> Tombstone(cpView[p])
               [] p \notin found \cup Renamable -> AfterRemoval(p)
               [] OTHER -> MarkHealed(cpView[p])
<1>1. PICK taker \in [Renamable -> found] :
        /\ \A q \in Renamable : taker[q] \in Takers(q)
        /\ todo' = {p \in found \ taken(taker) : IsNew(p) \/ IsChanged(p)}
        /\ cpView' = [p \in Paths |-> row(taker, p)]
  BY Zenon DEF SyncWithDisk
<1>2. SUFFICES ASSUME NEW p \in Paths
               PROVE  p \in found <=> p \in todo' \/ Live(p)'
  OBVIOUS
<1>3. cpView'[p] = row(taker, p)
  <2> HIDE DEF row
  <2> QED
    BY <1>1
<1>4. cpView[p] \in Entry
  OBVIOUS
<1>5. CASE p \in taken(taker)
  <2> DEFINE giver == CHOOSE q \in Renamable : taker[q] = p
  <2>1. giver \in Renamable /\ taker[giver] = p
    BY <1>5
  <2>2. p \in found /\ p \notin Renamable
    BY <1>5 DEF Renamable
  <2>3. cpView[p].status # "REMOVED"
    BY <1>1, <2>1 DEF Takers, Registered
  <2>4. PICK t \in found : RenameCandidates(t) = {giver}
    BY <2>1 DEF Renamable, Takers
  <2>5. Live(giver)
    BY <2>4 DEF RenameCandidates
  <2>6. cpView'[p] = cpView[giver]
    BY <1>3, <1>5, <2>2, <2>3 DEF Moved
  <2>7. QED
    BY <2>2, <2>5, <2>6 DEF Live
<1>6. CASE p \in Renamable
  <2>1. p \notin found /\ p \notin taken(taker)
    BY <1>6 DEF Renamable
  <2>2. cpView'[p] = [cpView[p] EXCEPT !.status = "REMOVED", !.payload = None]
    BY <1>3, <1>6, <2>1 DEF Tombstone
  <2>3. QED
    BY <1>1, <1>4, <2>1, <2>2 DEF Live, Entry
<1>7. CASE p \notin taken(taker) /\ p \notin Renamable /\ p \in found
  <2>1. CASE cpView[p].status = "REMOVED"
    BY <1>1, <1>7, <2>1 DEF IsNew, HasPayload, Live
  <2>2. CASE cpView[p].status # "REMOVED"
    <3>1. cpView'[p] = cpView[p]
      BY <1>3, <1>7, <2>2 DEF MarkHealed
    <3>2. QED
      BY <1>1, <1>7, <3>1 DEF IsNew, HasPayload, Live
  <2>3. QED
    BY <2>1, <2>2
<1>8. CASE p \notin taken(taker) /\ p \notin Renamable /\ p \notin found
  <2>1. cpView'[p] = AfterRemoval(p)
    BY <1>3, <1>8
  <2>2. QED
    BY <1>1, <1>4, <1>8, <2>1, RemovedRow DEF Live
<1>9. QED
  BY <1>5, <1>6, <1>7, <1>8

\* Every step preserves it.
LEMMA SyncInvStep == VaultInv /\ SyncInv /\ [Next]_vars => SyncInv'
<1> SUFFICES ASSUME VaultInv, SyncInv, [Next]_vars PROVE SyncInv'
  OBVIOUS
<1> USE DEF SyncInv, VaultInv, RegistryType, durable, views, memory, Goto, Live
<1>1. CASE User \/ StartHealing \/ PruneDangling \/ PruningDone \/ Requeue
  BY <1>1 DEF User, EditFile, MoveFile, Edited, LoseWarehouse, StartHealing,
              PruneDangling, PruningDone, Requeue
<1>2. CASE BeginRun \/ SkipDiscovery \/ AllCaptured \/ MigrateIdentity
  BY <1>2 DEF BeginRun, SkipDiscovery, AllCaptured, MigrateIdentity
<1>3. CASE Discover
  <2>1. edits # None
    BY EvidenceAssumption
  <2>2. QED
    BY <1>3, <2>1 DEF Discover
<1>4. CASE SyncWithDisk
  <2>1. \A p \in Paths : (p \in found <=> p \in todo' \/ Live(p)')
    BY <1>4, SyncAccounts
  <2>2. pc' = "capturing" /\ UNCHANGED <<found, edits>>
    BY <1>4 DEF SyncWithDisk
  <2>3. QED
    BY <2>1, <2>2
<1>5. CASE Ingest
  <2>1. PICK p \in todo :
          /\ cpView' = [cpView EXCEPT ![p] = [status |-> "PENDING",
                                              hash |-> disk[p],
                                              payload |-> disk[p]]]
          /\ todo' = todo \ {p}
    BY <1>5 DEF Ingest, Captured
  <2>2. pc = "capturing" /\ UNCHANGED <<pc, scanned, found, edits>>
    BY <1>5 DEF Ingest
  <2>3. QED
    BY <2>1, <2>2
<1>6. CASE LoadBronze
  <2>1. cpView' = [p \in Paths |->
            IF cpView[p].status = "PENDING"
            THEN [cpView[p] EXCEPT !.status = "SYNCED"] ELSE cpView[p]]
    BY <1>6 DEF LoadBronze, Pending, MarkSynced
  <2>2. \A p \in Paths : cpView'[p].status =
            IF cpView[p].status = "PENDING" THEN "SYNCED" ELSE cpView[p].status
    BY <2>1 DEF Entry
  <2>3. pc = "migrating" /\ pc' = "loaded" /\ UNCHANGED <<scanned, found, edits>>
    BY <1>6 DEF LoadBronze
  <2>4. QED
    BY <2>2, <2>3
<1>7. CASE CommitDuckDB \/ CommitSQLite \/ EndRun
  BY <1>7 DEF CommitDuckDB, CommitSQLite, EndRun
<1>8. CASE UNCHANGED vars
  BY <1>8 DEF vars
<1>9. QED
  BY <1>1, <1>2, <1>3, <1>4, <1>5, <1>6, <1>7, <1>8 DEF Next, Heal, Run

\* A run that succeeds leaves nothing PENDING, and after a look at the folder
\* exactly the files it found are SYNCED.
THEOREM SuccessIsInSync == Spec => []SuccessSyncs
<1>1. Init => SyncInv
  BY DEF Init, SyncInv
<1>2. VaultInv /\ SyncInv /\ [Next]_vars => SyncInv'
  BY SyncInvStep
<1>3. SyncInv => SuccessSyncs
  BY DEF SyncInv, SuccessSyncs
<1>4. QED
  BY <1>1, <1>2, <1>3, VaultInvariant, PTL DEF Spec

-----------------------------------------------------------------------------
(* What the warehouse holds.  Bronze knows a file by its base name alone, so *)
(* what follows is about folders in which no two files of a category share   *)
(* one; where two do, the load of the one takes the rows of the other.       *)

UniqueNames == \A p, q \in Paths : Cat[p] = Cat[q] /\ Name[p] = Name[q] => p = q

\* A row in a table that renames and the healer do not reach.
Far(b) == b.table # LastTable[TableCat[b.table]]

\* Every row within reach belongs to an entry and has its content, every entry
\* has its rows, and a replaced category has one entry.
Exact(w) ==
    /\ \A b \in w.bronze : ~ Far(b) => \E p \in Paths :
          IsRowOf(b, p) /\ w.meta[p] # None /\ b.content = w.meta[p].hash
    /\ \A p \in Paths : w.meta[p] # None =>
          \/ w.meta[p].hash \in Blank
          \/ \E b \in w.bronze : IsRowOf(b, p) /\ b.content = w.meta[p].hash
    /\ \A p, q \in Paths :
          Cat[p] = Cat[q] /\ Cat[p] \in FullReplace
          /\ w.meta[p] # None /\ w.meta[q] # None => p = q

\* A row within reach is of one file at most, of the category of its table.
LEMMA RowHasOneFile ==
    ASSUME UniqueNames
    PROVE  \A b : \A p \in Paths :
              IsRowOf(b, p) => /\ TableCat[b.table] = Cat[p] /\ ~ Far(b)
                               /\ \A q \in Paths : IsRowOf(b, q) => q = p
<1> TAKE b
<1> TAKE p \in Paths
<1>1. HAVE IsRowOf(b, p)
<1>2. Cat[p] \in Cats /\ TableCat[LastTable[Cat[p]]] = Cat[p]
  BY EvidenceAssumption
<1>3. TableCat[b.table] = Cat[p] /\ ~ Far(b)
  BY <1>1, <1>2 DEF IsRowOf, Far
<1>4. ASSUME NEW q \in Paths, IsRowOf(b, q)
      PROVE  q = p
  <2>1. Cat[q] \in Cats /\ TableCat[LastTable[Cat[q]]] = Cat[q]
    BY EvidenceAssumption
  <2>2. Cat[q] = Cat[p] /\ Name[q] = Name[p]
    BY <1>1, <1>3, <1>4, <2>1 DEF IsRowOf
  <2>3. QED
    BY <2>2 DEF UniqueNames
<1>5. QED
  BY <1>3, <1>4

\* A new warehouse file is exact.
LEMMA EmptyExact == EmptyWarehouse \in Warehouse /\ Exact(EmptyWarehouse)
BY DEF EmptyWarehouse, Warehouse, Exact

\* A dangling entry goes with exactly its rows.
LEMMA PrunedExact ==
    ASSUME UniqueNames, NEW w \in Warehouse, Exact(w), NEW p \in Paths
    PROVE  /\ Pruned(w, p) \in Warehouse /\ Exact(Pruned(w, p))
           /\ \A q \in Paths : Pruned(w, p).meta[q] = IF q = p THEN None ELSE w.meta[q]
<1> DEFINE v == Pruned(w, p)
<1>1. v.bronze = {b \in w.bronze : ~ IsRowOf(b, p)} /\ v.meta = [w.meta EXCEPT ![p] = None]
  BY DEF Pruned
<1>2. v \in Warehouse
  BY DEF Pruned, Warehouse
<1>3. w.meta \in [Paths -> Meta \cup {None}]
  BY DEF Warehouse
<1>4. \A q \in Paths : v.meta[q] = IF q = p THEN None ELSE w.meta[q]
  BY <1>1, <1>3
<1> HIDE DEF v
<1>5. ASSUME NEW b \in v.bronze, ~ Far(b)
      PROVE  \E q \in Paths : IsRowOf(b, q) /\ v.meta[q] # None /\ b.content = v.meta[q].hash
  <2>1. PICK q \in Paths : IsRowOf(b, q) /\ w.meta[q] # None /\ b.content = w.meta[q].hash
    BY <1>1, <1>5 DEF Exact
  <2>2. q # p
    BY <1>1, <2>1
  <2>3. QED
    BY <1>4, <2>1, <2>2
<1>6. ASSUME NEW q \in Paths, v.meta[q] # None
      PROVE  \/ v.meta[q].hash \in Blank
             \/ \E b \in v.bronze : IsRowOf(b, q) /\ b.content = v.meta[q].hash
  <2>1. q # p /\ v.meta[q] = w.meta[q]
    BY <1>4, <1>6
  <2>2. \A b : IsRowOf(b, q) => ~ IsRowOf(b, p)
    BY <2>1, RowHasOneFile
  <2>3. QED
    BY <1>1, <1>6, <2>1, <2>2 DEF Exact
<1>7. Exact(v)
  BY <1>4, <1>5, <1>6 DEF Exact
<1>8. QED
  BY <1>2, <1>4, <1>7 DEF v

\* A rename takes the entry and its rows along, when the new name is free.
LEMMA MigratedExact ==
    ASSUME UniqueNames, whView \in Warehouse, Exact(whView),
           NEW old \in Paths, NEW new \in Paths, old # new,
           Cat[old] = Cat[new], whView.meta[new] = None,
           NEW w, w = [bronze |-> MigratedRows(old, new), meta |-> MigratedMeta(old, new)]
    PROVE  /\ w \in Warehouse /\ Exact(w)
           /\ w.meta[new] = whView.meta[old] /\ w.meta[old] = None
           /\ \A q \in Paths : q # old /\ q # new => w.meta[q] = whView.meta[q]
<1> DEFINE moved(b) == IF IsRowOf(b, old) THEN [b EXCEPT !.name = Name[new]] ELSE b
<1>1. w.bronze = {moved(b) : b \in whView.bronze} /\ w.meta = MigratedMeta(old, new)
  BY DEF MigratedRows
<1>2. whView.bronze \subseteq BronzeRow /\ whView.meta \in [Paths -> Meta \cup {None}]
  BY DEF Warehouse
<1>3. \A b \in whView.bronze : /\ moved(b) \in BronzeRow /\ moved(b).content = b.content
                               /\ moved(b).table = b.table
                               /\ IsRowOf(b, old) => IsRowOf(moved(b), new)
                               /\ ~ IsRowOf(b, old) => moved(b) = b
  BY <1>2, EvidenceAssumption DEF BronzeRow, IsRowOf
<1> HIDE DEF moved
<1>4. /\ w.meta \in [Paths -> Meta \cup {None}]
      /\ w.meta[new] = whView.meta[old] /\ w.meta[old] = None
      /\ \A q \in Paths : q # old /\ q # new => w.meta[q] = whView.meta[q]
  <2>1. CASE whView.meta[old] = None
    BY <1>1, <1>2, <2>1 DEF MigratedMeta
  <2>2. CASE whView.meta[old] # None
    <3>1. w.meta = [whView.meta EXCEPT ![new] = whView.meta[old], ![old] = None]
      BY <1>1, <2>2 DEF MigratedMeta
    <3>2. QED
      BY <1>2, <3>1
  <2>3. QED
    BY <2>1, <2>2
<1>5. w \in Warehouse
  <2>1. w.bronze \subseteq BronzeRow
    BY <1>1, <1>3
  <2>2. QED
    BY <1>4, <2>1 DEF Warehouse
<1>6. ASSUME NEW c \in w.bronze, ~ Far(c)
      PROVE  \E q \in Paths : IsRowOf(c, q) /\ w.meta[q] # None /\ c.content = w.meta[q].hash
  <2>1. PICK b \in whView.bronze : c = moved(b)
    BY <1>1
  <2>2. PICK q \in Paths : /\ IsRowOf(b, q) /\ whView.meta[q] # None
                           /\ b.content = whView.meta[q].hash
    <3>1. ~ Far(b)
      BY <1>3, <1>6, <2>1 DEF Far
    <3>2. QED
      BY <3>1 DEF Exact
  <2>3. CASE q = old
    BY <1>3, <1>4, <2>1, <2>2, <2>3
  <2>4. CASE q # old
    <3>1. ~ IsRowOf(b, old) /\ q # new
      BY <2>2, <2>4, RowHasOneFile
    <3>2. QED
      BY <1>3, <1>4, <2>1, <2>2, <2>4, <3>1
  <2>5. QED
    BY <2>3, <2>4
<1>7. ASSUME NEW q \in Paths, w.meta[q] # None
      PROVE  \/ w.meta[q].hash \in Blank
             \/ \E c \in w.bronze : IsRowOf(c, q) /\ c.content = w.meta[q].hash
  <2>1. CASE q = new
    <3>1. \/ whView.meta[old].hash \in Blank
          \/ \E b \in whView.bronze : IsRowOf(b, old) /\ b.content = whView.meta[old].hash
      BY <1>4, <1>7, <2>1 DEF Exact
    <3>2. QED
      BY <1>1, <1>3, <1>4, <2>1, <3>1
  <2>2. CASE q # new
    <3>1. q # old /\ w.meta[q] = whView.meta[q]
      BY <1>4, <1>7, <2>2
    <3>2. \A b : IsRowOf(b, q) => ~ IsRowOf(b, old)
      BY <3>1, RowHasOneFile
    <3>3. \/ whView.meta[q].hash \in Blank
          \/ \E b \in whView.bronze : IsRowOf(b, q) /\ b.content = whView.meta[q].hash
      BY <1>7, <3>1 DEF Exact
    <3>4. QED
      BY <1>1, <1>3, <3>1, <3>2, <3>3
  <2>3. QED
    BY <2>1, <2>2
<1>8. ASSUME NEW p \in Paths, NEW q \in Paths, Cat[p] = Cat[q], Cat[p] \in FullReplace,
             w.meta[p] # None, w.meta[q] # None
      PROVE  p = q
  <2> DEFINE was(r) == IF r = new THEN old ELSE r
  <2>1. /\ was(p) \in Paths /\ was(q) \in Paths /\ Cat[was(p)] = Cat[p] /\ Cat[was(q)] = Cat[q]
        /\ whView.meta[was(p)] # None /\ whView.meta[was(q)] # None
    BY <1>4, <1>8
  <2>2. was(p) = was(q)
    BY <1>8, <2>1 DEF Exact
  <2>3. p # old /\ q # old
    BY <1>4, <1>8
  <2>4. QED
    BY <2>2, <2>3
<1>9. Exact(w)
  BY <1>6, <1>7, <1>8 DEF Exact
<1>10. QED
  BY <1>4, <1>5, <1>9

\* Of a replaced category one file is live or to be captured.
OneLive ==
    \A p, q \in Paths :
        Cat[p] = Cat[q] /\ Cat[p] \in FullReplace
        /\ (Live(p) \/ p \in todo) /\ (Live(q) \/ q \in todo) => p = q

\* The load replaces what an actionable file had, and of a replaced table
\* everything; each actionable file gets its entry and its rows.
LEMMA LoadedExact ==
    ASSUME UniqueNames, VaultInv, pc = "migrating", OneLive,
           whView \in Warehouse, Exact(whView), PayloadsAtHand(Pending),
           NEW w, w = [bronze |-> LoadedRows(Pending), meta |-> LoadedMeta(Pending)]
    PROVE  /\ w \in Warehouse /\ Exact(w)
           /\ \A p \in Pending : w.meta[p] # None /\ w.meta[p].hash = cpView[p].hash
           /\ \A p \in Paths \ Pending :
                \/ w.meta[p] = whView.meta[p]
                \/ w.meta[p] = None /\ \E q \in Pending : Cat[q] = Cat[p] /\ Cat[p] \in FullReplace
<1> DEFINE dropped(p) == Cat[p] \in FullReplace /\ \E q \in Pending : Cat[q] = Cat[p]
           row(p, t) == [table |-> t, name |-> Name[p], from |-> p,
                         content |-> cpView[p].payload]
           main(p) == row(p, LastTable[Cat[p]])
<1>1. \A p \in Pending : /\ p \in Paths /\ cpView[p].payload \in Contents
                         /\ cpView[p].payload = cpView[p].hash /\ Live(p)
  BY DEF Pending, PayloadsAtHand, VaultInv, RegistryType, Vaulted, Entry, Bytes, Live
<1>2. \A p, q \in Pending : Cat[p] = Cat[q] /\ Cat[p] \in FullReplace => p = q
  BY <1>1 DEF OneLive
<1>3. whView.bronze \subseteq BronzeRow /\ whView.meta \in [Paths -> Meta \cup {None}]
  BY DEF Warehouse
<1>4. \A p \in Paths : w.meta[p] = IF p \in Pending THEN RegisteredFile(p, Pending)
                                   ELSE IF dropped(p) THEN None ELSE whView.meta[p]
  BY DEF LoadedMeta
<1>5. \A p \in Pending : /\ RegisteredFile(p, Pending) \in Meta
                         /\ RegisteredFile(p, Pending) # None
                         /\ RegisteredFile(p, Pending).hash = cpView[p].hash
  <2> SUFFICES ASSUME NEW p \in Pending
               PROVE  /\ RegisteredFile(p, Pending) \in Meta
                      /\ RegisteredFile(p, Pending) # None
                      /\ RegisteredFile(p, Pending).hash = cpView[p].hash
    OBVIOUS
  <2>1. cpView[p].hash \in Contents /\ Counted(p, Pending) \in BOOLEAN
    BY <1>1 DEF Counted
  <2>2. RegisteredFile(p, Pending) = [hash |-> cpView[p].hash, filled |-> Counted(p, Pending)]
    BY DEF RegisteredFile
  <2> HIDE DEF Counted
  <2>3. [hash |-> cpView[p].hash, filled |-> Counted(p, Pending)] # None
    BY <2>1, EvidenceAssumption
  <2>4. QED
    BY <2>1, <2>2, <2>3 DEF Meta, Bytes
<1>6. \A p \in Pending : \A t \in TablesOf(Cat[p]) : row(p, t) \in BronzeRow
  BY <1>1, EvidenceAssumption DEF BronzeRow, TablesOf
<1>7. \A b : b \in w.bronze <=>
          \/ b \in whView.bronze /\ ~ Replaced(b, Pending)
          \/ \E p \in Pending : /\ cpView[p].payload \notin Blank
                               /\ \E t \in TablesOf(Cat[p]) : b = row(p, t)
  <2>1. \A p \in Pending : Extracted(p) = IF cpView[p].payload \in Blank THEN {}
                                         ELSE {row(p, t) : t \in TablesOf(Cat[p])}
    BY DEF Extracted
  <2> HIDE DEF row
  <2>2. QED
    BY <2>1 DEF LoadedRows, ExtractedAll
<1>8. \A p \in Pending : /\ IsRowOf(main(p), p) /\ main(p).content = cpView[p].hash
                        /\ LastTable[Cat[p]] \in TablesOf(Cat[p])
                        /\ \A t \in TablesOf(Cat[p]) : ~ Far(row(p, t)) => row(p, t) = main(p)
  BY <1>1, EvidenceAssumption DEF IsRowOf, TablesOf, Far
<1> HIDE DEF row
<1>9. w \in Warehouse
  <2>1. w.bronze \subseteq BronzeRow
    BY <1>3, <1>6, <1>7
  <2>2. LoadedMeta(Pending) \in [Paths -> Meta \cup {None}]
    <3>1. \A p \in Paths : LoadedMeta(Pending)[p] \in Meta \cup {None}
      BY <1>3, <1>4, <1>5
    <3>2. QED
      BY <3>1 DEF LoadedMeta
  <2>3. QED
    BY <2>1, <2>2 DEF Warehouse
<1>10. \A b \in whView.bronze, p \in Paths : IsRowOf(b, p) =>
         (Replaced(b, Pending) <=> p \in Pending \/ dropped(p))
  <2> SUFFICES ASSUME NEW b \in whView.bronze, NEW p \in Paths, IsRowOf(b, p)
               PROVE  Replaced(b, Pending) <=> p \in Pending \/ dropped(p)
    OBVIOUS
  <2>1. TableCat[b.table] = Cat[p] /\ b.name = Name[p]
    BY RowHasOneFile DEF IsRowOf
  <2>2. QED
    BY <1>1, <2>1 DEF Replaced, UniqueNames
<1> HIDE DEF dropped
<1>11. ASSUME NEW b \in w.bronze, ~ Far(b)
       PROVE  \E p \in Paths : IsRowOf(b, p) /\ w.meta[p] # None /\ b.content = w.meta[p].hash
  <2>1. CASE b \in whView.bronze /\ ~ Replaced(b, Pending)
    <3>1. PICK p \in Paths : /\ IsRowOf(b, p) /\ whView.meta[p] # None
                             /\ b.content = whView.meta[p].hash
      BY <1>11, <2>1 DEF Exact
    <3>2. w.meta[p] = whView.meta[p]
      BY <1>4, <1>10, <2>1, <3>1
    <3>3. QED
      BY <3>1, <3>2
  <2>2. CASE \E p \in Pending : /\ cpView[p].payload \notin Blank
                              /\ \E t \in TablesOf(Cat[p]) : b = row(p, t)
    <3>1. PICK p \in Pending : b = main(p)
      BY <1>8, <1>11, <2>2
    <3>2. QED
      BY <1>1, <1>4, <1>5, <1>8, <3>1
  <2>3. QED
    BY <1>7, <2>1, <2>2
<1>12. ASSUME NEW p \in Paths, w.meta[p] # None
       PROVE  \/ w.meta[p].hash \in Blank
              \/ \E b \in w.bronze : IsRowOf(b, p) /\ b.content = w.meta[p].hash
  <2>1. CASE p \in Pending
    <3>1. w.meta[p].hash = cpView[p].payload
      BY <1>1, <1>4, <1>5, <2>1
    <3>2. cpView[p].payload \notin Blank => main(p) \in w.bronze
      BY <1>7, <1>8, <2>1
    <3>3. QED
      BY <1>1, <1>8, <2>1, <3>1, <3>2
  <2>2. CASE p \notin Pending
    <3>1. ~ dropped(p) /\ w.meta[p] = whView.meta[p]
      BY <1>4, <1>12, <2>2
    <3>2. \/ whView.meta[p].hash \in Blank
          \/ \E b \in whView.bronze : IsRowOf(b, p) /\ b.content = whView.meta[p].hash
      BY <1>12, <3>1 DEF Exact
    <3>3. QED
      BY <1>7, <1>10, <2>2, <3>1, <3>2
  <2>3. QED
    BY <2>1, <2>2
<1>13. ASSUME NEW p \in Paths, NEW q \in Paths, Cat[p] = Cat[q], Cat[p] \in FullReplace,
              w.meta[p] # None, w.meta[q] # None
       PROVE  p = q
  <2>1. CASE dropped(p)
    <3>1. p \in Pending /\ q \in Pending
      BY <1>4, <1>13, <2>1 DEF dropped
    <3>2. QED
      BY <1>2, <1>13, <3>1
  <2>2. CASE ~ dropped(p)
    <3>1. p \notin Pending /\ q \notin Pending /\ ~ dropped(q)
      BY <1>1, <1>13, <2>2 DEF dropped
    <3>2. QED
      BY <1>4, <1>13, <2>2, <3>1 DEF Exact
  <2>3. QED
    BY <2>1, <2>2
<1>14. Exact(w)
  BY <1>11, <1>12, <1>13 DEF Exact
<1>15. \A p \in Pending : w.meta[p] # None /\ w.meta[p].hash = cpView[p].hash
  BY <1>1, <1>4, <1>5
<1>16. \A p \in Paths \ Pending :
          \/ w.meta[p] = whView.meta[p]
          \/ w.meta[p] = None /\ \E q \in Pending : Cat[q] = Cat[p] /\ Cat[p] \in FullReplace
  BY <1>4 DEF dropped
<1>17. QED
  BY <1>9, <1>14, <1>15, <1>16

-----------------------------------------------------------------------------
(* The comparison with the folder, row by row. *)

\* A row that is not taken over keeps its digest, and becomes neither SYNCED nor
\* unregistered.
Remains(p) ==
    /\ cpView'[p].hash = cpView[p].hash
    /\ cpView'[p].status = "SYNCED" => cpView[p].status = "SYNCED"
    /\ Registered(cpView, p) => Registered(cpView', p)

\* What a rename tuple says of its two paths.
Renames(old, new) ==
    /\ old \in Paths \ found /\ new \in found /\ new \in Paths \ todo' /\ old \notin todo'
    /\ Cat[old] = Cat[new]
    /\ ~ Registered(cpView, new) /\ Live(old)
    /\ cpView[old].hash = disk[new]
    /\ cpView'[new] = cpView[old] /\ cpView'[old].status = "REMOVED"

\* What the comparison does to the rows: renames move them, the rest remains.
LEMMA SyncEffects ==
    ASSUME VaultInv, SyncWithDisk
    PROVE  /\ renames' \subseteq Paths \X Paths
           /\ \A old, new : <<old, new>> \in renames' => Renames(old, new)
           /\ \A o1, n1, o2, n2 : <<o1, n1>> \in renames' /\ <<o2, n2>> \in renames'
                => (o1 = o2 <=> n1 = n2)
           /\ \A p \in Paths : Remains(p) \/ \E old \in Paths : <<old, p>> \in renames'
           /\ \A p \in todo' : IsNew(p) \/ IsChanged(p)
           /\ \A p \in found :
                \/ p \in todo' \/ (~ IsNew(p) /\ ~ IsChanged(p) /\ Remains(p))
                \/ \E old \in Paths : <<old, p>> \in renames'
<1> USE DEF VaultInv, RegistryType
<1> DEFINE taken(taker) == {taker[q] : q \in Renamable}
           row(taker, p) ==
             CASE p \in taken(taker) ->
                     Moved(cpView[CHOOSE q \in Renamable : taker[q] = p])
               [] p \in Renamable -> Tombstone(cpView[p])
               [] p \notin found \cup Renamable -> AfterRemoval(p)
               [] OTHER -> MarkHealed(cpView[p])
<1>1. PICK taker \in [Renamable -> found] :
        /\ \A q \in Renamable : taker[q] \in Takers(q)
        /\ renames' = {<<q, taker[q]>> : q \in Renamable}
        /\ todo' = {p \in found \ taken(taker) : IsNew(p) \/ IsChanged(p)}
        /\ cpView' = [p \in Paths |-> row(taker, p)]
  BY Zenon DEF SyncWithDisk
<1>2. ASSUME NEW p \in Paths
      PROVE  cpView'[p] = row(taker, p) /\ cpView[p] \in Entry
  <2> HIDE DEF row
  <2> QED
    BY <1>1
<1>3. Renamable \subseteq Paths \ found
  BY DEF Renamable
<1>4. ASSUME NEW q \in Renamable
      PROVE  /\ Renames(q, taker[q])
             /\ \A r \in Renamable : taker[r] = taker[q] => r = q
  <2> DEFINE t == taker[q]
             giver == CHOOSE r \in Renamable : taker[r] = t
  <2>1. giver \in Renamable /\ taker[giver] = t
    OBVIOUS
  <2>2. \A r \in Renamable : taker[r] = t => RenameCandidates(t) = {r}
    BY <1>1 DEF Takers
  <2>3. giver = q /\ \A r \in Renamable : taker[r] = t => r = q
    BY <2>1, <2>2
  <2>4. t \in found /\ t \in Paths /\ ~ Registered(cpView, t) /\ t \in taken(taker)
        /\ t \notin Renamable
    BY <1>1, <1>3 DEF Takers
  <2>5. Cat[q] = Cat[t] /\ Live(q) /\ cpView[q].hash = disk[t]
    <3>1. q \in RenameCandidates(t)
      BY <2>2
    <3>2. QED
      BY <3>1 DEF RenameCandidates
  <2>6. t \notin todo' /\ q \notin todo'
    BY <1>1, <1>3, <2>4
  <2>7. cpView'[t] = cpView[q]
    <3>1. row(taker, t) = Moved(cpView[giver])
      BY <2>4
    <3>2. QED
      BY <1>2, <2>3, <2>4, <3>1 DEF Moved
  <2>8. cpView'[q].status = "REMOVED"
    <3>1. q \notin taken(taker) /\ q \in Paths
      BY <1>1, <1>3
    <3>2. row(taker, q) = Tombstone(cpView[q])
      BY <3>1
    <3>3. cpView'[q] = Tombstone(cpView[q]) /\ cpView[q] \in Entry
      <4> HIDE DEF row, taken, giver
      <4> QED
        BY <1>2, <3>1, <3>2
    <3>4. QED
      BY <3>3 DEF Tombstone, Entry
  <2>9. QED
    BY <1>3, <2>3, <2>4, <2>5, <2>6, <2>7, <2>8 DEF Renames
<1>5. ASSUME NEW p \in Paths, p \notin taken(taker)
      PROVE  Remains(p)
  <2>1. cpView[p] \in Entry
    BY <1>2
  <2>2. CASE p \in Renamable
    <3>1. cpView'[p] = [cpView[p] EXCEPT !.status = "REMOVED", !.payload = None]
      BY <1>2, <1>5, <2>2 DEF Tombstone
    <3>2. QED
      BY <2>1, <3>1 DEF Remains, Registered, Entry
  <2>3. CASE p \notin Renamable /\ p \notin found
    <3>1. cpView'[p] = AfterRemoval(p)
      BY <1>2, <1>5, <2>3
    <3>2. MarkRemoved(cpView[p]) \in Entry
          /\ MarkRemoved(cpView[p]).hash = cpView[p].hash
          /\ MarkRemoved(cpView[p]).status \notin {"SYNCED"}
          /\ (cpView[p].status # "ABSENT" => MarkRemoved(cpView[p]).status # "ABSENT")
      BY <2>1 DEF MarkRemoved, Entry
    <3>3. AfterRemoval(p) = MarkRemoved(cpView[p])
          \/ AfterRemoval(p) = [MarkRemoved(cpView[p]) EXCEPT !.payload = None]
      BY DEF AfterRemoval, PrunePayload
    <3> HIDE DEF MarkRemoved, AfterRemoval
    <3>4. QED
      BY <3>1, <3>2, <3>3 DEF Remains, Registered, Entry
  <2>4. CASE p \notin Renamable /\ p \in found
    <3>1. cpView'[p] = MarkHealed(cpView[p])
      BY <1>2, <1>5, <2>4
    <3>2. QED
      BY <2>1, <3>1 DEF MarkHealed, Remains, Registered, Entry
  <2>5. QED
    BY <2>2, <2>3, <2>4
<1> HIDE DEF row
<1>6. \A p \in Paths : p \in taken(taker) => \E old \in Paths : <<old, p>> \in renames'
  BY <1>1, <1>3
<1>7. \A p \in todo' : IsNew(p) \/ IsChanged(p)
  BY <1>1
<1>8. ASSUME NEW p \in found
      PROVE  \/ p \in todo' \/ (~ IsNew(p) /\ ~ IsChanged(p) /\ Remains(p))
             \/ \E old \in Paths : <<old, p>> \in renames'
  BY <1>1, <1>5, <1>6
<1>9. renames' \subseteq Paths \X Paths
  BY <1>1, <1>3
<1>10. ASSUME NEW old, NEW new, <<old, new>> \in renames'
       PROVE  old \in Renamable /\ new = taker[old]
  BY <1>1, <1>10
<1>11. \A o1, n1, o2, n2 : <<o1, n1>> \in renames' /\ <<o2, n2>> \in renames'
         => (o1 = o2 <=> n1 = n2)
  BY <1>4, <1>10
<1>12. \A old, new : <<old, new>> \in renames' => Renames(old, new)
  BY <1>4, <1>10
<1>13. \A p \in Paths : Remains(p) \/ \E old \in Paths : <<old, p>> \in renames'
  BY <1>5, <1>6
<1> HIDE DEF taken
<1>14. QED
  BY <1>7, <1>8, <1>9, <1>11, <1>12, <1>13

-----------------------------------------------------------------------------
(* The warehouse during a run. *)

LiveIn(r, p) == r[p].status \in {"PENDING", "SYNCED"}

\* Where the run works on what is committed.
Placement ==
    /\ pc \in {"idle", "pruning", "requeueing", "begun", "discovered", "capturing"}
          => whView = wh
    /\ pc \in {"half", "done"} => wh = whView
    /\ pc \notin {"capturing", "migrating"} => renames = {}

\* Once healed, the warehouse has no entry that the control plane does not know.
EntriesKnown ==
    pc \notin {"idle", "pruning"} =>
        \A p \in Paths : whView.meta[p] # None => Registered(cpView, p)

\* A rename not yet applied goes to a name that the warehouse does not know.
Moves ==
    /\ renames \subseteq Paths \X Paths
    /\ \A old, new \in Paths : <<old, new>> \in renames =>
          /\ old \notin found /\ new \in found /\ old \notin todo /\ new \notin todo
          /\ Cat[old] = Cat[new]
          /\ whView.meta[new] = None
          /\ Registered(cpView, new) /\ ~ Registered(cp, new)
          /\ cpView[old].status = "REMOVED"
    /\ \A o1, n1, o2, n2 \in Paths : <<o1, n1>> \in renames /\ <<o2, n2>> \in renames
          => (o1 = o2 <=> n1 = n2)

\* One file of a replaced category is found, live, and committed as live.
OneOfEach ==
    /\ pc = "discovered" =>
          \A p, q \in found : Cat[p] = Cat[q] /\ Cat[p] \in FullReplace => p = q
    /\ OneLive
    /\ \A p, q \in Paths : Cat[p] = Cat[q] /\ Cat[p] \in FullReplace
                           /\ LiveIn(cp, p) /\ LiveIn(cp, q) => p = q

StoreInv ==
    /\ wh \in Warehouse /\ whView \in Warehouse /\ Exact(wh) /\ Exact(whView)
    /\ Placement /\ EntriesKnown /\ Moves /\ OneOfEach

\* The first state satisfies it.
LEMMA StoreInit == Init => StoreInv
<1> SUFFICES ASSUME Init PROVE StoreInv
  OBVIOUS
<1>1. wh = EmptyWarehouse /\ whView = EmptyWarehouse /\ cpView = cp /\ pc = "idle"
      /\ renames = {} /\ todo = {} /\ \A p \in Paths : cp[p].status = "ABSENT"
  BY DEF Init, Unregistered
<1>2. OneOfEach
  BY <1>1 DEF OneOfEach, OneLive, Live, LiveIn
<1>3. QED
  BY <1>1, <1>2, EmptyExact DEF StoreInv, Placement, EntriesKnown, Moves

\* The comparison keeps it: what is taken over was unknown to the warehouse.
LEMMA StoreKeptBySync ==
    ASSUME UniqueNames, VaultInv, StoreInv, SyncWithDisk
    PROVE  StoreInv'
<1> USE DEF StoreInv
<1>1. /\ pc = "discovered" /\ pc' = "capturing"
      /\ UNCHANGED <<cp, wh, whView, found>> /\ cpView = cp /\ todo = {}
  BY DEF SyncWithDisk, durable, Goto, VaultInv, Outside
<1>2. /\ renames' \subseteq Paths \X Paths
      /\ \A old, new : <<old, new>> \in renames' => Renames(old, new)
      /\ \A o1, n1, o2, n2 : <<o1, n1>> \in renames' /\ <<o2, n2>> \in renames'
           => (o1 = o2 <=> n1 = n2)
      /\ \A p \in Paths : Remains(p) \/ \E old \in Paths : <<old, p>> \in renames'
  BY SyncEffects
<1>3. \A old, new : <<old, new>> \in renames' => LiveIn(cpView', new)
  BY <1>2 DEF Renames, Live, LiveIn
<1>4. \A p \in Paths : Registered(cpView, p) => Registered(cpView', p)
  BY <1>2, <1>3 DEF Remains, Registered, LiveIn
<1>5. EntriesKnown'
  BY <1>1, <1>4 DEF EntriesKnown
<1>6. Moves'
  <2>1. ASSUME NEW old \in Paths, NEW new \in Paths, <<old, new>> \in renames'
        PROVE  /\ old \notin found' /\ new \in found' /\ old \notin todo' /\ new \notin todo'
               /\ Cat[old] = Cat[new]
               /\ whView'.meta[new] = None
               /\ Registered(cpView', new) /\ ~ Registered(cp', new)
               /\ cpView'[old].status = "REMOVED"
    <3>1. Renames(old, new) /\ LiveIn(cpView', new)
      BY <1>2, <1>3, <2>1
    <3>2. whView.meta[new] = None
      BY <1>1, <3>1 DEF EntriesKnown, Renames
    <3>3. QED
      BY <1>1, <3>1, <3>2 DEF Renames, Registered, LiveIn
  <2>2. QED
    BY <1>2, <2>1 DEF Moves
<1>7. OneOfEach'
  <2>1. \A p \in Paths : (p \in found <=> p \in todo' \/ Live(p)')
    BY SyncAccounts
  <2>2. QED
    BY <1>1, <2>1 DEF OneOfEach, OneLive, Live, LiveIn
<1>8. QED
  BY <1>1, <1>5, <1>6, <1>7 DEF Placement, Exact

\* The load keeps it: a replaced table gets one entry.
LEMMA StoreKeptByLoad ==
    ASSUME UniqueNames, VaultInv, StoreInv, LoadBronze
    PROVE  StoreInv'
<1> USE DEF StoreInv
<1>1. /\ pc = "migrating" /\ pc' = "loaded" /\ renames = {} /\ PayloadsAtHand(Pending)
      /\ whView' = [bronze |-> LoadedRows(Pending), meta |-> LoadedMeta(Pending)]
      /\ cpView' = [p \in Paths |->
            IF p \in Pending THEN MarkSynced(cpView[p]) ELSE cpView[p]]
      /\ UNCHANGED <<cp, wh, found, todo, renames>>
  BY DEF LoadBronze, Goto, durable, memory
<1>2. /\ whView' \in Warehouse /\ Exact(whView')
      /\ \A p \in Paths \ Pending : whView'.meta[p] = whView.meta[p] \/ whView'.meta[p] = None
  BY <1>1, LoadedExact DEF OneOfEach
<1>3. \A p \in Paths : /\ p \in Pending => cpView'[p].status = "SYNCED" /\ cpView[p].status = "PENDING"
                       /\ p \notin Pending => cpView'[p] = cpView[p]
  BY <1>1 DEF VaultInv, RegistryType, Entry, MarkSynced, Pending
<1>4. EntriesKnown'
  BY <1>1, <1>2, <1>3 DEF EntriesKnown, Registered
<1>5. Moves'
  BY <1>1 DEF Moves
<1>6. OneOfEach'
  BY <1>1, <1>3 DEF OneOfEach, OneLive, Live, LiveIn
<1>7. QED
  BY <1>1, <1>2, <1>4, <1>5, <1>6 DEF Placement, Exact

\* A rename keeps it: the entry arrives under the new name and leaves the old.
LEMMA StoreKeptByMigration ==
    ASSUME UniqueNames, StoreInv, MigrateIdentity
    PROVE  StoreInv'
<1> USE DEF StoreInv
<1>1. PICK old, new \in Paths :
        /\ <<old, new>> \in renames
        /\ whView' = [bronze |-> MigratedRows(old, new), meta |-> MigratedMeta(old, new)]
        /\ renames' = renames \ {<<old, new>>}
  BY DEF MigrateIdentity
<1>2. pc = "migrating" /\ UNCHANGED <<pc, cp, cpView, wh, found, todo>>
  BY DEF MigrateIdentity, durable
<1>3. /\ old # new /\ Cat[old] = Cat[new] /\ whView.meta[new] = None
      /\ old \notin found /\ new \in found /\ Registered(cpView, new)
  BY <1>1 DEF Moves
<1>4. /\ whView' \in Warehouse /\ Exact(whView')
      /\ whView'.meta[old] = None
      /\ \A q \in Paths : q # old /\ q # new => whView'.meta[q] = whView.meta[q]
  BY <1>1, <1>3, MigratedExact
<1>5. EntriesKnown'
  BY <1>2, <1>3, <1>4 DEF EntriesKnown, Registered
<1>6. Moves'
  <2>1. ASSUME NEW o2 \in Paths, NEW n2 \in Paths, <<o2, n2>> \in renames'
        PROVE  whView'.meta[n2] = None
    <3>1. <<o2, n2>> \in renames /\ n2 \in found
      BY <1>1, <2>1 DEF Moves
    <3>2. n2 # new
      BY <1>1, <2>1, <3>1 DEF Moves
    <3>3. QED
      BY <1>3, <1>4, <3>1, <3>2 DEF Moves
  <2>2. renames' \subseteq renames
    BY <1>1
  <2>3. QED
    BY <1>2, <2>1, <2>2 DEF Moves, Registered
<1>7. OneOfEach'
  BY <1>2 DEF OneOfEach, OneLive, Live, LiveIn
<1>8. QED
  BY <1>2, <1>4, <1>5, <1>6, <1>7 DEF Placement, Exact

\* Every step preserves it.
LEMMA StoreStep ==
    ASSUME UniqueNames
    PROVE  VaultInv /\ StoreInv /\ [Next]_vars => StoreInv'
<1> SUFFICES ASSUME VaultInv, StoreInv, [Next]_vars PROVE StoreInv'
  OBVIOUS
<1> USE DEF StoreInv
<1>s. ASSUME UNCHANGED <<cp, wh, cpView, whView, found, renames, todo>>
      PROVE  /\ (wh \in Warehouse /\ whView \in Warehouse /\ Exact(wh) /\ Exact(whView))'
             /\ Moves' /\ OneLive'
             /\ pc' # "discovered" => OneOfEach'
             /\ pc' = pc => StoreInv'
  BY <1>s DEF Exact, Moves, OneLive, OneOfEach, Placement, EntriesKnown, Registered, Live, LiveIn
<1>v. (cpView = cp /\ whView = wh /\ renames = {}) \/ pc \notin Outside
  BY DEF VaultInv, Placement, Outside
<1>1. CASE EditFile \/ MoveFile
  BY <1>1, <1>s DEF EditFile, MoveFile, Edited, durable, views, memory
<1>2. CASE LoseWarehouse
  <2>1. /\ pc = "idle" /\ wh' = EmptyWarehouse /\ whView' = EmptyWarehouse
        /\ UNCHANGED <<cp, cpView, pc, found, renames, todo>>
    BY <1>2 DEF LoseWarehouse, memory
  <2>2. Moves'
    BY <2>1 DEF Moves, Placement
  <2>3. OneOfEach'
    BY <2>1 DEF OneOfEach, OneLive, Live, LiveIn
  <2>4. (wh \in Warehouse /\ whView \in Warehouse /\ Exact(wh) /\ Exact(whView))'
    BY <2>1, EmptyExact DEF Exact
  <2>5. QED
    BY <2>1, <2>2, <2>3, <2>4 DEF Placement, EntriesKnown
<1>3. CASE StartHealing
  <2>1. pc = "idle" /\ pc' = "pruning"
        /\ UNCHANGED <<cp, wh, cpView, whView, found, renames, todo>>
    BY <1>3 DEF StartHealing, Goto, durable, views
  <2>2. QED
    BY <1>s, <2>1 DEF Placement, EntriesKnown
<1>4. CASE PruneDangling
  <2>1. PICK p \in Paths : wh' = Pruned(wh, p) /\ whView' = wh'
    BY <1>4 DEF PruneDangling
  <2>2. pc = "pruning" /\ UNCHANGED <<cp, cpView, pc, found, renames, todo>>
    BY <1>4 DEF PruneDangling, memory
  <2>3. Pruned(wh, p) \in Warehouse /\ Exact(Pruned(wh, p))
    BY PrunedExact
  <2>4. Moves'
    BY <2>2 DEF Moves, Placement
  <2>5. OneOfEach'
    BY <2>2 DEF OneOfEach, OneLive, Live, LiveIn
  <2>6. QED
    BY <2>1, <2>2, <2>3, <2>4, <2>5 DEF Placement, EntriesKnown, Exact
<1>5. CASE PruningDone
  <2>1. /\ pc = "pruning" /\ pc' = "requeueing"
        /\ UNCHANGED <<cp, wh, cpView, whView, found, renames, todo>>
        /\ \A p \in Paths : ~Dangling(p)
    BY <1>5 DEF PruningDone, Goto, durable, views, memory
  <2>2. EntriesKnown'
    BY <1>v, <2>1 DEF EntriesKnown, Dangling, Outside
  <2>3. Placement'
    BY <2>1 DEF Placement
  <2>4. QED
    BY <1>s, <2>1, <2>2, <2>3
<1>6. CASE Requeue
  <2>1. PICK p \in Paths : SyncRecordMissing(p) /\ cp' = [cp EXCEPT ![p].status = "PENDING"]
                           /\ cpView' = cp'
    BY <1>6 DEF Requeue, Requeued
  <2>2. pc = "requeueing" /\ UNCHANGED <<wh, whView, pc, found, renames, todo>>
    BY <1>6 DEF Requeue, memory
  <2>3. \A q \in Paths : (LiveIn(cp', q) <=> LiveIn(cp, q))
                         /\ (Registered(cp', q) <=> Registered(cp, q))
    BY <2>1 DEF VaultInv, RegistryType, SyncRecordMissing, LiveIn, Registered, Entry
  <2>4. cpView = cp
    BY <2>2 DEF VaultInv, Outside
  <2>5. EntriesKnown'
    BY <2>1, <2>2, <2>3, <2>4 DEF EntriesKnown
  <2>6. Moves'
    BY <2>2 DEF Moves, Placement
  <2>7. OneOfEach'
    BY <2>1, <2>2, <2>3, <2>4 DEF OneOfEach, OneLive, Live, LiveIn
  <2>8. QED
    BY <2>2, <2>5, <2>6, <2>7 DEF Placement, Exact
<1>7. CASE BeginRun \/ SkipDiscovery \/ AllCaptured
  <2>1. /\ pc \in {"requeueing", "begun", "capturing"} /\ pc' \in {"begun", "migrating"}
        /\ UNCHANGED <<cp, wh, cpView, whView, found, renames, todo>>
        /\ pc' = "begun" => pc = "requeueing"
    BY <1>7 DEF BeginRun, SkipDiscovery, AllCaptured, Goto, durable, views, memory
  <2>2. QED
    BY <1>s, <2>1 DEF Placement, EntriesKnown, Registered
<1>8. CASE Discover
  <2>1. pc = "begun" /\ pc' = "discovered"
        /\ UNCHANGED <<cp, wh, cpView, whView, renames, todo>>
    BY <1>8 DEF Discover, Goto, durable, views
  <2>2. \A p, q \in found' : Cat[p] = Cat[q] /\ Cat[p] \in FullReplace => p = q
    <3>1. /\ found' \subseteq Paths
          /\ \A c \in FullReplace : ConfigurationAsset(c, found')
      BY <1>8 DEF Discover
    <3>2. ASSUME NEW p \in found', NEW q \in found', Cat[p] = Cat[q], Cat[p] \in FullReplace
          PROVE  p = q
      <4>1. PICK r \in Paths : found' \cap {x \in Paths : Cat[x] = Cat[p]} = {r}
        BY <3>1, <3>2 DEF ConfigurationAsset, OnDisk
      <4>2. p \in {r} /\ q \in {r}
        BY <3>1, <3>2, <4>1
      <4>3. QED
        BY <4>2
    <3>3. QED
      BY <3>2
  <2>3. Moves'
    BY <2>1 DEF Moves, Placement
  <2>4. OneOfEach'
    BY <2>1, <2>2 DEF OneOfEach, OneLive, Live, LiveIn
  <2>5. QED
    BY <2>1, <2>3, <2>4 DEF Placement, EntriesKnown, Exact, Registered
<1>9. CASE SyncWithDisk
  BY <1>9, StoreKeptBySync
<1>10. CASE Ingest
  <2>1. PICK p \in todo : /\ cpView' = [cpView EXCEPT ![p] = Captured(disk[p])]
                          /\ todo' = todo \ {p}
    BY <1>10 DEF Ingest
  <2>2. pc = "capturing" /\ UNCHANGED <<cp, wh, whView, pc, found, renames>>
    BY <1>10 DEF Ingest, durable
  <2>3. \A q \in Paths : /\ q # p => cpView'[q] = cpView[q]
                         /\ q = p => cpView'[q].status = "PENDING"
    BY <2>1 DEF VaultInv, RegistryType, Captured
  <2>4. EntriesKnown'
    BY <2>2, <2>3 DEF EntriesKnown, Registered
  <2>5. Moves'
    BY <2>1, <2>2, <2>3 DEF Moves, Registered
  <2>6. OneOfEach'
    BY <2>1, <2>2, <2>3 DEF OneOfEach, OneLive, Live, LiveIn
  <2>7. QED
    BY <2>2, <2>4, <2>5, <2>6 DEF Placement, Exact
<1>11. CASE MigrateIdentity
  BY <1>11, StoreKeptByMigration
<1>12. CASE LoadBronze
  BY <1>12, StoreKeptByLoad
<1>13. CASE CommitDuckDB
  <2>1. pc = "loaded" /\ pc' = "half" /\ wh' = whView
        /\ UNCHANGED <<cp, cpView, whView, found, renames, todo>>
    BY <1>13 DEF CommitDuckDB, Goto, views, memory
  <2>2. Moves'
    BY <2>1 DEF Moves, Placement
  <2>3. OneOfEach'
    BY <2>1 DEF OneOfEach, OneLive, Live, LiveIn
  <2>4. QED
    BY <2>1, <2>2, <2>3 DEF Placement, EntriesKnown, Exact, Registered
<1>14. CASE CommitSQLite
  <2>1. pc = "half" /\ pc' = "done" /\ cp' = cpView
        /\ UNCHANGED <<wh, cpView, whView, found, renames, todo>>
    BY <1>14 DEF CommitSQLite, Goto, views, memory
  <2>2. Moves'
    BY <2>1 DEF Moves, Placement
  <2>3. OneOfEach'
    BY <2>1 DEF OneOfEach, OneLive, Live, LiveIn
  <2>4. QED
    BY <2>1, <2>2, <2>3 DEF Placement, EntriesKnown, Exact, Registered
<1>15. CASE EndRun
  <2>1. pc' = "idle" /\ cpView' = cp /\ whView' = wh /\ renames' = {} /\ todo' = {}
        /\ UNCHANGED <<cp, wh>>
    BY <1>15 DEF EndRun, Goto, durable
  <2>2. Moves'
    BY <2>1 DEF Moves
  <2>3. OneOfEach'
    BY <2>1 DEF OneOfEach, OneLive, Live, LiveIn
  <2>4. QED
    BY <2>1, <2>2, <2>3 DEF Placement, EntriesKnown, Exact
<1>16. CASE UNCHANGED vars
  BY <1>16, <1>s DEF vars, durable, views, memory
<1>17. QED
  BY <1>1, <1>2, <1>3, <1>4, <1>5, <1>6, <1>7, <1>8, <1>9, <1>10, <1>11, <1>12, <1>13,
     <1>14, <1>15, <1>16 DEF Next, User, Heal, Run

-----------------------------------------------------------------------------
(* The tables of a ledger that renames and the healer do not reach. *)

\* The tables of a replaced category are of one file, and an entry has its rows
\* in all of them, under the name they were extracted under.
Whole(w) ==
    /\ \A a, b \in w.bronze :
          TableCat[a.table] = TableCat[b.table] /\ TableCat[a.table] \in FullReplace
            => a.content = b.content
    /\ \A p \in Paths : w.meta[p] # None /\ w.meta[p].hash \notin Blank =>
          \A t \in TablesOf(Cat[p]) : t # LastTable[Cat[p]] =>
              \E b \in w.bronze : /\ b.table = t /\ b.content = w.meta[p].hash
                                  /\ b.name = Name[b.from]

\* Where a registry knows an entry of the category, it knows the name of the row.
Known(w, r) ==
    \A b \in w.bronze : \A q \in Paths :
        /\ Far(b) /\ Cat[q] = TableCat[b.table]
        /\ w.meta[q] # None /\ Registered(r, q)
        => \E p \in Paths : Registered(r, p) /\ Cat[p] = TableCat[b.table] /\ Name[p] = b.name

\* Both registries are needed: a run that ends split commits the rows and leaves
\* the registry as it was.
LedgerInv ==
    /\ Whole(wh) /\ Whole(whView)
    /\ Known(wh, cp) /\ Known(whView, cp) /\ Known(whView, cpView)

\* Only replaced categories have such tables.
LEMMA FarIsReplaced ==
    \A b : b.table \in Tables /\ Far(b) => TableCat[b.table] \in FullReplace
BY EvidenceAssumption DEF Far

\* The healer leaves them alone.
LEMMA PrunedWhole ==
    ASSUME UniqueNames, NEW w \in Warehouse, Exact(w), NEW p \in Paths
    PROVE  /\ Whole(w) => Whole(Pruned(w, p))
           /\ \A r : Known(w, r) => Known(Pruned(w, p), r)
<1> DEFINE v == Pruned(w, p)
<1>1. /\ v.bronze = {b \in w.bronze : ~ IsRowOf(b, p)}
      /\ \A q \in Paths : v.meta[q] = IF q = p THEN None ELSE w.meta[q]
  BY PrunedExact DEF Pruned
<1> HIDE DEF v
<1>2. \A b \in w.bronze : Far(b) => b \in v.bronze
  BY <1>1, RowHasOneFile
<1>3. ASSUME Whole(w)
      PROVE  Whole(v)
  <2>1. ASSUME NEW q \in Paths, v.meta[q] # None, v.meta[q].hash \notin Blank,
               NEW t \in TablesOf(Cat[q]), t # LastTable[Cat[q]]
        PROVE  \E b \in v.bronze : /\ b.table = t /\ b.content = v.meta[q].hash
                                   /\ b.name = Name[b.from]
    <3>1. v.meta[q] = w.meta[q]
      BY <1>1, <2>1
    <3>2. PICK b \in w.bronze : /\ b.table = t /\ b.content = w.meta[q].hash
                                /\ b.name = Name[b.from]
      BY <1>3, <2>1, <3>1 DEF Whole
    <3>3. Far(b)
      BY <2>1, <3>2 DEF Far, TablesOf
    <3>4. QED
      BY <1>2, <3>1, <3>2, <3>3
  <2>2. \A a, b \in v.bronze :
          TableCat[a.table] = TableCat[b.table] /\ TableCat[a.table] \in FullReplace
            => a.content = b.content
    BY <1>1, <1>3 DEF Whole
  <2>3. QED
    BY <2>1, <2>2 DEF Whole
<1>4. \A r : Known(w, r) => Known(v, r)
  BY <1>1 DEF Known
<1>5. QED
  BY <1>3, <1>4 DEF v

\* So does a rename.
LEMMA MigratedWhole ==
    ASSUME UniqueNames, whView \in Warehouse, Exact(whView),
           NEW old \in Paths, NEW new \in Paths, old # new,
           Cat[old] = Cat[new], whView.meta[new] = None, Whole(whView),
           NEW w, w = [bronze |-> MigratedRows(old, new), meta |-> MigratedMeta(old, new)]
    PROVE  /\ Whole(w)
           /\ \A b \in w.bronze : Far(b) => b \in whView.bronze
<1> DEFINE moved(b) == IF IsRowOf(b, old) THEN [b EXCEPT !.name = Name[new]] ELSE b
<1>1. w.bronze = {moved(b) : b \in whView.bronze}
  BY DEF MigratedRows
<1>2. whView.bronze \subseteq BronzeRow
  BY DEF Warehouse
<1>3. \A b \in whView.bronze : /\ moved(b).content = b.content /\ moved(b).table = b.table
                               /\ Far(b) => moved(b) = b
  <2>1. \A b \in whView.bronze : IsRowOf(b, old) => ~ Far(b)
    BY RowHasOneFile
  <2>2. QED
    BY <1>2, <2>1 DEF BronzeRow
<1> HIDE DEF moved
<1>4. /\ w.meta[new] = whView.meta[old] /\ w.meta[old] = None
      /\ \A q \in Paths : q # old /\ q # new => w.meta[q] = whView.meta[q]
  BY MigratedExact
<1>5. ASSUME NEW a \in w.bronze, NEW b \in w.bronze, TableCat[a.table] = TableCat[b.table],
             TableCat[a.table] \in FullReplace
      PROVE  a.content = b.content
  <2>1. PICK c \in whView.bronze, d \in whView.bronze : a = moved(c) /\ b = moved(d)
    BY <1>1
  <2>2. c.table = a.table /\ d.table = b.table /\ c.content = a.content /\ d.content = b.content
    BY <1>3, <2>1
  <2>3. QED
    BY <1>5, <2>2 DEF Whole
<1>6. ASSUME NEW q \in Paths, w.meta[q] # None, w.meta[q].hash \notin Blank,
             NEW t \in TablesOf(Cat[q]), t # LastTable[Cat[q]]
      PROVE  \E b \in w.bronze : /\ b.table = t /\ b.content = w.meta[q].hash
                                 /\ b.name = Name[b.from]
  <2>1. PICK o \in Paths : Cat[o] = Cat[q] /\ w.meta[q] = whView.meta[o]
    BY <1>4, <1>6
  <2>2. PICK b \in whView.bronze : /\ b.table = t /\ b.content = whView.meta[o].hash
                                   /\ b.name = Name[b.from]
    BY <1>6, <2>1 DEF Whole
  <2>3. Far(b)
    BY <1>6, <2>2 DEF Far, TablesOf
  <2>4. b \in w.bronze
    BY <1>1, <1>3, <2>3
  <2>5. QED
    BY <2>1, <2>2, <2>4
<1>7. Whole(w)
  BY <1>5, <1>6 DEF Whole
<1>8. ASSUME NEW c \in w.bronze, Far(c)
      PROVE  c \in whView.bronze
  <2>1. PICK b \in whView.bronze : c = moved(b)
    BY <1>1
  <2>2. Far(b)
    BY <1>3, <1>8, <2>1 DEF Far
  <2>3. QED
    BY <1>3, <2>1, <2>2
<1>9. QED
  BY <1>7, <1>8

\* A load writes all the tables of a ledger, or none.
LEMMA LoadedWhole ==
    ASSUME UniqueNames, VaultInv, pc = "migrating", OneLive,
           whView \in Warehouse, Exact(whView), Whole(whView), PayloadsAtHand(Pending),
           NEW w, w = [bronze |-> LoadedRows(Pending), meta |-> LoadedMeta(Pending)]
    PROVE  /\ Whole(w)
           /\ \A r : Known(whView, r) => Known(w, r)
<1> DEFINE new(b, p) ==
      /\ cpView[p].payload \notin Blank
      /\ TableCat[b.table] = Cat[p] /\ b.content = cpView[p].hash
      /\ b.name = Name[p] /\ b.from = p
<1>1. \A p \in Pending : /\ p \in Paths /\ cpView[p].payload \in Contents
                         /\ cpView[p].payload = cpView[p].hash /\ Live(p)
  BY Zenon DEF Pending, PayloadsAtHand, VaultInv, RegistryType, Vaulted, Entry, Bytes, Live
<1>2. \A p, q \in Pending : Cat[p] = Cat[q] /\ Cat[p] \in FullReplace => p = q
  BY <1>1 DEF OneLive
<1>3. /\ \A p \in Pending : w.meta[p] # None /\ w.meta[p].hash = cpView[p].hash
      /\ \A p \in Paths \ Pending :
           w.meta[p] = IF \E q \in Pending : Cat[q] = Cat[p] /\ Cat[p] \in FullReplace
                       THEN None ELSE whView.meta[p]
  <2>1. \A p \in Pending : w.meta[p] # None /\ w.meta[p].hash = cpView[p].hash
    BY LoadedExact
  <2>2. \A p \in Paths \ Pending :
          LoadedMeta(Pending)[p] = IF \E q \in Pending : Cat[q] = Cat[p] /\ Cat[p] \in FullReplace
                                   THEN None ELSE whView.meta[p]
    BY DEF LoadedMeta
  <2>3. QED
    BY <2>1, <2>2
<1>4. \A p \in Pending : \A b \in Extracted(p) : new(b, p)
  BY <1>1 DEF Extracted, TablesOf
<1>5. \A b \in w.bronze : \/ b \in whView.bronze /\ ~ Replaced(b, Pending)
                          \/ \E p \in Pending : new(b, p)
  BY <1>4 DEF LoadedRows, ExtractedAll
<1>6. \A b \in whView.bronze : ~ Replaced(b, Pending) => b \in w.bronze
  BY DEF LoadedRows
<1>7. \A p \in Pending : cpView[p].payload \notin Blank =>
         \A t \in TablesOf(Cat[p]) : \E b \in w.bronze : b.table = t /\ new(b, p)
  <2> SUFFICES ASSUME NEW p \in Pending, cpView[p].payload \notin Blank,
                      NEW t \in TablesOf(Cat[p])
               PROVE  \E b \in w.bronze : b.table = t /\ new(b, p)
    OBVIOUS
  <2> DEFINE b == [table |-> t, name |-> Name[p], from |-> p, content |-> cpView[p].payload]
  <2>1. b \in Extracted(p) /\ b.table = t
    BY DEF Extracted
  <2>2. b \in w.bronze
    BY <2>1 DEF LoadedRows, ExtractedAll
  <2> HIDE DEF b
  <2>3. QED
    BY <1>4, <2>1, <2>2
<1> HIDE DEF new
<1>8. ASSUME NEW a \in w.bronze, NEW b \in w.bronze, TableCat[a.table] = TableCat[b.table],
             TableCat[a.table] \in FullReplace
      PROVE  a.content = b.content
  <2>1. ASSUME NEW c \in w.bronze, TableCat[c.table] = TableCat[a.table],
               NEW p \in Pending, Cat[p] = TableCat[a.table]
        PROVE  c.content = cpView[p].hash
    <3>1. Replaced(c, Pending)
      BY <1>8, <2>1 DEF Replaced
    <3>2. PICK q \in Pending : new(c, q)
      BY <1>5, <3>1
    <3>3. q = p
      BY <1>2, <1>8, <2>1, <3>2 DEF new
    <3>4. QED
      BY <3>2, <3>3 DEF new
  <2>2. CASE \E p \in Pending : Cat[p] = TableCat[a.table]
    BY <1>8, <2>1, <2>2
  <2>3. CASE ~ \E p \in Pending : Cat[p] = TableCat[a.table]
    <3>1. a \in whView.bronze /\ b \in whView.bronze
      BY <1>5, <1>8, <2>3 DEF new
    <3>2. QED
      BY <1>8, <3>1 DEF Whole
  <2>4. QED
    BY <2>2, <2>3
<1>9. ASSUME NEW p \in Paths, w.meta[p] # None, w.meta[p].hash \notin Blank,
             NEW t \in TablesOf(Cat[p]), t # LastTable[Cat[p]]
      PROVE  \E b \in w.bronze : /\ b.table = t /\ b.content = w.meta[p].hash
                                 /\ b.name = Name[b.from]
  <2>1. CASE p \in Pending
    <3>1. cpView[p].payload \notin Blank
      BY <1>1, <1>3, <1>9, <2>1
    <3>2. QED
      BY <1>3, <1>7, <1>9, <2>1, <3>1 DEF new
  <2>2. CASE p \notin Pending
    <3>1. /\ w.meta[p] = whView.meta[p]
          /\ ~ \E q \in Pending : Cat[q] = Cat[p] /\ Cat[p] \in FullReplace
      BY <1>3, <1>9, <2>2
    <3>2. PICK b \in whView.bronze : /\ b.table = t /\ b.content = whView.meta[p].hash
                                     /\ b.name = Name[b.from]
      BY <1>9, <3>1 DEF Whole
    <3>3. TableCat[b.table] = Cat[p] /\ Cat[p] \in FullReplace
      BY <1>9, <3>2, EvidenceAssumption DEF TablesOf
    <3>4. ~ Replaced(b, Pending)
      BY <3>1, <3>3 DEF Replaced
    <3>5. QED
      BY <1>6, <3>1, <3>2, <3>4
  <2>3. QED
    BY <2>1, <2>2
<1>10. ASSUME NEW r, Known(whView, r), NEW b \in w.bronze, NEW q \in Paths,
              Far(b), Cat[q] = TableCat[b.table], w.meta[q] # None, Registered(r, q)
       PROVE  \E p \in Paths : Registered(r, p) /\ Cat[p] = TableCat[b.table] /\ Name[p] = b.name
  <2>1. whView.bronze \subseteq BronzeRow
    BY DEF Warehouse
  <2>2. CASE b \in whView.bronze /\ ~ Replaced(b, Pending)
    <3>1. Cat[q] \in FullReplace
      BY <1>10, <2>1, <2>2, FarIsReplaced DEF BronzeRow
    <3>2. ~ \E p \in Pending : Cat[p] = Cat[q]
      BY <1>10, <2>2, <3>1 DEF Replaced
    <3>3. w.meta[q] = whView.meta[q]
      BY <1>3, <3>2
    <3>4. QED
      BY <1>10, <2>2, <3>3 DEF Known
  <2>3. CASE \E p \in Pending : new(b, p)
    <3>1. PICK p \in Pending : new(b, p)
      BY <2>3
    <3>2. Cat[q] = Cat[p] /\ b.name = Name[p]
      BY <1>10, <3>1 DEF new
    <3>3. Cat[q] \in FullReplace
      <4>1. w \in Warehouse
        BY LoadedExact
      <4>2. b \in BronzeRow
        BY <4>1 DEF Warehouse
      <4>3. QED
        BY <1>10, <4>2, FarIsReplaced DEF BronzeRow
    <3>4. q \in Pending
      BY <1>3, <1>10, <3>2, <3>3
    <3>5. q = p
      BY <1>2, <3>2, <3>3, <3>4
    <3>6. QED
      BY <1>10, <3>2, <3>5
  <2>4. QED
    BY <1>5, <2>2, <2>3
<1>11. QED
  BY <1>8, <1>9, <1>10 DEF Whole, Known

\* Every step preserves it.
LEMMA LedgerStep ==
    ASSUME UniqueNames
    PROVE  VaultInv /\ StoreInv /\ LedgerInv /\ [Next]_vars => LedgerInv'
<1> SUFFICES ASSUME VaultInv, StoreInv, LedgerInv, [Next]_vars PROVE LedgerInv'
  OBVIOUS
<1> USE DEF LedgerInv
<1>s. UNCHANGED <<cp, wh, cpView, whView>> => LedgerInv'
  BY DEF Whole, Known, Registered
<1>1. CASE \/ EditFile \/ MoveFile \/ StartHealing \/ PruningDone \/ BeginRun \/ Discover
           \/ SkipDiscovery \/ AllCaptured \/ UNCHANGED vars
  BY <1>1, <1>s DEF EditFile, MoveFile, Edited, StartHealing, PruningDone, BeginRun,
     Discover, SkipDiscovery, AllCaptured, vars, durable, views
<1>2. CASE LoseWarehouse
  <2>1. wh' = EmptyWarehouse /\ whView' = EmptyWarehouse /\ UNCHANGED <<cp, cpView>>
    BY <1>2 DEF LoseWarehouse
  <2>2. Whole(EmptyWarehouse) /\ \A r : Known(EmptyWarehouse, r)
    BY DEF Whole, Known, EmptyWarehouse
  <2>3. QED
    BY <2>1, <2>2 DEF Whole, Known, Registered
<1>3. CASE PruneDangling
  <2>1. PICK p \in Paths : wh' = Pruned(wh, p) /\ whView' = wh'
    BY <1>3 DEF PruneDangling
  <2>2. pc = "pruning" /\ UNCHANGED <<cp, cpView>>
    BY <1>3 DEF PruneDangling
  <2>3. cpView = cp
    BY <2>2 DEF VaultInv, Outside
  <2>4. Whole(Pruned(wh, p)) /\ Known(Pruned(wh, p), cp)
    BY PrunedWhole DEF StoreInv
  <2>5. QED
    BY <2>1, <2>2, <2>3, <2>4 DEF Whole, Known, Registered
<1>4. CASE Requeue
  <2>1. PICK p \in Paths : SyncRecordMissing(p) /\ cp' = [cp EXCEPT ![p].status = "PENDING"]
                           /\ cpView' = cp'
    BY <1>4 DEF Requeue, Requeued
  <2>2. pc = "requeueing" /\ UNCHANGED <<wh, whView>>
    BY <1>4 DEF Requeue
  <2>3. \A q \in Paths : Registered(cp', q) <=> Registered(cp, q)
    BY <2>1 DEF VaultInv, RegistryType, SyncRecordMissing, Registered, Entry
  <2>4. \A w : Known(w, cp) => Known(w, cp')
    BY <2>3 DEF Known
  <2>5. /\ Known(wh', cp') /\ Known(whView', cp') /\ Known(whView', cpView')
        /\ Whole(wh') /\ Whole(whView')
    BY <2>1, <2>2, <2>4
  <2>6. LedgerInv' = (/\ Whole(wh') /\ Whole(whView') /\ Known(wh', cp')
                      /\ Known(whView', cp') /\ Known(whView', cpView'))
    BY DEF Whole, Known, Registered
  <2>7. QED
    BY <2>5, <2>6
<1>5. CASE SyncWithDisk \/ Ingest
  <2>1. UNCHANGED <<cp, wh, whView>> /\ pc \in {"discovered", "capturing"}
    BY <1>5 DEF SyncWithDisk, Ingest, durable
  <2>2. \A p \in Paths : Registered(cpView, p) => Registered(cpView', p)
    <3>1. CASE SyncWithDisk
      BY <3>1, SyncEffects DEF Remains, Renames, Registered, Live
    <3>2. CASE Ingest
      BY <3>2 DEF Ingest, Captured, VaultInv, RegistryType, Registered
    <3>3. QED
      BY <1>5, <3>1, <3>2
  <2>3. \A p \in Paths : whView.meta[p] # None => Registered(cpView, p)
    BY <2>1 DEF StoreInv, EntriesKnown
  <2>4. Known(whView, cpView)'
    BY <2>1, <2>2, <2>3 DEF Known
  <2>5. QED
    BY <2>1, <2>4 DEF Whole, Known, Registered
<1>6. CASE MigrateIdentity
  <2>1. PICK old, new \in Paths :
          /\ <<old, new>> \in renames
          /\ whView' = [bronze |-> MigratedRows(old, new), meta |-> MigratedMeta(old, new)]
    BY <1>6 DEF MigrateIdentity
  <2>2. pc = "migrating" /\ UNCHANGED <<cp, cpView, wh>>
    BY <1>6 DEF MigrateIdentity, durable
  <2>3. /\ old # new /\ Cat[old] = Cat[new] /\ whView.meta[new] = None
        /\ ~ Registered(cp, new) /\ cpView[old].status = "REMOVED"
    BY <2>1 DEF StoreInv, Moves
  <2>4. /\ whView'.meta[new] = whView.meta[old] /\ whView'.meta[old] = None
        /\ \A q \in Paths : q # old /\ q # new => whView'.meta[q] = whView.meta[q]
    BY <2>1, <2>3, MigratedExact DEF StoreInv
  <2>5. Whole(whView') /\ \A b \in whView'.bronze : Far(b) => b \in whView.bronze
    BY <2>1, <2>3, MigratedWhole DEF StoreInv
  <2>6. Known(whView', cp)
    <3>1. \A q \in Paths : whView'.meta[q] # None /\ Registered(cp, q)
                             => whView'.meta[q] = whView.meta[q]
      BY <2>3, <2>4
    <3>2. QED
      BY <2>5, <3>1 DEF Known
  <2>7. Known(whView', cpView)
    <3>1. Registered(cpView, old)
      BY <2>3 DEF Registered
    <3>2. ASSUME NEW q \in Paths, whView'.meta[q] # None, Registered(cpView, q)
          PROVE  \E o \in Paths : Cat[o] = Cat[q] /\ whView.meta[o] # None /\ Registered(cpView, o)
      BY <2>3, <2>4, <3>1, <3>2
    <3>3. QED
      BY <2>5, <3>2 DEF Known
  <2>8. QED
    BY <2>2, <2>5, <2>6, <2>7 DEF Whole, Known, Registered
<1>7. CASE LoadBronze
  <2>1. /\ pc = "migrating" /\ PayloadsAtHand(Pending)
        /\ whView' = [bronze |-> LoadedRows(Pending), meta |-> LoadedMeta(Pending)]
        /\ cpView' = [p \in Paths |->
              IF p \in Pending THEN MarkSynced(cpView[p]) ELSE cpView[p]]
        /\ UNCHANGED <<cp, wh>>
    BY <1>7 DEF LoadBronze, durable
  <2>2. Whole(whView') /\ Known(whView', cp) /\ Known(whView', cpView)
    BY <2>1, LoadedWhole DEF StoreInv, OneOfEach
  <2>3. \A p \in Paths : Registered(cpView', p) <=> Registered(cpView, p)
    BY <2>1 DEF VaultInv, RegistryType, Entry, MarkSynced, Pending, Registered
  <2>4. QED
    BY <2>1, <2>2, <2>3 DEF Whole, Known, Registered
<1>8. CASE CommitDuckDB
  BY <1>8 DEF CommitDuckDB, views, Whole, Known, Registered
<1>9. CASE CommitSQLite
  <2>1. pc = "half" /\ cp' = cpView /\ UNCHANGED <<wh, cpView, whView>>
    BY <1>9 DEF CommitSQLite, views
  <2>2. wh = whView
    BY <2>1 DEF StoreInv, Placement
  <2>3. QED
    BY <2>1, <2>2 DEF Whole, Known, Registered
<1>10. CASE EndRun
  <2>1. cpView' = cp /\ whView' = wh /\ UNCHANGED <<cp, wh>>
    BY <1>10 DEF EndRun, durable
  <2>2. QED
    BY <2>1 DEF Whole, Known, Registered
<1>11. QED
  BY <1>1, <1>2, <1>3, <1>4, <1>5, <1>6, <1>7, <1>8, <1>9, <1>10 DEF Next, User, Heal, Run

\* An empty warehouse satisfies it.
LEMMA LedgerInit == Init => LedgerInv
BY DEF Init, LedgerInv, Whole, Known, EmptyWarehouse

\* Of each replaced category a run that has looked at the folder found a file.
Asked == scanned # None => \A c \in FullReplace : \E p \in found : Cat[p] = c

\* The file it found stays found to the end of the run.
LEMMA AskedStep == Asked /\ [Next]_vars => Asked'
<1> SUFFICES ASSUME Asked, [Next]_vars PROVE Asked'
  OBVIOUS
<1>1. CASE Discover
  <2>1. \A c \in FullReplace : ConfigurationAsset(c, found')
    BY <1>1 DEF Discover
  <2>2. \A c \in FullReplace : \E p \in found' : Cat[p] = c
    BY <2>1 DEF ConfigurationAsset, OnDisk
  <2>3. QED
    BY <2>2 DEF Asked
<1>2. CASE EndRun
  BY <1>2 DEF EndRun, Asked
<1>3. CASE UNCHANGED <<scanned, found>>
  BY <1>3 DEF Asked
<1>4. QED
  BY <1>1, <1>2, <1>3 DEF Next, User, EditFile, MoveFile, Edited, LoseWarehouse, Heal,
     StartHealing, PruneDangling, PruningDone, Requeue, Run, BeginRun, SkipDiscovery,
     SyncWithDisk, Ingest, AllCaptured, MigrateIdentity, LoadBronze, CommitDuckDB,
     CommitSQLite, vars, memory

-----------------------------------------------------------------------------
(* What is SYNCED is loaded. *)

\* A file whose digest the warehouse can be trusted with: no split run has
\* changed its category, or its digest is never compared.
Trusted(p) == Cat[p] \in ContentDrift => Cat[p] \notin split

SameHash(w, p) == w.meta[p] # None => w.meta[p].hash = cp[p].hash

EntryOf(p, q) ==
    /\ whView.meta[q] # None
    /\ Trusted(p) => whView.meta[q].hash = cpView[p].hash

\* Under its own name, or under the old one until the rename is applied.
HasEntry(p) ==
    EntryOf(p, p) \/ \E old \in Paths : <<old, p>> \in renames /\ EntryOf(p, old)

SyncedEntries ==
    pc \notin {"idle", "pruning", "requeueing"} =>
        \A p \in Paths : cpView[p].status = "SYNCED" => HasEntry(p)

\* A live file whose digest is never compared keeps it, in both stores, through
\* any split.
Steady ==
    \A p \in Paths : Cat[p] \notin ContentDrift /\ LiveIn(cp, p) =>
        /\ cpView[p].hash = cp[p].hash /\ p \notin todo
        /\ SameHash(whView, p) /\ SameHash(wh, p)

\* Unless the run is halfway through its commits, the stores agree on the digest
\* of a live file.
Agreed ==
    pc # "half" =>
        \A p \in Paths : LiveIn(cp, p) /\ Trusted(p) => SameHash(wh, p)

SyncedInv == SyncedEntries /\ Steady /\ Agreed

\* The comparison keeps it: whoever takes over a SYNCED row has the old entry.
LEMMA SyncedKeptBySync ==
    ASSUME VaultInv, StoreInv, SyncedInv, SyncWithDisk
    PROVE  SyncedInv'
<1> USE DEF SyncedInv
<1>1. /\ pc = "discovered" /\ pc' = "capturing" /\ cpView = cp /\ renames = {}
      /\ UNCHANGED <<cp, wh, whView, split>>
  BY DEF SyncWithDisk, durable, Goto, VaultInv, Outside, StoreInv, Placement
<1>2. /\ \A old, new : <<old, new>> \in renames' => Renames(old, new)
      /\ \A p \in Paths : Remains(p) \/ \E old \in Paths : <<old, p>> \in renames'
      /\ \A p \in todo' : IsNew(p) \/ IsChanged(p)
  BY SyncEffects
<1>3. SyncedEntries'
  <2> SUFFICES ASSUME NEW p \in Paths, cpView'[p].status = "SYNCED"
               PROVE  HasEntry(p)'
    BY DEF SyncedEntries
  <2>1. \A q \in Paths : cpView[q].status = "SYNCED" => EntryOf(q, q)
    BY <1>1 DEF SyncedEntries, HasEntry
  <2>2. CASE Remains(p)
    <3>1. EntryOf(p, p) /\ cpView'[p].hash = cpView[p].hash
      BY <2>1, <2>2 DEF Remains
    <3>2. EntryOf(p, p)'
      BY <1>1, <3>1 DEF EntryOf, Trusted
    <3>3. QED
      BY <3>2 DEF HasEntry
  <2>3. CASE \E old \in Paths : <<old, p>> \in renames'
    <3>1. PICK old \in Paths : <<old, p>> \in renames'
      BY <2>3
    <3>2. Cat[old] = Cat[p] /\ cpView'[p] = cpView[old]
      BY <1>2, <3>1 DEF Renames
    <3>3. EntryOf(old, old)
      BY <2>1, <3>2
    <3>4. EntryOf(p, old)'
      BY <1>1, <3>2, <3>3 DEF EntryOf, Trusted
    <3>5. QED
      BY <3>1, <3>4 DEF HasEntry
  <2>4. QED
    BY <1>2, <2>2, <2>3
<1>4. Steady'
  <2> SUFFICES ASSUME NEW p \in Paths, Cat[p] \notin ContentDrift, LiveIn(cp, p)
               PROVE  /\ cpView'[p].hash = cp[p].hash /\ p \notin todo'
                      /\ SameHash(whView, p) /\ SameHash(wh, p)
    BY <1>1 DEF Steady, SameHash, LiveIn
  <2>1. Registered(cpView, p)
    BY <1>1 DEF LiveIn, Registered
  <2>2. Remains(p)
    BY <1>2, <2>1 DEF Renames
  <2>3. p \notin todo'
    BY <1>1, <1>2 DEF IsNew, IsChanged, HasPayload, Live, LiveIn, VaultInv, Vaulted
  <2>4. QED
    BY <1>1, <2>2, <2>3 DEF Remains, Steady
<1>5. Agreed'
  BY <1>1 DEF Agreed, SameHash, LiveIn, Trusted
<1>6. QED
  BY <1>3, <1>4, <1>5

\* A rename keeps it: the entry arrives under the name that waits for it.
LEMMA SyncedKeptByMigration ==
    ASSUME UniqueNames, StoreInv, SyncedInv, MigrateIdentity
    PROVE  SyncedInv'
<1> USE DEF SyncedInv
<1>1. PICK old, new \in Paths :
        /\ <<old, new>> \in renames
        /\ whView' = [bronze |-> MigratedRows(old, new), meta |-> MigratedMeta(old, new)]
        /\ renames' = renames \ {<<old, new>>}
  BY DEF MigrateIdentity
<1>2. pc = "migrating" /\ UNCHANGED <<pc, cp, cpView, wh, todo, split>>
  BY DEF MigrateIdentity, durable
<1>3. /\ old # new /\ Cat[old] = Cat[new] /\ whView.meta[new] = None
      /\ ~ Registered(cp, new) /\ cpView[old].status = "REMOVED"
      /\ old \notin found /\ new \in found
  BY <1>1 DEF StoreInv, Moves
<1>4. /\ whView'.meta[new] = whView.meta[old] /\ whView'.meta[old] = None
      /\ \A q \in Paths : q # old /\ q # new => whView'.meta[q] = whView.meta[q]
  BY <1>1, <1>3, MigratedExact DEF StoreInv
<1>5. SyncedEntries'
  <2> SUFFICES ASSUME NEW p \in Paths, cpView[p].status = "SYNCED"
               PROVE  HasEntry(p)'
    BY <1>2 DEF SyncedEntries
  <2>1. p # old /\ HasEntry(p)
    BY <1>2, <1>3 DEF SyncedEntries
  <2>2. CASE EntryOf(p, p)
    <3>1. p # new
      BY <1>3, <2>2 DEF EntryOf
    <3>2. EntryOf(p, p)'
      BY <1>2, <1>4, <2>1, <2>2, <3>1 DEF EntryOf, Trusted
    <3>3. QED
      BY <3>2 DEF HasEntry
  <2>3. CASE ~ EntryOf(p, p)
    <3>1. PICK o \in Paths : <<o, p>> \in renames /\ EntryOf(p, o)
      BY <2>1, <2>3 DEF HasEntry
    <3>2. CASE p = new
      <4>1. o = old
        BY <1>1, <3>1, <3>2 DEF StoreInv, Moves
      <4>2. EntryOf(p, p)'
        BY <1>2, <1>4, <3>1, <3>2, <4>1 DEF EntryOf, Trusted
      <4>3. QED
        BY <4>2 DEF HasEntry
    <3>3. CASE p # new
      <4>1. o # old /\ o # new
        BY <1>1, <1>3, <3>1, <3>3 DEF StoreInv, Moves
      <4>2. EntryOf(p, o)' /\ <<o, p>> \in renames'
        BY <1>1, <1>2, <1>4, <3>1, <3>3, <4>1 DEF EntryOf, Trusted
      <4>3. QED
        BY <4>2 DEF HasEntry
    <3>4. QED
      BY <3>2, <3>3
  <2>4. QED
    BY <2>2, <2>3
<1>6. Steady'
  <2> SUFFICES ASSUME NEW p \in Paths, Cat[p] \notin ContentDrift, LiveIn(cp, p)
               PROVE  SameHash(whView', p)
    BY <1>2 DEF Steady, SameHash, LiveIn
  <2>1. p # new
    BY <1>3 DEF LiveIn, Registered
  <2>2. QED
    BY <1>4, <2>1 DEF Steady, SameHash
<1>7. Agreed'
  BY <1>2 DEF Agreed, SameHash, LiveIn, Trusted
<1>8. QED
  BY <1>5, <1>6, <1>7

\* The load keeps it: what becomes SYNCED gets its entry.
LEMMA SyncedKeptByLoad ==
    ASSUME UniqueNames, VaultInv, StoreInv, SyncedInv, LoadBronze
    PROVE  SyncedInv'
<1> USE DEF SyncedInv
<1>1. /\ pc = "migrating" /\ pc' = "loaded" /\ renames = {} /\ PayloadsAtHand(Pending)
      /\ whView' = [bronze |-> LoadedRows(Pending), meta |-> LoadedMeta(Pending)]
      /\ cpView' = [p \in Paths |->
            IF p \in Pending THEN MarkSynced(cpView[p]) ELSE cpView[p]]
      /\ UNCHANGED <<cp, wh, todo, split>>
  BY DEF LoadBronze, Goto, durable, memory
<1>2. /\ \A p \in Pending : whView'.meta[p] # None /\ whView'.meta[p].hash = cpView[p].hash
      /\ \A p \in Paths \ Pending :
           \/ whView'.meta[p] = whView.meta[p]
           \/ /\ whView'.meta[p] = None
              /\ \E q \in Pending : Cat[q] = Cat[p] /\ Cat[p] \in FullReplace
  BY <1>1, LoadedExact DEF StoreInv, OneOfEach
<1>3. \A p \in Paths : /\ cpView'[p].hash = cpView[p].hash
                       /\ p \notin Pending => cpView'[p] = cpView[p]
  BY <1>1 DEF VaultInv, RegistryType, Entry, MarkSynced
<1>4. SyncedEntries'
  <2> SUFFICES ASSUME NEW p \in Paths, cpView'[p].status = "SYNCED"
               PROVE  EntryOf(p, p)'
    BY DEF SyncedEntries, HasEntry
  <2>1. CASE p \in Pending
    BY <1>1, <1>2, <1>3, <2>1 DEF EntryOf
  <2>2. CASE p \notin Pending
    <3>1. cpView[p].status = "SYNCED" /\ EntryOf(p, p)
      BY <1>1, <1>3, <2>2 DEF SyncedEntries, HasEntry
    <3>2. \A q \in Pending : ~ (Cat[q] = Cat[p] /\ Cat[p] \in FullReplace)
      BY <2>2, <3>1 DEF StoreInv, OneOfEach, OneLive, Live, Pending
    <3>3. whView'.meta[p] = whView.meta[p]
      BY <1>2, <2>2, <3>2
    <3>4. QED
      BY <1>1, <1>3, <3>1, <3>3 DEF EntryOf, Trusted
  <2>3. QED
    BY <2>1, <2>2
<1>5. Steady'
  <2> SUFFICES ASSUME NEW p \in Paths, Cat[p] \notin ContentDrift, LiveIn(cp, p)
               PROVE  cpView'[p].hash = cp[p].hash /\ SameHash(whView', p)
    BY <1>1 DEF Steady, SameHash, LiveIn
  <2>1. cpView[p].hash = cp[p].hash /\ SameHash(whView, p)
    BY DEF Steady
  <2>2. QED
    BY <1>2, <1>3, <2>1 DEF SameHash
<1>6. Agreed'
  BY <1>1 DEF Agreed, SameHash, LiveIn, Trusted
<1>7. QED
  BY <1>4, <1>5, <1>6

\* A run that ends halfway through its commits leaves the stores agreeing but for
\* the categories it is remembered for.
LEMMA SyncedKeptByEnd ==
    ASSUME VaultInv, SyncInv, StoreInv, SyncedInv, EndRun
    PROVE  SyncedInv'
<1> USE DEF SyncedInv
<1>1. /\ pc' = "idle" /\ cpView' = cp /\ whView' = wh /\ todo' = {}
      /\ UNCHANGED <<cp, wh>>
      /\ split' = IF pc = "half"
                  THEN split \cup {Cat[p] : p \in {q \in Paths : cpView[q] # cp[q]}}
                  ELSE split
  BY DEF EndRun, Goto, durable
<1>2. SyncedEntries'
  BY <1>1 DEF SyncedEntries
<1>3. Steady'
  BY <1>1 DEF Steady, SameHash, LiveIn
<1>4. Agreed'
  <2> SUFFICES ASSUME NEW p \in Paths, LiveIn(cp, p), Trusted(p)'
               PROVE  SameHash(wh, p)
    BY <1>1 DEF Agreed, SameHash, LiveIn
  <2>1. CASE pc # "half"
    BY <1>1, <2>1 DEF Agreed, Trusted
  <2>2. CASE pc = "half" /\ Cat[p] \notin ContentDrift
    BY <2>2 DEF Steady
  <2>3. CASE pc = "half" /\ Cat[p] \in ContentDrift
    <3>1. Cat[p] \notin split /\ cpView[p] = cp[p]
      BY <1>1, <2>3 DEF Trusted
    <3>2. cpView[p].status = "SYNCED"
      BY <2>3, <3>1 DEF SyncInv, LiveIn
    <3>3. EntryOf(p, p) /\ wh = whView
      BY <2>3, <3>2 DEF SyncedEntries, HasEntry, StoreInv, Placement
    <3>4. QED
      BY <3>1, <3>3 DEF EntryOf, Trusted, SameHash
  <2>4. QED
    BY <2>1, <2>2, <2>3
<1>5. QED
  BY <1>2, <1>3, <1>4

\* Every step preserves it.
LEMMA SyncedStep ==
    ASSUME UniqueNames
    PROVE  VaultInv /\ SyncInv /\ StoreInv /\ SyncedInv /\ [Next]_vars => SyncedInv'
<1> SUFFICES ASSUME VaultInv, SyncInv, StoreInv, SyncedInv, [Next]_vars PROVE SyncedInv'
  OBVIOUS
<1> USE DEF SyncedInv
<1>v. /\ pc \in Outside => cpView = cp /\ whView = wh /\ renames = {} /\ todo = {}
      /\ pc \in {"half", "done"} => wh = whView /\ renames = {} /\ todo = {}
  BY DEF VaultInv, StoreInv, Placement, Outside
<1>s. ASSUME UNCHANGED <<cp, wh, cpView, whView, renames, todo, split>>
      PROVE  /\ Steady'
             /\ pc # "half" => Agreed'
             /\ pc' = pc => Agreed'
             /\ pc \notin {"idle", "pruning", "requeueing"} => SyncedEntries'
             /\ pc' \in {"idle", "pruning", "requeueing"} => SyncedEntries'
  BY <1>s DEF Steady, Agreed, SyncedEntries, HasEntry, EntryOf, SameHash, Trusted, LiveIn
<1>1. CASE EditFile \/ MoveFile
  <2>1. UNCHANGED <<cp, wh, cpView, whView, renames, todo, split, pc>>
    BY <1>1 DEF EditFile, MoveFile, Edited, durable, views, memory
  <2>2. QED
    BY <1>s, <2>1
<1>2. CASE LoseWarehouse
  <2>1. /\ pc = "idle" /\ wh' = EmptyWarehouse /\ whView' = EmptyWarehouse
        /\ UNCHANGED <<cp, cpView, pc, todo, split>>
    BY <1>2 DEF LoseWarehouse, memory
  <2>2. \A p \in Paths : SameHash(wh', p) /\ SameHash(whView', p)
    BY <2>1 DEF SameHash, EmptyWarehouse
  <2>3. QED
    BY <2>1, <2>2 DEF Steady, Agreed, SyncedEntries, SameHash, LiveIn
<1>3. CASE StartHealing \/ PruningDone \/ SkipDiscovery \/ AllCaptured \/ Discover
  <2>1. /\ UNCHANGED <<cp, wh, cpView, whView, renames, todo, split>> /\ pc # "half"
        /\ \/ pc \notin {"idle", "pruning", "requeueing"}
           \/ pc' \in {"idle", "pruning", "requeueing"}
    BY <1>3 DEF StartHealing, PruningDone, SkipDiscovery, AllCaptured, Discover, Goto,
                durable, views, memory
  <2>2. QED
    BY <1>s, <2>1
<1>4. CASE PruneDangling
  <2>1. PICK p \in Paths : wh' = Pruned(wh, p) /\ whView' = wh'
    BY <1>4 DEF PruneDangling
  <2>2. pc = "pruning" /\ whView = wh /\ UNCHANGED <<cp, cpView, pc, todo, split>>
    BY <1>4, <1>v DEF PruneDangling, memory, Outside
  <2>3. \A q \in Paths : wh'.meta[q] = None \/ wh'.meta[q] = wh.meta[q]
    BY <2>1, PrunedExact DEF StoreInv
  <2>4. \A q \in Paths : SameHash(wh, q) => SameHash(wh', q) /\ SameHash(whView', q)
    BY <2>1, <2>3 DEF SameHash
  <2>5. QED
    BY <2>2, <2>4 DEF Steady, Agreed, SyncedEntries, SameHash, LiveIn, Trusted
<1>5. CASE Requeue
  <2>1. PICK p \in Paths : SyncRecordMissing(p) /\ cp' = [cp EXCEPT ![p].status = "PENDING"]
                           /\ cpView' = cp'
    BY <1>5 DEF Requeue, Requeued
  <2>2. pc = "requeueing" /\ UNCHANGED <<wh, whView, pc, todo, split>>
    BY <1>5 DEF Requeue, memory
  <2>3. \A q \in Paths : (LiveIn(cp', q) <=> LiveIn(cp, q)) /\ cp'[q].hash = cp[q].hash
    BY <2>1 DEF VaultInv, RegistryType, SyncRecordMissing, LiveIn, Entry
  <2>4. \A q \in Paths : /\ SameHash(wh, q) => SameHash(wh, q)'
                         /\ SameHash(whView, q) => SameHash(whView, q)'
    BY <2>2, <2>3 DEF SameHash
  <2>5. Steady'
    BY <2>1, <2>2, <2>3, <2>4 DEF Steady, LiveIn
  <2>6. QED
    BY <2>2, <2>3, <2>4, <2>5 DEF Agreed, SyncedEntries, LiveIn, Trusted
<1>6. CASE BeginRun
  <2>1. /\ pc = "requeueing" /\ pc' = "begun" /\ \A p \in Paths : ~ SyncRecordMissing(p)
        /\ UNCHANGED <<cp, wh, cpView, whView, renames, todo, split>>
    BY <1>6 DEF BeginRun, Goto, durable, views
  <2>2. ASSUME NEW p \in Paths, cpView[p].status = "SYNCED"
        PROVE  EntryOf(p, p)
    <3>1. cpView = cp /\ whView = wh
      BY <1>v, <2>1 DEF Outside
    <3>2. wh.meta[p] # None
      BY <2>1, <2>2, <3>1 DEF SyncRecordMissing
    <3>3. Trusted(p) => SameHash(wh, p)
      BY <2>1, <2>2, <3>1 DEF Agreed, LiveIn
    <3>4. QED
      BY <3>1, <3>2, <3>3 DEF EntryOf, SameHash
  <2>3. SyncedEntries'
    BY <2>1, <2>2 DEF SyncedEntries, HasEntry, EntryOf, Trusted
  <2>4. QED
    BY <1>s, <2>1, <2>3
<1>7. CASE SyncWithDisk
  BY <1>7, SyncedKeptBySync
<1>8. CASE Ingest
  <2>1. PICK p \in todo : /\ cpView' = [cpView EXCEPT ![p] = Captured(disk[p])]
                          /\ todo' = todo \ {p}
    BY <1>8 DEF Ingest
  <2>2. pc = "capturing" /\ UNCHANGED <<cp, wh, whView, pc, renames, split>>
    BY <1>8 DEF Ingest, durable
  <2>3. \A q \in Paths : /\ q # p => cpView'[q] = cpView[q]
                         /\ q = p => cpView'[q].status = "PENDING"
    BY <2>1 DEF VaultInv, RegistryType, Captured
  <2>4. ASSUME NEW q \in Paths, cpView'[q].status = "SYNCED"
        PROVE  HasEntry(q)'
    <3>1. cpView'[q] = cpView[q] /\ HasEntry(q)
      BY <2>2, <2>3, <2>4 DEF SyncedEntries
    <3>2. QED
      BY <2>2, <3>1 DEF HasEntry, EntryOf, Trusted
  <2>5. SyncedEntries'
    BY <2>4 DEF SyncedEntries
  <2>6. Steady'
    BY <2>1, <2>2, <2>3 DEF Steady, SameHash, LiveIn
  <2>7. QED
    BY <2>2, <2>5, <2>6 DEF Agreed, SameHash, LiveIn, Trusted
<1>9. CASE MigrateIdentity
  BY <1>9, SyncedKeptByMigration
<1>10. CASE LoadBronze
  BY <1>10, SyncedKeptByLoad
<1>11. CASE CommitDuckDB
  <2>1. pc = "loaded" /\ pc' = "half" /\ wh' = whView
        /\ UNCHANGED <<cp, cpView, whView, renames, todo, split>>
    BY <1>11 DEF CommitDuckDB, Goto, views, memory
  <2>2. SyncedEntries'
    BY <2>1 DEF SyncedEntries, HasEntry, EntryOf, Trusted
  <2>3. Steady'
    BY <2>1 DEF Steady, SameHash, LiveIn
  <2>4. QED
    BY <2>1, <2>2, <2>3 DEF Agreed
<1>12. CASE CommitSQLite
  <2>1. pc = "half" /\ pc' = "done" /\ cp' = cpView
        /\ UNCHANGED <<wh, cpView, whView, renames, todo, split>>
    BY <1>12 DEF CommitSQLite, Goto, views, memory
  <2>2. SyncedEntries'
    BY <2>1 DEF SyncedEntries, HasEntry, EntryOf, Trusted
  <2>3. ASSUME NEW p \in Paths, LiveIn(cp', p), Trusted(p)
        PROVE  SameHash(whView, p)' /\ SameHash(wh, p)'
    <3>1. cpView[p].status = "SYNCED"
      BY <2>1, <2>3 DEF SyncInv, LiveIn
    <3>2. EntryOf(p, p) /\ wh = whView
      BY <1>v, <2>1, <3>1 DEF SyncedEntries, HasEntry
    <3>3. QED
      BY <2>1, <2>3, <3>2 DEF EntryOf, SameHash
  <2>4. Steady'
    BY <1>v, <2>1, <2>3 DEF Steady, Trusted, LiveIn
  <2>5. Agreed'
    BY <2>1, <2>3 DEF Agreed, Trusted, LiveIn
  <2>6. QED
    BY <2>2, <2>4, <2>5
<1>13. CASE EndRun
  BY <1>13, SyncedKeptByEnd
<1>14. CASE UNCHANGED vars
  <2>1. UNCHANGED <<cp, wh, cpView, whView, renames, todo, split, pc>>
    BY <1>14 DEF vars, durable, views, memory
  <2>2. QED
    BY <1>s, <2>1
<1>15. QED
  BY <1>1, <1>2, <1>3, <1>4, <1>5, <1>6, <1>7, <1>8, <1>9, <1>10, <1>11, <1>12, <1>13,
     <1>14 DEF Next, User, Heal, Run

\* A file without an entry has nothing to disagree with.
LEMMA SyncedInit == Init => SyncedInv
<1> SUFFICES ASSUME Init PROVE SyncedInv
  OBVIOUS
<1>1. pc = "idle" /\ \A p \in Paths : ~ LiveIn(cp, p)
  BY DEF Init, Unregistered, LiveIn
<1>2. QED
  BY <1>1 DEF SyncedInv, SyncedEntries, Steady, Agreed

\* The warehouse stays exact through every load, rename, heal and rollback.
THEOREM StoreInvariant ==
    ASSUME UniqueNames
    PROVE  Spec => []StoreInv
<1>1. VaultInv /\ StoreInv /\ [Next]_vars => StoreInv'
  BY StoreStep
<1>2. QED
  BY <1>1, StoreInit, VaultInvariant, PTL DEF Spec

\* The other tables of a ledger stay those of one backup through all of it, under
\* a name the registry knows.
LEMMA LedgerInvariant ==
    ASSUME UniqueNames
    PROVE  Spec => []LedgerInv
<1>1. VaultInv /\ StoreInv /\ LedgerInv /\ [Next]_vars => LedgerInv'
  BY LedgerStep
<1>2. QED
  BY <1>1, LedgerInit, VaultInvariant, StoreInvariant, PTL DEF Spec

\* What a run does to the files it found, in every behaviour.
LEMMA SyncInvariant == Spec => []SyncInv
<1>1. Init => SyncInv
  BY DEF Init, SyncInv
<1>2. VaultInv /\ SyncInv /\ [Next]_vars => SyncInv'
  BY SyncInvStep
<1>3. QED
  BY <1>1, <1>2, VaultInvariant, PTL DEF Spec

\* The entries of what is SYNCED, in every behaviour.
LEMMA SyncedInvariant ==
    ASSUME UniqueNames
    PROVE  Spec => []SyncedInv
<1>1. VaultInv /\ SyncInv /\ StoreInv /\ SyncedInv /\ [Next]_vars => SyncedInv'
  BY SyncedStep
<1>2. QED
  BY <1>1, SyncedInit, SyncInvariant, VaultInvariant, StoreInvariant, PTL DEF Spec

\* In folders with unique names, what the control plane calls SYNCED is in the
\* warehouse after every success, with its digest and its rows, unless a split
\* run had changed a category whose digests are compared.
THEOREM SyncedIsLoaded ==
    ASSUME UniqueNames
    PROVE  Spec => []SyncedIsLoadedUnlessSplit
<1>1. ASSUME SyncInv, StoreInv, LedgerInv, SyncedInv
      PROVE  SyncedIsLoadedUnlessSplit
  <2> SUFFICES ASSUME pc = "done", NEW p \in Paths, cp[p].status = "SYNCED", Trusted(p)
               PROVE  LoadedFor(p)
    BY DEF SyncedIsLoadedUnlessSplit, Trusted
  <2>1. cp = cpView /\ wh = whView /\ renames = {} /\ Exact(wh)
    BY <1>1 DEF SyncInv, StoreInv, Placement
  <2>2. EntryOf(p, p)
    BY <1>1, <2>1 DEF SyncedInv, SyncedEntries, HasEntry
  <2>3. wh.meta[p] # None /\ wh.meta[p].hash = cp[p].hash
    BY <2>1, <2>2 DEF EntryOf
  <2>4. ASSUME cp[p].hash \notin Blank, NEW t \in TablesOf(Cat[p])
        PROVE  \E b \in wh.bronze :
                  /\ b.table = t /\ b.content = cp[p].hash
                  /\ b.name = IF t = LastTable[Cat[p]] THEN Name[p] ELSE Name[b.from]
    <3>1. CASE t = LastTable[Cat[p]]
      BY <2>1, <2>3, <2>4, <3>1 DEF Exact, IsRowOf
    <3>2. CASE t # LastTable[Cat[p]]
      BY <1>1, <2>3, <2>4, <3>2 DEF LedgerInv, Whole
    <3>3. QED
      BY <3>1, <3>2
  <2>5. QED
    BY <2>3, <2>4 DEF LoadedFor
<1>2. QED
  BY <1>1, SyncInvariant, StoreInvariant, LedgerInvariant, SyncedInvariant, PTL

-----------------------------------------------------------------------------
(* The types of the whole state, and what Bronze holds. *)

\* A load keeps the type of the warehouse.
LEMMA LoadedType ==
    ASSUME VaultInv, whView \in Warehouse, PayloadsAtHand(Pending)
    PROVE  [bronze |-> LoadedRows(Pending), meta |-> LoadedMeta(Pending)] \in Warehouse
<1>1. \A p \in Pending : p \in Paths /\ cpView[p].payload \in Contents /\ cpView[p].hash \in Bytes
  BY DEF Pending, PayloadsAtHand, VaultInv, RegistryType, Entry, Bytes
<1>2. whView.bronze \subseteq BronzeRow /\ whView.meta \in [Paths -> Meta \cup {None}]
  BY DEF Warehouse
<1>3. ASSUME NEW p \in Pending
      PROVE  Extracted(p) \subseteq BronzeRow
  <2>1. \A t \in TablesOf(Cat[p]) :
          [table |-> t, name |-> Name[p], from |-> p, content |-> cpView[p].payload]
            \in BronzeRow
    BY <1>1, EvidenceAssumption DEF BronzeRow, TablesOf
  <2>2. QED
    BY <2>1 DEF Extracted
<1>4. LoadedRows(Pending) \subseteq BronzeRow
  BY <1>2, <1>3 DEF LoadedRows, ExtractedAll
<1>5. \A p \in Pending : RegisteredFile(p, Pending) \in Meta
  BY <1>1 DEF RegisteredFile, Meta, Counted
<1>6. LoadedMeta(Pending) \in [Paths -> Meta \cup {None}]
  BY <1>2, <1>5 DEF LoadedMeta
<1>7. QED
  BY <1>4, <1>6 DEF Warehouse

\* A rename keeps the type of the warehouse.
LEMMA MigratedType ==
    ASSUME whView \in Warehouse, NEW old \in Paths, NEW new \in Paths
    PROVE  [bronze |-> MigratedRows(old, new), meta |-> MigratedMeta(old, new)] \in Warehouse
<1>1. whView.bronze \subseteq BronzeRow /\ whView.meta \in [Paths -> Meta \cup {None}]
  BY DEF Warehouse
<1>2. \A b \in BronzeRow : [b EXCEPT !.name = Name[new]] \in BronzeRow
  BY EvidenceAssumption DEF BronzeRow
<1>3. MigratedRows(old, new) \subseteq BronzeRow
  BY <1>1, <1>2 DEF MigratedRows
<1>4. MigratedMeta(old, new) \in [Paths -> Meta \cup {None}]
  BY <1>1 DEF MigratedMeta
<1>5. QED
  BY <1>3, <1>4 DEF Warehouse

\* The type of the stores.
LEMMA WarehouseType ==
    VaultInv /\ wh \in Warehouse /\ whView \in Warehouse /\ [Next]_vars
      => wh' \in Warehouse /\ whView' \in Warehouse
<1> SUFFICES ASSUME VaultInv, wh \in Warehouse, whView \in Warehouse, [Next]_vars
             PROVE  wh' \in Warehouse /\ whView' \in Warehouse
  OBVIOUS
<1>1. CASE LoseWarehouse
  BY <1>1, EmptyExact DEF LoseWarehouse
<1>2. CASE PruneDangling
  BY <1>2 DEF PruneDangling, Pruned, Warehouse
<1>3. CASE MigrateIdentity
  BY <1>3, MigratedType DEF MigrateIdentity, durable
<1>4. CASE LoadBronze
  BY <1>4, LoadedType DEF LoadBronze, durable
<1>5. CASE CommitDuckDB \/ CommitSQLite \/ EndRun \/ UNCHANGED vars
  BY <1>5 DEF CommitDuckDB, CommitSQLite, EndRun, durable, views, vars
<1>6. CASE EditFile \/ MoveFile \/ StartHealing \/ PruningDone \/ Requeue \/ BeginRun
           \/ Discover \/ SkipDiscovery \/ SyncWithDisk \/ Ingest \/ AllCaptured
  BY <1>6 DEF EditFile, MoveFile, Edited, StartHealing, PruningDone, Requeue, BeginRun,
     Discover, SkipDiscovery, SyncWithDisk, Ingest, AllCaptured, durable, views
<1>7. QED
  BY <1>1, <1>2, <1>3, <1>4, <1>5, <1>6 DEF Next, User, Heal, Run

\* The type of what the run remembers, and of the counters.
MemoryType ==
    /\ scanned \in 0..MaxEdits \cup {None}
    /\ renames \subseteq Paths \X Paths
    /\ inspected \subseteq Tables \X Names
    /\ runs \in 0..MaxRuns
    /\ edits \in 0..MaxEdits
    /\ split \subseteq Cats

\* Every step preserves it.
LEMMA MemoryTypeStep ==
    VaultInv /\ wh \in Warehouse /\ MemoryType /\ [Next]_vars => MemoryType'
<1> SUFFICES ASSUME VaultInv, wh \in Warehouse, MemoryType, [Next]_vars
             PROVE  MemoryType'
  OBVIOUS
<1> USE EvidenceAssumption DEF MemoryType, durable, views, memory
<1>1. CASE EditFile \/ MoveFile \/ LoseWarehouse
  <2>1. edits < MaxEdits /\ edits' = edits + 1
        /\ UNCHANGED <<scanned, renames, inspected, runs, split>>
    BY <1>1 DEF EditFile, MoveFile, Edited, LoseWarehouse
  <2>2. edits' \in 0..MaxEdits
    BY <2>1
  <2>3. QED
    BY <2>1, <2>2
<1>2. CASE StartHealing
  <2>1. runs < MaxRuns /\ runs' = runs + 1
        /\ UNCHANGED <<scanned, renames, edits, split>>
        /\ inspected' = {<<b.table, b.name>> : b \in wh.bronze}
    BY <1>2 DEF StartHealing
  <2>2. runs' \in 0..MaxRuns
    BY <2>1
  <2>3. inspected' \subseteq Tables \X Names
    BY <2>1 DEF Warehouse, BronzeRow
  <2>4. QED
    BY <2>1, <2>2, <2>3
<1>3. CASE Discover
  BY <1>3 DEF Discover
<1>4. CASE SyncWithDisk
  <2>1. renames' \subseteq Paths \X Paths
    BY <1>4, SyncEffects
  <2>2. QED
    BY <1>4, <2>1 DEF SyncWithDisk
<1>5. CASE MigrateIdentity
  BY <1>5 DEF MigrateIdentity
<1>6. CASE EndRun
  <2>1. {Cat[p] : p \in {q \in Paths : cpView[q] # cp[q]}} \subseteq Cats
    OBVIOUS
  <2>2. split' \subseteq Cats
    BY <1>6, <2>1 DEF EndRun
  <2>3. QED
    BY <1>6, <2>2 DEF EndRun
<1>7. CASE PruneDangling \/ PruningDone \/ Requeue \/ BeginRun \/ SkipDiscovery \/ Ingest
           \/ AllCaptured \/ LoadBronze \/ CommitDuckDB \/ CommitSQLite \/ UNCHANGED vars
  BY <1>7 DEF PruneDangling, PruningDone, Requeue, BeginRun, SkipDiscovery, Ingest,
     AllCaptured, LoadBronze, CommitDuckDB, CommitSQLite, vars
<1>8. QED
  BY <1>1, <1>2, <1>3, <1>4, <1>5, <1>6, <1>7 DEF Next, User, Heal, Run

\* Every reachable state has its type, unique names or not.
THEOREM TypeCorrect == Spec => []TypeOK
<1> DEFINE Typed == wh \in Warehouse /\ whView \in Warehouse /\ MemoryType
<1>1. Init => Typed
  <2> SUFFICES ASSUME Init PROVE Typed
    OBVIOUS
  <2>1. wh \in Warehouse /\ whView \in Warehouse
    BY EmptyExact DEF Init
  <2>2. MemoryType
    BY EvidenceAssumption DEF Init, MemoryType
  <2>3. QED
    BY <2>1, <2>2
<1>2. VaultInv /\ Typed /\ [Next]_vars => Typed'
  BY WarehouseType, MemoryTypeStep
<1>3. VaultInv /\ Typed => TypeOK
  BY DEF VaultInv, RegistryType, MemoryType, TypeOK
<1>4. QED
  BY <1>1, <1>2, <1>3, VaultInvariant, PTL DEF Spec

\* In folders with unique names Bronze holds each file once, a replaced table one
\* file only, and after a success nothing but files the control plane knows,
\* whatever sequence of loads, renames, heals and rollbacks led there.
THEOREM BronzeExact ==
    ASSUME UniqueNames
    PROVE  Spec => []BronzeIsExact
<1>1. ASSUME TypeOK, StoreInv, LedgerInv
      PROVE  OneVersionPerFile
  <2> SUFFICES ASSUME NEW a \in wh.bronze, NEW b \in wh.bronze,
                      TableCat[a.table] = TableCat[b.table],
                      a.name = b.name \/ TableCat[a.table] \in FullReplace
               PROVE  a.content = b.content
    BY DEF OneVersionPerFile
  <2>1. CASE TableCat[a.table] \in FullReplace
    BY <1>1, <2>1 DEF LedgerInv, Whole
  <2>2. CASE TableCat[a.table] \notin FullReplace
    <3>1. Exact(wh) /\ a \in BronzeRow /\ b \in BronzeRow
      BY <1>1 DEF StoreInv, Warehouse
    <3>2. ~ Far(a) /\ ~ Far(b)
      BY <2>2, <3>1, FarIsReplaced DEF BronzeRow
    <3>3. PICK p \in Paths : IsRowOf(a, p) /\ wh.meta[p] # None /\ a.content = wh.meta[p].hash
      BY <3>1, <3>2 DEF Exact
    <3>4. PICK q \in Paths : IsRowOf(b, q) /\ wh.meta[q] # None /\ b.content = wh.meta[q].hash
      BY <3>1, <3>2 DEF Exact
    <3>5. TableCat[a.table] = Cat[p] /\ TableCat[b.table] = Cat[q]
          /\ a.name = Name[p] /\ b.name = Name[q]
      BY <3>3, <3>4, RowHasOneFile DEF IsRowOf
    <3>6. p = q
      BY <2>2, <3>5 DEF UniqueNames
    <3>7. QED
      BY <3>3, <3>4, <3>6
  <2>3. QED
    BY <2>1, <2>2
<1>2. ASSUME TypeOK, SyncInv, StoreInv, LedgerInv, SyncedInv, Asked
      PROVE  NoOrphanRows
  <2> SUFFICES ASSUME pc = "done", NEW b \in wh.bronze, scanned # None \/ ~ Far(b)
               PROVE  \E p \in Paths : /\ Registered(cp, p)
                                      /\ Cat[p] = TableCat[b.table] /\ Name[p] = b.name
    BY DEF NoOrphanRows, Far
  <2>1. Exact(wh) /\ wh = whView /\ cp = cpView /\ renames = {} /\ b \in BronzeRow
    BY <1>2 DEF SyncInv, StoreInv, Placement, Warehouse
  <2>2. CASE ~ Far(b)
    <3>1. PICK p \in Paths : IsRowOf(b, p) /\ wh.meta[p] # None
      BY <2>1, <2>2 DEF Exact
    <3>2. Registered(cp, p)
      BY <1>2, <2>1, <3>1 DEF StoreInv, EntriesKnown
    <3>3. QED
      BY <3>1, <3>2, RowHasOneFile DEF IsRowOf
  <2>3. CASE Far(b) /\ scanned # None
    <3>1. PICK q \in found : Cat[q] = TableCat[b.table]
      BY <1>2, <2>1, <2>3, FarIsReplaced DEF Asked, BronzeRow
    <3>2. q \in Paths /\ cpView[q].status = "SYNCED"
      BY <1>2, <2>3, <3>1 DEF TypeOK, SyncInv
    <3>3. wh.meta[q] # None
      BY <1>2, <2>1, <3>2 DEF SyncedInv, SyncedEntries, HasEntry, EntryOf
    <3>4. Registered(cp, q)
      BY <2>1, <3>2 DEF Registered
    <3>5. QED
      BY <1>2, <2>3, <3>1, <3>2, <3>3, <3>4 DEF LedgerInv, Known
  <2>4. QED
    BY <2>2, <2>3
<1>3. Init => Asked
  BY DEF Init, Asked
<1>4. TypeOK /\ OneVersionPerFile /\ NoOrphanRows => BronzeIsExact
  BY DEF BronzeIsExact
<1>5. QED
  BY <1>1, <1>2, <1>3, <1>4, AskedStep, TypeCorrect, SyncInvariant, StoreInvariant,
     LedgerInvariant, SyncedInvariant, PTL DEF Spec

-----------------------------------------------------------------------------
(* What changed in the folder is seen. *)

\* As long as nobody touched the folder since the listing, each file that was
\* found and whose digest is compared is registered with its bytes, or still to
\* be captured; an edit makes the listing older than the folder.
DriftInv ==
    /\ edits \in Nat
    /\ scanned # None => scanned \in Nat /\ scanned <= edits
    /\ pc \in {"capturing", "migrating", "loaded", "half", "done"} /\ scanned = edits =>
          \A p \in found :
              Cat[p] \in ContentDrift => p \in todo \/ cpView[p].hash = disk[p]

\* Every step preserves it.
LEMMA DriftInvStep == VaultInv /\ SyncInv /\ DriftInv /\ [Next]_vars => DriftInv'
<1> SUFFICES ASSUME VaultInv, SyncInv, DriftInv, [Next]_vars PROVE DriftInv'
  OBVIOUS
<1> USE DEF DriftInv
<1>n. None \notin Nat
  BY EvidenceAssumption
<1>1. CASE EditFile \/ MoveFile \/ LoseWarehouse
  <2>1. edits' = edits + 1 /\ scanned' = scanned
    BY <1>1 DEF EditFile, MoveFile, Edited, LoseWarehouse, memory
  <2>2. scanned' # edits' /\ (scanned' # None => scanned' \in Nat /\ scanned' <= edits')
        /\ edits' \in Nat
    BY <1>n, <2>1
  <2>3. QED
    BY <2>2
<1>2. CASE StartHealing \/ PruneDangling \/ PruningDone \/ Requeue \/ BeginRun
  <2>1. UNCHANGED <<scanned, edits>> /\ pc' \in {"pruning", "requeueing", "begun"}
    BY <1>2 DEF StartHealing, PruneDangling, PruningDone, Requeue, BeginRun, Goto, memory
  <2>2. QED
    BY <2>1
<1>3. CASE Discover
  <2>1. scanned' = edits /\ edits' = edits /\ pc' = "discovered"
    BY <1>3 DEF Discover, Goto
  <2>2. QED
    BY <2>1
<1>4. CASE SkipDiscovery
  <2>1. scanned = None /\ UNCHANGED <<scanned, edits>>
    BY <1>4 DEF SkipDiscovery, memory, SyncInv
  <2>2. QED
    BY <1>n, <2>1
<1>5. CASE SyncWithDisk
  <2>1. UNCHANGED <<scanned, edits, found, disk>>
    BY <1>5 DEF SyncWithDisk
  <2>2. ASSUME NEW p \in found, Cat[p] \in ContentDrift
        PROVE  p \in todo' \/ cpView'[p].hash = disk[p]
    <3>1. CASE \E old \in Paths : <<old, p>> \in renames'
      BY <1>5, <3>1, SyncEffects DEF Renames
    <3>2. CASE ~ IsNew(p) /\ ~ IsChanged(p) /\ Remains(p)
      BY <2>2, <3>2 DEF IsChanged, Remains
    <3>3. QED
      BY <1>5, <3>1, <3>2, SyncEffects
  <2>3. QED
    BY <2>1, <2>2
<1>6. CASE Ingest
  <2>1. PICK p \in todo : /\ cpView' = [cpView EXCEPT ![p] = Captured(disk[p])]
                          /\ todo' = todo \ {p}
    BY <1>6 DEF Ingest
  <2>2. pc = "capturing" /\ UNCHANGED <<pc, scanned, edits, found, disk>>
    BY <1>6 DEF Ingest
  <2>3. \A q \in Paths : /\ q # p => cpView'[q] = cpView[q] /\ (q \in todo' <=> q \in todo)
                         /\ q = p => cpView'[q].hash = disk[q]
    BY <2>1 DEF VaultInv, RegistryType, Captured
  <2>4. found \subseteq Paths
    BY DEF VaultInv, RegistryType
  <2>5. QED
    BY <2>2, <2>3, <2>4
<1>7. CASE AllCaptured \/ MigrateIdentity \/ CommitDuckDB \/ CommitSQLite
  <2>1. /\ UNCHANGED <<scanned, edits, found, disk, cpView, todo>>
        /\ pc \in {"capturing", "migrating", "loaded", "half", "done"}
    BY <1>7 DEF AllCaptured, MigrateIdentity, CommitDuckDB, CommitSQLite, durable, views, memory
  <2>2. QED
    BY <2>1
<1>8. CASE LoadBronze
  <2>1. /\ UNCHANGED <<scanned, edits, found, disk, todo>> /\ pc = "migrating"
        /\ cpView' = [p \in Paths |->
              IF p \in Pending THEN MarkSynced(cpView[p]) ELSE cpView[p]]
    BY <1>8 DEF LoadBronze, memory
  <2>2. \A p \in Paths : cpView'[p].hash = cpView[p].hash
    BY <2>1 DEF MarkSynced, VaultInv, RegistryType, Entry
  <2>3. found \subseteq Paths
    BY DEF VaultInv, RegistryType
  <2>4. QED
    BY <2>1, <2>2, <2>3
<1>9. CASE EndRun
  <2>1. scanned' = None /\ edits' = edits /\ pc' = "idle"
    BY <1>9 DEF EndRun, Goto
  <2>2. QED
    BY <2>1
<1>10. CASE UNCHANGED vars
  BY <1>10 DEF vars, views, memory
<1>11. QED
  BY <1>1, <1>2, <1>3, <1>4, <1>5, <1>6, <1>7, <1>8, <1>9, <1>10 DEF Next, User, Heal, Run

\* When a run has succeeded and nobody touched the folder since the listing, the
\* registry holds the bytes that lie in the folder, for every file whose digest
\* is compared.
THEOREM DriftIsCaught == Spec => []DriftCaught
<1>1. Init => SyncInv /\ DriftInv
  BY DEF Init, SyncInv, DriftInv
<1>2. VaultInv /\ SyncInv /\ [Next]_vars => SyncInv'
  BY SyncInvStep
<1>3. VaultInv /\ SyncInv /\ DriftInv /\ [Next]_vars => DriftInv'
  BY DriftInvStep
<1>4. VaultInv /\ SyncInv /\ DriftInv => DriftCaught
  BY DEF VaultInv, SyncInv, DriftInv, DriftCaught
<1>5. QED
  BY <1>1, <1>2, <1>3, <1>4, VaultInvariant, PTL DEF Spec

=============================================================================
