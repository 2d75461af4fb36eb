----------------------------- MODULE ModelData ------------------------------
(***************************************************************************)
(* core/downloads.py: update_model_settings, which fetches the model data   *)
(* of the upstream project and replaces the local files in one transaction  *)
(* (stage, back up, rename one by one, roll back), and core/name_mapper.py: *)
(* the names a user of an older version had added to a file are moved, once *)
(* and in the same transaction, into an overlay beside it, which            *)
(* core/model_registry.py archives later.  Locks are those of one process   *)
(* (core/json_store.py); it may be killed at any step and start anew.       *)
(* A file is {content}, or {} where there is none; a content is a set of    *)
(* keys.                                                                    *)
(***************************************************************************)
EXTENDS Naturals, Sequences, FiniteSets

CONSTANTS Refreshers,   \* threads that call update_model_settings
          Archiver,     \* the thread of remember_presentation
          Sources,      \* _MODEL_DATA_URLS, by what they are the source of
          Mappers,      \* those of them that are name mappers
          LockOrder,    \* the paths, sorted
          Keys,         \* names
          Upstream,     \* the contents that upstream serves
          MaxRefreshes, MaxArchives, MaxFaults, MaxCrashes \* bounds

Data(s)    == <<s, "data">>
Overlay(m) == <<m, "overlay">>
Paths == {Data(s) : s \in Sources} \cup {Overlay(m) : m \in Mappers}

None == "none"

ASSUME ModelDataAssumption ==
  /\ Archiver \notin Refreshers
  /\ Mappers \subseteq Sources /\ None \notin Refreshers \cup {Archiver}
  /\ LockOrder \in Seq(Paths) /\ Len(LockOrder) = Cardinality(Paths)
  /\ Paths = {LockOrder[i] : i \in DOMAIN LockOrder}
  /\ Upstream \subseteq SUBSET Keys
  /\ {MaxRefreshes, MaxArchives, MaxFaults, MaxCrashes} \subseteq Nat

Files == {{}} \cup {{c} : c \in SUBSET Keys}

VARIABLES disk,     \* the files, by path
          archive,  \* "<overlay>.legacy.json", by mapper
          owner,    \* the holders of the path locks
          tx,       \* the refreshes
          arch,     \* the archival: where it is, and its mappers left
          refreshes, archives, faults, crashes,
          before,   \* ghost: the data files at the beginning
          first,    \* ghost: the payload that moved the local names, {} before
          torn      \* ghost: the mappers whose mirror was replaced without their overlay,
                    \* by a commit killed half-way or a rollback that failed

vars == <<disk, archive, owner, tx, arch, refreshes, archives, faults, crashes,
          before, first, torn>>
ghosts == <<before, first, torn>>

Idle == [pc |-> "idle", fetched |-> None, staged |-> {}, done |-> {}, new |-> None,
         was |-> None, ok |-> FALSE, spoilt |-> {}]
Rest == [pc |-> "idle", at |-> None, left |-> {}]

Content(file) == UNION file   \* _load_object

Init ==
  /\ disk \in [Paths -> Files]
  /\ \A s \in Sources : disk[Data(s)] # {} => Content(disk[Data(s)]) \in
                            IF s \in Mappers THEN SUBSET Keys ELSE Upstream
  /\ \A m \in Mappers : disk[Overlay(m)] = {}
  /\ archive = [m \in Mappers |-> {}]
  /\ owner = [p \in Paths |-> None]
  /\ tx = [r \in Refreshers |-> Idle] /\ arch = Rest
  /\ refreshes = 0 /\ archives = 0 /\ faults = 0 /\ crashes = 0
  /\ before = [s \in Sources |-> disk[Data(s)]]
  /\ first = [m \in Mappers |-> {}] /\ torn = {}

----------------------------------------------------------------------------
(* The transaction.                                                         *)

At(r, pc) == tx[r].pc = pc
Holds(t)  == {p \in Paths : owner[p] = t}
Released(t) == [p \in Paths |-> IF owner[p] = t THEN None ELSE owner[p]]

\* A mutant: only the overlay tells that the local names were moved.
OverlayOnly(m) == disk[Overlay(m)] # {}

\* The overlay and its archive are the mark that the local names were moved.
Marked(m) == disk[Overlay(m)] # {} \/ archive[m] # {}

\* plan_local_overlay_migration
LocalOnly(m, payload) == Content(disk[Data(m)]) \ payload

\* What is to be written: the payloads, and the overlays of the mappers not yet moved.
Writes(r) ==
  [p \in Paths |->
     IF p[2] = "data" THEN {tx[r].fetched[p[1]]}
     ELSE IF Marked(p[1]) THEN disk[p] ELSE {LocalOnly(p[1], tx[r].fetched[p[1]])}]

\* Files that match already are passed over.
ToWrite(new) == {p \in Paths : new[p] # disk[p]}

Fetch(r) ==
  /\ At(r, "idle") /\ refreshes < MaxRefreshes
  /\ refreshes' = refreshes + 1
  /\ \E f \in [Sources -> Upstream] : tx' = [tx EXCEPT ![r] = [Idle EXCEPT !.pc = "lock",
                                                                             !.fetched = f]]
  /\ UNCHANGED <<disk, archive, owner, arch, archives, faults, crashes, ghosts>>

\* The paths whose locks the transaction takes.
ToLock(r) == Paths

\* One lock after the other, in the order of the paths.
Lock(r) ==
  /\ At(r, "lock")
  /\ \E p \in ToLock(r) :
       /\ owner[p] = None
       /\ \E i \in DOMAIN LockOrder :
            /\ LockOrder[i] = p
            /\ \A j \in 1..(i - 1) : LockOrder[j] \in ToLock(r) => owner[LockOrder[j]] = r
       /\ owner' = [owner EXCEPT ![p] = r]
  /\ UNCHANGED <<disk, archive, tx, arch, refreshes, archives, faults, crashes, ghosts>>

\* prepare_locked, the temporary files and the backups.
Stage(r) ==
  /\ At(r, "lock") /\ ToLock(r) \subseteq Holds(r)
  /\ LET new == Writes(r) IN
       tx' = [tx EXCEPT ![r].pc = IF ToWrite(new) = {} THEN "release" ELSE "commit",
                        ![r].staged = ToWrite(new), ![r].new = new, ![r].was = disk,
                        ![r].ok = TRUE]
  /\ UNCHANGED <<disk, archive, owner, arch, refreshes, archives, faults, crashes, ghosts>>

StageFails(r) ==
  /\ At(r, "lock") /\ ToLock(r) \subseteq Holds(r) /\ faults < MaxFaults
  /\ faults' = faults + 1
  /\ tx' = [tx EXCEPT ![r].pc = "release", ![r].new = disk, ![r].was = disk]
  /\ UNCHANGED <<disk, archive, owner, arch, refreshes, archives, crashes, ghosts>>

Datas == {Data(s) : s \in Sources}

\* The mirrors and hash maps are renamed before the overlays, and put back after them.
MayCommit(r, p)  == p \in tx[r].staged /\ (p \notin Datas => tx[r].staged \cap Datas = {})
MayRestore(r, p) == p \in tx[r].done /\ (p \in Datas => tx[r].done \subseteq Datas)

\* os.replace(tmp_path, path)
Commit(r) ==
  /\ At(r, "commit")
  /\ \E p \in Paths :
       /\ MayCommit(r, p)
       /\ disk' = [disk EXCEPT ![p] = tx[r].new[p]]
       /\ tx' = [tx EXCEPT ![r].staged = @ \ {p}, ![r].done = @ \cup {p},
                           ![r].pc = IF tx[r].staged = {p} THEN "release" ELSE "commit"]
       /\ first' = IF p \in Datas THEN first ELSE [first EXCEPT ![p[1]] = tx[r].fetched[p[1]]]
  /\ UNCHANGED <<archive, owner, arch, refreshes, archives, faults, crashes, before, torn>>

\* It raises: what was renamed is put back, the last first.
CommitFails(r) ==
  /\ At(r, "commit") /\ faults < MaxFaults
  /\ faults' = faults + 1
  /\ tx' = [tx EXCEPT ![r].ok = FALSE,
                      ![r].pc = IF tx[r].done = {} THEN "release" ELSE "rollback"]
  /\ UNCHANGED <<disk, archive, owner, arch, refreshes, archives, crashes, ghosts>>

\* A mutant: a file that was not there before stays.
RestoreBackup(r, p) == IF tx[r].was[p] = {} THEN disk[p] ELSE tx[r].was[p]

\* The backup, or no file when there was none.
Restored(r, p) == tx[r].was[p]

Rollback(r) ==
  /\ At(r, "rollback")
  /\ \E p \in Paths :
       /\ MayRestore(r, p)
       /\ disk' = [disk EXCEPT ![p] = Restored(r, p)]
       /\ tx' = [tx EXCEPT ![r].done = @ \ {p},
                           ![r].pc = IF tx[r].done = {p} THEN "release" ELSE "rollback"]
       /\ first' = IF p \in Datas THEN first ELSE [first EXCEPT ![p[1]] = {}]
  /\ UNCHANGED <<archive, owner, arch, refreshes, archives, faults, crashes, before, torn>>

\* An OSError is passed over; the backup is then unlinked with the others.
RollbackFails(r) ==
  /\ At(r, "rollback") /\ faults < MaxFaults
  /\ faults' = faults + 1
  /\ \E p \in Paths :
       /\ MayRestore(r, p)
       /\ tx' = [tx EXCEPT ![r].done = @ \ {p}, ![r].spoilt = @ \cup {p},
                           ![r].pc = IF tx[r].done = {p} THEN "release" ELSE "rollback"]
       /\ torn' = torn \cup
            {m \in Mappers : /\ Data(m) = p /\ Overlay(m) \notin tx[r].spoilt
                             /\ tx[r].new[Overlay(m)] # tx[r].was[Overlay(m)]}
  /\ UNCHANGED <<disk, archive, owner, arch, refreshes, archives, crashes, before, first>>

\* The end of the with statement: the locks are released (which order is of no effect).
Release(r) ==
  /\ At(r, "release")
  /\ owner' = Released(r)
  /\ tx' = [tx EXCEPT ![r] = Idle]
  /\ UNCHANGED <<disk, archive, arch, refreshes, archives, faults, crashes, ghosts>>

----------------------------------------------------------------------------
(* The archival of the overlays.                                            *)

Remember ==
  /\ arch.pc = "idle" /\ archives < MaxArchives
  /\ archives' = archives + 1
  /\ arch' = [Rest EXCEPT !.pc = "lock", !.left = Mappers]
  /\ UNCHANGED <<disk, archive, owner, tx, refreshes, faults, crashes, ghosts>>

\* One mapper after the other.
ArchiveLock ==
  /\ arch.pc = "lock"
  /\ \E m \in arch.left :
       /\ owner[Overlay(m)] = None
       /\ owner' = [owner EXCEPT ![Overlay(m)] = Archiver]
       /\ arch' = [pc |-> "link", at |-> m, left |-> arch.left \ {m}]
  /\ UNCHANGED <<disk, archive, tx, refreshes, archives, faults, crashes, ghosts>>

NextArchived ==
  [arch EXCEPT !.pc = IF arch.left = {} THEN "idle" ELSE "lock", !.at = None]

\* os.link: it never replaces an archive.
Link ==
  /\ arch.pc = "link"
  /\ disk[Overlay(arch.at)] # {} /\ archive[arch.at] = {}
  /\ archive' = [archive EXCEPT ![arch.at] = disk[Overlay(arch.at)]]
  /\ arch' = [arch EXCEPT !.pc = "unlink"]
  /\ UNCHANGED <<disk, owner, tx, refreshes, archives, faults, crashes, ghosts>>

\* No overlay, or an archive already: an overlay is then removed if it is empty.
NoLink ==
  /\ arch.pc = "link"
  /\ disk[Overlay(arch.at)] = {} \/ archive[arch.at] # {}
  /\ disk' = [disk EXCEPT ![Overlay(arch.at)] = @ \ {{}}]
  /\ owner' = Released(Archiver) /\ arch' = NextArchived
  /\ UNCHANGED <<archive, tx, refreshes, archives, faults, crashes, ghosts>>

Unlink ==
  /\ arch.pc = "unlink"
  /\ disk' = [disk EXCEPT ![Overlay(arch.at)] = {}]
  /\ owner' = Released(Archiver) /\ arch' = NextArchived
  /\ UNCHANGED <<archive, tx, refreshes, archives, faults, crashes, ghosts>>

\* An OSError of the link or of the unlink is warned of.
ArchiveFails ==
  /\ arch.pc \in {"link", "unlink"} /\ faults < MaxFaults
  /\ faults' = faults + 1
  /\ owner' = Released(Archiver) /\ arch' = NextArchived
  /\ UNCHANGED <<disk, archive, tx, refreshes, archives, crashes, ghosts>>

----------------------------------------------------------------------------
\* A new mirror is in place, and the overlay is not.
HalfMoved(r, m) ==
  /\ tx[r].pc \in {"commit", "rollback"}
  /\ Data(m) \in tx[r].done /\ Overlay(m) \notin tx[r].done \cup tx[r].spoilt
  /\ tx[r].new[Overlay(m)] # tx[r].was[Overlay(m)]

\* The process is killed; the threads of the next one hold no lock.
Crash ==
  /\ crashes < MaxCrashes
  /\ crashes' = crashes + 1
  /\ torn' = torn \cup {m \in Mappers : \E r \in Refreshers : HalfMoved(r, m)}
  /\ owner' = [p \in Paths |-> None]
  /\ tx' = [r \in Refreshers |-> Idle] /\ arch' = Rest
  /\ UNCHANGED <<disk, archive, refreshes, archives, faults, before, first>>

Finished ==
  /\ \A r \in Refreshers : At(r, "idle")
  /\ arch.pc = "idle"
  /\ UNCHANGED vars

Refresh(r) == \/ Fetch(r) \/ Lock(r) \/ Stage(r) \/ StageFails(r) \/ Commit(r)
              \/ CommitFails(r) \/ Rollback(r) \/ RollbackFails(r) \/ Release(r)
Archive == Remember \/ ArchiveLock \/ Link \/ NoLink \/ Unlink \/ ArchiveFails

Next == (\E r \in Refreshers : Refresh(r)) \/ Archive \/ Crash \/ Finished

Spec == Init /\ [][Next]_vars

----------------------------------------------------------------------------
(* Properties.                                                              *)

\* A refresh that succeeds leaves every file as upstream serves it and every mapper marked
\* as moved; one that fails, at whichever rename, leaves every file as it was, present
\* or absent, but those whose restoration failed too.
AllFilesOrNone ==
  \A r \in Refreshers :
    At(r, "release") =>
      IF tx[r].ok
      THEN /\ \A s \in Sources : disk[Data(s)] = {tx[r].fetched[s]}
           /\ \A m \in Mappers : Marked(m)
      ELSE \A p \in Paths \ tx[r].spoilt : disk[p] = tx[r].was[p]

\* The names a user had added survive refreshes, archivals, failures and kills in any order,
\* and are taken once: once a mapper is marked as moved, its overlay and archive hold
\* what its file held beside the payload that moved it, and never a name that only
\* upstream removed later; until then its file is as it was.  (Not so of a mapper whose
\* commit was killed, or not undone, between its mirror and its overlay.)
NamesKept ==
  (\A r \in Refreshers : ~At(r, "commit") /\ ~At(r, "rollback")) =>
    \A m \in Mappers \ torn :
      IF Marked(m)
      THEN Content(disk[Overlay(m)]) \cup Content(archive[m])
             = Content(before[m]) \ first[m]
      ELSE disk[Data(m)] = before[m]
=============================================================================
