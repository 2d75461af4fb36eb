-------------------------- MODULE ModelDataProofs ---------------------------
(* Theorems about ModelData, for every set of threads, files, names and         *)
(* payloads, every order of the locks, and any number of refreshes, archivals,  *)
(* failures and kills.                                                          *)
EXTENDS ModelData, TLAPS

\* A transaction that has all the locks.
Inside == {"commit", "rollback", "release"}

Images  == [Paths -> Files]
Fetches == [Sources -> Upstream]
Txs == [pc : {"idle", "lock"} \cup Inside, fetched : Fetches \cup {None},
        staged : SUBSET Paths, done : SUBSET Paths, new : Images \cup {None},
        was : Images \cup {None}, ok : BOOLEAN, spoilt : SUBSET Paths]

FileTypes == disk \in Images /\ archive \in [Mappers -> Files]
LockTypes == owner \in [Paths -> Refreshers \cup {Archiver, None}]
TxTypes   == /\ tx \in [Refreshers -> Txs]
             /\ \A r \in Refreshers : ~At(r, "idle") => tx[r].fetched \in Fetches
             /\ \A r \in Refreshers : tx[r].pc \in Inside =>
                                        tx[r].new \in Images /\ tx[r].was \in Images
ArchTypes == /\ arch \in [pc : {"idle", "lock", "link", "unlink"}, at : Mappers \cup {None},
                          left : SUBSET Mappers]
             /\ arch.pc \in {"link", "unlink"} => arch.at \in Mappers

TypeOK == FileTypes /\ LockTypes /\ TxTypes /\ ArchTypes

LEMMA PathFacts == /\ \A s \in Sources : Data(s) \in Paths
                   /\ \A m \in Mappers : Overlay(m) \in Paths
                   /\ \A s \in Sources, m \in Mappers : Data(s) # Overlay(m)
  BY DEF Paths, Data, Overlay

LEMMA OverlayPaths == \A p \in Paths : p \notin Datas =>
                        p[1] \in Mappers /\ p = Overlay(p[1])
  BY DEF Paths, Datas, Data, Overlay

LEMMA WritesTypes ==
  ASSUME FileTypes, NEW r \in Refreshers, tx[r].fetched \in Fetches
  PROVE  /\ Writes(r) \in Images
         /\ \A s \in Sources : Writes(r)[Data(s)] = {tx[r].fetched[s]}
         /\ \A m \in Mappers :
              Writes(r)[Overlay(m)] = IF Marked(m) THEN disk[Overlay(m)]
                                      ELSE {LocalOnly(m, tx[r].fetched[m])}
  <1>1. \A s \in Sources : {tx[r].fetched[s]} \in Files
    BY ModelDataAssumption DEF Fetches, Files
  <1>2. \A m \in Mappers, c \in SUBSET Keys : {LocalOnly(m, c)} \in Files
    <2> SUFFICES ASSUME NEW m \in Mappers, NEW c \in SUBSET Keys
                 PROVE  {LocalOnly(m, c)} \in Files
      OBVIOUS
    <2>1. disk[Data(m)] \in Files
      BY PathFacts, ModelDataAssumption DEF FileTypes, Images
    <2>2. UNION disk[Data(m)] \subseteq Keys
      BY <2>1 DEF Files
    <2> QED BY <2>2 DEF LocalOnly, Content, Files
  <1>3. \A p \in Paths : p[2] = "data" => p[1] \in Sources
    BY DEF Paths, Data, Overlay
  <1>4. \A p \in Paths : p[2] # "data" => p[1] \in Mappers
    BY DEF Paths, Data, Overlay
  <1>5. \A p \in Paths : Writes(r)[p] = IF p[2] = "data" THEN {tx[r].fetched[p[1]]}
                                        ELSE IF Marked(p[1]) THEN disk[p]
                                        ELSE {LocalOnly(p[1], tx[r].fetched[p[1]])}
    BY DEF Writes
  <1>6. \A p \in Paths : Writes(r)[p] \in Files
    <2> SUFFICES ASSUME NEW p \in Paths PROVE Writes(r)[p] \in Files
      OBVIOUS
    <2>1. CASE p[2] = "data"
      <3>1. p[1] \in Sources /\ Writes(r)[p] = {tx[r].fetched[p[1]]}
        BY <2>1, <1>3, <1>5
      <3> QED BY <3>1, <1>1
    <2>2. CASE p[2] # "data"
      <3>1. tx[r].fetched[p[1]] \in SUBSET Keys
        BY <2>2, <1>4, ModelDataAssumption DEF Fetches
      <3>2. disk[p] \in Files
        BY DEF FileTypes, Images
      <3>3. {LocalOnly(p[1], tx[r].fetched[p[1]])} \in Files
        BY <2>2, <3>1, <1>2, <1>4
      <3>4. CASE Marked(p[1])
        BY <3>4, <2>2, <3>2, <1>5
      <3>5. CASE ~Marked(p[1])
        BY <3>5, <2>2, <3>3, <1>5
      <3> QED BY <3>4, <3>5
    <2> QED BY <2>1, <2>2
  <1>7. Writes(r) \in Images
    BY <1>6 DEF Writes, Images
  <1>8. \A s \in Sources : Writes(r)[Data(s)] = {tx[r].fetched[s]}
    BY <1>5, PathFacts DEF Data
  <1>9. \A m \in Mappers :
          Writes(r)[Overlay(m)] = IF Marked(m) THEN disk[Overlay(m)]
                                  ELSE {LocalOnly(m, tx[r].fetched[m])}
    BY <1>5, PathFacts DEF Overlay
  <1> QED BY <1>7, <1>8, <1>9

LEMMA InitTypes == Init => TypeOK
  <1> SUFFICES ASSUME Init PROVE TypeOK
    OBVIOUS
  <1> USE DEF Init
  <1>1. FileTypes
    BY DEF FileTypes, Images, Files
  <1>2. LockTypes
    BY DEF LockTypes
  <1>3. TxTypes
    <2>1. Idle \in Txs
      BY DEF Idle, Txs
    <2> QED BY <2>1 DEF TxTypes, At, Idle, Inside
  <1>4. ArchTypes
    BY DEF ArchTypes, Rest
  <1> QED BY <1>1, <1>2, <1>3, <1>4 DEF TypeOK
LEMMA StepFileTypes == TypeOK /\ [Next]_vars => FileTypes'
  <1> SUFFICES ASSUME TypeOK, [Next]_vars PROVE FileTypes'
    OBVIOUS
  <1> USE DEF TypeOK, FileTypes
  <1>0. \A r \in Refreshers, p \in Paths : tx[r].pc \in Inside =>
          tx[r].new[p] \in Files /\ tx[r].was[p] \in Files
    BY DEF TxTypes, Images
  <1>1. ASSUME NEW r \in Refreshers, Commit(r) PROVE FileTypes'
    BY <1>1, <1>0 DEF Commit, At, Inside, Images
  <1>2. ASSUME NEW r \in Refreshers, Rollback(r) PROVE FileTypes'
    BY <1>2, <1>0 DEF Rollback, At, Inside, Images, Restored
  <1>3. ASSUME NEW r \in Refreshers, Refresh(r), ~Commit(r), ~Rollback(r)
        PROVE  UNCHANGED <<disk, archive>>
    BY <1>3 DEF Refresh, Fetch, Lock, Stage, StageFails, CommitFails, RollbackFails, Release
  <1>4. CASE Link
    BY <1>4, PathFacts DEF Link, ArchTypes, Images
  <1>5. CASE NoLink \/ Unlink
    <2>1. \A m \in Mappers : disk[Overlay(m)] \ {{}} \in Files /\ {} \in Files
      <3>1. \A m \in Mappers : disk[Overlay(m)] \in Files
        BY PathFacts DEF Images
      <3>2. \A f \in Files : f \ {{}} = f \/ f \ {{}} = {}
        BY DEF Files
      <3>3. {} \in Files
        BY DEF Files
      <3> QED BY <3>1, <3>2, <3>3
    <2> QED BY <1>5, <2>1, PathFacts DEF NoLink, Unlink, ArchTypes, Images
  <1>6. CASE Remember \/ ArchiveLock \/ ArchiveFails \/ Crash \/ Finished \/ UNCHANGED vars
    BY <1>6 DEF Remember, ArchiveLock, ArchiveFails, Crash, Finished, vars
  <1> QED BY <1>1, <1>2, <1>3, <1>4, <1>5, <1>6 DEF Next, Archive

LEMMA StepLockTypes == TypeOK /\ [Next]_vars => LockTypes'
  <1> SUFFICES ASSUME TypeOK, [Next]_vars PROVE LockTypes'
    OBVIOUS
  <1> USE DEF TypeOK, LockTypes
  <1>1. ASSUME NEW r \in Refreshers, Refresh(r) PROVE LockTypes'
    BY <1>1 DEF Refresh, Fetch, Lock, Stage, StageFails, Commit, CommitFails, Rollback,
                RollbackFails, Release, Released
  <1>2. CASE Archive
    BY <1>2 DEF Archive, Remember, ArchiveLock, Link, NoLink, Unlink, ArchiveFails, Released
  <1>3. CASE Crash
    BY <1>3 DEF Crash
  <1>4. CASE Finished \/ UNCHANGED vars
    BY <1>4 DEF Finished, vars
  <1> QED BY <1>1, <1>2, <1>3, <1>4 DEF Next

LEMMA StepArchTypes == TypeOK /\ [Next]_vars => ArchTypes'
  <1> SUFFICES ASSUME TypeOK, [Next]_vars PROVE ArchTypes'
    OBVIOUS
  <1> USE DEF TypeOK, ArchTypes
  <1>1. ASSUME NEW r \in Refreshers, Refresh(r) PROVE UNCHANGED arch
    BY <1>1 DEF Refresh, Fetch, Lock, Stage, StageFails, Commit, CommitFails, Rollback,
                RollbackFails, Release
  <1>2. CASE Archive
    <2>1. CASE Remember
      BY <2>1 DEF Remember, Rest
    <2>2. CASE ArchiveLock
      BY <2>2 DEF ArchiveLock
    <2>3. CASE Link
      BY <2>3 DEF Link
    <2>4. CASE NoLink \/ Unlink \/ ArchiveFails
      BY <2>4 DEF NoLink, Unlink, ArchiveFails, NextArchived
    <2> QED BY <1>2, <2>1, <2>2, <2>3, <2>4 DEF Archive
  <1>3. CASE Crash
    BY <1>3 DEF Crash, Rest
  <1>4. CASE Finished \/ UNCHANGED vars
    BY <1>4 DEF Finished, vars
  <1> QED BY <1>1, <1>2, <1>3, <1>4 DEF Next

\* A step of one thread that leaves its record well-typed leaves all of them so.
LEMMA OneTx ==
  ASSUME TxTypes, NEW r \in Refreshers, NEW t \in Txs, tx' = [tx EXCEPT ![r] = t],
         t.pc # "idle" => t.fetched \in Fetches,
         t.pc \in Inside => t.new \in Images /\ t.was \in Images
  PROVE  TxTypes'
  BY DEF TxTypes, At

LEMMA StepTxTypes == TypeOK /\ [Next]_vars => TxTypes'
  <1> SUFFICES ASSUME TypeOK, [Next]_vars PROVE TxTypes'
    OBVIOUS
  <1> USE DEF TypeOK
  <1>1. ASSUME NEW r \in Refreshers, Refresh(r) PROVE TxTypes'
    <2> DEFINE t == tx'[r]
    <2>0. tx[r] \in Txs /\ (tx[r].pc # "idle" => tx[r].fetched \in Fetches)
          /\ (tx[r].pc \in Inside => tx[r].new \in Images /\ tx[r].was \in Images)
      BY DEF TxTypes, At
    <2>1. CASE Fetch(r)
      <3>1. PICK f \in Fetches :
              tx' = [tx EXCEPT ![r] = [Idle EXCEPT !.pc = "lock", !.fetched = f]]
        BY <2>1 DEF Fetch, Fetches
      <3>2. [Idle EXCEPT !.pc = "lock", !.fetched = f] \in Txs
        BY DEF Idle, Txs
      <3> QED BY <3>1, <3>2, OneTx DEF Idle, Inside
    <2>2. CASE Lock(r)
      BY <2>2 DEF Lock, TxTypes, At
    <2>3. CASE Stage(r)
      <3>1. tx[r].fetched \in Fetches /\ Writes(r) \in Images
        BY <2>0, <2>3, WritesTypes DEF Stage, At
      <3>2. ToWrite(Writes(r)) \subseteq Paths
        BY DEF ToWrite
      <3> DEFINE new == Writes(r)
      <3>3. tx' = [tx EXCEPT ![r].pc = IF ToWrite(new) = {} THEN "release" ELSE "commit",
                             ![r].staged = ToWrite(new), ![r].new = new,
                             ![r].was = disk, ![r].ok = TRUE]
        BY <2>3 DEF Stage
      <3> HIDE DEF new
      <3>4. new \in Images /\ ToWrite(new) \subseteq Paths /\ disk \in Images
        BY <3>1, <3>2 DEF new, FileTypes
      <3>5. [tx[r] EXCEPT !.pc = IF ToWrite(new) = {} THEN "release" ELSE "commit",
                          !.staged = ToWrite(new), !.new = new, !.was = disk, !.ok = TRUE]
              \in Txs
        <4> DEFINE pc == IF ToWrite(new) = {} THEN "release" ELSE "commit"
        <4>1. pc \in Inside
          BY DEF Inside
        <4> HIDE DEF pc, TypeOK
        <4>2. [tx[r] EXCEPT !.pc = pc, !.staged = ToWrite(new), !.new = new, !.was = disk,
                            !.ok = TRUE] \in Txs
          BY <2>0, <3>4, <4>1 DEF Txs
        <4> QED BY <4>2 DEF pc
      <3> DEFINE u == tx'[r]
      <3>6. u = [tx[r] EXCEPT !.pc = IF ToWrite(new) = {} THEN "release" ELSE "commit",
                              !.staged = ToWrite(new), !.new = new, !.was = disk, !.ok = TRUE]
            /\ tx' = [tx EXCEPT ![r] = u]
        BY <3>3 DEF TxTypes
      <3> HIDE DEF u, TypeOK
      <3>7. u \in Txs /\ u.fetched = tx[r].fetched /\ u.new = new /\ u.was = disk
        BY <2>0, <3>5, <3>6 DEF Txs
      <3> QED BY <3>1, <3>4, <3>6, <3>7, OneTx DEF TypeOK
    <2>4. CASE StageFails(r)
      BY <2>0, <2>4 DEF StageFails, TxTypes, At, Txs, FileTypes, Inside
    <2>5. CASE Commit(r)
      <3>1. PICK p \in Paths :
              tx' = [tx EXCEPT ![r].staged = @ \ {p}, ![r].done = @ \cup {p},
                               ![r].pc = IF tx[r].staged = {p} THEN "release" ELSE "commit"]
        BY <2>5 DEF Commit
      <3> DEFINE u == [tx[r] EXCEPT !.staged = tx[r].staged \ {p}, !.done = tx[r].done \cup {p},
                         !.pc = IF tx[r].staged = {p} THEN "release" ELSE "commit"]
      <3>2. tx[r].pc = "commit"
        BY <2>5 DEF Commit, At
      <3>3. u \in Txs /\ u.fetched = tx[r].fetched /\ u.new = tx[r].new /\ u.was = tx[r].was
        BY <2>0 DEF Txs, Inside
      <3>4. tx' = [tx EXCEPT ![r] = u]
        BY <3>1, <2>0 DEF TxTypes, Txs
      <3> QED BY <2>0, <3>2, <3>3, <3>4, OneTx DEF Inside
    <2>6. CASE CommitFails(r)
      BY <2>0, <2>6 DEF CommitFails, TxTypes, At, Txs, Inside
    <2>7. CASE Rollback(r) \/ RollbackFails(r)
      <3>1. \E p \in Paths, x \in SUBSET Paths :
              tx' = [tx EXCEPT ![r].done = @ \ {p}, ![r].spoilt = x,
                               ![r].pc = IF tx[r].done = {p} THEN "release" ELSE "rollback"]
        <4>1. CASE RollbackFails(r)
          BY <4>1, <2>0 DEF RollbackFails, Txs
        <4>2. CASE Rollback(r)
          <5>1. PICK p \in Paths :
                  tx' = [tx EXCEPT ![r].done = @ \ {p},
                           ![r].pc = IF tx[r].done = {p} THEN "release" ELSE "rollback"]
            BY <4>2 DEF Rollback
          <5>2. tx[r].spoilt \in SUBSET Paths
            BY <2>0 DEF Txs
          <5>3. tx' = [tx EXCEPT ![r].done = @ \ {p}, ![r].spoilt = tx[r].spoilt,
                           ![r].pc = IF tx[r].done = {p} THEN "release" ELSE "rollback"]
            BY <5>1, <2>0 DEF TxTypes, Txs
          <5> QED BY <5>2, <5>3
        <4> QED BY <2>7, <4>1, <4>2
      <3>2. PICK p \in Paths, x \in SUBSET Paths :
              tx' = [tx EXCEPT ![r].done = @ \ {p}, ![r].spoilt = x,
                               ![r].pc = IF tx[r].done = {p} THEN "release" ELSE "rollback"]
        BY <3>1
      <3> DEFINE u == [tx[r] EXCEPT !.done = tx[r].done \ {p}, !.spoilt = x,
                         !.pc = IF tx[r].done = {p} THEN "release" ELSE "rollback"]
      <3>3. tx[r].pc = "rollback"
        BY <2>7 DEF Rollback, RollbackFails, At
      <3>4. u \in Txs /\ u.fetched = tx[r].fetched /\ u.new = tx[r].new /\ u.was = tx[r].was
        BY <2>0 DEF Txs, Inside
      <3>5. tx' = [tx EXCEPT ![r] = u]
        BY <3>2, <2>0 DEF TxTypes, Txs
      <3> QED BY <2>0, <3>3, <3>4, <3>5, OneTx DEF Inside
    <2>8. CASE Release(r)
      <3>1. Idle \in Txs /\ Idle.pc = "idle"
        BY DEF Idle, Txs
      <3> QED BY <2>8, <3>1 DEF Release, TxTypes, At, Inside
    <2> QED BY <1>1, <2>1, <2>2, <2>3, <2>4, <2>5, <2>6, <2>7, <2>8 DEF Refresh
  <1>2. CASE Archive
    BY <1>2 DEF Archive, Remember, ArchiveLock, Link, NoLink, Unlink, ArchiveFails, TxTypes, At
  <1>3. CASE Crash
    <2>1. Idle \in Txs /\ Idle.pc = "idle"
      BY DEF Idle, Txs
    <2> QED BY <1>3, <2>1 DEF Crash, TxTypes, At, Inside
  <1>4. CASE Finished \/ UNCHANGED vars
    BY <1>4 DEF Finished, vars, TxTypes, At
  <1> QED BY <1>1, <1>2, <1>3, <1>4 DEF Next

\* The files and archives stay files, a lock has at most one of the threads as its
\* holder, and a transaction that has the locks knows what it writes and what was there.
THEOREM TypeCorrect == Spec => []TypeOK
  <1>1. TypeOK /\ [Next]_vars => TypeOK'
    BY StepFileTypes, StepLockTypes, StepTxTypes, StepArchTypes DEF TypeOK
  <1> QED BY <1>1, InitTypes, PTL DEF Spec

----------------------------------------------------------------------------
(* All files or none.  The locks make a transaction the only one that changes  *)
(* files, so that the disk is, up to the last step, what it was with the       *)
(* renamed files replaced.                                                     *)

Locks == /\ \A r \in Refreshers : tx[r].pc \in Inside => \A p \in Paths : owner[p] = r
         /\ arch.pc \in {"link", "unlink"} => owner[Overlay(arch.at)] = Archiver

\* Nothing has been done before the locks are held.
Entered(r) == At(r, "lock") => /\ tx[r].done = {} /\ tx[r].spoilt = {}
                               /\ tx[r].ok = FALSE

Committing(r) ==
  At(r, "commit") =>
    /\ tx[r].ok = TRUE /\ tx[r].spoilt = {} /\ tx[r].staged \cap tx[r].done = {}
    /\ \A p \in Paths : disk[p] = IF p \in tx[r].done THEN tx[r].new[p] ELSE tx[r].was[p]
    /\ \A p \in Paths \ (tx[r].done \cup tx[r].staged) : tx[r].new[p] = tx[r].was[p]
    /\ \A s \in Sources : tx[r].new[Data(s)] = {tx[r].fetched[s]}
    /\ \A m \in Mappers : tx[r].new[Overlay(m)] # {} \/ archive[m] # {}

RollingBack(r) ==
  At(r, "rollback") =>
    /\ tx[r].ok = FALSE
    /\ \A p \in Paths \ (tx[r].done \cup tx[r].spoilt) : disk[p] = tx[r].was[p]

\* What AllFilesOrNone says of one transaction.
Releasing(r) ==
  At(r, "release") =>
    IF tx[r].ok
    THEN /\ \A s \in Sources : disk[Data(s)] = {tx[r].fetched[s]}
         /\ \A m \in Mappers : Marked(m)
    ELSE \A p \in Paths \ tx[r].spoilt : disk[p] = tx[r].was[p]

Sound(r) == Entered(r) /\ Committing(r) /\ RollingBack(r) /\ Releasing(r)

TInv == TypeOK /\ Locks /\ \A r \in Refreshers : Sound(r)

LEMMA Alone ==
  ASSUME Locks, NEW r \in Refreshers, NEW q \in Refreshers, tx[r].pc \in Inside,
         tx[q].pc \in Inside, NEW p \in Paths
  PROVE  q = r
  BY DEF Locks

LEMMA StepLocks == TypeOK /\ Locks /\ [Next]_vars => Locks'
  <1> SUFFICES ASSUME TypeOK, Locks, [Next]_vars PROVE Locks'
    OBVIOUS
  <1> USE ModelDataAssumption, PathFacts DEF TypeOK
  <1>1. ASSUME NEW r \in Refreshers, Lock(r) PROVE Locks'
    <2>1. PICK p \in Paths : owner[p] = None /\ owner' = [owner EXCEPT ![p] = r]
      BY <1>1 DEF Lock, ToLock
    <2>2. \A q \in Refreshers : tx[q].pc \notin Inside
      BY <2>1 DEF Locks
    <2>3. arch.pc \in {"link", "unlink"} => Overlay(arch.at) # p
      BY <2>1 DEF Locks
    <2> QED BY <1>1, <2>1, <2>2, <2>3 DEF Lock, Locks, LockTypes, ArchTypes
  <1>2. ASSUME NEW r \in Refreshers, Stage(r) \/ StageFails(r) PROVE Locks'
    <2>1. \A p \in Paths : owner[p] = r
      BY <1>2 DEF Stage, StageFails, ToLock, Holds
    <2>2. UNCHANGED <<owner, arch>> /\ \A q \in Refreshers \ {r} : tx'[q] = tx[q]
      BY <1>2 DEF Stage, StageFails, TxTypes
    <2> QED BY <2>1, <2>2 DEF Locks
  <1>3. ASSUME NEW r \in Refreshers,
               Fetch(r) \/ Commit(r) \/ CommitFails(r) \/ Rollback(r) \/ RollbackFails(r)
        PROVE  Locks'
    <2>1. UNCHANGED <<owner, arch>> /\ \A q \in Refreshers \ {r} : tx'[q] = tx[q]
      BY <1>3 DEF Fetch, Commit, CommitFails, Rollback, RollbackFails, TxTypes
    <2>2. tx'[r].pc \in Inside => tx[r].pc \in Inside
      <3>1. CASE Fetch(r)
        BY <3>1 DEF Fetch, TxTypes, Idle, Inside
      <3>2. CASE ~Fetch(r)
        BY <1>3, <3>2 DEF Commit, CommitFails, Rollback, RollbackFails, At, Inside
      <3> QED BY <3>1, <3>2
    <2> QED BY <2>1, <2>2 DEF Locks
  <1>4. ASSUME NEW r \in Refreshers, Release(r) PROVE Locks'
    <2>1. \A q \in Refreshers \ {r} : tx'[q] = tx[q]
      BY <1>4 DEF Release, TxTypes
    <2>2. tx'[r].pc \notin Inside
      BY <1>4 DEF Release, TxTypes, Idle, Inside
    <2>3. \A p \in Paths : owner[p] # r => owner'[p] = owner[p]
      BY <1>4 DEF Release, Released
    <2>4. UNCHANGED arch
      BY <1>4 DEF Release
    <2>5. \A q \in Refreshers : tx'[q].pc \in Inside => q # r /\ tx[q].pc \in Inside
      BY <2>1, <2>2
    <2>6. \A q \in Refreshers : tx'[q].pc \in Inside => \A p \in Paths : owner'[p] = q
      BY <2>3, <2>5 DEF Locks
    <2>7. arch.pc \in {"link", "unlink"} => owner'[Overlay(arch.at)] = Archiver
      BY <2>3, <1>4 DEF Locks, ArchTypes
    <2> HIDE DEF TypeOK
    <2> QED BY <2>4, <2>6, <2>7 DEF Locks
  <1>5. CASE Remember
    BY <1>5 DEF Remember, Locks, Rest
  <1>6. CASE ArchiveLock
    <2>1. PICK m \in arch.left :
            /\ owner[Overlay(m)] = None
            /\ owner' = [owner EXCEPT ![Overlay(m)] = Archiver]
            /\ arch' = [pc |-> "link", at |-> m, left |-> arch.left \ {m}]
      BY <1>6 DEF ArchiveLock
    <2>2. m \in Mappers
      BY DEF ArchTypes
    <2>3. \A q \in Refreshers : tx[q].pc \notin Inside
      BY <2>1, <2>2 DEF Locks
    <2> QED BY <1>6, <2>1, <2>2, <2>3 DEF ArchiveLock, Locks, LockTypes
  <1>7. CASE Link
    BY <1>7 DEF Link, Locks, ArchTypes
  <1>8. CASE NoLink \/ Unlink \/ ArchiveFails
    <2>1. arch'.pc \in {"idle", "lock"} /\ UNCHANGED tx /\ owner' = Released(Archiver)
      BY <1>8 DEF NoLink, Unlink, ArchiveFails, NextArchived, ArchTypes
    <2>2. \A p \in Paths : owner[p] # Archiver => owner'[p] = owner[p]
      BY <2>1 DEF Released
    <2> QED BY <2>1, <2>2 DEF Locks
  <1>9. CASE Crash
    BY <1>9 DEF Crash, Locks, Rest, Idle, Inside
  <1>10. CASE Finished \/ UNCHANGED vars
    BY <1>10 DEF Finished, vars, Locks
  <1> QED BY <1>1, <1>2, <1>3, <1>4, <1>5, <1>6, <1>7, <1>8, <1>9, <1>10
          DEF Next, Refresh, Archive

\* The steps of others do not disturb a transaction.
LEMMA Undisturbed ==
  ASSUME NEW q \in Refreshers, Sound(q), tx'[q] = tx[q],
         tx[q].pc \in Inside => \A p \in Paths : disk'[p] = disk[p],
         \A m \in Mappers : archive[m] # {} => archive'[m] # {}
  PROVE  Sound(q)'
  <1> USE PathFacts DEF At, Inside
  <1>1. Entered(q)'
    BY DEF Sound, Entered
  <1>2. Committing(q)'
    BY DEF Sound, Committing
  <1>3. RollingBack(q)'
    BY DEF Sound, RollingBack
  <1>4. Releasing(q)'
    BY DEF Sound, Releasing, Marked
  <1> QED BY <1>1, <1>2, <1>3, <1>4 DEF Sound

LEMMA SoundArchive ==
  ASSUME TInv, Archive, NEW q \in Refreshers PROVE Sound(q)'
  <1> USE PathFacts, ModelDataAssumption DEF TInv, TypeOK
  <1>1. UNCHANGED tx
    BY DEF Archive, Remember, ArchiveLock, Link, NoLink, Unlink, ArchiveFails
  <1>2. \A m \in Mappers : archive[m] # {} => archive'[m] # {}
    BY DEF Archive, Remember, ArchiveLock, Link, NoLink, Unlink, ArchiveFails, FileTypes
  <1>3. ASSUME tx[q].pc \in Inside PROVE UNCHANGED disk
    <2>1. CASE NoLink \/ Unlink
      <3>1. arch.pc \in {"link", "unlink"} /\ arch.at \in Mappers
        BY <2>1 DEF NoLink, Unlink, ArchTypes
      <3>2. owner[Overlay(arch.at)] = Archiver /\ owner[Overlay(arch.at)] = q
        BY <1>3, <3>1 DEF Locks
      <3> QED BY <3>2
    <2> QED BY <2>1 DEF Archive, Remember, ArchiveLock, Link, ArchiveFails
  <1> QED BY <1>1, <1>2, <1>3, Undisturbed

LEMMA SoundOthers ==
  ASSUME TInv, NEW r \in Refreshers, Refresh(r), NEW q \in Refreshers \ {r}
  PROVE  Sound(q)'
  <1> USE DEF TInv, TypeOK
  <1>1. tx'[q] = tx[q] /\ UNCHANGED archive
    BY DEF Refresh, Fetch, Lock, Stage, StageFails, Commit, CommitFails, Rollback,
           RollbackFails, Release, TxTypes
  <1>2. ASSUME tx[q].pc \in Inside, NEW p \in Paths PROVE disk'[p] = disk[p]
    <2>1. tx[r].pc \notin Inside
      BY <1>2, Alone
    <2> QED BY <2>1 DEF Refresh, Fetch, Lock, Stage, StageFails, Commit, CommitFails, Rollback,
                        RollbackFails, Release, At, Inside
  <1> QED BY <1>1, <1>2, Undisturbed

LEMMA SoundStage ==
  ASSUME TInv, NEW r \in Refreshers, Stage(r) \/ StageFails(r) PROVE Sound(r)'
  <1> USE PathFacts DEF TInv, TypeOK, Sound
  <1>1. At(r, "lock") /\ UNCHANGED <<disk, archive>> /\ tx[r] \in Txs
    BY DEF Stage, StageFails, TxTypes
  <1>2. tx[r].done = {} /\ tx[r].spoilt = {} /\ tx[r].ok = FALSE
    BY <1>1 DEF Entered
  <1>3. CASE StageFails(r)
    <2>1. tx'[r] = [tx[r] EXCEPT !.pc = "release", !.new = disk, !.was = disk]
      BY <1>3 DEF StageFails, TxTypes
    <2>2. At(r, "release")' /\ tx'[r].ok = FALSE /\ tx'[r].was = disk
      BY <2>1, <1>1, <1>2 DEF At, Txs
    <2> QED BY <2>2, <1>1 DEF At, Entered, Committing, RollingBack, Releasing
  <1>4. CASE Stage(r)
    <2> DEFINE new == Writes(r)
    <2>1. tx'[r] = [tx[r] EXCEPT !.pc = IF ToWrite(new) = {} THEN "release" ELSE "commit",
                        !.staged = ToWrite(new), !.new = new, !.was = disk, !.ok = TRUE]
      BY <1>4 DEF Stage, TxTypes
    <2>2. /\ tx'[r].pc = IF ToWrite(new) = {} THEN "release" ELSE "commit"
          /\ tx'[r].staged = ToWrite(new) /\ tx'[r].new = new /\ tx'[r].was = disk
          /\ tx'[r].ok = TRUE /\ tx'[r].done = {} /\ tx'[r].spoilt = {}
          /\ tx'[r].fetched = tx[r].fetched
      BY <2>1, <1>1, <1>2 DEF Txs
    <2>3. tx[r].fetched \in Fetches
      BY <1>1 DEF TxTypes, At
    <2>4. /\ \A s \in Sources : new[Data(s)] = {tx[r].fetched[s]}
          /\ \A m \in Mappers : new[Overlay(m)] # {} \/ archive[m] # {}
      <3>1. \A m \in Mappers : IF Marked(m) THEN new[Overlay(m)] = disk[Overlay(m)]
                               ELSE new[Overlay(m)] # {}
        BY <2>3, WritesTypes
      <3>2. \A m \in Mappers : Marked(m) => disk[Overlay(m)] # {} \/ archive[m] # {}
        BY DEF Marked
      <3>3. \A s \in Sources : new[Data(s)] = {tx[r].fetched[s]}
        BY <2>3, WritesTypes
      <3> HIDE DEF new
      <3> QED BY <3>1, <3>2, <3>3
    <2>5. \A p \in Paths \ ToWrite(new) : new[p] = disk[p]
      BY DEF ToWrite
    <2> HIDE DEF new
    <2>6. Committing(r)'
      BY <2>2, <2>4, <2>5, <1>1 DEF Committing
    <2>7. Releasing(r)'
      BY <2>2, <2>4, <2>5, <1>1 DEF Releasing, Marked, At
    <2> QED BY <2>2, <2>6, <2>7 DEF At, Entered, RollingBack
  <1> QED BY <1>3, <1>4

LEMMA SoundCommit ==
  ASSUME TInv, NEW r \in Refreshers, Commit(r) PROVE Sound(r)'
  <1> USE PathFacts DEF TInv, TypeOK, Sound
  <1>1. PICK p \in Paths :
          /\ MayCommit(r, p)
          /\ disk' = [disk EXCEPT ![p] = tx[r].new[p]]
          /\ tx' = [tx EXCEPT ![r].staged = @ \ {p}, ![r].done = @ \cup {p},
                              ![r].pc = IF tx[r].staged = {p} THEN "release" ELSE "commit"]
    BY DEF Commit
  <1>2. At(r, "commit") /\ UNCHANGED archive /\ tx[r] \in Txs
    BY DEF Commit, TxTypes
  <1>3. /\ tx'[r].staged = tx[r].staged \ {p} /\ tx'[r].done = tx[r].done \cup {p}
        /\ tx'[r].pc = IF tx[r].staged = {p} THEN "release" ELSE "commit"
        /\ tx'[r].new = tx[r].new /\ tx'[r].was = tx[r].was /\ tx'[r].ok = tx[r].ok
        /\ tx'[r].spoilt = tx[r].spoilt /\ tx'[r].fetched = tx[r].fetched
    BY <1>1, <1>2 DEF TxTypes, Txs
  <1>4. /\ tx[r].ok = TRUE /\ tx[r].spoilt = {} /\ tx[r].staged \cap tx[r].done = {}
        /\ \A q \in Paths : disk[q] = IF q \in tx[r].done THEN tx[r].new[q] ELSE tx[r].was[q]
        /\ \A q \in Paths \ (tx[r].done \cup tx[r].staged) : tx[r].new[q] = tx[r].was[q]
        /\ \A s \in Sources : tx[r].new[Data(s)] = {tx[r].fetched[s]}
        /\ \A m \in Mappers : tx[r].new[Overlay(m)] # {} \/ archive[m] # {}
    BY <1>2 DEF Committing
  <1>5. \A q \in Paths : disk'[q] = IF q \in tx'[r].done THEN tx'[r].new[q] ELSE tx'[r].was[q]
    <2>1. disk'[p] = tx[r].new[p] /\ \A q \in Paths \ {p} : disk'[q] = disk[q]
      BY <1>1 DEF FileTypes, Images
    <2>2. p \in tx'[r].done /\ \A q \in Paths \ {p} : q \in tx'[r].done <=> q \in tx[r].done
      BY <1>3
    <2> HIDE DEF TInv, TypeOK, Sound
    <2> QED BY <1>3, <1>4, <2>1, <2>2
  <1>6. Committing(r)'
    <2>1. tx'[r].staged \cap tx'[r].done = {}
      BY <1>3, <1>4
    <2>2. \A q \in Paths \ (tx'[r].done \cup tx'[r].staged) : tx'[r].new[q] = tx'[r].was[q]
      BY <1>3, <1>4
    <2>3. UNCHANGED archive
      BY <1>2
    <2> HIDE DEF TInv, TypeOK, Sound
    <2> QED BY <1>3, <1>4, <1>5, <2>1, <2>2, <2>3 DEF Committing
  <1>7. ASSUME At(r, "release")' PROVE \A q \in Paths : disk'[q] = tx[r].new[q]
    BY <1>3, <1>4, <1>5, <1>7 DEF At
  <1>8. Releasing(r)'
    BY <1>2, <1>3, <1>4, <1>7 DEF Releasing, Marked
  <1> QED BY <1>3, <1>6, <1>8 DEF At, Entered, RollingBack

LEMMA SoundRollback ==
  ASSUME TInv, NEW r \in Refreshers, CommitFails(r) \/ Rollback(r) \/ RollbackFails(r)
  PROVE  Sound(r)'
  <1> USE DEF TInv, TypeOK, Sound
  <1>1. tx[r] \in Txs
    BY DEF TxTypes
  <1>2. CASE CommitFails(r)
    <2>1. /\ tx'[r].done = tx[r].done /\ tx'[r].spoilt = tx[r].spoilt /\ tx'[r].ok = FALSE
          /\ tx'[r].was = tx[r].was /\ UNCHANGED disk /\ At(r, "commit")
          /\ tx'[r].pc = IF tx[r].done = {} THEN "release" ELSE "rollback"
      BY <1>1, <1>2 DEF CommitFails, TxTypes, Txs
    <2> QED BY <2>1 DEF At, Entered, Committing, RollingBack, Releasing
  <1>3. CASE Rollback(r)
    <2>1. PICK p \in Paths :
            /\ MayRestore(r, p)
            /\ disk' = [disk EXCEPT ![p] = Restored(r, p)]
            /\ tx' = [tx EXCEPT ![r].done = @ \ {p},
                                ![r].pc = IF tx[r].done = {p} THEN "release" ELSE "rollback"]
      BY <1>3 DEF Rollback
    <2>2. /\ tx'[r].done = tx[r].done \ {p} /\ tx'[r].spoilt = tx[r].spoilt
          /\ tx'[r].ok = tx[r].ok /\ tx'[r].was = tx[r].was /\ At(r, "rollback")
          /\ tx'[r].pc = IF tx[r].done = {p} THEN "release" ELSE "rollback"
      BY <1>1, <1>3, <2>1 DEF Rollback, TxTypes, Txs
    <2>3. \A q \in Paths \ (tx'[r].done \cup tx'[r].spoilt) : disk'[q] = tx[r].was[q]
      BY <2>1, <2>2 DEF RollingBack, Restored, FileTypes, Images
    <2>4. At(r, "release")' => tx'[r].done = {}
      BY <2>2 DEF At
    <2> QED BY <2>2, <2>3, <2>4 DEF At, Entered, Committing, RollingBack, Releasing
  <1>4. CASE RollbackFails(r)
    <2>1. PICK p \in Paths :
            tx' = [tx EXCEPT ![r].done = @ \ {p}, ![r].spoilt = @ \cup {p},
                             ![r].pc = IF tx[r].done = {p} THEN "release" ELSE "rollback"]
      BY <1>4 DEF RollbackFails
    <2>2. /\ tx'[r].done = tx[r].done \ {p} /\ tx'[r].spoilt = tx[r].spoilt \cup {p}
          /\ tx'[r].ok = tx[r].ok /\ tx'[r].was = tx[r].was /\ At(r, "rollback")
          /\ tx'[r].pc = IF tx[r].done = {p} THEN "release" ELSE "rollback"
          /\ UNCHANGED disk
      BY <1>1, <1>4, <2>1 DEF RollbackFails, TxTypes, Txs
    <2>3. At(r, "release")' => tx'[r].done = {}
      BY <2>2 DEF At
    <2> QED BY <2>2, <2>3 DEF At, Entered, Committing, RollingBack, Releasing
  <1> QED BY <1>2, <1>3, <1>4

LEMMA StepTInv == TInv /\ [Next]_vars => TInv'
  <1> SUFFICES ASSUME TInv, [Next]_vars PROVE TInv'
    OBVIOUS
  <1>1. TypeOK' /\ Locks'
    BY StepFileTypes, StepLockTypes, StepTxTypes, StepArchTypes, StepLocks DEF TInv, TypeOK
  <1>2. ASSUME NEW q \in Refreshers PROVE Sound(q)'
    <2>1. ASSUME NEW r \in Refreshers, Refresh(r) PROVE Sound(q)'
      <3>1. CASE q # r
        BY <2>1, <3>1, SoundOthers
      <3>2. CASE q = r /\ Fetch(r)
        <4>1. tx'[r].pc = "lock" /\ tx'[r].done = {} /\ tx'[r].spoilt = {} /\ tx'[r].ok = FALSE
          BY <3>2 DEF Fetch, Idle, TInv, TypeOK, TxTypes
        <4> QED BY <3>2, <4>1 DEF Sound, Entered, Committing, RollingBack, Releasing, At
      <3>3. CASE q = r /\ Lock(r)
        BY <3>3, Undisturbed DEF Lock, TInv
      <3>4. CASE q = r /\ Release(r)
        <4>1. tx'[r].pc = "idle"
          BY <3>4 DEF Release, Idle, TInv, TypeOK, TxTypes
        <4> QED BY <3>4, <4>1 DEF Sound, Entered, Committing, RollingBack, Releasing, At
      <3> QED BY <2>1, <3>1, <3>2, <3>3, <3>4, SoundStage, SoundCommit, SoundRollback
              DEF Refresh
    <2>2. CASE Archive
      BY <2>2, SoundArchive
    <2>3. CASE Crash
      <3>1. tx'[q].pc = "idle"
        BY <2>3 DEF Crash, Idle
      <3> QED BY <3>1 DEF Sound, Entered, Committing, RollingBack, Releasing, At
    <2>4. CASE Finished \/ UNCHANGED vars
      BY <2>4, Undisturbed DEF Finished, vars, TInv
    <2> QED BY <2>1, <2>2, <2>3, <2>4 DEF Next
  <1> QED BY <1>1, <1>2 DEF TInv

LEMMA InitTInv == Init => TInv
  <1> SUFFICES ASSUME Init PROVE TInv
    OBVIOUS
  <1>1. Locks
    BY DEF Init, Locks, Rest, Idle, Inside
  <1>2. \A r \in Refreshers : Sound(r)
    BY DEF Init, Idle, Sound, Entered, Committing, RollingBack, Releasing, At
  <1> QED BY <1>1, <1>2, InitTypes DEF TInv

\* A refresh replaces every file and marks every mapper, or leaves every file as it was
\* but those it could not restore (downloads.py:255-285), whatever other refreshes and
\* archivals run beside it.
THEOREM AllFilesOrNoneHolds == Spec => []AllFilesOrNone
  <1>1. TInv => AllFilesOrNone
    BY DEF TInv, Sound, Releasing, AllFilesOrNone
  <1> QED BY <1>1, InitTInv, StepTInv, PTL DEF Spec

----------------------------------------------------------------------------
(* The names of the users.  A mapper is marked as moved and holds what was      *)
(* local, or its file is as it was, or one transaction has replaced its file    *)
(* and still owes it the overlay (HalfMoved).                                   *)

Busy == {"commit", "rollback"}

FirstType == first \in [Mappers -> SUBSET Keys]

Kept == \A m \in Mappers \ torn :
          Marked(m) => Content(disk[Overlay(m)]) \cup Content(archive[m])
                         = Content(before[m]) \ first[m]

Waiting == \A m \in Mappers \ torn :
             ~Marked(m) /\ (\A r \in Refreshers : ~HalfMoved(r, m)) =>
               disk[Data(m)] = before[m]

\* What a transaction knows of the files: only those that change are renamed; a
\* file that could not be put back is torn from its overlay, or has it; an overlay is
\* written once, with the names that were local.
Plans(r) ==
  tx[r].pc \in Busy =>
    /\ \A p \in tx[r].staged \cup tx[r].done \cup tx[r].spoilt : tx[r].new[p] # tx[r].was[p]
    /\ \A p \in Paths : disk[p] = IF p \in tx[r].done \cup tx[r].spoilt
                                  THEN tx[r].new[p] ELSE tx[r].was[p]
    /\ tx[r].done \cap tx[r].spoilt = {}
    /\ \A m \in Mappers \ torn : Data(m) \in tx[r].spoilt =>
         \/ Overlay(m) \in tx[r].spoilt
         \/ tx[r].new[Overlay(m)] = tx[r].was[Overlay(m)]
    /\ \A m \in Mappers :
         IF tx[r].was[Overlay(m)] # {} \/ archive[m] # {}
         THEN tx[r].new[Overlay(m)] = tx[r].was[Overlay(m)]
         ELSE /\ tx[r].new[Overlay(m)] = {Content(tx[r].was[Data(m)]) \ tx[r].fetched[m]}
              /\ m \notin torn => tx[r].was[Data(m)] = before[m]

Linked == arch.pc = "unlink" => /\ archive[arch.at] # {}
                                /\ archive[arch.at] = disk[Overlay(arch.at)]

NInv == FirstType /\ Kept /\ Waiting /\ Linked /\ \A r \in Refreshers : Plans(r)

LEMMA DataPaths == \A m \in Mappers : Data(m) \in Paths /\ Data(m) \in Datas
                                      /\ Overlay(m) \notin Datas
  BY PathFacts, ModelDataAssumption DEF Datas, Data, Overlay

LEMMA OverlaysDiffer == \A m, n \in Mappers : Overlay(m) = Overlay(n) => m = n
  BY DEF Overlay

\* Who archives an overlay is alone with it.
LEMMA ArchiverAlone ==
  ASSUME TypeOK, Locks, arch.pc \in {"link", "unlink"}
  PROVE  \A r \in Refreshers : tx[r].pc \notin Inside
  BY PathFacts, ModelDataAssumption DEF TypeOK, ArchTypes, Locks

LEMMA NamesArchive == TInv /\ NInv /\ Archive => NInv'
  <1> SUFFICES ASSUME TInv, NInv, Archive PROVE NInv'
    OBVIOUS
  <1> USE DEF TInv, TypeOK
  <1>1. UNCHANGED <<tx, before, first, torn>>
    BY DEF Archive, Remember, ArchiveLock, Link, NoLink, Unlink, ArchiveFails, ghosts
  <1>2. CASE Remember \/ ArchiveLock \/ ArchiveFails
    <2>1. UNCHANGED <<disk, archive>> /\ arch'.pc # "unlink"
      <3>1. CASE Remember
        BY <3>1 DEF Remember, Rest
      <3>2. CASE ArchiveLock
        BY <3>2 DEF ArchiveLock
      <3>3. CASE ArchiveFails
        BY <3>3 DEF ArchiveFails, NextArchived, ArchTypes
      <3> QED BY <1>2, <3>1, <3>2, <3>3
    <2> QED BY <1>1, <2>1 DEF NInv, FirstType, Kept, Waiting, Linked, Plans, Marked, HalfMoved
  <1>3. CASE Link \/ NoLink \/ Unlink
    <2>10. arch.pc \in {"link", "unlink"} /\ arch.at \in Mappers
      BY <1>3 DEF Link, NoLink, Unlink, ArchTypes
    <2>11. PICK n \in Mappers : n = arch.at
      BY <2>10
    <2>0. arch.pc \in {"link", "unlink"} /\ n \in Mappers /\ arch.at = n
      BY <2>10, <2>11
    <2>1. \A r \in Refreshers : tx[r].pc \notin Inside
      BY <2>0, ArchiverAlone
    <2>2. \A r \in Refreshers, m \in Mappers : ~HalfMoved(r, m) /\ ~HalfMoved(r, m)'
      BY <2>1, <1>1 DEF HalfMoved, Inside
    <2>3. \A r \in Refreshers : Plans(r)'
      BY <2>1, <1>1 DEF Plans, Inside, Busy
    <2>4. \A m \in Mappers : disk'[Data(m)] = disk[Data(m)]
      BY <1>3, <2>0, PathFacts, ModelDataAssumption DEF Link, NoLink, Unlink, FileTypes, Images
    <2>5. /\ \A m \in Mappers \ {n} : /\ disk'[Overlay(m)] = disk[Overlay(m)]
                                      /\ archive'[m] = archive[m]
          /\ Marked(n) <=> Marked(n)'
          /\ Content(disk[Overlay(n)]) \cup Content(archive[n])
               = Content(disk'[Overlay(n)]) \cup Content(archive'[n])
      <3>1. CASE Link
        <4>1. archive'[n] = disk[Overlay(n)] /\ archive[n] = {} /\ UNCHANGED disk
              /\ disk[Overlay(n)] # {}
          BY <3>1, <2>0 DEF Link, FileTypes
        <4>2. \A m \in Mappers \ {n} : archive'[m] = archive[m]
          BY <3>1, <2>0 DEF Link, FileTypes
        <4> QED BY <4>1, <4>2 DEF Marked, Content
      <3>2. CASE NoLink
        <4>1. disk'[Overlay(n)] = disk[Overlay(n)] \ {{}} /\ UNCHANGED archive
              /\ (disk[Overlay(n)] = {} \/ archive[n] # {})
          BY <3>2, <2>0, PathFacts DEF NoLink, FileTypes, Images
        <4>2. \A m \in Mappers \ {n} : disk'[Overlay(m)] = disk[Overlay(m)]
          BY <3>2, <2>0, PathFacts, OverlaysDiffer DEF NoLink, FileTypes, Images
        <4>3. UNION (disk[Overlay(n)] \ {{}}) = UNION disk[Overlay(n)]
          OBVIOUS
        <4> QED BY <4>1, <4>2, <4>3 DEF Marked, Content
      <3>3. CASE Unlink
        <4>1. disk'[Overlay(n)] = {} /\ UNCHANGED archive
              /\ archive[n] # {} /\ archive[n] = disk[Overlay(n)]
          BY <3>3, <2>0, PathFacts DEF Unlink, FileTypes, Images, NInv, Linked
        <4>2. \A m \in Mappers \ {n} : disk'[Overlay(m)] = disk[Overlay(m)]
          BY <3>3, <2>0, PathFacts, OverlaysDiffer DEF Unlink, FileTypes, Images
        <4> QED BY <4>1, <4>2 DEF Marked, Content
      <3> QED BY <1>3, <3>1, <3>2, <3>3
    <2>6. Linked'
      <3>1. CASE Link
        BY <3>1, <2>0 DEF Link, Linked, ArchTypes, FileTypes
      <3>2. CASE NoLink \/ Unlink
        BY <3>2 DEF NoLink, Unlink, Linked, NextArchived, ArchTypes
      <3> QED BY <1>3, <3>1, <3>2
    <2>7. \A m \in Mappers : Marked(m) <=> Marked(m)'
      BY <2>5 DEF Marked
    <2>8. Kept'
      BY <1>1, <2>5, <2>7 DEF NInv, Kept
    <2>9. Waiting'
      BY <1>1, <2>2, <2>4, <2>7 DEF NInv, Waiting
    <2> QED BY <1>1, <2>3, <2>6, <2>8, <2>9 DEF NInv, FirstType
  <1> QED BY <1>2, <1>3 DEF Archive

\* The thread that renames is alone with the files, and nobody archives.
LEMMA RenamerAlone ==
  ASSUME TypeOK, Locks, NEW r \in Refreshers, tx[r].pc \in Inside, NEW p \in Paths
  PROVE  \A q \in Refreshers \ {r} : tx[q].pc \notin Inside
  BY Alone

LEMMA NoArchival ==
  ASSUME TypeOK, Locks, NEW r \in Refreshers, tx[r].pc \in Inside
  PROVE  arch.pc \notin {"link", "unlink"}
  BY ArchiverAlone

\* Locks, failed stagings and releases: no file changes, and nobody begins to rename.
LEMMA NamesQuiet ==
  ASSUME TInv, NInv, NEW r \in Refreshers,
         Fetch(r) \/ Lock(r) \/ StageFails(r) \/ Release(r)
  PROVE  NInv'
  <1> USE DEF TInv, TypeOK
  <1>1. UNCHANGED <<disk, archive, arch, before, first, torn>>
        /\ \A q \in Refreshers \ {r} : tx'[q] = tx[q]
    BY DEF Fetch, Lock, StageFails, Release, ghosts, TxTypes
  <1>2. tx[r].pc \notin Busy /\ tx'[r].pc \notin Busy
    <2>1. CASE Fetch(r)
      BY <2>1 DEF Fetch, At, TxTypes, Idle, Busy
    <2>2. CASE Lock(r)
      BY <2>2 DEF Lock, At, Busy
    <2>3. CASE StageFails(r)
      BY <2>3 DEF StageFails, At, TxTypes, Txs, Busy
    <2>4. CASE Release(r)
      BY <2>4 DEF Release, At, TxTypes, Idle, Busy
    <2> QED BY <2>1, <2>2, <2>3, <2>4
  <1>3. \A m \in Mappers, q \in Refreshers : HalfMoved(q, m) <=> HalfMoved(q, m)'
    BY <1>1, <1>2 DEF HalfMoved, Busy
  <1>4. Kept' /\ Linked' /\ FirstType'
    BY <1>1 DEF NInv, Kept, Linked, FirstType, Marked
  <1>5. Waiting'
    BY <1>1, <1>3 DEF NInv, Waiting, Marked
  <1>6. \A q \in Refreshers : Plans(q)'
    BY <1>1, <1>2 DEF NInv, Plans
  <1> QED BY <1>4, <1>5, <1>6 DEF NInv

LEMMA NamesStage == ASSUME TInv, NInv, NEW r \in Refreshers, Stage(r) PROVE NInv'
  <1> USE DEF TInv, TypeOK
  <1> DEFINE new == Writes(r)
  <1>1. UNCHANGED <<disk, archive, arch, before, first, torn>>
        /\ At(r, "lock") /\ tx[r] \in Txs /\ \A q \in Refreshers \ {r} : tx'[q] = tx[q]
    BY DEF Stage, ghosts, TxTypes
  <1>2. /\ tx'[r].pc = IF ToWrite(new) = {} THEN "release" ELSE "commit"
        /\ tx'[r].staged = ToWrite(new) /\ tx'[r].new = new /\ tx'[r].was = disk
        /\ tx'[r].done = {} /\ tx'[r].spoilt = {}
        /\ tx'[r].fetched = tx[r].fetched
    <2>1. tx'[r] = [tx[r] EXCEPT !.pc = IF ToWrite(new) = {} THEN "release" ELSE "commit",
                        !.staged = ToWrite(new), !.new = new, !.was = disk, !.ok = TRUE]
      BY DEF Stage, TxTypes
    <2>2. tx[r].done = {} /\ tx[r].spoilt = {}
      BY <1>1 DEF Sound, Entered
    <2> QED BY <1>1, <2>1, <2>2 DEF Txs
  <1>3. \A p \in ToWrite(new) : new[p] # disk[p]
    BY DEF ToWrite
  <1>4. \A m \in Mappers : new[Overlay(m)] = IF Marked(m) THEN disk[Overlay(m)]
                                             ELSE {LocalOnly(m, tx[r].fetched[m])}
    BY <1>1, WritesTypes DEF TxTypes, At
  <1> HIDE DEF new
  <1>5. \A m \in Mappers, q \in Refreshers : ~HalfMoved(q, m) /\ ~HalfMoved(q, m)'
    <2>0. SUFFICES ASSUME NEW m \in Mappers
                   PROVE  \A q \in Refreshers : ~HalfMoved(q, m) /\ ~HalfMoved(q, m)'
      OBVIOUS
    <2>1. ~HalfMoved(r, m) /\ ~HalfMoved(r, m)'
      BY <1>1, <1>2 DEF HalfMoved, At
    <2>2. ASSUME NEW q \in Refreshers \ {r} PROVE tx[q].pc \notin Busy
      <3>1. owner[Data(m)] = r
        BY DataPaths DEF Stage, ToLock, Holds
      <3>2. tx[q].pc \in Inside => owner[Data(m)] = q
        BY DataPaths DEF Locks
      <3> QED BY <2>2, <3>1, <3>2 DEF Busy, Inside
    <2>3. ASSUME NEW q \in Refreshers \ {r} PROVE ~HalfMoved(q, m) /\ ~HalfMoved(q, m)'
      BY <1>1, <2>2 DEF HalfMoved, Busy
    <2> QED BY <2>1, <2>3
  <1>6. Kept' /\ Linked' /\ FirstType'
    BY <1>1 DEF NInv, Kept, Linked, FirstType, Marked
  <1>7. Waiting'
    BY <1>1, <1>5 DEF NInv, Waiting, Marked
  <1>8. Plans(r)'
    <2>1. \A m \in Mappers :
            IF disk[Overlay(m)] # {} \/ archive[m] # {}
            THEN new[Overlay(m)] = disk[Overlay(m)]
            ELSE /\ new[Overlay(m)] = {Content(disk[Data(m)]) \ tx[r].fetched[m]}
                 /\ m \notin torn => disk[Data(m)] = before[m]
      BY <1>4, <1>5 DEF NInv, Waiting, Marked, LocalOnly
    <2> QED BY <1>1, <1>2, <1>3, <2>1 DEF Plans
  <1>9. \A q \in Refreshers \ {r} : Plans(q)'
    BY <1>1 DEF NInv, Plans
  <1> QED BY <1>6, <1>7, <1>8, <1>9 DEF NInv

LEMMA NamesCommitFails ==
  ASSUME TInv, NInv, NEW r \in Refreshers, CommitFails(r) PROVE NInv'
  <1> USE DEF TInv, TypeOK
  <1>1. UNCHANGED <<disk, archive, arch, before, first, torn>>
        /\ At(r, "commit") /\ tx[r] \in Txs /\ \A q \in Refreshers \ {r} : tx'[q] = tx[q]
    BY DEF CommitFails, ghosts, TxTypes
  <1>2. /\ tx'[r].pc = IF tx[r].done = {} THEN "release" ELSE "rollback"
        /\ tx'[r].staged = tx[r].staged /\ tx'[r].new = tx[r].new /\ tx'[r].was = tx[r].was
        /\ tx'[r].done = tx[r].done /\ tx'[r].spoilt = tx[r].spoilt
        /\ tx'[r].fetched = tx[r].fetched
    BY <1>1 DEF CommitFails, TxTypes, Txs
  <1>3. tx[r].spoilt = {}
    BY <1>1 DEF Sound, Committing
  <1>4. \A m \in Mappers, q \in Refreshers : HalfMoved(q, m) <=> HalfMoved(q, m)'
    BY <1>1, <1>2 DEF HalfMoved, At
  <1>5. Kept' /\ Linked' /\ FirstType'
    BY <1>1 DEF NInv, Kept, Linked, FirstType, Marked
  <1>6. Waiting'
    BY <1>1, <1>4 DEF NInv, Waiting, Marked
  <1>7. Plans(r)'
    BY <1>1, <1>2, <1>3 DEF NInv, Plans, At, Busy
  <1>8. \A q \in Refreshers \ {r} : Plans(q)'
    BY <1>1 DEF NInv, Plans
  <1> QED BY <1>5, <1>6, <1>7, <1>8 DEF NInv

LEMMA NamesCommit == ASSUME TInv, NInv, NEW r \in Refreshers, Commit(r) PROVE NInv'
  <1> USE DEF TInv, TypeOK
  <1>1. PICK p \in Paths :
          /\ MayCommit(r, p)
          /\ disk' = [disk EXCEPT ![p] = tx[r].new[p]]
          /\ tx' = [tx EXCEPT ![r].staged = @ \ {p}, ![r].done = @ \cup {p},
                              ![r].pc = IF tx[r].staged = {p} THEN "release" ELSE "commit"]
          /\ first' = IF p \in Datas THEN first
                      ELSE [first EXCEPT ![p[1]] = tx[r].fetched[p[1]]]
    BY DEF Commit
  <1>2. At(r, "commit") /\ UNCHANGED <<archive, arch, before, torn>> /\ tx[r] \in Txs
        /\ \A q \in Refreshers \ {r} : tx'[q] = tx[q]
    BY <1>1 DEF Commit, TxTypes
  <1>3. /\ tx'[r].staged = tx[r].staged \ {p} /\ tx'[r].done = tx[r].done \cup {p}
        /\ tx'[r].pc = IF tx[r].staged = {p} THEN "release" ELSE "commit"
        /\ tx'[r].new = tx[r].new /\ tx'[r].was = tx[r].was
        /\ tx'[r].spoilt = tx[r].spoilt /\ tx'[r].fetched = tx[r].fetched
    BY <1>1, <1>2 DEF TxTypes, Txs
  <1>4. /\ tx[r].spoilt = {} /\ p \in tx[r].staged /\ p \notin tx[r].done
        /\ \A m \in Mappers : tx[r].new[Overlay(m)] # {} \/ archive[m] # {}
    BY <1>1, <1>2 DEF Sound, Committing, MayCommit
  <1>5. /\ \A q \in tx[r].staged \cup tx[r].done \cup tx[r].spoilt : tx[r].new[q] # tx[r].was[q]
        /\ \A q \in Paths : disk[q] = IF q \in tx[r].done \cup tx[r].spoilt
                                      THEN tx[r].new[q] ELSE tx[r].was[q]
        /\ \A m \in Mappers :
             IF tx[r].was[Overlay(m)] # {} \/ archive[m] # {}
             THEN tx[r].new[Overlay(m)] = tx[r].was[Overlay(m)]
             ELSE /\ tx[r].new[Overlay(m)] = {Content(tx[r].was[Data(m)]) \ tx[r].fetched[m]}
                  /\ m \notin torn => tx[r].was[Data(m)] = before[m]
    BY <1>2 DEF NInv, Plans, At, Busy
  <1>6. disk'[p] = tx[r].new[p] /\ \A q \in Paths \ {p} : disk'[q] = disk[q]
    BY <1>1 DEF FileTypes, Images
  <1>7. \A q \in Refreshers \ {r} : tx[q].pc \notin Inside
    BY <1>2, RenamerAlone DEF At, Inside
  <1>8. Linked'
    BY <1>2, NoArchival DEF At, Inside, Linked
  <1>9. FirstType'
    <2>1. CASE p \in Datas
      BY <1>1, <2>1 DEF NInv, FirstType
    <2>2. CASE p \notin Datas
      <3>1. tx[r].fetched[p[1]] \in SUBSET Keys
        BY <1>2, <2>2, OverlayPaths, ModelDataAssumption DEF TxTypes, Fetches, At
      <3> QED BY <1>1, <2>2, <3>1 DEF NInv, FirstType
    <2> QED BY <2>1, <2>2
  <1>10. Kept'
    <2> SUFFICES ASSUME NEW m \in Mappers \ torn, Marked(m)'
                 PROVE  Content(disk'[Overlay(m)]) \cup Content(archive[m])
                          = Content(before[m]) \ first'[m]
      BY <1>2 DEF Kept
    <2>1. CASE p = Overlay(m)
      <3>1. /\ tx[r].was[Overlay(m)] = {} /\ archive[m] = {}
            /\ tx[r].new[Overlay(m)] = {Content(before[m]) \ tx[r].fetched[m]}
        BY <1>4, <1>5, <2>1
      <3>2. first'[m] = tx[r].fetched[m]
        <4>1. p \notin Datas /\ p[1] = m
          BY <2>1, DataPaths DEF Overlay
        <4> QED BY <1>1, <4>1 DEF NInv, FirstType
      <3>3. disk'[Overlay(m)] = {Content(before[m]) \ tx[r].fetched[m]}
        BY <1>6, <2>1, <3>1
      <3>4. UNION {Content(before[m]) \ tx[r].fetched[m]} = Content(before[m]) \ tx[r].fetched[m]
        OBVIOUS
      <3>5. Content(disk'[Overlay(m)]) = Content(before[m]) \ tx[r].fetched[m]
        BY <3>3, <3>4 DEF Content
      <3>6. Content(archive[m]) = {}
        BY <3>1 DEF Content
      <3> QED BY <3>2, <3>5, <3>6
    <2>2. CASE p # Overlay(m)
      <3>1. disk'[Overlay(m)] = disk[Overlay(m)]
        BY <1>6, <2>2, DataPaths, PathFacts
      <3>2. first'[m] = first[m]
        BY <1>1, <2>2, OverlayPaths DEF NInv, FirstType
      <3>3. Marked(m)
        BY <1>2, <3>1 DEF Marked
      <3> QED BY <3>1, <3>2, <3>3 DEF NInv, Kept
    <2> QED BY <2>1, <2>2
  <1>11. Waiting'
    <2> SUFFICES ASSUME NEW m \in Mappers \ torn, ~Marked(m)', ~HalfMoved(r, m)'
                 PROVE  disk'[Data(m)] = before[m]
      BY <1>2 DEF Waiting
    <2>0. Overlay(m) \in Paths /\ Data(m) \in Paths
      BY DataPaths, PathFacts
    <2>1. archive[m] = {} /\ disk'[Overlay(m)] = {} /\ tx[r].new[Overlay(m)] # {}
      BY <1>2, <1>4 DEF Marked
    <2>2. p # Overlay(m) /\ disk[Overlay(m)] = {} /\ Overlay(m) \notin tx[r].done
      BY <1>4, <1>5, <1>6, <2>0, <2>1
    <2>3. tx[r].was[Overlay(m)] = {}
      BY <1>4, <1>5, <2>0, <2>2
    <2>4. At(r, "commit")'
      <3>1. SUFFICES ASSUME tx[r].staged = {p} PROVE FALSE
        BY <1>3 DEF At
      <3>2. Overlay(m) \notin tx[r].staged \cup tx[r].done
        BY <2>2, <3>1
      <3>3. tx[r].new[Overlay(m)] = tx[r].was[Overlay(m)]
        BY <1>2, <2>0, <3>2 DEF Sound, Committing
      <3> QED BY <2>1, <2>3, <3>3
    <2>5. Data(m) \notin tx'[r].done
      BY <1>3, <1>4, <2>1, <2>2, <2>3, <2>4 DEF HalfMoved, At
    <2>6. disk'[Data(m)] = tx[r].was[Data(m)]
      BY <1>3, <1>4, <1>5, <1>6, <2>0, <2>5
    <2> QED BY <1>5, <2>1, <2>3, <2>6
  <1>12. Plans(r)'
    <2>1. \A q \in Paths : disk'[q] = IF q \in tx'[r].done \cup tx'[r].spoilt
                                      THEN tx'[r].new[q] ELSE tx'[r].was[q]
      BY <1>3, <1>5, <1>6
    <2>2. \A q \in tx'[r].staged \cup tx'[r].done \cup tx'[r].spoilt :
            tx'[r].new[q] # tx'[r].was[q]
      BY <1>3, <1>4, <1>5
    <2> QED BY <1>2, <1>3, <1>4, <1>5, <2>1, <2>2 DEF Plans
  <1>13. \A q \in Refreshers \ {r} : Plans(q)'
    BY <1>2, <1>7 DEF Plans, Busy, Inside
  <1> QED BY <1>8, <1>9, <1>10, <1>11, <1>12, <1>13 DEF NInv

LEMMA NamesRollback ==
  ASSUME TInv, NInv, NEW r \in Refreshers, Rollback(r) PROVE NInv'
  <1> USE DEF TInv, TypeOK
  <1>1. PICK p \in Paths :
          /\ MayRestore(r, p)
          /\ disk' = [disk EXCEPT ![p] = tx[r].was[p]]
          /\ tx' = [tx EXCEPT ![r].done = @ \ {p},
                              ![r].pc = IF tx[r].done = {p} THEN "release" ELSE "rollback"]
          /\ first' = IF p \in Datas THEN first ELSE [first EXCEPT ![p[1]] = {}]
    BY DEF Rollback, Restored
  <1>2. At(r, "rollback") /\ UNCHANGED <<archive, arch, before, torn>> /\ tx[r] \in Txs
        /\ \A q \in Refreshers \ {r} : tx'[q] = tx[q]
    BY <1>1 DEF Rollback, TxTypes
  <1>3. /\ tx'[r].staged = tx[r].staged /\ tx'[r].done = tx[r].done \ {p}
        /\ tx'[r].pc = IF tx[r].done = {p} THEN "release" ELSE "rollback"
        /\ tx'[r].new = tx[r].new /\ tx'[r].was = tx[r].was
        /\ tx'[r].spoilt = tx[r].spoilt /\ tx'[r].fetched = tx[r].fetched
    BY <1>1, <1>2 DEF TxTypes, Txs
  <1>4. p \in tx[r].done
    BY <1>1 DEF MayRestore
  <1>5. /\ \A q \in tx[r].staged \cup tx[r].done \cup tx[r].spoilt : tx[r].new[q] # tx[r].was[q]
        /\ \A q \in Paths : disk[q] = IF q \in tx[r].done \cup tx[r].spoilt
                                      THEN tx[r].new[q] ELSE tx[r].was[q]
        /\ tx[r].done \cap tx[r].spoilt = {}
        /\ \A m \in Mappers \ torn : Data(m) \in tx[r].spoilt =>
             \/ Overlay(m) \in tx[r].spoilt
             \/ tx[r].new[Overlay(m)] = tx[r].was[Overlay(m)]
        /\ \A m \in Mappers :
             IF tx[r].was[Overlay(m)] # {} \/ archive[m] # {}
             THEN tx[r].new[Overlay(m)] = tx[r].was[Overlay(m)]
             ELSE /\ tx[r].new[Overlay(m)] = {Content(tx[r].was[Data(m)]) \ tx[r].fetched[m]}
                  /\ m \notin torn => tx[r].was[Data(m)] = before[m]
    BY <1>2 DEF NInv, Plans, At, Busy
  <1>6. disk'[p] = tx[r].was[p] /\ \A q \in Paths \ {p} : disk'[q] = disk[q]
    BY <1>1 DEF FileTypes, Images
  <1>7. \A q \in Refreshers \ {r} : tx[q].pc \notin Inside
    BY <1>2, RenamerAlone DEF At, Inside
  <1>8. Linked'
    BY <1>2, NoArchival DEF At, Inside, Linked
  <1>9. FirstType'
    BY <1>1, OverlayPaths DEF NInv, FirstType
  <1>10. Kept'
    <2> SUFFICES ASSUME NEW m \in Mappers \ torn, Marked(m)'
                 PROVE  Content(disk'[Overlay(m)]) \cup Content(archive[m])
                          = Content(before[m]) \ first'[m]
      BY <1>2 DEF Kept
    <2>1. p # Overlay(m)
      BY <1>2, <1>4, <1>5, <1>6 DEF Marked
    <2>2. disk'[Overlay(m)] = disk[Overlay(m)]
      BY <1>6, <2>1, DataPaths, PathFacts
    <2>3. first'[m] = first[m]
      BY <1>1, <2>1, OverlayPaths DEF NInv, FirstType
    <2>4. Marked(m)
      BY <1>2, <2>2 DEF Marked
    <2> QED BY <2>2, <2>3, <2>4 DEF NInv, Kept
  <1>11. Waiting'
    <2> SUFFICES ASSUME NEW m \in Mappers \ torn, ~Marked(m)', ~HalfMoved(r, m)'
                 PROVE  disk'[Data(m)] = before[m]
      BY <1>2 DEF Waiting
    <2>0. Overlay(m) \in Paths /\ Data(m) \in Paths /\ Data(m) \in Datas
          /\ Overlay(m) \notin Datas
      BY DataPaths, PathFacts
    <2>1. archive[m] = {} /\ disk'[Overlay(m)] = {}
      BY <1>2 DEF Marked
    <2>2. tx[r].was[Overlay(m)] = {}
      <3>1. CASE p = Overlay(m)
        BY <1>6, <2>1, <3>1
      <3>2. CASE p # Overlay(m)
        BY <1>5, <1>6, <2>0, <2>1, <3>2
      <3> QED BY <3>1, <3>2
    <2>3. /\ tx[r].new[Overlay(m)] = {Content(tx[r].was[Data(m)]) \ tx[r].fetched[m]}
          /\ tx[r].was[Data(m)] = before[m]
      BY <1>5, <2>1, <2>2
    <2>4. p = Overlay(m) \/ Overlay(m) \notin tx[r].done \cup tx[r].spoilt
      <3> SUFFICES ASSUME p # Overlay(m), Overlay(m) \in tx[r].done \cup tx[r].spoilt
                   PROVE  FALSE
        OBVIOUS
      <3>1. disk[Overlay(m)] = {}
        BY <1>6, <2>0, <2>1
      <3>2. disk[Overlay(m)] = tx[r].new[Overlay(m)]
        <4> HIDE DEF NInv, Plans
        <4> QED BY <1>5, <2>0
      <3> QED BY <2>3, <3>1, <3>2
    <2>5. Data(m) \notin tx'[r].done
      <3>1. CASE tx[r].done = {p}
        BY <1>3, <3>1
      <3>2. CASE tx[r].done # {p}
        <4>1. tx'[r].pc = "rollback"
          BY <1>3, <3>2
        <4>2. Overlay(m) \notin tx'[r].done \cup tx'[r].spoilt
          BY <1>3, <1>4, <1>5, <2>4
        <4>3. tx'[r].new[Overlay(m)] # tx'[r].was[Overlay(m)]
          BY <1>3, <2>2, <2>3
        <4> QED BY <4>1, <4>2, <4>3 DEF HalfMoved
      <3> QED BY <3>1, <3>2
    <2>6. Data(m) \notin tx[r].spoilt
      BY <1>4, <1>5, <2>2, <2>3, <2>4
    <2>7. disk'[Data(m)] = tx[r].was[Data(m)]
      BY <1>3, <1>5, <1>6, <2>0, <2>5, <2>6
    <2> QED BY <2>3, <2>7
  <1>12. Plans(r)'
    <2>1. \A q \in Paths : disk'[q] = IF q \in tx'[r].done \cup tx'[r].spoilt
                                      THEN tx'[r].new[q] ELSE tx'[r].was[q]
      BY <1>3, <1>4, <1>5, <1>6
    <2>2. \A q \in tx'[r].staged \cup tx'[r].done \cup tx'[r].spoilt :
            tx'[r].new[q] # tx'[r].was[q]
      BY <1>3, <1>5
    <2>3. tx'[r].done \cap tx'[r].spoilt = {}
      BY <1>3, <1>5
    <2> QED BY <1>2, <1>3, <1>5, <2>1, <2>2, <2>3 DEF Plans
  <1>13. \A q \in Refreshers \ {r} : Plans(q)'
    BY <1>2, <1>7 DEF Plans, Busy, Inside
  <1> QED BY <1>8, <1>9, <1>10, <1>11, <1>12, <1>13 DEF NInv

LEMMA NamesRollbackFails ==
  ASSUME TInv, NInv, NEW r \in Refreshers, RollbackFails(r) PROVE NInv'
  <1> USE DEF TInv, TypeOK
  <1>1. PICK p \in Paths :
          /\ MayRestore(r, p)
          /\ tx' = [tx EXCEPT ![r].done = @ \ {p}, ![r].spoilt = @ \cup {p},
                              ![r].pc = IF tx[r].done = {p} THEN "release" ELSE "rollback"]
          /\ torn' = torn \cup
               {m \in Mappers : /\ Data(m) = p /\ Overlay(m) \notin tx[r].spoilt
                                /\ tx[r].new[Overlay(m)] # tx[r].was[Overlay(m)]}
    BY DEF RollbackFails
  <1>2. At(r, "rollback") /\ UNCHANGED <<disk, archive, arch, before, first>> /\ tx[r] \in Txs
        /\ \A q \in Refreshers \ {r} : tx'[q] = tx[q]
    BY <1>1 DEF RollbackFails, TxTypes
  <1>3. /\ tx'[r].staged = tx[r].staged /\ tx'[r].done = tx[r].done \ {p}
        /\ tx'[r].pc = IF tx[r].done = {p} THEN "release" ELSE "rollback"
        /\ tx'[r].new = tx[r].new /\ tx'[r].was = tx[r].was
        /\ tx'[r].spoilt = tx[r].spoilt \cup {p} /\ tx'[r].fetched = tx[r].fetched
    BY <1>1, <1>2 DEF TxTypes, Txs
  <1>4. p \in tx[r].done
    BY <1>1 DEF MayRestore
  <1>5. /\ \A q \in tx[r].staged \cup tx[r].done \cup tx[r].spoilt : tx[r].new[q] # tx[r].was[q]
        /\ \A q \in Paths : disk[q] = IF q \in tx[r].done \cup tx[r].spoilt
                                      THEN tx[r].new[q] ELSE tx[r].was[q]
        /\ tx[r].done \cap tx[r].spoilt = {}
        /\ \A m \in Mappers \ torn : Data(m) \in tx[r].spoilt =>
             \/ Overlay(m) \in tx[r].spoilt
             \/ tx[r].new[Overlay(m)] = tx[r].was[Overlay(m)]
        /\ \A m \in Mappers :
             IF tx[r].was[Overlay(m)] # {} \/ archive[m] # {}
             THEN tx[r].new[Overlay(m)] = tx[r].was[Overlay(m)]
             ELSE /\ tx[r].new[Overlay(m)] = {Content(tx[r].was[Data(m)]) \ tx[r].fetched[m]}
                  /\ m \notin torn => tx[r].was[Data(m)] = before[m]
    BY <1>2 DEF NInv, Plans, At, Busy
  <1>6. \A q \in Refreshers \ {r} : tx[q].pc \notin Inside
    BY <1>2, RenamerAlone DEF At, Inside
  <1>7. Linked' /\ FirstType'
    BY <1>2 DEF NInv, Linked, FirstType
  <1>8. Kept'
    BY <1>1, <1>2 DEF NInv, Kept, Marked
  <1>9. Waiting'
    <2> SUFFICES ASSUME NEW m \in Mappers \ torn', ~Marked(m), ~HalfMoved(r, m)'
                 PROVE  disk[Data(m)] = before[m]
      BY <1>2 DEF Waiting, Marked
    <2>1. m \notin torn
      BY <1>1
    <2>2. \A q \in Refreshers \ {r} : ~HalfMoved(q, m)
      BY <1>6 DEF HalfMoved, Inside
    <2>3. SUFFICES ASSUME HalfMoved(r, m) PROVE FALSE
      BY <2>1, <2>2 DEF NInv, Waiting
    <2>4. /\ Data(m) \in tx[r].done /\ Overlay(m) \notin tx[r].done \cup tx[r].spoilt
          /\ tx[r].new[Overlay(m)] # tx[r].was[Overlay(m)]
      BY <2>3 DEF HalfMoved
    <2>5. p # Data(m)
      BY <1>1, <2>4
    <2>6. p # Overlay(m)
      BY <1>4, <2>4
    <2> QED BY <1>3, <2>4, <2>5, <2>6 DEF HalfMoved
  <1>10. Plans(r)'
    <2>1. \A q \in Paths : disk'[q] = IF q \in tx'[r].done \cup tx'[r].spoilt
                                      THEN tx'[r].new[q] ELSE tx'[r].was[q]
      BY <1>2, <1>3, <1>4, <1>5
    <2>2. \A q \in tx'[r].staged \cup tx'[r].done \cup tx'[r].spoilt :
            tx'[r].new[q] # tx'[r].was[q]
      BY <1>3, <1>4, <1>5
    <2>3. tx'[r].done \cap tx'[r].spoilt = {}
      BY <1>3, <1>5
    <2>4. \A m \in Mappers \ torn' : Data(m) \in tx'[r].spoilt =>
            \/ Overlay(m) \in tx'[r].spoilt
            \/ tx'[r].new[Overlay(m)] = tx'[r].was[Overlay(m)]
      BY <1>1, <1>3, <1>5
    <2>5. \A m \in Mappers : m \notin torn' => m \notin torn
      BY <1>1
    <2> QED BY <1>2, <1>3, <1>5, <2>1, <2>2, <2>3, <2>4, <2>5 DEF Plans
  <1>11. \A q \in Refreshers \ {r} : Plans(q)'
    BY <1>2, <1>6 DEF Plans, Busy, Inside
  <1> QED BY <1>7, <1>8, <1>9, <1>10, <1>11 DEF NInv

LEMMA NamesCrash == TInv /\ NInv /\ Crash => NInv'
  <1> SUFFICES ASSUME TInv, NInv, Crash PROVE NInv'
    OBVIOUS
  <1>1. UNCHANGED <<disk, archive, before, first>> /\ arch'.pc = "idle"
        /\ \A r \in Refreshers : tx'[r].pc = "idle"
    BY DEF Crash, Rest, Idle
  <1>2. /\ \A m \in Mappers \ torn' : m \notin torn
        /\ \A m \in Mappers \ torn', r \in Refreshers : ~HalfMoved(r, m)
    BY DEF Crash
  <1>3. FirstType' /\ Linked'
    BY <1>1 DEF NInv, FirstType, Linked
  <1>4. Kept'
    BY <1>2, <1>1 DEF NInv, Kept, Marked
  <1>5. Waiting'
    BY <1>2, <1>1 DEF NInv, Waiting, Marked
  <1>6. \A r \in Refreshers : Plans(r)'
    BY <1>1 DEF Plans, Busy
  <1> QED BY <1>4, <1>5, <1>6, <1>3 DEF NInv

LEMMA StepNInv == TInv /\ NInv /\ [Next]_vars => NInv'
  <1> SUFFICES ASSUME TInv, NInv, [Next]_vars PROVE NInv'
    OBVIOUS
  <1>1. ASSUME NEW r \in Refreshers, Refresh(r) PROVE NInv'
    BY <1>1, NamesQuiet, NamesStage, NamesCommit, NamesCommitFails, NamesRollback,
       NamesRollbackFails DEF Refresh
  <1>2. CASE Finished \/ UNCHANGED vars
    BY <1>2 DEF Finished, vars, NInv, FirstType, Kept, Waiting, Linked, Plans, Marked, HalfMoved
  <1> QED BY <1>1, <1>2, NamesArchive, NamesCrash DEF Next

LEMMA InitNInv == Init => NInv
  <1> SUFFICES ASSUME Init PROVE NInv
    OBVIOUS
  <1>1. FirstType /\ Linked
    BY DEF Init, FirstType, Linked, Rest
  <1>2. Kept
    BY DEF Init, Kept, Marked
  <1>3. Waiting
    BY ModelDataAssumption DEF Init, Waiting
  <1>4. \A r \in Refreshers : Plans(r)
    BY DEF Init, Plans, Idle, Busy
  <1> QED BY <1>1, <1>2, <1>3, <1>4 DEF NInv

\* Once a mapper is marked, the names its users had added are where they are looked for,
\* and no name that only upstream removed is among them; until then the file is as it was
\* (name_mapper.py:96-138, 196-210): after any number of refreshes, archivals, failures
\* and kills, but for the mappers `torn` names.
THEOREM NamesKeptHolds == Spec => []NamesKept
  <1>1. TInv /\ NInv => NamesKept
    BY DEF NInv, Kept, Waiting, NamesKept, HalfMoved, At
  <1>2. Init => TInv /\ NInv
    BY InitTInv, InitNInv
  <1>3. (TInv /\ NInv) /\ [Next]_vars => (TInv /\ NInv)'
    BY StepTInv, StepNInv
  <1> QED BY <1>1, <1>2, <1>3, PTL DEF Spec
=============================================================================
