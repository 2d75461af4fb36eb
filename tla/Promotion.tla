------------------------------ MODULE Promotion -----------------------------
(***************************************************************************)
(* cli/promotion.py and cli/promotion_plan.py: a process publishes the      *)
(* staged files of one input into the output directory, as one unit and     *)
(* under one of four policies for names that are taken.  Other processes    *)
(* promote into the same directory (the lock is per process), and other     *)
(* programs write there.  A file that is part of the unit keeps one suffix  *)
(* with the rest of it; another one is given a suffix of its own.           *)
(***************************************************************************)
EXTENDS Naturals, Sequences, FiniteSets

CONSTANTS Promoters,  \* processes, each with a stage of its own
          NumFiles,   \* files of a stage, in the order of os.walk
          Unit,       \* those whose name has the base of the track
          Taken,      \* names that may be taken at the start
          MaxSuffix,  \* bound: suffixes tried; 0 is no suffix, 1 is "_2"
          MaxForeign, \* bound: files written by other programs
          MaxFaults   \* bound: calls that raise OSError, interrupts, processes that die

Files    == 1..NumFiles
Suffixes == 0..MaxSuffix
Paths    == Files \X Suffixes
Policies == {"fail", "skip", "rename", "overwrite"}

ASSUME PromotionAssumption ==
  /\ NumFiles \in Nat \ {0} /\ Unit \subseteq Files /\ Taken \subseteq Paths
  /\ MaxSuffix \in Nat \ {0} /\ MaxForeign \in Nat /\ MaxFaults \in Nat
  /\ Promoters \cap {"none", "old", "other"} = {}

Free     == "none"
Contents == Promoters \cup {"old", "other", Free}

VARIABLES disk,    \* what each path of the output directory holds
          bak,     \* what the backup of each target holds
          stage,   \* what each staged file holds
          policy,  \* --on-exists of each process, "none": it does not run
          tx,      \* the transaction of each process
          before,  \* ghost: the directory at the start
          foreign, \* files written by other programs
          faults   \* ghost: the calls that failed, by process

vars == <<disk, bak, stage, policy, tx, before, foreign, faults>>

Pcs  == {"start", "backup", "move", "undo", "rollback", "restore", "clean",
         "done", "failed", "skipped", "dead"}
Ended == {"done", "failed", "skipped", "dead"}
Calls == {"backup", "move", "undo", "rollback", "restore", "clean",
          "interrupt", "kill"}

TypeOK ==
  /\ disk \in [Paths -> Contents] /\ before \in [Paths -> Contents]
  /\ bak \in [Files -> Contents]
  /\ stage \in [Promoters -> [Files -> Contents]]
  /\ policy \in [Promoters -> Policies \cup {"none"}]
  /\ tx \in [Promoters -> [pc : Pcs, k : Nat, suffix : Suffixes, own : Suffixes, moved : Seq(Files \X Paths),
                           backed : Seq(Files), error : {"none", "failed", "skipped"}]]
  /\ foreign \in 0..MaxForeign
  /\ faults \in [Promoters -> SUBSET Calls]

NewTx == [pc |-> "start", k |-> 1, suffix |-> 0, own |-> 0, moved |-> <<>>, backed |-> <<>>,
          error |-> "none"]

\* One process that overwrites, or any number that do not.
Solo(p) == policy[p] = "overwrite" /\ \A q \in Promoters \ {p} : policy[q] = "none"

Init ==
  /\ policy \in [Promoters -> Policies \cup {"none"}]
  /\ (\E p \in Promoters : policy[p] = "overwrite") => \E p \in Promoters : Solo(p)
  /\ \E T \in SUBSET Taken : disk = [t \in Paths |-> IF t \in T THEN "old" ELSE Free]
  /\ before = disk
  /\ bak = [f \in Files |-> Free]
  /\ stage = [p \in Promoters |-> [f \in Files |-> p]]
  /\ tx = [p \in Promoters |-> NewTx]
  /\ foreign = 0 /\ faults = [p \in Promoters |-> {}]

----------------------------------------------------------------------------
(* Helpers.                                                                 *)

At(p, pc)  == policy[p] # "none" /\ tx[p].pc = pc
Least(S)   == CHOOSE i \in S : \A j \in S : i <= j
Target(p)  == <<tx[p].k, IF tx[p].own # 0 THEN tx[p].own
                         ELSE IF tx[p].k \in Unit THEN tx[p].suffix ELSE 0>>
Collides   == \E f \in Files : disk[<<f, 0>>] # Free

\* _apply_unit_rename: the first suffix, from the given one, free for the whole unit
FreeSuffixes(from) == {i \in from..MaxSuffix : \A f \in Unit : disk[<<f, i>>] = Free}

\* A mutant: what rename does for a single file it does for the unit's, too.
PerFile(p) == FALSE

\* The unit is split when one of its own files finds its name taken.
Splits(p) == tx[p].k \in Unit

\* _unique_target for a file with a name of its own (a second race gives it a second
\* suffix behind the first; here, the next one)
UniqueSuffixes(f) == {i \in 1..MaxSuffix : disk[<<f, i>>] = Free}

\* A mutant: rename(2), which replaces.
Replaceable(p, t) == TRUE

\* lexists and _move_no_replace, or os.replace
MayTake(p, t) == policy[p] = "overwrite" \/ disk[t] = Free

\* A mutant: the file that is being replaced is not backed up.
NothingToBackUp(t) == FALSE

NeedsBackup(t) == disk[t] # Free

\* A mutant: the last file that was moved is forgotten.
ForgetLast(p) == Len(tx[p].moved) - 1

\* Where the rollback begins: the moved files, the last one first.
LastMoved(p) == Len(tx[p].moved)

Failures == Cardinality(UNION {{p} \X faults[p] : p \in Promoters})

\* The transaction of p goes on at another place.
Goto(p, pc, k) == tx' = [tx EXCEPT ![p].pc = pc, ![p].k = k]

\* An exception: the moved files are taken back, then the backups.
Raise(p, error) == tx' = [tx EXCEPT ![p].pc = "rollback", ![p].k = LastMoved(p),
                                    ![p].error = error]

\* A staged file is renamed to its target.
Rename(p, t) == /\ disk' = [disk EXCEPT ![t] = stage[p][tx[p].k]]
                /\ stage' = [stage EXCEPT ![p][tx[p].k] = Free]

\* A target is renamed to its backup.
SetAside(f) == /\ bak' = [bak EXCEPT ![f] = disk[<<f, 0>>]]
               /\ disk' = [disk EXCEPT ![<<f, 0>>] = Free]

\* The file landed, and is recorded.
Landed(p, t) ==
  /\ Rename(p, t)
  /\ tx' = [tx EXCEPT ![p].k = @ + 1, ![p].own = 0,
                      ![p].moved = Append(@, <<tx[p].k, t>>)]

\* os.replace(target, source), if something is at the target
TakeBack(p) ==
  LET f == tx[p].moved[tx[p].k][1]
      t == tx[p].moved[tx[p].k][2]
  IN IF disk[t] = Free THEN UNCHANGED <<disk, stage>>
     ELSE /\ stage' = [stage EXCEPT ![p][f] = disk[t]]
          /\ disk' = [disk EXCEPT ![t] = Free]

----------------------------------------------------------------------------
(* The steps of a promotion.                                                *)

Precheck(p) ==
  /\ At(p, "start")
  /\ IF Collides /\ policy[p] = "fail" THEN Goto(p, "failed", 0)
     ELSE IF Collides /\ policy[p] = "skip" THEN Goto(p, "skipped", 0)
     ELSE IF policy[p] = "overwrite" THEN Goto(p, "backup", 1)
     ELSE IF Collides /\ policy[p] = "rename" /\ Unit # {}
     THEN /\ FreeSuffixes(1) # {}
          /\ tx' = [tx EXCEPT ![p].pc = "move", ![p].suffix = Least(FreeSuffixes(1))]
     ELSE Goto(p, "move", 1)
  /\ UNCHANGED <<disk, bak, stage, policy, before, foreign, faults>>

\* The target becomes its backup, by a rename.
Backup(p) ==
  /\ At(p, "backup") /\ tx[p].k <= NumFiles
  /\ LET f == tx[p].k IN
       IF NeedsBackup(<<f, 0>>)
       THEN /\ SetAside(f)
            /\ tx' = [tx EXCEPT ![p].k = @ + 1, ![p].backed = Append(@, f)]
       ELSE Goto(p, "backup", f + 1) /\ UNCHANGED <<disk, bak>>
  /\ UNCHANGED <<stage, policy, before, foreign, faults>>

BackedUp(p) ==
  /\ At(p, "backup") /\ tx[p].k > NumFiles
  /\ Goto(p, "move", 1)
  /\ UNCHANGED <<disk, bak, stage, policy, before, foreign, faults>>

Move(p) ==
  /\ At(p, "move") /\ tx[p].k <= NumFiles
  /\ MayTake(p, Target(p))
  /\ Landed(p, Target(p))
  /\ UNCHANGED <<bak, policy, before, foreign, faults>>

\* FileExistsError: the name was taken since the plan, or is that of a sidecar, which
\* the plan leaves alone and which is given the first free name of its own.
MoveTaken(p) ==
  /\ At(p, "move") /\ tx[p].k <= NumFiles
  /\ ~MayTake(p, Target(p))
  /\ \/ policy[p] = "fail" /\ Raise(p, "failed")
     \/ policy[p] = "skip" /\ Raise(p, "skipped")
     \/ policy[p] = "rename" /\ Splits(p) /\ Goto(p, "undo", Len(tx[p].moved))
     \/ /\ policy[p] = "rename" /\ ~Splits(p) /\ UniqueSuffixes(tx[p].k) # {}
        /\ tx' = [tx EXCEPT ![p].own = Least(UniqueSuffixes(tx[p].k))]
  /\ UNCHANGED <<disk, bak, stage, policy, before, foreign, faults>>

AllMoved(p) ==
  /\ At(p, "move") /\ tx[p].k > NumFiles
  /\ Goto(p, "clean", 1)
  /\ UNCHANGED <<disk, bak, stage, policy, before, foreign, faults>>

\* A restart takes the moved files back, and plans the unit with a later suffix.
Undo(p) ==
  /\ At(p, "undo") /\ tx[p].k > 0
  /\ TakeBack(p) /\ Goto(p, "undo", tx[p].k - 1)
  /\ UNCHANGED <<bak, policy, before, foreign, faults>>

Restart(p) ==
  /\ At(p, "undo") /\ tx[p].k = 0 /\ FreeSuffixes(tx[p].suffix + 1) # {}
  /\ tx' = [tx EXCEPT ![p].pc = "move", ![p].k = 1, ![p].own = 0,
                      ![p].moved = <<>>, ![p].suffix = Least(FreeSuffixes(@ + 1))]
  /\ UNCHANGED <<disk, bak, stage, policy, before, foreign, faults>>

\* The except clause.  It begins with all moved files, those that an interrupted
\* restart has taken back included.
Rollback(p) ==
  /\ At(p, "rollback") /\ tx[p].k > 0
  /\ TakeBack(p) /\ Goto(p, "rollback", tx[p].k - 1)
  /\ UNCHANGED <<bak, policy, before, foreign, faults>>

RolledBack(p) ==
  /\ At(p, "rollback") /\ tx[p].k = 0
  /\ Goto(p, "restore", 1)
  /\ UNCHANGED <<disk, bak, stage, policy, before, foreign, faults>>

Restore(p) ==
  /\ At(p, "restore") /\ tx[p].k <= Len(tx[p].backed)
  /\ LET f == tx[p].backed[tx[p].k] IN
       /\ disk' = IF bak[f] = Free THEN disk ELSE [disk EXCEPT ![<<f, 0>>] = bak[f]]
       /\ bak' = [bak EXCEPT ![f] = Free]
  /\ Goto(p, "restore", tx[p].k + 1)
  /\ UNCHANGED <<stage, policy, before, foreign, faults>>

Restored(p) ==
  /\ At(p, "restore") /\ tx[p].k > Len(tx[p].backed)
  /\ Goto(p, tx[p].error, 0)
  /\ UNCHANGED <<disk, bak, stage, policy, before, foreign, faults>>

\* The unit has landed: its backups are removed.
Clean(p) ==
  /\ At(p, "clean") /\ tx[p].k <= Len(tx[p].backed)
  /\ bak' = [bak EXCEPT ![tx[p].backed[tx[p].k]] = Free]
  /\ Goto(p, "clean", tx[p].k + 1)
  /\ UNCHANGED <<disk, stage, policy, before, foreign, faults>>

Cleaned(p) ==
  /\ At(p, "clean") /\ tx[p].k > Len(tx[p].backed)
  /\ Goto(p, "done", 0)
  /\ UNCHANGED <<disk, bak, stage, policy, before, foreign, faults>>

\* OSError from the call at hand: inside the try it is rolled back; from the rollback
\* itself, or from the removal of a backup, it leaves _promote.
Fault(p) ==
  /\ policy[p] # "none" /\ tx[p].pc \in Calls
  /\ Failures < MaxFaults
  /\ faults' = [faults EXCEPT ![p] = @ \cup {tx[p].pc}]
  /\ IF tx[p].pc \in {"backup", "move", "undo"} THEN Raise(p, "failed")
     ELSE Goto(p, "failed", 0)
  /\ UNCHANGED <<disk, bak, stage, policy, before, foreign>>

\* KeyboardInterrupt between a rename and the append that records it.
Interrupt(p) ==
  /\ policy[p] # "none" /\ tx[p].k \in Files
  /\ Failures < MaxFaults
  /\ \/ /\ tx[p].pc = "move" /\ MayTake(p, Target(p)) /\ Rename(p, Target(p))
        /\ UNCHANGED bak
     \/ /\ tx[p].pc = "backup" /\ NeedsBackup(<<tx[p].k, 0>>) /\ SetAside(tx[p].k)
        /\ UNCHANGED stage
  /\ faults' = [faults EXCEPT ![p] = @ \cup {"interrupt"}]
  /\ Raise(p, "failed")
  /\ UNCHANGED <<policy, before, foreign>>

\* The process is killed.
Die(p) ==
  /\ policy[p] # "none" /\ tx[p].pc \notin Ended
  /\ Failures < MaxFaults
  /\ faults' = [faults EXCEPT ![p] = @ \cup {"kill"}]
  /\ Goto(p, "dead", 0)
  /\ UNCHANGED <<disk, bak, stage, policy, before, foreign>>

Step(p) == \/ Precheck(p) \/ Backup(p) \/ BackedUp(p) \/ Move(p) \/ MoveTaken(p) \/ AllMoved(p)
           \/ Undo(p) \/ Restart(p) \/ Rollback(p) \/ RolledBack(p) \/ Restore(p)
           \/ Restored(p) \/ Clean(p) \/ Cleaned(p)

\* Another program writes a file of its own.
ForeignWrite ==
  /\ foreign < MaxForeign /\ foreign' = foreign + 1
  /\ \E t \in Paths : t[2] <= 1 /\ disk[t] = Free /\ disk' = [disk EXCEPT ![t] = "other"]
  /\ UNCHANGED <<bak, stage, policy, tx, before, faults>>

Next == \/ \E p \in Promoters : Step(p) \/ Fault(p) \/ Interrupt(p) \/ Die(p)
        \/ ForeignWrite

Spec == Init /\ [][Next]_vars

----------------------------------------------------------------------------
(* Properties.                                                              *)

\* No restart was interrupted, and the process was spared the faults of which the
\* rollback is no remedy.
RollbackSuffices(p) ==
  faults[p] \subseteq {"backup", "move"} /\ \A q \in Promoters : "undo" \notin faults[q]

\* Every file is published once.
AllPublished(p) == \A f \in Files : /\ stage[p][f] = Free
                                   /\ \E i \in Suffixes : disk[<<f, i>>] = p

\* None is: the stage is whole again, and so is what had been moved aside.
NonePublished(p) == /\ stage[p] = [f \in Files |-> p]
                    /\ \A t \in Paths : /\ disk[t] # p
                                        /\ before[t] = "old" => disk[t] = "old"

\* A promotion that returns has published every file once; one that raises has
\* published none, kept its stage, and put back what it had moved aside - whatever
\* failed or was taken in the middle of it.
AllOrNothing ==
  \A p \in Promoters : RollbackSuffices(p) =>
    /\ tx[p].pc = "done" => AllPublished(p)
    /\ tx[p].pc \in {"failed", "skipped"} => NonePublished(p)

\* The files of a unit end under one suffix, however often a name was taken between
\* the plan and the move.
OneSuffix ==
  \A p \in Promoters : tx[p].pc = "done" /\ RollbackSuffices(p) /\ Unit # {} =>
    \E i \in Suffixes : \A f \in Unit : disk[<<f, i>>] = p

\* A process that does not overwrite never removes or replaces a file that it did not
\* write, neither when it publishes nor when it restarts or rolls back.
ForeignStays ==
  [][\A t \in Paths :
       disk[t] # Free /\ disk'[t] # disk[t] =>
         \/ \E p \in Promoters : policy[p] = "overwrite" \/ "undo" \in faults[p]
         \/ \E p \in Promoters : disk[t] = p /\ tx'[p] # tx[p]]_vars

\* Until the whole unit has landed, what it overwrites is on the disk: at its name or
\* as its backup, also if the rollback fails or the process is killed.
NothingLost ==
  \A p \in Promoters : Solo(p) /\ (\E f \in Files : stage[p][f] # Free) =>
    \A f \in Files : before[<<f, 0>>] = "old" =>
      disk[<<f, 0>>] = "old" \/ bak[f] = "old"
=============================================================================
