--------------------------- MODULE PromotionProofs --------------------------
(* Theorems about Promotion, for any number of processes, files, suffixes, faults *)
(* and files of other programs.                                                   *)
EXTENDS Promotion, WellFoundedInduction, TLAPS

Txs == [pc : Pcs, k : Nat, suffix : Suffixes, own : Suffixes, moved : Seq(Files \X Paths),
        backed : Seq(Files), error : {"none", "failed", "skipped"}]

OverwriterIsAlone == \A p \in Promoters : policy[p] = "overwrite" => Solo(p)

\* What is recorded of a promotion agrees with its place in the code.  Files are moved in
\* their order, and those of the unit under the suffix of the plan.
Records(p) ==
  /\ Len(tx[p].moved) <= NumFiles
  /\ \A j \in 1..Len(tx[p].moved) : tx[p].moved[j][1] = j /\ tx[p].moved[j][2][1] = j
  /\ tx[p].pc \in {"start", "backup"} => tx[p].moved = <<>>
  /\ tx[p].pc \in {"backup", "restore", "clean"} => tx[p].k >= 1
  /\ tx[p].pc = "move" => tx[p].k = Len(tx[p].moved) + 1
  /\ tx[p].pc \in {"undo", "rollback"} => tx[p].k <= Len(tx[p].moved)
  /\ tx[p].pc \in {"clean", "done"} => Len(tx[p].moved) = NumFiles
  /\ tx[p].pc \in {"rollback", "restore"} => tx[p].error # "none"

Named(p) ==
  /\ tx[p].pc = "start" => tx[p].k = 1 /\ tx[p].suffix = 0 /\ tx[p].own = 0
  /\ tx[p].pc = "move" /\ tx[p].own # 0 => tx[p].k \notin Unit
  /\ tx[p].pc \in {"move", "clean", "done"} =>
       \A j \in 1..Len(tx[p].moved) : j \in Unit => tx[p].moved[j][2][2] = tx[p].suffix

ByPolicy(p) ==
  /\ tx[p].pc = "start" => tx[p].backed = <<>>
  /\ policy[p] # "overwrite" => tx[p].backed = <<>> /\ tx[p].pc # "backup"
  /\ policy[p] = "overwrite" =>
       /\ tx[p].suffix = 0 /\ tx[p].own = 0 /\ tx[p].pc # "undo"
       /\ \A j \in 1..Len(tx[p].moved) : tx[p].moved[j][2][2] = 0

Shape(p) == Records(p) /\ Named(p) /\ ByPolicy(p)

\* Of what is overwritten a copy is kept while the unit is under way.
Saved(f) == before[<<f, 0>>] = "old" => bak[f] = "old"
Intact(f) == before[<<f, 0>>] = "old" => disk[<<f, 0>>] = "old"

Safe(p) ==
  \/ \A f \in Files : Saved(f) \/ Intact(f)
  \/ tx[p].pc \in {"clean", "done", "failed", "dead"} /\ \A f \in Files : stage[p][f] = Free

Kept(p) ==
  /\ \A f \in Files : before[<<f, 0>>] = "old" => bak[f] \in {Free, "old"}
  /\ Safe(p)
  /\ tx[p].pc = "start" => \A f \in Files : Intact(f)
  /\ tx[p].pc = "backup" => \A f \in Files : IF f < tx[p].k THEN Saved(f) ELSE Intact(f)
  /\ tx[p].pc = "move" => /\ \A f \in Files : Saved(f)
                          /\ \A f \in 1..Len(tx[p].moved) : stage[p][f] = Free
  /\ tx[p].pc = "rollback" => \A f \in 1..Len(tx[p].moved) : Saved(f)
  /\ tx[p].pc = "clean" => \A f \in Files : stage[p][f] = Free

\* The moved files that have not been taken back.
Standing(p) ==
  IF tx[p].pc \in {"move", "clean", "done"} THEN 1..Len(tx[p].moved)
  ELSE IF tx[p].pc \in {"undo", "rollback"} THEN 1..tx[p].k ELSE {}

RestartsWhole == \A q \in Promoters : "undo" \notin faults[q]

Mine(p) ==
  /\ \A j \in Standing(p) : disk[tx[p].moved[j][2]] = p
  /\ \A f \in Files : stage[p][f] \in {p, Free}
  /\ tx[p].pc \in {"start", "backup", "move", "undo"} =>
       \A f \in Files \ Standing(p) : stage[p][f] = p

\* The backups that have not been put back.
Aside(p) ==
  IF tx[p].pc \in Ended THEN {}
  ELSE {tx[p].backed[j] : j \in {i \in 1..Len(tx[p].backed) :
                                   tx[p].pc = "restore" => tx[p].k <= i}}

Listed(p) ==
  /\ tx[p].pc = "backup" =>
       \A f \in Files : f < tx[p].k /\ before[<<f, 0>>] = "old" => f \in Aside(p)
  /\ tx[p].pc = "move" => \A f \in Files : before[<<f, 0>>] = "old" => f \in Aside(p)

Exact(p) ==
  /\ \A t \in Paths : disk[t] = p => t[1] \in Standing(p) /\ tx[p].moved[t[1]][2] = t
  /\ \A f \in Files : stage[p][f] = IF f \in Standing(p) THEN Free ELSE p
  /\ policy[p] = "overwrite" => \A f \in Files : bak[f] # p

OldStays(p) ==
  tx[p].pc \notin {"clean", "done"} =>
    \A t \in Paths : before[t] = "old" =>
      disk[t] = "old" \/ (t[2] = 0 /\ t[1] \in Aside(p) /\ bak[t[1]] = "old")

Sound(p) ==
  /\ Shape(p)
  /\ policy[p] = "overwrite" => Kept(p) /\ Listed(p)
  /\ RestartsWhole => Mine(p)
  /\ RollbackSuffices(p) => Exact(p) /\ OldStays(p)

IdleStays == \A p \in Promoters : policy[p] = "none" => tx[p].pc = "start"

PInv == TypeOK /\ OverwriterIsAlone /\ IdleStays /\ \A p \in Promoters : policy[p] # "none" => Sound(p)

----------------------------------------------------------------------------
(* The records of the transactions. *)

LEMMA LeastIsIn ==
  ASSUME NEW S \in SUBSET Nat, S # {}
  PROVE  Least(S) \in S
  <1>1. \E x \in S : \A y \in S : ~ (<<y, x>> \in OpToRel(<, Nat))
    BY WFMin, NatLessThanWellFounded
  <1>2. \E x \in S : \A y \in S : ~ (y < x)
    BY <1>1 DEF OpToRel
  <1>3. \E x \in S : \A y \in S : x <= y
    BY <1>2
  <1> QED BY <1>3 DEF Least

LEMMA TxTypes ==
  ASSUME TypeOK
  PROVE  tx \in [Promoters -> Txs]
  BY DEF TypeOK, Txs

\* The transaction of p becomes r, and that of nobody else changes.
LEMMA Becomes ==
  ASSUME TypeOK, NEW p \in Promoters, NEW r \in Txs, tx' = [tx EXCEPT ![p] = r]
  PROVE  /\ tx' \in [Promoters -> Txs] /\ tx'[p] = r
         /\ \A q \in Promoters : q # p => tx'[q] = tx[q]
  BY TxTypes

LEMMA GotoView ==
  ASSUME TypeOK, NEW p \in Promoters, NEW pc \in Pcs, NEW k \in Nat, Goto(p, pc, k)
  PROVE  /\ tx' \in [Promoters -> Txs]
         /\ \A q \in Promoters : q # p => tx'[q] = tx[q]
         /\ tx'[p].pc = pc /\ tx'[p].k = k /\ tx'[p].suffix = tx[p].suffix
         /\ tx'[p].own = tx[p].own /\ tx'[p].moved = tx[p].moved
         /\ tx'[p].backed = tx[p].backed /\ tx'[p].error = tx[p].error
  <1> DEFINE r == [tx[p] EXCEPT !.pc = pc, !.k = k]
  <1>1. tx[p] \in Txs
    BY TxTypes
  <1>2. r \in Txs
    BY <1>1 DEF Txs
  <1>3. tx' = [tx EXCEPT ![p] = r]
    BY TxTypes DEF Goto
  <1>4. /\ r.pc = pc /\ r.k = k /\ r.suffix = tx[p].suffix /\ r.own = tx[p].own
        /\ r.moved = tx[p].moved /\ r.backed = tx[p].backed /\ r.error = tx[p].error
    BY <1>1 DEF Txs
  <1> HIDE DEF r
  <1>5. /\ tx' \in [Promoters -> Txs] /\ tx'[p] = r
        /\ \A q \in Promoters : q # p => tx'[q] = tx[q]
    BY <1>2, <1>3, Becomes
  <1> QED BY <1>4, <1>5

LEMMA RaiseView ==
  ASSUME TypeOK, NEW p \in Promoters, NEW e \in {"failed", "skipped"}, Raise(p, e)
  PROVE  /\ tx' \in [Promoters -> Txs]
         /\ \A q \in Promoters : q # p => tx'[q] = tx[q]
         /\ tx'[p].pc = "rollback" /\ tx'[p].k = Len(tx[p].moved)
         /\ tx'[p].suffix = tx[p].suffix
         /\ tx'[p].own = tx[p].own /\ tx'[p].moved = tx[p].moved
         /\ tx'[p].backed = tx[p].backed /\ tx'[p].error = e
  <1> DEFINE r == [tx[p] EXCEPT !.pc = "rollback", !.k = Len(tx[p].moved), !.error = e]
  <1>1. tx[p] \in Txs
    BY TxTypes
  <1>2. Len(tx[p].moved) \in Nat
    BY <1>1 DEF Txs
  <1>3. r \in Txs
    BY <1>1, <1>2 DEF Txs, Pcs
  <1>4. tx' = [tx EXCEPT ![p] = r]
    BY TxTypes DEF Raise, LastMoved
  <1>5. /\ r.pc = "rollback" /\ r.k = Len(tx[p].moved) /\ r.suffix = tx[p].suffix
        /\ r.own = tx[p].own /\ r.moved = tx[p].moved /\ r.backed = tx[p].backed
        /\ r.error = e
    BY <1>1 DEF Txs
  <1> HIDE DEF r
  <1>6. /\ tx' \in [Promoters -> Txs] /\ tx'[p] = r
        /\ \A q \in Promoters : q # p => tx'[q] = tx[q]
    BY <1>3, <1>4, Becomes
  <1> QED BY <1>5, <1>6

LEMMA AppendFacts ==
  ASSUME NEW S, NEW s \in Seq(S), NEW e \in S
  PROVE  /\ Append(s, e) \in Seq(S) /\ Len(Append(s, e)) = Len(s) + 1
         /\ \A i \in 1..Len(s) : Append(s, e)[i] = s[i]
         /\ Append(s, e)[Len(s) + 1] = e
  OBVIOUS

LEMMA LandedView ==
  ASSUME TypeOK, NEW p \in Promoters, NEW t \in Paths, tx[p].k \in Files, Landed(p, t)
  PROVE  /\ tx' \in [Promoters -> Txs]
         /\ \A q \in Promoters : q # p => tx'[q] = tx[q]
         /\ tx'[p].pc = tx[p].pc /\ tx'[p].k = tx[p].k + 1 /\ tx'[p].suffix = tx[p].suffix
         /\ tx'[p].own = 0 /\ tx'[p].moved = Append(tx[p].moved, <<tx[p].k, t>>)
         /\ tx'[p].backed = tx[p].backed /\ tx'[p].error = tx[p].error
  <1> DEFINE m == Append(tx[p].moved, <<tx[p].k, t>>)
             r == [tx[p] EXCEPT !.k = @ + 1, !.own = 0, !.moved = m]
  <1>1. tx[p] \in Txs /\ 0 \in Suffixes /\ tx[p].k + 1 \in Nat
    BY TxTypes, PromotionAssumption DEF Txs, Suffixes, Files
  <1>2. m \in Seq(Files \X Paths)
    BY <1>1, AppendFacts DEF Txs
  <1> HIDE DEF m
  <1>3. r \in Txs
    BY <1>1, <1>2 DEF Txs
  <1>4. tx' = [tx EXCEPT ![p] = r]
    BY TxTypes DEF Landed, m
  <1>5. /\ r.pc = tx[p].pc /\ r.k = tx[p].k + 1 /\ r.suffix = tx[p].suffix
        /\ r.own = 0 /\ r.moved = m /\ r.backed = tx[p].backed
        /\ r.error = tx[p].error
    BY <1>1 DEF Txs
  <1> HIDE DEF r
  <1>6. /\ tx' \in [Promoters -> Txs] /\ tx'[p] = r
        /\ \A q \in Promoters : q # p => tx'[q] = tx[q]
    BY <1>3, <1>4, Becomes
  <1> QED BY <1>5, <1>6 DEF m

\* A target that is to be overwritten is moved aside, and recorded.
LEMMA BackedView ==
  ASSUME TypeOK, NEW p \in Promoters, tx[p].k \in Files,
         tx' = [tx EXCEPT ![p].k = @ + 1, ![p].backed = Append(@, tx[p].k)]
  PROVE  /\ tx' \in [Promoters -> Txs]
         /\ \A q \in Promoters : q # p => tx'[q] = tx[q]
         /\ tx'[p].pc = tx[p].pc /\ tx'[p].k = tx[p].k + 1 /\ tx'[p].suffix = tx[p].suffix
         /\ tx'[p].own = tx[p].own /\ tx'[p].moved = tx[p].moved
         /\ tx'[p].backed = Append(tx[p].backed, tx[p].k) /\ tx'[p].error = tx[p].error
  <1> DEFINE b == Append(tx[p].backed, tx[p].k)
             r == [tx[p] EXCEPT !.k = @ + 1, !.backed = b]
  <1>1. tx[p] \in Txs /\ tx[p].k + 1 \in Nat
    BY TxTypes DEF Txs
  <1>2. b \in Seq(Files)
    BY <1>1, AppendFacts DEF Txs
  <1> HIDE DEF b
  <1>3. r \in Txs
    BY <1>1, <1>2 DEF Txs
  <1>4. tx' = [tx EXCEPT ![p] = r]
    BY TxTypes DEF b
  <1>5. /\ r.pc = tx[p].pc /\ r.k = tx[p].k + 1 /\ r.suffix = tx[p].suffix
        /\ r.own = tx[p].own /\ r.moved = tx[p].moved /\ r.backed = b
        /\ r.error = tx[p].error
    BY <1>1 DEF Txs
  <1> HIDE DEF r
  <1>6. /\ tx' \in [Promoters -> Txs] /\ tx'[p] = r
        /\ \A q \in Promoters : q # p => tx'[q] = tx[q]
    BY <1>3, <1>4, Becomes
  <1> QED BY <1>5, <1>6 DEF b

\* The unit is planned under another suffix, or a file is given one of its own.
LEMMA PlannedView ==
  ASSUME TypeOK, NEW p \in Promoters, NEW s \in Suffixes, At(p, "start"),
         tx' = [tx EXCEPT ![p].pc = "move", ![p].suffix = s]
  PROVE  /\ tx' \in [Promoters -> Txs]
         /\ \A q \in Promoters : q # p => tx'[q] = tx[q]
         /\ tx'[p].pc = "move" /\ tx'[p].k = tx[p].k /\ tx'[p].suffix = s
         /\ tx'[p].own = tx[p].own /\ tx'[p].moved = tx[p].moved
         /\ tx'[p].backed = tx[p].backed /\ tx'[p].error = tx[p].error
  <1> DEFINE r == [tx[p] EXCEPT !.pc = "move", !.suffix = s]
  <1>1. tx[p] \in Txs
    BY TxTypes
  <1>2. r \in Txs
    BY <1>1 DEF Txs, Pcs
  <1>3. tx' = [tx EXCEPT ![p] = r]
    BY TxTypes
  <1>4. /\ r.pc = "move" /\ r.k = tx[p].k /\ r.suffix = s /\ r.own = tx[p].own
        /\ r.moved = tx[p].moved /\ r.backed = tx[p].backed /\ r.error = tx[p].error
    BY <1>1 DEF Txs
  <1> HIDE DEF r
  <1>5. /\ tx' \in [Promoters -> Txs] /\ tx'[p] = r
        /\ \A q \in Promoters : q # p => tx'[q] = tx[q]
    BY <1>2, <1>3, Becomes
  <1> QED BY <1>4, <1>5

LEMMA OwnNameView ==
  ASSUME TypeOK, NEW p \in Promoters, NEW s \in Suffixes, tx' = [tx EXCEPT ![p].own = s]
  PROVE  /\ tx' \in [Promoters -> Txs]
         /\ \A q \in Promoters : q # p => tx'[q] = tx[q]
         /\ tx'[p].pc = tx[p].pc /\ tx'[p].k = tx[p].k /\ tx'[p].suffix = tx[p].suffix
         /\ tx'[p].own = s /\ tx'[p].moved = tx[p].moved
         /\ tx'[p].backed = tx[p].backed /\ tx'[p].error = tx[p].error
  <1> DEFINE r == [tx[p] EXCEPT !.own = s]
  <1>1. tx[p] \in Txs
    BY TxTypes
  <1>2. r \in Txs
    BY <1>1 DEF Txs
  <1>3. tx' = [tx EXCEPT ![p] = r]
    BY TxTypes
  <1>4. /\ r.pc = tx[p].pc /\ r.k = tx[p].k /\ r.suffix = tx[p].suffix /\ r.own = s
        /\ r.moved = tx[p].moved /\ r.backed = tx[p].backed /\ r.error = tx[p].error
    BY <1>1 DEF Txs
  <1> HIDE DEF r
  <1>5. /\ tx' \in [Promoters -> Txs] /\ tx'[p] = r
        /\ \A q \in Promoters : q # p => tx'[q] = tx[q]
    BY <1>2, <1>3, Becomes
  <1> QED BY <1>4, <1>5

LEMMA RestartView ==
  ASSUME TypeOK, NEW p \in Promoters, NEW s \in Suffixes,
         tx' = [tx EXCEPT ![p].pc = "move", ![p].k = 1, ![p].own = 0,
                          ![p].moved = <<>>, ![p].suffix = s]
  PROVE  /\ tx' \in [Promoters -> Txs]
         /\ \A q \in Promoters : q # p => tx'[q] = tx[q]
         /\ tx'[p].pc = "move" /\ tx'[p].k = 1 /\ tx'[p].suffix = s
         /\ tx'[p].own = 0 /\ tx'[p].moved = <<>>
         /\ tx'[p].backed = tx[p].backed /\ tx'[p].error = tx[p].error
  <1> DEFINE r == [tx[p] EXCEPT !.pc = "move", !.k = 1, !.own = 0, !.moved = <<>>, !.suffix = s]
  <1>1. tx[p] \in Txs /\ 0 \in Suffixes /\ <<>> \in Seq(Files \X Paths)
    BY TxTypes, PromotionAssumption DEF Suffixes
  <1>2. r \in Txs
    BY <1>1 DEF Txs, Pcs
  <1>3. tx' = [tx EXCEPT ![p] = r]
    BY TxTypes
  <1>4. /\ r.pc = "move" /\ r.k = 1 /\ r.suffix = s /\ r.own = 0
        /\ r.moved = <<>> /\ r.backed = tx[p].backed /\ r.error = tx[p].error
    BY <1>1 DEF Txs
  <1> HIDE DEF r
  <1>5. /\ tx' \in [Promoters -> Txs] /\ tx'[p] = r
        /\ \A q \in Promoters : q # p => tx'[q] = tx[q]
    BY <1>2, <1>3, Becomes
  <1> QED BY <1>4, <1>5

\* The suffixes that are chosen are suffixes.
LEMMA SuffixFacts ==
  /\ 0 \in Suffixes
  /\ \A n \in Nat : FreeSuffixes(n) # {} => Least(FreeSuffixes(n)) \in FreeSuffixes(n)
  /\ \A n \in Nat : FreeSuffixes(n) \subseteq Suffixes
  /\ \A f \in Files : UniqueSuffixes(f) # {} => Least(UniqueSuffixes(f)) \in UniqueSuffixes(f)
  /\ \A f \in Files : UniqueSuffixes(f) \subseteq Suffixes \ {0}
  <1>1. \A n \in Nat : FreeSuffixes(n) \subseteq Suffixes
    BY PromotionAssumption DEF FreeSuffixes, Suffixes
  <1>2. \A f \in Files : UniqueSuffixes(f) \subseteq Suffixes \ {0}
    BY PromotionAssumption DEF UniqueSuffixes, Suffixes
  <1>3. 0 \in Suffixes /\ Suffixes \subseteq Nat
    BY PromotionAssumption DEF Suffixes
  <1>4. \A S : S \subseteq Suffixes /\ S # {} => Least(S) \in S
    BY <1>3, LeastIsIn
  <1> QED BY <1>1, <1>2, <1>3, <1>4

LEMMA TargetIsPath ==
  ASSUME TypeOK, NEW p \in Promoters, tx[p].k \in Files
  PROVE  /\ Target(p) \in Paths /\ Target(p)[1] = tx[p].k
         /\ tx[p].own = 0 /\ tx[p].k \in Unit => Target(p)[2] = tx[p].suffix
         /\ tx[p].own = 0 /\ tx[p].suffix = 0 => Target(p)[2] = 0
  <1>1. tx[p].own \in Suffixes /\ tx[p].suffix \in Suffixes /\ 0 \in Suffixes
    BY TxTypes, SuffixFacts DEF Txs
  <1> QED BY <1>1 DEF Target, Paths

\* What a step of p leaves alone.
Alone(p) ==
  /\ tx' \in [Promoters -> Txs] /\ policy' = policy /\ before' = before
  /\ \A q \in Promoters : q # p => tx'[q] = tx[q]

LEMMA RecordOf ==
  ASSUME TypeOK, NEW p \in Promoters
  PROVE  /\ tx[p].pc \in Pcs /\ tx[p].k \in Nat /\ tx[p].suffix \in Suffixes
         /\ tx[p].own \in Suffixes /\ tx[p].moved \in Seq(Files \X Paths)
         /\ tx[p].backed \in Seq(Files) /\ tx[p].error \in {"none", "failed", "skipped"}
         /\ Len(tx[p].moved) \in Nat /\ Len(tx[p].backed) \in Nat
         /\ \A j \in 1..Len(tx[p].moved) : tx[p].moved[j] \in Files \X Paths
         /\ \A j \in 1..Len(tx[p].backed) : tx[p].backed[j] \in Files
         /\ NumFiles \in Nat
  <1>1. tx[p] \in Txs
    BY TxTypes
  <1>2. tx[p].moved \in Seq(Files \X Paths) /\ tx[p].backed \in Seq(Files)
    BY <1>1 DEF Txs
  <1>3. \A j \in 1..Len(tx[p].moved) : tx[p].moved[j] \in Files \X Paths
    BY <1>2
  <1>4. \A j \in 1..Len(tx[p].backed) : tx[p].backed[j] \in Files
    BY <1>2
  <1> QED BY <1>1, <1>2, <1>3, <1>4, PromotionAssumption DEF Txs

LEMMA PrecheckShape ==
  ASSUME TypeOK, NEW p \in Promoters, Shape(p), Precheck(p)
  PROVE  Alone(p) /\ Shape(p)'
  <1> USE DEF At, Pcs
  <1>1. /\ policy' = policy /\ before' = before /\ tx[p].pc = "start"
        /\ tx[p].moved = <<>> /\ tx[p].backed = <<>> /\ tx[p].suffix = 0 /\ tx[p].own = 0
        /\ tx[p].k = 1
    BY DEF Precheck, Shape, Records, Named, ByPolicy
  <1>2. Len(<<>>) = 0 /\ 1..0 = {} /\ NumFiles >= 1
    BY PromotionAssumption
  <1>3. CASE Goto(p, "failed", 0) \/ Goto(p, "skipped", 0)
    BY <1>1, <1>2, <1>3, GotoView DEF Alone, Shape, Records, Named, ByPolicy
  <1>4. CASE Goto(p, "backup", 1) /\ policy[p] = "overwrite"
    BY <1>1, <1>2, <1>4, GotoView DEF Alone, Shape, Records, Named, ByPolicy
  <1>5. CASE Goto(p, "move", 1) /\ policy[p] # "overwrite"
    BY <1>1, <1>2, <1>5, GotoView DEF Alone, Shape, Records, Named, ByPolicy
  <1>6. CASE /\ policy[p] = "rename" /\ FreeSuffixes(1) # {}
             /\ tx' = [tx EXCEPT ![p].pc = "move", ![p].suffix = Least(FreeSuffixes(1))]
    <2> DEFINE s == Least(FreeSuffixes(1))
    <2>1. s \in Suffixes
      BY <1>6, SuffixFacts
    <2> HIDE DEF s
    <2>2. tx' = [tx EXCEPT ![p].pc = "move", ![p].suffix = s]
      BY <1>6 DEF s
    <2>3. At(p, "start")
      BY DEF Precheck
    <2>4. /\ tx' \in [Promoters -> Txs]
          /\ \A q \in Promoters : q # p => tx'[q] = tx[q]
          /\ tx'[p].pc = "move" /\ tx'[p].k = 1 /\ tx'[p].suffix = s
          /\ tx'[p].own = 0 /\ tx'[p].moved = <<>>
          /\ tx'[p].backed = <<>> /\ tx'[p].error = tx[p].error
      BY <1>1, <2>1, <2>2, <2>3, PlannedView
    <2> QED BY <1>1, <1>2, <1>6, <2>4 DEF Alone, Shape, Records, Named, ByPolicy
  <1> QED BY <1>3, <1>4, <1>5, <1>6 DEF Precheck

LEMMA BackupShape ==
  ASSUME TypeOK, NEW p \in Promoters, Shape(p), Backup(p)
  PROVE  Alone(p) /\ Shape(p)'
  <1>1. /\ policy' = policy /\ before' = before /\ tx[p].pc = "backup"
        /\ tx[p].k \in Files /\ tx[p].moved = <<>> /\ policy[p] = "overwrite"
        /\ tx[p].k \in Nat
    BY RecordOf DEF Backup, At, Shape, Records, ByPolicy, Files
  <1>2. CASE tx' = [tx EXCEPT ![p].k = @ + 1, ![p].backed = Append(@, tx[p].k)]
    <2>1. /\ tx' \in [Promoters -> Txs]
          /\ \A q \in Promoters : q # p => tx'[q] = tx[q]
          /\ tx'[p].pc = "backup" /\ tx'[p].k = tx[p].k + 1 /\ tx'[p].suffix = tx[p].suffix
          /\ tx'[p].own = tx[p].own /\ tx'[p].moved = <<>>
          /\ tx'[p].backed = Append(tx[p].backed, tx[p].k) /\ tx'[p].error = tx[p].error
      BY <1>1, <1>2, BackedView
    <2> QED BY <1>1, <2>1 DEF Alone, Shape, Records, Named, ByPolicy
  <1>3. CASE Goto(p, "backup", tx[p].k + 1)
    BY <1>1, <1>3, GotoView DEF Alone, Shape, Records, Named, ByPolicy, Pcs
  <1> QED BY <1>2, <1>3 DEF Backup

LEMMA BackedUpShape ==
  ASSUME TypeOK, NEW p \in Promoters, Shape(p), BackedUp(p)
  PROVE  Alone(p) /\ Shape(p)'
  <1>1. /\ policy' = policy /\ before' = before /\ tx[p].pc = "backup" /\ tx[p].moved = <<>>
        /\ policy[p] = "overwrite" /\ Goto(p, "move", 1) /\ Len(<<>>) = 0 /\ 1..0 = {}
    BY DEF BackedUp, At, Shape, Records, ByPolicy
  <1> QED BY <1>1, GotoView DEF Alone, Shape, Records, Named, ByPolicy, Pcs

LEMMA MoveShape ==
  ASSUME TypeOK, NEW p \in Promoters, Shape(p), Move(p)
  PROVE  Alone(p) /\ Shape(p)'
  <1> DEFINE k == tx[p].k
             m == tx[p].moved
             t == Target(p)
  <1>1. /\ policy' = policy /\ before' = before /\ tx[p].pc = "move"
        /\ k = Len(m) + 1 /\ k <= NumFiles /\ Landed(p, t)
    BY DEF Move, At, Shape, Records
  <1>2. k \in Files /\ m \in Seq(Files \X Paths) /\ Len(m) \in Nat /\ NumFiles \in Nat
    BY <1>1, RecordOf DEF Files
  <1>3. /\ t \in Paths /\ t[1] = k
        /\ k \in Unit => t[2] = tx[p].suffix
        /\ policy[p] = "overwrite" => t[2] = 0
    BY <1>1, <1>2, TargetIsPath DEF Shape, Named, ByPolicy
  <1> HIDE DEF t
  <1>4. /\ tx' \in [Promoters -> Txs]
        /\ \A q \in Promoters : q # p => tx'[q] = tx[q]
        /\ tx'[p].pc = "move" /\ tx'[p].k = k + 1 /\ tx'[p].suffix = tx[p].suffix
        /\ tx'[p].own = 0 /\ tx'[p].moved = Append(m, <<k, t>>)
        /\ tx'[p].backed = tx[p].backed /\ tx'[p].error = tx[p].error
    BY <1>1, <1>2, <1>3, LandedView
  <1> DEFINE m2 == Append(m, <<k, t>>)
  <1>5. /\ Len(m2) = k
        /\ \A j \in 1..Len(m) : m2[j] = m[j]
        /\ m2[k] = <<k, t>> /\ 1..k = 1..Len(m) \cup {k}
    <2>1. <<k, t>> \in Files \X Paths
      BY <1>2, <1>3
    <2>2. 1..k = 1..Len(m) \cup {k}
      BY <1>1, <1>2
    <2> QED BY <1>1, <1>2, <2>1, <2>2, AppendFacts
  <1>6. tx'[p].moved = m2
    BY <1>4
  <1>7. /\ \A j \in 1..Len(m) : m[j][1] = j /\ m[j][2][1] = j
        /\ \A j \in 1..Len(m) : j \in Unit => m[j][2][2] = tx[p].suffix
        /\ policy[p] = "overwrite" => \A j \in 1..Len(m) : m[j][2][2] = 0
    BY <1>1 DEF Shape, Records, Named, ByPolicy
  <1> HIDE DEF m2
  <1>8. \A j \in 1..Len(m2) : m2[j][1] = j /\ m2[j][2][1] = j
    BY <1>3, <1>5, <1>7
  <1>9. /\ \A j \in 1..Len(m2) : j \in Unit => m2[j][2][2] = tx[p].suffix
        /\ policy[p] = "overwrite" => \A j \in 1..Len(m2) : m2[j][2][2] = 0
    <2> SUFFICES ASSUME NEW j \in 1..Len(m2)
                 PROVE  /\ j \in Unit => m2[j][2][2] = tx[p].suffix
                        /\ policy[p] = "overwrite" => m2[j][2][2] = 0
      OBVIOUS
    <2>1. CASE j = k
      <3>1. m2[j][2] = t
        BY <1>5, <2>1
      <3> QED BY <1>3, <2>1, <3>1
    <2>2. CASE j \in 1..Len(m)
      <3>1. m2[j] = m[j]
        BY <1>5, <2>2
      <3> QED BY <1>7, <2>2, <3>1
    <2> QED BY <1>5, <2>1, <2>2
  <1>10. Records(p)'
    BY <1>1, <1>4, <1>5, <1>6, <1>8 DEF Records
  <1>11. Named(p)'
    BY <1>4, <1>6, <1>9 DEF Named
  <1>12. ByPolicy(p)'
    BY <1>1, <1>4, <1>6, <1>9 DEF Shape, ByPolicy
  <1> QED BY <1>1, <1>4, <1>10, <1>11, <1>12 DEF Alone, Shape

LEMMA MoveTakenShape ==
  ASSUME TypeOK, NEW p \in Promoters, Shape(p), MoveTaken(p)
  PROVE  Alone(p) /\ Shape(p)'
  <1>1. /\ policy' = policy /\ before' = before /\ tx[p].pc = "move"
        /\ tx[p].k \in Files /\ Len(tx[p].moved) \in Nat /\ policy[p] # "overwrite"
        /\ tx[p].k = Len(tx[p].moved) + 1
    BY RecordOf DEF MoveTaken, At, Shape, Records, Files, MayTake
  <1>2. CASE Raise(p, "failed") \/ Raise(p, "skipped")
    BY <1>1, <1>2, RaiseView DEF Alone, Shape, Records, Named, ByPolicy
  <1>3. CASE Goto(p, "undo", Len(tx[p].moved))
    BY <1>1, <1>3, GotoView DEF Alone, Shape, Records, Named, ByPolicy, Pcs
  <1>4. CASE /\ ~Splits(p) /\ UniqueSuffixes(tx[p].k) # {}
             /\ tx' = [tx EXCEPT ![p].own = Least(UniqueSuffixes(tx[p].k))]
    <2> DEFINE s == Least(UniqueSuffixes(tx[p].k))
    <2>1. s \in Suffixes /\ tx[p].k \notin Unit
      BY <1>1, <1>4, SuffixFacts DEF Splits
    <2>2. tx' = [tx EXCEPT ![p].own = s]
      BY <1>4
    <2> HIDE DEF s
    <2>3. /\ tx' \in [Promoters -> Txs]
          /\ \A q \in Promoters : q # p => tx'[q] = tx[q]
          /\ tx'[p].pc = "move" /\ tx'[p].k = tx[p].k /\ tx'[p].suffix = tx[p].suffix
          /\ tx'[p].own = s /\ tx'[p].moved = tx[p].moved
          /\ tx'[p].backed = tx[p].backed /\ tx'[p].error = tx[p].error
      BY <1>1, <2>1, <2>2, OwnNameView
    <2> QED BY <1>1, <2>1, <2>3 DEF Alone, Shape, Records, Named, ByPolicy
  <1> QED BY <1>2, <1>3, <1>4 DEF MoveTaken

LEMMA AllMovedShape ==
  ASSUME TypeOK, NEW p \in Promoters, Shape(p), AllMoved(p)
  PROVE  Alone(p) /\ Shape(p)'
  <1>1. /\ policy' = policy /\ before' = before /\ tx[p].pc = "move" /\ Goto(p, "clean", 1)
        /\ Len(tx[p].moved) = NumFiles
    BY RecordOf DEF AllMoved, At, Shape, Records
  <1> QED BY <1>1, GotoView DEF Alone, Shape, Records, Named, ByPolicy, Pcs

LEMMA TakingBackShape ==
  ASSUME TypeOK, NEW p \in Promoters, Shape(p), Undo(p) \/ Rollback(p)
  PROVE  Alone(p) /\ Shape(p)'
  <1>1. /\ policy' = policy /\ before' = before /\ tx[p].pc \in {"undo", "rollback"}
        /\ Goto(p, tx[p].pc, tx[p].k - 1) /\ tx[p].k - 1 \in Nat
        /\ tx[p].k - 1 <= Len(tx[p].moved) /\ tx[p].pc \in Pcs
    BY RecordOf DEF Undo, Rollback, At, Shape, Records
  <1> QED BY <1>1, GotoView DEF Alone, Shape, Records, Named, ByPolicy

LEMMA RestartShape ==
  ASSUME TypeOK, NEW p \in Promoters, Shape(p), Restart(p)
  PROVE  Alone(p) /\ Shape(p)'
  <1> DEFINE s == Least(FreeSuffixes(tx[p].suffix + 1))
  <1>1. /\ policy' = policy /\ before' = before /\ tx[p].pc = "undo"
        /\ policy[p] # "overwrite" /\ Len(<<>>) = 0 /\ 1..0 = {}
    BY DEF Restart, At, Shape, ByPolicy
  <1>2. s \in Suffixes
    <2>1. tx[p].suffix + 1 \in Nat
      BY RecordOf DEF Suffixes
    <2> QED BY <2>1, SuffixFacts DEF Restart
  <1>3. tx' = [tx EXCEPT ![p].pc = "move", ![p].k = 1, ![p].own = 0,
                         ![p].moved = <<>>, ![p].suffix = s]
    BY TxTypes DEF Restart
  <1> HIDE DEF s
  <1>4. /\ tx' \in [Promoters -> Txs]
        /\ \A q \in Promoters : q # p => tx'[q] = tx[q]
        /\ tx'[p].pc = "move" /\ tx'[p].k = 1 /\ tx'[p].suffix = s
        /\ tx'[p].own = 0 /\ tx'[p].moved = <<>>
        /\ tx'[p].backed = tx[p].backed /\ tx'[p].error = tx[p].error
    BY <1>2, <1>3, RestartView
  <1>5. NumFiles >= 0
    BY PromotionAssumption
  <1> QED BY <1>1, <1>4, <1>5 DEF Alone, Shape, Records, Named, ByPolicy

LEMMA RestoringShape ==
  ASSUME TypeOK, NEW p \in Promoters, Shape(p),
         RolledBack(p) \/ Restore(p) \/ Restored(p) \/ Clean(p) \/ Cleaned(p)
  PROVE  Alone(p) /\ Shape(p)'
  <1>1. policy' = policy /\ before' = before /\ tx[p].k \in Nat /\ tx[p].k + 1 >= 1
    BY RecordOf DEF RolledBack, Restore, Restored, Clean, Cleaned
  <1>2. \E pc \in Pcs, k \in Nat :
          /\ Goto(p, pc, k)
          /\ \/ pc = "restore" /\ k >= 1 /\ tx[p].pc \in {"rollback", "restore"}
             \/ pc = "clean" /\ k >= 1 /\ tx[p].pc = "clean"
             \/ pc = "done" /\ tx[p].pc = "clean"
             \/ pc \in {"failed", "skipped"}
    <2> USE DEF At, Pcs
    <2>1. CASE RolledBack(p)
      BY <2>1 DEF RolledBack
    <2>2. CASE Restore(p)
      BY <1>1, <2>2 DEF Restore
    <2>3. CASE Restored(p)
      <3>1. tx[p].error \in {"failed", "skipped"}
        BY <2>3, RecordOf DEF Restored, Shape, Records
      <3> QED BY <2>3, <3>1 DEF Restored
    <2>4. CASE Clean(p)
      BY <1>1, <2>4 DEF Clean
    <2>5. CASE Cleaned(p)
      BY <2>5 DEF Cleaned
    <2> QED BY <2>1, <2>2, <2>3, <2>4, <2>5
  <1>3. PICK pc \in Pcs, k \in Nat :
          /\ Goto(p, pc, k)
          /\ \/ pc = "restore" /\ k >= 1 /\ tx[p].pc \in {"rollback", "restore"}
             \/ pc = "clean" /\ k >= 1 /\ tx[p].pc = "clean"
             \/ pc = "done" /\ tx[p].pc = "clean"
             \/ pc \in {"failed", "skipped"}
    BY <1>2
  <1>4. /\ tx' \in [Promoters -> Txs] /\ \A q \in Promoters : q # p => tx'[q] = tx[q]
        /\ tx'[p].pc = pc /\ tx'[p].k = k /\ tx'[p].suffix = tx[p].suffix
        /\ tx'[p].own = tx[p].own /\ tx'[p].moved = tx[p].moved
        /\ tx'[p].backed = tx[p].backed /\ tx'[p].error = tx[p].error
    BY <1>3, GotoView
  <1>5. Records(p)'
    BY <1>3, <1>4 DEF Shape, Records
  <1>6. Named(p)'
    BY <1>3, <1>4 DEF Shape, Named
  <1>7. ByPolicy(p)'
    BY <1>1, <1>3, <1>4 DEF Shape, ByPolicy
  <1> QED BY <1>1, <1>4, <1>5, <1>6, <1>7 DEF Alone, Shape

LEMMA FailingShape ==
  ASSUME TypeOK, NEW p \in Promoters, Shape(p), Fault(p) \/ Interrupt(p) \/ Die(p)
  PROVE  Alone(p) /\ Shape(p)'
  <1>1. policy' = policy /\ before' = before /\ Len(tx[p].moved) \in Nat
    BY RecordOf DEF Fault, Interrupt, Die
  <1>2. CASE Raise(p, "failed")
    BY <1>1, <1>2, RaiseView DEF Alone, Shape, Records, Named, ByPolicy
  <1>3. CASE Goto(p, "failed", 0) \/ Goto(p, "dead", 0)
    BY <1>1, <1>3, GotoView DEF Alone, Shape, Records, Named, ByPolicy, Pcs
  <1> QED BY <1>2, <1>3 DEF Fault, Interrupt, Die

Moves(p) == Step(p) \/ Fault(p) \/ Interrupt(p) \/ Die(p)

LEMMA MovesShape ==
  ASSUME TypeOK, NEW p \in Promoters, Shape(p), Moves(p)
  PROVE  Alone(p) /\ Shape(p)'
  <1>1. CASE Step(p)
    BY <1>1, PrecheckShape, BackupShape, BackedUpShape, MoveShape, MoveTakenShape,
       AllMovedShape, TakingBackShape, RestartShape, RestoringShape DEF Step
  <1> QED BY <1>1, FailingShape DEF Moves

----------------------------------------------------------------------------
(* The files. *)

LEMMA FileTypes ==
  ASSUME TypeOK
  PROVE  /\ disk \in [Paths -> Contents] /\ bak \in [Files -> Contents]
         /\ stage \in [Promoters -> [Files -> Contents]] /\ Free \in Contents
  BY DEF TypeOK, Contents

LEMMA RenameView ==
  ASSUME TypeOK, NEW p \in Promoters, NEW t \in Paths, tx[p].k \in Files, Rename(p, t)
  PROVE  /\ disk' \in [Paths -> Contents]
         /\ stage' \in [Promoters -> [Files -> Contents]]
         /\ disk'[t] = stage[p][tx[p].k]
         /\ \A u \in Paths : u # t => disk'[u] = disk[u]
         /\ stage'[p][tx[p].k] = Free
         /\ \A f \in Files : f # tx[p].k => stage'[p][f] = stage[p][f]
         /\ \A q \in Promoters : q # p => stage'[q] = stage[q]
  <1> DEFINE k == tx[p].k
  <1>1. /\ disk' = [disk EXCEPT ![t] = stage[p][k]]
        /\ stage' = [stage EXCEPT ![p] = [stage[p] EXCEPT ![k] = Free]]
    BY FileTypes DEF Rename
  <1>2. stage[p] \in [Files -> Contents] /\ stage[p][k] \in Contents /\ k \in Files
    BY FileTypes
  <1> HIDE DEF k
  <1>3. [stage[p] EXCEPT ![k] = Free] \in [Files -> Contents]
    BY <1>2, FileTypes
  <1>4. /\ stage' \in [Promoters -> [Files -> Contents]]
        /\ stage'[p] = [stage[p] EXCEPT ![k] = Free]
        /\ \A q \in Promoters : q # p => stage'[q] = stage[q]
    BY <1>1, <1>3, FileTypes
  <1>5. /\ stage'[p][k] = Free
        /\ \A f \in Files : f # k => stage'[p][f] = stage[p][f]
    BY <1>2, <1>4
  <1>6. /\ disk' \in [Paths -> Contents] /\ disk'[t] = stage[p][k]
        /\ \A u \in Paths : u # t => disk'[u] = disk[u]
    BY <1>1, <1>2, FileTypes
  <1> QED BY <1>4, <1>5, <1>6 DEF k

LEMMA SetAsideView ==
  ASSUME TypeOK, NEW f \in Files, SetAside(f)
  PROVE  /\ disk' \in [Paths -> Contents] /\ bak' \in [Files -> Contents]
         /\ <<f, 0>> \in Paths
         /\ disk'[<<f, 0>>] = Free /\ bak'[f] = disk[<<f, 0>>]
         /\ \A u \in Paths : u # <<f, 0>> => disk'[u] = disk[u]
         /\ \A g \in Files : g # f => bak'[g] = bak[g]
  <1>1. <<f, 0>> \in Paths
    BY SuffixFacts DEF Paths
  <1> QED BY <1>1, FileTypes DEF SetAside

LEMMA TakeBackView ==
  ASSUME TypeOK, NEW p \in Promoters, tx[p].k \in 1..Len(tx[p].moved), TakeBack(p),
         NEW f, f = tx[p].moved[tx[p].k][1], NEW t, t = tx[p].moved[tx[p].k][2]
  PROVE  /\ f \in Files /\ t \in Paths
         /\ disk' \in [Paths -> Contents]
         /\ stage' \in [Promoters -> [Files -> Contents]]
         /\ disk'[t] = Free
         /\ \A u \in Paths : u # t => disk'[u] = disk[u]
         /\ stage'[p][f] = IF disk[t] = Free THEN stage[p][f] ELSE disk[t]
         /\ \A g \in Files : g # f => stage'[p][g] = stage[p][g]
         /\ \A q \in Promoters : q # p => stage'[q] = stage[q]
  <1>1. f \in Files /\ t \in Paths
    <2>1. tx[p].moved[tx[p].k] \in Files \X Paths
      BY RecordOf
    <2> QED BY <2>1
  <1>2. CASE disk[t] = Free
    <2>1. disk' = disk /\ stage' = stage
      BY <1>2 DEF TakeBack
    <2> QED BY <1>1, <1>2, <2>1, FileTypes
  <1>3. CASE disk[t] # Free
    <2>1. /\ disk' = [disk EXCEPT ![t] = Free]
          /\ stage' = [stage EXCEPT ![p] = [stage[p] EXCEPT ![f] = disk[t]]]
      BY <1>3, FileTypes DEF TakeBack
    <2>2. stage[p] \in [Files -> Contents] /\ disk[t] \in Contents
      BY <1>1, FileTypes
    <2>3. [stage[p] EXCEPT ![f] = disk[t]] \in [Files -> Contents]
      BY <2>2
    <2>4. /\ stage' \in [Promoters -> [Files -> Contents]]
          /\ stage'[p] = [stage[p] EXCEPT ![f] = disk[t]]
          /\ \A q \in Promoters : q # p => stage'[q] = stage[q]
      BY <2>1, <2>3, FileTypes
    <2>5. /\ stage'[p][f] = disk[t]
          /\ \A g \in Files : g # f => stage'[p][g] = stage[p][g]
      BY <1>1, <2>2, <2>4
    <2>6. /\ disk' \in [Paths -> Contents] /\ disk'[t] = Free
          /\ \A u \in Paths : u # t => disk'[u] = disk[u]
      BY <1>1, <2>1, FileTypes
    <2> QED BY <1>1, <1>3, <2>4, <2>5, <2>6
  <1> QED BY <1>2, <1>3

LEMMA RestoreView ==
  ASSUME TypeOK, NEW p \in Promoters, Shape(p), Restore(p),
         NEW f, f = tx[p].backed[tx[p].k]
  PROVE  /\ tx[p].k \in 1..Len(tx[p].backed) /\ f \in Files /\ <<f, 0>> \in Paths
         /\ disk' \in [Paths -> Contents] /\ bak' \in [Files -> Contents]
         /\ disk'[<<f, 0>>] = IF bak[f] = Free THEN disk[<<f, 0>>] ELSE bak[f]
         /\ bak'[f] = Free
         /\ \A u \in Paths : u # <<f, 0>> => disk'[u] = disk[u]
         /\ \A g \in Files : g # f => bak'[g] = bak[g]
  <1>1. tx[p].k \in 1..Len(tx[p].backed)
    BY RecordOf DEF Restore, At, Shape, Records
  <1>2. f \in Files
    BY <1>1, RecordOf
  <1>3. <<f, 0>> \in Paths
    BY <1>2, SuffixFacts DEF Paths
  <1>4. /\ disk' = IF bak[f] = Free THEN disk ELSE [disk EXCEPT ![<<f, 0>>] = bak[f]]
        /\ bak' = [bak EXCEPT ![f] = Free]
    BY DEF Restore
  <1>5. bak[f] \in Contents
    BY <1>2, FileTypes
  <1> QED BY <1>1, <1>2, <1>3, <1>4, <1>5, FileTypes

LEMMA CleanView ==
  ASSUME TypeOK, NEW p \in Promoters, Shape(p), Clean(p)
  PROVE  /\ bak' \in [Files -> Contents]
         /\ \A g \in Files : bak'[g] \in {bak[g], Free}
  BY FileTypes DEF Clean

\* The places of the files that the code moves.
LEMMA MovingPlace ==
  ASSUME TypeOK, NEW p \in Promoters, Shape(p),
         Move(p) \/ (Interrupt(p) /\ tx[p].pc = "move")
  PROVE  /\ tx[p].k \in Files /\ tx[p].k \notin 1..Len(tx[p].moved) /\ tx[p].pc = "move"
         /\ Target(p) \in Paths /\ MayTake(p, Target(p)) /\ Rename(p, Target(p))
         /\ bak' = bak
  <1>1. /\ tx[p].pc = "move" /\ MayTake(p, Target(p)) /\ Rename(p, Target(p)) /\ bak' = bak
    BY DEF Move, Interrupt, At, Landed
  <1>2. tx[p].k \in Files /\ tx[p].k \notin 1..Len(tx[p].moved)
    BY <1>1, RecordOf DEF Move, Interrupt, Shape, Records, Files
  <1> QED BY <1>1, <1>2, TargetIsPath

LEMMA TakingPlace ==
  ASSUME TypeOK, NEW p \in Promoters, Shape(p), Undo(p) \/ Rollback(p)
  PROVE  /\ tx[p].k \in 1..Len(tx[p].moved) /\ TakeBack(p) /\ bak' = bak
         /\ tx[p].pc \in {"undo", "rollback"} /\ Goto(p, tx[p].pc, tx[p].k - 1)
  BY RecordOf DEF Undo, Rollback, At, Shape, Records

\* The steps of p that touch no file.
Plans(p) ==
  \/ Precheck(p) \/ BackedUp(p) \/ MoveTaken(p) \/ AllMoved(p) \/ Restart(p) \/ RolledBack(p)
  \/ Restored(p) \/ Cleaned(p) \/ Fault(p) \/ Die(p)

LEMMA PlansView ==
  ASSUME NEW p \in Promoters, Plans(p)
  PROVE  disk' = disk /\ bak' = bak /\ stage' = stage /\ foreign' = foreign
  BY DEF Plans, Precheck, BackedUp, MoveTaken, AllMoved, Restart, RolledBack, Restored,
         Cleaned, Fault, Die

LEMMA MovesCases ==
  ASSUME NEW p \in Promoters, Moves(p)
  PROVE  \/ Plans(p) \/ Backup(p) \/ Move(p) \/ Undo(p) \/ Rollback(p) \/ Restore(p)
         \/ Clean(p) \/ Interrupt(p)
  BY DEF Moves, Step, Plans

LEMMA MovesFaults ==
  ASSUME TypeOK, NEW p \in Promoters, Shape(p), Moves(p)
  PROVE  /\ faults' \in [Promoters -> SUBSET Calls] /\ foreign' = foreign
         /\ \A q \in Promoters : faults[q] \subseteq faults'[q]
         /\ \A q \in Promoters : q # p => faults'[q] = faults[q]
  <1>1. faults \in [Promoters -> SUBSET Calls]
    BY DEF TypeOK
  <1>2. CASE faults' = faults /\ foreign' = foreign
    BY <1>1, <1>2
  <1>3. CASE /\ \E c \in Calls : faults' = [faults EXCEPT ![p] = @ \cup {c}]
             /\ foreign' = foreign
    <2>1. PICK c \in Calls : faults' = [faults EXCEPT ![p] = @ \cup {c}]
      BY <1>3
    <2>2. faults' = [faults EXCEPT ![p] = faults[p] \cup {c}] /\ faults[p] \cup {c} \in SUBSET Calls
      BY <1>1, <2>1
    <2> QED BY <1>1, <1>3, <2>2
  <1>4. CASE Fault(p)
    BY <1>3, <1>4 DEF Fault
  <1>5. CASE Interrupt(p)
    <2>1. "interrupt" \in Calls
      BY DEF Calls
    <2> QED BY <1>3, <1>5, <2>1 DEF Interrupt
  <1>6. CASE Die(p)
    <2>1. "kill" \in Calls
      BY DEF Calls
    <2> QED BY <1>3, <1>6, <2>1 DEF Die
  <1>7. CASE Step(p)
    BY <1>2, <1>7 DEF Step, Precheck, Backup, BackedUp, Move, MoveTaken, AllMoved, Undo, Restart,
       Rollback, RolledBack, Restore, Restored, Clean, Cleaned
  <1> QED BY <1>4, <1>5, <1>6, <1>7 DEF Moves

LEMMA MovesFiles ==
  ASSUME TypeOK, NEW p \in Promoters, Shape(p), Moves(p)
  PROVE  /\ disk' \in [Paths -> Contents] /\ bak' \in [Files -> Contents]
         /\ stage' \in [Promoters -> [Files -> Contents]]
         /\ \A q \in Promoters : q # p => stage'[q] = stage[q]
  <1>1. CASE Plans(p)
    BY <1>1, PlansView, FileTypes
  <1>2. CASE Backup(p)
    <2>1. stage' = stage
      BY <1>2 DEF Backup
    <2>2. CASE SetAside(tx[p].k)
      <3>1. tx[p].k \in Files
        BY <1>2, RecordOf DEF Backup, At, Shape, Records, Files
      <3> QED BY <2>1, <2>2, <3>1, SetAsideView, FileTypes
    <2>3. CASE disk' = disk /\ bak' = bak
      BY <2>1, <2>3, FileTypes
    <2> QED BY <1>2, <2>2, <2>3 DEF Backup
  <1>3. CASE Move(p) \/ (Interrupt(p) /\ tx[p].pc = "move")
    BY <1>3, MovingPlace, RenameView, FileTypes
  <1>4. CASE Undo(p) \/ Rollback(p)
    BY <1>4, TakingPlace, TakeBackView, FileTypes
  <1>5. CASE Restore(p)
    <2>1. stage' = stage
      BY <1>5 DEF Restore
    <2> QED BY <1>5, <2>1, RestoreView, FileTypes
  <1>6. CASE Clean(p)
    <2>1. stage' = stage /\ disk' = disk
      BY <1>6 DEF Clean
    <2> QED BY <1>6, <2>1, CleanView, FileTypes
  <1>7. CASE Interrupt(p) /\ tx[p].pc # "move"
    <2>1. stage' = stage /\ tx[p].k \in Files /\ SetAside(tx[p].k)
      BY <1>7 DEF Interrupt
    <2> QED BY <2>1, SetAsideView, FileTypes
  <1> QED BY <1>1, <1>2, <1>3, <1>4, <1>5, <1>6, <1>7, MovesCases

LEMMA MovesTypes ==
  ASSUME TypeOK, NEW p \in Promoters, Shape(p), Moves(p)
  PROVE  TypeOK'
  <1>1. tx' \in [Promoters -> Txs] /\ policy' = policy /\ before' = before
    BY MovesShape DEF Alone
  <1>2. /\ disk' \in [Paths -> Contents] /\ bak' \in [Files -> Contents]
        /\ stage' \in [Promoters -> [Files -> Contents]]
    BY MovesFiles
  <1>3. faults' \in [Promoters -> SUBSET Calls] /\ foreign' = foreign
    BY MovesFaults
  <1> QED BY <1>1, <1>2, <1>3 DEF TypeOK, Txs

----------------------------------------------------------------------------
(* The steps of one process as another one sees them. *)

\* The files of c come and go, and no others do.
Harmless(c) ==
  \A t \in Paths : \/ disk'[t] = disk[t]
                   \/ disk[t] = Free /\ disk'[t] \in {c, Free}
                   \/ disk[t] = c /\ disk'[t] = Free

LEMMA MovesHarmless ==
  ASSUME TypeOK, NEW p \in Promoters, Shape(p), Mine(p), policy[p] # "overwrite", Moves(p)
  PROVE  /\ Harmless(p) /\ bak' = bak
         /\ \A t \in Paths : disk[t] # Free /\ disk'[t] # disk[t] =>
              disk[t] = p /\ tx'[p] # tx[p]
  <1>1. tx[p].pc # "backup" /\ tx[p].backed = <<>> /\ Len(<<>>) = 0
    BY DEF Shape, ByPolicy
  <1>2. CASE Plans(p)
    BY <1>2, PlansView DEF Harmless
  <1>3. CASE Backup(p)
    BY <1>1, <1>3 DEF Backup, At
  <1>4. CASE Move(p) \/ (Interrupt(p) /\ tx[p].pc = "move")
    <2> DEFINE t == Target(p)
    <2>1. tx[p].k \in Files /\ t \in Paths /\ MayTake(p, t) /\ Rename(p, t) /\ bak' = bak
      BY <1>4, MovingPlace
    <2>2. disk[t] = Free
      BY <2>1 DEF MayTake
    <2>3. stage[p][tx[p].k] \in {p, Free}
      BY <2>1 DEF Mine
    <2> HIDE DEF t
    <2>4. disk'[t] \in {p, Free} /\ \A u \in Paths : u # t => disk'[u] = disk[u]
      BY <2>1, <2>3, RenameView
    <2> QED BY <2>1, <2>2, <2>4 DEF Harmless
  <1>5. CASE Undo(p) \/ Rollback(p)
    <2> DEFINE t == tx[p].moved[tx[p].k][2]
    <2>1. /\ tx[p].k \in 1..Len(tx[p].moved) /\ TakeBack(p) /\ bak' = bak
          /\ tx[p].pc \in {"undo", "rollback"} /\ Goto(p, tx[p].pc, tx[p].k - 1)
      BY <1>5, TakingPlace
    <2>2. disk[t] = p
      <3>1. tx[p].k \in 1..tx[p].k
        BY <2>1, RecordOf
      <3>2. tx[p].k \in Standing(p)
        BY <2>1, <3>1 DEF Standing
      <3> QED BY <3>2 DEF Mine
    <2>3. t \in Paths /\ disk'[t] = Free /\ \A u \in Paths : u # t => disk'[u] = disk[u]
      BY <2>1, TakeBackView
    <2>4. tx'[p].k = tx[p].k - 1 /\ tx[p].k \in Nat
      BY <2>1, GotoView, RecordOf
    <2>5. tx'[p] # tx[p]
      BY <2>4
    <2> QED BY <2>1, <2>2, <2>3, <2>5 DEF Harmless
  <1>6. CASE Restore(p)
    <2>1. tx[p].k \in 1..0
      BY <1>1, <1>6, RestoreView
    <2> QED BY <2>1
  <1>7. CASE Clean(p)
    BY <1>1, <1>7, RecordOf DEF Clean, At, Shape, Records
  <1>8. CASE Interrupt(p) /\ tx[p].pc # "move"
    BY <1>1, <1>8 DEF Interrupt
  <1> QED BY <1>2, <1>3, <1>4, <1>5, <1>6, <1>7, <1>8, MovesCases

LEMMA StandingFacts ==
  ASSUME TypeOK, NEW p \in Promoters, Shape(p)
  PROVE  /\ Standing(p) \subseteq 1..Len(tx[p].moved) /\ Standing(p) \subseteq Files
         /\ \A j \in Standing(p) : tx[p].moved[j][2] \in Paths
  <1>1. Standing(p) \subseteq 1..Len(tx[p].moved)
    BY RecordOf DEF Standing, Shape, Records
  <1>2. 1..Len(tx[p].moved) \subseteq Files
    BY RecordOf DEF Shape, Records, Files
  <1>3. \A j \in Standing(p) : tx[p].moved[j] \in Files \X Paths
    BY <1>1, RecordOf
  <1> QED BY <1>1, <1>2, <1>3

LEMMA Names == /\ \A p \in Promoters : p # Free /\ p # "old" /\ p # "other"
               /\ Free # "old" /\ Free # "other"
  BY PromotionAssumption DEF Free

\* Nothing that is said of p changes when another writer's files come and go.
LEMMA Elsewhere ==
  ASSUME TypeOK, NEW p \in Promoters, Sound(p), NEW c, c # p, c # "old",
         tx'[p] = tx[p], policy' = policy, before' = before, stage'[p] = stage[p], bak' = bak,
         faults'[p] = faults[p], \A q \in Promoters : faults[q] \subseteq faults'[q],
         policy[p] = "overwrite" \/ RestartsWhole => Harmless(c)
  PROVE  Sound(p)'
  <1>1. Shape(p)'
    <2>1. Shape(p)
      BY DEF Sound
    <2> QED BY <2>1 DEF Shape, Records, Named, ByPolicy
  <1>2. /\ Standing(p)' = Standing(p) /\ Aside(p)' = Aside(p)
        /\ RestartsWhole' => RestartsWhole
        /\ RollbackSuffices(p)' => RollbackSuffices(p) /\ RestartsWhole
    BY DEF Standing, Aside, RestartsWhole, RollbackSuffices
  <1>3. ASSUME Harmless(c)
        PROVE  /\ \A t \in Paths : disk'[t] = p <=> disk[t] = p
               /\ \A t \in Paths : disk[t] = "old" => disk'[t] = "old"
    BY <1>3, Names DEF Harmless
  <1>4. ASSUME policy[p] = "overwrite"
        PROVE  Kept(p)' /\ Listed(p)'
    <2>1. Kept(p) /\ Listed(p)
      BY <1>4 DEF Sound
    <2>2. \A f \in Files : /\ Saved(f)' <=> Saved(f)
                           /\ Intact(f) => Intact(f)'
      <3>1. \A f \in Files : <<f, 0>> \in Paths
        BY SuffixFacts DEF Paths
      <3> QED BY <1>3, <1>4, <3>1 DEF Saved, Intact
    <2>3. 1..Len(tx[p].moved) \subseteq Files
      BY RecordOf DEF Sound, Shape, Records, Files
    <2>4. Safe(p)'
      BY <2>1, <2>2 DEF Kept, Safe
    <2>5. Listed(p)'
      BY <1>2, <2>1 DEF Listed
    <2> QED BY <2>1, <2>2, <2>3, <2>4, <2>5 DEF Kept
  <1>5. ASSUME RestartsWhole'
        PROVE  Mine(p)'
    <2>1. Mine(p)
      BY <1>2, <1>5 DEF Sound
    <2>2. \A j \in Standing(p) : tx[p].moved[j][2] \in Paths
      BY StandingFacts DEF Sound
    <2> QED BY <1>2, <1>3, <1>5, <2>1, <2>2 DEF Mine
  <1>6. ASSUME RollbackSuffices(p)'
        PROVE  Exact(p)' /\ OldStays(p)'
    <2>1. Exact(p) /\ OldStays(p)
      BY <1>2, <1>6 DEF Sound
    <2>2. Exact(p)'
      BY <1>2, <1>3, <1>6, <2>1 DEF Exact
    <2>3. OldStays(p)'
      BY <1>2, <1>3, <1>6, <2>1 DEF OldStays
    <2> QED BY <2>2, <2>3
  <1> QED BY <1>1, <1>4, <1>5, <1>6 DEF Sound

----------------------------------------------------------------------------
(* The steps of a process and its own files. *)

LEMMA PrecheckCases ==
  ASSUME NEW p \in Promoters, Precheck(p)
  PROVE  /\ tx[p].pc = "start"
         /\ \/ policy[p] # "overwrite"
            \/ policy[p] = "overwrite" /\ Goto(p, "backup", 1)
  BY DEF Precheck, At

\* The copies of a process that overwrites: its plans ...
LEMMA PlansKept ==
  ASSUME TypeOK, NEW p \in Promoters, Shape(p), Kept(p), policy[p] = "overwrite", Plans(p)
  PROVE  Kept(p)'
  <1>1. /\ disk' = disk /\ bak' = bak /\ stage' = stage /\ before' = before
        /\ policy' = policy
    <2>1. Moves(p)
      BY DEF Plans, Moves, Step
    <2> QED BY <2>1, PlansView, MovesShape DEF Alone
  <1>2. \A f \in Files : (Saved(f)' <=> Saved(f)) /\ (Intact(f)' <=> Intact(f))
    BY <1>1 DEF Saved, Intact
  <1>3. /\ \A f \in Files : f \in Nat /\ 1 <= f /\ f <= NumFiles
        /\ 1..Len(tx[p].moved) \subseteq Files
    BY RecordOf DEF Shape, Records, Files
  <1>4. \A f \in Files : before[<<f, 0>>] = "old" => bak[f] \in {Free, "old"}
    BY DEF Kept
  <1>5. ASSUME NEW pc \in {"rollback", "restore", "failed", "skipped", "dead"}, tx'[p].pc = pc,
               Safe(p)', pc = "rollback" => /\ tx'[p].moved = tx[p].moved
                                            /\ \A f \in 1..Len(tx[p].moved) : Saved(f)
        PROVE  Kept(p)'
    BY <1>1, <1>2, <1>3, <1>4, <1>5 DEF Kept
  <1>6. CASE Precheck(p)
    <2>1. tx[p].pc = "start" /\ tx'[p].pc = "backup" /\ tx'[p].k = 1
      BY <1>6, PrecheckCases, GotoView DEF Pcs
    <2>2. \A f \in Files : Intact(f)
      BY <2>1 DEF Kept
    <2> QED BY <1>1, <1>2, <1>3, <1>4, <2>1, <2>2 DEF Kept, Safe
  <1>7. CASE BackedUp(p)
    <2>1. /\ tx[p].pc = "backup" /\ tx'[p].pc = "move" /\ tx[p].k > NumFiles
          /\ tx'[p].moved = <<>> /\ 1..Len(<<>>) = {} /\ tx[p].k \in Nat
      BY <1>7, GotoView, RecordOf DEF BackedUp, At, Pcs, Shape, Records
    <2>2. \A f \in Files : Saved(f)
      BY <1>3, <2>1, RecordOf DEF Kept
    <2>3. Safe(p)'
      BY <1>2, <2>2 DEF Safe
    <2> QED BY <1>1, <1>2, <1>4, <2>1, <2>2, <2>3 DEF Kept
  <1>8. CASE MoveTaken(p) \/ Restart(p)
    BY <1>8 DEF MoveTaken, MayTake, Restart, At, Shape, ByPolicy
  <1>9. CASE AllMoved(p)
    <2>1. /\ tx[p].pc = "move" /\ tx'[p].pc = "clean" /\ Len(tx[p].moved) = NumFiles
      BY <1>9, GotoView, RecordOf DEF AllMoved, At, Pcs, Shape, Records
    <2>2. \A f \in Files : stage[p][f] = Free /\ Saved(f)
      BY <2>1 DEF Kept, Files
    <2>3. Safe(p)'
      BY <1>2, <2>2 DEF Safe
    <2> QED BY <1>1, <1>2, <1>4, <2>1, <2>2, <2>3 DEF Kept
  <1>10. CASE RolledBack(p)
    <2>1. tx[p].pc = "rollback" /\ tx'[p].pc = "restore"
      BY <1>10, GotoView DEF RolledBack, At, Pcs
    <2>2. Safe(p)'
      BY <1>2, <2>1 DEF Kept, Safe
    <2> QED BY <1>5, <2>1, <2>2
  <1>11. CASE Restored(p)
    <2>1. tx[p].pc = "restore" /\ tx'[p].pc \in {"failed", "skipped"}
      BY <1>11, RecordOf, GotoView DEF Restored, At, Pcs, Shape, Records
    <2>2. Safe(p)'
      BY <1>2, <2>1 DEF Kept, Safe
    <2> QED BY <1>5, <2>1, <2>2
  <1>12. CASE Cleaned(p)
    <2>1. tx[p].pc = "clean" /\ tx'[p].pc = "done"
      BY <1>12, GotoView DEF Cleaned, At, Pcs
    <2>2. Safe(p)'
      BY <1>1, <2>1 DEF Kept, Safe
    <2> QED BY <1>1, <1>4, <2>1, <2>2 DEF Kept
  <1>13. CASE Fault(p)
    <2>1. CASE tx[p].pc \in {"backup", "move"}
      <3>1. tx'[p].pc = "rollback" /\ tx'[p].moved = tx[p].moved
        BY <1>13, <2>1, RaiseView DEF Fault
      <3>2. \A f \in 1..Len(tx[p].moved) : Saved(f)
        <4>1. CASE tx[p].pc = "backup"
          BY <4>1 DEF Shape, Records
        <4>2. CASE tx[p].pc = "move"
          BY <1>3, <4>2 DEF Kept
        <4> QED BY <2>1, <4>1, <4>2
      <3>3. Safe(p)'
        BY <1>2, <2>1 DEF Kept, Safe
      <3> QED BY <1>5, <3>1, <3>2, <3>3
    <2>2. CASE tx[p].pc \notin {"backup", "move"}
      <3>1. tx'[p].pc = "failed"
        BY <1>13, <2>2, GotoView DEF Fault, Pcs, Shape, ByPolicy
      <3>2. tx[p].pc \notin {"done", "failed", "dead"}
        BY <1>13 DEF Fault, Calls
      <3>3. Safe(p)'
        BY <1>1, <1>2, <3>1, <3>2 DEF Kept, Safe
      <3> QED BY <1>5, <3>1, <3>3
    <2> QED BY <2>1, <2>2
  <1>14. CASE Die(p)
    <2>1. tx'[p].pc = "dead"
      BY <1>14, GotoView DEF Die, Pcs
    <2>2. tx[p].pc \notin Ended
      BY <1>14 DEF Die
    <2>3. Safe(p)'
      BY <1>1, <1>2, <2>1, <2>2 DEF Kept, Safe, Ended
    <2> QED BY <1>5, <2>1, <2>3
  <1> QED BY <1>6, <1>7, <1>8, <1>9, <1>10, <1>11, <1>12, <1>13, <1>14 DEF Plans

\* ... and what it does to the files.
LEMMA MovesKept ==
  ASSUME TypeOK, NEW p \in Promoters, Shape(p), Kept(p), policy[p] = "overwrite", Moves(p)
  PROVE  Kept(p)'
  <1>1. before' = before /\ policy' = policy
    BY MovesShape DEF Alone
  <1>2. /\ \A f \in Files : f \in Nat /\ 1 <= f /\ f <= NumFiles
        /\ \A f \in Files : <<f, 0>> \in Paths
        /\ 1..Len(tx[p].moved) \subseteq Files
    BY RecordOf, SuffixFacts DEF Shape, Records, Files, Paths
  <1>3. \A f \in Files : before[<<f, 0>>] = "old" => bak[f] \in {Free, "old"}
    BY DEF Kept
  <1>4. CASE Plans(p)
    BY <1>4, PlansKept
  \* A target is set aside, by a step that is recorded or interrupted.
  <1>5. ASSUME tx[p].pc = "backup", tx[p].k \in Files, SetAside(tx[p].k), stage' = stage
        PROVE  /\ \A f \in Files : f <= tx[p].k => Saved(f)'
               /\ \A f \in Files : f > tx[p].k => Intact(f)'
               /\ \A f \in Files : before[<<f, 0>>] = "old" => bak'[f] \in {Free, "old"}
               /\ \A f \in Files : Saved(f)' \/ Intact(f)'
    <2>0. PICK k \in Files : k = tx[p].k
      BY <1>5
    <2>1. /\ disk'[<<k, 0>>] = Free /\ bak'[k] = disk[<<k, 0>>]
          /\ \A u \in Paths : u # <<k, 0>> => disk'[u] = disk[u]
          /\ \A g \in Files : g # k => bak'[g] = bak[g]
      BY <1>5, <2>0, SetAsideView
    <2>2. \A f \in Files : IF f < k THEN Saved(f) ELSE Intact(f)
      BY <1>5, <2>0 DEF Kept
    <2>3. k \in Nat /\ k \in Files
      BY <1>2, <1>5
    <2>4. Saved(k)'
      <3>1. Intact(k)
        BY <2>2, <2>3
      <3> QED BY <1>1, <2>1, <3>1 DEF Saved, Intact
    <2>5. ASSUME NEW f \in Files, f < k
          PROVE  Saved(f)'
      BY <1>1, <1>2, <2>1, <2>2, <2>3, <2>5 DEF Saved
    <2>6. ASSUME NEW f \in Files, f > k
          PROVE  Intact(f)'
      <3>1. Intact(f) /\ <<f, 0>> \in Paths /\ <<f, 0>> # <<k, 0>>
        BY <1>2, <2>2, <2>3, <2>6
      <3> QED BY <1>1, <2>1, <3>1 DEF Intact
    <2>7. \A f \in Files : f < k \/ f = k \/ f > k
      BY <1>2, <2>3
    <2>8. \A f \in Files : before[<<f, 0>>] = "old" => bak'[f] \in {Free, "old"}
      <3> SUFFICES ASSUME NEW f \in Files, before[<<f, 0>>] = "old"
                   PROVE  bak'[f] \in {Free, "old"}
        OBVIOUS
      <3>1. CASE f = k
        BY <1>1, <2>4, <3>1 DEF Saved
      <3> QED BY <1>3, <2>1, <3>1
    <2>9. \A f \in Files : f <= k => f < k \/ f = k
      BY <1>2, <2>3
    <2>10. /\ \A f \in Files : f <= k => Saved(f)'
           /\ \A f \in Files : f > k => Intact(f)'
           /\ \A f \in Files : Saved(f)' \/ Intact(f)'
      BY <2>4, <2>5, <2>6, <2>7, <2>9
    <2> QED BY <2>0, <2>8, <2>10
  <1>6. CASE Backup(p)
    <2> DEFINE k == tx[p].k
    <2>1. k \in Files /\ tx[p].pc = "backup" /\ stage' = stage /\ k \in Nat
      BY <1>6, RecordOf DEF Backup, At, Shape, Records, Files
    <2>2. CASE NeedsBackup(<<k, 0>>)
      <3>1. SetAside(k) /\ tx' = [tx EXCEPT ![p].k = @ + 1, ![p].backed = Append(@, k)]
        BY <1>6, <2>2 DEF Backup
      <3>2. tx'[p].pc = "backup" /\ tx'[p].k = k + 1
        BY <2>1, <3>1, BackedView
      <3>3. /\ \A f \in Files : f <= k => Saved(f)'
            /\ \A f \in Files : f > k => Intact(f)'
            /\ \A f \in Files : before[<<f, 0>>] = "old" => bak'[f] \in {Free, "old"}
            /\ \A f \in Files : Saved(f)' \/ Intact(f)'
        BY <1>5, <2>1, <3>1
      <3>4. \A f \in Files : IF f < k + 1 THEN Saved(f)' ELSE Intact(f)'
        <4>1. \A f \in Files : IF f < k + 1 THEN f <= k ELSE f > k
          BY <1>2, <2>1
        <4> QED BY <3>3, <4>1
      <3> HIDE DEF k
      <3>5. Safe(p)'
        BY <3>3 DEF Safe
      <3> QED BY <1>1, <3>2, <3>3, <3>4, <3>5 DEF Kept
    <2>3. CASE ~NeedsBackup(<<k, 0>>)
      <3>1. Goto(p, "backup", k + 1) /\ disk' = disk /\ bak' = bak /\ k + 1 \in Nat
        BY <1>6, <2>1, <2>3 DEF Backup
      <3>2. tx'[p].pc = "backup" /\ tx'[p].k = k + 1
        BY <3>1, GotoView DEF Pcs
      <3>3. \A f \in Files : IF f < k THEN Saved(f) ELSE Intact(f)
        BY <2>1 DEF Kept
      <3>4. Saved(k)
        <4>1. Intact(k) /\ disk[<<k, 0>>] = Free
          BY <2>1, <2>3, <3>3 DEF NeedsBackup
        <4> QED BY <4>1, Names DEF Saved, Intact
      <3>5. \A f \in Files : IF f < k + 1 THEN Saved(f) ELSE Intact(f)
        <4>1. \A f \in Files : IF f < k + 1 THEN f < k \/ f = k ELSE ~(f < k)
          BY <1>2, <2>1
        <4> QED BY <3>3, <3>4, <4>1
      <3>6. \A f \in Files : (Saved(f)' <=> Saved(f)) /\ (Intact(f)' <=> Intact(f))
        BY <1>1, <3>1 DEF Saved, Intact
      <3> HIDE DEF k
      <3>7. Safe(p)'
        BY <3>5, <3>6 DEF Safe
      <3> QED BY <1>1, <1>3, <3>1, <3>2, <3>5, <3>6, <3>7 DEF Kept
    <2> QED BY <2>2, <2>3
  <1>7. CASE Move(p) \/ (Interrupt(p) /\ tx[p].pc = "move")
    <2> DEFINE k == tx[p].k
               m == tx[p].moved
    <2>1. /\ k \in Files /\ tx[p].pc = "move" /\ bak' = bak
          /\ Target(p) \in Paths /\ Rename(p, Target(p))
      BY <1>7, MovingPlace
    <2>2. stage'[p][k] = Free /\ \A f \in Files : f # k => stage'[p][f] = stage[p][f]
      BY <2>1, RenameView
    <2>3. \A f \in Files : Saved(f)' /\ Saved(f)
      BY <1>1, <2>1 DEF Kept, Saved
    <2>4. Safe(p)'
      BY <2>3 DEF Safe
    <2>5. CASE Move(p)
      <3>1. /\ tx'[p].pc = "move" /\ tx'[p].moved = Append(m, <<k, Target(p)>>)
            /\ k = Len(m) + 1 /\ Len(m) \in Nat
        BY <2>1, <2>5, LandedView, RecordOf DEF Move, Shape, Records
      <3>2. 1..Len(tx'[p].moved) = 1..Len(m) \cup {k}
        <4>1. Len(Append(m, <<k, Target(p)>>)) = Len(m) + 1
          BY <2>1, RecordOf, AppendFacts
        <4> QED BY <3>1, <4>1
      <3>3. \A f \in 1..Len(m) : stage[p][f] = Free
        BY <2>1 DEF Kept
      <3>4. \A f \in 1..Len(m) \cup {k} : stage'[p][f] = Free
        BY <1>2, <2>2, <3>3
      <3> HIDE DEF k, m
      <3> QED BY <1>1, <1>3, <2>1, <2>3, <2>4, <3>1, <3>2, <3>4 DEF Kept
    <2>6. CASE Interrupt(p)
      <3>1. tx'[p].pc = "rollback" /\ tx'[p].moved = tx[p].moved
        BY <2>6, RaiseView DEF Interrupt
      <3> QED BY <1>1, <1>2, <1>3, <2>1, <2>3, <2>4, <3>1 DEF Kept
    <2> QED BY <1>7, <2>5, <2>6
  <1>8. CASE Undo(p) \/ Rollback(p)
    <2> DEFINE j == tx[p].k
               t == tx[p].moved[j][2]
    <2>1. /\ j \in 1..Len(tx[p].moved) /\ TakeBack(p) /\ bak' = bak /\ tx[p].pc = "rollback"
          /\ Goto(p, "rollback", tx[p].k - 1) /\ tx[p].k - 1 \in Nat
      BY <1>8, TakingPlace, RecordOf DEF Shape, ByPolicy
    <2>2. t \in Paths /\ t = <<j, 0>> /\ j \in Files
      <3>1. t \in Paths /\ t[1] = j /\ t[2] = 0
        BY <2>1, TakeBackView DEF Shape, Records, ByPolicy
      <3> QED BY <1>2, <2>1, <3>1 DEF Paths
    <2>3. \A u \in Paths : u # t => disk'[u] = disk[u]
      BY <2>1, TakeBackView
    <2>4. tx'[p].pc = "rollback" /\ tx'[p].moved = tx[p].moved
      BY <2>1, GotoView DEF Pcs
    <2>5. \A f \in Files : Saved(f)' <=> Saved(f)
      BY <1>1, <2>1 DEF Saved
    <2>6. /\ \A f \in 1..Len(tx[p].moved) : Saved(f)
          /\ \A f \in Files : Saved(f) \/ Intact(f)
      BY <2>1 DEF Kept, Safe
    <2> HIDE DEF j
    <2>7. ASSUME NEW f \in Files, Intact(f), f # j
          PROVE  Intact(f)'
      BY <1>1, <1>2, <2>2, <2>3, <2>7 DEF Intact
    <2>8. Safe(p)'
      BY <2>1, <2>5, <2>6, <2>7 DEF Safe
    <2> QED BY <1>1, <1>2, <1>3, <2>1, <2>4, <2>5, <2>6, <2>8 DEF Kept
  <1>9. CASE Restore(p)
    <2>0. PICK f : f = tx[p].backed[tx[p].k]
      OBVIOUS
    <2>1. /\ f \in Files /\ <<f, 0>> \in Paths
          /\ disk'[<<f, 0>>] = IF bak[f] = Free THEN disk[<<f, 0>>] ELSE bak[f]
          /\ bak'[f] = Free
          /\ \A u \in Paths : u # <<f, 0>> => disk'[u] = disk[u]
          /\ \A g \in Files : g # f => bak'[g] = bak[g]
      BY <1>9, <2>0, RestoreView
    <2>2. tx[p].pc = "restore" /\ tx'[p].pc = "restore"
      BY <1>9, RecordOf, GotoView DEF Restore, At, Pcs
    <2>3. \A g \in Files : Saved(g) \/ Intact(g)
      BY <2>2 DEF Kept, Safe
    <2>4. Intact(f)'
      <3>1. before[<<f, 0>>] = "old" => bak[f] \in {Free, "old"}
        BY <1>3, <2>1
      <3> QED BY <1>1, <2>1, <2>3, <3>1, Names DEF Intact, Saved
    <2>5. ASSUME NEW g \in Files, g # f
          PROVE  Saved(g)' \/ Intact(g)'
      BY <1>1, <1>2, <2>1, <2>3, <2>5 DEF Intact, Saved
    <2>6. Safe(p)'
      BY <2>4, <2>5 DEF Safe
    <2>7. \A g \in Files : before[<<g, 0>>] = "old" => bak'[g] \in {Free, "old"}
      BY <1>3, <2>1
    <2> QED BY <1>1, <2>2, <2>6, <2>7 DEF Kept
  <1>10. CASE Clean(p)
    <2>1. /\ tx[p].pc = "clean" /\ stage' = stage /\ Goto(p, "clean", tx[p].k + 1)
          /\ tx[p].k + 1 \in Nat
      BY <1>10, RecordOf DEF Clean, At
    <2>2. tx'[p].pc = "clean"
      BY <2>1, GotoView DEF Pcs
    <2>3. \A f \in Files : stage'[p][f] = Free
      BY <2>1 DEF Kept
    <2>4. \A g \in Files : bak'[g] \in {bak[g], Free}
      BY <1>10, CleanView
    <2>5. Safe(p)'
      BY <2>2, <2>3 DEF Safe
    <2> QED BY <1>1, <1>3, <2>2, <2>3, <2>4, <2>5 DEF Kept
  <1>11. CASE Interrupt(p) /\ tx[p].pc # "move"
    <2>1. /\ tx[p].pc = "backup" /\ tx[p].k \in Files /\ SetAside(tx[p].k) /\ stage' = stage
          /\ Raise(p, "failed") /\ tx[p].moved = <<>>
      BY <1>11 DEF Interrupt, Shape, Records
    <2>2. tx'[p].pc = "rollback" /\ tx'[p].moved = <<>> /\ 1..Len(<<>>) = {}
      BY <2>1, RaiseView
    <2>3. /\ \A f \in Files : before[<<f, 0>>] = "old" => bak'[f] \in {Free, "old"}
          /\ \A f \in Files : Saved(f)' \/ Intact(f)'
      BY <1>5, <2>1
    <2>4. Safe(p)'
      BY <2>3 DEF Safe
    <2> QED BY <1>1, <2>2, <2>3, <2>4 DEF Kept
  <1> QED BY <1>4, <1>6, <1>7, <1>8, <1>9, <1>10, <1>11, MovesCases

\* What the plans do to the records that the files are judged by.
LEMMA PlansStanding ==
  ASSUME TypeOK, NEW p \in Promoters, Shape(p), Plans(p)
  PROVE  /\ RestartsWhole' =>
              /\ Standing(p)' \subseteq Standing(p)
              /\ \A j \in Standing(p)' : tx'[p].moved[j] = tx[p].moved[j]
         /\ tx'[p].pc \in {"start", "backup", "move", "undo"} =>
              /\ Standing(p)' = Standing(p)
              /\ tx[p].pc \in {"start", "backup", "move", "undo"}
         /\ RollbackSuffices(p)' =>
              /\ Standing(p)' = Standing(p)
              /\ tx'[p].pc \notin {"clean", "done"} => Aside(p) \subseteq Aside(p)'
              /\ tx[p].pc \in {"clean", "done"} => tx'[p].pc \in {"clean", "done"}
         /\ tx'[p].pc = "move" /\ policy[p] = "overwrite" =>
              tx[p].pc = "backup" /\ tx[p].k > NumFiles /\ Aside(p)' = Aside(p)
         /\ tx'[p].pc = "backup" => tx'[p].k = 1
  <1>1. Len(<<>>) = 0 /\ 1..0 = {} /\ 0 \in Nat /\ 1 \in Nat
    OBVIOUS
  <1>2. CASE Precheck(p)
    <2>1. /\ tx[p].pc = "start" /\ tx[p].moved = <<>> /\ tx[p].backed = <<>> /\ tx[p].k = 1
      BY <1>2 DEF Precheck, At, Shape, Records, Named, ByPolicy
    <2>2. /\ tx'[p].pc \in {"failed", "skipped", "backup", "move"}
          /\ tx'[p].moved = <<>> /\ tx'[p].backed = <<>>
          /\ tx'[p].pc = "move" => policy[p] # "overwrite"
          /\ tx'[p].pc = "backup" => tx'[p].k = 1
      <3>1. CASE \/ Goto(p, "failed", 0) \/ Goto(p, "skipped", 0)
                 \/ Goto(p, "backup", 1)
                 \/ Goto(p, "move", 1) /\ policy[p] # "overwrite"
        BY <1>1, <2>1, <3>1, GotoView DEF Pcs
      <3>2. CASE /\ policy[p] = "rename" /\ FreeSuffixes(1) # {}
                 /\ tx' = [tx EXCEPT ![p].pc = "move", ![p].suffix = Least(FreeSuffixes(1))]
        <4>1. PICK s \in Suffixes : s = Least(FreeSuffixes(1))
          BY <1>1, <3>2, SuffixFacts
        <4>2. At(p, "start")
          BY <1>2 DEF Precheck
        <4>3. tx' = [tx EXCEPT ![p].pc = "move", ![p].suffix = s]
          BY <3>2, <4>1
        <4> QED BY <2>1, <3>2, <4>2, <4>3, PlannedView
      <3> QED BY <1>2, <3>1, <3>2 DEF Precheck
    <2> QED BY <1>1, <2>1, <2>2 DEF Standing, Aside
  <1>3. CASE BackedUp(p)
    <2>1. /\ tx[p].pc = "backup" /\ tx[p].moved = <<>> /\ tx[p].k > NumFiles
          /\ tx'[p].pc = "move" /\ tx'[p].moved = <<>> /\ tx'[p].backed = tx[p].backed
      BY <1>1, <1>3, GotoView DEF BackedUp, At, Shape, Records, Pcs
    <2> QED BY <1>1, <2>1 DEF Standing, Aside, Ended
  <1>4. CASE MoveTaken(p)
    <2>1. /\ tx[p].pc = "move" /\ policy[p] # "overwrite" /\ Len(tx[p].moved) \in Nat
          /\ tx[p].backed = <<>> /\ tx[p].k \in Files
      BY <1>4, RecordOf DEF MoveTaken, MayTake, At, Shape, Records, ByPolicy, Files
    <2>2. /\ tx'[p].pc \in {"move", "undo", "rollback"} /\ tx'[p].moved = tx[p].moved
          /\ tx'[p].pc \in {"undo", "rollback"} => tx'[p].k = Len(tx[p].moved)
      <3>1. CASE Raise(p, "failed") \/ Raise(p, "skipped")
        BY <2>1, <3>1, RaiseView
      <3>2. CASE Goto(p, "undo", Len(tx[p].moved))
        BY <2>1, <3>2, GotoView DEF Pcs
      <3>3. CASE /\ UniqueSuffixes(tx[p].k) # {}
                 /\ tx' = [tx EXCEPT ![p].own = Least(UniqueSuffixes(tx[p].k))]
        <4>1. PICK s \in Suffixes : s = Least(UniqueSuffixes(tx[p].k))
          BY <2>1, <3>3, SuffixFacts
        <4>2. tx' = [tx EXCEPT ![p].own = s]
          BY <3>3, <4>1
        <4> QED BY <2>1, <4>2, OwnNameView
      <3> QED BY <1>4, <3>1, <3>2, <3>3 DEF MoveTaken
    <2> QED BY <1>1, <2>1, <2>2 DEF Standing, Aside
  <1>5. CASE AllMoved(p)
    <2>1. tx[p].pc = "move" /\ tx'[p].pc = "clean" /\ tx'[p].moved = tx[p].moved
          /\ tx'[p].backed = tx[p].backed
      BY <1>5, GotoView DEF AllMoved, At, Pcs
    <2> QED BY <2>1 DEF Standing, Aside, Ended
  <1>6. CASE Restart(p)
    <2>1. /\ tx[p].pc = "undo" /\ policy[p] # "overwrite" /\ tx[p].k = 0 /\ tx[p].backed = <<>>
      BY <1>6 DEF Restart, At, Shape, ByPolicy
    <2>2. tx'[p].pc = "move" /\ tx'[p].moved = <<>>
      <3>1. PICK s \in Suffixes : s = Least(FreeSuffixes(tx[p].suffix + 1))
        <4>1. tx[p].suffix + 1 \in Nat
          BY RecordOf DEF Suffixes
        <4> QED BY <1>6, <4>1, SuffixFacts DEF Restart
      <3>2. tx' = [tx EXCEPT ![p].pc = "move", ![p].k = 1, ![p].own = 0,
                             ![p].moved = <<>>, ![p].suffix = s]
        BY <1>6, <3>1, TxTypes DEF Restart
      <3> QED BY <3>2, RestartView
    <2> QED BY <1>1, <2>1, <2>2 DEF Standing, Aside
  <1>7. CASE RolledBack(p)
    <2>1. /\ tx[p].pc = "rollback" /\ tx[p].k = 0 /\ tx'[p].pc = "restore" /\ tx'[p].k = 1
          /\ tx'[p].backed = tx[p].backed
      BY <1>1, <1>7, GotoView DEF RolledBack, At, Pcs
    <2> QED BY <1>1, <2>1, RecordOf DEF Standing, Aside, Ended
  <1>8. CASE Restored(p)
    <2>1. /\ tx[p].pc = "restore" /\ tx'[p].pc \in {"failed", "skipped"}
          /\ tx[p].k > Len(tx[p].backed) /\ tx[p].k \in Nat /\ Len(tx[p].backed) \in Nat
      BY <1>1, <1>8, RecordOf, GotoView DEF Restored, At, Pcs, Shape, Records
    <2>2. Aside(p) = {}
      BY <2>1 DEF Aside, Ended
    <2> QED BY <2>1, <2>2 DEF Standing
  <1>9. CASE Cleaned(p)
    <2>1. tx[p].pc = "clean" /\ tx'[p].pc = "done" /\ tx'[p].moved = tx[p].moved
          /\ tx[p].k > Len(tx[p].backed)
      BY <1>1, <1>9, GotoView DEF Cleaned, At, Pcs
    <2> QED BY <2>1 DEF Standing
  <1>10. CASE Fault(p)
    <2>1. CASE tx[p].pc \in {"backup", "move"}
      <3>1. /\ tx'[p].pc = "rollback" /\ tx'[p].moved = tx[p].moved
            /\ tx'[p].k = Len(tx[p].moved) /\ tx'[p].backed = tx[p].backed
        BY <1>10, <2>1, RaiseView DEF Fault
      <3>2. tx[p].pc = "backup" => tx[p].moved = <<>>
        BY DEF Shape, Records
      <3> QED BY <1>1, <2>1, <3>1, <3>2 DEF Standing, Aside, Ended
    <2>2. CASE tx[p].pc \notin {"backup", "move"}
      <3>1. tx[p].pc \in faults'[p]
        BY <1>10 DEF Fault, TypeOK
      <3>2. /\ ~RollbackSuffices(p)'
            /\ tx[p].pc = "undo" => ~RestartsWhole'
        BY <2>2, <3>1 DEF RollbackSuffices, RestartsWhole
      <3>3. CASE tx[p].pc = "undo"
        <4>1. tx'[p].pc = "rollback"
          BY <1>10, <3>3, RaiseView DEF Fault
        <4> QED BY <3>2, <3>3, <4>1
      <3>4. CASE tx[p].pc # "undo"
        <4>1. tx'[p].pc = "failed"
          BY <1>1, <1>10, <2>2, <3>4, GotoView DEF Fault, Pcs
        <4> QED BY <3>2, <4>1 DEF Standing
      <3> QED BY <3>3, <3>4
    <2> QED BY <2>1, <2>2
  <1>11. CASE Die(p)
    <2>1. "kill" \in faults'[p]
      BY <1>11 DEF Die, TypeOK
    <2>2. ~RollbackSuffices(p)'
      BY <2>1 DEF RollbackSuffices
    <2>3. tx'[p].pc = "dead"
      BY <1>1, <1>11, GotoView DEF Die, Pcs
    <2> QED BY <2>2, <2>3 DEF Standing
  <1> QED BY <1>2, <1>3, <1>4, <1>5, <1>6, <1>7, <1>8, <1>9, <1>10, <1>11 DEF Plans

\* The step that moves a file.
LEMMA MoveView ==
  ASSUME TypeOK, NEW p \in Promoters, Shape(p), Move(p), NEW k, k = tx[p].k
  PROVE  /\ k \in Files /\ tx'[p].pc = "move" /\ k \notin Standing(p)
         /\ Standing(p) = 1..Len(tx[p].moved) /\ Standing(p)' = Standing(p) \cup {k}
         /\ \A j \in Standing(p) : tx'[p].moved[j] = tx[p].moved[j]
         /\ tx'[p].moved[k] = <<k, Target(p)>> /\ tx'[p].backed = tx[p].backed
         /\ Target(p) \in Paths /\ Target(p)[1] = k
  <1> DEFINE m == tx[p].moved
             t == Target(p)
  <1>1. k \in Files /\ tx[p].pc = "move" /\ k \notin 1..Len(m) /\ t \in Paths /\ t[1] = k
    BY MovingPlace, TargetIsPath
  <1>2. k = Len(m) + 1 /\ Len(m) \in Nat /\ m \in Seq(Files \X Paths)
    BY <1>1, RecordOf DEF Shape, Records
  <1>3. /\ tx'[p].pc = "move" /\ tx'[p].moved = Append(m, <<k, t>>)
        /\ tx'[p].backed = tx[p].backed
    BY <1>1, LandedView DEF Move
  <1>4. <<k, t>> \in Files \X Paths
    BY <1>1
  <1>5. /\ Len(Append(m, <<k, t>>)) = k /\ Append(m, <<k, t>>)[k] = <<k, t>>
        /\ \A j \in 1..Len(m) : Append(m, <<k, t>>)[j] = m[j]
    BY <1>2, <1>4, AppendFacts
  <1>6. 1..k = 1..Len(m) \cup {k}
    BY <1>2
  <1>7. Standing(p) = 1..Len(m)
    BY <1>1 DEF Standing
  <1>8. Standing(p)' = 1..k
    BY <1>3, <1>5 DEF Standing
  <1> QED BY <1>1, <1>3, <1>5, <1>6, <1>7, <1>8

\* The step that takes a file back.
LEMMA TakingView ==
  ASSUME TypeOK, NEW p \in Promoters, Shape(p), Undo(p) \/ Rollback(p), NEW k, k = tx[p].k
  PROVE  /\ k \in Files /\ tx[p].pc \in {"undo", "rollback"} /\ tx'[p].pc = tx[p].pc
         /\ Standing(p) = 1..k /\ Standing(p)' = 1..k \ {k}
         /\ tx'[p].moved = tx[p].moved /\ tx'[p].backed = tx[p].backed
         /\ tx[p].moved[k][1] = k
         /\ \A j \in 1..k \ {k} : tx[p].moved[j][2] # tx[p].moved[k][2]
  <1>1. /\ k \in 1..Len(tx[p].moved) /\ tx[p].pc \in {"undo", "rollback"}
        /\ Goto(p, tx[p].pc, k - 1)
    BY TakingPlace
  <1>9. Len(tx[p].moved) \in Nat /\ Len(tx[p].moved) <= NumFiles /\ NumFiles \in Nat
    BY RecordOf DEF Shape, Records
  <1>2. /\ k \in Nat /\ k - 1 \in Nat /\ k \in Files /\ 1..(k - 1) = 1..k \ {k}
        /\ Len(tx[p].moved) \in Nat
    BY <1>1, <1>9 DEF Files
  <1>3. /\ tx'[p].pc = tx[p].pc /\ tx'[p].k = k - 1 /\ tx'[p].moved = tx[p].moved
        /\ tx'[p].backed = tx[p].backed
    BY <1>1, <1>2, GotoView DEF Pcs
  <1>4. Standing(p) = 1..k /\ Standing(p)' = 1..(k - 1)
    BY <1>1, <1>3 DEF Standing
  <1>5. \A j \in 1..Len(tx[p].moved) : tx[p].moved[j][1] = j /\ tx[p].moved[j][2][1] = j
    BY DEF Shape, Records
  <1>6. \A j \in 1..k : j \in 1..Len(tx[p].moved)
    BY <1>1, <1>2
  <1>7. k \in 1..k /\ tx[p].moved[k][1] = k /\ tx[p].moved[k][2][1] = k
    BY <1>1, <1>2, <1>5
  <1>8. ASSUME NEW j \in 1..k \ {k}
        PROVE  tx[p].moved[j][2] # tx[p].moved[k][2]
    <2>1. tx[p].moved[j][2][1] = j /\ j # k
      BY <1>5, <1>6
    <2> QED BY <1>7, <2>1
  <1> QED BY <1>1, <1>2, <1>3, <1>4, <1>7, <1>8

\* The steps between two places at which no moved file stands.
LEMMA BackupView ==
  ASSUME TypeOK, NEW p \in Promoters, Shape(p),
         Backup(p) \/ (Interrupt(p) /\ tx[p].pc # "move")
  PROVE  /\ tx[p].pc = "backup" /\ stage' = stage /\ Standing(p) = {} /\ Standing(p)' = {}
         /\ policy[p] = "overwrite"
         /\ tx[p].k \in Files
         /\ Backup(p) => tx'[p].pc = "backup" /\ tx'[p].k = tx[p].k + 1
         /\ Interrupt(p) => tx'[p].pc = "rollback"
  <1>1. /\ tx[p].pc = "backup" /\ stage' = stage /\ tx[p].moved = <<>> /\ Len(<<>>) = 0
        /\ policy[p] = "overwrite" /\ tx[p].k \in Nat /\ tx[p].k \in Files
    BY RecordOf DEF Backup, Interrupt, At, Shape, Records, ByPolicy, Files
  <1>2. CASE Backup(p)
    <2>1. tx'[p].pc = "backup" /\ tx'[p].k = tx[p].k + 1
      <3>1. CASE tx' = [tx EXCEPT ![p].k = @ + 1, ![p].backed = Append(@, tx[p].k)]
        BY <1>1, <3>1, BackedView
      <3>2. CASE Goto(p, "backup", tx[p].k + 1)
        BY <1>1, <3>2, GotoView DEF Pcs
      <3> QED BY <1>2, <3>1, <3>2 DEF Backup
    <2>2. ~Interrupt(p)
      <3>1. tx'[p].pc # "rollback"
        BY <2>1
      <3> QED BY <3>1, RaiseView DEF Interrupt
    <2> QED BY <1>1, <2>1, <2>2 DEF Standing
  <1>3. CASE Interrupt(p)
    <2>1. tx'[p].pc = "rollback" /\ tx'[p].k = 0 /\ 1..0 = {}
      BY <1>1, <1>3, RaiseView DEF Interrupt
    <2>2. ~Backup(p)
      <3>1. CASE tx' = [tx EXCEPT ![p].k = @ + 1, ![p].backed = Append(@, tx[p].k)]
        BY <1>1, <2>1, <3>1, BackedView
      <3>2. CASE Goto(p, "backup", tx[p].k + 1)
        BY <1>1, <2>1, <3>2, GotoView DEF Pcs
      <3> QED BY <3>1, <3>2 DEF Backup
    <2> QED BY <1>1, <2>1, <2>2 DEF Standing
  <1> QED BY <1>2, <1>3

LEMMA RestoringView ==
  ASSUME TypeOK, NEW p \in Promoters, Restore(p)
  PROVE  /\ tx[p].pc = "restore" /\ tx'[p].pc = "restore" /\ stage' = stage
         /\ tx'[p].k = tx[p].k + 1 /\ tx'[p].backed = tx[p].backed
         /\ Standing(p) = {} /\ Standing(p)' = {}
  <1>1. /\ tx[p].pc = "restore" /\ stage' = stage /\ Goto(p, "restore", tx[p].k + 1)
        /\ tx[p].k + 1 \in Nat
    BY RecordOf DEF Restore, At
  <1>2. tx'[p].pc = "restore" /\ tx'[p].k = tx[p].k + 1 /\ tx'[p].backed = tx[p].backed
    BY <1>1, GotoView DEF Pcs
  <1> QED BY <1>1, <1>2 DEF Standing

LEMMA CleaningView ==
  ASSUME TypeOK, NEW p \in Promoters, Clean(p)
  PROVE  /\ tx[p].pc = "clean" /\ tx'[p].pc = "clean" /\ stage' = stage /\ disk' = disk
         /\ tx'[p].moved = tx[p].moved /\ Standing(p)' = Standing(p)
  <1>1. /\ tx[p].pc = "clean" /\ stage' = stage /\ Goto(p, "clean", tx[p].k + 1)
        /\ tx[p].k + 1 \in Nat /\ disk' = disk
    BY RecordOf DEF Clean, At
  <1>2. tx'[p].pc = "clean" /\ tx'[p].moved = tx[p].moved
    BY <1>1, GotoView DEF Pcs
  <1> QED BY <1>1, <1>2 DEF Standing

LEMMA MovesMine ==
  ASSUME TypeOK, NEW p \in Promoters, Shape(p), Mine(p), Moves(p), RestartsWhole'
  PROVE  Mine(p)'
  <1>1. /\ Standing(p) \subseteq 1..Len(tx[p].moved) /\ Standing(p) \subseteq Files
        /\ \A j \in Standing(p) : tx[p].moved[j][2] \in Paths
    BY StandingFacts
  <1>2. /\ \A j \in Standing(p) : disk[tx[p].moved[j][2]] = p
        /\ \A f \in Files : stage[p][f] \in {p, Free}
    BY DEF Mine
  <1>3. CASE Plans(p)
    <2>1. disk' = disk /\ stage' = stage
      BY <1>3, PlansView
    <2>2. /\ Standing(p)' \subseteq Standing(p)
          /\ \A j \in Standing(p)' : tx'[p].moved[j] = tx[p].moved[j]
          /\ tx'[p].pc \in {"start", "backup", "move", "undo"} =>
               /\ Standing(p)' = Standing(p)
               /\ tx[p].pc \in {"start", "backup", "move", "undo"}
      BY <1>3, PlansStanding
    <2>3. \A j \in Standing(p)' : disk'[tx'[p].moved[j][2]] = p
      BY <1>2, <2>1, <2>2
    <2> QED BY <1>2, <2>1, <2>2, <2>3 DEF Mine
  <1>4. CASE Backup(p) \/ (Interrupt(p) /\ tx[p].pc # "move")
    BY <1>2, <1>4, BackupView DEF Mine
  <1>5. CASE Move(p) \/ (Interrupt(p) /\ tx[p].pc = "move")
    <2>1. PICK k, t : k = tx[p].k /\ t = Target(p)
      OBVIOUS
    <2>2. k \in Files /\ tx[p].pc = "move" /\ k \notin 1..Len(tx[p].moved)
          /\ t \in Paths /\ t[1] = k /\ Rename(p, t)
      BY <1>5, <2>1, MovingPlace, TargetIsPath
    <2>3. stage[p][k] = p
      BY <1>1, <2>2 DEF Mine
    <2>4. /\ disk'[t] = p /\ \A u \in Paths : u # t => disk'[u] = disk[u]
          /\ stage'[p][k] = Free /\ \A f \in Files : f # k => stage'[p][f] = stage[p][f]
      BY <2>1, <2>2, <2>3, RenameView
    <2>5. \A j \in Standing(p) : disk'[tx[p].moved[j][2]] = p
      BY <1>1, <1>2, <2>4
    <2>6. \A f \in Files : stage'[p][f] \in {p, Free}
      BY <1>2, <2>4
    <2>7. CASE Move(p)
      <3>1. /\ tx'[p].pc = "move" /\ Standing(p)' = Standing(p) \cup {k}
            /\ \A j \in Standing(p) : tx'[p].moved[j] = tx[p].moved[j]
            /\ tx'[p].moved[k] = <<k, t>>
        BY <2>1, <2>7, MoveView
      <3>2. \A j \in Standing(p)' : disk'[tx'[p].moved[j][2]] = p
        BY <2>4, <2>5, <3>1
      <3>3. \A f \in Files \ Standing(p)' : stage'[p][f] = p
        BY <2>2, <2>4, <3>1 DEF Mine
      <3> QED BY <2>6, <3>1, <3>2, <3>3 DEF Mine
    <2>8. CASE Interrupt(p)
      <3>1. /\ tx'[p].pc = "rollback" /\ tx'[p].k = Len(tx[p].moved)
            /\ tx'[p].moved = tx[p].moved
        BY <2>8, RaiseView DEF Interrupt
      <3>2. Standing(p)' = Standing(p)
        BY <2>2, <3>1 DEF Standing
      <3> QED BY <2>5, <2>6, <3>1, <3>2 DEF Mine
    <2> QED BY <1>5, <2>7, <2>8
  <1>6. CASE Undo(p) \/ Rollback(p)
    <2>1. PICK k, t : k = tx[p].k /\ t = tx[p].moved[k][2]
      OBVIOUS
    <2>2. /\ k \in Files /\ tx[p].pc \in {"undo", "rollback"} /\ tx'[p].pc = tx[p].pc
          /\ Standing(p) = 1..k /\ Standing(p)' = 1..k \ {k}
          /\ tx'[p].moved = tx[p].moved /\ tx[p].moved[k][1] = k
          /\ \A j \in 1..k \ {k} : tx[p].moved[j][2] # t
      BY <1>6, <2>1, TakingView
    <2>3. k \in 1..k
      BY <2>2 DEF Files
    <2>4. disk[t] = p
      BY <1>2, <2>1, <2>2, <2>3
    <2>5. /\ \A u \in Paths : u # t => disk'[u] = disk[u]
          /\ stage'[p][k] = p /\ \A f \in Files : f # k => stage'[p][f] = stage[p][f]
      BY <1>6, <2>1, <2>2, <2>4, TakingPlace, TakeBackView, Names
    <2>6. \A j \in Standing(p)' : disk'[tx'[p].moved[j][2]] = p
      BY <1>1, <1>2, <2>2, <2>5
    <2>7. \A f \in Files : stage'[p][f] \in {p, Free}
      BY <1>2, <2>5
    <2>8. tx[p].pc = "undo" => \A f \in Files \ Standing(p)' : stage'[p][f] = p
      BY <2>2, <2>5 DEF Mine
    <2> QED BY <2>2, <2>6, <2>7, <2>8 DEF Mine
  <1>7. CASE Restore(p)
    BY <1>2, <1>7, RestoringView DEF Mine
  <1>8. CASE Clean(p)
    BY <1>2, <1>8, CleaningView DEF Mine
  <1> QED BY <1>3, <1>4, <1>5, <1>6, <1>7, <1>8, MovesCases

LEMMA AsideFacts ==
  ASSUME NEW p \in Promoters, tx[p].pc \notin Ended \cup {"restore"}
  PROVE  Aside(p) = {tx[p].backed[j] : j \in 1..Len(tx[p].backed)}
  BY DEF Aside

LEMMA BackupAside ==
  ASSUME TypeOK, NEW p \in Promoters, Shape(p), Backup(p), NEW k, k = tx[p].k
  PROVE  /\ Aside(p) \subseteq Aside(p)'
         /\ \/ SetAside(k) /\ k \in Aside(p)'
            \/ disk' = disk /\ bak' = bak /\ disk[<<k, 0>>] = Free
  <1>1. /\ tx[p].pc = "backup" /\ tx'[p].pc = "backup" /\ k \in Files
    BY BackupView
  <1>2. /\ Aside(p) = {tx[p].backed[j] : j \in 1..Len(tx[p].backed)}
        /\ Aside(p)' = {tx'[p].backed[j] : j \in 1..Len(tx'[p].backed)}
    BY <1>1 DEF Aside, Ended
  <1>3. CASE NeedsBackup(<<k, 0>>)
    <2>1. SetAside(k) /\ tx' = [tx EXCEPT ![p].k = @ + 1, ![p].backed = Append(@, tx[p].k)]
      BY <1>3 DEF Backup
    <2>2. tx'[p].backed = Append(tx[p].backed, k)
      BY <1>1, <2>1, BackedView
    <2> DEFINE b == tx[p].backed
    <2>3. /\ Len(Append(b, k)) = Len(b) + 1 /\ Len(b) \in Nat
          /\ \A i \in 1..Len(b) : Append(b, k)[i] = b[i]
          /\ Append(b, k)[Len(b) + 1] = k
      BY <1>1, RecordOf, AppendFacts
    <2>4. 1..(Len(b) + 1) = 1..Len(b) \cup {Len(b) + 1}
      BY <2>3
    <2>5. Aside(p)' = {Append(b, k)[j] : j \in 1..Len(b) \cup {Len(b) + 1}}
      BY <1>2, <2>2, <2>3, <2>4
    <2>6. Aside(p) = {b[j] : j \in 1..Len(b)}
      BY <1>2
    <2> HIDE DEF b
    <2>7. k \in Aside(p)'
      BY <2>3, <2>5
    <2>8. Aside(p) \subseteq Aside(p)'
      BY <2>3, <2>5, <2>6
    <2> QED BY <2>1, <2>7, <2>8
  <1>4. CASE ~NeedsBackup(<<k, 0>>)
    <2>1. Goto(p, "backup", tx[p].k + 1) /\ disk' = disk /\ bak' = bak
      BY <1>4 DEF Backup
    <2>2. tx[p].k + 1 \in Nat
      BY RecordOf
    <2>3. tx'[p].backed = tx[p].backed
      BY <2>1, <2>2, GotoView DEF Pcs
    <2> QED BY <1>2, <1>4, <2>1, <2>3 DEF NeedsBackup
  <1> QED BY <1>3, <1>4

LEMMA MovesListed ==
  ASSUME TypeOK, NEW p \in Promoters, Shape(p), policy[p] = "overwrite", Kept(p), Listed(p),
         Moves(p)
  PROVE  Listed(p)'
  <1>1. before' = before /\ \A f \in Files : f \in Nat /\ 1 <= f /\ f <= NumFiles
    BY MovesShape, RecordOf DEF Alone, Files
  <1>2. CASE Plans(p)
    <2>1. /\ tx'[p].pc = "move" =>
               tx[p].pc = "backup" /\ tx[p].k > NumFiles /\ Aside(p)' = Aside(p)
          /\ tx'[p].pc = "backup" => tx'[p].k = 1
      BY <1>2, PlansStanding
    <2>2. tx'[p].pc = "move" => \A f \in Files : f < tx[p].k
      BY <1>1, <2>1, RecordOf
    <2>3. tx'[p].pc = "backup" => \A f \in Files : ~(f < tx'[p].k)
      BY <1>1, <2>1
    <2> QED BY <1>1, <2>1, <2>2, <2>3 DEF Listed
  <1>3. CASE Backup(p)
    <2>1. PICK k : k = tx[p].k
      OBVIOUS
    <2>2. tx[p].pc = "backup" /\ tx'[p].pc = "backup" /\ k \in Files /\ tx'[p].k = k + 1
      BY <1>3, <2>1, BackupView
    <2>3. /\ Aside(p) \subseteq Aside(p)'
          /\ k \in Aside(p)' \/ disk[<<k, 0>>] = Free
      BY <1>3, <2>1, BackupAside
    <2>4. Intact(k)
      <3>1. IF k < tx[p].k THEN Saved(k) ELSE Intact(k)
        BY <2>2 DEF Kept
      <3> QED BY <1>1, <2>1, <2>2, <3>1
    <2>5. before[<<k, 0>>] = "old" => k \in Aside(p)'
      BY <2>3, <2>4, Names DEF Intact
    <2>6. \A f \in Files : f < k /\ before[<<f, 0>>] = "old" => f \in Aside(p)'
      BY <2>1, <2>2, <2>3 DEF Listed
    <2>7. \A f \in Files : f < k + 1 => f < k \/ f = k
      BY <1>1, <2>2
    <2> QED BY <1>1, <2>2, <2>5, <2>6, <2>7 DEF Listed
  <1>4. CASE Move(p)
    <2>1. tx[p].pc = "move" /\ tx'[p].pc = "move" /\ tx'[p].backed = tx[p].backed
      BY <1>4, MoveView, MovingPlace
    <2>2. Aside(p)' = Aside(p)
      BY <2>1 DEF Aside, Ended
    <2> QED BY <1>1, <2>1, <2>2 DEF Listed
  <1>5. CASE Undo(p) \/ Rollback(p)
    <2>1. tx'[p].pc \in {"undo", "rollback"}
      BY <1>5, TakingView
    <2> QED BY <2>1 DEF Listed
  <1>6. CASE Restore(p) \/ Clean(p)
    <2>1. tx'[p].pc \in {"restore", "clean"}
      BY <1>6, RestoringView, CleaningView
    <2> QED BY <2>1 DEF Listed
  <1>7. CASE Interrupt(p)
    <2>1. tx'[p].pc = "rollback"
      BY <1>7, RaiseView DEF Interrupt
    <2> QED BY <2>1 DEF Listed
  <1> QED BY <1>2, <1>3, <1>4, <1>5, <1>6, <1>7, MovesCases

\* A process that is interrupted is no longer judged by what it published.
LEMMA Uninterrupted ==
  ASSUME TypeOK, NEW p \in Promoters, Interrupt(p)
  PROVE  ~RollbackSuffices(p)'
  <1>1. "interrupt" \in faults'[p]
    BY DEF Interrupt, TypeOK
  <1> QED BY <1>1 DEF RollbackSuffices

LEMMA MovesExact ==
  ASSUME TypeOK, NEW p \in Promoters, Shape(p), Mine(p), Exact(p), Moves(p),
         RollbackSuffices(p)'
  PROVE  Exact(p)'
  <1>1. policy' = policy
    BY MovesShape DEF Alone
  <1>2. /\ \A t \in Paths : disk[t] = p => t[1] \in Standing(p) /\ tx[p].moved[t[1]][2] = t
        /\ \A f \in Files : stage[p][f] = IF f \in Standing(p) THEN Free ELSE p
        /\ policy[p] = "overwrite" => \A f \in Files : bak[f] # p
    BY DEF Exact
  <1>3. CASE Plans(p)
    <2>1. disk' = disk /\ stage' = stage /\ bak' = bak
      BY <1>3, PlansView
    <2>2. /\ Standing(p)' = Standing(p)
          /\ \A j \in Standing(p) : tx'[p].moved[j] = tx[p].moved[j]
      <3>1. RestartsWhole'
        BY DEF RestartsWhole, RollbackSuffices
      <3> QED BY <1>3, <3>1, PlansStanding
    <2> QED BY <1>1, <1>2, <2>1, <2>2 DEF Exact
  <1>4. CASE Backup(p)
    <2>1. PICK k : k = tx[p].k
      OBVIOUS
    <2>2. k \in Files /\ stage' = stage /\ Standing(p) = {} /\ Standing(p)' = {}
      BY <1>4, <2>1, BackupView
    <2>3. CASE SetAside(k)
      <3>1. /\ <<k, 0>> \in Paths /\ disk'[<<k, 0>>] = Free /\ bak'[k] = disk[<<k, 0>>]
            /\ \A u \in Paths : u # <<k, 0>> => disk'[u] = disk[u]
            /\ \A g \in Files : g # k => bak'[g] = bak[g]
        BY <2>2, <2>3, SetAsideView
      <3>2. \A t \in Paths : disk'[t] # p
        BY <1>2, <2>2, <3>1, Names
      <3>3. policy[p] = "overwrite" => \A f \in Files : bak'[f] # p
        BY <1>2, <2>2, <3>1
      <3> QED BY <1>1, <1>2, <2>2, <3>2, <3>3 DEF Exact
    <2>4. CASE disk' = disk /\ bak' = bak
      BY <1>1, <1>2, <2>2, <2>4 DEF Exact
    <2> QED BY <1>4, <2>1, <2>3, <2>4, BackupAside
  <1>5. CASE Move(p)
    <2>1. PICK k, t : k = tx[p].k /\ t = Target(p)
      OBVIOUS
    <2>2. /\ k \in Files /\ k \notin Standing(p)
          /\ Standing(p)' = Standing(p) \cup {k}
          /\ \A j \in Standing(p) : tx'[p].moved[j] = tx[p].moved[j]
          /\ tx'[p].moved[k] = <<k, t>> /\ t \in Paths /\ t[1] = k
      BY <1>5, <2>1, MoveView
    <2>3. Rename(p, t) /\ bak' = bak
      BY <1>5, <2>1, MovingPlace
    <2>4. /\ \A u \in Paths : u # t => disk'[u] = disk[u]
          /\ stage'[p][k] = Free /\ \A f \in Files : f # k => stage'[p][f] = stage[p][f]
      BY <2>1, <2>2, <2>3, RenameView
    <2>5. ASSUME NEW u \in Paths, disk'[u] = p
          PROVE  u[1] \in Standing(p)' /\ tx'[p].moved[u[1]][2] = u
      <3>1. CASE u = t
        BY <2>2, <3>1
      <3>2. CASE u # t
        BY <1>2, <2>2, <2>4, <2>5, <3>2
      <3> QED BY <3>1, <3>2
    <2>6. \A f \in Files : stage'[p][f] = IF f \in Standing(p)' THEN Free ELSE p
      BY <1>2, <2>2, <2>4
    <2> QED BY <1>1, <1>2, <2>3, <2>5, <2>6 DEF Exact
  <1>6. CASE Undo(p) \/ Rollback(p)
    <2>1. PICK k, t : k = tx[p].k /\ t = tx[p].moved[k][2]
      OBVIOUS
    <2>2. /\ k \in Files /\ Standing(p) = 1..k /\ Standing(p)' = 1..k \ {k}
          /\ tx'[p].moved = tx[p].moved /\ tx[p].moved[k][1] = k
      BY <1>6, <2>1, TakingView
    <2>3. k \in 1..k /\ tx[p].k \in 1..Len(tx[p].moved) /\ TakeBack(p) /\ bak' = bak
      BY <1>6, <2>2, TakingPlace DEF Files
    <2>4. disk[t] = p
      BY <2>1, <2>2, <2>3 DEF Mine
    <2>5. /\ disk'[t] = Free
          /\ \A u \in Paths : u # t => disk'[u] = disk[u]
          /\ stage'[p][k] = p /\ \A f \in Files : f # k => stage'[p][f] = stage[p][f]
      BY <2>1, <2>2, <2>3, <2>4, TakeBackView, Names
    <2>6. ASSUME NEW u \in Paths, disk'[u] = p
          PROVE  u[1] \in Standing(p)' /\ tx'[p].moved[u[1]][2] = u
      <3>1. u # t
        BY <2>5, <2>6, Names
      <3>2. u[1] \in 1..k /\ tx[p].moved[u[1]][2] = u
        BY <1>2, <2>2, <2>5, <2>6, <3>1
      <3>3. u[1] # k
        BY <2>1, <3>1, <3>2
      <3> QED BY <2>2, <3>2, <3>3
    <2>7. \A f \in Files : stage'[p][f] = IF f \in Standing(p)' THEN Free ELSE p
      BY <1>2, <2>2, <2>5
    <2> QED BY <1>1, <1>2, <2>3, <2>6, <2>7 DEF Exact
  <1>7. CASE Restore(p)
    <2>1. PICK f : f = tx[p].backed[tx[p].k]
      OBVIOUS
    <2>2. /\ f \in Files /\ <<f, 0>> \in Paths
          /\ disk'[<<f, 0>>] = IF bak[f] = Free THEN disk[<<f, 0>>] ELSE bak[f]
          /\ bak'[f] = Free
          /\ \A u \in Paths : u # <<f, 0>> => disk'[u] = disk[u]
          /\ \A g \in Files : g # f => bak'[g] = bak[g]
          /\ tx[p].k \in 1..Len(tx[p].backed)
      BY <1>7, <2>1, RestoreView
    <2>3. policy[p] = "overwrite"
      <3>1. Len(<<>>) = 0 /\ 1..0 = {}
        OBVIOUS
      <3> QED BY <2>2, <3>1 DEF Shape, ByPolicy
    <2>4. stage' = stage /\ Standing(p) = {} /\ Standing(p)' = {}
      BY <1>7, RestoringView
    <2>5. \A u \in Paths : disk'[u] # p
      BY <1>2, <2>2, <2>3, <2>4
    <2>6. \A g \in Files : bak'[g] # p
      BY <1>2, <2>2, <2>3, Names
    <2> QED BY <1>2, <2>4, <2>5, <2>6 DEF Exact
  <1>8. CASE Clean(p)
    <2>1. \A g \in Files : bak'[g] \in {bak[g], Free}
      BY <1>8, CleanView
    <2> QED BY <1>1, <1>2, <1>8, <2>1, CleaningView, Names DEF Exact
  <1>9. CASE Interrupt(p)
    BY <1>9, Uninterrupted
  <1> QED BY <1>3, <1>4, <1>5, <1>6, <1>7, <1>8, <1>9, MovesCases

LEMMA MovesOld ==
  ASSUME TypeOK, NEW p \in Promoters, Shape(p), Mine(p), OldStays(p), Moves(p),
         policy[p] = "overwrite" => Kept(p) /\ Listed(p), RollbackSuffices(p)'
  PROVE  OldStays(p)'
  <1>1. before' = before
    BY MovesShape DEF Alone
  <1>2. \A f \in Files : <<f, 0>> \in Paths
    BY SuffixFacts DEF Paths
  <1>3. CASE Plans(p)
    <2>1. disk' = disk /\ bak' = bak
      BY <1>3, PlansView
    <2> QED BY <1>1, <1>3, <2>1, PlansStanding DEF OldStays
  <1>4. CASE Backup(p)
    <2>1. PICK k : k = tx[p].k
      OBVIOUS
    <2>2. k \in Files /\ tx[p].pc = "backup" /\ tx'[p].pc = "backup" /\ policy[p] = "overwrite"
      BY <1>4, <2>1, BackupView
    <2>3. Aside(p) \subseteq Aside(p)'
      BY <1>4, <2>1, BackupAside
    <2>4. CASE SetAside(k) /\ k \in Aside(p)'
      <3>1. /\ disk'[<<k, 0>>] = Free /\ bak'[k] = disk[<<k, 0>>]
            /\ \A u \in Paths : u # <<k, 0>> => disk'[u] = disk[u]
            /\ \A g \in Files : g # k => bak'[g] = bak[g]
        BY <2>2, <2>4, SetAsideView
      <3>2. Intact(k)
        <4>1. IF k < tx[p].k THEN Saved(k) ELSE Intact(k)
          BY <2>2 DEF Kept
        <4> QED BY <2>1, <2>2, <4>1 DEF Files
      <3>3. ASSUME NEW t \in Paths, before[t] = "old"
            PROVE  disk'[t] = "old" \/ (t[2] = 0 /\ t[1] \in Aside(p)' /\ bak'[t[1]] = "old")
        <4>1. CASE t = <<k, 0>>
          BY <2>4, <3>1, <3>2, <3>3, <4>1 DEF Intact
        <4>2. CASE t # <<k, 0>>
          <5>1. t[2] = 0 => t[1] # k /\ t[1] \in Files
            BY <4>2 DEF Paths
          <5> QED BY <2>2, <2>3, <3>1, <3>3, <4>2, <5>1 DEF OldStays
        <4> QED BY <4>1, <4>2
      <3> QED BY <1>1, <3>3 DEF OldStays
    <2>5. CASE disk' = disk /\ bak' = bak
      BY <1>1, <2>2, <2>3, <2>5 DEF OldStays
    <2> QED BY <1>4, <2>1, <2>4, <2>5, BackupAside
  <1>5. CASE Move(p)
    <2>1. PICK k, t : k = tx[p].k /\ t = Target(p)
      OBVIOUS
    <2>2. /\ k \in Files /\ t \in Paths /\ t[1] = k /\ tx[p].pc = "move" /\ tx'[p].pc = "move"
          /\ MayTake(p, t) /\ Rename(p, t) /\ bak' = bak /\ tx'[p].backed = tx[p].backed
      BY <1>5, <2>1, MovingPlace, MoveView
    <2>3. \A u \in Paths : u # t => disk'[u] = disk[u]
      BY <2>1, <2>2, RenameView
    <2>4. Aside(p)' = Aside(p)
      BY <2>2 DEF Aside, Ended
    <2>5. ASSUME before[t] = "old"
          PROVE  t[2] = 0 /\ t[1] \in Aside(p) /\ bak[t[1]] = "old"
      <3>1. CASE policy[p] = "overwrite"
        <4>1. t[2] = 0
          BY <2>1, <2>2, <3>1, TargetIsPath DEF Shape, ByPolicy
        <4>2. t = <<k, 0>>
          BY <2>2, <4>1 DEF Paths
        <4>3. Saved(k) /\ k \in Aside(p)
          BY <2>2, <2>5, <3>1, <4>2 DEF Kept, Listed
        <4> QED BY <2>2, <2>5, <4>1, <4>2, <4>3 DEF Saved
      <3>2. CASE policy[p] # "overwrite"
        <4>1. disk[t] = Free
          BY <2>2, <3>2 DEF MayTake
        <4> QED BY <2>2, <2>5, <4>1, Names DEF OldStays
      <3> QED BY <3>1, <3>2
    <2> QED BY <1>1, <2>2, <2>3, <2>4, <2>5 DEF OldStays
  <1>6. CASE Undo(p) \/ Rollback(p)
    <2>1. PICK k, t : k = tx[p].k /\ t = tx[p].moved[k][2]
      OBVIOUS
    <2>2. /\ k \in Files /\ Standing(p) = 1..k /\ tx[p].pc \in {"undo", "rollback"}
          /\ tx'[p].pc = tx[p].pc /\ tx'[p].backed = tx[p].backed
      BY <1>6, <2>1, TakingView
    <2>3. k \in 1..k /\ tx[p].k \in 1..Len(tx[p].moved) /\ TakeBack(p) /\ bak' = bak
      BY <1>6, <2>2, TakingPlace DEF Files
    <2>4. disk[t] = p
      BY <2>1, <2>2, <2>3 DEF Mine
    <2>5. \A u \in Paths : u # t => disk'[u] = disk[u]
      BY <2>1, <2>3, TakeBackView
    <2>6. Aside(p)' = Aside(p)
      BY <2>2 DEF Aside, Ended
    <2> QED BY <1>1, <2>2, <2>3, <2>4, <2>5, <2>6, Names DEF OldStays
  <1>7. CASE Restore(p)
    <2>1. PICK f : f = tx[p].backed[tx[p].k]
      OBVIOUS
    <2>2. /\ f \in Files /\ <<f, 0>> \in Paths
          /\ disk'[<<f, 0>>] = IF bak[f] = Free THEN disk[<<f, 0>>] ELSE bak[f]
          /\ \A u \in Paths : u # <<f, 0>> => disk'[u] = disk[u]
          /\ \A g \in Files : g # f => bak'[g] = bak[g]
          /\ tx[p].k \in 1..Len(tx[p].backed)
      BY <1>7, <2>1, RestoreView
    <2>3. policy[p] = "overwrite"
      <3>1. Len(<<>>) = 0 /\ 1..0 = {}
        OBVIOUS
      <3> QED BY <2>2, <3>1 DEF Shape, ByPolicy
    <2>4. /\ tx[p].pc = "restore" /\ tx'[p].pc = "restore" /\ tx'[p].k = tx[p].k + 1
          /\ tx'[p].backed = tx[p].backed /\ tx[p].k \in Nat
      BY <1>7, RestoringView, RecordOf
    <2>5. \A g \in Aside(p) : g # f => g \in Aside(p)'
      BY <2>1, <2>4, RecordOf DEF Aside, Ended
    <2>6. ASSUME NEW t \in Paths, before[t] = "old"
          PROVE  disk'[t] = "old" \/ (t[2] = 0 /\ t[1] \in Aside(p)' /\ bak'[t[1]] = "old")
      <3>1. disk[t] = "old" \/ (t[2] = 0 /\ t[1] \in Aside(p) /\ bak[t[1]] = "old")
        BY <2>4, <2>6 DEF OldStays
      <3>2. CASE t = <<f, 0>>
        <4>1. bak[f] \in {Free, "old"}
          BY <2>2, <2>3, <2>6, <3>2 DEF Kept
        <4> QED BY <2>2, <3>1, <3>2, <4>1, Names
      <3>3. CASE t # <<f, 0>>
        <4>1. t[2] = 0 => t[1] # f /\ t[1] \in Files
          BY <3>3 DEF Paths
        <4> QED BY <2>2, <2>5, <3>1, <3>3, <4>1
      <3> QED BY <3>2, <3>3
    <2> QED BY <1>1, <2>6 DEF OldStays
  <1>8. CASE Clean(p)
    BY <1>8, CleaningView DEF OldStays
  <1>9. CASE Interrupt(p)
    BY <1>9, Uninterrupted
  <1> QED BY <1>3, <1>4, <1>5, <1>6, <1>7, <1>8, <1>9, MovesCases

----------------------------------------------------------------------------
(* The invariant. *)

LEMMA InitPInv == Init => PInv
  <1> SUFFICES ASSUME Init PROVE PInv
    OBVIOUS
  <1>1. 0 \in Suffixes /\ NumFiles \in Nat \ {0} /\ Len(<<>>) = 0 /\ 1..0 = {}
    BY PromotionAssumption DEF Suffixes
  <1>2. NewTx \in Txs
    BY <1>1 DEF NewTx, Txs, Pcs
  <1>3. tx \in [Promoters -> Txs] /\ \A p \in Promoters : tx[p] = NewTx
    BY <1>2 DEF Init
  <1>4. disk \in [Paths -> {"old", Free}] /\ before = disk
    BY DEF Init
  <1>5. TypeOK
    <2>1. /\ disk \in [Paths -> Contents] /\ before \in [Paths -> Contents]
          /\ bak \in [Files -> Contents]
      BY <1>4 DEF Init, Contents
    <2>2. stage \in [Promoters -> [Files -> Contents]]
      <3>1. \A p \in Promoters : [f \in Files |-> p] \in [Files -> Contents]
        BY DEF Contents
      <3> QED BY <3>1 DEF Init
    <2>3. /\ faults \in [Promoters -> SUBSET Calls] /\ foreign \in 0..MaxForeign
          /\ policy \in [Promoters -> Policies \cup {"none"}]
      BY PromotionAssumption DEF Init
    <2> QED BY <1>3, <2>1, <2>2, <2>3 DEF TypeOK, Txs
  <1>6. OverwriterIsAlone
    BY DEF Init, OverwriterIsAlone, Solo
  <1>7. IdleStays
    BY <1>3 DEF IdleStays, NewTx
  <1>8. ASSUME NEW p \in Promoters
        PROVE  Sound(p)
    <2>1. /\ tx[p].pc = "start" /\ tx[p].k = 1 /\ tx[p].suffix = 0 /\ tx[p].own = 0
          /\ tx[p].moved = <<>> /\ tx[p].backed = <<>>
      BY <1>3 DEF NewTx
    <2>2. \A f \in Files : bak[f] = Free /\ stage[p][f] = p
      BY DEF Init
    <2>3. \A t \in Paths : disk[t] # p
      BY <1>4, Names
    <2>4. \A f \in Files : Intact(f)
      BY <1>4 DEF Intact
    <2>5. Shape(p)
      BY <1>1, <2>1 DEF Shape, Records, Named, ByPolicy
    <2>6. Kept(p)
      BY <2>1, <2>2, <2>4 DEF Kept, Safe
    <2>7. Standing(p) = {}
      BY <2>1 DEF Standing
    <2>8. Mine(p)
      BY <2>2, <2>7 DEF Mine
    <2>9. Exact(p) /\ OldStays(p) /\ Listed(p)
      BY <1>4, <2>1, <2>2, <2>3, <2>7, Names DEF Exact, OldStays, Listed
    <2> QED BY <2>5, <2>6, <2>8, <2>9 DEF Sound
  <1> QED BY <1>5, <1>6, <1>7, <1>8 DEF PInv

\* A process that does not overwrite makes no backups.
LEMMA BackupsStay ==
  ASSUME TypeOK, NEW p \in Promoters, Shape(p), Moves(p), policy[p] # "overwrite"
  PROVE  bak' = bak
  <1>1. tx[p].pc # "backup" /\ tx[p].backed = <<>> /\ Len(<<>>) = 0 /\ tx[p].k \in Nat
    BY RecordOf DEF Shape, ByPolicy
  <1>2. CASE Plans(p)
    BY <1>2, PlansView
  <1>3. CASE Backup(p) \/ (Interrupt(p) /\ tx[p].pc # "move")
    BY <1>1, <1>3, BackupView
  <1>4. CASE Move(p) \/ (Interrupt(p) /\ tx[p].pc = "move")
    BY <1>4, MovingPlace
  <1>5. CASE Undo(p) \/ Rollback(p)
    BY <1>5, TakingPlace
  <1>6. CASE Restore(p)
    <2>1. tx[p].k \in 1..0
      BY <1>1, <1>6, RestoreView
    <2> QED BY <2>1
  <1>7. CASE Clean(p)
    <2>1. tx[p].k >= 1 /\ tx[p].k <= 0
      BY <1>1, <1>7 DEF Clean, At, Shape, Records
    <2> QED BY <1>1, <2>1
  <1> QED BY <1>2, <1>3, <1>4, <1>5, <1>6, <1>7, MovesCases

\* A step of one process keeps what is said of each.
LEMMA MovesSound ==
  ASSUME PInv, NEW p \in Promoters, policy[p] # "none", Moves(p)
  PROVE  PInv'
  <1>1. TypeOK /\ OverwriterIsAlone /\ Sound(p) /\ Shape(p)
    BY DEF PInv, Sound
  <1>2. TypeOK' /\ Alone(p) /\ Shape(p)'
    BY <1>1, MovesTypes, MovesShape
  <1>3. policy' = policy /\ before' = before
    BY <1>2 DEF Alone
  <1>4. OverwriterIsAlone'
    BY <1>1, <1>3 DEF OverwriterIsAlone, Solo
  <1>5. /\ \A q \in Promoters : faults[q] \subseteq faults'[q]
        /\ \A q \in Promoters : q # p => faults'[q] = faults[q] /\ stage'[q] = stage[q]
    BY <1>1, MovesFaults, MovesFiles
  <1>6. /\ RestartsWhole' => RestartsWhole
        /\ RollbackSuffices(p)' => RollbackSuffices(p) /\ RestartsWhole /\ RestartsWhole'
    BY <1>5 DEF RestartsWhole, RollbackSuffices
  <1>7. Sound(p)'
    <2>1. policy[p] = "overwrite" => Kept(p)' /\ Listed(p)'
      BY <1>1, MovesKept, MovesListed DEF Sound
    <2>2. RestartsWhole' => Mine(p)'
      BY <1>1, <1>6, MovesMine DEF Sound
    <2>3. RollbackSuffices(p)' => Exact(p)' /\ OldStays(p)'
      BY <1>1, <1>6, MovesExact, MovesOld DEF Sound
    <2> QED BY <1>2, <1>3, <2>1, <2>2, <2>3 DEF Sound
  <1>8. ASSUME NEW q \in Promoters, policy[q] # "none", q # p
        PROVE  Sound(q)'
    <2>1. policy[p] # "overwrite" /\ policy[q] # "overwrite"
      BY <1>1, <1>8 DEF OverwriterIsAlone, Solo
    <2>2. Sound(q) /\ p # "old" /\ p # q
      BY <1>8, Names DEF PInv
    <2>3. tx'[q] = tx[q] /\ stage'[q] = stage[q] /\ faults'[q] = faults[q]
      BY <1>2, <1>5, <1>8 DEF Alone
    <2>4. bak' = bak
      BY <1>1, <2>1, BackupsStay
    <2>5. RestartsWhole => Harmless(p)
      BY <1>1, <2>1, MovesHarmless DEF Sound
    <2> QED BY <1>1, <1>3, <1>5, <2>1, <2>2, <2>3, <2>4, <2>5, Elsewhere
  <1>9. IdleStays'
    BY <1>2, <1>3 DEF PInv, IdleStays, Alone
  <1> QED BY <1>2, <1>3, <1>4, <1>7, <1>8, <1>9 DEF PInv

LEMMA ForeignSound ==
  ASSUME PInv, ForeignWrite
  PROVE  PInv'
  <1>1. TypeOK /\ OverwriterIsAlone
    BY DEF PInv
  <1>2. /\ bak' = bak /\ stage' = stage /\ policy' = policy /\ tx' = tx /\ before' = before
        /\ faults' = faults /\ foreign' = foreign + 1 /\ foreign < MaxForeign
    BY DEF ForeignWrite
  <1>3. PICK t \in Paths : disk[t] = Free /\ disk' = [disk EXCEPT ![t] = "other"]
    BY DEF ForeignWrite
  <1>4. disk' \in [Paths -> Contents] /\ Harmless("other")
    BY <1>1, <1>3, FileTypes DEF Harmless, Contents
  <1>5. foreign' \in 0..MaxForeign
    BY <1>1, <1>2, PromotionAssumption DEF TypeOK
  <1>6. TypeOK'
    BY <1>1, <1>2, <1>4, <1>5 DEF TypeOK
  <1>7. ASSUME NEW p \in Promoters, policy[p] # "none"
        PROVE  Sound(p)'
    <2>1. Sound(p) /\ "other" # p /\ "other" # "old"
      BY <1>7, Names DEF PInv
    <2> QED BY <1>1, <1>2, <1>4, <2>1, Elsewhere
  <1> QED BY <1>1, <1>2, <1>6, <1>7 DEF PInv, OverwriterIsAlone, Solo, IdleStays

LEMMA StepCases ==
  ASSUME Next
  PROVE  (\E p \in Promoters : policy[p] # "none" /\ Moves(p)) \/ ForeignWrite
  <1>1. ASSUME NEW p \in Promoters, Moves(p)
        PROVE  policy[p] # "none"
    BY <1>1 DEF Moves, Step, Precheck, Backup, BackedUp, Move, MoveTaken, AllMoved, Undo, Restart,
       Rollback, RolledBack, Restore, Restored, Clean, Cleaned, Fault, Interrupt, Die, At
  <1> QED BY <1>1 DEF Next, Moves

LEMMA StepPInv == PInv /\ [Next]_vars => PInv'
  <1> SUFFICES ASSUME PInv, [Next]_vars PROVE PInv'
    OBVIOUS
  <1>1. CASE Next
    BY <1>1, StepCases, MovesSound, ForeignSound
  <1>2. CASE UNCHANGED vars
    <2>1. /\ disk' = disk /\ bak' = bak /\ stage' = stage /\ policy' = policy /\ tx' = tx
          /\ before' = before /\ foreign' = foreign /\ faults' = faults
      BY <1>2 DEF vars
    <2>2. TypeOK' /\ OverwriterIsAlone' /\ IdleStays'
      BY <2>1 DEF PInv, TypeOK, OverwriterIsAlone, Solo, IdleStays
    <2>3. Harmless("other")
      BY <2>1 DEF Harmless
    <2>4. ASSUME NEW p \in Promoters, policy[p] # "none"
          PROVE  Sound(p)'
      BY <2>1, <2>3, <2>4, Names, Elsewhere DEF PInv
    <2> QED BY <2>1, <2>2, <2>4 DEF PInv
  <1> QED BY <1>1, <1>2

LEMMA PInvHolds == Spec => []PInv
  BY InitPInv, StepPInv, PTL DEF Spec

----------------------------------------------------------------------------
(* The theorems. *)

\* Type correctness of the directory, the backups, the stages and the transactions.
THEOREM PromotionTypes == Spec => []TypeOK
  <1>1. PInv => TypeOK
    BY DEF PInv
  <1> QED BY PInvHolds, <1>1, PTL

\* A promotion that returns has published every file once; one that raises has published
\* none, kept its stage and put back what it had moved aside.  Code: the except clause of
\* _promote_locked, with the calls that fail before it and other writers in between.
THEOREM AllOrNothingHolds == Spec => []AllOrNothing
  <1>1. ASSUME PInv
        PROVE  AllOrNothing
    <2> SUFFICES ASSUME NEW p \in Promoters, RollbackSuffices(p)
                 PROVE  /\ tx[p].pc = "done" => AllPublished(p)
                        /\ tx[p].pc \in {"failed", "skipped"} => NonePublished(p)
      BY DEF AllOrNothing
    <2>0. CASE policy[p] = "none"
      BY <1>1, <2>0 DEF PInv, IdleStays
    <2>1. CASE policy[p] # "none"
      <3>1. TypeOK /\ Shape(p) /\ Mine(p) /\ Exact(p) /\ OldStays(p)
        BY <1>1, <2>1 DEF PInv, Sound, RestartsWhole, RollbackSuffices
      <3>2. CASE tx[p].pc = "done"
        <4>1. Standing(p) = Files
          BY <3>1, <3>2 DEF Standing, Shape, Records, Files
        <4>2. ASSUME NEW f \in Files
              PROVE  stage[p][f] = Free /\ \E i \in Suffixes : disk[<<f, i>>] = p
          <5>1. stage[p][f] = Free /\ disk[tx[p].moved[f][2]] = p
            BY <3>1, <4>1 DEF Mine, Exact
          <5>2. tx[p].moved[f][2] \in Paths /\ tx[p].moved[f][2][1] = f
            BY <3>1, <4>1, StandingFacts DEF Shape, Records
          <5>3. \E i \in Suffixes : tx[p].moved[f][2] = <<f, i>>
            BY <5>2 DEF Paths
          <5> QED BY <5>1, <5>3
        <4> QED BY <3>2, <4>2 DEF AllPublished
      <3>3. CASE tx[p].pc \in {"failed", "skipped"}
        <4>1. Standing(p) = {} /\ Aside(p) = {}
          BY <3>3 DEF Standing, Aside, Ended
        <4>2. stage[p] = [f \in Files |-> p]
          <5>1. stage[p] \in [Files -> Contents] /\ \A f \in Files : stage[p][f] = p
            BY <3>1, <4>1, FileTypes DEF Exact
          <5> QED BY <5>1
        <4> QED BY <3>1, <3>3, <4>1, <4>2 DEF NonePublished, Exact, OldStays
      <3> QED BY <3>2, <3>3
    <2> QED BY <2>0, <2>1
  <1> QED BY PInvHolds, <1>1, PTL

\* The files of a unit end under one suffix.  Code: a name that is taken between
\* _apply_unit_rename and the move makes _promote_locked restart the whole unit.
THEOREM OneSuffixHolds == Spec => []OneSuffix
  <1>1. ASSUME PInv
        PROVE  OneSuffix
    <2> SUFFICES ASSUME NEW p \in Promoters, tx[p].pc = "done", RollbackSuffices(p)
                 PROVE  \E i \in Suffixes : \A f \in Unit : disk[<<f, i>>] = p
      BY DEF OneSuffix
    <2>1. policy[p] # "none"
      BY <1>1 DEF PInv, IdleStays
    <2>2. TypeOK /\ Shape(p) /\ Mine(p)
      BY <1>1, <2>1 DEF PInv, Sound, RestartsWhole, RollbackSuffices
    <2>3. Standing(p) = Files /\ tx[p].suffix \in Suffixes
      BY <2>2, RecordOf DEF Standing, Shape, Records, Files
    <2>4. ASSUME NEW f \in Unit
          PROVE  disk[<<f, tx[p].suffix>>] = p
      <3>1. f \in Files /\ f \in 1..Len(tx[p].moved)
        BY <2>2, PromotionAssumption DEF Shape, Records, Files
      <3>2. tx[p].moved[f][2] \in Paths /\ tx[p].moved[f][2][1] = f
            /\ tx[p].moved[f][2][2] = tx[p].suffix
        BY <2>2, <2>3, <3>1, StandingFacts DEF Shape, Records, Named
      <3>3. tx[p].moved[f][2] = <<f, tx[p].suffix>>
        BY <3>2 DEF Paths
      <3>4. disk[tx[p].moved[f][2]] = p
        BY <2>2, <2>3, <3>1 DEF Mine
      <3> QED BY <3>3, <3>4
    <2> QED BY <2>3, <2>4
  <1> QED BY PInvHolds, <1>1, PTL

\* What a unit overwrites is on the disk until the whole unit has landed, whatever fails
\* and whenever the process dies.  Code: _promote_locked backs up before it moves, and
\* unlinks the backups after the last move.
THEOREM NothingLostHolds == Spec => []NothingLost
  <1>1. ASSUME PInv
        PROVE  NothingLost
    <2> SUFFICES ASSUME NEW p \in Promoters, Solo(p), NEW g \in Files, stage[p][g] # Free,
                        NEW f \in Files, before[<<f, 0>>] = "old"
                 PROVE  disk[<<f, 0>>] = "old" \/ bak[f] = "old"
      BY DEF NothingLost
    <2>1. Kept(p)
      BY <1>1 DEF Solo, PInv, Sound
    <2> QED BY <2>1 DEF Kept, Safe, Saved, Intact
  <1> QED BY PInvHolds, <1>1, PTL

\* A process that does not overwrite never removes or replaces a file that it did not
\* write.  Code: _move_no_replace and the two loops of _promote_locked that take back.
THEOREM ForeignStaysHolds == Spec => ForeignStays
  <1> DEFINE Stays == \A t \in Paths :
               disk[t] # Free /\ disk'[t] # disk[t] =>
                 \/ \E p \in Promoters : policy[p] = "overwrite" \/ "undo" \in faults[p]
                 \/ \E p \in Promoters : disk[t] = p /\ tx'[p] # tx[p]
  <1>1. ASSUME PInv, [Next]_vars
        PROVE  Stays
    <2>1. CASE UNCHANGED vars
      BY <2>1 DEF vars
    <2>2. ASSUME NEW p \in Promoters, policy[p] # "none", Moves(p)
          PROVE  Stays
      <3>1. CASE policy[p] = "overwrite" \/ ~RestartsWhole
        BY <3>1 DEF RestartsWhole
      <3>2. CASE policy[p] # "overwrite" /\ RestartsWhole
        <4>1. TypeOK /\ Shape(p) /\ Mine(p)
          BY <1>1, <2>2, <3>2 DEF PInv, Sound
        <4> QED BY <2>2, <3>2, <4>1, MovesHarmless
      <3> QED BY <3>1, <3>2
    <2>3. CASE ForeignWrite
      <3>1. PICK t \in Paths : disk[t] = Free /\ disk' = [disk EXCEPT ![t] = "other"]
        BY <2>3 DEF ForeignWrite
      <3> QED BY <1>1, <3>1, FileTypes DEF PInv
    <2> QED BY <1>1, <2>1, <2>2, <2>3, StepCases
  <1>2. PInv /\ [Next]_vars => [Stays]_vars
    BY <1>1
  <1> QED BY PInvHolds, <1>2, PTL DEF Spec, ForeignStays
=============================================================================
