------------------------- MODULE WeightCacheProofs -------------------------
(* Theorems about WeightCache, for any keys, sizes of the cache, and numbers of *)
(* runs and passes, however deep the passes nest.                               *)
EXTENDS WeightCache, FiniteSetTheorems, SequenceTheorems, WellFoundedInduction, TLAPS

CacheTypes == [items : [Keys -> Objects \cup {NoObject, Absent}],
               older : SUBSET (Keys \X Keys),
               resident : Keys \cup {None}, device : SUBSET Objects]

\* The keys that were used after k.
Newer(c, k) == {j \in Keys : <<k, j>> \in c.older}

\* older is a strict order of the entries.
Order(c) ==
  /\ \A j, k \in Keys : <<j, k>> \in c.older => j \in Entries(c) /\ k \in Entries(c)
  /\ \A j, k \in Entries(c) : j # k => <<j, k>> \in c.older \/ <<k, j>> \in c.older
  /\ \A k \in Keys : <<k, k>> \notin c.older
  /\ \A j, k, l \in Keys : <<j, k>> \in c.older /\ <<k, l>> \in c.older => <<j, l>> \in c.older

\* A key has objects of its own.
Own(c) == \A k \in Keys : c.items[k] \in Objects => c.items[k][1] = k

Resides(c) == c.resident # None => c.resident \notin Ort /\ c.items[c.resident] \in Objects

Fit(c) == /\ c \in CacheTypes /\ Order(c) /\ Own(c) /\ Resides(c)
          /\ Cardinality(Entries(c)) <= MaxEntries

----------------------------------------------------------------------------
(* The operations of the cache.                                             *)

LEMMA Markers == NoObject \notin Objects /\ Absent \notin Objects /\ Absent # NoObject
  BY CacheAssumption DEF Objects, NoObject, Absent

LEMMA EntriesAreFinite ==
  ASSUME NEW c
  PROVE  /\ Entries(c) \subseteq Keys /\ IsFiniteSet(Entries(c))
         /\ Cardinality(Entries(c)) \in Nat
  <1>1. Entries(c) \subseteq Keys
    BY DEF Entries
  <1> QED BY <1>1, CacheAssumption, FS_Subset, FS_CardinalityType

\* An order of finitely many entries has a first one.
LEMMA OldestExists ==
  ASSUME NEW c, Order(c), Entries(c) # {}
  PROVE  /\ Oldest(c) \in Entries(c)
         /\ \A j \in Entries(c) \ {Oldest(c)} : <<Oldest(c), j>> \in c.older
  <1> DEFINE Below(k) == {j \in Keys : <<j, k>> \in c.older}
             Sizes    == {Cardinality(Below(k)) : k \in Entries(c)}
  <1>1. \A k : Below(k) \subseteq Keys /\ IsFiniteSet(Below(k)) /\ Cardinality(Below(k)) \in Nat
    <2> TAKE k
    <2>1. Below(k) \subseteq Keys
      OBVIOUS
    <2> HIDE DEF Below
    <2> QED BY <2>1, CacheAssumption, FS_Subset, FS_CardinalityType
  <1>2. PICK n \in Sizes : \A m \in Sizes : ~(<<m, n>> \in OpToRel(<, Nat))
    <2> HIDE DEF Below
    <2>1. Sizes \subseteq Nat /\ Sizes # {}
      BY <1>1
    <2> HIDE DEF Sizes
    <2> QED BY <2>1, WFMin, NatLessThanWellFounded
  <1>3. PICK k \in Entries(c) : n = Cardinality(Below(k))
    BY <1>2
  <1>4. \A j \in Entries(c) : ~(Cardinality(Below(j)) < Cardinality(Below(k)))
    <2> HIDE DEF Below
    <2> QED BY <1>1, <1>2, <1>3 DEF OpToRel
  <1>5. ASSUME NEW j \in Below(k) PROVE FALSE
    <2>1. j \in Entries(c) /\ Below(j) \subseteq Below(k) /\ j \notin Below(j)
      BY <1>5, EntriesAreFinite DEF Order
    <2>2. Cardinality(Below(j)) < Cardinality(Below(k))
      <3> HIDE DEF Below
      <3> QED BY <1>1, <1>5, <2>1, FS_Subset
    <2> QED BY <1>4, <2>1, <2>2
  <1>6. \A j \in Entries(c) \ {k} : <<k, j>> \in c.older
    BY <1>5, EntriesAreFinite DEF Order
  <1> QED BY <1>3, <1>6 DEF Oldest

\* What an entry that is used or stored becomes in the order.
LEMMA ToEndOrder ==
  ASSUME NEW c, Order(c), c.older \subseteq Keys \X Keys, NEW k \in Keys, NEW d,
         Entries(d) = Entries(c) \cup {k},
         d.older = {e \in c.older : k \notin {e[1], e[2]}} \cup ((Entries(c) \ {k}) \X {k})
  PROVE  /\ Order(d) /\ d.older \subseteq Keys \X Keys
         /\ Newer(d, k) = {}
         /\ \A j \in Keys : Newer(d, j) \subseteq Newer(c, j) \cup {k}
  <1>1. Entries(c) \subseteq Keys
    BY EntriesAreFinite
  <1>2. \A i, j \in Keys : <<i, j>> \in d.older
                             <=> \/ <<i, j>> \in c.older /\ i # k /\ j # k
                                 \/ i \in Entries(c) /\ i # k /\ j = k
    BY <1>1
  <1>3. Order(d)
    <2>1. \A i, j \in Keys : <<i, j>> \in d.older => i \in Entries(d) /\ j \in Entries(d)
      BY <1>2 DEF Order
    <2>2. \A i, j \in Entries(d) : i # j => <<i, j>> \in d.older \/ <<j, i>> \in d.older
      BY <1>1, <1>2 DEF Order
    <2>3. \A i \in Keys : <<i, i>> \notin d.older
      BY <1>2 DEF Order
    <2>4. ASSUME NEW i \in Keys, NEW j \in Keys, NEW l \in Keys,
                 <<i, j>> \in d.older, <<j, l>> \in d.older
          PROVE  <<i, l>> \in d.older
      BY <1>1, <1>2, <2>4 DEF Order
    <2> QED BY <2>1, <2>2, <2>3, <2>4 DEF Order
  <1>4. d.older \subseteq Keys \X Keys
    BY <1>1
  <1>5. Newer(d, k) = {} /\ \A j \in Keys : Newer(d, j) \subseteq Newer(c, j) \cup {k}
    BY <1>2 DEF Newer
  <1> QED BY <1>3, <1>4, <1>5

LEMMA TouchedFacts ==
  ASSUME NEW c, Fit(c), NEW k \in Keys, NEW d, d = Touched(c, k)
  PROVE  /\ Fit(d) /\ d.items = c.items /\ d.resident = c.resident /\ d.device = c.device
         /\ k \in Entries(c) => Newer(d, k) = {}
         /\ \A j \in Keys : Newer(d, j) \subseteq Newer(c, j) \cup {k}
  <1>1. CASE k \notin Entries(c)
    BY <1>1 DEF Touched
  <1>2. CASE k \in Entries(c)
    <2>1. c \in CacheTypes
      BY DEF Fit
    <2>2. /\ d.items = c.items /\ d.resident = c.resident /\ d.device = c.device
          /\ d.older = {e \in c.older : k \notin {e[1], e[2]}} \cup ((Entries(c) \ {k}) \X {k})
          /\ d = [items |-> d.items, older |-> d.older, resident |-> d.resident, device |-> d.device]
      BY <1>2, <2>1 DEF Touched, ToEnd, CacheTypes
    <2>3. Entries(d) = Entries(c) /\ Entries(d) = Entries(c) \cup {k}
      BY <1>2, <2>2 DEF Entries
    <2>4. Order(d) /\ d.older \subseteq Keys \X Keys /\ Newer(d, k) = {}
          /\ \A j \in Keys : Newer(d, j) \subseteq Newer(c, j) \cup {k}
      <3>1. Order(c) /\ c.older \subseteq Keys \X Keys
        BY <2>1 DEF Fit, CacheTypes
      <3> QED BY <2>2, <2>3, <3>1, ToEndOrder
    <2>5. d \in CacheTypes
      BY <2>1, <2>2, <2>4 DEF CacheTypes
    <2>6. Fit(d)
      BY <2>2, <2>3, <2>4, <2>5 DEF Fit, Own, Resides
    <2> QED BY <2>2, <2>4, <2>6
  <1> QED BY <1>1, <1>2

\* Entries that are destroyed: the others keep what they have, and their order.
LEMMA DestroyedFacts ==
  ASSUME NEW c \in CacheTypes, Order(c), Own(c), Resides(c), NEW K \in SUBSET Keys,
         NEW d, d = Destroyed(c, K)
  PROVE  /\ d \in CacheTypes /\ Order(d) /\ Own(d) /\ Resides(d)
         /\ Entries(d) = Entries(c) \ K
         /\ \A k \in Keys : Newer(d, k) \subseteq Newer(c, k)
         /\ \A k \in Keys \ K : d.items[k] = c.items[k]
         /\ d.resident = IF c.resident \in K THEN None ELSE c.resident
         /\ d.device = c.device \ {c.items[k] : k \in K}
  <1>1. /\ d.items = [k \in Keys |-> IF k \in K THEN Absent ELSE c.items[k]]
        /\ d.older = {e \in c.older : {e[1], e[2]} \cap K = {}}
        /\ d.resident = IF c.resident \in K THEN None ELSE c.resident
        /\ d.device = c.device \ {c.items[k] : k \in K}
        /\ d = [items |-> d.items, older |-> d.older, resident |-> d.resident, device |-> d.device]
    BY DEF Destroyed
  <1>2. d \in CacheTypes
    <2>1. d.items \in [Keys -> Objects \cup {NoObject, Absent}]
      BY <1>1 DEF CacheTypes
    <2>2. d.older \subseteq Keys \X Keys /\ d.resident \in Keys \cup {None} /\ d.device \subseteq Objects
      BY <1>1 DEF CacheTypes
    <2> QED BY <1>1, <2>1, <2>2 DEF CacheTypes
  <1>3. Entries(d) = Entries(c) \ K /\ \A k \in Keys \ K : d.items[k] = c.items[k]
    BY <1>1 DEF Entries
  <1>4. \A j, k \in Keys : <<j, k>> \in d.older <=> <<j, k>> \in c.older /\ j \notin K /\ k \notin K
    BY <1>1
  <1>5. Order(d)
    <2>1. \A j, k \in Keys : <<j, k>> \in d.older => j \in Entries(d) /\ k \in Entries(d)
      BY <1>3, <1>4 DEF Order
    <2>2. \A j, k \in Entries(d) : j # k => <<j, k>> \in d.older \/ <<k, j>> \in d.older
      BY <1>3, <1>4, EntriesAreFinite DEF Order
    <2>3. \A k \in Keys : <<k, k>> \notin d.older
      BY <1>4 DEF Order
    <2>4. \A i, j, k \in Keys : <<i, j>> \in d.older /\ <<j, k>> \in d.older => <<i, k>> \in d.older
      BY <1>4 DEF Order
    <2> QED BY <2>1, <2>2, <2>3, <2>4 DEF Order
  <1>6. Own(d)
    BY <1>1, Markers DEF Own
  <1>7. Resides(d)
    <2>1. c.resident # None => c.resident \in Keys
      BY DEF CacheTypes
    <2> QED BY <1>1, <1>3, <2>1 DEF Resides
  <1>8. \A k \in Keys : Newer(d, k) \subseteq Newer(c, k)
    BY <1>4 DEF Newer
  <1> QED BY <1>1, <1>2, <1>3, <1>5, <1>6, <1>7, <1>8

\* The resident module is on the device, and no other one that is cached is, but for S.
Alone(c, S) ==
  /\ c.resident # None => c.items[c.resident] \in c.device
  /\ \A k \in Keys \ Ort : c.items[k] \in Objects /\ c.items[k] \in c.device
                             => k = c.resident \/ c.items[k] \in S

LEMMA StoredFacts ==
  ASSUME NEW c, Fit(c), NEW k \in Keys, NEW o \in Objects, o[1] = k, NEW d, d = Stored(c, k, o)
  PROVE  /\ d \in CacheTypes /\ Order(d) /\ Own(d) /\ Resides(d)
         /\ Entries(d) = Entries(c) \cup {k}
         /\ d.items = [c.items EXCEPT ![k] = o]
         /\ d.device \subseteq c.device
         /\ Newer(d, k) = {} /\ \A j \in Keys : Newer(d, j) \subseteq Newer(c, j) \cup {k}
         /\ o \in c.device /\ Alone(c, {o}) => Alone(d, {})
  <1> DEFINE c1 == IF k \notin Ort THEN ParkResident(c, k) ELSE c
             old == Held(c1.items, k)
  <1>1. c \in CacheTypes
    BY DEF Fit
  <1>2. /\ c1 \in CacheTypes /\ c1.items = c.items /\ c1.older = c.older
        /\ c1.device = IF k \in Ort \/ c.resident \in {None, k} THEN c.device
                       ELSE c.device \ {Held(c.items, c.resident)}
        /\ k \in Ort => c1.resident = c.resident
    BY <1>1 DEF ParkResident, CacheTypes
  <1>3. /\ d.items = [c.items EXCEPT ![k] = o]
        /\ d.resident = IF k \notin Ort THEN k ELSE c.resident
        /\ d.device = IF old = o THEN c1.device ELSE c1.device \ {old}
        /\ d.older = {e \in c.older : k \notin {e[1], e[2]}} \cup ((Entries(c) \ {k}) \X {k})
        /\ d = [items |-> d.items, older |-> d.older, resident |-> d.resident, device |-> d.device]
    <2> DEFINE c2 == [items    |-> [c1.items EXCEPT ![k] = o],
                      older    |-> c1.older,
                      resident |-> IF k \notin Ort THEN k ELSE c1.resident,
                      device   |-> IF old = o THEN c1.device ELSE c1.device \ {old}]
    <2>1. d = ToEnd(c2, k)
      BY DEF Stored
    <2> HIDE DEF c1, old
    <2>2. /\ c2.items = [c.items EXCEPT ![k] = o] /\ c2.older = c.older
          /\ c2.resident = IF k \notin Ort THEN k ELSE c.resident
          /\ c2.device = IF old = o THEN c1.device ELSE c1.device \ {old}
          /\ c2 = [items |-> c2.items, older |-> c2.older, resident |-> c2.resident,
                   device |-> c2.device]
      BY <1>2
    <2> HIDE DEF c2
    <2>3. Entries(c2) \ {k} = Entries(c) \ {k}
      BY <1>1, <2>2 DEF Entries, CacheTypes
    <2> QED BY <2>1, <2>2, <2>3 DEF ToEnd
  <1>4. Entries(d) = Entries(c) \cup {k}
    BY <1>1, <1>3, Markers DEF Entries, CacheTypes
  <1>5. Order(d) /\ d.older \subseteq Keys \X Keys /\ Newer(d, k) = {}
        /\ \A j \in Keys : Newer(d, j) \subseteq Newer(c, j) \cup {k}
    <2>1. Order(c) /\ c.older \subseteq Keys \X Keys
      BY <1>1 DEF Fit, CacheTypes
    <2> QED BY <1>3, <1>4, <2>1, ToEndOrder
  <1>6. d.device \subseteq c.device
    <2> HIDE DEF old
    <2> QED BY <1>2, <1>3
  <1>7. d \in CacheTypes
    <2>1. c.items \in [Keys -> Objects \cup {NoObject, Absent}] /\ c.resident \in Keys \cup {None}
          /\ c.device \subseteq Objects
      BY <1>1 DEF CacheTypes
    <2>2. d.items \in [Keys -> Objects \cup {NoObject, Absent}] /\ d.resident \in Keys \cup {None}
          /\ d.device \subseteq Objects
      BY <1>3, <1>6, <2>1
    <2> QED BY <1>3, <1>5, <2>2 DEF CacheTypes
  <1>8. Own(d)
    BY <1>1, <1>3 DEF Fit, Own, CacheTypes
  <1>9. Resides(d)
    <2>1. c.resident # None => c.resident \notin Ort /\ c.items[c.resident] \in Objects
      BY DEF Fit, Resides
    <2>2. c.items \in [Keys -> Objects \cup {NoObject, Absent}] /\ c.resident \in Keys \cup {None}
      BY <1>1 DEF CacheTypes
    <2> QED BY <1>3, <2>1, <2>2 DEF Resides
  <1>10. ASSUME o \in c.device, Alone(c, {o}) PROVE Alone(d, {})
    <2>1. c.items \in [Keys -> Objects \cup {NoObject, Absent}] /\ c.resident \in Keys \cup {None}
      BY <1>1 DEF CacheTypes
    <2>2. \A j \in Keys : j # k => d.items[j] = c.items[j]
      BY <1>3, <2>1
    <2>3. d.items[k] = o
      BY <1>3, <2>1
    <2>5. \A j \in Keys : j # k /\ c.items[j] \in Objects => c.items[j] # o /\ c.items[j] # old
      BY <1>2, Markers DEF Fit, Own, Held
    <2>6. CASE k \notin Ort
      <3>1. d.resident = k
        BY <1>3, <2>6
      <3>2. o \in d.device
        <4>1. c.resident \notin {None, k} => Held(c.items, c.resident) # o
          BY <2>1, <2>5, Markers DEF Fit, Resides, Held
        <4> HIDE DEF old
        <4> QED BY <1>2, <1>3, <1>10, <4>1
      <3>3. \A j \in Keys \ Ort : j # k /\ c.items[j] \in Objects => c.items[j] \notin d.device
        <4> SUFFICES ASSUME NEW j \in Keys \ Ort, j # k, c.items[j] \in Objects,
                            c.items[j] \in d.device
                     PROVE  FALSE
          OBVIOUS
        <4>1. j = c.resident
          BY <1>6, <1>10, <2>5 DEF Alone
        <4>2. Held(c.items, j) = c.items[j]
          BY Markers DEF Held
        <4>3. d.device \subseteq c1.device /\ j # None
          <5> HIDE DEF old
          <5> QED BY <1>3, CacheAssumption
        <4> QED BY <1>2, <2>6, <4>1, <4>2, <4>3
      <3> QED BY <2>2, <2>3, <3>1, <3>2, <3>3 DEF Alone
    <2>7. CASE k \in Ort
      <3>1. d.resident = c.resident /\ c1.device = c.device
        BY <1>2, <1>3, <2>7
      <3>2. c.resident # None => c.resident # k /\ c.items[c.resident] \in Objects
                                  /\ c.items[c.resident] # old
        BY <2>1, <2>5, <2>7 DEF Fit, Resides
      <3>3. c.resident # None => d.items[c.resident] \in d.device
        <4> HIDE DEF old, c1
        <4> QED BY <1>3, <1>10, <2>1, <2>2, <3>1, <3>2 DEF Alone
      <3>4. \A j \in Keys \ Ort : d.items[j] \in Objects /\ d.items[j] \in d.device
                                    => j = c.resident
        <4> HIDE DEF old, c1
        <4> QED BY <1>6, <1>10, <2>2, <2>5, <2>7 DEF Alone
      <3> QED BY <3>1, <3>3, <3>4 DEF Alone
    <2> QED BY <2>6, <2>7
  <1> QED BY <1>3, <1>4, <1>5, <1>6, <1>7, <1>8, <1>9, <1>10

\* From c to d, by a put of o under k, every entry stays that fewer than MaxEntries
\* keys were used after: W are those keys.
Spared(c, d, k, o) ==
  \A j \in Keys, W \in SUBSET Keys :
    /\ Cardinality(W) < MaxEntries /\ Newer(c, j) \subseteq W
    /\ (j = k => c.items[j] = o) /\ (j # k => k \in W)
    /\ c.items[j] \in Objects
    => d.items[j] = c.items[j] /\ Newer(d, j) \subseteq W

LEMMA PutFacts ==
  ASSUME NEW c, Fit(c), NEW k \in Keys, NEW o \in Objects, o[1] = k, NEW d, d = Put(c, k, o)
  PROVE  /\ Fit(d) /\ d.device \subseteq c.device
         /\ o \in c.device /\ Alone(c, {o}) => Alone(d, {})
         /\ Spared(c, d, k, o)
  <1> DEFINE s == Stored(c, k, o)
             full == Cardinality(Entries(s)) > MaxEntries
  <1> HIDE DEF s
  <1>1. /\ s \in CacheTypes /\ Order(s) /\ Own(s) /\ Resides(s)
        /\ Entries(s) = Entries(c) \cup {k} /\ s.items = [c.items EXCEPT ![k] = o]
        /\ s.device \subseteq c.device
        /\ Newer(s, k) = {} /\ \A j \in Keys : Newer(s, j) \subseteq Newer(c, j) \cup {k}
        /\ o \in c.device /\ Alone(c, {o}) => Alone(s, {})
    BY StoredFacts DEF s
  <1>2. d = IF full THEN EvictOldest(s) ELSE s
    BY DEF Put, s
  <1>3. c.items \in [Keys -> Objects \cup {NoObject, Absent}] /\ c.device \subseteq Objects
    BY DEF Fit, CacheTypes
  <1>4. \A j \in Keys, W \in SUBSET Keys :
          /\ Newer(c, j) \subseteq W /\ c.items[j] \in Objects
          /\ (j = k => c.items[j] = o) /\ (j # k => k \in W)
          => s.items[j] = c.items[j] /\ Newer(s, j) \subseteq W /\ j \in Entries(s)
    BY <1>1, <1>3, Markers DEF Entries
  <1>5. Cardinality(Entries(s)) <= MaxEntries + 1 /\ Cardinality(Entries(s)) \in Nat
    <2>1. Cardinality(Entries(s)) \in {Cardinality(Entries(c)), Cardinality(Entries(c)) + 1}
      BY <1>1, EntriesAreFinite, FS_AddElement
    <2> QED BY <2>1, EntriesAreFinite, CacheAssumption DEF Fit
  <1>6. CASE ~full
    <2>1. d = s
      BY <1>2, <1>6
    <2>2. Cardinality(Entries(d)) <= MaxEntries
      BY <1>5, <1>6, <2>1, CacheAssumption
    <2>3. Spared(c, d, k, o)
      BY <1>4, <2>1 DEF Spared
    <2> QED BY <1>1, <2>1, <2>2, <2>3 DEF Fit
  <1>7. CASE full
    <2> DEFINE q == Oldest(s)
    <2>1. q \in Entries(s) /\ \A j \in Entries(s) \ {q} : <<q, j>> \in s.older
      BY <1>1, OldestExists
    <2> HIDE DEF q
    <2>2. q \in Keys
      BY <2>1, EntriesAreFinite
    <2>3. d = Destroyed(s, {q})
      BY <1>2, <1>7 DEF EvictOldest, q
    <2>4. /\ d \in CacheTypes /\ Order(d) /\ Own(d) /\ Resides(d)
          /\ Entries(d) = Entries(s) \ {q}
          /\ \A j \in Keys : Newer(d, j) \subseteq Newer(s, j)
          /\ \A j \in Keys \ {q} : d.items[j] = s.items[j]
          /\ d.resident = IF s.resident \in {q} THEN None ELSE s.resident
          /\ d.device = s.device \ {s.items[j] : j \in {q}}
      <3> DEFINE K == {q}
      <3>1. K \in SUBSET Keys
        BY <2>2
      <3> HIDE DEF K
      <3>2. d = Destroyed(s, K)
        BY <2>3 DEF K
      <3>3. /\ d \in CacheTypes /\ Order(d) /\ Own(d) /\ Resides(d)
            /\ Entries(d) = Entries(s) \ K
            /\ \A j \in Keys : Newer(d, j) \subseteq Newer(s, j)
            /\ \A j \in Keys \ K : d.items[j] = s.items[j]
            /\ d.resident = IF s.resident \in K THEN None ELSE s.resident
            /\ d.device = s.device \ {s.items[j] : j \in K}
        <4>1. s \in CacheTypes /\ Order(s) /\ Own(s) /\ Resides(s)
          BY <1>1
        <4> QED BY ONLY <3>1, <3>2, <4>1, DestroyedFacts
      <3> QED BY <3>3 DEF K
    <2>5. Cardinality(Entries(d)) <= MaxEntries
      <3>1. Cardinality(Entries(d)) = Cardinality(Entries(s)) - 1
        BY <2>1, <2>4, EntriesAreFinite, FS_RemoveElement
      <3> QED BY <1>5, <3>1, CacheAssumption
    <2>6. ASSUME o \in c.device, Alone(c, {o}) PROVE Alone(d, {})
      <3>1. Alone(s, {})
        BY <1>1, <2>6
      <3>2. d.items[q] \notin Objects
        BY <2>2, <2>3, Markers DEF Destroyed
      <3>3. \A j \in Keys \ Ort : d.items[j] \in Objects /\ d.items[j] \in d.device => j = d.resident
        BY <2>4, <3>1, <3>2 DEF Alone
      <3>4. d.resident # None => d.items[d.resident] \in d.device
        <4> SUFFICES ASSUME d.resident # None PROVE d.items[d.resident] \in d.device
          OBVIOUS
        <4>1. d.resident = s.resident /\ d.resident # q /\ d.resident \in Keys
          BY <2>4 DEF CacheTypes
        <4>2. s.items[s.resident] \in s.device /\ s.items[s.resident] \in Objects
          BY <1>1, <3>1, <4>1 DEF Alone, Resides
        <4>3. s.items[s.resident] # s.items[q]
          BY <1>1, <2>2, <4>1, <4>2 DEF Own
        <4> QED BY <2>4, <4>1, <4>2, <4>3
      <3> QED BY <3>3, <3>4 DEF Alone
    <2>7. ASSUME NEW j \in Keys, NEW W \in SUBSET Keys,
                 Cardinality(W) < MaxEntries, Newer(c, j) \subseteq W, c.items[j] \in Objects,
                 j = k => c.items[j] = o, j # k => k \in W
          PROVE  d.items[j] = c.items[j] /\ Newer(d, j) \subseteq W
      <3>1. s.items[j] = c.items[j] /\ Newer(s, j) \subseteq W /\ j \in Entries(s)
        BY <1>4, <2>7
      <3>2. j # q
        <4> SUFFICES ASSUME j = q PROVE FALSE
          OBVIOUS
        <4>1. Entries(s) \subseteq W \cup {j}
          BY <2>1, <3>1, EntriesAreFinite DEF Newer
        <4>2. IsFiniteSet(W) /\ Cardinality(W) \in Nat
          BY CacheAssumption, FS_Subset, FS_CardinalityType
        <4>3. IsFiniteSet(W \cup {j}) /\ Cardinality(W \cup {j}) <= Cardinality(W) + 1
          <5>1. /\ IsFiniteSet(W \cup {j})
                /\ Cardinality(W \cup {j}) \in {Cardinality(W), Cardinality(W) + 1}
            BY <4>2, FS_AddElement
          <5> QED BY <4>2, <5>1
        <4>4. Cardinality(Entries(s)) <= Cardinality(W \cup {j})
          BY <4>1, <4>3, FS_Subset
        <4>5. Cardinality(W \cup {j}) \in Nat
          BY <4>3, FS_CardinalityType
        <4> QED BY <1>5, <1>7, <2>7, <4>2, <4>3, <4>4, <4>5, CacheAssumption
      <3> QED BY <2>4, <3>1, <3>2
    <2>8. d.device \subseteq c.device
      BY <1>1, <2>4
    <2>9. Spared(c, d, k, o)
      BY <2>7 DEF Spared
    <2> QED BY <2>4, <2>5, <2>6, <2>8, <2>9 DEF Fit
  <1> QED BY <1>6, <1>7

\* Modules to the host: of what is cached nothing but the protected stays on the device.
LEMMA ParkFacts ==
  ASSUME NEW c, Fit(c), NEW protect \in SUBSET Keys, NEW d, d = Park(c, protect)
  PROVE  /\ Fit(d) /\ d.device \subseteq c.device
         /\ \A k \in Keys : d.items[k] \in Objects
              => d.items[k] = c.items[k] /\ (k \notin protect => d.items[k] \notin d.device)
         /\ Alone(c, {}) => Alone(d, {})
  <1> DEFINE parked == Entries(c) \ protect
  <1>1. c \in CacheTypes
    BY DEF Fit
  <1>2. /\ d.items = [k \in Keys |-> IF k \in parked \cap Ort THEN NoObject ELSE c.items[k]]
        /\ d.older = c.older
        /\ d.resident = IF c.resident \in parked THEN None ELSE c.resident
        /\ d.device = c.device \ {c.items[k] : k \in parked}
        /\ d = [items |-> d.items, older |-> d.older, resident |-> d.resident, device |-> d.device]
    BY <1>1 DEF Park, CacheTypes
  <1>3. /\ c.items \in [Keys -> Objects \cup {NoObject, Absent}] /\ c.older \subseteq Keys \X Keys
        /\ c.resident \in Keys \cup {None} /\ c.device \subseteq Objects
    BY <1>1 DEF CacheTypes
  <1>4. d \in CacheTypes
    <2>1. d.items \in [Keys -> Objects \cup {NoObject, Absent}]
      BY <1>2, <1>3
    <2> QED BY <1>2, <1>3, <2>1 DEF CacheTypes
  <1>5. Entries(d) = Entries(c)
    BY <1>2, Markers DEF Entries
  <1>6. \A k \in Keys : d.items[k] \in Objects
          => d.items[k] = c.items[k] /\ k \in Entries(c) /\ (k \in parked => d.items[k] \notin d.device)
    BY <1>2, Markers DEF Entries
  <1>7. Order(d)
    BY <1>2, <1>5 DEF Fit, Order
  <1>8. Own(d)
    BY <1>6 DEF Fit, Own
  <1>9. Resides(d)
    <2>1. c.resident # None => c.resident \notin Ort /\ c.items[c.resident] \in Objects
      BY DEF Fit, Resides
    <2> HIDE DEF parked
    <2> QED BY <1>2, <1>3, <2>1 DEF Resides
  <1>10. Fit(d)
    BY <1>4, <1>5, <1>7, <1>8, <1>9 DEF Fit
  <1>11. ASSUME Alone(c, {}) PROVE Alone(d, {})
    <2>1. d.resident # None => d.items[d.resident] \in d.device
      <3> SUFFICES ASSUME d.resident # None PROVE d.items[d.resident] \in d.device
        OBVIOUS
      <3>1. d.resident = c.resident /\ c.resident \notin parked /\ c.resident \in Keys
        BY <1>2, <1>3
      <3>2. c.items[c.resident] \in c.device /\ c.items[c.resident] \in Objects
            /\ c.resident \notin Ort
        BY <1>11, <3>1 DEF Alone, Fit, Resides
      <3>3. \A k \in parked : c.items[k] # c.items[c.resident]
        BY <3>1, <3>2, EntriesAreFinite DEF Fit, Own
      <3> QED BY <1>2, <3>1, <3>2, <3>3
    <2>2. \A k \in Keys \ Ort : d.items[k] \in Objects /\ d.items[k] \in d.device => k = d.resident
      <3> SUFFICES ASSUME NEW k \in Keys \ Ort, d.items[k] \in Objects, d.items[k] \in d.device
                   PROVE  k = d.resident
        OBVIOUS
      <3>1. d.items[k] = c.items[k] /\ k \notin parked
        BY <1>6
      <3>2. k = c.resident
        <4> HIDE DEF parked
        <4> QED BY <1>2, <1>11, <3>1 DEF Alone
      <3> QED BY <1>2, <3>1, <3>2
    <2> QED BY <2>1, <2>2 DEF Alone
  <1> QED BY <1>2, <1>6, <1>10, <1>11

LEMMA ClearFacts ==
  ASSUME NEW c, Fit(c), NEW protect \in SUBSET Keys, NEW d, d = Clear(c, protect)
  PROVE  /\ Fit(d) /\ d.device \subseteq c.device
         /\ Alone(c, {}) => Alone(d, {})
  <1> DEFINE K == Keys \ protect
  <1>1. /\ d \in CacheTypes /\ Order(d) /\ Own(d) /\ Resides(d)
        /\ Entries(d) = Entries(c) \ K
        /\ \A k \in Keys \ K : d.items[k] = c.items[k]
        /\ d.resident = IF c.resident \in K THEN None ELSE c.resident
        /\ d.device = c.device \ {c.items[k] : k \in K}
    BY DestroyedFacts DEF Fit, Clear
  <1>2. Cardinality(Entries(d)) <= MaxEntries
    <2>1. Cardinality(Entries(d)) <= Cardinality(Entries(c))
      BY <1>1, EntriesAreFinite, FS_Subset
    <2> QED BY <2>1, EntriesAreFinite, CacheAssumption DEF Fit
  <1>3. ASSUME Alone(c, {}) PROVE Alone(d, {})
    <2>1. \A k \in K : d.items[k] \notin Objects
      BY <1>1, Markers DEF Entries
    <2>2. c.resident # None => c.resident \in Keys /\ c.items[c.resident] \in Objects
      BY DEF Fit, Resides, CacheTypes
    <2>3. d.resident # None => d.items[d.resident] \in d.device
      <3> SUFFICES ASSUME d.resident # None PROVE d.items[d.resident] \in d.device
        OBVIOUS
      <3>1. d.resident = c.resident /\ c.resident \in Keys \ K
        BY <1>1, <2>2
      <3>2. \A k \in K : c.items[k] # c.items[c.resident]
        BY <2>2, <3>1 DEF Fit, Own
      <3>3. c.items[c.resident] \in c.device
        BY <1>3, <3>1 DEF Alone
      <3> QED BY <1>1, <3>1, <3>2, <3>3
    <2>4. \A k \in Keys \ Ort : d.items[k] \in Objects /\ d.items[k] \in d.device => k = d.resident
      <3> SUFFICES ASSUME NEW k \in Keys \ Ort, d.items[k] \in Objects, d.items[k] \in d.device
                   PROVE  k = d.resident
        OBVIOUS
      <3>1. k \notin K
        BY <2>1
      <3>2. k = c.resident
        BY <1>1, <1>3, <3>1 DEF Alone
      <3> QED BY <1>1, <3>1, <3>2
    <2> QED BY <2>3, <2>4 DEF Alone
  <1> QED BY <1>1, <1>2, <1>3 DEF Fit

----------------------------------------------------------------------------
(* The invariant.                                                           *)

\* A frame is about objects of its key.
Holds(f) == f.obj = NoObject \/ (f.obj \in Objects /\ f.obj[1] = f.key)

\* Only the innermost frame can still be without its model, and memory is reclaimed
\* only for one with no pass around it.
Waits(i) ==
  stack[i].at \in {"prepare", "acquire"} =>
    /\ i = Len(stack) /\ stack[i].obj = NoObject /\ ~stack[i].hit
    /\ stack[i].at = "prepare" => Len(stack) = 1

\* What ran within a frame includes the passes that still do.
Inner(i) == \A j \in DOMAIN stack : i < j => stack[j].key \in stack[i].within

Safe(f) == f.hit /\ Cardinality(f.within) < MaxEntries

\* The entry of f is there, and only passes within f were after it.
Keeps(c, f) == c.items[f.key] = f.obj /\ Newer(c, f.key) \subseteq f.within

\* As long as that is claimed of a frame, the passes within it for the same key have
\* the same object.
Stands(i) ==
  ~raced /\ Safe(stack[i]) =>
    /\ stack[i].obj \in Objects /\ Keeps(Cache, stack[i])
    /\ \A j \in DOMAIN stack : i < j /\ stack[j].key = stack[i].key
                                 => stack[j].obj \in {NoObject, stack[i].obj}

Frame(i) == Holds(stack[i]) /\ Waits(i) /\ Inner(i) /\ Stands(i)

Freed == run = "parked" => stack = <<>> /\ Cached \cap device = {}

Warm == ~mixed /\ ~raced =>
          /\ Len(stack) <= 1
          /\ \A i \in DOMAIN stack : /\ stack[i].key \notin Helpers
                                     /\ stack[i].obj # NoObject => stack[i].obj \in device
          /\ Alone(Cache, InUse)

WInv == /\ TypeOK /\ Len(stack) <= MaxDepth /\ Fit(Cache)
        /\ \A i \in DOMAIN stack : Frame(i)
        /\ Freed /\ Warm

LEMMA InitWInv == Init => WInv
  <1> SUFFICES ASSUME Init PROVE WInv
    OBVIOUS
  <1> USE CacheAssumption DEF Init
  <1>1. TypeOK /\ Len(stack) <= MaxDepth /\ DOMAIN stack = {}
    <2>1. items \in [Keys -> Objects \cup {NoObject, Absent}] /\ older \in SUBSET (Keys \X Keys)
          /\ resident \in Keys \cup {None} /\ device \subseteq Objects
      OBVIOUS
    <2>2. stack \in Seq(Frames) /\ Len(stack) = 0 /\ DOMAIN stack = {}
      OBVIOUS
    <2>3. runs \in 0..MaxRuns /\ passes \in 0..MaxPasses
      OBVIOUS
    <2>4. run \in {"idle", "running", "failing", "parked"}
          /\ cleanup \in BOOLEAN /\ mixed \in BOOLEAN /\ raced \in BOOLEAN
      OBVIOUS
    <2>5. Len(stack) <= MaxDepth
      BY <2>2
    <2> QED BY ONLY <2>1, <2>2, <2>3, <2>4, <2>5 DEF TypeOK
  <1>2. Cache \in CacheTypes
    BY DEF CacheTypes, Cache
  <1>3. Entries(Cache) = {}
    BY DEF Entries, Cache
  <1>4. Order(Cache) /\ Own(Cache) /\ Resides(Cache)
    BY <1>3, Markers DEF Cache, Order, Own, Resides
  <1>5. Fit(Cache)
    BY <1>2, <1>3, <1>4, FS_EmptySet DEF Fit
  <1>6. Freed /\ Warm
    BY <1>1, Markers DEF Freed, Warm, Alone, Cache
  <1> QED BY <1>1, <1>5, <1>6 DEF WInv

\* The step's cache is c.
LEMMA CacheBecomes ==
  ASSUME NEW c \in CacheTypes, Becomes(c)
  PROVE  /\ Cache' = c
         /\ items' \in [Keys -> Objects \cup {NoObject, Absent}] /\ older' \in SUBSET (Keys \X Keys)
         /\ resident' \in Keys \cup {None} /\ device' \subseteq Objects
  BY DEF Becomes, Cache, CacheTypes

LEMMA CacheFacts ==
  ASSUME WInv
  PROVE  /\ Cache \in CacheTypes /\ Cache.items = items /\ Cache.older = older
         /\ Cache.resident = resident /\ Cache.device = device
  BY DEF WInv, Fit, Cache

Grown(c, o) == [c EXCEPT !.device = @ \cup {o}]

LEMMA DeviceGrows ==
  ASSUME NEW c, Fit(c), NEW o \in Objects, NEW d, d = Grown(c, o)
  PROVE  /\ Fit(d) /\ d.items = c.items /\ d.older = c.older /\ d.resident = c.resident
         /\ d.device = c.device \cup {o}
         /\ \A j \in Keys : Newer(d, j) = Newer(c, j)
  <1>1. c \in CacheTypes
    BY DEF Fit
  <1>2. /\ d.items = c.items /\ d.older = c.older /\ d.resident = c.resident
        /\ d.device = c.device \cup {o} /\ d \in CacheTypes
    BY <1>1 DEF CacheTypes, Grown
  <1>3. Entries(d) = Entries(c) /\ \A j \in Keys : Newer(d, j) = Newer(c, j)
    BY <1>2 DEF Entries, Newer
  <1>4. Order(d)
    BY <1>2, <1>3 DEF Fit, Order
  <1> QED BY <1>2, <1>3, <1>4 DEF Fit, Own, Resides

LEMMA ReclaimFacts ==
  ASSUME Fit(Cache), NEW k \in Keys, NEW protect \in SUBSET Keys, NEW c \in Reclaims(k, protect)
  PROVE  Fit(c) /\ c.device \subseteq Cache.device /\ (Alone(Cache, {}) => Alone(c, {}))
  <1> DEFINE p == Park(Cache, {k})
             q == Clear(p, protect)
             r == Park(q, {})
             s == Clear(q, {})
  <1> HIDE DEF p, q, r, s
  <1> DEFINE Good(d) == Fit(d) /\ d.device \subseteq Cache.device /\ (Alone(Cache, {}) => Alone(d, {}))
  <1>1. Good(p)
    BY ParkFacts DEF p
  <1>2. Good(q)
    BY <1>1, ClearFacts DEF q
  <1>3. Good(r)
    BY <1>2, ParkFacts DEF r
  <1>4. Good(s)
    BY <1>2, ClearFacts DEF s
  <1>5. c \in {Cache, p, q, r, s}
    BY DEF Reclaims, p, q, r, s
  <1> QED BY <1>1, <1>2, <1>3, <1>4, <1>5

\* There is an object of k left, as each pass under way holds one at most.
LEMMA FreshFacts ==
  ASSUME TypeOK, Len(stack) <= MaxDepth, Own(Cache), NEW k \in Keys, Held(items, k) = NoObject
  PROVE  FreshOf(k) \in Objects /\ FreshOf(k)[1] = k
  <1> DEFINE n == Len(stack)
             f == [i \in 1..n |-> stack[i].obj[2]]
             S == {f[i] : i \in 1..n}
  <1>1. n \in Nat /\ n <= MaxDepth /\ MaxDepth \in Nat /\ DOMAIN stack = 1..n
    BY CacheAssumption DEF TypeOK
  <1>2. IsFiniteSet(S) /\ Cardinality(S) <= n /\ Cardinality(S) \in Nat
    <2>1. f \in Surjection(1..n, S)
      BY DEF Surjection
    <2>2. IsFiniteSet(1..n) /\ Cardinality(1..n) = n
      <3> HIDE DEF n
      <3>1. n \in Int /\ 1 \in Int /\ (1 > n => n = 0)
        BY <1>1
      <3> QED BY <1>1, <3>1, FS_Interval
    <2> HIDE DEF f, S
    <2> QED BY <2>1, <2>2, FS_Surjection, FS_CardinalityType DEF ExistsSurjection
  <1>3. ~(1..(MaxDepth + 1) \subseteq S)
    <2> HIDE DEF S, n
    <2>1. Cardinality(1..(MaxDepth + 1)) = MaxDepth + 1
      BY <1>1, FS_Interval
    <2> QED BY <1>1, <1>2, <2>1, FS_Subset
  <1>4. PICK m \in 1..(MaxDepth + 1) : m \notin S
    BY <1>3
  <1>5. <<k, m>> \notin InUse
    BY <1>1, <1>4 DEF InUse
  <1>6. <<k, m>> \notin Cached
    BY Markers DEF Cached, Held, Own, Cache
  <1>7. \E o \in {k} \X (1..(MaxDepth + 1)) : o \notin InUse \cup Cached
    BY <1>4, <1>5, <1>6
  <1>8. FreshOf(k) \in {k} \X (1..(MaxDepth + 1))
    BY <1>7 DEF FreshOf
  <1> QED BY <1>8 DEF Objects

\* The innermost frame.
LEMMA TopFacts ==
  ASSUME WInv, stack # <<>>
  PROVE  /\ Len(stack) \in 1..MaxDepth /\ DOMAIN stack = 1..Len(stack)
         /\ Top = stack[Len(stack)] /\ Top \in Frames /\ Top.key \in Keys
         /\ \A i \in 1..Len(stack) : stack[i] \in Frames
         /\ run # "parked"
  <1>1. stack \in Seq(Frames) /\ Len(stack) <= MaxDepth /\ MaxDepth \in Nat
    BY CacheAssumption DEF WInv, TypeOK
  <1>2. /\ Len(stack) \in 1..MaxDepth /\ DOMAIN stack = 1..Len(stack)
        /\ \A i \in 1..Len(stack) : stack[i] \in Frames
    BY <1>1
  <1>3. Top = stack[Len(stack)] /\ Top \in Frames
    BY <1>2 DEF Top, Last
  <1>4. Top.key \in Keys
    BY <1>3 DEF Frames
  <1>5. run # "parked"
    BY DEF WInv, Freed
  <1> QED BY <1>2, <1>3, <1>4, <1>5

LEMMA FrontFacts ==
  ASSUME WInv, stack # <<>>
  PROVE  /\ Len(stack) \in Nat \ {0} /\ Front(stack) \in Seq(Frames)
         /\ Len(Front(stack)) = Len(stack) - 1
         /\ \A i \in 1..(Len(stack) - 1) : Front(stack)[i] = stack[i]
  <1> DEFINE n == Len(stack)
  <1>1. stack \in Seq(Frames) /\ n \in Nat \ {0} /\ \A i \in 1..n : stack[i] \in Frames
    BY DEF WInv, TypeOK
  <1>2. Front(stack) = SubSeq(stack, 1, n - 1)
    BY DEF Front
  <1> HIDE DEF n
  <1>3. /\ SubSeq(stack, 1, n - 1) \in Seq(Frames)
        /\ Len(SubSeq(stack, 1, n - 1)) = IF 1 <= n - 1 THEN n - 1 - 1 + 1 ELSE 0
        /\ \A i \in 1..(n - 1 - 1 + 1) : SubSeq(stack, 1, n - 1)[i] = stack[1 + i - 1]
    <2>1. 1 \in Int /\ n - 1 \in Int /\ \A i \in 1..(n - 1) : stack[i] \in Frames
      BY <1>1
    <2> QED BY <2>1, SubSeqProperties
  <1>4. Len(Front(stack)) = n - 1 /\ \A i \in 1..(n - 1) : Front(stack)[i] = stack[i]
    BY <1>1, <1>2, <1>3
  <1> QED BY <1>1, <1>2, <1>3, <1>4 DEF n

LEMMA SetTopFacts ==
  ASSUME WInv, stack # <<>>, NEW f \in Frames, SetTop(f)
  PROVE  /\ stack' \in Seq(Frames) /\ Len(stack') = Len(stack) /\ DOMAIN stack' = 1..Len(stack)
         /\ stack'[Len(stack)] = f
         /\ \A i \in 1..(Len(stack) - 1) : stack'[i] = stack[i]
  <1> DEFINE n == Len(stack)
             before == Front(stack)
  <1>1. /\ n \in Nat \ {0} /\ before \in Seq(Frames) /\ Len(before) = n - 1
        /\ \A i \in 1..(n - 1) : before[i] = stack[i]
    BY FrontFacts
  <1>2. stack' = before \o <<f>>
    BY DEF SetTop
  <1> HIDE DEF before, n
  <1>3. /\ stack' \in Seq(Frames) /\ Len(stack') = n /\ stack'[n] = f
        /\ \A i \in 1..(n - 1) : stack'[i] = stack[i]
    BY <1>1, <1>2
  <1> QED BY <1>3 DEF n

LEMMA PopFacts ==
  ASSUME WInv, stack # <<>>, stack' = Front(stack)
  PROVE  /\ stack' \in Seq(Frames) /\ Len(stack') = Len(stack) - 1
         /\ DOMAIN stack' = 1..(Len(stack) - 1)
         /\ \A i \in 1..(Len(stack) - 1) : stack'[i] = stack[i]
  BY FrontFacts

----------------------------------------------------------------------------
(* The steps.                                                               *)

\* The places of n frames of which the last may be left.
LEMMA Places ==
  ASSUME NEW n \in Nat \ {0}, NEW m \in {n - 1, n}
  PROVE  /\ \A i \in 1..(n - 1) : i \in 1..n /\ i # n
         /\ \A j \in 1..m : j \in 1..n /\ (j = n => m = n) /\ (j # n => j \in 1..(n - 1))
  OBVIOUS

\* The frames around the innermost one, in a step of that.
LEMMA OuterFrames ==
  ASSUME WInv, stack # <<>>, raced' = raced,
         NEW n \in Nat \ {0}, n = Len(stack), Len(stack') \in {n - 1, n}, DOMAIN stack' = 1..Len(stack'),
         \A i \in 1..(n - 1) : stack'[i] = stack[i],
         Len(stack') = n => stack'[n].key = Top.key,
         \A i \in 1..(n - 1) : ~raced /\ Safe(stack[i]) =>
           /\ Keeps(Cache', stack[i])
           /\ Len(stack') = n /\ Top.key = stack[i].key
                => stack'[n].obj \in {NoObject, stack[i].obj}
  PROVE  \A i \in 1..(n - 1) : Frame(i)'
  <1>1. n \in Nat \ {0} /\ DOMAIN stack = 1..n /\ Top = stack[n]
    BY TopFacts
  <1> SUFFICES ASSUME NEW i \in 1..(n - 1) PROVE Frame(i)'
    OBVIOUS
  <1>2. Holds(stack[i]) /\ Waits(i) /\ Inner(i) /\ Stands(i) /\ stack'[i] = stack[i]
    <2>1. i \in 1..n
      BY Places
    <2> QED BY <1>1, <2>1 DEF WInv, Frame
  <1>3. \A j \in DOMAIN stack' : j \in 1..n /\ (j = n => Len(stack') = n)
                                 /\ (j # n => stack'[j] = stack[j]) /\ stack'[j].key = stack[j].key
    <2> SUFFICES ASSUME NEW j \in 1..Len(stack')
                 PROVE  /\ j \in 1..n /\ (j = n => Len(stack') = n)
                        /\ j # n => stack'[j] = stack[j]
                        /\ stack'[j].key = stack[j].key
      OBVIOUS
    <2>1. j \in 1..n /\ (j = n => Len(stack') = n) /\ (j # n => j \in 1..(n - 1))
      BY Places
    <2> QED BY <1>1, <2>1
  <1>4. (Holds(stack[i]))'
    BY <1>2 DEF Holds
  <1>5. Waits(i)'
    <2>1. i # Len(stack)
      BY Places
    <2>2. stack[i].at \notin {"prepare", "acquire"}
      BY <1>2, <2>1 DEF Waits
    <2> QED BY <1>2, <2>2 DEF Waits
  <1>6. Inner(i)'
    BY <1>1, <1>2, <1>3 DEF Inner
  <1>7. Stands(i)'
    <2> SUFFICES ASSUME ~raced, Safe(stack[i])
                 PROVE  /\ stack[i].obj \in Objects /\ Keeps(Cache', stack[i])
                        /\ \A j \in DOMAIN stack' : i < j /\ stack'[j].key = stack[i].key
                             => stack'[j].obj \in {NoObject, stack[i].obj}
      BY <1>2 DEF Stands, Safe, Keeps
    <2>1. /\ stack[i].obj \in Objects
          /\ \A j \in DOMAIN stack : i < j /\ stack[j].key = stack[i].key
                                       => stack[j].obj \in {NoObject, stack[i].obj}
      BY <1>2 DEF Stands
    <2>2. Keeps(Cache', stack[i])
      OBVIOUS
    <2>3. ASSUME NEW j \in DOMAIN stack', i < j, stack'[j].key = stack[i].key
          PROVE  stack'[j].obj \in {NoObject, stack[i].obj}
      <3>1. CASE j = n
        BY <1>1, <1>3, <2>3, <3>1
      <3>2. CASE j # n
        BY <1>1, <1>3, <2>1, <2>3, <3>2
      <3> QED BY <3>1, <3>2
    <2> QED BY <2>1, <2>2, <2>3
  <1> QED BY <1>4, <1>5, <1>6, <1>7 DEF Frame

\* The step of a pass: its frame becomes f, the cache c.
LEMMA TopStep ==
  ASSUME WInv, stack # <<>>, NEW f \in Frames, SetTop(f), NEW c, Fit(c), Becomes(c),
         run' = run, UNCHANGED <<cleanup, runs, passes, mixed, raced>>,
         f.key = Top.key, Holds(f),
         f.at = "acquire" => f.obj = NoObject /\ ~f.hit,
         f.at = "prepare" => Top.at = "prepare" /\ f.obj = NoObject /\ ~f.hit,
         ~raced /\ Safe(f) => f.obj \in Objects /\ Keeps(c, f),
         \A i \in 1..(Len(stack) - 1) : ~raced /\ Safe(stack[i]) =>
           /\ Keeps(c, stack[i])
           /\ Top.key = stack[i].key => f.obj \in {NoObject, stack[i].obj},
         ~mixed /\ ~raced => (f.obj # NoObject => f.obj \in c.device) /\ Alone(c, {f.obj})
  PROVE  WInv'
  <1> DEFINE n == Len(stack)
  <1>1. /\ n \in 1..MaxDepth /\ DOMAIN stack = 1..n /\ Top = stack[n] /\ Top \in Frames
        /\ run # "parked"
    BY TopFacts
  <1>2. /\ stack' \in Seq(Frames) /\ Len(stack') = n /\ DOMAIN stack' = 1..n /\ stack'[n] = f
        /\ \A i \in 1..(n - 1) : stack'[i] = stack[i]
    BY SetTopFacts
  <1>3. c \in CacheTypes
    BY DEF Fit
  <1>4. /\ Cache' = c
        /\ items' \in [Keys -> Objects \cup {NoObject, Absent}] /\ older' \in SUBSET (Keys \X Keys)
        /\ resident' \in Keys \cup {None} /\ device' \subseteq Objects
    BY <1>3, CacheBecomes
  <1>5. TypeOK'
    BY <1>2, <1>4 DEF WInv, TypeOK
  <1>6. \A i \in 1..(n - 1) : Frame(i)'
    <2> HIDE DEF n
    <2>1. n = Len(stack) /\ n \in Nat \ {0}
      BY <1>1, CacheAssumption DEF n
    <2>2. \A i \in 1..(n - 1) : ~raced /\ Safe(stack[i]) =>
            /\ Keeps(Cache', stack[i])
            /\ Len(stack') = n /\ Top.key = stack[i].key
                 => stack'[n].obj \in {NoObject, stack[i].obj}
      BY <1>2, <1>4, <2>1
    <2> QED BY <1>2, <2>1, <2>2, OuterFrames
  <1>7. Frame(n)'
    <2>1. (Holds(stack[n]))'
      BY <1>2 DEF Holds
    <2>2. Waits(n)'
      BY <1>1, <1>2 DEF WInv, Frame, Waits
    <2>3. Inner(n)'
      BY <1>1, <1>2 DEF Inner
    <2>4. Stands(n)'
      <3>1. ~raced /\ Safe(f) => f.obj \in Objects /\ Keeps(Cache', f)
        BY <1>4
      <3>2. \A j \in DOMAIN stack' : ~(n < j)
        BY <1>1, <1>2
      <3> QED BY <1>2, <3>1, <3>2 DEF Stands, Safe, Keeps
    <2> QED BY <2>1, <2>2, <2>3, <2>4 DEF Frame
  <1>8. Freed'
    BY <1>1 DEF Freed
  <1>9. Warm'
    <2> SUFFICES ASSUME ~mixed, ~raced
                 PROVE  /\ Len(stack') <= 1
                        /\ \A i \in DOMAIN stack' :
                             /\ stack'[i].key \notin Helpers
                             /\ stack'[i].obj # NoObject => stack'[i].obj \in device'
                        /\ Alone(Cache', InUse')
      BY DEF Warm, Alone
    <2>1. n = 1 /\ Top.key \notin Helpers
      BY <1>1 DEF WInv, Warm
    <2>2. InUse' = {f.obj} /\ c.device = device'
      BY <1>2, <2>1 DEF InUse, Becomes
    <2> QED BY <1>2, <1>4, <2>1, <2>2
  <1>10. \A i \in DOMAIN stack' : Frame(i)'
    BY <1>1, <1>2, <1>6, <1>7
  <1>11. Len(stack') <= MaxDepth
    BY <1>1, <1>2
  <1> QED BY <1>4, <1>5, <1>8, <1>9, <1>10, <1>11 DEF WInv

LEMMA PrepareStep ==
  ASSUME WInv, Prepare PROVE WInv'
  <1> DEFINE f == [Top EXCEPT !.at = "acquire"]
  <1>1. stack # <<>> /\ Top.at = "prepare" /\ SetTop(f)
        /\ UNCHANGED <<run, cleanup, runs, passes, mixed, raced>>
    BY DEF Prepare
  <1>2. /\ Len(stack) \in 1..MaxDepth /\ DOMAIN stack = 1..Len(stack)
        /\ Top = stack[Len(stack)] /\ Top \in Frames /\ Top.key \in Keys
    BY <1>1, TopFacts
  <1>3. Waits(Len(stack)) /\ Holds(Top)
    BY <1>2 DEF WInv, Frame
  <1>4. Len(stack) = 1 /\ Top.obj = NoObject /\ ~Top.hit
    BY <1>1, <1>2, <1>3 DEF Waits
  <1>5. f \in Frames /\ f.key = Top.key /\ f.at = "acquire" /\ f.obj = NoObject /\ ~f.hit
    <2>1. f \in Frames /\ f.key = Top.key /\ f.at = "acquire" /\ f.obj = Top.obj
      BY <1>2 DEF Frames
    <2>2. ~f.hit
      BY <1>2, <1>4 DEF Frames
    <2> QED BY <1>4, <2>1, <2>2
  <1>6. PICK protect \in SUBSET Keys : \E c \in Reclaims(Top.key, protect) : Becomes(c)
    BY DEF Prepare
  <1>7. PICK c \in Reclaims(Top.key, protect) : Becomes(c)
    BY <1>6
  <1>8. Fit(c) /\ (Alone(Cache, {}) => Alone(c, {}))
    BY <1>2, ReclaimFacts DEF WInv
  <1>9. ~mixed /\ ~raced => Alone(c, {f.obj})
    <2>1. InUse = {NoObject}
      BY <1>2, <1>4 DEF InUse
    <2>2. ~mixed /\ ~raced => Alone(Cache, {})
      BY <2>1, Markers DEF WInv, Warm, Alone
    <2> QED BY <1>8, <2>2 DEF Alone
  <1> HIDE DEF f
  <1>10. \A i \in 1..(Len(stack) - 1) : FALSE
    BY <1>4
  <1> QED BY <1>1, <1>5, <1>7, <1>8, <1>9, <1>10, TopStep DEF Holds, Safe

\* What a frame in the middle of an acquisition is.
LEMMA Acquiring ==
  ASSUME WInv, stack # <<>>, Top.at = "acquire"
  PROVE  /\ Top.obj = NoObject /\ ~Top.hit
         /\ ~mixed /\ ~raced => Alone(Cache, {}) /\ Top.key \notin Helpers
  <1>1. /\ Len(stack) \in 1..MaxDepth /\ DOMAIN stack = 1..Len(stack)
        /\ Top = stack[Len(stack)] /\ Top \in Frames /\ Top.key \in Keys
    BY TopFacts
  <1>2. Waits(Len(stack))
    BY <1>1 DEF WInv, Frame
  <1>3. Top.obj = NoObject /\ ~Top.hit
    BY <1>1, <1>2 DEF Waits
  <1>4. ASSUME ~mixed, ~raced PROVE Alone(Cache, {}) /\ Top.key \notin Helpers
    <2>1. Len(stack) = 1 /\ Top.key \notin Helpers /\ Alone(Cache, InUse)
      BY <1>1, <1>4 DEF WInv, Warm
    <2>2. InUse = {NoObject}
      BY <1>1, <1>3, <2>1 DEF InUse
    <2> QED BY <2>1, <2>2, Markers DEF Alone
  <1> QED BY <1>3, <1>4

\* What is around the innermost frame has its key among those that ran within.
LEMMA Around ==
  ASSUME WInv, stack # <<>>, ~raced, NEW i \in 1..(Len(stack) - 1), Safe(stack[i])
  PROVE  /\ Top.key \in stack[i].within /\ stack[i].within \in SUBSET Keys /\ stack[i].key \in Keys
         /\ Cardinality(stack[i].within) < MaxEntries
         /\ stack[i].obj \in Objects /\ Keeps(Cache, stack[i])
         /\ Top.key = stack[i].key => Top.obj \in {NoObject, stack[i].obj}
  <1> DEFINE n == Len(stack)
  <1>1. /\ n \in 1..MaxDepth /\ DOMAIN stack = 1..n /\ Top = stack[n]
        /\ \A j \in 1..n : stack[j] \in Frames
    BY TopFacts
  <1>2. i \in 1..n /\ n \in 1..n /\ i < n
    BY <1>1, CacheAssumption
  <1>3. Inner(i) /\ Stands(i) /\ stack[i] \in Frames
    BY <1>1, <1>2 DEF WInv, Frame
  <1>4. Top.key \in stack[i].within
    BY <1>1, <1>2, <1>3 DEF Inner
  <1>5. /\ stack[i].obj \in Objects /\ Keeps(Cache, stack[i])
        /\ Top.key = stack[i].key => Top.obj \in {NoObject, stack[i].obj}
    BY <1>1, <1>2, <1>3 DEF Stands
  <1>6. stack[i].within \in SUBSET Keys /\ stack[i].key \in Keys
    BY <1>3 DEF Frames
  <1> QED BY <1>4, <1>5, <1>6 DEF Safe

\* The cache that an acquisition of o finds, with o on the device.
LEMMA AcquiredFacts ==
  ASSUME WInv, stack # <<>>, Top.at = "acquire", NEW o \in Objects,
         NEW c, c = [Touched(Cache, Top.key) EXCEPT !.device = @ \cup {o}]
  PROVE  /\ Fit(c) /\ c.items = items /\ o \in c.device
         /\ Top.key \in Entries(Cache) => Newer(c, Top.key) = {}
         /\ \A i \in 1..(Len(stack) - 1) : ~raced /\ Safe(stack[i]) => Keeps(c, stack[i])
         /\ ~mixed /\ ~raced => Alone(c, {o})
  <1> DEFINE t == Touched(Cache, Top.key)
  <1>1. Top.key \in Keys
    BY TopFacts
  <1>2. Cache.items = items /\ Cache.resident = resident /\ Cache.device = device /\ Fit(Cache)
    BY CacheFacts DEF WInv
  <1>3. /\ Fit(t) /\ t.items = items /\ t.resident = resident /\ t.device = device
        /\ Top.key \in Entries(Cache) => Newer(t, Top.key) = {}
        /\ \A j \in Keys : Newer(t, j) \subseteq Newer(Cache, j) \cup {Top.key}
    BY <1>1, <1>2, TouchedFacts
  <1> HIDE DEF t
  <1>4. /\ Fit(c) /\ c.items = t.items /\ c.resident = t.resident
        /\ c.device = t.device \cup {o}
        /\ \A j \in Keys : Newer(c, j) = Newer(t, j)
    <2>1. c = Grown(t, o)
      BY DEF t, Grown
    <2>2. Fit(t) /\ o \in Objects
      BY <1>3
    <2> QED BY ONLY <2>1, <2>2, DeviceGrows
  <1>5. ASSUME NEW i \in 1..(Len(stack) - 1), ~raced, Safe(stack[i]) PROVE Keeps(c, stack[i])
    <2>1. /\ Top.key \in stack[i].within /\ stack[i].key \in Keys
          /\ Keeps(Cache, stack[i])
      BY <1>5, Around
    <2> QED BY <1>2, <1>3, <1>4, <2>1 DEF Keeps
  <1>6. ~mixed /\ ~raced => Alone(c, {o})
    <2>1. ~mixed /\ ~raced => Alone(Cache, {})
      BY Acquiring
    <2> QED BY <1>2, <1>3, <1>4, <2>1 DEF Alone
  <1>7. Top.key \in Entries(Cache) => Newer(c, Top.key) = {}
    BY <1>1, <1>3, <1>4
  <1> QED BY <1>3, <1>4, <1>5, <1>6, <1>7

LEMMA HitStep ==
  ASSUME WInv, Hit PROVE WInv'
  <1> DEFINE o == Held(items, Top.key)
             c == [Touched(Cache, Top.key) EXCEPT !.device = @ \cup {o}]
             f == [Top EXCEPT !.obj = o, !.hit = TRUE, !.at = "infer"]
  <1>1. /\ stack # <<>> /\ Top.at = "acquire" /\ o # NoObject /\ Becomes(c) /\ SetTop(f)
        /\ UNCHANGED <<run, cleanup, runs, passes, mixed, raced>>
    BY DEF Hit
  <1>2. Top \in Frames /\ Top.key \in Keys
    BY <1>1, TopFacts
  <1>3. Top.obj = NoObject /\ ~Top.hit
    BY <1>1, Acquiring
  <1>4. /\ items \in [Keys -> Objects \cup {NoObject, Absent}] /\ Cache.items = items
        /\ Own(Cache)
    BY CacheFacts DEF WInv, TypeOK, Fit
  <1>5. o \in Objects /\ o = items[Top.key] /\ o[1] = Top.key /\ Top.key \in Entries(Cache)
    BY <1>1, <1>2, <1>4, Markers DEF Held, Own, Entries
  <1> HIDE DEF o
  <1>6. /\ f \in Frames /\ f.key = Top.key /\ f.obj = o /\ f.within = Top.within
        /\ f.at = "infer"
    BY <1>2, <1>5 DEF Frames
  <1>7. /\ Fit(c) /\ c.items = items /\ o \in c.device /\ Newer(c, Top.key) = {}
        /\ \A i \in 1..(Len(stack) - 1) : ~raced /\ Safe(stack[i]) => Keeps(c, stack[i])
        /\ ~mixed /\ ~raced => Alone(c, {o})
    BY <1>1, <1>5, AcquiredFacts
  <1> HIDE DEF c, f
  <1>8. Keeps(c, f) /\ Holds(f)
    BY <1>5, <1>6, <1>7 DEF Keeps, Holds
  <1>9. \A i \in 1..(Len(stack) - 1) : ~raced /\ Safe(stack[i]) /\ Top.key = stack[i].key
          => f.obj = stack[i].obj
    BY <1>1, <1>4, <1>5, <1>6, Around DEF Keeps
  <1> QED BY <1>1, <1>5, <1>6, <1>7, <1>8, <1>9, TopStep

LEMMA LoadStep ==
  ASSUME WInv, Load PROVE WInv'
  <1> DEFINE k == Top.key
             o == FreshOf(k)
             c == [Touched(Cache, k) EXCEPT !.device = @ \cup {o}]
             d == IF k \in Helpers THEN Put(c, k, o) ELSE c
             f == [Top EXCEPT !.obj = o, !.at = "infer"]
  <1>1. /\ stack # <<>> /\ Top.at = "acquire" /\ Held(items, k) = NoObject /\ Becomes(d) /\ SetTop(f)
        /\ UNCHANGED <<run, cleanup, runs, passes, mixed, raced>>
    BY DEF Load
  <1>2. Top \in Frames /\ k \in Keys
    BY <1>1, TopFacts
  <1>3. /\ Top.obj = NoObject /\ ~Top.hit
        /\ ~mixed /\ ~raced => k \notin Helpers
    BY <1>1, Acquiring
  <1>4. o \in Objects /\ o[1] = k
    BY <1>1, <1>2, FreshFacts DEF WInv, Fit
  <1> HIDE DEF o
  <1>5. /\ Fit(c) /\ c.items = items /\ o \in c.device
        /\ \A i \in 1..(Len(stack) - 1) : ~raced /\ Safe(stack[i]) => Keeps(c, stack[i])
        /\ ~mixed /\ ~raced => Alone(c, {o})
    BY <1>1, <1>4, AcquiredFacts
  <1>6. f \in Frames /\ f.key = k /\ f.obj = o /\ ~f.hit /\ f.at = "infer"
    BY <1>2, <1>3, <1>4 DEF Frames
  <1> HIDE DEF c, f
  <1>7. \A i \in 1..(Len(stack) - 1) : ~raced /\ Safe(stack[i])
          => /\ k \in stack[i].within /\ stack[i].within \in SUBSET Keys /\ stack[i].key \in Keys
             /\ Cardinality(stack[i].within) < MaxEntries /\ stack[i].obj \in Objects
             /\ k # stack[i].key
    <2> SUFFICES ASSUME NEW i \in 1..(Len(stack) - 1), ~raced, Safe(stack[i])
                 PROVE  /\ k \in stack[i].within /\ stack[i].within \in SUBSET Keys
                        /\ stack[i].key \in Keys
                        /\ Cardinality(stack[i].within) < MaxEntries /\ stack[i].obj \in Objects
                        /\ k # stack[i].key
      OBVIOUS
    <2>1. /\ k \in stack[i].within /\ stack[i].within \in SUBSET Keys /\ stack[i].key \in Keys
          /\ Cardinality(stack[i].within) < MaxEntries /\ stack[i].obj \in Objects
          /\ Cache.items[stack[i].key] = stack[i].obj
      BY <1>1, Around DEF Keeps
    <2>2. Held(items, stack[i].key) # NoObject
      BY <2>1, CacheFacts, Markers DEF Held
    <2> QED BY <1>1, <2>1, <2>2
  <1>8. /\ Fit(d) /\ (k \notin Helpers => d = c)
        /\ \A i \in 1..(Len(stack) - 1) : ~raced /\ Safe(stack[i]) => Keeps(d, stack[i])
    <2>1. CASE k \notin Helpers
      BY <1>5, <2>1
    <2>2. CASE k \in Helpers
      <3>1. d = Put(c, k, o)
        BY <2>2
      <3> HIDE DEF d, k
      <3>2. Fit(d) /\ Spared(c, d, k, o)
        BY <1>2, <1>4, <1>5, <3>1, PutFacts
      <3>3. \A i \in 1..(Len(stack) - 1) : ~raced /\ Safe(stack[i]) => Keeps(d, stack[i])
        BY <1>5, <1>7, <3>2 DEF Keeps, Spared
      <3> QED BY <2>2, <3>2, <3>3
    <2> QED BY <2>1, <2>2
  <1> HIDE DEF d
  <1>9. ~mixed /\ ~raced => (f.obj # NoObject => f.obj \in d.device) /\ Alone(d, {f.obj})
    <2> SUFFICES ASSUME ~mixed, ~raced PROVE o \in d.device /\ Alone(d, {o})
      BY <1>6
    <2>1. d = c
      BY <1>3, <1>8
    <2> QED BY <1>5, <2>1
  <1>10. Holds(f) /\ ~Safe(f)
    BY <1>4, <1>6 DEF Holds, Safe
  <1>11. \A i \in 1..(Len(stack) - 1) : ~raced /\ Safe(stack[i]) =>
           /\ Keeps(d, stack[i])
           /\ Top.key = stack[i].key => f.obj \in {NoObject, stack[i].obj}
    BY <1>7, <1>8
  <1> HIDE DEF o
  <1> QED BY <1>1, <1>6, <1>8, <1>9, <1>10, <1>11, TopStep

LEMMA InferStep ==
  ASSUME WInv, Infer \/ InferAgain PROVE WInv'
  <1>1. PICK at \in {"infer", "after"} :
          /\ SetTop([Top EXCEPT !.at = at]) /\ stack # <<>> /\ Top.at \in {"infer", "after"}
          /\ UNCHANGED <<items, older, resident, device, run, cleanup, runs, passes, mixed, raced>>
    BY DEF Infer, InferAgain
  <1> DEFINE f == [Top EXCEPT !.at = at]
             n == Len(stack)
  <1>2. /\ n \in 1..MaxDepth /\ DOMAIN stack = 1..n /\ Top = stack[n] /\ Top \in Frames
    BY <1>1, TopFacts
  <1>3. /\ f \in Frames /\ f.key = Top.key /\ f.at = at /\ f.obj = Top.obj /\ f.hit = Top.hit
        /\ f.within = Top.within
    BY <1>2 DEF Frames
  <1> HIDE DEF f
  <1>4. Fit(Cache) /\ Becomes(Cache)
    BY <1>1 DEF WInv, Becomes, Cache
  <1>5. Holds(Top) /\ Stands(n)
    BY <1>2 DEF WInv, Frame
  <1>6. ~raced /\ Safe(f) => f.obj \in Objects /\ Keeps(Cache, f)
    BY <1>2, <1>3, <1>5 DEF Stands, Safe, Keeps
  <1>7. \A i \in 1..(n - 1) : ~raced /\ Safe(stack[i]) =>
          /\ Keeps(Cache, stack[i])
          /\ Top.key = stack[i].key => f.obj \in {NoObject, stack[i].obj}
    BY <1>1, <1>3, Around
  <1>8. ~mixed /\ ~raced => (f.obj # NoObject => f.obj \in Cache.device) /\ Alone(Cache, {f.obj})
    <2> SUFFICES ASSUME ~mixed, ~raced
                 PROVE  (f.obj # NoObject => f.obj \in Cache.device) /\ Alone(Cache, {f.obj})
      OBVIOUS
    <2>1. n = 1 /\ (Top.obj # NoObject => Top.obj \in device) /\ Alone(Cache, InUse)
      BY <1>2 DEF WInv, Warm
    <2>2. InUse = {f.obj}
      BY <1>2, <1>3, <2>1 DEF InUse
    <2> QED BY <1>3, <2>1, <2>2, CacheFacts
  <1>9. Holds(f)
    BY <1>3, <1>5 DEF Holds
  <1>10. SetTop(f)
    BY <1>1 DEF f
  <1> QED BY <1>1, <1>3, <1>4, <1>6, <1>7, <1>8, <1>9, <1>10, TopStep

LEMMA ReleaseStep ==
  ASSUME WInv, Release PROVE WInv'
  <1> DEFINE k == Top.key
             o == Top.obj
             n == Len(stack)
             c == IF o = NoObject \/ k \in Helpers THEN Cache ELSE Put(Cache, k, o)
  <1>1. /\ stack # <<>> /\ Becomes(c) /\ stack' = Front(stack)
        /\ UNCHANGED <<run, cleanup, runs, passes, mixed, raced>>
    BY DEF Release
  <1>2. /\ n \in 1..MaxDepth /\ n \in Nat \ {0} /\ DOMAIN stack = 1..n /\ Top = stack[n]
        /\ Top \in Frames /\ k \in Keys /\ run # "parked"
    BY <1>1, TopFacts, CacheAssumption
  <1>3. /\ stack' \in Seq(Frames) /\ Len(stack') = n - 1 /\ DOMAIN stack' = 1..(n - 1)
        /\ \A i \in 1..(n - 1) : stack'[i] = stack[i]
    BY <1>1, PopFacts
  <1>4. Holds(Top)
    BY <1>2 DEF WInv, Frame
  <1>5. o # NoObject => o \in Objects /\ o[1] = k
    BY <1>4 DEF Holds
  <1>6. /\ Fit(c)
        /\ \A i \in 1..(n - 1) : ~raced /\ Safe(stack[i]) => Keeps(c, stack[i])
        /\ k \notin Helpers /\ (o # NoObject => o \in device) /\ Alone(Cache, {o}) => Alone(c, {})
    <2>1. CASE o = NoObject \/ k \in Helpers
      <3>1. c = Cache
        BY <2>1
      <3> HIDE DEF c
      <3>2. \A i \in 1..(n - 1) : ~raced /\ Safe(stack[i]) => Keeps(c, stack[i])
        BY <1>1, <3>1, Around
      <3>3. k \notin Helpers /\ Alone(Cache, {o}) => Alone(c, {})
        BY <2>1, <3>1, Markers DEF Alone
      <3> QED BY <3>1, <3>2, <3>3 DEF WInv
    <2>2. CASE o # NoObject /\ k \notin Helpers
      <3>1. c = Put(Cache, k, o) /\ Fit(Cache) /\ o \in Objects /\ o[1] = k
        BY <1>5, <2>2 DEF WInv
      <3> HIDE DEF c, o, k
      <3>2. /\ Fit(c)
            /\ o \in Cache.device /\ Alone(Cache, {o}) => Alone(c, {})
            /\ Spared(Cache, c, k, o)
        BY <1>2, <3>1, PutFacts
      <3>3. ASSUME NEW i \in 1..(n - 1), ~raced, Safe(stack[i]) PROVE Keeps(c, stack[i])
        <4>1. /\ k \in stack[i].within /\ stack[i].within \in SUBSET Keys /\ stack[i].key \in Keys
              /\ Cardinality(stack[i].within) < MaxEntries
              /\ stack[i].obj \in Objects /\ Keeps(Cache, stack[i])
              /\ k = stack[i].key => Top.obj \in {NoObject, stack[i].obj}
          BY <1>1, <3>3, Around DEF k
        <4>2. k = stack[i].key => o = stack[i].obj
          BY <2>2, <4>1 DEF o
        <4> QED BY <3>2, <4>1, <4>2 DEF Keeps, Spared
      <3> QED BY <2>2, <3>2, <3>3, CacheFacts
    <2> QED BY <2>1, <2>2
  <1> HIDE DEF c
  <1>7. /\ Cache' = c
        /\ items' \in [Keys -> Objects \cup {NoObject, Absent}] /\ older' \in SUBSET (Keys \X Keys)
        /\ resident' \in Keys \cup {None} /\ device' \subseteq Objects
    BY <1>1, <1>6, CacheBecomes DEF Fit
  <1>8. TypeOK'
    BY <1>1, <1>3, <1>7 DEF WInv, TypeOK
  <1>9. \A i \in DOMAIN stack' : Frame(i)'
    <2> HIDE DEF n
    <2>1. n = Len(stack) /\ Len(stack') # n /\ Len(stack') \in {n - 1, n}
      <3>1. n = Len(stack)
        BY DEF n
      <3>2. Len(stack') = n - 1 /\ n \in Nat
        BY <1>2, <1>3
      <3>3. Len(stack') # n
        BY <3>2
      <3> QED BY <3>1, <3>2, <3>3
    <2>2. \A i \in 1..(n - 1) : ~raced /\ Safe(stack[i]) => Keeps(Cache', stack[i])
      BY <1>6, <1>7
    <2>3. \A i \in 1..(n - 1) : Frame(i)'
      BY <1>1, <1>2, <1>3, <2>1, <2>2, OuterFrames
    <2> QED BY <1>3, <2>3
  <1>10. Freed'
    BY <1>1, <1>2 DEF Freed
  <1>11. Warm'
    <2> SUFFICES ASSUME ~mixed, ~raced
                 PROVE  stack' = <<>> /\ Alone(Cache', {})
      <3>1. stack' = <<>> => DOMAIN stack' = {} /\ Len(stack') <= 1
        OBVIOUS
      <3> QED BY <1>1, <3>1 DEF Warm, Alone
    <2>1. n = 1 /\ k \notin Helpers /\ (o # NoObject => o \in device) /\ Alone(Cache, InUse)
      BY <1>2 DEF WInv, Warm
    <2>2. InUse = {o}
      BY <1>2, <2>1 DEF InUse
    <2>3. Alone(c, {})
      BY <1>6, <2>1, <2>2
    <2>4. stack' = <<>>
      BY <1>3, <2>1
    <2> QED BY <1>7, <2>3, <2>4
  <1>12. Len(stack') <= MaxDepth
    BY <1>2, <1>3, CacheAssumption
  <1> QED BY <1>6, <1>7, <1>8, <1>9, <1>10, <1>11, <1>12 DEF WInv

LEMMA NestStep ==
  ASSUME WInv, NEW k \in Keys, Nest(k) PROVE WInv'
  <1>0. PICK n : n = Len(stack)
    OBVIOUS
  <1> DEFINE g == NewFrame(k, "acquire")
             widened == [i \in DOMAIN stack |-> [stack[i] EXCEPT !.within = @ \cup {k}]]
  <1>1. /\ stack # <<>> /\ n < MaxDepth /\ Top.at \in {"infer", "after"}
        /\ stack' = Append(widened, g) /\ mixed' = TRUE
        /\ UNCHANGED <<items, older, resident, device, run, cleanup, runs, passes, raced>>
    BY <1>0 DEF Nest
  <1>2. /\ n \in 1..MaxDepth /\ DOMAIN stack = 1..n /\ Top = stack[n] /\ n \in Nat \ {0}
        /\ \A i \in 1..n : stack[i] \in Frames
        /\ run # "parked" /\ stack \in Seq(Frames)
    BY <1>0, <1>1, TopFacts, CacheAssumption DEF WInv, TypeOK
  <1>3. g \in Frames /\ g.key = k /\ g.obj = NoObject /\ ~g.hit /\ g.at = "acquire"
    BY DEF NewFrame, Frames
  <1> HIDE DEF g
  <1>4. \A i \in 1..n : /\ widened[i] \in Frames
                        /\ widened[i].key = stack[i].key /\ widened[i].obj = stack[i].obj
                        /\ widened[i].hit = stack[i].hit /\ widened[i].at = stack[i].at
                        /\ widened[i].within = stack[i].within \cup {k}
    BY <1>2 DEF Frames
  <1>5. /\ stack' \in Seq(Frames) /\ Len(stack') = n + 1 /\ DOMAIN stack' = 1..(n + 1)
        /\ stack'[n + 1] = g
        /\ \A i \in 1..n : stack'[i] = widened[i]
    <2>1. widened \in Seq(Frames) /\ Len(widened) = n
      <3>1. widened \in [1..n -> Frames]
        BY <1>2, <1>4
      <3> HIDE DEF widened
      <3> QED BY <1>2, <3>1
    <2> HIDE DEF widened
    <2> QED BY <1>1, <1>2, <1>3, <2>1
  <1> HIDE DEF widened
  <1>6. \A i \in 1..n :
          /\ stack'[i].key = stack[i].key /\ stack'[i].obj = stack[i].obj
          /\ stack'[i].hit = stack[i].hit /\ stack'[i].at = stack[i].at
          /\ stack'[i].within = stack[i].within \cup {k}
    BY <1>4, <1>5
  <1>7. Cache' = Cache
    BY <1>1 DEF Cache
  <1>8. TypeOK' /\ Len(stack') <= MaxDepth
    <2>1. stack' \in Seq(Frames) /\ mixed' \in BOOLEAN
      BY <1>1, <1>5
    <2>2. TypeOK'
      BY <1>1, <2>1 DEF WInv, TypeOK
    <2> QED BY <1>1, <1>2, <1>5, <2>2, CacheAssumption
  <1>9. \A j \in 1..(n + 1) : j \in 1..n \/ j = n + 1
    BY <1>2
  <1>10. ASSUME NEW i \in 1..n PROVE Frame(i)'
    <2>1. Holds(stack[i]) /\ Waits(i) /\ Inner(i) /\ Stands(i)
      BY <1>2 DEF WInv, Frame
    <2>2. (Holds(stack[i]))'
      BY <1>6, <2>1 DEF Holds
    <2>3. Waits(i)'
      <3>1. stack[i].at \notin {"prepare", "acquire"}
        BY <1>0, <1>1, <1>2, <2>1 DEF Waits
      <3> QED BY <1>6, <3>1 DEF Waits
    <2>4. Inner(i)'
      <3> SUFFICES ASSUME NEW j \in 1..(n + 1), i < j PROVE stack'[j].key \in stack'[i].within
        BY <1>5 DEF Inner
      <3>1. CASE j \in 1..n
        BY <1>2, <1>6, <2>1, <3>1 DEF Inner
      <3>2. CASE j = n + 1
        BY <1>3, <1>5, <1>6, <3>2
      <3> QED BY <1>9, <3>1, <3>2
    <2>5. Stands(i)'
      <3> SUFFICES ASSUME ~raced, stack'[i].hit, Cardinality(stack'[i].within) < MaxEntries
                   PROVE  /\ stack'[i].obj \in Objects /\ Keeps(Cache, stack'[i])
                          /\ \A j \in 1..(n + 1) : i < j /\ stack'[j].key = stack'[i].key
                               => stack'[j].obj \in {NoObject, stack'[i].obj}
        BY <1>1, <1>5, <1>7 DEF Stands, Safe, Keeps
      <3>1. Safe(stack[i])
        <4>1. stack[i].within \subseteq Keys
          BY <1>2 DEF Frames
        <4>2. IsFiniteSet(stack'[i].within) /\ Cardinality(stack'[i].within) \in Nat
          BY <1>6, <4>1, CacheAssumption, FS_Subset, FS_CardinalityType
        <4>3. Cardinality(stack[i].within) <= Cardinality(stack'[i].within)
              /\ IsFiniteSet(stack[i].within)
          BY <1>6, <4>2, FS_Subset
        <4>4. Cardinality(stack[i].within) \in Nat
          BY <4>3, FS_CardinalityType
        <4>5. Cardinality(stack[i].within) < MaxEntries
          BY <4>2, <4>3, <4>4, CacheAssumption
        <4> QED BY <1>6, <4>5 DEF Safe
      <3>2. /\ stack[i].obj \in Objects /\ Keeps(Cache, stack[i])
            /\ \A j \in 1..n : i < j /\ stack[j].key = stack[i].key
                                 => stack[j].obj \in {NoObject, stack[i].obj}
        BY <1>2, <2>1, <3>1 DEF Stands
      <3>3. stack'[i].obj \in Objects /\ Keeps(Cache, stack'[i])
        BY <1>6, <3>2 DEF Keeps
      <3>4. ASSUME NEW j \in 1..(n + 1), i < j, stack'[j].key = stack'[i].key
            PROVE  stack'[j].obj \in {NoObject, stack'[i].obj}
        <4>1. CASE j \in 1..n
          BY <1>6, <3>2, <3>4, <4>1
        <4>2. CASE j = n + 1
          BY <1>3, <1>5, <4>2
        <4> QED BY <1>9, <4>1, <4>2
      <3> QED BY <3>3, <3>4
    <2> QED BY <2>2, <2>3, <2>4, <2>5 DEF Frame
  <1>11. Frame(n + 1)'
    <2>1. (Holds(stack[n + 1]))'
      BY <1>3, <1>5 DEF Holds
    <2>2. Waits(n + 1)'
      BY <1>3, <1>5 DEF Waits
    <2>3. Inner(n + 1)'
      BY <1>2, <1>5 DEF Inner
    <2>4. Stands(n + 1)'
      BY <1>3, <1>5 DEF Stands, Safe
    <2> QED BY <2>1, <2>2, <2>3, <2>4 DEF Frame
  <1>12. \A i \in DOMAIN stack' : Frame(i)'
    BY <1>5, <1>9, <1>10, <1>11
  <1>13. Freed' /\ Warm'
    BY <1>1, <1>2 DEF Freed, Warm
  <1> QED BY <1>7, <1>8, <1>12, <1>13 DEF WInv

LEMMA BeginStep ==
  ASSUME WInv, NEW k \in Keys, BeginPass(k) PROVE WInv'
  <1> DEFINE g == NewFrame(k, "prepare")
  <1>1. /\ run = "running" /\ stack = <<>> /\ passes < MaxPasses /\ k \notin Helpers
        /\ stack' = <<g>> /\ passes' = passes + 1
        /\ UNCHANGED <<items, older, resident, device, run, cleanup, runs, mixed, raced>>
    BY DEF BeginPass
  <1>2. g \in Frames /\ g.key = k /\ g.obj = NoObject /\ ~g.hit /\ g.at = "prepare"
    BY DEF NewFrame, Frames
  <1> HIDE DEF g
  <1>3. stack' \in Seq(Frames) /\ Len(stack') = 1 /\ DOMAIN stack' = 1..1 /\ stack'[1] = g
    BY <1>1, <1>2
  <1>4. Cache' = Cache
    BY <1>1 DEF Cache
  <1>5. TypeOK' /\ Len(stack') <= MaxDepth
    <2>1. passes' \in 0..MaxPasses
      BY <1>1, CacheAssumption DEF WInv, TypeOK
    <2>2. TypeOK'
      BY <1>1, <1>3, <2>1 DEF WInv, TypeOK
    <2> QED BY <1>3, <2>2, CacheAssumption
  <1>6. \A i \in DOMAIN stack' : Frame(i)'
    <2> SUFFICES Frame(1)'
      BY <1>3
    <2>1. (Holds(stack[1]))' /\ Waits(1)' /\ Inner(1)' /\ Stands(1)'
      BY <1>2, <1>3 DEF Holds, Waits, Inner, Stands, Safe
    <2> QED BY <2>1 DEF Frame
  <1>7. Freed'
    BY <1>1 DEF Freed
  <1>8. Warm'
    <2> SUFFICES ASSUME ~mixed, ~raced
                 PROVE  /\ \A i \in DOMAIN stack' : /\ stack'[i].key \notin Helpers
                                                    /\ stack'[i].obj = NoObject
                        /\ Alone(Cache, InUse')
      BY <1>1, <1>3, <1>4 DEF Warm, Alone
    <2>1. Alone(Cache, InUse) /\ InUse = {}
      BY <1>1 DEF WInv, Warm, InUse
    <2>2. Alone(Cache, InUse')
      BY <2>1 DEF Alone
    <2> QED BY <1>1, <1>2, <1>3, <2>2
  <1> QED BY <1>4, <1>5, <1>6, <1>7, <1>8 DEF WInv

\* The steps that leave cache and passes alone.
LEMMA QuietStep ==
  ASSUME WInv, StartRun \/ Fail \/ EndRun \/ UNCHANGED vars PROVE WInv'
  <1>1. /\ UNCHANGED <<items, older, resident, device, stack, mixed, raced>>
        /\ run' \in {"idle", "running", "failing"} \/ run' = run
    BY DEF StartRun, Fail, EndRun, vars
  <1>2. Cache' = Cache /\ Cached' = Cached /\ InUse' = InUse
    BY <1>1 DEF Cache, Cached, InUse
  <1>3. TypeOK'
    <2>1. runs' \in 0..MaxRuns /\ passes' \in 0..MaxPasses /\ cleanup' \in BOOLEAN
          /\ run' \in {"idle", "running", "failing", "parked"}
      BY CacheAssumption DEF WInv, TypeOK, StartRun, Fail, EndRun, vars
    <2> QED BY <1>1, <2>1 DEF WInv, TypeOK
  <1>4. \A i \in DOMAIN stack' : Frame(i)'
    <2> SUFFICES ASSUME NEW i \in DOMAIN stack PROVE Frame(i)'
      BY <1>1
    <2>1. Frame(i)
      BY DEF WInv
    <2> QED BY <1>1, <1>2, <2>1 DEF Frame, Holds, Waits, Inner, Stands, Safe, Keeps
  <1>5. Freed'
    BY <1>1, <1>2 DEF WInv, Freed
  <1>6. Warm'
    BY <1>1, <1>2 DEF WInv, Warm, Alone
  <1> QED BY <1>1, <1>2, <1>3, <1>4, <1>5, <1>6 DEF WInv

\* After a failure everything is parked, twice.
LEMMA ParkStep ==
  ASSUME WInv, Recover \/ EndFailed \/ CleanupParks PROVE WInv'
  <1> DEFINE c == Park(Cache, {})
  <1>1. /\ Becomes(c) /\ UNCHANGED <<stack, mixed>> /\ raced' \in BOOLEAN
        /\ (stack = <<>> /\ raced' = raced) \/ (stack # <<>> /\ raced')
    <2>1. CASE Recover \/ EndFailed
      BY <2>1 DEF Recover, EndFailed, WInv, TypeOK
    <2>2. CASE CleanupParks
      BY <2>2 DEF CleanupParks, WInv, TypeOK
    <2> QED BY <2>1, <2>2
  <1>2. /\ Fit(Cache) /\ Cache.items = items /\ Cache.device = device
        /\ items \in [Keys -> Objects \cup {NoObject, Absent}]
    BY CacheFacts DEF WInv, TypeOK
  <1>3. /\ Fit(c) /\ c.device \subseteq device
        /\ \A k \in Keys : c.items[k] \in Objects
             => c.items[k] = items[k] /\ c.items[k] \notin c.device
        /\ Alone(Cache, {}) => Alone(c, {})
    BY <1>2, ParkFacts
  <1> HIDE DEF c
  <1>4. /\ Cache' = c /\ items' = c.items /\ device' = c.device
        /\ items' \in [Keys -> Objects \cup {NoObject, Absent}] /\ older' \in SUBSET (Keys \X Keys)
        /\ resident' \in Keys \cup {None} /\ device' \subseteq Objects
    BY <1>1, <1>3, CacheBecomes DEF Fit, Becomes
  <1>5. TypeOK'
    <2>1. run' \in {"idle", "running", "failing", "parked"} /\ cleanup' \in BOOLEAN
          /\ runs' = runs /\ passes' = passes
      BY DEF WInv, TypeOK, Recover, EndFailed, CleanupParks
    <2> QED BY <1>1, <1>4, <2>1 DEF WInv, TypeOK
  <1>6. \A i \in DOMAIN stack' : Frame(i)'
    <2> SUFFICES ASSUME NEW i \in DOMAIN stack PROVE Frame(i)'
      BY <1>1
    <2>1. Frame(i) /\ raced'
      BY <1>1 DEF WInv
    <2> QED BY <1>1, <2>1 DEF Frame, Holds, Waits, Inner, Stands
  <1>7. Freed'
    <2>1. Cached' \cap device' = {}
      BY <1>3, <1>4 DEF Cached
    <2>2. run' = "parked" => stack = <<>>
      BY DEF WInv, Freed, Recover, EndFailed, CleanupParks
    <2> QED BY <1>1, <2>1, <2>2 DEF Freed
  <1>8. Warm'
    <2> SUFFICES ASSUME ~mixed, ~raced' PROVE Warm'
      BY <1>1 DEF Warm
    <2>1. stack = <<>> /\ stack' = <<>> /\ ~raced
      BY <1>1
    <2>2. Alone(Cache, {})
      BY <2>1 DEF WInv, Warm, Alone, InUse
    <2>3. Alone(Cache', {})
      BY <1>3, <1>4, <2>2
    <2> QED BY <2>1, <2>3 DEF Warm, Alone
  <1> QED BY <1>1, <1>3, <1>4, <1>5, <1>6, <1>7, <1>8 DEF WInv

LEMMA NextWInv == WInv /\ [Next]_vars => WInv'
  <1> SUFFICES ASSUME WInv, [Next]_vars PROVE WInv'
    OBVIOUS
  <1>1. CASE StartRun \/ Fail \/ EndRun \/ UNCHANGED vars
    BY <1>1, QuietStep
  <1>2. CASE Prepare
    BY <1>2, PrepareStep
  <1>3. CASE Hit
    BY <1>3, HitStep
  <1>4. CASE Load
    BY <1>4, LoadStep
  <1>5. CASE Infer \/ InferAgain
    BY <1>5, InferStep
  <1>6. CASE Release
    BY <1>6, ReleaseStep
  <1>7. CASE Recover \/ EndFailed \/ CleanupParks
    BY <1>7, ParkStep
  <1>8. ASSUME NEW k \in Keys, BeginPass(k) PROVE WInv'
    BY <1>8, BeginStep
  <1>9. ASSUME NEW k \in Keys, Nest(k) PROVE WInv'
    BY <1>9, NestStep
  <1> QED BY <1>1, <1>2, <1>3, <1>4, <1>5, <1>6, <1>7, <1>8, <1>9 DEF Next

LEMMA CacheInvariant == Spec => []WInv
  BY InitWInv, NextWInv, PTL DEF Spec

----------------------------------------------------------------------------
(* The theorems.                                                            *)

\* Cache, device, passes and counters keep their types (the whole module).
THEOREM CacheIsTyped == Spec => []TypeOK
  <1>1. WInv => TypeOK
    BY DEF WInv
  <1> QED BY <1>1, CacheInvariant, PTL

\* The resident key is that of an entry with a module, after any evictions, reclaims and
\* parks (model_weight_cache.py:184-192, 270-318).
THEOREM ResidentIsCachedHolds == Spec => []ResidentIsCached
  <1>1. WInv => ResidentIsCached
    BY CacheFacts, Markers DEF WInv, Fit, Resides, ResidentIsCached, Held
  <1> QED BY <1>1, CacheInvariant, PTL

\* As long as passes do not nest, the resident module is on the device, and it is the only
\* one there that no pass uses (model_weight_cache.py:122-128, 310-318).
THEOREM OneModuleWarmHolds == Spec => []OneModuleWarm
  <1>1. ASSUME WInv PROVE OneModuleWarm
    <2> SUFFICES ASSUME ~mixed, ~raced
                 PROVE  /\ resident # None => Held(items, resident) \in device
                        /\ \A o \in Modules \cap device : o \in InUse \/ o[1] = resident
      BY DEF OneModuleWarm
    <2>1. Alone(Cache, InUse) /\ Own(Cache) /\ Resides(Cache)
      BY <1>1 DEF WInv, Warm, Fit
    <2>2. Cache.items = items /\ Cache.resident = resident /\ Cache.device = device
      BY <1>1, CacheFacts
    <2>3. resident # None => Held(items, resident) \in device
      BY <2>1, <2>2, Markers DEF Alone, Resides, Held
    <2>4. ASSUME NEW o \in Modules \cap device PROVE o \in InUse \/ o[1] = resident
      <3>1. PICK k \in Keys : o = items[k] /\ o \in Objects
        BY DEF Modules, Cached
      <3>2. o[1] = k /\ k \notin Ort
        BY <2>1, <2>2, <3>1 DEF Own, Modules
      <3> QED BY <2>1, <2>2, <2>4, <3>1, <3>2 DEF Alone
    <2> QED BY <2>3, <2>4
  <1> QED BY <1>1, CacheInvariant, PTL

\* A run that ended in a failure leaves nothing that is cached on the device, whatever its
\* passes and helpers had put there (run_loop.py:290-302, inference_cleanup.py:150-155).
THEOREM FailureFreesDeviceHolds == Spec => []FailureFreesDevice
  <1>1. WInv => FailureFreesDevice
    BY DEF WInv, Freed, FailureFreesDevice
  <1> QED BY <1>1, CacheInvariant, PTL

\* A pass that took its model from the cache finds it there as long as passes for fewer than
\* MaxEntries keys ran within it, however deep they nest (model_weight_cache.py:138-145, 184-192).
THEOREM HitSurvivesHolds == Spec => []HitSurvives
  <1>1. ASSUME WInv PROVE HitSurvives
    <2> SUFFICES ASSUME ~raced, NEW i \in DOMAIN stack, Safe(stack[i])
                 PROVE  Held(items, stack[i].key) = stack[i].obj
      BY DEF HitSurvives, Safe
    <2>1. Stands(i)
      BY <1>1 DEF WInv, Frame
    <2>2. stack[i].obj \in Objects /\ items[stack[i].key] = stack[i].obj
      BY <1>1, <2>1, CacheFacts DEF Stands, Keeps
    <2> QED BY <2>2, Markers DEF Held
  <1> QED BY <1>1, CacheInvariant, PTL
=============================================================================
