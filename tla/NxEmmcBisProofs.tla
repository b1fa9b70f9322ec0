-------------------------- MODULE NxEmmcBisProofs --------------------------
(***************************************************************************)
(* Proofs about NxEmmcBis, for any number and size of clusters and any     *)
(* capacity of the cache: the cache is sound, direct writes reach the      *)
(* medium, and reads are current with the cache and without it.            *)
(***************************************************************************)
EXTENDS NxEmmcBis, FiniteSetTheorems, TLAPS

Entry == [idx : Clusters, dirty : BOOLEAN, data : [Offsets -> Values \cup {Garbage}]]
Request_ == [kind : {"read", "write"}, sector : AllSectors, count : 1 .. MaxCount, val : Values]

----------------------------------------------------------------------------
(* Sectors, clusters and positions.                                        *)

LEMMA SectorParts ==
  ASSUME NEW s \in AllSectors
  PROVE  Cluster(s) \in Clusters /\ Position(s) \in Offsets /\ s = Cluster(s) * Sectors + Position(s)
<1> USE BisSizes
<1>0. NumClusters * Sectors \in Nat
  OBVIOUS
<1>1. s \in Nat /\ s < NumClusters * Sectors
  BY <1>0 DEF AllSectors
<1>2. (s \div Sectors) * Sectors <= s
  BY <1>1
<1>3. s < (s \div Sectors) * Sectors + Sectors
  BY <1>1
<1>4. s \div Sectors \in Int
  BY <1>1
<1> DEFINE q == s \div Sectors
<1>5. s % Sectors = s - q * Sectors
  BY <1>1, <1>2, <1>3, <1>4
<1> HIDE DEF q
<1>6. q \in Int /\ q * Sectors <= s /\ s < q * Sectors + Sectors /\ q * Sectors \in Int
  BY <1>2, <1>3, <1>4 DEF q
<1>7. q >= 0
  BY <1>1, <1>6
<1>8. q < NumClusters
  BY <1>1, <1>6, <1>7
<1>9. Cluster(s) = q /\ Position(s) = s - q * Sectors
  BY <1>5 DEF Cluster, Position, q
<1> QED BY <1>1, <1>6, <1>7, <1>8, <1>9 DEF Clusters, Offsets

LEMMA SectorOf ==
  ASSUME NEW c \in Clusters, NEW o \in Offsets
  PROVE  /\ c * Sectors + o \in AllSectors
         /\ Cluster(c * Sectors + o) = c /\ Position(c * Sectors + o) = o
<1> USE BisSizes
<1>1. c \in Nat /\ c < NumClusters /\ o \in Nat /\ o < Sectors
  BY DEF Clusters, Offsets
<1>2. (c * Sectors + o) \div Sectors = c /\ (c * Sectors + o) % Sectors = o
  BY <1>1
<1>3. c * Sectors + Sectors <= NumClusters * Sectors
  BY <1>1
<1>4. c * Sectors \in Nat /\ NumClusters * Sectors \in Nat
  BY <1>1
<1> QED BY <1>1, <1>2, <1>3, <1>4 DEF Cluster, Position, AllSectors

\* The sectors of a block lie in one cluster, at consecutive positions.
LEMMA SectorAfter ==
  ASSUME NEW s \in AllSectors, NEW k \in 0 .. Sectors - 1 - Position(s)
  PROVE  /\ s + k \in AllSectors
         /\ Cluster(s + k) = Cluster(s) /\ Position(s + k) = Position(s) + k
<1>1. Cluster(s) \in Clusters /\ Position(s) \in Offsets /\ s = Cluster(s) * Sectors + Position(s)
  BY SectorParts
<1> DEFINE c == Cluster(s)
           o == Position(s)
<1> HIDE DEF c, o
<1>2. c \in Clusters /\ o \in Offsets /\ s = c * Sectors + o /\ c * Sectors \in Int
  BY <1>1, BisSizes DEF c, o, Clusters
<1>3. o + k \in Offsets
  BY <1>2, BisSizes DEF Offsets, o
<1>4. s + k = c * Sectors + (o + k)
  BY <1>2, <1>3 DEF Offsets
<1> QED BY <1>2, <1>3, <1>4, SectorOf DEF c, o

----------------------------------------------------------------------------
(* The invariant: what the run checks, and two facts it rests on.          *)

\* A request never runs past the partition.
OpInRange == op # Idle => op \in Request_ /\ op.sector + op.count <= NumClusters * Sectors

\* Every filled entry is the one the table names for its cluster, so the entries
\* are never more than the clusters.
Filled == \A i \in Entries : i < cache.top_idx => lookup[clusters[i].idx] = i

BisInv == CacheSound /\ OpInRange /\ Filled

\* The block at hand.
LEMMA BlockOK ==
  ASSUME OpInRange, op # Idle
  PROVE  /\ BlockLen \in 1 .. op.count /\ BlockLen <= Sectors - Position(op.sector)
         /\ Cluster(op.sector) \in Clusters /\ Position(op.sector) \in Offsets
         /\ \A s \in BlockSectors : /\ s \in AllSectors /\ Cluster(s) = Cluster(op.sector)
                                    /\ Position(s) = Position(op.sector) + s - op.sector
<1> USE BisSizes
<1>1. op.sector \in AllSectors /\ op.count \in Nat \ {0}
  BY DEF OpInRange, Request_
<1>2. /\ Cluster(op.sector) \in Clusters /\ Position(op.sector) \in Offsets
      /\ op.sector \in Nat
  BY <1>1, SectorParts DEF AllSectors
<1>3. BlockLen \in 1 .. op.count /\ BlockLen <= Sectors - Position(op.sector)
  BY <1>1, <1>2 DEF BlockLen, Offsets
<1>4. ASSUME NEW s \in BlockSectors
      PROVE  /\ s \in AllSectors /\ Cluster(s) = Cluster(op.sector)
             /\ Position(s) = Position(op.sector) + s - op.sector
  <2>1. s \in op.sector .. op.sector + BlockLen - 1
    BY <1>4 DEF BlockSectors
  <2>2. s - op.sector \in 0 .. Sectors - 1 - Position(op.sector)
    BY <1>2, <1>3, <2>1 DEF Offsets
  <2>3. s = op.sector + (s - op.sector)
    BY <1>2, <2>1, <1>3
  <2>4. Position(op.sector) + (s - op.sector) = Position(op.sector) + s - op.sector
    BY <1>2, <2>1, <1>3 DEF Offsets
  <2> QED BY <1>1, <2>2, <2>3, <2>4, SectorAfter
<1> QED BY <1>2, <1>3, <1>4

LEMMA AdvanceOK ==
  ASSUME OpInRange, op # Idle, Advance
  PROVE  OpInRange' /\ (op' = Idle \/ op' \in Request_)
<1> USE BisSizes
<1>1. /\ op \in Request_ /\ op.sector + op.count <= NumClusters * Sectors
      /\ BlockLen \in 1 .. op.count /\ NumClusters * Sectors \in Nat
  BY BlockOK DEF OpInRange
<1>2. CASE op.count = BlockLen
  BY <1>2 DEF Advance, OpInRange
<1>3. CASE op.count # BlockLen
  <2>1. op' = [op EXCEPT !.sector = op.sector + BlockLen, !.count = op.count - BlockLen]
    BY <1>3, <1>1 DEF Advance, Request_
  <2>2. op.sector \in Nat /\ op.count \in 1 .. MaxCount
    BY <1>1 DEF Request_, AllSectors
  <2>3. op.sector + BlockLen \in AllSectors /\ op.count - BlockLen \in 1 .. MaxCount
        /\ op.sector + BlockLen + (op.count - BlockLen) <= NumClusters * Sectors
    BY <1>1, <1>3, <2>2 DEF AllSectors
  <2>4. op' \in Request_
    BY <1>1, <2>1, <2>3 DEF Request_
  <2>5. op'.sector = op.sector + BlockLen /\ op'.count = op.count - BlockLen
    BY <1>1, <2>1 DEF Request_
  <2> QED BY <2>3, <2>4, <2>5 DEF OpInRange, Request_, AllSectors
<1> QED BY <1>2, <1>3

----------------------------------------------------------------------------
(* The cache as a value: a table, its entries and how many are filled.     *)

Agree(tbl, ent, top) ==
    /\ \A c \in Clusters : tbl[c] # EMPTY => tbl[c] < top /\ ent[tbl[c]].idx = c
    /\ \A i \in Entries : i < top => tbl[ent[i].idx] = i

DirtyOf(ent, top) == {i \in Entries : i < top /\ ent[i].dirty}

LEMMA EntriesFinite == \A S \in SUBSET Entries : IsFiniteSet(S) /\ Cardinality(S) \in Nat
<1>1. IsFiniteSet(Entries)
  BY BisSizes, FS_Interval DEF Entries
<1> QED BY <1>1, FS_Subset, FS_CardinalityType

\* With a cluster that is not cached, not every entry is taken.
LEMMA RoomLeft ==
  ASSUME NEW tbl \in [Clusters -> Entries \cup {EMPTY}], NEW ent \in [Entries -> Entry],
         NEW top \in Entries, Agree(tbl, ent, top), NEW c \in Clusters, tbl[c] = EMPTY
  PROVE  top < NumClusters
<1> USE BisSizes
<1> SUFFICES ASSUME top >= NumClusters PROVE FALSE
  BY DEF Entries
<1>1. top = NumClusters
  BY DEF Entries
<1> DEFINE S == 0 .. NumClusters - 1
           T == Clusters \ {c}
           f == [i \in S |-> ent[i].idx]
<1>2. IsFiniteSet(S) /\ Cardinality(S) = NumClusters
  BY FS_Interval
<1>3. IsFiniteSet(T) /\ Cardinality(T) = NumClusters - 1
  <2>1. IsFiniteSet(Clusters) /\ Cardinality(Clusters) = NumClusters
    BY FS_Interval DEF Clusters
  <2> QED BY <2>1, FS_RemoveElement
<1>4. \A i \in S : i \in Entries /\ i < top /\ i # EMPTY
  BY <1>1 DEF Entries, EMPTY
<1>5. \A i \in S : tbl[ent[i].idx] = i
  BY <1>4 DEF Agree
<1>6. f \in [S -> T]
  BY <1>4, <1>5 DEF Entry
<1>7. Cardinality(T) < Cardinality(S)
  BY <1>2, <1>3
<1> HIDE DEF S, T, f
<1>8. PICK x \in S, y \in S : x # y /\ f[x] = f[y]
  BY <1>2, <1>3, <1>6, <1>7, FS_PigeonHole
<1>9. ent[x].idx = ent[y].idx
  BY <1>8 DEF f
<1> QED BY <1>5, <1>8, <1>9

\* Entering a cluster in the table.
LEMMA EnterOK ==
  ASSUME NEW tbl \in [Clusters -> Entries \cup {EMPTY}], NEW ent \in [Entries -> Entry],
         NEW top \in Entries, Agree(tbl, ent, top), NEW c \in Clusters, tbl[c] = EMPTY,
         NEW new \in Entry, new.idx = c, ~new.dirty,
         NEW tbl2 \in [Clusters -> Entries \cup {EMPTY}], NEW ent2 \in [Entries -> Entry],
         tbl2[c] = top, \A x \in Clusters : x # c => tbl2[x] = tbl[x],
         ent2[top] = new, \A i \in Entries : i # top => ent2[i] = ent[i]
  PROVE  /\ top + 1 \in Entries
         /\ Agree(tbl2, ent2, top + 1)
         /\ DirtyOf(ent2, top + 1) = DirtyOf(ent, top)
<1>1. new \in Entry /\ new.idx = c /\ ~new.dirty
  OBVIOUS
<1>2. top \in 0 .. NumClusters - 1
  BY BisSizes, RoomLeft DEF Entries
<1>3. top + 1 \in Entries /\ top # EMPTY
  BY BisSizes, <1>2 DEF Entries, EMPTY
<1>5. ent2[top] = new /\ \A i \in Entries : i # top => ent2[i] = ent[i]
  OBVIOUS
<1>6. tbl2[c] = top /\ \A x \in Clusters : x # c => tbl2[x] = tbl[x]
  OBVIOUS
<1>7. ASSUME NEW i \in Entries PROVE i < top + 1 <=> i < top \/ i = top
  BY <1>2, BisSizes DEF Entries
<1>8. ASSUME NEW x \in Clusters, tbl2[x] # EMPTY
      PROVE  tbl2[x] < top + 1 /\ ent2[tbl2[x]].idx = x
  <2>1. CASE x = c
    BY <1>1, <1>2, <1>5, <1>6, <2>1
  <2>2. CASE x # c
    <3>1. tbl2[x] = tbl[x] /\ tbl[x] \in Entries /\ tbl[x] < top /\ ent[tbl[x]].idx = x
      BY <1>6, <1>8, <2>2 DEF Agree
    <3>2. tbl[x] # top
      BY <1>2, <3>1, BisSizes DEF Entries
    <3> QED BY <1>5, <1>7, <3>1, <3>2
  <2> QED BY <2>1, <2>2
<1>9. ASSUME NEW i \in Entries, i < top + 1 PROVE tbl2[ent2[i].idx] = i
  <2>1. CASE i = top
    BY <1>1, <1>5, <1>6, <2>1
  <2>2. CASE i # top
    <3>1. i < top /\ ent2[i] = ent[i]
      BY <1>5, <1>7, <1>9, <2>2
    <3>2. tbl[ent[i].idx] = i /\ ent[i].idx \in Clusters /\ i # EMPTY
      BY <3>1 DEF Agree, Entry, Entries, EMPTY
    <3>3. ent[i].idx # c
      BY <3>2
    <3> QED BY <1>6, <3>1, <3>2, <3>3
  <2> QED BY <2>1, <2>2
<1>10. DirtyOf(ent2, top + 1) = DirtyOf(ent, top)
  <2>1. \A i \in Entries : (i < top + 1 /\ ent2[i].dirty) <=> (i < top /\ ent[i].dirty)
    <3> TAKE i \in Entries
    <3>1. CASE i = top
      BY <1>1, <1>2, <1>5, <3>1
    <3>2. CASE i # top
      BY <1>5, <1>7, <3>2
    <3> QED BY <3>1, <3>2
  <2> QED BY <2>1 DEF DirtyOf
<1>11. Agree(tbl2, ent2, top + 1)
  BY <1>8, <1>9 DEF Agree
<1> QED BY <1>3, <1>10, <1>11

----------------------------------------------------------------------------
(* The medium.                                                             *)

Store_ == [Media -> [Parts -> [AllSectors -> Cipher_]]]

LEMMA DecryptType ==
  ASSUME NEW p, NEW t, NEW c \in Cipher_
  PROVE  Decrypt(p, t, c) \in Values \cup {Garbage}
  BY DEF Decrypt, Cipher_

LEMMA CipherType ==
  ASSUME NEW p \in Parts, NEW s \in AllSectors, NEW v \in Values \cup {Garbage}
  PROVE  Cipher(p, s, v) \in Cipher_
  BY SectorParts DEF Cipher, Cipher_

\* A flush stores well-formed sectors.
LEMMA WriteBackOK ==
  ASSUME TypeOK, system_part \in Parts, NEW W \in SUBSET Entries
  PROVE  WriteBack(W) \in Store_
<1> DEFINE new == [s \in AllSectors |->
            IF \E e \in W : clusters[e].idx = Cluster(s)
              THEN LET e == CHOOSE x \in W : clusters[x].idx = Cluster(s)
                   IN  Cipher(system_part, s, clusters[e].data[Position(s)])
              ELSE store[medium][system_part][s]]
<1>1. store \in Store_ /\ medium \in Media
  BY DEF TypeOK, Store_
<1>2. clusters \in [Entries -> Entry]
  BY DEF TypeOK, Entry
<1>3. ASSUME NEW s \in AllSectors PROVE new[s] \in Cipher_
  <2>1. CASE \E e \in W : clusters[e].idx = Cluster(s)
    <3> DEFINE e == CHOOSE x \in W : clusters[x].idx = Cluster(s)
    <3>1. e \in Entries
      BY <2>1
    <3>2. clusters[e].data[Position(s)] \in Values \cup {Garbage}
      BY <1>2, <3>1, SectorParts DEF Entry
    <3>3. Cipher(system_part, s, clusters[e].data[Position(s)]) \in Cipher_
      BY <3>2, CipherType
    <3> QED BY <2>1, <3>3
  <2>2. CASE ~\E e \in W : clusters[e].idx = Cluster(s)
    BY <1>1, <2>2 DEF Store_
  <2> QED BY <2>1, <2>2
<1>4. new \in [AllSectors -> Cipher_]
  BY <1>3
<1>5. WriteBack(W) = [store EXCEPT ![medium][system_part] = new]
  BY DEF WriteBack
<1> HIDE DEF new
<1> QED BY <1>1, <1>4, <1>5 DEF Store_

\* A block written through changes its own sectors, and each of them to what
\* decrypts to the value written.
LEMMA EncryptedOK ==
  ASSUME TypeOK, OpInRange, op # Idle, system_part \in Parts, NEW n \in 0 .. BlockLen
  PROVE  /\ Encrypted(n) \in Store_
         /\ \A m \in Media, p \in Parts, s \in AllSectors :
              Encrypted(n)[m][p][s] =
                IF m = medium /\ p = system_part /\ s \in op.sector .. op.sector + n - 1
                  THEN Cipher(p, s, op.val) ELSE store[m][p][s]
         /\ op.sector .. op.sector + n - 1 \subseteq BlockSectors
<1> DEFINE new == [s \in AllSectors |->
            IF s \in op.sector .. op.sector + n - 1
              THEN [ks |-> system_part, cl |-> Cluster(op.sector),
                    pos |-> Position(op.sector) + s - op.sector, val |-> op.val]
              ELSE store[medium][system_part][s]]
<1>1. store \in Store_ /\ medium \in Media
  BY DEF TypeOK, Store_
<1>2. op.val \in Values /\ op.sector \in Nat /\ BlockLen \in Nat
  BY BlockOK DEF OpInRange, Request_, AllSectors
<1>3. op.sector .. op.sector + n - 1 \subseteq BlockSectors
  BY <1>2 DEF BlockSectors
<1>4. \A s \in BlockSectors : /\ s \in AllSectors /\ Cluster(s) = Cluster(op.sector)
                               /\ Position(s) = Position(op.sector) + s - op.sector
  BY BlockOK
<1>5. ASSUME NEW s \in AllSectors
      PROVE  new[s] = IF s \in op.sector .. op.sector + n - 1
                        THEN Cipher(system_part, s, op.val) ELSE store[medium][system_part][s]
  BY <1>3, <1>4 DEF Cipher
<1>6. \A s \in AllSectors : Cipher(system_part, s, op.val) \in Cipher_
  BY <1>2, CipherType
<1>7. \A s \in AllSectors : store[medium][system_part][s] \in Cipher_
  BY <1>1 DEF Store_
<1>8. \A s \in AllSectors : new[s] \in Cipher_
  BY <1>5, <1>6, <1>7
<1>9. new \in [AllSectors -> Cipher_]
  BY <1>8
<1>10. Encrypted(n) = [store EXCEPT ![medium][system_part] = new]
  BY <1>1 DEF Encrypted, Store_
<1> HIDE DEF new
<1>11. Encrypted(n) \in Store_
  BY <1>1, <1>9, <1>10 DEF Store_
<1>12. \A m \in Media, p \in Parts, s \in AllSectors :
         Encrypted(n)[m][p][s] = IF m = medium /\ p = system_part THEN new[s] ELSE store[m][p][s]
  BY <1>1, <1>10 DEF Store_
<1> QED BY <1>3, <1>5, <1>11, <1>12

----------------------------------------------------------------------------
(* The steps.                                                              *)

\* The cache is as the driver leaves it: Agree, seen from the invariants.
LEMMA AgreeNow == TypeOK => (Agree(lookup, clusters, cache.top_idx) <=> LookupSound /\ Filled)
  BY DEF Agree, LookupSound, Filled

LEMMA AgreeEmpty == \A ent : Agree(EmptyLookup, ent, 0) /\ DirtyOf(ent, 0) = {}
  BY BisSizes DEF Agree, EmptyLookup, DirtyOf, Entries

\* After _nx_emmc_bis_cluster_cache_init nothing is cached.
LEMMA EmptiedOK ==
  ASSUME cache'.top_idx = 0, cache'.dirty_cnt = 0, lookup' = EmptyLookup
  PROVE  LookupSound' /\ DirtyCountExact' /\ CleanMatchesMedium' /\ Filled'
<1>1. LookupSound' /\ CleanMatchesMedium'
  BY DEF LookupSound, CleanMatchesMedium, EmptyLookup
<1>2. Filled'
  BY BisSizes DEF Filled, Entries
<1>3. {i \in Entries : i < cache'.top_idx /\ clusters'[i].dirty} = {}
  BY BisSizes DEF Entries
<1> QED BY <1>1, <1>2, <1>3, FS_EmptySet DEF DirtyCountExact

\* A step that leaves the cache and the medium alone.
LEMMA UntouchedOK ==
  ASSUME BisInv, UNCHANGED <<medium, cacheVars, store>>, system_part' \in {system_part, NoPart},
         OpInRange'
  PROVE  BisInv'
<1> USE DEF BisInv, CacheSound, cacheVars
<1>1. TypeOK'
  BY DEF TypeOK, OpInRange, Request_, AllSectors, Clusters, Entries, Offsets, Cipher_
<1>2. LookupSound' /\ Filled'
  BY DEF LookupSound, Filled
<1>3. DirtyCountExact'
  BY DEF DirtyCountExact
<1>4. CleanMatchesMedium'
  BY DEF CleanMatchesMedium, Plain, Decrypt
<1> QED BY <1>1, <1>2, <1>3, <1>4

LEMMA BisInvInit == Init => BisInv
<1> SUFFICES ASSUME Init PROVE BisInv
  OBVIOUS
<1> USE BisSizes, BisValues DEF Init
<1>1. TypeOK
  <2>1. clusters \in [Entries -> Entry] /\ lookup \in [Clusters -> Entries \cup {EMPTY}]
    BY DEF Entry, Clusters
  <2>2. \A p \in Parts, s \in AllSectors : Cipher(p, s, Blank) \in Cipher_
    BY CipherType
  <2>3. store \in Store_
    BY <2>2 DEF Store_
  <2>4. cache \in [enabled : BOOLEAN, dirty_cnt : 0 .. U32Max, top_idx : Entries]
    BY DEF Entries
  <2> QED BY <2>1, <2>3, <2>4 DEF TypeOK, Entry, Store_
<1>2. LookupSound /\ CleanMatchesMedium
  BY DEF LookupSound, CleanMatchesMedium
<1>3. Filled /\ OpInRange
  BY DEF Filled, OpInRange, Entries
<1>4. {i \in Entries : i < cache.top_idx /\ clusters[i].dirty} = {}
  BY DEF Entries
<1>5. DirtyCountExact
  BY <1>4, FS_EmptySet DEF DirtyCountExact
<1> QED BY <1>1, <1>2, <1>3, <1>5 DEF BisInv, CacheSound

LEMMA MarkedOK ==
  ASSUME NEW r \in Entry, NEW b
  PROVE  [r EXCEPT !.dirty = @ /\ b] \in Entry
<1>1. (r.dirty /\ b) \in BOOLEAN
  OBVIOUS
<1> QED BY <1>1 DEF Entry

\* nx_emmc_bis_init and nx_emmc_bis_end.
LEMMA InitOK ==
  ASSUME BisInv, NEW p \in Parts \cup {OtherPart}, NEW e \in CacheModes, NEW m \in Media,
         nx_emmc_bis_init(p, e, m)
  PROVE  BisInv'
<1> USE BisValues, BisSizes DEF BisInv, CacheSound
<1>1. /\ medium' = m /\ cache' = EmptyCache(e) /\ lookup' = EmptyLookup
      /\ system_part' \in Parts \cup {NoPart} /\ UNCHANGED <<clusters, store, op>>
  BY DEF nx_emmc_bis_init
<1>2. LookupSound' /\ DirtyCountExact' /\ CleanMatchesMedium' /\ Filled'
  BY <1>1, EmptiedOK DEF EmptyCache
<1>3. cache' \in [enabled : BOOLEAN, dirty_cnt : 0 .. U32Max, top_idx : Entries]
  BY <1>1 DEF EmptyCache, Entries
<1>4. lookup' \in [Clusters -> Entries \cup {EMPTY}]
  BY <1>1 DEF EmptyLookup
<1>5. TypeOK'
  BY <1>1, <1>3, <1>4 DEF TypeOK, AllSectors, Clusters, Entries, Offsets, Cipher_
<1>6. OpInRange'
  BY <1>1 DEF OpInRange, Request_, AllSectors
<1> QED BY <1>2, <1>5, <1>6

LEMMA EndOK ==
  ASSUME BisInv, FlushHasPart, nx_emmc_bis_end
  PROVE  BisInv'
<1> USE BisValues, BisSizes DEF BisInv, CacheSound
<1>0. op = Idle /\ system_part' = NoPart /\ UNCHANGED <<medium, op>> /\ OpInRange'
  BY DEF nx_emmc_bis_end, OpInRange
<1>1. CASE ~FlushNeeded
  <2>1. UNCHANGED <<cacheVars, store>>
    BY <1>1 DEF nx_emmc_bis_end
  <2> QED BY <1>0, <2>1, UntouchedOK
<1>2. CASE FlushNeeded
  <2>1. PICK failing \in FailingWrites :
          /\ store' = WriteBack(Flushed(failing))
          /\ clusters' = [i \in Entries |->
                 [clusters[i] EXCEPT !.dirty = @ /\ i \notin Flushed(failing)]]
          /\ cache' = EmptyCache(TRUE) /\ lookup' = EmptyLookup
    BY <1>2 DEF nx_emmc_bis_end
  <2>2. system_part \in Parts
    BY <1>2 DEF FlushHasPart, TypeOK
  <2>3. Flushed(failing) \in SUBSET Entries
    BY DEF Flushed
  <2>4. store' \in Store_
    BY <2>1, <2>2, <2>3, WriteBackOK
  <2>5. clusters' \in [Entries -> Entry]
    <3> DEFINE W == Flushed(failing)
    <3>1. clusters \in [Entries -> Entry]
      BY DEF TypeOK, Entry
    <3> HIDE DEF W
    <3>2. \A i \in Entries : [clusters[i] EXCEPT !.dirty = @ /\ i \notin W] \in Entry
      BY <3>1, MarkedOK
    <3> QED BY <2>1, <3>2 DEF W
  <2>6. LookupSound' /\ DirtyCountExact' /\ CleanMatchesMedium' /\ Filled'
    BY <2>1, EmptiedOK DEF EmptyCache
  <2>7. cache' \in [enabled : BOOLEAN, dirty_cnt : 0 .. U32Max, top_idx : Entries]
    BY <2>1 DEF EmptyCache, Entries
  <2>8. lookup' \in [Clusters -> Entries \cup {EMPTY}]
    BY <2>1 DEF EmptyLookup
  <2>9. TypeOK'
    BY <1>0, <2>4, <2>5, <2>7, <2>8 DEF TypeOK, Store_, Entry, AllSectors, Clusters, Entries, Offsets, Cipher_
  <2> QED BY <1>0, <2>6, <2>9
<1> QED BY <1>1, <1>2

\* dirty_cnt cannot wrap: there are never more dirty entries than clusters.
LEMMA DirtyBound ==
  ASSUME NEW ent, NEW top \in Entries
  PROVE  IsFiniteSet(DirtyOf(ent, top)) /\ Cardinality(DirtyOf(ent, top)) \in 0 .. U32Max
<1> USE BisSizes
<1>1. DirtyOf(ent, top) \in SUBSET (0 .. top - 1)
  BY DEF DirtyOf, Entries
<1>2. IsFiniteSet(0 .. top - 1) /\ Cardinality(0 .. top - 1) = top
  BY FS_Interval DEF Entries
<1> DEFINE D == DirtyOf(ent, top)
<1> HIDE DEF D
<1>3. IsFiniteSet(D) /\ Cardinality(D) <= top
  BY <1>1, <1>2, FS_Subset DEF D
<1>4. Cardinality(D) \in Nat
  BY <1>3, FS_CardinalityType
<1> QED BY <1>3, <1>4 DEF D, Entries

LEMMA WriteHitOK ==
  ASSUME BisInv, WriteHit
  PROVE  BisInv'
<1> USE BisValues, BisSizes DEF BisInv, CacheSound
<1> DEFINE e == lookup[Cluster(op.sector)]
           top == cache.top_idx
<1>0. op # Idle /\ op.kind = "write"
  BY DEF WriteHit, Idle
<1>1. /\ e # EMPTY /\ system_part # NoPart
      /\ clusters' = [clusters EXCEPT ![e] = Modified(e)]
      /\ cache' = [cache EXCEPT !.dirty_cnt = CountDirty(e)]
      /\ Advance /\ UNCHANGED <<system_part, medium, lookup, store>>
  BY DEF WriteHit
<1>2. /\ Cluster(op.sector) \in Clusters /\ op.val \in Values
      /\ clusters \in [Entries -> Entry] /\ top \in Entries
      /\ cache \in [enabled : BOOLEAN, dirty_cnt : 0 .. U32Max, top_idx : Entries]
      /\ lookup \in [Clusters -> Entries \cup {EMPTY}]
  BY <1>0, BlockOK DEF OpInRange, Request_, TypeOK, Entry
<1>3. e \in Entries /\ e < top
  BY <1>1, <1>2 DEF LookupSound
<1> HIDE DEF e, top
<1>4. Modified(e) \in Entry /\ Modified(e).idx = clusters[e].idx /\ Modified(e).dirty
  <2> DEFINE d == [o \in Offsets |-> IF Cluster(op.sector) * Sectors + o \in BlockSectors
                                       THEN op.val ELSE clusters[e].data[o]]
  <2>1. clusters[e] \in Entry
    BY <1>2, <1>3
  <2>2. d \in [Offsets -> Values \cup {Garbage}]
    BY <1>2, <2>1 DEF Entry
  <2>3. Modified(e) = [clusters[e] EXCEPT !.data = d, !.dirty = TRUE]
    BY <2>1 DEF Modified, Entry
  <2> HIDE DEF d
  <2> QED BY <2>1, <2>2, <2>3 DEF Entry
<1>5. /\ clusters' \in [Entries -> Entry] /\ clusters'[e].dirty
      /\ \A i \in Entries : clusters'[i].idx = clusters[i].idx
      /\ \A i \in Entries : i # e => clusters'[i] = clusters[i]
  BY <1>1, <1>2, <1>3, <1>4
<1>6. DirtyOf(clusters', top) = DirtyOf(clusters, top) \cup {e}
  BY <1>3, <1>5 DEF DirtyOf
<1>7. /\ cache'.top_idx = top /\ cache'.dirty_cnt = CountDirty(e)
      /\ cache'.enabled = cache.enabled
  BY <1>1, <1>2 DEF top
<1>8. cache.dirty_cnt = Cardinality(DirtyOf(clusters, top))
  BY DEF DirtyCountExact, DirtyOf, top
<1>9. e \in DirtyOf(clusters, top) <=> clusters[e].dirty
  BY <1>3 DEF DirtyOf
<1>10. CountDirty(e) = Cardinality(DirtyOf(clusters', top))
  <2>1. IsFiniteSet(DirtyOf(clusters, top))
    BY <1>2, DirtyBound
  <2> DEFINE D == DirtyOf(clusters, top)
  <2> HIDE DEF D
  <2>2. Cardinality(D \cup {e}) = IF e \in D THEN Cardinality(D) ELSE Cardinality(D) + 1
    BY <2>1, FS_AddElement DEF D
  <2> QED BY <1>6, <1>8, <1>9, <2>2 DEF CountDirty, D
<1>11. DirtyCountExact'
  BY <1>7, <1>10 DEF DirtyCountExact, DirtyOf
<1>12. CountDirty(e) \in 0 .. U32Max
  BY <1>2, <1>10, DirtyBound
<1>13. cache' \in [enabled : BOOLEAN, dirty_cnt : 0 .. U32Max, top_idx : Entries]
  BY <1>1, <1>2, <1>12
<1>14. OpInRange' /\ (op' = Idle \/ op' \in Request_)
  BY <1>0, <1>1, AdvanceOK
<1>15. TypeOK'
  BY <1>1, <1>5, <1>13, <1>14 DEF TypeOK, Request_, Entry, AllSectors, Clusters, Entries, Offsets, Cipher_
<1>16. LookupSound'
  BY <1>1, <1>2, <1>5, <1>7 DEF LookupSound, top
<1>17. Filled'
  BY <1>1, <1>5, <1>7 DEF Filled, top
<1>18. CleanMatchesMedium'
  <2> SUFFICES ASSUME NEW c \in Clusters, lookup[c] # EMPTY, ~clusters'[lookup[c]].dirty,
                      NEW o \in Offsets
               PROVE  clusters'[lookup[c]].data[o] = Plain(medium, system_part, c * Sectors + o)'
    BY <1>1 DEF CleanMatchesMedium
  <2>1. lookup[c] \in Entries /\ lookup[c] # e
    BY <1>2, <1>5
  <2>2. clusters'[lookup[c]] = clusters[lookup[c]]
    BY <1>5, <2>1
  <2>3. clusters[lookup[c]].data[o] = Plain(medium, system_part, c * Sectors + o)
    BY <1>1, <2>2 DEF CleanMatchesMedium
  <2> QED BY <1>1, <2>2, <2>3 DEF Plain, Decrypt
<1> QED BY <1>11, <1>14, <1>15, <1>16, <1>17, <1>18

LEMMA WriteThroughOK ==
  ASSUME BisInv, WriteThrough
  PROVE  BisInv'
<1> USE BisValues, BisSizes DEF BisInv, CacheSound
<1>0. op # Idle
  BY DEF WriteThrough, Idle
<1>1. /\ system_part # NoPart /\ lookup[Cluster(op.sector)] = EMPTY
      /\ UNCHANGED <<system_part, medium, cache, clusters, lookup>>
  BY DEF WriteThrough, cacheVars
<1>2. system_part \in Parts
  BY <1>1 DEF TypeOK
<1>3. BlockLen \in Nat
  BY <1>0, BlockOK DEF OpInRange, Request_
<1>4. PICK n \in 0 .. BlockLen : store' = Encrypted(n)
  BY <1>3 DEF WriteThrough
<1>5. /\ store' \in Store_
      /\ \A m \in Media, p \in Parts, s \in AllSectors :
              store'[m][p][s] =
                IF m = medium /\ p = system_part /\ s \in op.sector .. op.sector + n - 1
                  THEN Cipher(p, s, op.val) ELSE store[m][p][s]
      /\ op.sector .. op.sector + n - 1 \subseteq BlockSectors
  BY <1>0, <1>2, <1>4, EncryptedOK
<1>6. Advance \/ op' = Idle
  BY DEF WriteThrough, Fail
<1>7. OpInRange' /\ (op' = Idle \/ op' \in Request_)
  <2>1. CASE op' = Idle
    BY <2>1 DEF OpInRange
  <2> QED BY <1>0, <1>6, <2>1, AdvanceOK
<1>8. TypeOK'
  BY <1>1, <1>5, <1>7 DEF TypeOK, Store_, Request_, AllSectors, Clusters, Entries, Offsets, Cipher_
<1>9. LookupSound' /\ Filled'
  BY <1>1 DEF LookupSound, Filled
<1>10. DirtyCountExact'
  BY <1>1 DEF DirtyCountExact
<1>11. CleanMatchesMedium'
  <2> SUFFICES ASSUME NEW c \in Clusters, lookup[c] # EMPTY, ~clusters[lookup[c]].dirty,
                      NEW o \in Offsets
               PROVE  clusters[lookup[c]].data[o] = Plain(medium, system_part, c * Sectors + o)'
    BY <1>1 DEF CleanMatchesMedium
  <2> DEFINE s == c * Sectors + o
  <2>1. s \in AllSectors /\ Cluster(s) = c
    BY SectorOf
  <2>2. clusters[lookup[c]].data[o] = Plain(medium, system_part, s)
    BY <1>1 DEF CleanMatchesMedium
  <2> HIDE DEF s
  <2>3. s \notin op.sector .. op.sector + n - 1
    <3>1. \A x \in BlockSectors : Cluster(x) = Cluster(op.sector)
      BY <1>0, BlockOK
    <3> QED BY <1>1, <1>5, <2>1, <3>1
  <2>4. medium \in Media
    BY DEF TypeOK
  <2>5. store'[medium][system_part][s] = store[medium][system_part][s]
    BY <1>2, <1>5, <2>1, <2>3, <2>4
  <2>6. Plain(medium, system_part, s)' = Plain(medium, system_part, s)
    BY <1>1, <2>5 DEF Plain, Decrypt, s
  <2> QED BY <2>2, <2>6 DEF s
<1> QED BY <1>7, <1>8, <1>9, <1>10, <1>11

\* The medium and the security engine do not fail while a cluster is loaded into
\* the cache: when they do, the table keeps an entry that was never filled.
LoadsWork == TRUE \notin ReadFaults /\ ~CryptFaults

\* A miss, with the eviction that may come first.
LEMMA ReadMissOK ==
  ASSUME LoadsWork, BisInv, ReadMiss
  PROVE  BisInv'
<1> USE BisValues, BisSizes DEF BisInv, CacheSound
<1> DEFINE cl == Cluster(op.sector)
<1>0. op # Idle /\ system_part \in Parts /\ cache.enabled /\ lookup[cl] = EMPTY
      /\ UNCHANGED <<system_part, medium>>
  <2>1. op.kind = "read" /\ system_part # NoPart /\ cache.enabled /\ lookup[cl] = EMPTY
        /\ UNCHANGED <<system_part, medium>>
    BY DEF ReadMiss
  <2>2. op # Idle
    BY <2>1 DEF Idle
  <2>3. system_part \in Parts
    BY <2>1 DEF TypeOK
  <2> QED BY <2>1, <2>2, <2>3
<1>1. cl \in Clusters
  BY <1>0, BlockOK
<1>2. /\ cache \in [enabled : BOOLEAN, dirty_cnt : 0 .. U32Max, top_idx : Entries]
      /\ clusters \in [Entries -> Entry] /\ lookup \in [Clusters -> Entries \cup {EMPTY}]
      /\ store \in Store_ /\ medium \in Media
  BY DEF TypeOK, Entry, Store_
<1> HIDE DEF cl
<1>3. PICK failing \in FailingWrites :
        LET full    == cache.top_idx >= MaxEntries
            evict   == full /\ FlushNeeded
            written == Flushed(failing)
            disk    == IF evict THEN WriteBack(written) ELSE store
            top     == IF evict THEN 0 ELSE cache.top_idx
            cnt     == IF evict THEN 0 ELSE cache.dirty_cnt
            table   == IF evict THEN EmptyLookup ELSE lookup
            loaded  == [o \in Offsets |->
                         Decrypt(system_part, [ks |-> system_part, cl |-> cl, pos |-> o],
                                 disk[medium][system_part][cl * Sectors + o])]
            kept    == [i \in Entries |->
                         [clusters[i] EXCEPT !.dirty = @ /\ ~(evict /\ i \in written)]]
        IN  /\ store' = disk
            /\ lookup' = [table EXCEPT ![cl] = top]
            /\ cache' = [cache EXCEPT !.dirty_cnt = cnt, !.top_idx = top + 1]
            /\ clusters' = [kept EXCEPT ![top] = [idx |-> cl, dirty |-> FALSE, data |-> loaded]]
            /\ Advance
  BY <1>0 DEF ReadMiss, LoadsWork, cl
<1> DEFINE evict   == cache.top_idx >= MaxEntries /\ FlushNeeded
           written == Flushed(failing)
           disk    == IF evict THEN WriteBack(written) ELSE store
           top     == IF evict THEN 0 ELSE cache.top_idx
           cnt     == IF evict THEN 0 ELSE cache.dirty_cnt
           table   == IF evict THEN EmptyLookup ELSE lookup
           loaded  == [o \in Offsets |->
                         Decrypt(system_part, [ks |-> system_part, cl |-> cl, pos |-> o],
                                 disk[medium][system_part][cl * Sectors + o])]
           kept    == [i \in Entries |->
                         [clusters[i] EXCEPT !.dirty = @ /\ ~(evict /\ i \in written)]]
           new     == [idx |-> cl, dirty |-> FALSE, data |-> loaded]
<1>4. /\ store' = disk /\ lookup' = [table EXCEPT ![cl] = top]
      /\ cache' = [cache EXCEPT !.dirty_cnt = cnt, !.top_idx = top + 1]
      /\ clusters' = [kept EXCEPT ![top] = new] /\ Advance
  BY <1>3
<1>5. written \in SUBSET Entries
  BY DEF Flushed
<1> HIDE DEF written
<1>6. disk \in Store_
  BY <1>0, <1>2, <1>5, WriteBackOK
<1>7. kept \in [Entries -> Entry]
  BY <1>2, MarkedOK
<1>8. loaded \in [Offsets -> Values \cup {Garbage}]
  <2>1. \A o \in Offsets : disk[medium][system_part][cl * Sectors + o] \in Cipher_
    BY <1>0, <1>1, <1>2, <1>6, SectorOf DEF Store_
  <2> HIDE DEF disk
  <2> QED BY <2>1, DecryptType
<1>9. /\ top \in Entries /\ table \in [Clusters -> Entries \cup {EMPTY}] /\ table[cl] = EMPTY
      /\ cnt \in 0 .. U32Max
  BY <1>0, <1>1, <1>2 DEF EmptyLookup, Entries
<1>10. Agree(table, kept, top) /\ cnt = Cardinality(DirtyOf(kept, top))
  <2>1. CASE evict
    BY <2>1, AgreeEmpty, FS_EmptySet
  <2>2. CASE ~evict
    <3>1. kept = clusters
      <4>1. \A i \in Entries : kept[i] = clusters[i]
        <5> TAKE i \in Entries
        <5>1. clusters[i] \in Entry /\ kept[i] = [clusters[i] EXCEPT !.dirty = @ /\ TRUE]
          BY <1>2, <2>2
        <5>2. (clusters[i].dirty /\ TRUE) = clusters[i].dirty
          BY <5>1 DEF Entry
        <5> QED BY <5>1, <5>2 DEF Entry
      <4> QED BY <1>2, <1>7, <4>1
    <3>2. table = lookup /\ top = cache.top_idx /\ cnt = cache.dirty_cnt
      BY <2>2
    <3>3. Agree(lookup, clusters, cache.top_idx)
      BY AgreeNow
    <3>4. cache.dirty_cnt = Cardinality(DirtyOf(clusters, cache.top_idx))
      BY DEF DirtyCountExact, DirtyOf
    <3> QED BY <3>1, <3>2, <3>3, <3>4
  <2> QED BY <2>1, <2>2
<1> HIDE DEF disk, top, cnt, table, loaded, kept
<1>11. /\ top + 1 \in Entries
       /\ lookup' \in [Clusters -> Entries \cup {EMPTY}] /\ clusters' \in [Entries -> Entry]
       /\ Agree(lookup', clusters', top + 1)
       /\ DirtyOf(clusters', top + 1) = DirtyOf(kept, top)
  <2>1. Agree(table, kept, top)
    BY <1>10
  <2>2. new \in Entry /\ new.idx = cl /\ ~new.dirty
    BY <1>1, <1>8 DEF Entry
  <2> HIDE DEF new
  <2>3. /\ lookup' \in [Clusters -> Entries \cup {EMPTY}]
        /\ lookup'[cl] = top /\ \A x \in Clusters : x # cl => lookup'[x] = table[x]
    BY <1>1, <1>4, <1>9
  <2>4. /\ clusters' \in [Entries -> Entry]
        /\ clusters'[top] = new /\ \A i \in Entries : i # top => clusters'[i] = kept[i]
    BY <1>4, <1>7, <1>9, <2>2
  <2> QED BY <1>1, <1>7, <1>9, <2>1, <2>2, <2>3, <2>4, EnterOK
<1>12. /\ cache' \in [enabled : BOOLEAN, dirty_cnt : 0 .. U32Max, top_idx : Entries]
       /\ cache'.top_idx = top + 1 /\ cache'.dirty_cnt = cnt
  BY <1>2, <1>4, <1>9, <1>11
<1>13. OpInRange' /\ (op' = Idle \/ op' \in Request_)
  BY <1>0, <1>4, AdvanceOK
<1>14. TypeOK'
  BY <1>0, <1>2, <1>4, <1>6, <1>11, <1>12, <1>13
  DEF TypeOK, Store_, Request_, Entry, AllSectors, Clusters, Entries, Offsets, Cipher_
<1>15. LookupSound' /\ Filled'
  BY <1>11, <1>12 DEF Agree, LookupSound, Filled
<1>16. DirtyCountExact'
  BY <1>10, <1>11, <1>12 DEF DirtyCountExact, DirtyOf
<1>17. CleanMatchesMedium'
  <2> SUFFICES ASSUME NEW c \in Clusters, lookup'[c] # EMPTY, ~clusters'[lookup'[c]].dirty,
                      NEW o \in Offsets
               PROVE  clusters'[lookup'[c]].data[o] = Plain(medium, system_part, c * Sectors + o)'
    BY <1>0 DEF CleanMatchesMedium
  <2>1. CASE c = cl
    <3>1. clusters'[lookup'[c]] = new
      BY <1>1, <1>4, <1>7, <1>9, <2>1
    <3>2. clusters'[lookup'[c]].data[o] =
             Decrypt(system_part, [ks |-> system_part, cl |-> cl, pos |-> o],
                     store'[medium][system_part][cl * Sectors + o])
      BY <1>4, <3>1 DEF loaded
    <3>3. Cluster(cl * Sectors + o) = cl /\ Position(cl * Sectors + o) = o
      BY <1>1, SectorOf
    <3> QED BY <1>0, <2>1, <3>2, <3>3 DEF Plain, Decrypt
  <2>2. CASE c # cl
    <3>1. lookup'[c] = table[c] /\ table[c] # EMPTY
      BY <1>4, <1>9, <2>2
    <3>2. ~evict /\ table = lookup /\ disk = store
      BY <3>1 DEF table, disk, EmptyLookup
    <3>3. lookup[c] \in Entries /\ lookup[c] # top
      <4>1. table[c] < top /\ table[c] \in Entries
        BY <1>9, <1>10, <3>1 DEF Agree
      <4> QED BY <1>9, <3>2, <4>1 DEF Entries
    <3>4. clusters'[lookup[c]] = kept[lookup[c]]
      BY <1>4, <1>7, <1>9, <3>3
    <3>5. kept[lookup[c]] = [clusters[lookup[c]] EXCEPT !.dirty = @ /\ TRUE]
      BY <3>2, <3>3 DEF kept
    <3>6. clusters[lookup[c]] \in Entry
      BY <1>2, <3>3
    <3>7. /\ kept[lookup[c]].data = clusters[lookup[c]].data
          /\ kept[lookup[c]].dirty = (clusters[lookup[c]].dirty /\ TRUE)
      BY <3>5, <3>6 DEF Entry
    <3>8. ~clusters[lookup[c]].dirty
      BY <3>1, <3>2, <3>4, <3>7
    <3>9. clusters[lookup[c]].data[o] = Plain(medium, system_part, c * Sectors + o)
      BY <1>0, <3>1, <3>2, <3>8 DEF CleanMatchesMedium, ReadMiss
    <3> QED BY <1>0, <1>4, <3>1, <3>2, <3>4, <3>7, <3>9 DEF Plain, Decrypt
  <2> QED BY <2>1, <2>2
<1> QED BY <1>13, <1>14, <1>15, <1>16, <1>17

LEMMA RequestOK ==
  ASSUME BisInv, NEW k \in {"read", "write"}, NEW s \in AllSectors, NEW n \in 1 .. MaxCount,
         NEW v \in Values, Request(k, s, n, v)
  PROVE  BisInv'
<1>1. /\ op' = [kind |-> k, sector |-> s, count |-> n, val |-> v]
      /\ s + n <= NumClusters * Sectors
      /\ UNCHANGED <<system_part, medium, cacheVars, store>>
  BY DEF Request
<1>2. op' \in Request_ /\ op'.sector = s /\ op'.count = n
  BY <1>1 DEF Request_
<1>3. OpInRange'
  BY <1>1, <1>2 DEF OpInRange, Request_, AllSectors
<1> QED BY <1>1, <1>3, UntouchedOK

\* Every step keeps the invariant.
LEMMA BisInvStep ==
  ASSUME LoadsWork
  PROVE  BisInv /\ FlushHasPart /\ [Next]_vars => BisInv'
<1> SUFFICES ASSUME BisInv, FlushHasPart, [Next]_vars PROVE BisInv'
  OBVIOUS
<1>1. ASSUME NEW p \in Parts \cup {OtherPart}, NEW c \in CacheModes, NEW m \in Media,
             nx_emmc_bis_init(p, c, m)
      PROVE  BisInv'
  BY <1>1, InitOK
<1>2. CASE nx_emmc_bis_end
  BY <1>2, EndOK
<1>3. ASSUME NEW s \in AllSectors, NEW n \in 1 .. MaxCount, Request("read", s, n, Blank)
      PROVE  BisInv'
  BY <1>3, BisValues, RequestOK
<1>4. ASSUME NEW s \in AllSectors, NEW n \in 1 .. MaxCount, NEW v \in Values,
             Request("write", s, n, v)
      PROVE  BisInv'
  BY <1>4, RequestOK
<1>5. CASE NotReady
  <2>1. op' = Idle /\ UNCHANGED <<system_part, medium, cacheVars, store>>
    BY <1>5 DEF NotReady, Fail
  <2>2. OpInRange'
    BY <2>1 DEF OpInRange
  <2> QED BY <2>1, <2>2, UntouchedOK
<1>6. CASE ReadNormal \/ ReadHit
  <2>1. /\ op # Idle /\ UNCHANGED <<system_part, medium, cacheVars, store>>
        /\ op' = Idle \/ Advance
    BY <1>6 DEF ReadNormal, ReadHit, Fail, Idle
  <2>2. OpInRange'
    <3>1. CASE op' = Idle
      BY <3>1 DEF OpInRange
    <3>2. OpInRange
      BY DEF BisInv
    <3> QED BY <2>1, <3>1, <3>2, AdvanceOK
  <2> QED BY <2>1, <2>2, UntouchedOK
<1>7. CASE ReadMiss
  BY <1>7, ReadMissOK
<1>8. CASE WriteHit
  BY <1>8, WriteHitOK
<1>9. CASE WriteThrough
  BY <1>9, WriteThroughOK
<1>10. CASE UNCHANGED vars
  <2>1. UNCHANGED <<system_part, medium, cacheVars, store, op>>
    BY <1>10 DEF vars, cacheVars
  <2>2. OpInRange'
    BY <2>1 DEF BisInv, OpInRange, Request_, AllSectors
  <2> QED BY <2>1, <2>2, UntouchedOK
<1> QED BY <1>1, <1>2, <1>3, <1>4, <1>5, <1>6, <1>7, <1>8, <1>9, <1>10 DEF Next

----------------------------------------------------------------------------
(* The theorems.                                                           *)

\* A flush is never asked for without a partition (nx_emmc_bis.c:134), for
\* any number of clusters and entries and with every kind of fault.
THEOREM FlushAlwaysHasPart == Spec => []FlushHasPart
<1>1. Init => FlushHasPart
  BY DEF Init, FlushHasPart, FlushNeeded
<1>2. FlushHasPart /\ [Next]_vars => FlushHasPart'
  <2> SUFFICES ASSUME FlushHasPart, [Next]_vars PROVE FlushHasPart'
    OBVIOUS
  <2> USE DEF FlushHasPart, FlushNeeded
  <2>1. ASSUME NEW p \in Parts \cup {OtherPart}, NEW c \in CacheModes,
               NEW m \in Media, nx_emmc_bis_init(p, c, m)
        PROVE  FlushHasPart'
    BY <2>1 DEF nx_emmc_bis_init, EmptyCache
  <2>2. CASE nx_emmc_bis_end
    BY <2>2 DEF nx_emmc_bis_end, EmptyCache, cacheVars
  <2>3. ASSUME NEW k, NEW s, NEW n, NEW v, Request(k, s, n, v)
        PROVE  FlushHasPart'
    BY <2>3 DEF Request, cacheVars
  <2>4. CASE NotReady \/ ReadNormal \/ ReadHit \/ WriteThrough
    BY <2>4 DEF NotReady, ReadNormal, ReadHit, WriteThrough, cacheVars
  <2>5. CASE ReadMiss \/ WriteHit
    BY <2>5 DEF ReadMiss, WriteHit
  <2>6. CASE UNCHANGED vars
    BY <2>6 DEF vars
  <2>7. QED
    BY <2>1, <2>2, <2>3, <2>4, <2>5, <2>6 DEF Next
<1>3. QED
  BY <1>1, <1>2, PTL DEF Spec

\* Between any two blocks the lookup table, the entries and dirty_cnt agree, no
\* cluster is cached twice, and what the cache calls clean is on the medium, with
\* any failing writes, as long as the loads of clusters into the cache succeed.
THEOREM CacheAlwaysSound == ASSUME LoadsWork PROVE Spec => []CacheSound
<1>1. Init => BisInv
  BY BisInvInit
<1>2. BisInv /\ FlushHasPart /\ [Next]_vars => BisInv'
  BY BisInvStep
<1>3. BisInv => CacheSound
  BY DEF BisInv
<1> QED BY <1>1, <1>2, <1>3, FlushAlwaysHasPart, PTL DEF Spec

----------------------------------------------------------------------------
(* Sessions without the cache.                                             *)

\* A value for every medium, partition and sector.
PerSector(f) == \E V : f \in [Media -> [Parts -> [AllSectors -> V]]]

Header == [enabled : BOOLEAN, dirty_cnt : Int, top_idx : Int]

\* Without the cache nothing is in the table, and the medium is up to date.
DirectInv ==
    /\ medium \in Media /\ system_part \in Parts \cup {NoPart} /\ cache \in Header
    /\ OpInRange /\ PerSector(store) /\ PerSector(acked)
    /\ ~cache.enabled => lookup = EmptyLookup /\ WritesReachMedium

LEMMA DirectInvInit == Init => DirectInv
<1> SUFFICES ASSUME Init PROVE DirectInv
  OBVIOUS
<1> USE BisSizes, BisValues DEF Init
<1>1. medium \in Media /\ system_part \in Parts \cup {NoPart} /\ cache \in Header
  BY DEF Header
<1>2. OpInRange /\ lookup = EmptyLookup
  BY DEF OpInRange, EmptyLookup
<1>3. PerSector(store)
  <2>1. \A p \in Parts, s \in AllSectors : Cipher(p, s, Blank) \in Cipher_
    BY CipherType
  <2>2. store \in [Media -> [Parts -> [AllSectors -> Cipher_]]]
    BY <2>1
  <2> QED BY <2>2 DEF PerSector
<1>4. PerSector(acked)
  <2>1. acked \in [Media -> [Parts -> [AllSectors -> {{Blank}}]]]
    OBVIOUS
  <2> QED BY <2>1 DEF PerSector
<1>5. WritesReachMedium
  <2> SUFFICES ASSUME NEW m \in Media, NEW p \in Parts, NEW s \in AllSectors
               PROVE  Plain(m, p, s) = Blank
    BY DEF WritesReachMedium
  <2>1. store[m][p][s] = Cipher(p, s, Blank)
    OBVIOUS
  <2> QED BY <2>1 DEF Plain, Decrypt, Cipher
<1> QED BY <1>1, <1>2, <1>3, <1>4, <1>5 DEF DirectInv

\* What the first n sectors of a block, encrypted and written, decrypt to.
LEMMA EncryptedPlain ==
  ASSUME DirectInv, op # Idle, system_part \in Parts, NEW n \in 0 .. BlockLen,
         store' = Encrypted(n)
  PROVE  /\ PerSector(store)'
         /\ \A m \in Media, p \in Parts, s \in AllSectors :
              Plain(m, p, s)' =
                IF m = medium /\ p = system_part /\ s \in op.sector .. op.sector + n - 1
                  THEN op.val ELSE Plain(m, p, s)
         /\ op.sector .. op.sector + n - 1 \subseteq BlockSectors
<1> USE DEF DirectInv
<1> DEFINE old == store[medium][system_part]
           B == op.sector .. op.sector + n - 1
           C(s) == [ks |-> system_part, cl |-> Cluster(op.sector),
                    pos |-> Position(op.sector) + s - op.sector, val |-> op.val]
           h == [s \in AllSectors |-> IF s \in B THEN C(s) ELSE old[s]]
<1>1. BlockLen \in Nat /\ op.sector \in Nat
  BY BlockOK DEF OpInRange, Request_, AllSectors
<1>2. B \subseteq BlockSectors
  BY <1>1 DEF BlockSectors
<1>3. \A s \in B : C(s) = Cipher(system_part, s, op.val)
  BY <1>2, BlockOK DEF Cipher
<1>4. PICK V : store \in [Media -> [Parts -> [AllSectors -> V]]]
  BY DEF PerSector
<1>5. h \in [AllSectors -> V \cup {C(s) : s \in B}]
  BY <1>4
<1>6. store' = [store EXCEPT ![medium][system_part] = h]
  BY <1>4 DEF Encrypted
<1> HIDE DEF h, C, B
<1>7. /\ PerSector(store')
      /\ \A m \in Media, p \in Parts, s \in AllSectors :
            store'[m][p][s] = IF m = medium /\ p = system_part THEN h[s] ELSE store[m][p][s]
  <2> DEFINE W == V \cup {C(s) : s \in B}
  <2>1. h \in [AllSectors -> W] /\ store \in [Media -> [Parts -> [AllSectors -> W]]]
    BY <1>4, <1>5
  <2> HIDE DEF W
  <2>2. store' \in [Media -> [Parts -> [AllSectors -> W]]]
    BY <1>6, <2>1
  <2>3. \A m \in Media, p \in Parts, s \in AllSectors :
          store'[m][p][s] = IF m = medium /\ p = system_part THEN h[s] ELSE store[m][p][s]
    BY <1>6, <2>1
  <2> QED BY <2>2, <2>3 DEF PerSector
<1>8. ASSUME NEW m \in Media, NEW p \in Parts, NEW s \in AllSectors
      PROVE  Plain(m, p, s)' = IF m = medium /\ p = system_part /\ s \in B
                                 THEN op.val ELSE Plain(m, p, s)
  <2>1. CASE m = medium /\ p = system_part /\ s \in B
    <3>1. store'[m][p][s] = Cipher(p, s, op.val)
      BY <1>3, <1>7, <2>1 DEF h
    <3> QED BY <2>1, <3>1 DEF Plain, Decrypt, Cipher
  <2>2. CASE ~(m = medium /\ p = system_part /\ s \in B)
    <3>1. store'[m][p][s] = store[m][p][s]
      BY <1>7, <2>2 DEF h
    <3> QED BY <2>2, <3>1 DEF Plain, Decrypt
  <2> QED BY <2>1, <2>2
<1>9. PerSector(store)'
  BY <1>7 DEF PerSector
<1> QED BY <1>2, <1>8, <1>9 DEF B

\* What a block written through does to the medium and to what the caller expects.
LEMMA ThroughReaches ==
  ASSUME DirectInv, WriteThrough
  PROVE  PerSector(store)' /\ PerSector(acked)' /\ (~cache.enabled => WritesReachMedium')
<1> USE DEF DirectInv
<1>0. op # Idle /\ system_part \in Parts /\ UNCHANGED <<system_part, medium, lookup>>
  BY DEF WriteThrough, Idle, cacheVars
<1>1. BlockLen \in Nat /\ op.sector \in Nat
  BY <1>0, BlockOK DEF OpInRange, Request_, AllSectors
<1>2. PICK V : acked \in [Media -> [Parts -> [AllSectors -> V]]]
  BY DEF PerSector
<1>3. ASSUME ~cache.enabled
      PROVE  \A m \in Media, p \in Parts, s \in AllSectors : Plain(m, p, s) \in acked[m][p][s]
  <2>1. \A s \in AllSectors : lookup[Cluster(s)] = EMPTY
    BY <1>3, SectorParts DEF EmptyLookup
  <2> QED BY <1>3, <2>1 DEF WritesReachMedium
<1>4. ASSUME NEW n \in 0 .. BlockLen, store' = Encrypted(n),
             NEW h, NEW W, h \in [AllSectors -> W], acked' = [acked EXCEPT ![medium][system_part] = h],
             \A s \in AllSectors :
                IF s \in op.sector .. op.sector + n - 1 THEN op.val \in h[s]
                ELSE \A v : v \in acked[medium][system_part][s] => v \in h[s]
      PROVE  PerSector(store)' /\ PerSector(acked)' /\ (~cache.enabled => WritesReachMedium')
  <2>1. /\ PerSector(store)'
        /\ \A m \in Media, p \in Parts, s \in AllSectors :
              Plain(m, p, s)' =
                IF m = medium /\ p = system_part /\ s \in op.sector .. op.sector + n - 1
                  THEN op.val ELSE Plain(m, p, s)
    BY <1>0, <1>4, EncryptedPlain
  <2>2. /\ PerSector(acked')
        /\ \A m \in Media, p \in Parts, s \in AllSectors :
              acked'[m][p][s] = IF m = medium /\ p = system_part THEN h[s] ELSE acked[m][p][s]
    <3>1. h \in [AllSectors -> V \cup W] /\ acked \in [Media -> [Parts -> [AllSectors -> V \cup W]]]
      BY <1>2, <1>4
    <3>2. acked' \in [Media -> [Parts -> [AllSectors -> V \cup W]]]
      BY <1>4, <3>1
    <3>3. \A m \in Media, p \in Parts, s \in AllSectors :
            acked'[m][p][s] = IF m = medium /\ p = system_part THEN h[s] ELSE acked[m][p][s]
      BY <1>4, <3>1
    <3> QED BY <3>2, <3>3 DEF PerSector
  <2>3. PerSector(acked)'
    BY <2>2 DEF PerSector
  <2>4. ASSUME ~cache.enabled, NEW m \in Media, NEW p \in Parts, NEW s \in AllSectors
        PROVE  Plain(m, p, s)' \in acked'[m][p][s]
    BY <1>3, <1>4, <2>1, <2>2, <2>4
  <2>5. ~cache.enabled => WritesReachMedium'
    BY <2>4 DEF WritesReachMedium
  <2> QED BY <2>1, <2>3, <2>5
<1>5. CASE /\ acked' = [acked EXCEPT ![medium][system_part] =
                [s \in AllSectors |-> IF s \in BlockSectors THEN @[s] \cup {op.val} ELSE @[s]]]
           /\ \E n \in 0 .. BlockLen : store' = Encrypted(n)
  <2>1. PICK n \in 0 .. BlockLen : store' = Encrypted(n)
    BY <1>5
  <2>2. op.sector .. op.sector + n - 1 \subseteq BlockSectors
    BY <1>1 DEF BlockSectors
  <2> DEFINE a == acked[medium][system_part]
             h == [s \in AllSectors |-> IF s \in BlockSectors THEN a[s] \cup {op.val} ELSE a[s]]
  <2>3. h \in [AllSectors -> {h[s] : s \in AllSectors}]
    OBVIOUS
  <2>4. acked' = [acked EXCEPT ![medium][system_part] = h]
    BY <1>0, <1>2, <1>5
  <2>5. \A s \in AllSectors :
           IF s \in op.sector .. op.sector + n - 1 THEN op.val \in h[s]
           ELSE \A v : v \in a[s] => v \in h[s]
    BY <2>2
  <2> HIDE DEF h
  <2> QED BY <1>4, <2>1, <2>3, <2>4, <2>5
<1>6. CASE /\ store' = Encrypted(BlockLen)
           /\ acked' = [acked EXCEPT ![medium][system_part] =
                [s \in AllSectors |-> IF s \in BlockSectors THEN {op.val} ELSE @[s]]]
  <2> DEFINE a == acked[medium][system_part]
             h == [s \in AllSectors |-> IF s \in BlockSectors THEN {op.val} ELSE a[s]]
  <2>1. BlockLen \in 0 .. BlockLen
    BY <1>1
  <2>2. h \in [AllSectors -> {h[s] : s \in AllSectors}]
    OBVIOUS
  <2>3. acked' = [acked EXCEPT ![medium][system_part] = h]
    BY <1>0, <1>2, <1>6
  <2>4. \A s \in AllSectors :
           IF s \in op.sector .. op.sector + BlockLen - 1 THEN op.val \in h[s]
           ELSE \A v : v \in a[s] => v \in h[s]
    BY DEF BlockSectors
  <2> HIDE DEF h
  <2> QED BY <1>4, <1>6, <2>1, <2>2, <2>3, <2>4
<1> QED BY <1>5, <1>6 DEF WriteThrough

\* What a flush does to the two.
LEMMA FlushShape ==
  ASSUME DirectInv, system_part \in Parts, NEW F, NEW b \in BOOLEAN
  PROVE  /\ PerSector(WriteBack(F))
         /\ PerSector(IF b THEN acked
                      ELSE [acked EXCEPT ![medium][system_part] =
                             [s \in AllSectors |-> @[s] \cup {Plain(medium, system_part, s)}]])
<1> USE DEF DirectInv
<1>1. PerSector(WriteBack(F))
  <2> DEFINE h == [s \in AllSectors |->
              IF \E e \in F : clusters[e].idx = Cluster(s)
                THEN LET e == CHOOSE x \in F : clusters[x].idx = Cluster(s)
                     IN  Cipher(system_part, s, clusters[e].data[Position(s)])
                ELSE store[medium][system_part][s]]
  <2>1. PICK V : store \in [Media -> [Parts -> [AllSectors -> V]]]
    BY DEF PerSector
  <2>2. h \in [AllSectors -> {h[s] : s \in AllSectors}]
    OBVIOUS
  <2>3. WriteBack(F) = [store EXCEPT ![medium][system_part] = h]
    BY DEF WriteBack
  <2> DEFINE W == V \cup {h[s] : s \in AllSectors}
  <2> HIDE DEF h
  <2>4. h \in [AllSectors -> W] /\ store \in [Media -> [Parts -> [AllSectors -> W]]]
    BY <2>1, <2>2
  <2> HIDE DEF W
  <2>5. WriteBack(F) \in [Media -> [Parts -> [AllSectors -> W]]]
    BY <2>3, <2>4
  <2> QED BY <2>5 DEF PerSector
<1>2. PerSector([acked EXCEPT ![medium][system_part] =
                  [s \in AllSectors |-> @[s] \cup {Plain(medium, system_part, s)}]])
  <2> DEFINE h == [s \in AllSectors |->
                     acked[medium][system_part][s] \cup {Plain(medium, system_part, s)}]
             g == [acked EXCEPT ![medium][system_part] = h]
  <2>1. PICK V : acked \in [Media -> [Parts -> [AllSectors -> V]]]
    BY DEF PerSector
  <2>2. h \in [AllSectors -> {h[s] : s \in AllSectors}]
    OBVIOUS
  <2>3. g = [acked EXCEPT ![medium][system_part] =
                  [s \in AllSectors |-> @[s] \cup {Plain(medium, system_part, s)}]]
    BY <2>1
  <2> DEFINE W == V \cup {h[s] : s \in AllSectors}
  <2> HIDE DEF h
  <2>4. h \in [AllSectors -> W] /\ acked \in [Media -> [Parts -> [AllSectors -> W]]]
    BY <2>1, <2>2
  <2> HIDE DEF W
  <2>5. g \in [Media -> [Parts -> [AllSectors -> W]]]
    BY <2>4
  <2> HIDE DEF g
  <2>6. PerSector(g)
    BY <2>5 DEF PerSector
  <2> QED BY <2>3, <2>6
<1> QED BY <1>1, <1>2

LEMMA DirectInvStep == DirectInv /\ FlushHasPart /\ [Next]_vars => DirectInv'
<1> SUFFICES ASSUME DirectInv, FlushHasPart, [Next]_vars PROVE DirectInv'
  OBVIOUS
<1> USE BisSizes, BisValues
<1>0. /\ medium \in Media /\ system_part \in Parts \cup {NoPart} /\ cache \in Header
      /\ OpInRange /\ PerSector(store) /\ PerSector(acked)
      /\ ~cache.enabled => lookup = EmptyLookup /\ WritesReachMedium
  BY DEF DirectInv
<1>1. ASSUME UNCHANGED <<medium, cache, lookup, store, acked>>, OpInRange',
             system_part' \in {system_part, NoPart}
      PROVE  DirectInv'
  <2>1. PerSector(store)' /\ PerSector(acked)'
    BY <1>0, <1>1 DEF PerSector
  <2>2. ~cache.enabled => WritesReachMedium'
    <3> SUFFICES ASSUME ~cache.enabled, NEW m \in Media, NEW p \in Parts, NEW s \in AllSectors
                 PROVE  Plain(m, p, s)' \in acked[m][p][s]
      BY <1>1 DEF WritesReachMedium
    <3>1. lookup[Cluster(s)] = EMPTY
      BY <1>0, SectorParts DEF EmptyLookup
    <3>2. Plain(m, p, s) \in acked[m][p][s]
      BY <1>0, <3>1 DEF WritesReachMedium
    <3> QED BY <1>1, <3>2 DEF Plain, Decrypt
  <2> QED BY <1>0, <1>1, <2>1, <2>2 DEF DirectInv, EmptyLookup
<1>2. ASSUME UNCHANGED medium, system_part' \in Parts \cup {NoPart}, cache' \in Header,
             cache'.enabled, OpInRange', PerSector(store'), PerSector(acked')
      PROVE  DirectInv'
  <2>1. PerSector(store)' /\ PerSector(acked)'
    BY <1>2 DEF PerSector
  <2> QED BY <1>0, <1>2, <2>1 DEF DirectInv
<1>3. OpInRange /\ op # Idle /\ (Advance \/ op' = Idle) => OpInRange'
  <2>1. op' = Idle => OpInRange'
    BY DEF OpInRange
  <2> QED BY <2>1, AdvanceOK
<1>4. ASSUME NEW p \in Parts \cup {OtherPart}, NEW c \in CacheModes, NEW m \in Media,
             nx_emmc_bis_init(p, c, m)
      PROVE  DirectInv'
  <2>1. /\ medium' = m /\ cache' = EmptyCache(c) /\ lookup' = EmptyLookup
        /\ system_part' \in Parts \cup {NoPart} /\ UNCHANGED <<store, op>>
        /\ acked' = [n \in Media |-> [q \in Parts |-> [s \in AllSectors |-> {Plain(n, q, s)}]]]
    BY <1>4 DEF nx_emmc_bis_init
  <2>2. cache' \in Header
    BY <2>1 DEF EmptyCache, Header
  <2>3. PerSector(store)'
    BY <1>0, <2>1 DEF PerSector
  <2>4. PerSector(acked)'
    <3> DEFINE V == {{Plain(n, q, s)} : n \in Media, q \in Parts, s \in AllSectors}
    <3>1. \A n \in Media, q \in Parts, s \in AllSectors : {Plain(n, q, s)} \in V
      OBVIOUS
    <3> HIDE DEF V
    <3>2. acked' \in [Media -> [Parts -> [AllSectors -> V]]]
      BY <2>1, <3>1
    <3> QED BY <3>2 DEF PerSector
  <2>5. WritesReachMedium'
    <3> SUFFICES ASSUME NEW n \in Media, NEW q \in Parts, NEW s \in AllSectors
                 PROVE  Plain(n, q, s)' \in acked'[n][q][s]
      BY DEF WritesReachMedium
    <3>1. Plain(n, q, s)' = Plain(n, q, s)
      BY <2>1 DEF Plain, Decrypt
    <3> QED BY <2>1, <3>1
  <2>6. OpInRange'
    BY <1>0, <2>1 DEF OpInRange, Request_, AllSectors
  <2> QED BY <2>1, <2>2, <2>3, <2>4, <2>5, <2>6 DEF DirectInv, EmptyLookup
<1>5. CASE nx_emmc_bis_end
  <2>0. op = Idle /\ system_part' = NoPart /\ UNCHANGED <<medium, op>> /\ OpInRange'
    BY <1>5 DEF nx_emmc_bis_end, OpInRange
  <2>1. CASE ~FlushNeeded
    BY <1>1, <1>5, <2>0, <2>1 DEF nx_emmc_bis_end, cacheVars
  <2>2. CASE FlushNeeded
    <3>1. PICK failing \in FailingWrites :
            /\ store' = WriteBack(Flushed(failing)) /\ cache' = EmptyCache(TRUE)
            /\ acked' = IF failing = {} THEN acked
                        ELSE [acked EXCEPT ![medium][system_part] =
                               [s \in AllSectors |-> @[s] \cup {Plain(medium, system_part, s)}]]
      BY <1>5, <2>2 DEF nx_emmc_bis_end
    <3>2. system_part \in Parts
      BY <1>0, <2>2 DEF FlushHasPart
    <3>3. PerSector(store') /\ PerSector(acked')
      BY <3>1, <3>2, FlushShape
    <3>4. cache' \in Header /\ cache'.enabled
      BY <3>1 DEF EmptyCache, Header
    <3> QED BY <1>2, <2>0, <3>3, <3>4
  <2> QED BY <2>1, <2>2
<1>6. ASSUME NEW k \in {"read", "write"}, NEW s \in AllSectors, NEW n \in 1 .. MaxCount,
             NEW v \in Values, Request(k, s, n, v)
      PROVE  DirectInv'
  <2>1. /\ op' = [kind |-> k, sector |-> s, count |-> n, val |-> v]
        /\ s + n <= NumClusters * Sectors
        /\ UNCHANGED <<system_part, medium, cache, lookup, store, acked>>
    BY <1>6 DEF Request, cacheVars
  <2>2. op' \in Request_ /\ op'.sector = s /\ op'.count = n
    BY <2>1 DEF Request_
  <2>3. OpInRange'
    BY <2>1, <2>2 DEF OpInRange, Request_, AllSectors
  <2> QED BY <1>1, <2>1, <2>3
<1>7. CASE NotReady \/ ReadNormal \/ ReadHit
  <2>1. /\ op # Idle /\ UNCHANGED <<system_part, medium, cache, lookup, store, acked>>
        /\ op' = Idle \/ Advance
    BY <1>7 DEF NotReady, ReadNormal, ReadHit, Fail, Idle, cacheVars
  <2> QED BY <1>0, <1>1, <1>3, <2>1
<1>8. CASE ReadMiss
  <2>0. op # Idle /\ system_part \in Parts /\ cache.enabled /\ UNCHANGED <<system_part, medium>>
    <3>1. op.kind = "read" /\ system_part # NoPart /\ cache.enabled /\ UNCHANGED <<system_part, medium>>
      BY <1>8 DEF ReadMiss
    <3>2. op # Idle
      BY <3>1 DEF Idle
    <3>3. system_part \in Parts
      BY <1>0, <3>1
    <3> QED BY <3>1, <3>2, <3>3
  <2>1. PICK failing \in FailingWrites :
          /\ store' \in {WriteBack(Flushed(failing)), store}
          /\ acked' = IF failing = {} THEN acked
                      ELSE [acked EXCEPT ![medium][system_part] =
                             [s \in AllSectors |-> @[s] \cup {Plain(medium, system_part, s)}]]
          /\ LET evict == cache.top_idx >= MaxEntries /\ FlushNeeded
                 top   == IF evict THEN 0 ELSE cache.top_idx
                 cnt   == IF evict THEN 0 ELSE cache.dirty_cnt
             IN  \/ cache' = [cache EXCEPT !.dirty_cnt = cnt, !.top_idx = top]
                 \/ cache' = [cache EXCEPT !.dirty_cnt = cnt, !.top_idx = top + 1]
          /\ Advance \/ op' = Idle
    BY <1>8 DEF ReadMiss, Fail
  <2>2. PerSector(store') /\ PerSector(acked')
    BY <1>0, <2>0, <2>1, FlushShape
  <2>3. cache' \in Header /\ cache'.enabled
    <3> DEFINE evict == cache.top_idx >= MaxEntries /\ FlushNeeded
               top   == IF evict THEN 0 ELSE cache.top_idx
               cnt   == IF evict THEN 0 ELSE cache.dirty_cnt
    <3>1. \/ cache' = [cache EXCEPT !.dirty_cnt = cnt, !.top_idx = top]
          \/ cache' = [cache EXCEPT !.dirty_cnt = cnt, !.top_idx = top + 1]
      BY <2>1
    <3>2. top \in Int /\ top + 1 \in Int /\ cnt \in Int
      BY <1>0 DEF Header
    <3> HIDE DEF top, cnt
    <3> QED BY <1>0, <2>0, <3>1, <3>2 DEF Header
  <2> QED BY <1>0, <1>2, <1>3, <2>0, <2>1, <2>2, <2>3
<1>9. CASE WriteHit
  <2>0. /\ op # Idle /\ system_part \in Parts /\ UNCHANGED <<system_part, medium>> /\ Advance
        /\ lookup[Cluster(op.sector)] # EMPTY
        /\ cache' = [cache EXCEPT !.dirty_cnt = CountDirty(lookup[Cluster(op.sector)])]
    BY <1>0, <1>9 DEF WriteHit, Idle
  <2>1. Cluster(op.sector) \in Clusters
    BY <1>0, <2>0, BlockOK
  <2>2. cache.enabled
    BY <1>0, <2>0, <2>1 DEF EmptyLookup, Header
  <2>3. CountDirty(lookup[Cluster(op.sector)]) \in Int
    BY <1>0 DEF CountDirty, Header
  <2>4. cache' \in Header /\ cache'.enabled
    BY <1>0, <2>0, <2>2, <2>3 DEF Header
  <2>5. UNCHANGED store
    BY <1>9 DEF WriteHit
  <2>6. PerSector(acked')
    <3> DEFINE h == [s \in AllSectors |-> IF s \in BlockSectors THEN {op.val}
                                           ELSE acked[medium][system_part][s]]
    <3>1. PICK V : acked \in [Media -> [Parts -> [AllSectors -> V]]]
      BY <1>0 DEF PerSector
    <3>2. h \in [AllSectors -> {h[s] : s \in AllSectors}]
      OBVIOUS
    <3>3. acked' = [acked EXCEPT ![medium][system_part] = h]
      BY <1>0, <1>9, <2>0, <3>1 DEF WriteHit
    <3> DEFINE W == V \cup {h[s] : s \in AllSectors}
    <3> HIDE DEF h
    <3>4. h \in [AllSectors -> W] /\ acked \in [Media -> [Parts -> [AllSectors -> W]]]
      BY <3>1, <3>2
    <3> HIDE DEF W
    <3>5. acked' \in [Media -> [Parts -> [AllSectors -> W]]]
      BY <1>0, <2>0, <3>3, <3>4
    <3> QED BY <3>5 DEF PerSector
  <2>7. PerSector(store')
    BY <1>0, <2>5
  <2> QED BY <1>0, <1>2, <1>3, <2>0, <2>4, <2>6, <2>7
<1>10. CASE WriteThrough
  <2>0. op # Idle /\ UNCHANGED <<system_part, medium, cache, lookup>> /\ (Advance \/ op' = Idle)
    BY <1>10 DEF WriteThrough, Idle, cacheVars, Fail
  <2>1. PerSector(store)' /\ PerSector(acked)' /\ (~cache.enabled => WritesReachMedium')
    BY <1>10, ThroughReaches
  <2> QED BY <1>0, <1>3, <2>0, <2>1 DEF DirectInv, EmptyLookup
<1>11. CASE UNCHANGED vars
  <2>1. UNCHANGED <<system_part, medium, cache, lookup, store, acked, op>>
    BY <1>11 DEF vars
  <2>2. OpInRange'
    BY <1>0, <2>1 DEF OpInRange, Request_, AllSectors
  <2> QED BY <1>1, <2>1, <2>2
<1> QED BY <1>4, <1>5, <1>6, <1>7, <1>8, <1>9, <1>10, <1>11 DEF Next

\* In a session without the cache, everything nx_emmc_bis_write acknowledged is on
\* the medium, encrypted for its own sector, and a write that failed half-way left
\* old or new content in every sector: with every fault, and after any cached session.
THEOREM DirectWritesAlwaysReachMedium == Spec => []DirectWritesReachMedium
<1>1. DirectInv => DirectWritesReachMedium
  BY DEF DirectInv, DirectWritesReachMedium
<1> QED BY <1>1, DirectInvInit, DirectInvStep, FlushAlwaysHasPart, PTL DEF Spec

----------------------------------------------------------------------------
(* Reads without the cache: the tweak saved between requests.              *)

\* The saved tweak is that of the sector after the last one read.
TweakOf(P) ==
    /\ tweak \in [prev_cluster : Int, prev_sector : Int, ks : Parts \cup {NoPart},
                  cl : Int, pos : Int]
    /\ tweak.prev_cluster # -1 =>
         /\ tweak.ks = P /\ tweak.cl = tweak.prev_cluster
         /\ tweak.prev_sector \in AllSectors
         /\ Cluster(tweak.prev_sector) = tweak.prev_cluster
         /\ tweak.pos = Position(tweak.prev_sector) + 1

DirectReads(P) ==
    /\ TweakOf(P)
    /\ ~cache.enabled => system_part \in {P, NoPart} /\ ReadsAreCurrent
    /\ op.kind = "write" => result = NoResult

\* Sessions without the cache are all of partition P: in Nyx, PRODINFO.
OneDirectPart(P) == ~cache'.enabled => system_part' \in {P, NoPart}

LEMMA NothingRead == NoResult.data = <<>> /\ DOMAIN NoResult.data = {}
  BY DEF NoResult

\* The tweak an uncached read starts with is that of its first sector, whether it
\* is computed or carried on.
LEMMA StartTweakRight ==
  ASSUME NEW P \in Parts, TweakOf(P), OpInRange, op # Idle, system_part = P
  PROVE  StartTweak = [ks |-> P, cl |-> Cluster(op.sector), pos |-> Position(op.sector)]
<1> USE BisSizes
<1>1. op.sector \in AllSectors
  BY DEF OpInRange, Request_
<1>2. /\ Cluster(op.sector) \in Clusters /\ Position(op.sector) \in Offsets
      /\ op.sector = Cluster(op.sector) * Sectors + Position(op.sector)
  BY <1>1, SectorParts
<1>3. CASE tweak.prev_cluster = Cluster(op.sector) /\ op.sector > tweak.prev_sector
  <2>1. tweak.prev_cluster # -1
    BY <1>2, <1>3 DEF Clusters
  <2>2. /\ tweak.ks = P /\ tweak.cl = Cluster(op.sector) /\ tweak.prev_sector \in AllSectors
        /\ Cluster(tweak.prev_sector) = Cluster(op.sector)
        /\ tweak.pos = Position(tweak.prev_sector) + 1
    BY <1>3, <2>1 DEF TweakOf
  <2>3. /\ Position(tweak.prev_sector) \in Offsets
        /\ tweak.prev_sector = Cluster(op.sector) * Sectors + Position(tweak.prev_sector)
    BY <2>2, SectorParts
  <2> DEFINE base == Cluster(op.sector) * Sectors
  <2>4. base \in Int
    BY <1>2 DEF Clusters
  <2> HIDE DEF base
  <2>5. tweak.pos + op.sector - tweak.prev_sector - 1 = Position(op.sector)
    <3>1. /\ op.sector = base + Position(op.sector)
          /\ tweak.prev_sector = base + Position(tweak.prev_sector)
      BY <1>2, <2>3 DEF base
    <3>2. Position(op.sector) \in Int /\ Position(tweak.prev_sector) \in Int
      BY <1>2, <2>3 DEF Offsets
    <3> DEFINE x == Position(op.sector)
               y == Position(tweak.prev_sector)
    <3>3. /\ op.sector = base + x /\ tweak.prev_sector = base + y /\ tweak.pos = y + 1
          /\ x \in Int /\ y \in Int
      BY <2>2, <3>1, <3>2
    <3> HIDE DEF x, y
    <3>4. (y + 1) + (base + x) - (base + y) - 1 = x
      BY <2>4, <3>3
    <3> QED BY <3>3, <3>4 DEF x
  <2> QED BY <1>3, <2>2, <2>5 DEF StartTweak
<1>4. CASE ~(tweak.prev_cluster = Cluster(op.sector) /\ op.sector > tweak.prev_sector)
  BY <1>4 DEF StartTweak
<1> QED BY <1>3, <1>4

\* An uncached read returns what the medium holds.
LEMMA ReadNormalOK ==
  ASSUME NEW P \in Parts, DirectInv, DirectReads(P), ~CryptFaults, ReadNormal
  PROVE  TweakOf(P)' /\ ReadsAreCurrent'
<1> USE BisSizes DEF DirectInv, DirectReads
<1>0. /\ op # Idle /\ ~cache.enabled /\ system_part # NoPart
      /\ UNCHANGED <<system_part, medium, store, acked>>
  BY DEF ReadNormal, Idle
<1>1. system_part = P
  BY <1>0
<1> DEFINE cl == Cluster(op.sector)
           pos == Position(op.sector)
           start == [ks |-> P, cl |-> cl, pos |-> pos]
<1>2. StartTweak = start
  BY <1>0, <1>1, StartTweakRight
<1>3. CASE Fail /\ UNCHANGED tweak
  <2>1. result' = NoResult
    BY <1>3 DEF Fail
  <2>2. TweakOf(P)'
    BY <1>3 DEF TweakOf, AllSectors
  <2>3. ReadsAreCurrent'
    BY <2>1, NothingRead DEF ReadsAreCurrent
  <2> QED BY <2>2, <2>3
<1>4. CASE /\ tweak' = [[prev_cluster |-> cl, prev_sector |-> tweak.prev_sector,
                         ks |-> start.ks, cl |-> start.cl, pos |-> start.pos + BlockLen]
                          EXCEPT !.prev_sector = op.sector + BlockLen - 1]
           /\ result' = [sector |-> op.sector, data |->
                 [i \in 1 .. BlockLen |->
                    Decrypt(P, [start EXCEPT !.pos = @ + i - 1],
                            store[medium][P][op.sector + i - 1])]]
  <2>1. /\ BlockLen \in Nat \ {0} /\ op.sector \in Nat /\ cl \in Clusters /\ pos \in Offsets
        /\ \A s \in BlockSectors : /\ s \in AllSectors /\ Cluster(s) = cl
                                    /\ Position(s) = pos + s - op.sector
    BY <1>0, BlockOK DEF OpInRange, Request_, AllSectors
  <2> DEFINE last == op.sector + BlockLen - 1
  <2> HIDE DEF cl, pos
  <2>2. last \in BlockSectors
    BY <2>1 DEF BlockSectors
  <2>3. last \in AllSectors /\ Cluster(last) = cl /\ Position(last) = pos + last - op.sector
    BY <2>1, <2>2
  <2>4. tweak' = [prev_cluster |-> cl, prev_sector |-> last, ks |-> P, cl |-> cl,
                  pos |-> pos + BlockLen]
    BY <1>4
  <2>5. pos + BlockLen = Position(last) + 1
    BY <2>1, <2>3 DEF Offsets
  <2>6. TweakOf(P)'
    <3>1. tweak' \in [prev_cluster : Int, prev_sector : Int, ks : Parts \cup {NoPart},
                      cl : Int, pos : Int]
      BY <2>1, <2>4 DEF Clusters, Offsets
    <3>2. /\ tweak'.ks = P /\ tweak'.cl = cl /\ tweak'.prev_sector = last
          /\ tweak'.prev_cluster = cl /\ tweak'.pos = pos + BlockLen
      BY <2>4
    <3> HIDE DEF last
    <3> QED BY <2>3, <2>5, <3>1, <3>2 DEF TweakOf, AllSectors
  <2>7. ReadsAreCurrent'
    <3>1. /\ result'.sector = op.sector /\ DOMAIN result'.data = 1 .. BlockLen
          /\ \A i \in 1 .. BlockLen : result'.data[i] =
                Decrypt(P, [start EXCEPT !.pos = @ + i - 1], store[medium][P][op.sector + i - 1])
      BY <1>4
    <3> SUFFICES ASSUME NEW i \in 1 .. BlockLen
                 PROVE  result'.data[i] \in acked[medium][P][op.sector + i - 1]
      BY <1>0, <1>1, <3>1 DEF ReadsAreCurrent
    <3> DEFINE s == op.sector + i - 1
    <3>2. s \in BlockSectors
      BY <2>1 DEF BlockSectors
    <3>3. s \in AllSectors /\ Cluster(s) = cl /\ Position(s) = pos + s - op.sector
      BY <2>1, <3>2
    <3>4. pos + s - op.sector = pos + i - 1
      BY <2>1 DEF Offsets
    <3>5. [start EXCEPT !.pos = @ + i - 1] = [ks |-> P, cl |-> Cluster(s), pos |-> Position(s)]
      BY <3>3, <3>4
    <3>6. result'.data[i] = Plain(medium, P, s)
      BY <3>1, <3>5 DEF Plain
    <3>7. lookup[Cluster(s)] = EMPTY /\ WritesReachMedium /\ medium \in Media
      BY <1>0, <3>3, <2>1 DEF EmptyLookup
    <3> HIDE DEF s
    <3>8. Plain(medium, P, s) \in acked[medium][P][s]
      BY <3>3, <3>7 DEF WritesReachMedium
    <3> QED BY <3>6, <3>8 DEF s
  <2> QED BY <2>6, <2>7
<1> QED BY <1>0, <1>1, <1>2, <1>3, <1>4 DEF ReadNormal, Returned

LEMMA DirectReadsStep ==
  ASSUME ~CryptFaults, NEW P \in Parts
  PROVE  DirectInv /\ DirectReads(P) /\ [Next]_vars /\ [OneDirectPart(P)]_vars => DirectReads(P)'
<1> SUFFICES ASSUME DirectInv, DirectReads(P), [Next]_vars, [OneDirectPart(P)]_vars
             PROVE  DirectReads(P)'
  OBVIOUS
<1>0. /\ TweakOf(P) /\ (~cache.enabled => system_part \in {P, NoPart} /\ ReadsAreCurrent)
      /\ op.kind = "write" => result = NoResult
  BY DEF DirectReads
<1>1. CASE UNCHANGED vars
  <2>1. TweakOf(P)'
    BY <1>0, <1>1 DEF vars, TweakOf, AllSectors
  <2>2. ReadsAreCurrent <=> ReadsAreCurrent'
    BY <1>1 DEF vars, ReadsAreCurrent
  <2> QED BY <1>0, <1>1, <2>1, <2>2 DEF vars, DirectReads
<1>2. CASE Next /\ ~UNCHANGED vars
  <2>0. ~cache'.enabled => system_part' \in {P, NoPart}
    BY <1>2 DEF OneDirectPart
  <2>1. ASSUME UNCHANGED tweak, result' = NoResult PROVE DirectReads(P)'
    <3>1. TweakOf(P)'
      BY <1>0, <2>1 DEF TweakOf, AllSectors
    <3>2. ReadsAreCurrent'
      BY <2>1, NothingRead DEF ReadsAreCurrent
    <3> QED BY <2>0, <2>1, <3>1, <3>2 DEF DirectReads
  <2>2. ASSUME NEW p \in Parts \cup {OtherPart}, NEW c \in CacheModes, NEW m \in Media,
               nx_emmc_bis_init(p, c, m)
        PROVE  DirectReads(P)'
    BY <2>1, <2>2 DEF nx_emmc_bis_init
  <2>3. CASE nx_emmc_bis_end \/ NotReady
    BY <2>1, <2>3 DEF nx_emmc_bis_end, NotReady, Fail
  <2>4. ASSUME NEW k, NEW s, NEW n, NEW v, Request(k, s, n, v)
        PROVE  DirectReads(P)'
    BY <2>1, <2>4 DEF Request
  <2>5. CASE ReadNormal
    <3>1. TweakOf(P)' /\ ReadsAreCurrent'
      BY <2>5, ReadNormalOK
    <3>2. op.kind = "read" /\ (Advance \/ op' = Idle)
      BY <2>5 DEF ReadNormal, Fail
    <3>3. op'.kind # "write"
      <4>1. op' = Idle \/ op' = [op EXCEPT !.sector = @ + BlockLen, !.count = @ - BlockLen]
        BY <3>2 DEF Advance
      <4>2. op \in Request_
        BY <3>2 DEF DirectInv, OpInRange, Idle
      <4>3. [op EXCEPT !.sector = @ + BlockLen, !.count = @ - BlockLen].kind = "read"
        BY <3>2, <4>2 DEF Request_
      <4>4. Idle.kind # "write"
        BY DEF Idle
      <4> QED BY <4>1, <4>3, <4>4
    <3> QED BY <2>0, <3>1, <3>3 DEF DirectReads
  <2>6. CASE ReadHit \/ ReadMiss
    <3>1. op.kind = "read" /\ (Advance \/ op' = Idle) /\ cache.enabled /\ UNCHANGED tweak
      BY <2>6 DEF ReadHit, ReadMiss, Fail
    <3>2. op'.kind # "write"
      <4>1. op' = Idle \/ op' = [op EXCEPT !.sector = @ + BlockLen, !.count = @ - BlockLen]
        BY <3>1 DEF Advance
      <4>2. op \in Request_
        BY <3>1 DEF DirectInv, OpInRange, Idle
      <4>3. [op EXCEPT !.sector = @ + BlockLen, !.count = @ - BlockLen].kind = "read"
        BY <3>1, <4>2 DEF Request_
      <4>4. Idle.kind # "write"
        BY DEF Idle
      <4> QED BY <4>1, <4>3, <4>4
    <3>3. cache'.enabled
      <4>1. CASE ReadHit
        BY <3>1, <4>1 DEF ReadHit, cacheVars
      <4>2. CASE ReadMiss
        <5> DEFINE evict == cache.top_idx >= MaxEntries /\ FlushNeeded
                   top   == IF evict THEN 0 ELSE cache.top_idx
                   cnt   == IF evict THEN 0 ELSE cache.dirty_cnt
        <5>1. \/ cache' = [cache EXCEPT !.dirty_cnt = cnt, !.top_idx = top]
              \/ cache' = [cache EXCEPT !.dirty_cnt = cnt, !.top_idx = top + 1]
          BY <4>2 DEF ReadMiss
        <5> HIDE DEF top, cnt
        <5>2. cache \in Header
          BY DEF DirectInv
        <5> QED BY <3>1, <5>1, <5>2 DEF Header
      <4> QED BY <2>6, <4>1, <4>2
    <3>4. TweakOf(P)'
      BY <1>0, <3>1 DEF TweakOf, AllSectors
    <3> QED BY <3>2, <3>3, <3>4 DEF DirectReads
  <2>7. CASE WriteHit \/ WriteThrough
    <3>1. UNCHANGED tweak /\ op.kind = "write" /\ result' \in {result, NoResult}
      BY <2>7 DEF WriteHit, WriteThrough, Fail
    <3> QED BY <1>0, <2>1, <3>1
  <2> QED BY <1>2, <2>2, <2>3, <2>4, <2>5, <2>6, <2>7 DEF Next
<1> QED BY <1>1, <1>2

\* A block read without the cache holds what was last written to each of its
\* sectors: the tweak nx_emmc_bis_read_block_normal carries from one request to the
\* next, across other sessions and failed transfers, is always that of the next
\* sector; for as long as uncached sessions are of one partition, and the security
\* engine does not fail.
THEOREM DirectReadsAreCurrent ==
  ASSUME ~CryptFaults, NEW P \in Parts
  PROVE  Spec /\ [][OneDirectPart(P)]_vars => [](~cache.enabled => ReadsAreCurrent)
<1>1. Init => DirectReads(P)
  <2> SUFFICES ASSUME Init PROVE DirectReads(P)
    OBVIOUS
  <2>1. TweakOf(P)
    BY DEF Init, TweakOf
  <2>2. ReadsAreCurrent
    BY NothingRead DEF Init, ReadsAreCurrent
  <2> QED BY <2>1, <2>2 DEF Init, DirectReads
<1>2. DirectInv /\ DirectReads(P) /\ [Next]_vars /\ [OneDirectPart(P)]_vars => DirectReads(P)'
  BY DirectReadsStep
<1>3. DirectReads(P) => (~cache.enabled => ReadsAreCurrent)
  BY DEF DirectReads
<1> QED BY <1>1, <1>2, <1>3, DirectInvInit, DirectInvStep, FlushAlwaysHasPart, PTL DEF Spec

----------------------------------------------------------------------------
(* Reads through the cache: what a flush writes back.                      *)

\* A set of numbers has a least one.
LEMMA LeastExists ==
  ASSUME NEW S \in SUBSET Nat, S # {}
  PROVE  \E n \in S : \A m \in S : n <= m
<1> DEFINE below(n) == 0 .. n - 1
           B == {below(n) : n \in S}
<1>1. B \subseteq FiniteSubsetsOf(Nat)
  <2> SUFFICES ASSUME NEW n \in S PROVE below(n) \in FiniteSubsetsOf(Nat)
    OBVIOUS
  <2>1. IsFiniteSet(below(n))
    BY FS_Interval
  <2> QED BY <2>1 DEF FiniteSubsetsOf
<1>2. IsWellFoundedOn(StrictSubsetOrdering(Nat), FiniteSubsetsOf(Nat))
  BY FS_StrictSubsetOrderingWellFounded
<1>3. PICK x \in B : \A y \in B : ~(<<y, x>> \in StrictSubsetOrdering(Nat))
  <2> HIDE DEF B
  <2>1. B # {}
    BY DEF B
  <2> QED BY <1>1, <1>2, <2>1, WFMin
<1>4. PICK n \in S : x = below(n)
  OBVIOUS
<1>5. ASSUME NEW m \in S, m < n PROVE FALSE
  <2>1. m \in below(n) /\ m \notin below(m) /\ below(m) \subseteq below(n)
    BY <1>5
  <2>2. below(m) \in SUBSET Nat /\ below(n) \in SUBSET Nat
    OBVIOUS
  <2>3. below(m) \in B
    OBVIOUS
  <2> HIDE DEF below, B
  <2>4. <<below(m), below(n)>> \in StrictSubsetOrdering(Nat)
    BY <2>1, <2>2 DEF StrictSubsetOrdering
  <2> QED BY <1>3, <1>4, <2>3, <2>4
<1> QED BY <1>5

\* dirty_cnt in the loop of a flush, as far as entry n.
Counts(n, failing, f) ==
    f = [i \in 0 .. n |->
            IF i = 0 THEN cache.dirty_cnt
            ELSE IF f[i - 1] = 0 \/ ~clusters[i - 1].dirty THEN f[i - 1]
            ELSE IF i - 1 \in failing THEN DecU32(f[i - 1])
            ELSE DecU32(DecU32(f[i - 1]))]

Counted(failing, i, x) ==
    IF x = 0 \/ ~clusters[i - 1].dirty THEN x
    ELSE IF i - 1 \in failing THEN DecU32(x)
    ELSE DecU32(DecU32(x))

\* The loop can be run for every number of entries.
LEMMA CountExists ==
  ASSUME NEW failing, NEW len \in Nat
  PROVE  \E f : Counts(len, failing, f)
<1> DEFINE B == {n \in Nat : ~\E f : Counts(n, failing, f)}
<1>1. SUFFICES ASSUME B # {} PROVE FALSE
  OBVIOUS
<1>2. PICK n \in B : \A m \in B : n <= m
  <2>1. B \in SUBSET Nat
    OBVIOUS
  <2> HIDE DEF B
  <2> QED BY <1>1, <2>1, LeastExists
<1>3. n # 0
  <2>1. PICK f : f = [i \in 0 .. 0 |-> cache.dirty_cnt]
    OBVIOUS
  <2>2. Counts(0, failing, f)
    BY <2>1 DEF Counts
  <2> QED BY <2>2
<1>4. n \in Nat /\ n - 1 \in Nat /\ n - 1 \notin B
  BY <1>2, <1>3
<1>5. PICK f : Counts(n - 1, failing, f)
  BY <1>4
<1>6. PICK g : g = [i \in 0 .. n |-> IF i = n THEN Counted(failing, n, f[n - 1]) ELSE f[i]]
  OBVIOUS
<1>7. Counts(n, failing, g)
  <2>1. ASSUME NEW i \in 0 .. n
        PROVE  g[i] = IF i = 0 THEN cache.dirty_cnt ELSE Counted(failing, i, g[i - 1])
    <3>1. CASE i = n
      <4>1. g[i - 1] = f[n - 1]
        BY <1>3, <1>4, <1>6, <3>1
      <4> QED BY <1>3, <1>6, <3>1, <4>1
    <3>2. CASE i # n
      <4>1. i \in 0 .. n - 1 /\ g[i] = f[i]
        BY <1>4, <1>6, <3>2
      <4>2. i # 0 => g[i - 1] = f[i - 1]
        BY <1>4, <1>6, <3>2
      <4>3. f[i] = IF i = 0 THEN cache.dirty_cnt ELSE Counted(failing, i, f[i - 1])
        BY <1>5, <4>1 DEF Counts, Counted
      <4> QED BY <4>1, <4>2, <4>3
    <3> QED BY <3>1, <3>2
  <2>2. g = [i \in 0 .. n |-> g[i]]
    BY <1>6
  <2>3. g = [i \in 0 .. n |-> IF i = 0 THEN cache.dirty_cnt ELSE Counted(failing, i, g[i - 1])]
    BY <2>1, <2>2, Zenon
  <2> QED BY <2>3 DEF Counts, Counted
<1> QED BY <1>2, <1>7

LEMMA FlushCounts ==
  ASSUME NEW failing
  PROVE  Counts(NumClusters, failing, FlushCount(failing))
<1>1. PICK f : f = CHOOSE g : Counts(NumClusters, failing, g)
  OBVIOUS
<1>2. Counts(NumClusters, failing, f)
  BY <1>1, BisSizes, CountExists
<1>3. FlushCount(failing) = f
  BY <1>1, Zenon DEF FlushCount, Counts, Entries
<1> QED BY <1>2, <1>3

\* With an odd number of modified clusters the count, which goes down by two for
\* each, passes zero without meeting it: it wraps, and the loop goes on to the end.
LEMMA OddNeverZero ==
  ASSUME BisInv, cache.dirty_cnt % 2 = 1, NEW n \in Entries, n <= cache.top_idx
  PROVE  FlushCount({})[n] # 0
<1> USE BisSizes
<1> DEFINE top == cache.top_idx
           d == cache.dirty_cnt
           D(i) == {j \in Entries : j < i /\ clusters[j].dirty}
           k(i) == Cardinality(D(i))
<1>0. top \in 0 .. NumClusters /\ d \in 0 .. U32Max /\ d = k(top) /\ U32Max \in Nat
  BY DEF BisInv, CacheSound, TypeOK, DirtyCountExact, Entries
<1>1. PICK q \in Nat : d = 2 * q + 1
  <2>1. PICK x \in Nat : x = d
    <3>1. cache.dirty_cnt \in 0 .. U32Max
      BY <1>0
    <3> HIDE DEF d, top
    <3>2. cache.dirty_cnt \in Nat
      BY <3>1
    <3> QED BY <3>2 DEF d
  <2>2. x % 2 = 1
    BY <2>1
  <2>3. x \div 2 \in Nat /\ x = 2 * (x \div 2) + 1
    BY <2>2
  <2> QED BY <2>1, <2>3
<1>2. PICK f : f = FlushCount({})
  OBVIOUS
<1>3. Counts(NumClusters, {}, f)
  BY <1>2, FlushCounts
<1>4. ASSUME NEW i \in 0 .. top PROVE k(i) \in Nat /\ k(i) <= d
  <2>1. D(i) \in SUBSET Entries /\ D(top) \in SUBSET Entries /\ D(i) \subseteq D(top)
    BY <1>0 DEF Entries
  <2> HIDE DEF D
  <2>2. IsFiniteSet(D(top)) /\ Cardinality(D(i)) \in Nat
    BY <2>1, EntriesFinite
  <2>3. Cardinality(D(i)) <= Cardinality(D(top))
    BY <2>1, <2>2, FS_Subset
  <2> QED BY <1>0, <2>2, <2>3
<1>5. k(0) = 0
  <2>1. D(0) = {}
    BY DEF Entries
  <2> HIDE DEF D
  <2> QED BY <2>1, FS_EmptySet
<1>6. ASSUME NEW i \in 1 .. top
      PROVE  k(i) = IF clusters[i - 1].dirty THEN k(i - 1) + 1 ELSE k(i - 1)
  <2>1. i - 1 \in Entries
    BY <1>0 DEF Entries
  <2>2. D(i) = IF clusters[i - 1].dirty THEN D(i - 1) \cup {i - 1} ELSE D(i - 1)
    <3>1. \A j \in Entries : j < i <=> j < i - 1 \/ j = i - 1
      BY <1>0 DEF Entries
    <3> QED BY <2>1, <3>1
  <2>3. D(i - 1) \in SUBSET Entries /\ i - 1 \notin D(i - 1)
    OBVIOUS
  <2> HIDE DEF D
  <2>4. IsFiniteSet(D(i - 1))
    BY <2>3, EntriesFinite
  <2>5. Cardinality(D(i - 1) \cup {i - 1}) = Cardinality(D(i - 1)) + 1
    BY <2>3, <2>4, FS_AddElement
  <2> QED BY <2>2, <2>5
<1> HIDE DEF k, D
<1> DEFINE v(i) == IF k(i) <= q THEN d - 2 * k(i) ELSE U32Max + 1 + d - 2 * k(i)
           B == {i \in 0 .. top : f[i] # v(i)}
<1>7. B = {}
  <2> SUFFICES ASSUME B # {} PROVE FALSE
    OBVIOUS
  <2>1. PICK i \in B : \A j \in B : i <= j
    <3>1. B \in SUBSET Nat
      BY <1>0
    <3> HIDE DEF B
    <3> QED BY <3>1, LeastExists
  <2>2. i # 0
    <3>1. f[0] = d
      BY <1>3 DEF Counts
    <3>2. v(0) = d
      BY <1>0, <1>1, <1>5
    <3> QED BY <3>1, <3>2
  <2>3. i \in 1 .. top /\ i - 1 \in 0 .. top /\ f[i - 1] = v(i - 1)
    BY <1>0, <2>1, <2>2
  <2>4. f[i] = Counted({}, i, f[i - 1])
    BY <1>0, <1>3, <2>3 DEF Counts, Counted
  <2>5. PICK a \in Nat : a = k(i - 1)
    BY <1>4, <2>3
  <2>6. k(i) \in Nat /\ k(i) <= d /\ k(i) = IF clusters[i - 1].dirty THEN a + 1 ELSE a
    BY <1>4, <1>6, <2>3, <2>5
  <2>7. CASE clusters[i - 1].dirty
    <3>1. k(i) = a + 1 /\ a + 1 <= 2 * q + 1
      BY <1>1, <2>6, <2>7
    <3>2. f[i] = IF v(i - 1) = 0 THEN v(i - 1) ELSE DecU32(DecU32(v(i - 1)))
      BY <2>3, <2>4, <2>7 DEF Counted
    <3>3. v(i) = IF a + 1 <= q THEN 2 * q + 1 - 2 * (a + 1) ELSE U32Max + 1 + (2 * q + 1) - 2 * (a + 1)
      BY <1>1, <3>1
    <3>4. v(i - 1) = IF a <= q THEN 2 * q + 1 - 2 * a ELSE U32Max + 1 + (2 * q + 1) - 2 * a
      BY <1>1, <2>5
    <3>5. 2 * q + 1 <= U32Max
      BY <1>0, <1>1
    <3> HIDE DEF v
    <3>6. CASE a < q
      BY <1>1, <2>5, <3>2, <3>3, <3>4, <3>6, <2>1 DEF DecU32, B
    <3>7. CASE a = q
      BY <1>0, <1>1, <2>5, <3>2, <3>3, <3>4, <3>7, <2>1 DEF DecU32, B
    <3>8. CASE a > q
      <4>1. v(i - 1) = U32Max + 1 + (2 * q + 1) - 2 * a /\ v(i) = v(i - 1) - 2
        BY <1>0, <1>1, <2>5, <3>3, <3>4, <3>8
      <4>2. v(i - 1) \in Int /\ v(i - 1) >= 2
        BY <1>0, <1>1, <2>5, <3>1, <3>5, <4>1
      <4>3. f[i] = v(i - 1) - 2
        BY <3>2, <4>2 DEF DecU32
      <4> QED BY <2>1, <4>1, <4>3 DEF B
    <3> QED BY <1>1, <2>5, <3>6, <3>7, <3>8
  <2>8. CASE ~clusters[i - 1].dirty
    <3>1. f[i] = v(i - 1)
      BY <2>3, <2>4, <2>8 DEF Counted
    <3>2. k(i) = k(i - 1)
      BY <2>5, <2>6, <2>8
    <3> QED BY <2>1, <3>1, <3>2
  <2> QED BY <2>7, <2>8
<1>8. n \in 0 .. top
  BY <1>0 DEF Entries
<1>9. f[n] = v(n)
  BY <1>7, <1>8
<1>10. PICK a \in Nat : a = k(n) /\ a <= 2 * q + 1
  BY <1>1, <1>4, <1>8
<1>11. v(n) # 0
  <2>1. v(n) = IF a <= q THEN 2 * q + 1 - 2 * a ELSE U32Max + 1 + (2 * q + 1) - 2 * a
    BY <1>1, <1>10
  <2> HIDE DEF v
  <2> QED BY <1>0, <1>1, <1>10, <2>1
<1> QED BY <1>2, <1>9, <1>11

\* So a flush whose writes succeed writes back every modified cluster.
LEMMA OddFlushesAll ==
  ASSUME BisInv, cache.dirty_cnt % 2 = 1
  PROVE  Flushed({}) = DirtyOf(clusters, cache.top_idx)
<1>1. \A e \in Entries : e < cache.top_idx => e <= cache.top_idx
  BY BisSizes DEF BisInv, CacheSound, TypeOK, Entries
<1>2. \A e \in Entries : e < cache.top_idx => FlushCount({})[e] # 0
  BY <1>1, OddNeverZero
<1> QED BY <1>2 DEF Flushed, DirtyOf

\* What the medium holds of the partition once the entries in W were written back.
LEMMA WroteBack ==
  ASSUME BisInv, system_part \in Parts, NEW W \in SUBSET Entries,
         \A e \in W : e < cache.top_idx, NEW s \in AllSectors
  PROVE  Decrypt(system_part, [ks |-> system_part, cl |-> Cluster(s), pos |-> Position(s)],
                 WriteBack(W)[medium][system_part][s]) =
         IF lookup[Cluster(s)] \in W THEN clusters[lookup[Cluster(s)]].data[Position(s)]
         ELSE Plain(medium, system_part, s)
<1> DEFINE c == Cluster(s)
           new == [x \in AllSectors |->
            IF \E e \in W : clusters[e].idx = Cluster(x)
              THEN LET e == CHOOSE y \in W : clusters[y].idx = Cluster(x)
                   IN  Cipher(system_part, x, clusters[e].data[Position(x)])
              ELSE store[medium][system_part][x]]
<1>1. /\ store \in Store_ /\ medium \in Media /\ c \in Clusters
      /\ lookup \in [Clusters -> Entries \cup {EMPTY}]
  BY SectorParts DEF BisInv, CacheSound, TypeOK, Store_
<1>2. WriteBack(W)[medium][system_part][s] = new[s]
  <2>1. WriteBack(W) = [store EXCEPT ![medium][system_part] = new]
    BY DEF WriteBack
  <2> HIDE DEF new
  <2> QED BY <1>1, <2>1 DEF Store_
<1>3. \A e \in W : clusters[e].idx = c <=> lookup[c] = e
  <2> TAKE e \in W
  <2>1. clusters[e].idx = c => lookup[c] = e
    BY DEF BisInv, Filled
  <2>2. lookup[c] = e => clusters[e].idx = c
    <3>1. e # EMPTY
      BY BisSizes DEF Entries, EMPTY
    <3> QED BY <1>1, <3>1 DEF BisInv, CacheSound, LookupSound
  <2> QED BY <2>1, <2>2
<1> HIDE DEF c
<1>4. CASE lookup[c] \in W
  <2>1. \E e \in W : clusters[e].idx = c
    BY <1>3, <1>4
  <2>2. (CHOOSE y \in W : clusters[y].idx = c) = lookup[c]
    BY <1>3, <2>1
  <2>3. new[s] = Cipher(system_part, s, clusters[lookup[c]].data[Position(s)])
    BY <2>1, <2>2 DEF c
  <2> HIDE DEF new
  <2> QED BY <1>2, <1>4, <2>3 DEF Decrypt, Cipher, c
<1>5. CASE lookup[c] \notin W
  <2>1. new[s] = store[medium][system_part][s]
    BY <1>3, <1>5 DEF c
  <2> HIDE DEF new
  <2> QED BY <1>2, <1>5, <2>1 DEF Plain, c
<1> QED BY <1>4, <1>5 DEF c

----------------------------------------------------------------------------
(* Reads through the cache: what the driver holds of a sector is what the  *)
(* caller may expect.                                                      *)

\* What a read of sector s would give: its cached content, or that of the medium.
Held(s) == IF lookup[Cluster(s)] = EMPTY THEN Plain(medium, system_part, s)
           ELSE clusters[lookup[Cluster(s)]].data[Position(s)]

HeldIsExpected ==
    cache.enabled /\ system_part # NoPart =>
        \A s \in AllSectors : Held(s) \in acked[medium][system_part][s]

\* No cache full of clusters, an even number of them modified, is emptied for another
\* one: the flush would come to zero half-way (run bis_flush_loss).
EvictsOdd ==
    ReadMiss /\ cache.top_idx >= MaxEntries /\ FlushNeeded => cache.dirty_cnt % 2 = 1

\* A step that leaves cache, medium and expectations alone.
LEMMA HeldUntouched ==
  ASSUME HeldIsExpected, UNCHANGED <<system_part, medium, cache, clusters, lookup, store, acked>>
  PROVE  HeldIsExpected'
  BY DEF HeldIsExpected, Held, Plain, Decrypt

\* A block that is held in full is what the caller expects.
LEMMA BlockHeld ==
  ASSUME OpInRange, op # Idle, NEW d, NEW exp, NEW len,
         result' = [sector |-> op.sector, data |-> d], len = BlockLen,
         DOMAIN d = 1 .. len,
         \A i \in 1 .. len : op.sector + i - 1 \in AllSectors => d[i] \in exp[op.sector + i - 1],
         exp = acked'[medium'][system_part']
  PROVE  ReadsAreCurrent'
<1>1. /\ BlockLen \in Nat /\ op.sector \in Nat
      /\ \A s \in BlockSectors : s \in AllSectors
  BY BlockOK DEF OpInRange, Request_, AllSectors
<1>2. \A i \in 1 .. len : op.sector + i - 1 \in BlockSectors
  BY <1>1 DEF BlockSectors
<1> QED BY <1>1, <1>2 DEF ReadsAreCurrent

LEMMA InitHeld ==
  ASSUME NEW p \in Parts \cup {OtherPart}, NEW c \in CacheModes, NEW m \in Media,
         nx_emmc_bis_init(p, c, m)
  PROVE  HeldIsExpected'
<1> SUFFICES ASSUME system_part' # NoPart, NEW s \in AllSectors
             PROVE  Held(s)' \in acked'[medium'][system_part'][s]
  BY DEF HeldIsExpected
<1>1. /\ medium' = m /\ lookup' = EmptyLookup /\ system_part' = p /\ p \in Parts /\ store' = store
      /\ acked' = [n \in Media |-> [q \in Parts |-> [x \in AllSectors |-> {Plain(n, q, x)}]]]
  BY DEF nx_emmc_bis_init
<1>2. acked'[m][p][s] = {Plain(m, p, s)}
  BY <1>1
<1>3. Held(s)' = Plain(medium, system_part, s)'
  BY <1>1, SectorParts DEF Held, EmptyLookup
<1>4. Plain(medium, system_part, s)' = Plain(m, p, s)
  BY <1>1 DEF Plain, Decrypt
<1> QED BY <1>1, <1>2, <1>3, <1>4

LEMMA ReadHitHeld ==
  ASSUME BisInv, HeldIsExpected, ReadHit
  PROVE  HeldIsExpected' /\ ReadsAreCurrent'
<1> USE BisSizes DEF BisInv
<1> DEFINE e == lookup[Cluster(op.sector)]
           d == CachedBlock(e)
<1>1. /\ op # Idle /\ cache.enabled /\ system_part # NoPart /\ e # EMPTY
      /\ result' = [sector |-> op.sector, data |-> d]
      /\ UNCHANGED <<system_part, medium, cacheVars, store, acked>>
  BY DEF ReadHit, Returned, Idle
<1>2. HeldIsExpected'
  BY <1>1, HeldUntouched DEF cacheVars
<1>3. /\ BlockLen \in Nat /\ op.sector \in Nat /\ Position(op.sector) \in Nat
      /\ \A s \in BlockSectors : /\ s \in AllSectors /\ Cluster(s) = Cluster(op.sector)
                                 /\ Position(s) = Position(op.sector) + s - op.sector
  BY <1>1, BlockOK DEF OpInRange, Request_, AllSectors, Offsets
<1>4. ASSUME NEW i \in 1 .. BlockLen
      PROVE  d[i] \in acked[medium][system_part][op.sector + i - 1]
  <2> DEFINE s == op.sector + i - 1
  <2>1. s \in BlockSectors
    BY <1>3 DEF BlockSectors
  <2>2. /\ s \in AllSectors /\ Cluster(s) = Cluster(op.sector)
        /\ Position(s) = Position(op.sector) + i - 1
    <3>1. Position(op.sector) + s - op.sector = Position(op.sector) + i - 1
      BY <1>3
    <3> HIDE DEF s
    <3> QED BY <1>3, <2>1, <3>1
  <2>3. d[i] = clusters[e].data[Position(op.sector) + i - 1]
    BY DEF CachedBlock
  <2> HIDE DEF d, s
  <2>4. d[i] = Held(s)
    BY <1>1, <2>2, <2>3 DEF Held
  <2>5. Held(s) \in acked[medium][system_part][s]
    BY <1>1, <2>2 DEF HeldIsExpected
  <2> QED BY <2>4, <2>5 DEF s
<1>5. DOMAIN d = 1 .. BlockLen
  BY DEF CachedBlock
<1> HIDE DEF d
<1>6. PICK exp : exp = acked[medium][system_part]
  OBVIOUS
<1>7. ReadsAreCurrent'
  BY <1>1, <1>4, <1>5, <1>6, BlockHeld
<1> QED BY <1>2, <1>7

LEMMA WriteHitHeld ==
  ASSUME BisInv, PerSector(acked), HeldIsExpected, WriteHit
  PROVE  HeldIsExpected'
<1> USE BisSizes, BisValues DEF BisInv, CacheSound
<1> DEFINE e == lookup[Cluster(op.sector)]
           h == [s \in AllSectors |-> IF s \in BlockSectors THEN {op.val}
                                      ELSE acked[medium][system_part][s]]
<1>1. /\ op # Idle /\ e # EMPTY /\ system_part # NoPart
      /\ clusters' = [clusters EXCEPT ![e] = Modified(e)]
      /\ cache' = [cache EXCEPT !.dirty_cnt = CountDirty(e)]
      /\ UNCHANGED <<system_part, medium, lookup, store>>
  BY DEF WriteHit, Idle
<1>2. /\ Cluster(op.sector) \in Clusters
      /\ clusters \in [Entries -> Entry] /\ lookup \in [Clusters -> Entries \cup {EMPTY}]
      /\ cache \in [enabled : BOOLEAN, dirty_cnt : 0 .. U32Max, top_idx : Entries]
      /\ system_part \in Parts /\ medium \in Media
  BY <1>1, BlockOK DEF TypeOK, Entry
<1>3. e \in Entries /\ cache'.enabled = cache.enabled
  BY <1>1, <1>2
<1>4. acked'[medium][system_part] = h
  <2>1. PICK V : acked \in [Media -> [Parts -> [AllSectors -> V]]]
    BY DEF PerSector
  <2>2. acked' = [acked EXCEPT ![medium][system_part] = h]
    BY <1>2, <2>1 DEF WriteHit
  <2> HIDE DEF h
  <2> QED BY <1>2, <2>1, <2>2
<1> SUFFICES ASSUME cache.enabled, NEW s \in AllSectors
             PROVE  Held(s)' \in h[s]
  BY <1>1, <1>3, <1>4 DEF HeldIsExpected
<1>5. Held(s) \in acked[medium][system_part][s]
  BY <1>1 DEF HeldIsExpected
<1>6. /\ Cluster(s) \in Clusters /\ Position(s) \in Offsets
      /\ Cluster(s) * Sectors + Position(s) = s
  BY SectorParts
<1>7. CASE Cluster(s) = Cluster(op.sector)
  <2>1. Held(s) = clusters[e].data[Position(s)]
    BY <1>1, <1>7 DEF Held
  <2>2. Held(s)' = Modified(e).data[Position(s)]
    <3>1. clusters'[e] = Modified(e)
      BY <1>1, <1>2, <1>3
    <3> QED BY <1>1, <1>7, <3>1 DEF Held
  <2>3. Modified(e).data[Position(s)] =
          IF s \in BlockSectors THEN op.val ELSE clusters[e].data[Position(s)]
    <3> DEFINE d == [o \in Offsets |-> IF Cluster(op.sector) * Sectors + o \in BlockSectors
                                         THEN op.val ELSE clusters[e].data[o]]
    <3>1. clusters[e] \in Entry
      BY <1>2, <1>3
    <3>2. Modified(e) = [clusters[e] EXCEPT !.data = d, !.dirty = TRUE]
      BY <3>1 DEF Modified, Entry
    <3>3. d[Position(s)] = IF s \in BlockSectors THEN op.val ELSE clusters[e].data[Position(s)]
      BY <1>6, <1>7
    <3> HIDE DEF d
    <3>4. Modified(e).data = d
      BY <3>1, <3>2 DEF Entry
    <3> QED BY <3>3, <3>4
  <2> QED BY <1>5, <2>1, <2>2, <2>3
<1>8. CASE Cluster(s) # Cluster(op.sector)
  <2>1. s \notin BlockSectors
    BY <1>1, <1>8, BlockOK
  <2>2. lookup[Cluster(s)] # EMPTY => lookup[Cluster(s)] # e
    BY <1>1, <1>2, <1>6, <1>8 DEF LookupSound
  <2>3. Held(s)' = Held(s)
    <3>1. CASE lookup[Cluster(s)] = EMPTY
      BY <1>1, <3>1 DEF Held, Plain, Decrypt
    <3>2. CASE lookup[Cluster(s)] # EMPTY
      <4>1. clusters'[lookup[Cluster(s)]] = clusters[lookup[Cluster(s)]]
        BY <1>1, <1>2, <1>3, <1>6, <2>2, <3>2
      <4> QED BY <1>1, <3>2, <4>1 DEF Held
    <3> QED BY <3>1, <3>2
  <2> QED BY <1>5, <2>1, <2>3
<1> QED BY <1>7, <1>8

LEMMA WriteThroughHeld ==
  ASSUME DirectInv, HeldIsExpected, WriteThrough
  PROVE  HeldIsExpected'
<1> USE DEF DirectInv
<1>0. /\ op # Idle /\ system_part # NoPart /\ system_part \in Parts
      /\ lookup[Cluster(op.sector)] = EMPTY
      /\ UNCHANGED <<system_part, medium, cache, clusters, lookup>>
  BY DEF WriteThrough, Idle, cacheVars
<1>1. BlockLen \in Nat /\ op.sector \in Nat
  BY <1>0, BlockOK DEF OpInRange, Request_, AllSectors
<1>2. PICK V : acked \in [Media -> [Parts -> [AllSectors -> V]]]
  BY DEF PerSector
<1> DEFINE a == acked[medium][system_part]
<1>3. ASSUME NEW n \in 0 .. BlockLen, store' = Encrypted(n), NEW h,
             acked' = [acked EXCEPT ![medium][system_part] = h],
             \A s \in AllSectors :
                IF s \in op.sector .. op.sector + n - 1 THEN op.val \in h[s]
                ELSE \A v : v \in a[s] => v \in h[s]
      PROVE  HeldIsExpected'
  <2>1. \A s \in AllSectors :
          Plain(medium, system_part, s)' =
             IF s \in op.sector .. op.sector + n - 1 THEN op.val ELSE Plain(medium, system_part, s)
    <3>1. \A m \in Media, p \in Parts, s \in AllSectors :
              Plain(m, p, s)' =
                IF m = medium /\ p = system_part /\ s \in op.sector .. op.sector + n - 1
                  THEN op.val ELSE Plain(m, p, s)
      BY <1>0, <1>3, EncryptedPlain
    <3>2. \A m \in Media, p \in Parts, s \in AllSectors :
             m = medium' /\ p = system_part' => Plain(m, p, s)' = Plain(medium, system_part, s)'
      OBVIOUS
    <3> QED BY <1>0, <3>1, <3>2
  <2>2. acked'[medium][system_part] = h
    BY <1>0, <1>2, <1>3
  <2>3. op.sector .. op.sector + n - 1 \subseteq BlockSectors
    BY <1>1 DEF BlockSectors
  <2> SUFFICES ASSUME cache.enabled, NEW s \in AllSectors PROVE Held(s)' \in h[s]
    BY <1>0, <2>2 DEF HeldIsExpected
  <2>4. Held(s) \in a[s]
    BY <1>0 DEF HeldIsExpected
  <2>5. CASE lookup[Cluster(s)] = EMPTY
    <3>1. Held(s) = Plain(medium, system_part, s)
      BY <2>5 DEF Held
    <3>2. Held(s)' = Plain(medium, system_part, s)'
      BY <1>0, <2>5 DEF Held
    <3> QED BY <1>3, <2>1, <2>4, <3>1, <3>2
  <2>6. CASE lookup[Cluster(s)] # EMPTY
    <3>1. Held(s)' = Held(s)
      BY <1>0, <2>6 DEF Held
    <3>2. s \notin op.sector .. op.sector + n - 1
      BY <1>0, <2>3, <2>6, BlockOK
    <3> QED BY <1>3, <2>4, <3>1, <3>2
  <2> QED BY <2>5, <2>6
<1>4. CASE /\ acked' = [acked EXCEPT ![medium][system_part] =
                [s \in AllSectors |-> IF s \in BlockSectors THEN @[s] \cup {op.val} ELSE @[s]]]
           /\ \E n \in 0 .. BlockLen : store' = Encrypted(n)
  <2>1. PICK n \in 0 .. BlockLen : store' = Encrypted(n)
    BY <1>4
  <2>2. op.sector .. op.sector + n - 1 \subseteq BlockSectors
    BY <1>1 DEF BlockSectors
  <2> DEFINE h == [s \in AllSectors |-> IF s \in BlockSectors THEN a[s] \cup {op.val} ELSE a[s]]
  <2>3. acked' = [acked EXCEPT ![medium][system_part] = h]
    BY <1>0, <1>2, <1>4
  <2>4. \A s \in AllSectors :
           IF s \in op.sector .. op.sector + n - 1 THEN op.val \in h[s]
           ELSE \A v : v \in a[s] => v \in h[s]
    BY <2>2
  <2> HIDE DEF h
  <2> QED BY <1>3, <2>1, <2>3, <2>4
<1>5. CASE /\ store' = Encrypted(BlockLen)
           /\ acked' = [acked EXCEPT ![medium][system_part] =
                [s \in AllSectors |-> IF s \in BlockSectors THEN {op.val} ELSE @[s]]]
  <2> DEFINE h == [s \in AllSectors |-> IF s \in BlockSectors THEN {op.val} ELSE a[s]]
  <2>1. BlockLen \in 0 .. BlockLen
    BY <1>1
  <2>2. acked' = [acked EXCEPT ![medium][system_part] = h]
    BY <1>0, <1>2, <1>5
  <2>3. \A s \in AllSectors :
           IF s \in op.sector .. op.sector + BlockLen - 1 THEN op.val \in h[s]
           ELSE \A v : v \in a[s] => v \in h[s]
    BY DEF BlockSectors
  <2> HIDE DEF h
  <2> QED BY <1>3, <1>5, <2>1, <2>2, <2>3
<1> QED BY <1>4, <1>5 DEF WriteThrough

\* After an eviction the medium holds what the caller expects, of every sector: what
\* was modified was written back, or its write failed and the old content is expected too.
LEMMA EvictedHeld ==
  ASSUME BisInv, HeldIsExpected, cache.enabled, system_part # NoPart, cache.dirty_cnt % 2 = 1,
         NEW failing, NEW s \in AllSectors, NEW exp,
         exp = IF failing = {} THEN acked[medium][system_part][s]
               ELSE acked[medium][system_part][s] \cup {Plain(medium, system_part, s)}
  PROVE  Decrypt(system_part, [ks |-> system_part, cl |-> Cluster(s), pos |-> Position(s)],
                 WriteBack(Flushed(failing))[medium][system_part][s]) \in exp
<1> USE BisSizes, BisValues
<1> DEFINE W == Flushed(failing)
           e == lookup[Cluster(s)]
<1>1. W \in SUBSET Entries /\ \A x \in W : x < cache.top_idx
  BY DEF Flushed
<1>2. system_part \in Parts /\ Held(s) \in acked[medium][system_part][s]
  BY DEF BisInv, CacheSound, TypeOK, HeldIsExpected
<1>3. Cluster(s) \in Clusters /\ Position(s) \in Offsets /\ s = Cluster(s) * Sectors + Position(s)
  BY SectorParts
<1>4. CASE e \in W
  <2>1. e # EMPTY
    BY <1>1, <1>4 DEF Entries, EMPTY
  <2>2. Held(s) = clusters[e].data[Position(s)]
    BY <2>1 DEF Held
  <2> HIDE DEF W
  <2> QED BY <1>1, <1>2, <1>4, <2>2, WroteBack DEF W
<1>5. CASE e \notin W
  <2>1. Plain(medium, system_part, s) \in exp
    <3>1. CASE failing # {}
      BY <3>1
    <3>2. CASE failing = {} /\ e = EMPTY
      BY <1>2, <3>2 DEF Held
    <3>3. CASE failing = {} /\ e # EMPTY
      <4>1. W = DirtyOf(clusters, cache.top_idx)
        BY <3>3, OddFlushesAll
      <4>2. e \in Entries /\ e < cache.top_idx
        BY <1>3, <3>3 DEF BisInv, CacheSound, TypeOK, LookupSound
      <4>3. ~clusters[e].dirty
        BY <1>5, <4>1, <4>2 DEF DirtyOf
      <4>4. clusters[e].data[Position(s)] = Plain(medium, system_part, s)
        BY <1>2, <1>3, <3>3, <4>3 DEF BisInv, CacheSound, CleanMatchesMedium
      <4> QED BY <1>2, <3>3, <4>4 DEF Held
    <3> QED BY <3>1, <3>2, <3>3
  <2> HIDE DEF W
  <2> QED BY <1>1, <1>2, <1>5, <2>1, WroteBack DEF W
<1> QED BY <1>4, <1>5

\* A miss: the cluster that is loaded is what the medium holds after the eviction, or
\* without one, and nothing else that is held changes.
LEMMA ReadMissHeld ==
  ASSUME LoadsWork, BisInv, PerSector(acked), HeldIsExpected, EvictsOdd, ReadMiss
  PROVE  HeldIsExpected' /\ ReadsAreCurrent'
<1> USE BisValues, BisSizes DEF BisInv, CacheSound
<1> DEFINE cl == Cluster(op.sector)
<1>0. /\ op # Idle /\ system_part # NoPart /\ system_part \in Parts /\ cache.enabled
      /\ lookup[cl] = EMPTY /\ UNCHANGED <<system_part, medium>>
  <2>1. op.kind = "read" /\ system_part # NoPart /\ cache.enabled /\ lookup[cl] = EMPTY
        /\ UNCHANGED <<system_part, medium>>
    BY DEF ReadMiss
  <2>2. op # Idle
    BY <2>1 DEF Idle
  <2> QED BY <2>1, <2>2 DEF TypeOK
<1>1. /\ cl \in Clusters /\ BlockLen \in Nat /\ op.sector \in Nat /\ Position(op.sector) \in Nat
      /\ \A s \in BlockSectors : /\ s \in AllSectors /\ Cluster(s) = cl
                                 /\ Position(s) = Position(op.sector) + s - op.sector
  BY <1>0, BlockOK DEF OpInRange, Request_, AllSectors, Offsets
<1>2. /\ cache \in [enabled : BOOLEAN, dirty_cnt : 0 .. U32Max, top_idx : Entries]
      /\ clusters \in [Entries -> Entry] /\ lookup \in [Clusters -> Entries \cup {EMPTY}]
      /\ medium \in Media
  BY DEF TypeOK, Entry
<1> HIDE DEF cl
<1>3. PICK failing \in FailingWrites :
        LET full    == cache.top_idx >= MaxEntries
            evict   == full /\ FlushNeeded
            written == Flushed(failing)
            disk    == IF evict THEN WriteBack(written) ELSE store
            top     == IF evict THEN 0 ELSE cache.top_idx
            cnt     == IF evict THEN 0 ELSE cache.dirty_cnt
            table   == IF evict THEN EmptyLookup ELSE lookup
            loaded  == [o \in Offsets |->
                         Decrypt(system_part, [ks |-> system_part, cl |-> cl, pos |-> o],
                                 disk[medium][system_part][cl * Sectors + o])]
            kept    == [i \in Entries |->
                         [clusters[i] EXCEPT !.dirty = @ /\ ~(evict /\ i \in written)]]
        IN  /\ failing # {} => evict
            /\ store' = disk
            /\ lookup' = [table EXCEPT ![cl] = top]
            /\ acked' = IF failing = {} THEN acked
                        ELSE [acked EXCEPT ![medium][system_part] =
                               [s \in AllSectors |-> @[s] \cup
                                   {Plain(medium, system_part, s)}]]
            /\ cache' = [cache EXCEPT !.dirty_cnt = cnt, !.top_idx = top + 1]
            /\ clusters' = [kept EXCEPT ![top] = [idx |-> cl, dirty |-> FALSE, data |-> loaded]]
            /\ Returned([i \in 1 .. BlockLen |-> loaded[Position(op.sector) + i - 1]])
  BY <1>0 DEF ReadMiss, LoadsWork, cl
<1> DEFINE evict   == cache.top_idx >= MaxEntries /\ FlushNeeded
           written == Flushed(failing)
           disk    == IF evict THEN WriteBack(written) ELSE store
           top     == IF evict THEN 0 ELSE cache.top_idx
           table   == IF evict THEN EmptyLookup ELSE lookup
           loaded  == [o \in Offsets |->
                         Decrypt(system_part, [ks |-> system_part, cl |-> cl, pos |-> o],
                                 disk[medium][system_part][cl * Sectors + o])]
           kept    == [i \in Entries |->
                         [clusters[i] EXCEPT !.dirty = @ /\ ~(evict /\ i \in written)]]
           new     == [idx |-> cl, dirty |-> FALSE, data |-> loaded]
           block   == [i \in 1 .. BlockLen |-> loaded[Position(op.sector) + i - 1]]
           exp     == acked'[medium][system_part]
           a       == acked[medium][system_part]
<1>4. /\ failing # {} => evict
      /\ store' = disk /\ lookup' = [table EXCEPT ![cl] = top] /\ cache'.enabled
      /\ clusters' = [kept EXCEPT ![top] = new]
      /\ result' = [sector |-> op.sector, data |-> block]
  BY <1>0, <1>2, <1>3 DEF Returned
<1>5. \A s \in AllSectors :
        exp[s] = IF failing = {} THEN a[s] ELSE a[s] \cup {Plain(medium, system_part, s)}
  <2>1. PICK V : acked \in [Media -> [Parts -> [AllSectors -> V]]]
    BY DEF PerSector
  <2>2. CASE failing = {}
    BY <1>3, <2>2
  <2>3. CASE failing # {}
    <3> DEFINE h == [s \in AllSectors |-> a[s] \cup {Plain(medium, system_part, s)}]
    <3>1. acked' = [acked EXCEPT ![medium][system_part] = h]
      BY <1>0, <1>2, <1>3, <2>1, <2>3
    <3> HIDE DEF h
    <3>2. exp = h
      BY <1>0, <1>2, <2>1, <3>1
    <3> QED BY <2>3, <3>2 DEF h
  <2> QED BY <2>2, <2>3
<1>6. /\ top \in Entries /\ table \in [Clusters -> Entries \cup {EMPTY}]
      /\ kept \in [Entries -> Entry]
  <2>1. kept \in [Entries -> Entry]
    BY <1>2, MarkedOK
  <2> QED BY <1>2, <2>1 DEF EmptyLookup, Entries
<1> HIDE DEF written, exp, a
\* What is on the medium now of the sectors that are not in the table.
<1>7. ASSUME NEW s \in AllSectors, table[Cluster(s)] = EMPTY
      PROVE  Decrypt(system_part, [ks |-> system_part, cl |-> Cluster(s), pos |-> Position(s)],
                     disk[medium][system_part][s]) \in exp[s]
  <2>1. CASE evict
    <3>1. cache.dirty_cnt % 2 = 1
      BY <2>1 DEF EvictsOdd
    <3>2. exp[s] = IF failing = {} THEN acked[medium][system_part][s]
                   ELSE acked[medium][system_part][s] \cup {Plain(medium, system_part, s)}
      BY <1>5 DEF a
    <3>3. PICK x : x = exp[s]
      OBVIOUS
    <3>4. Decrypt(system_part, [ks |-> system_part, cl |-> Cluster(s), pos |-> Position(s)],
                  WriteBack(Flushed(failing))[medium][system_part][s]) \in x
      BY <1>0, <3>1, <3>2, <3>3, EvictedHeld
    <3> QED BY <2>1, <3>3, <3>4 DEF written
  <2>2. CASE ~evict
    <3>1. lookup[Cluster(s)] = EMPTY /\ disk = store /\ exp[s] = a[s]
      BY <1>4, <1>5, <1>7, <2>2
    <3>2. Held(s) = Plain(medium, system_part, s) /\ Held(s) \in a[s]
      BY <1>0, <3>1 DEF Held, HeldIsExpected, a
    <3> QED BY <3>1, <3>2 DEF Plain
  <2> QED BY <2>1, <2>2
\* What was loaded.
<1>8. ASSUME NEW s \in AllSectors, Cluster(s) = cl
      PROVE  Position(s) \in Offsets /\ loaded[Position(s)] \in exp[s]
  <2>1. Position(s) \in Offsets /\ s = cl * Sectors + Position(s)
    BY <1>8, SectorParts
  <2>2. table[Cluster(s)] = EMPTY
    BY <1>0, <1>1, <1>8 DEF EmptyLookup
  <2>3. loaded[Position(s)] =
          Decrypt(system_part, [ks |-> system_part, cl |-> Cluster(s), pos |-> Position(s)],
                  disk[medium][system_part][s])
    <3> HIDE DEF disk
    <3> QED BY <1>8, <2>1
  <2> QED BY <1>7, <2>1, <2>2, <2>3
<1>9. /\ lookup'[cl] = top /\ clusters'[top].data = loaded /\ top # EMPTY
      /\ \A c \in Clusters : c # cl => lookup'[c] = table[c]
      /\ \A i \in Entries : i # top => clusters'[i] = kept[i]
  <2>1. new.data = loaded
    OBVIOUS
  <2>2. top # EMPTY
    BY <1>6 DEF Entries, EMPTY
  <2> HIDE DEF table, top, kept, new, loaded
  <2> QED BY <1>1, <1>4, <1>6, <2>1, <2>2
<1>10. HeldIsExpected'
  <2> SUFFICES ASSUME NEW s \in AllSectors PROVE Held(s)' \in exp[s]
    BY <1>0 DEF HeldIsExpected, exp
  <2>0. Cluster(s) \in Clusters /\ Position(s) \in Offsets
    BY SectorParts
  <2>1. CASE Cluster(s) = cl
    <3>1. Held(s)' = loaded[Position(s)]
      <4> HIDE DEF loaded, top
      <4> QED BY <1>9, <2>1 DEF Held
    <3> QED BY <1>8, <2>1, <3>1
  <2>2. CASE Cluster(s) # cl /\ table[Cluster(s)] = EMPTY
    <3>1. lookup'[Cluster(s)] = EMPTY
      BY <1>9, <2>0, <2>2
    <3>2. Held(s)' = Plain(medium, system_part, s)'
      BY <3>1 DEF Held
    <3>3. Plain(medium, system_part, s)' =
            Decrypt(system_part, [ks |-> system_part, cl |-> Cluster(s), pos |-> Position(s)],
                    disk[medium][system_part][s])
      <4> HIDE DEF disk
      <4> QED BY <1>0, <1>4 DEF Plain, Decrypt
    <3> QED BY <1>7, <2>2, <3>2, <3>3
  <2>3. CASE Cluster(s) # cl /\ table[Cluster(s)] # EMPTY
    <3>1. ~evict /\ table = lookup /\ top = cache.top_idx /\ failing = {}
      BY <1>4, <2>0, <2>3 DEF EmptyLookup
    <3> DEFINE e == lookup[Cluster(s)]
    <3>2. e \in Entries /\ e # EMPTY /\ e # top
      <4>1. e # EMPTY /\ e \in Entries /\ e < cache.top_idx
        BY <1>2, <2>0, <2>3, <3>1 DEF LookupSound
      <4> QED BY <1>2, <3>1, <4>1 DEF Entries
    <3>3. lookup'[Cluster(s)] = e /\ clusters'[e] = kept[e]
      BY <1>9, <2>0, <2>3, <3>1, <3>2
    <3>4. kept[e].data = clusters[e].data
      <4>1. clusters[e] \in Entry
        BY <1>2, <3>2
      <4>2. kept[e] = [clusters[e] EXCEPT !.dirty = clusters[e].dirty /\ ~(evict /\ e \in written)]
        BY <3>2
      <4> HIDE DEF kept, e
      <4> QED BY <4>1, <4>2 DEF Entry
    <3>5. Held(s)' = clusters[e].data[Position(s)]
      BY <3>2, <3>3, <3>4 DEF Held
    <3>6. Held(s) = clusters[e].data[Position(s)] /\ Held(s) \in a[s]
      BY <1>0, <3>2 DEF Held, HeldIsExpected, a
    <3>7. exp[s] = a[s]
      BY <1>5, <3>1
    <3> QED BY <3>5, <3>6, <3>7
  <2> QED BY <2>1, <2>2, <2>3
<1>11. ReadsAreCurrent'
  <2>1. ASSUME NEW i \in 1 .. BlockLen PROVE block[i] \in exp[op.sector + i - 1]
    <3>1. PICK s : s = op.sector + i - 1
      OBVIOUS
    <3>2. s \in BlockSectors /\ Position(op.sector) + s - op.sector = Position(op.sector) + i - 1
      BY <1>1, <3>1 DEF BlockSectors
    <3>3. s \in AllSectors /\ Cluster(s) = cl /\ Position(s) = Position(op.sector) + i - 1
      BY <1>1, <3>2
    <3>4. block[i] = loaded[Position(s)]
      <4> HIDE DEF loaded
      <4> QED BY <3>3
    <3> QED BY <1>8, <3>1, <3>3, <3>4
  <2>2. DOMAIN block = 1 .. BlockLen
    OBVIOUS
  <2>3. OpInRange /\ exp = acked'[medium'][system_part']
    BY <1>0 DEF exp
  <2> HIDE DEF block
  <2> QED BY <1>0, <1>4, <2>1, <2>2, <2>3, BlockHeld
<1> QED BY <1>10, <1>11

CachedReads ==
    /\ HeldIsExpected /\ (cache.enabled => ReadsAreCurrent)
    /\ op.kind = "write" => result = NoResult

LEMMA CachedReadsStep ==
  ASSUME LoadsWork
  PROVE  BisInv /\ DirectInv /\ CachedReads /\ [Next]_vars /\ [EvictsOdd]_vars => CachedReads'
<1> SUFFICES ASSUME BisInv, DirectInv, CachedReads, [Next]_vars, [EvictsOdd]_vars
             PROVE  CachedReads'
  OBVIOUS
<1>0. /\ HeldIsExpected /\ (cache.enabled => ReadsAreCurrent)
      /\ op.kind = "write" => result = NoResult
  BY DEF CachedReads
<1>1. CASE UNCHANGED vars
  <2>1. HeldIsExpected'
    BY <1>0, <1>1, HeldUntouched DEF vars
  <2>2. ReadsAreCurrent' <=> ReadsAreCurrent
    BY <1>1 DEF vars, ReadsAreCurrent
  <2> QED BY <1>0, <1>1, <2>1, <2>2 DEF vars, CachedReads
<1>2. CASE Next /\ ~UNCHANGED vars
  <2>0. EvictsOdd
    BY <1>2
  <2>1. ASSUME HeldIsExpected', result' = NoResult PROVE CachedReads'
    <3>1. ReadsAreCurrent'
      BY <2>1, NothingRead DEF ReadsAreCurrent
    <3> QED BY <2>1, <3>1 DEF CachedReads
  <2>2. ASSUME op.kind = "read", Advance \/ op' = Idle PROVE op'.kind # "write"
    <3>1. op' = Idle \/ op' = [op EXCEPT !.sector = @ + BlockLen, !.count = @ - BlockLen]
      BY <2>2 DEF Advance
    <3>2. op \in Request_
      BY <2>2 DEF DirectInv, OpInRange, Idle
    <3>3. [op EXCEPT !.sector = @ + BlockLen, !.count = @ - BlockLen].kind = "read"
      BY <2>2, <3>2 DEF Request_
    <3>4. Idle.kind # "write"
      BY DEF Idle
    <3> QED BY <3>1, <3>3, <3>4
  <2>3. ASSUME NEW p \in Parts \cup {OtherPart}, NEW c \in CacheModes, NEW m \in Media,
               nx_emmc_bis_init(p, c, m)
        PROVE  CachedReads'
    <3>1. HeldIsExpected' /\ result' = NoResult
      BY <2>3, InitHeld DEF nx_emmc_bis_init
    <3> QED BY <2>1, <3>1
  <2>4. CASE nx_emmc_bis_end
    <3>1. system_part' = NoPart /\ result' = NoResult
      BY <2>4 DEF nx_emmc_bis_end
    <3>2. HeldIsExpected'
      BY <3>1 DEF HeldIsExpected
    <3> QED BY <2>1, <3>1, <3>2
  <2>5. ASSUME NEW k, NEW s, NEW n, NEW v, Request(k, s, n, v)
        PROVE  CachedReads'
    <3>1. /\ result' = NoResult
          /\ UNCHANGED <<system_part, medium, cache, clusters, lookup, store, acked>>
      BY <2>5 DEF Request, cacheVars
    <3> QED BY <1>0, <2>1, <3>1, HeldUntouched
  <2>6. CASE NotReady
    <3>1. /\ result' = NoResult
          /\ UNCHANGED <<system_part, medium, cache, clusters, lookup, store, acked>>
      BY <2>6 DEF NotReady, Fail, cacheVars
    <3> QED BY <1>0, <2>1, <3>1, HeldUntouched
  <2>7. CASE ReadNormal
    <3>1. /\ op.kind = "read" /\ (Advance \/ op' = Idle) /\ ~cache'.enabled
          /\ UNCHANGED <<system_part, medium, cache, clusters, lookup, store, acked>>
      BY <2>7 DEF ReadNormal, Fail, cacheVars
    <3>2. HeldIsExpected'
      BY <1>0, <3>1, HeldUntouched
    <3> QED BY <2>2, <3>1, <3>2 DEF CachedReads
  <2>8. CASE ReadHit
    <3>1. op.kind = "read" /\ (Advance \/ op' = Idle)
      BY <2>8 DEF ReadHit
    <3>2. HeldIsExpected' /\ ReadsAreCurrent'
      BY <1>0, <2>8, ReadHitHeld
    <3> QED BY <2>2, <3>1, <3>2 DEF CachedReads
  <2>9. CASE ReadMiss
    <3>1. op.kind = "read" /\ (Advance \/ op' = Idle)
      BY <2>9 DEF ReadMiss, Fail
    <3>2. HeldIsExpected' /\ ReadsAreCurrent'
      BY <1>0, <2>0, <2>9, ReadMissHeld DEF DirectInv
    <3> QED BY <2>2, <3>1, <3>2 DEF CachedReads
  <2>10. CASE WriteHit
    <3>1. op.kind = "write" /\ result' = result
      BY <2>10 DEF WriteHit
    <3>2. HeldIsExpected'
      BY <1>0, <2>10, WriteHitHeld DEF DirectInv
    <3> QED BY <1>0, <2>1, <3>1, <3>2
  <2>11. CASE WriteThrough
    <3>1. op.kind = "write" /\ result' \in {result, NoResult}
      BY <2>11 DEF WriteThrough, Fail
    <3>2. HeldIsExpected'
      BY <1>0, <2>11, WriteThroughHeld
    <3> QED BY <1>0, <2>1, <3>1, <3>2
  <2> QED BY <1>2, <2>3, <2>4, <2>5, <2>6, <2>7, <2>8, <2>9, <2>10, <2>11 DEF Next
<1> QED BY <1>1, <1>2

\* A block read through the cache holds what was last written to each of its sectors,
\* over hits, misses, evictions whose writes fail and reopenings (nx_emmc_bis_read_block_cached,
\* _nx_emmc_bis_flush_cache), for any geometry; when loads succeed and no full cache with an
\* even number of modified clusters is evicted.
THEOREM CachedReadsAreCurrent ==
  ASSUME LoadsWork
  PROVE  Spec /\ [][EvictsOdd]_vars => [](cache.enabled => ReadsAreCurrent)
<1>1. Init => CachedReads
  <2> SUFFICES ASSUME Init PROVE CachedReads
    OBVIOUS
  <2>1. ReadsAreCurrent
    BY NothingRead DEF Init, ReadsAreCurrent
  <2> QED BY <2>1 DEF Init, CachedReads, HeldIsExpected
<1>2. BisInv /\ DirectInv /\ CachedReads /\ [Next]_vars /\ [EvictsOdd]_vars => CachedReads'
  BY CachedReadsStep
<1>3. CachedReads => (cache.enabled => ReadsAreCurrent)
  BY DEF CachedReads
<1>4. BisInv /\ FlushHasPart /\ [Next]_vars => BisInv'
  BY BisInvStep
<1> QED BY <1>1, <1>2, <1>3, <1>4, BisInvInit, DirectInvInit, DirectInvStep, FlushAlwaysHasPart, PTL
    DEF Spec

\* With the cache or without it, a block that was read is what was last written there: when
\* clusters can be loaded, sessions without the cache are of one partition, and no full cache
\* with an even number of modified clusters is evicted (nx_emmc_bis_read).
THEOREM ReadsAlwaysCurrent ==
  ASSUME LoadsWork, NEW P \in Parts
  PROVE  Spec /\ [][OneDirectPart(P)]_vars /\ [][EvictsOdd]_vars => []ReadsAreCurrent
<1>1. Spec /\ [][EvictsOdd]_vars => [](cache.enabled => ReadsAreCurrent)
  BY CachedReadsAreCurrent
<1>2. ~CryptFaults
  BY DEF LoadsWork
<1>3. Spec /\ [][OneDirectPart(P)]_vars => [](~cache.enabled => ReadsAreCurrent)
  BY <1>2, DirectReadsAreCurrent
<1>4. (cache.enabled => ReadsAreCurrent) /\ (~cache.enabled => ReadsAreCurrent) => ReadsAreCurrent
  OBVIOUS
<1> QED BY <1>1, <1>3, <1>4, PTL

============================================================================
