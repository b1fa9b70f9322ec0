----------------------------- MODULE NxEmmcBis -----------------------------
(***************************************************************************)
(* The eMMC BIS driver of bdk/storage/nx_emmc_bis.c: sector reads and      *)
(* writes to an XTS-encrypted partition of the eMMC (or of an emuMMC on    *)
(* the SD card), through an optional write-back cache of whole clusters.   *)
(*                                                                         *)
(* Abstractions.  A sector is one value.  The ciphertext of a sector       *)
(* records the key slots, the cluster and the position it was encrypted    *)
(* for; decrypting it under any other tweak yields Garbage.  A write       *)
(* carries one value for all its sectors.  The driver is single threaded:  *)
(* one step is one cluster-sized block of a request.                       *)
(***************************************************************************)
EXTENDS Integers, FiniteSets

CONSTANTS
    Parts,        \* partitions with BIS keys (PRODINFO, SAFE, SYSTEM, USER)
    OtherPart,    \* a partition whose name has no BIS keys
    NumClusters,  \* clusters per partition
    Sectors,      \* BIS_CLUSTER_SECTORS
    MaxEntries,   \* BIS_CACHE_MAX_ENTRIES
    U32Max,       \* 0xFFFFFFFF, the wrap-around of dirty_cnt
    Values,       \* sector contents
    Blank,        \* the content of a sector before the first write
    Garbage,      \* what a decryption under a wrong tweak gives
    Media,        \* {"emmc", "sd"}: emu_offset = 0 or not
    CacheModes,   \* the enable_cache arguments the callers use
    ReadFaults,   \* the cache modes in which a read of the medium may fail
    WriteFaults,  \* may a write to the medium fail?
    CryptFaults,  \* may the security engine fail?
    MaxCount      \* longest request, in sectors

ASSUME BisSizes ==
    /\ NumClusters \in Nat \ {0}
    /\ Sectors \in Nat \ {0}
    /\ MaxEntries \in Nat \ {0}
    /\ U32Max \in Nat
    /\ U32Max > MaxEntries /\ U32Max >= NumClusters
    /\ MaxCount \in Nat

ASSUME BisValues ==
    /\ Blank \in Values /\ "emmc" \in Media
    /\ Garbage \notin Values
    /\ OtherPart \notin Parts
    /\ CacheModes \subseteq BOOLEAN
    /\ ReadFaults \subseteq BOOLEAN
    /\ {WriteFaults, CryptFaults} \subseteq BOOLEAN

NoPart == "none"        \* system_part == NULL
EMPTY  == -1            \* BIS_CACHE_LOOKUP_TBL_EMPTY_ENTRY

Clusters == 0 .. NumClusters - 1
Offsets  == 0 .. Sectors - 1
\* Room for every cluster: nothing in the code stops top_idx at MaxEntries.
Entries  == 0 .. NumClusters
AllSectors == 0 .. NumClusters * Sectors - 1

VARIABLES
    system_part,   \* the partition in use, or NoPart
    medium,        \* the storage emu_offset selects
    cache,         \* the header of bis_cache: enabled, dirty_cnt, top_idx
    clusters,      \* bis_cache->clusters
    lookup,        \* cache_lookup_tbl
    tweak,         \* the statics of nx_emmc_bis_read_block_normal
    store,         \* the ciphertext on each medium, per partition and sector
    op,            \* the request in progress
    result,        \* the last block read: its first sector and its data
    acked          \* history: what the caller may expect of each sector

vars == <<system_part, medium, cache, clusters, lookup, tweak, store, op,
          result, acked>>

cacheVars == <<cache, clusters, lookup>>

Idle == [kind |-> "idle"]

NoResult == [sector |-> 0, data |-> <<>>]

Cluster(s)  == s \div Sectors
Position(s) == s % Sectors

\* A sector encrypted for (key slots of p, cluster, position).
Cipher(p, s, v) == [ks |-> p, cl |-> Cluster(s), pos |-> Position(s), val |-> v]

\* se_aes_crypt_xts_sec_nx, decrypting: right only under the tweak of the sector.
Decrypt(p, t, c) ==
    IF c.ks = p /\ t.ks = p /\ t.cl = c.cl /\ t.pos = c.pos THEN c.val ELSE Garbage

\* The plain contents of a sector, decrypted as the encryption intended.
Plain(m, p, s) == Decrypt(p, [ks |-> p, cl |-> Cluster(s), pos |-> Position(s)],
                          store[m][p][s])

DecU32(x) == IF x = 0 THEN U32Max ELSE x - 1

Init ==
    /\ system_part = NoPart
    /\ medium = "emmc"
    /\ cache \in [enabled : CacheModes, dirty_cnt : {0}, top_idx : {0}]
    /\ clusters = [i \in Entries |-> [idx |-> 0, dirty |-> FALSE,
                                      data |-> [o \in Offsets |-> Garbage]]]
    /\ lookup = [c \in Clusters |-> EMPTY]
    /\ tweak = [prev_cluster |-> -1, prev_sector |-> 0,
                ks |-> NoPart, cl |-> -1, pos |-> 0]
    /\ store = [m \in Media |-> [p \in Parts |->
                    [s \in AllSectors |-> Cipher(p, s, Blank)]]]
    /\ op = Idle
    /\ result = NoResult
    /\ acked = [m \in Media |-> [p \in Parts |-> [s \in AllSectors |-> {Blank}]]]

----------------------------------------------------------------------------
(* _nx_emmc_bis_cluster_cache_init: the header and the table are cleared,  *)
(* the entries keep what they held.                                        *)

EmptyCache(enable) == [enabled |-> enable, dirty_cnt |-> 0, top_idx |-> 0]

EmptyLookup_Stale == lookup

EmptyLookup == [c \in Clusters |-> EMPTY]

----------------------------------------------------------------------------
(* Flush.                                                                  *)

\* The loop of _nx_emmc_bis_flush_cache: dirty_cnt when it comes to entry i.  An
\* entry written back is counted down by nx_emmc_bis_write_block and once more by
\* the loop; one whose write failed only by the loop.  At zero the loop has ended.
FlushCount(failing) ==
    LET cnt[i \in Entries] ==
            IF i = 0 THEN cache.dirty_cnt
            ELSE IF cnt[i - 1] = 0 \/ ~clusters[i - 1].dirty THEN cnt[i - 1]
            ELSE IF i - 1 \in failing THEN DecU32(cnt[i - 1])
            ELSE DecU32(DecU32(cnt[i - 1]))
    IN  cnt

\* The entries a flush writes back.
Flushed(failing) ==
    LET cnt == FlushCount(failing) IN
    {e \in Entries : /\ e < cache.top_idx /\ cnt[e] # 0
                     /\ clusters[e].dirty /\ e \notin failing}

\* The medium once the entries in written have been encrypted and stored.
WriteBack(written) ==
    [store EXCEPT ![medium][system_part] =
        [s \in AllSectors |->
            IF \E e \in written : clusters[e].idx = Cluster(s)
              THEN LET e == CHOOSE x \in written : clusters[x].idx = Cluster(s)
                   IN  Cipher(system_part, s, clusters[e].data[Position(s)])
              ELSE store[medium][system_part][s]]]

\* The early return of _nx_emmc_bis_flush_cache: with nothing dirty the cache
\* is not even emptied.
FlushNeeded == cache.enabled /\ cache.dirty_cnt # 0

FailingWrites == IF WriteFaults \/ CryptFaults THEN SUBSET Entries ELSE {{}}

----------------------------------------------------------------------------
(* Requests.                                                               *)

nx_emmc_bis_init(p, enable_cache, m) ==
    /\ op = Idle
    /\ medium' = m
    /\ cache' = EmptyCache(enable_cache)
    /\ lookup' = EmptyLookup
    /\ system_part' = IF p \in Parts THEN p ELSE NoPart
    \* The caller starts over from what is on the media.
    /\ acked' = [n \in Media |-> [q \in Parts |->
                    [s \in AllSectors |-> {Plain(n, q, s)}]]]
    /\ result' = NoResult
    /\ UNCHANGED <<clusters, tweak, store, op>>

nx_emmc_bis_end_NoFlush ==
    /\ op = Idle
    /\ system_part' = NoPart
    /\ result' = NoResult
    /\ UNCHANGED <<cacheVars, store, acked, medium, tweak, op>>

nx_emmc_bis_end ==
    /\ op = Idle
    /\ system_part' = NoPart
    /\ IF FlushNeeded
         THEN \E failing \in FailingWrites :
                LET written == Flushed(failing) IN
                /\ store' = WriteBack(written)
                /\ clusters' = [i \in Entries |->
                       [clusters[i] EXCEPT !.dirty = @ /\ i \notin written]]
                /\ cache' = EmptyCache(TRUE)
                /\ lookup' = EmptyLookup
                /\ acked' = IF failing = {} THEN acked
                            ELSE [acked EXCEPT ![medium][system_part] =
                                   [s \in AllSectors |-> @[s] \cup
                                       {Plain(medium, system_part, s)}]]
         ELSE UNCHANGED <<cacheVars, store, acked>>
    /\ result' = NoResult
    /\ UNCHANGED <<medium, tweak, op>>

\* nx_emmc_bis_read and nx_emmc_bis_write are entered.
Request(kind, sector, count, v) ==
    /\ op = Idle
    /\ sector + count <= NumClusters * Sectors
    /\ op' = [kind |-> kind, sector |-> sector, count |-> count, val |-> v]
    /\ result' = NoResult
    /\ UNCHANGED <<system_part, medium, cacheVars, tweak, store, acked>>

\* The next block of the request: never across the end of a cluster.
BlockLen == LET left == Sectors - Position(op.sector)
            IN  IF op.count < left THEN op.count ELSE left

BlockSectors == op.sector .. op.sector + BlockLen - 1

Advance_OffByOne ==
    op' = IF op.count < BlockLen THEN Idle
          ELSE [op EXCEPT !.sector = @ + BlockLen, !.count = @ - BlockLen]

Advance ==
    op' = IF op.count = BlockLen THEN Idle
          ELSE [op EXCEPT !.sector = @ + BlockLen, !.count = @ - BlockLen]

\* The block failed: the request returns 1.
Fail == op' = Idle /\ result' = NoResult

Returned(data) == result' = [sector |-> op.sector, data |-> data]

\* With no partition the block returns 3.
NotReady ==
    /\ op # Idle
    /\ system_part = NoPart
    /\ Fail
    /\ UNCHANGED <<system_part, medium, cacheVars, tweak, store, acked>>

\* The tweak of an uncached read.  The one the last read left behind is
\* carried on when the sector lies past it in the same cluster.
StartTweak_PastEnd ==
    LET cl == Cluster(op.sector) IN
    IF tweak.prev_cluster = cl /\ op.sector > tweak.prev_sector
      THEN [ks |-> tweak.ks, cl |-> tweak.cl,
            pos |-> tweak.pos + op.sector - tweak.prev_sector]
      ELSE [ks |-> system_part, cl |-> cl, pos |-> Position(op.sector)]

StartTweak ==
    LET cl == Cluster(op.sector) IN
    IF tweak.prev_cluster = cl /\ op.sector > tweak.prev_sector
      THEN [ks |-> tweak.ks, cl |-> tweak.cl,
            pos |-> tweak.pos + op.sector - tweak.prev_sector - 1]
      ELSE [ks |-> system_part, cl |-> cl, pos |-> Position(op.sector)]

\* nx_emmc_bis_read_block_normal: an uncached read.
ReadNormal ==
    LET cl    == Cluster(op.sector)
        start == StartTweak
        after == [prev_cluster |-> cl, prev_sector |-> tweak.prev_sector,
                  ks |-> start.ks, cl |-> start.cl, pos |-> start.pos + BlockLen]
    IN  /\ op.kind = "read" /\ system_part # NoPart
        /\ ~cache.enabled
        /\ \/ /\ cache.enabled \in ReadFaults
              /\ Fail
              /\ UNCHANGED tweak
           \/ /\ CryptFaults
              /\ Fail
              /\ tweak' = after
           \/ /\ tweak' = [after EXCEPT !.prev_sector = op.sector + BlockLen - 1]
              /\ Returned([i \in 1 .. BlockLen |->
                    Decrypt(system_part, [start EXCEPT !.pos = @ + i - 1],
                            store[medium][system_part][op.sector + i - 1])])
              /\ Advance
        /\ UNCHANGED <<system_part, medium, cacheVars, store, acked>>

CachedBlock(e) == [i \in 1 .. BlockLen |-> clusters[e].data[Position(op.sector) + i - 1]]

\* nx_emmc_bis_read_block_cached, the cluster is in the table.
ReadHit ==
    LET e == lookup[Cluster(op.sector)] IN
    /\ op.kind = "read" /\ system_part # NoPart
    /\ cache.enabled
    /\ e # EMPTY
    /\ Returned(CachedBlock(e))
    /\ Advance
    /\ UNCHANGED <<system_part, medium, cacheVars, tweak, store, acked>>

\* nx_emmc_bis_read_block_cached, the cluster is not in the table: flush when
\* the cache is full, enter the cluster in the table, then read it.  When the
\* read fails the table keeps the entry and top_idx does not move.
ReadMiss ==
    LET cl == Cluster(op.sector) IN
    /\ op.kind = "read" /\ system_part # NoPart
    /\ cache.enabled
    /\ lookup[cl] = EMPTY
    /\ \E failing \in FailingWrites :
        LET full   == cache.top_idx >= MaxEntries
            evict   == full /\ FlushNeeded
            written == Flushed(failing)
            disk    == IF evict THEN WriteBack(written) ELSE store
            top     == IF evict THEN 0 ELSE cache.top_idx
            cnt     == IF evict THEN 0 ELSE cache.dirty_cnt
            table   == IF evict THEN EmptyLookup ELSE lookup
            loaded  == [o \in Offsets |->
                         Decrypt(system_part, [ks |-> system_part, cl |-> cl, pos |-> o],
                                 disk[medium][system_part][cl * Sectors + o])]
            kept    == [i \in Entries |->
                         [clusters[i] EXCEPT !.dirty = @ /\ ~(evict /\ i \in written)]]
        IN  /\ failing # {} => evict
            /\ store' = disk
            /\ lookup' = [table EXCEPT ![cl] = top]
            /\ acked' = IF failing = {} THEN acked
                        ELSE [acked EXCEPT ![medium][system_part] =
                               [s \in AllSectors |-> @[s] \cup
                                   {Plain(medium, system_part, s)}]]
            /\ \/ /\ cache.enabled \in ReadFaults \/ CryptFaults
                  /\ cache' = [cache EXCEPT !.dirty_cnt = cnt, !.top_idx = top]
                  /\ clusters' = [kept EXCEPT ![top].idx = cl, ![top].dirty = FALSE]
                  /\ Fail
               \/ /\ cache' = [cache EXCEPT !.dirty_cnt = cnt, !.top_idx = top + 1]
                  /\ clusters' = [kept EXCEPT ![top] = [idx |-> cl, dirty |-> FALSE,
                                                        data |-> loaded]]
                  /\ Returned([i \in 1 .. BlockLen |-> loaded[Position(op.sector) + i - 1]])
                  /\ Advance
    /\ UNCHANGED <<system_part, medium, tweak>>

\* The entry and the count of modified entries after a write to entry e.
Modified(e) ==
    [clusters[e] EXCEPT
        !.data = [o \in Offsets |->
            IF Cluster(op.sector) * Sectors + o \in BlockSectors THEN op.val ELSE @[o]],
        !.dirty = TRUE]

CountDirty_Always(e) == cache.dirty_cnt + 1

CountDirty(e) == IF clusters[e].dirty THEN cache.dirty_cnt ELSE cache.dirty_cnt + 1

\* nx_emmc_bis_write_block(.., flush = false), the cluster is cached.
WriteHit ==
    LET e == lookup[Cluster(op.sector)] IN
    /\ op.kind = "write" /\ system_part # NoPart
    /\ e # EMPTY
    /\ clusters' = [clusters EXCEPT ![e] = Modified(e)]
    /\ cache' = [cache EXCEPT !.dirty_cnt = CountDirty(e)]
    /\ acked' = [acked EXCEPT ![medium][system_part] =
            [s \in AllSectors |-> IF s \in BlockSectors THEN {op.val} ELSE @[s]]]
    /\ Advance
    /\ UNCHANGED <<system_part, medium, lookup, tweak, store, result>>

Encrypted_FromStart(n) ==
    [store EXCEPT ![medium][system_part] =
        [s \in AllSectors |->
            IF s \in op.sector .. op.sector + n - 1
              THEN [ks |-> system_part, cl |-> Cluster(op.sector),
                    pos |-> s - op.sector, val |-> op.val]
              ELSE @[s]]]

\* The medium after the first n sectors of the block have been encrypted into
\* dma_buff, for the cluster of its first sector, and written.
Encrypted(n) ==
    [store EXCEPT ![medium][system_part] =
        [s \in AllSectors |->
            IF s \in op.sector .. op.sector + n - 1
              THEN [ks |-> system_part, cl |-> Cluster(op.sector),
                    pos |-> Position(op.sector) + s - op.sector, val |-> op.val]
              ELSE @[s]]]

WriteThrough_PastCache ==
    /\ op.kind = "write" /\ system_part # NoPart
    /\ \/ /\ WriteFaults \/ CryptFaults
          /\ acked' = [acked EXCEPT ![medium][system_part] =
                [s \in AllSectors |->
                    IF s \in BlockSectors THEN @[s] \cup {op.val} ELSE @[s]]]
          \* The transfer stopped after n sectors.
          /\ \E n \in 0 .. BlockLen : store' = Encrypted(n)
          /\ Fail
       \/ /\ store' = Encrypted(BlockLen)
          /\ acked' = [acked EXCEPT ![medium][system_part] =
                [s \in AllSectors |-> IF s \in BlockSectors THEN {op.val} ELSE @[s]]]
          /\ Advance
          /\ UNCHANGED result
    /\ UNCHANGED <<system_part, medium, cacheVars, tweak>>
\* nx_emmc_bis_write_block(.., flush = false), the cluster is not cached.
WriteThrough ==
    /\ op.kind = "write" /\ system_part # NoPart
    /\ lookup[Cluster(op.sector)] = EMPTY
    /\ \/ /\ WriteFaults \/ CryptFaults
          /\ acked' = [acked EXCEPT ![medium][system_part] =
                [s \in AllSectors |->
                    IF s \in BlockSectors THEN @[s] \cup {op.val} ELSE @[s]]]
          \* The transfer stopped after n sectors.
          /\ \E n \in 0 .. BlockLen : store' = Encrypted(n)
          /\ Fail
       \/ /\ store' = Encrypted(BlockLen)
          /\ acked' = [acked EXCEPT ![medium][system_part] =
                [s \in AllSectors |-> IF s \in BlockSectors THEN {op.val} ELSE @[s]]]
          /\ Advance
          /\ UNCHANGED result
    /\ UNCHANGED <<system_part, medium, cacheVars, tweak>>

Next ==
    \/ \E p \in Parts \cup {OtherPart}, c \in CacheModes, m \in Media :
          nx_emmc_bis_init(p, c, m)
    \/ nx_emmc_bis_end
    \/ \E s \in AllSectors, n \in 1 .. MaxCount :
          \/ Request("read", s, n, Blank)
          \/ \E v \in Values : Request("write", s, n, v)
    \/ NotReady
    \/ ReadNormal
    \/ ReadHit
    \/ ReadMiss
    \/ WriteHit
    \/ WriteThrough

Spec == Init /\ [][Next]_vars

----------------------------------------------------------------------------
(* Properties.                                                             *)

Cipher_ == [ks : Parts, cl : Clusters, pos : Offsets, val : Values \cup {Garbage}]

\* Every variable has its type: in particular dirty_cnt fits its 32 bits and a
\* request in progress never runs past the partition.
TypeOK ==
    /\ system_part \in Parts \cup {NoPart}
    /\ medium \in Media
    /\ cache \in [enabled : BOOLEAN, dirty_cnt : 0 .. U32Max, top_idx : Entries]
    /\ clusters \in [Entries -> [idx : Clusters, dirty : BOOLEAN,
                                 data : [Offsets -> Values \cup {Garbage}]]]
    /\ lookup \in [Clusters -> Entries \cup {EMPTY}]
    /\ store \in [Media -> [Parts -> [AllSectors -> Cipher_]]]
    /\ op = Idle \/ op \in [kind : {"read", "write"}, sector : AllSectors,
                             count : 1 .. MaxCount, val : Values]

\* The lookup table and the entries agree: a cluster the table calls cached is
\* in a filled entry that names that cluster, so no two clusters share one.
LookupSound ==
    \A c \in Clusters : lookup[c] # EMPTY =>
        /\ lookup[c] < cache.top_idx
        /\ clusters[lookup[c]].idx = c

\* Between requests dirty_cnt is the number of modified entries, so the early
\* return of _nx_emmc_bis_flush_cache never skips one.
DirtyCountExact ==
    cache.dirty_cnt = Cardinality({i \in Entries : i < cache.top_idx /\ clusters[i].dirty})

\* A cached cluster that is not marked dirty equals the cluster on the medium:
\* nothing is lost by dropping it.
CleanMatchesMedium ==
    system_part # NoPart => \A c \in Clusters :
      lookup[c] # EMPTY /\ ~clusters[lookup[c]].dirty =>
        \A o \in Offsets : clusters[lookup[c]].data[o] =
                              Plain(medium, system_part, c * Sectors + o)

\* The cache can be trusted between any two blocks of a request: what it says of
\* itself is true, and dropping what it calls clean loses nothing.
CacheSound == TypeOK /\ LookupSound /\ DirtyCountExact /\ CleanMatchesMedium

\* A block that was read successfully holds what was last written there in
\* this session: the saved tweak, the cache and the medium all agree.
ReadsAreCurrent ==
    \A i \in DOMAIN result.data :
        result.data[i] \in acked[medium][system_part][result.sector + i - 1]

\* What is not in the cache is on the medium, in particular everything after
\* nx_emmc_bis_end, whose callers go on to drop the keys and the storage.
WritesReachMedium ==
    \A m \in Media, p \in Parts, s \in AllSectors :
        (m # medium \/ p # system_part \/ lookup[Cluster(s)] = EMPTY) =>
            Plain(m, p, s) \in acked[m][p][s]

\* Without the cache a write the driver acknowledged is on the medium, encrypted
\* for its own sector, and one that failed half-way leaves every sector with its
\* old or its new content.
DirectWritesReachMedium == ~cache.enabled => WritesReachMedium

\* A flush is never asked for without a partition, whose size the cache
\* initialisation after it reads.
FlushHasPart == FlushNeeded => system_part # NoPart

============================================================================
