------------------------------- MODULE Heap -------------------------------
(***************************************************************************)
(* The heap of bdk/mem/heap.c: a list of nodes laid out one after the      *)
(* other from _heap.start, each a header followed by its memory.  Nyx      *)
(* builds it with reuse and merging of free nodes, the bootloader with     *)
(* BDK_MALLOC_NO_DEFRAG, where memory is only ever taken from the end.     *)
(*                                                                         *)
(* Memory is counted in units of sizeof(hnode_t), the size of a header and *)
(* the alignment of every size; address 0 is _heap.start.  The search for  *)
(* a free node is one step per node.                                       *)
(***************************************************************************)
EXTENDS Integers, FiniteSets

CONSTANTS
    Defrag,     \* FALSE in the build with BDK_MALLOC_NO_DEFRAG
    Unit,       \* sizeof(hnode_t) in bytes
    MinSplit,   \* 4: a rest of this many units becomes a node of its own
    Requests,   \* the sizes that are asked for, in bytes
    Limit       \* bound: the heap grows no further than this many units

ASSUME HeapConstants ==
    /\ Defrag \in BOOLEAN
    /\ Unit \in Nat \ {0} /\ MinSplit \in Nat \ {0} /\ Limit \in Nat
    /\ Requests \subseteq Nat

NULL == -1
MAGIC == "HEAP"      \* HEAP_USED_MAGIC
Free == "0"
Data == "data"       \* anything else a client has stored

Addr == 0 .. Limit - 1

\* ALIGN(size, sizeof(hnode_t)), in units.
Align(size) == (size + Unit - 1) \div Unit

VARIABLES
    first, last,  \* of _heap
    h,            \* the header fields at each address, and the nodes of the list
    op            \* the allocation in progress: its size and the node it is at

vars == <<first, last, h, op>>

Idle == [size |-> -1, node |-> NULL]

Init ==
    /\ first = NULL /\ last = NULL
    /\ h = [used |-> [a \in Addr |-> Data], size |-> [a \in Addr |-> 0],
            prev |-> [a \in Addr |-> NULL], next |-> [a \in Addr |-> NULL],
            nodes |-> {}]
    /\ op = Idle

----------------------------------------------------------------------------
(* Operations on the list.                                                 *)

\* A new last node n of s units behind node m (the first one if m is NULL).
Appended(g, m, n, s) ==
    [used  |-> [g.used EXCEPT ![n] = MAGIC],
     size  |-> [g.size EXCEPT ![n] = s],
     prev  |-> [g.prev EXCEPT ![n] = m],
     next  |-> [a \in Addr |-> IF a = n THEN NULL ELSE IF a = m THEN n ELSE g.next[a]],
     nodes |-> g.nodes \cup {n}]

Split_NoUsed(g, m, s) ==
    LET n == m + 1 + s IN
    [used  |-> [g.used EXCEPT ![m] = MAGIC],
     size  |-> [g.size EXCEPT ![n] = g.size[m] - s - 1, ![m] = s],
     prev  |-> [a \in Addr |-> IF a = n THEN m ELSE IF a = g.next[m] THEN n ELSE g.prev[a]],
     next  |-> [g.next EXCEPT ![n] = g.next[m], ![m] = n],
     nodes |-> g.nodes \cup {n}]

\* Node m, free, is used for s units and the rest becomes a free node n.
Split(g, m, s) ==
    LET n == m + 1 + s IN
    [used  |-> [g.used EXCEPT ![n] = Free, ![m] = MAGIC],
     size  |-> [g.size EXCEPT ![n] = g.size[m] - s - 1, ![m] = s],
     prev  |-> [a \in Addr |-> IF a = n THEN m ELSE IF a = g.next[m] THEN n ELSE g.prev[a]],
     next  |-> [g.next EXCEPT ![n] = g.next[m], ![m] = n],
     nodes |-> g.nodes \cup {n}]

Absorb_KeepsPrev(g, m, n) ==
    [used  |-> g.used,
     size  |-> [g.size EXCEPT ![m] = @ + g.size[n] + 1, ![n] = 0],
     prev  |-> g.prev,
     next  |-> [g.next EXCEPT ![m] = g.next[n], ![n] = NULL],
     nodes |-> g.nodes \ {n}]

\* Node n becomes part of the node m before it.  Of its header, now memory of m,
\* only the word that tells used nodes may be looked at again (by free): the
\* other fields are forgotten.
Absorb(g, m, n) ==
    [used  |-> g.used,
     size  |-> [g.size EXCEPT ![m] = @ + g.size[n] + 1, ![n] = 0],
     prev  |-> [a \in Addr |-> IF a = n THEN NULL ELSE IF a = g.next[n] THEN m ELSE g.prev[a]],
     next  |-> [g.next EXCEPT ![m] = g.next[n], ![n] = NULL],
     nodes |-> g.nodes \ {n}]

----------------------------------------------------------------------------
(* malloc.                                                                 *)

\* The bound: nothing is asked for that would take the heap past Limit.
Room(s) ==
    \/ \E n \in h.nodes : Defrag /\ h.used[n] = Free /\ s <= h.size[n]
    \/ 1 + s <= Limit /\ \A n \in h.nodes : n + 1 + h.size[n] + 1 + s <= Limit

\* The entry of _heap_alloc.
malloc(bytes) ==
    /\ op = Idle /\ Room(Align(bytes))
    /\ op' = [size |-> Align(bytes), node |-> IF Defrag THEN first ELSE last]
    /\ UNCHANGED <<first, last, h>>

FirstNode ==
    /\ op # Idle /\ first = NULL
    /\ 1 + op.size <= Limit
    /\ h' = Appended(h, NULL, 0, op.size)
    /\ first' = 0 /\ last' = 0 /\ op' = Idle

Fits_OneShort == Defrag /\ h.used[op.node] = Free /\ op.size <= h.size[op.node] + 1

Fits == Defrag /\ h.used[op.node] = Free /\ op.size <= h.size[op.node]

SplitRest_Always == TRUE

SplitRest == h.size[op.node] - op.size >= MinSplit

\* A free node that is large enough.
TakeNode ==
    /\ op # Idle /\ first # NULL /\ Fits
    /\ h' = IF SplitRest THEN Split(h, op.node, op.size)
                         ELSE [h EXCEPT !.used[op.node] = MAGIC]
    /\ op' = Idle
    /\ UNCHANGED <<first, last>>

NextNode ==
    /\ op # Idle /\ first # NULL /\ Defrag /\ ~Fits /\ h.next[op.node] # NULL
    /\ op' = [op EXCEPT !.node = h.next[op.node]]
    /\ UNCHANGED <<first, last, h>>

\* No free node: a new one at the end.
NewNode ==
    LET new == op.node + 1 + h.size[op.node] IN
    /\ op # Idle /\ first # NULL /\ ~Fits /\ (Defrag => h.next[op.node] = NULL)
    /\ new + 1 + op.size <= Limit
    /\ h' = Appended(h, op.node, new, op.size)
    /\ last' = new /\ op' = Idle
    /\ UNCHANGED first

----------------------------------------------------------------------------
(* free.                                                                   *)

Freed(a) == [h EXCEPT !.used[a] = Free]

MergePrev_Never(g, a) == <<g, a>>

MergePrev(g, a) ==
    LET p == g.prev[a] IN
    IF p # NULL /\ g.used[p] = Free THEN <<Absorb(g, p, a), p>> ELSE <<g, a>>

MergeNext(g, a) ==
    LET n == g.next[a] IN
    IF n # NULL /\ g.used[n] = Free THEN Absorb(g, a, n) ELSE g

\* _heap_free of any address at or above _heap.start; a is its node.
free(a) ==
    /\ op = Idle
    /\ h.used[a] = MAGIC
    /\ h' = IF Defrag THEN LET m == MergePrev(Freed(a), a) IN MergeNext(m[1], m[2])
                      ELSE Freed(a)
    /\ UNCHANGED <<first, last, op>>

\* The address is not that of a used node: an error, ignored.
FreeIgnored(a) ==
    /\ op = Idle
    /\ h.used[a] # MAGIC
    /\ UNCHANGED vars

\* The owner of a block fills it (zalloc does so at once).
Write(n) ==
    /\ op = Idle
    /\ n \in h.nodes /\ h.used[n] = MAGIC
    /\ h' = [h EXCEPT !.used = [a \in Addr |-> IF a \in n + 1 .. n + h.size[n]
                                               THEN Data ELSE h.used[a]]]
    /\ UNCHANGED <<first, last, op>>

Next ==
    \/ \E bytes \in Requests : malloc(bytes)
    \/ FirstNode \/ TakeNode \/ NextNode \/ NewNode
    \/ \E a \in Addr : free(a)
    \/ \E a \in Addr : FreeIgnored(a)
    \/ \E n \in Addr : Write(n)

Spec == Init /\ [][Next]_vars

----------------------------------------------------------------------------
(* Properties.                                                             *)

Headers ==
    [used : [Addr -> {MAGIC, Free, Data}], size : [Addr -> 0 .. Limit],
     prev : [Addr -> Addr \cup {NULL}], next : [Addr -> Addr \cup {NULL}],
     nodes : SUBSET Addr]

\* Header fields, list ends and the request stay in their ranges; in particular
\* no subtraction of sizes goes below zero.
TypeOK ==
    /\ first \in {NULL, 0} /\ last \in Addr \cup {NULL}
    /\ h \in Headers
    /\ op \in [size : Nat \cup {-1}, node : Addr \cup {NULL}]

\* The nodes follow each other in memory without gap or overlap, in the order of
\* the list, and prev undoes next.
InHeap(N, size) == \A n \in N : n + 1 + size[n] <= Limit

NextLinks(N, size, prev, next) ==
    \A n \in N : next[n] # NULL => /\ next[n] \in N
                                   /\ next[n] = n + 1 + size[n]
                                   /\ prev[next[n]] = n

EndIsLast(N, next) == \A n \in N : next[n] = NULL => \A m \in N : m <= n

PrevLinks(N, prev, next) ==
    \A n \in N : /\ n = 0 => prev[n] = NULL
                 /\ n # 0 => prev[n] \in N /\ next[prev[n]] = n

Apart(N, size) == \A m, n \in N : m < n => m + 1 + size[m] <= n

List(N, size, prev, next) ==
    /\ InHeap(N, size) /\ NextLinks(N, size, prev, next) /\ EndIsLast(N, next)
    /\ PrevLinks(N, prev, next) /\ Apart(N, size)

ListOK(g) == List(g.nodes, g.size, g.prev, g.next)

\* The list of _heap is a partition of the memory from _heap.start on, whatever
\* order blocks are allocated, filled and freed in.
ListIntact ==
    /\ first = NULL <=> h.nodes = {}
    /\ first # NULL => 0 \in h.nodes
    /\ ListOK(h)

\* HEAP_USED_MAGIC is found at the nodes in use only, so that freeing a block a
\* second time is noticed, merged away or not, unless its header is in use again.
MagicAtNodesOnly ==
    \A a \in Addr : /\ h.used[a] = MAGIC => a \in h.nodes
                    /\ a \in h.nodes => h.used[a] # Data

\* Two free nodes are never neighbours: free merges on both sides.
Coalesced ==
    Defrag => \A n \in h.nodes : h.used[n] = Free /\ h.next[n] # NULL
                                   => h.used[h.next[n]] = MAGIC

\* The search is at a node of the list; without reuse, at the last one.
SearchOnList ==
    /\ op # Idle => op.size \in Nat
    /\ op # Idle /\ first # NULL => op.node \in h.nodes
    /\ ~Defrag /\ first # NULL => last \in h.nodes /\ h.next[last] = NULL
    /\ ~Defrag /\ op # Idle /\ first # NULL => op.node = last

HeapInv == TypeOK /\ ListIntact /\ MagicAtNodesOnly /\ Coalesced /\ SearchOnList

Live == {[addr |-> n + 1, len |-> h.size[n]] : n \in {m \in h.nodes : h.used[m] = MAGIC}}

Abstract == INSTANCE HeapAbstract
    WITH live <- Live, want <- op.size, Sizes <- {Align(b) : b \in Requests}

\* malloc and free do what HeapAbstract says of them: a block is as long as asked
\* for and apart from all others until it is freed, and free releases that block
\* and no other.
ImplementsAbstract == Abstract!Spec

=============================================================================
