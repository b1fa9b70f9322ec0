---------------------------- MODULE HeapProofs ----------------------------
(***************************************************************************)
(* Proofs about the heap, for every size of heap, unit and request and for *)
(* both builds: the list stays a partition of memory, and malloc and free  *)
(* keep the promise of HeapAbstract.                                       *)
(***************************************************************************)
EXTENDS Heap, TLAPS

AddrNull == Addr \cup {NULL}

\* Taking node n, the successor of m, out of a well-formed list.
LEMMA AbsorbList ==
    ASSUME NEW N \in SUBSET Addr, NEW S \in [Addr -> 0 .. Limit],
           NEW P \in [Addr -> AddrNull], NEW X \in [Addr -> AddrNull],
           List(N, S, P, X), NEW m \in N, NEW n \in N, X[m] = n,
           NEW S2 \in [Addr -> 0 .. Limit], NEW P2 \in [Addr -> AddrNull],
           NEW X2 \in [Addr -> AddrNull],
           \A a \in N \ {n} : S2[a] = IF a = m THEN S[m] + S[n] + 1 ELSE S[a],
           \A a \in N \ {n} : P2[a] = IF a = X[n] THEN m ELSE P[a],
           \A a \in N \ {n} : X2[a] = IF a = m THEN X[n] ELSE X[a]
    PROVE  List(N \ {n}, S2, P2, X2)
<1> DEFINE M == N \ {n}
<1>0. /\ Limit \in Nat /\ N \subseteq Int /\ NULL = -1 /\ NULL \notin N
      /\ \A a \in N : a >= 0 /\ S[a] \in Int /\ S[a] >= 0
  BY HeapConstants DEF Addr, NULL
<1>1. n = m + 1 + S[m] /\ P[n] = m
  BY <1>0 DEF List, NextLinks
<1>2. n # 0 /\ m < n
  BY <1>0, <1>1
<1>3. n + 1 + S[n] <= Limit
  BY DEF List, InHeap
<1>4. m \in M /\ S2[m] = S[m] + S[n] + 1 /\ X2[m] = X[n]
  BY <1>0, <1>2
<1>5. \A a \in M : a # m => S2[a] = S[a] /\ X2[a] = X[a]
  OBVIOUS
<1>6. InHeap(M, S2)
  <2> SUFFICES ASSUME NEW a \in M PROVE a + 1 + S2[a] <= Limit
    BY DEF InHeap
  <2>1. CASE a = m
    BY <1>0, <1>1, <1>3, <1>4, <2>1
  <2>2. CASE a # m
    BY <1>5, <2>2 DEF List, InHeap
  <2> QED BY <2>1, <2>2
<1>7. Apart(M, S2)
  <2> SUFFICES ASSUME NEW a \in M, NEW b \in M, a < b PROVE a + 1 + S2[a] <= b
    BY DEF Apart
  <2>1. CASE a = m
    <3>1. n <= b
      BY <1>0, <1>1, <2>1 DEF List, Apart
    <3>2. n + 1 + S[n] <= b
      BY <1>0, <3>1 DEF List, Apart
    <3> QED BY <1>0, <1>1, <1>4, <2>1, <3>2
  <2>2. CASE a # m
    BY <1>5, <2>2 DEF List, Apart
  <2> QED BY <2>1, <2>2
<1>8. EndIsLast(M, X2)
  <2> SUFFICES ASSUME NEW a \in M, X2[a] = NULL, NEW b \in M PROVE b <= a
    BY DEF EndIsLast
  <2>1. CASE a = m
    <3>1. b <= n
      BY <1>4, <2>1 DEF List, EndIsLast
    <3>2. ~(m < b)
      BY <1>0, <1>1, <3>1 DEF List, Apart
    <3> QED BY <1>0, <2>1, <3>2
  <2>2. CASE a # m
    BY <1>5, <2>2 DEF List, EndIsLast
  <2> QED BY <2>1, <2>2
<1>9. \A a \in M : a # m => X[a] # n
  BY <1>0, <1>1 DEF List, NextLinks
<1>10. NextLinks(M, S2, P2, X2)
  <2> SUFFICES ASSUME NEW a \in M, X2[a] # NULL
               PROVE  X2[a] \in M /\ X2[a] = a + 1 + S2[a] /\ P2[X2[a]] = a
    BY DEF NextLinks
  <2>1. CASE a = m
    <3>1. X[n] \in N /\ X[n] = n + 1 + S[n]
      BY <1>4, <2>1 DEF List, NextLinks
    <3>2. X[n] # n
      BY <1>0, <3>1
    <3> QED BY <1>0, <1>1, <1>4, <2>1, <3>1, <3>2
  <2>2. CASE a # m
    <3>1. X[a] # NULL /\ X2[a] = X[a] /\ S2[a] = S[a]
      BY <1>5, <2>2
    <3>2. X[a] \in N /\ X[a] = a + 1 + S[a] /\ P[X[a]] = a
      BY <3>1 DEF List, NextLinks
    <3>3. X[a] # n
      BY <1>9, <2>2
    <3>4. X[a] # X[n]
      <4> SUFFICES ASSUME X[a] = X[n] PROVE FALSE
        OBVIOUS
      <4>1. P[X[n]] = n
        BY <3>1 DEF List, NextLinks
      <4> QED BY <3>2, <4>1
    <3> QED BY <3>1, <3>2, <3>3, <3>4
  <2> QED BY <2>1, <2>2
<1>11. PrevLinks(M, P2, X2)
  <2> SUFFICES ASSUME NEW a \in M
               PROVE  /\ a = 0 => P2[a] = NULL
                      /\ a # 0 => P2[a] \in M /\ X2[P2[a]] = a
    BY DEF PrevLinks
  <2>1. CASE a = X[n]
    <3>1. a = n + 1 + S[n]
      BY <1>0, <2>1 DEF List, NextLinks
    <3>2. a # 0
      BY <1>0, <3>1
    <3> QED BY <1>4, <2>1, <3>2
  <2>2. CASE a # X[n]
    <3>1. P2[a] = P[a]
      BY <2>2
    <3>2. a # 0 => P[a] \in N /\ X[P[a]] = a
      BY DEF List, PrevLinks
    <3>3. a = 0 => P[a] = NULL
      BY DEF List, PrevLinks
    <3>4. a # 0 => P[a] # n /\ P[a] # m
      BY <2>2, <3>2
    <3> QED BY <1>5, <3>1, <3>2, <3>3, <3>4
  <2> QED BY <2>1, <2>2
<1> QED BY <1>6, <1>7, <1>8, <1>10, <1>11 DEF List

\* S2, P2, X2 are the fields S, P, X after node n took over m beyond its s units.
SplitAt(N, S, P, X, m, s, n, S2, P2, X2) ==
    \A a \in N \cup {n} :
        /\ S2[a] = IF a = n THEN S[m] - s - 1 ELSE IF a = m THEN s ELSE S[a]
        /\ P2[a] = IF a = n THEN m ELSE IF a = X[m] THEN n ELSE P[a]
        /\ X2[a] = IF a = n THEN X[m] ELSE IF a = m THEN n ELSE X[a]

\* A node n put between m and its successor takes the last units of m.
LEMMA SplitList ==
    ASSUME NEW N \in SUBSET Addr, NEW S \in [Addr -> 0 .. Limit],
           NEW P \in [Addr -> AddrNull], NEW X \in [Addr -> AddrNull],
           List(N, S, P, X), NEW m \in N, NEW s \in Nat, s + 1 <= S[m],
           NEW n \in Addr, n = m + 1 + s,
           NEW S2 \in [Addr -> 0 .. Limit], NEW P2 \in [Addr -> AddrNull],
           NEW X2 \in [Addr -> AddrNull],
           SplitAt(N, S, P, X, m, s, n, S2, P2, X2)
    PROVE  n \notin N /\ List(N \cup {n}, S2, P2, X2)
<1> DEFINE M == N \cup {n}
<1>0. /\ Limit \in Nat /\ N \subseteq Int /\ NULL = -1 /\ NULL \notin N
      /\ \A a \in N : a >= 0 /\ S[a] \in Int /\ S[a] >= 0
  BY HeapConstants DEF Addr, NULL
<1>1. n \in Int /\ n > m /\ n # 0 /\ n < m + 1 + S[m]
  BY <1>0
<1>2. m + 1 + S[m] <= Limit
  BY DEF List, InHeap
<1>3. n \notin N /\ n # NULL
  <2>1. n \in N => m + 1 + S[m] <= n
    BY <1>1 DEF List, Apart
  <2> QED BY <1>0, <1>1, <2>1
<1>4. /\ S2[n] = S[m] - s - 1 /\ S2[m] = s /\ X2[n] = X[m] /\ X2[m] = n /\ P2[n] = m
      /\ \A a \in N : a # m => S2[a] = S[a] /\ X2[a] = X[a]
      /\ \A a \in N : a # X[m] => P2[a] = P[a]
  BY <1>0, <1>1, <1>3 DEF SplitAt
<1>5. InHeap(M, S2)
  <2> SUFFICES ASSUME NEW a \in M PROVE a + 1 + S2[a] <= Limit
    BY DEF InHeap
  <2>1. CASE a = m \/ a = n
    BY <1>0, <1>1, <1>2, <1>4, <2>1
  <2>2. CASE a # m /\ a # n
    BY <1>4, <2>2 DEF List, InHeap
  <2> QED BY <2>1, <2>2
<1>6. Apart(M, S2)
  <2> SUFFICES ASSUME NEW a \in M, NEW b \in M, a < b PROVE a + 1 + S2[a] <= b
    BY DEF Apart
  <2>1. CASE a = n
    <3>1. b \in N /\ m < b
      BY <1>0, <1>1, <2>1
    <3>2. m + 1 + S[m] <= b
      BY <3>1 DEF List, Apart
    <3> QED BY <1>0, <1>4, <2>1, <3>1, <3>2
  <2>2. CASE a # n /\ b = n
    <3>1. CASE a = m
      BY <1>0, <1>1, <1>4, <2>2, <3>1
    <3>2. CASE a # m
      <4>1. a < m
        <5>1. m < a => m + 1 + S[m] <= a
          BY <2>2 DEF List, Apart
        <5> QED BY <1>0, <1>1, <2>2, <3>2, <5>1
      <4>2. a + 1 + S[a] <= m
        BY <2>2, <4>1 DEF List, Apart
      <4> QED BY <1>0, <1>1, <1>4, <2>2, <3>2, <4>2
    <3> QED BY <3>1, <3>2
  <2>3. CASE a # n /\ b # n
    <3>1. a + 1 + S[a] <= b
      BY <2>3 DEF List, Apart
    <3>2. CASE a = m
      BY <1>0, <1>1, <1>4, <2>3, <3>1, <3>2
    <3>3. CASE a # m
      BY <1>4, <2>3, <3>1, <3>3
    <3> QED BY <3>2, <3>3
  <2> QED BY <2>1, <2>2, <2>3
<1>7. EndIsLast(M, X2)
  <2> SUFFICES ASSUME NEW a \in M, X2[a] = NULL, NEW b \in M PROVE b <= a
    BY DEF EndIsLast
  <2>1. CASE a = n
    <3>1. b # n => b <= m
      BY <1>4, <2>1 DEF List, EndIsLast
    <3> QED BY <1>0, <1>1, <2>1, <3>1
  <2>2. CASE a # n
    <3>1. a # m /\ X[a] = NULL /\ a \in N
      BY <1>3, <1>4, <2>2
    <3>2. m <= a /\ (b # n => b <= a)
      BY <3>1 DEF List, EndIsLast
    <3>3. m + 1 + S[m] <= a
      BY <1>0, <3>1, <3>2 DEF List, Apart
    <3> QED BY <1>0, <1>1, <3>1, <3>2, <3>3
  <2> QED BY <2>1, <2>2
<1>8. NextLinks(M, S2, P2, X2)
  <2> SUFFICES ASSUME NEW a \in M, X2[a] # NULL
               PROVE  X2[a] \in M /\ X2[a] = a + 1 + S2[a] /\ P2[X2[a]] = a
    BY DEF NextLinks
  <2>1. CASE a = m
    BY <1>0, <1>4, <2>1
  <2>2. CASE a = n
    <3>1. X[m] \in N /\ X[m] = m + 1 + S[m]
      BY <1>4, <2>2 DEF List, NextLinks
    <3>2. P2[X[m]] = n
      BY <1>3, <3>1 DEF SplitAt
    <3> QED BY <1>0, <1>4, <2>2, <3>1, <3>2
  <2>3. CASE a # m /\ a # n
    <3>1. X2[a] = X[a] /\ S2[a] = S[a] /\ X[a] \in N /\ X[a] = a + 1 + S[a] /\ P[X[a]] = a
      BY <1>4, <2>3 DEF List, NextLinks
    <3>2. X[a] # X[m]
      <4> SUFFICES ASSUME X[a] = X[m] PROVE FALSE
        OBVIOUS
      <4>1. P[X[m]] = m
        BY <1>0, <3>1 DEF List, NextLinks
      <4> QED BY <2>3, <3>1, <4>1
    <3> QED BY <1>4, <3>1, <3>2
  <2> QED BY <2>1, <2>2, <2>3
<1>9. PrevLinks(M, P2, X2)
  <2> SUFFICES ASSUME NEW a \in M
               PROVE  /\ a = 0 => P2[a] = NULL
                      /\ a # 0 => P2[a] \in M /\ X2[P2[a]] = a
    BY DEF PrevLinks
  <2>1. CASE a = n
    BY <1>1, <1>4, <2>1
  <2>2. CASE a # n /\ a = X[m]
    <3>1. a = m + 1 + S[m] /\ a \in N
      BY <1>0, <2>2 DEF List, NextLinks
    <3>2. a # 0
      BY <1>0, <3>1
    <3>3. P2[a] = n
      BY <2>2 DEF SplitAt
    <3> QED BY <1>4, <2>2, <3>2, <3>3
  <2>3. CASE a # n /\ a # X[m]
    <3>1. a \in N /\ P2[a] = P[a]
      BY <1>4, <2>3
    <3>2. (a # 0 => P[a] \in N /\ X[P[a]] = a) /\ (a = 0 => P[a] = NULL)
      BY <3>1 DEF List, PrevLinks
    <3>3. a # 0 => P[a] # m
      BY <2>3, <3>2
    <3> QED BY <1>4, <3>1, <3>2, <3>3
  <2> QED BY <2>1, <2>2, <2>3
<1> QED BY <1>3, <1>5, <1>6, <1>7, <1>8, <1>9 DEF List

\* S2, P2, X2 are the fields S, P, X after node n of s units was put behind m.
AppendAt(N, S, P, X, m, s, n, S2, P2, X2) ==
    /\ X[m] = NULL /\ n = m + 1 + S[m] /\ n + 1 + s <= Limit
    /\ \A a \in N \cup {n} :
        /\ S2[a] = IF a = n THEN s ELSE S[a]
        /\ P2[a] = IF a = n THEN m ELSE P[a]
        /\ X2[a] = IF a = n THEN NULL ELSE IF a = m THEN n ELSE X[a]

\* A node n put behind the last one.
LEMMA AppendList ==
    ASSUME NEW N \in SUBSET Addr, NEW S \in [Addr -> 0 .. Limit],
           NEW P \in [Addr -> AddrNull], NEW X \in [Addr -> AddrNull],
           List(N, S, P, X), NEW m \in N, NEW s \in Nat, NEW n \in Addr,
           NEW S2 \in [Addr -> 0 .. Limit], NEW P2 \in [Addr -> AddrNull],
           NEW X2 \in [Addr -> AddrNull],
           AppendAt(N, S, P, X, m, s, n, S2, P2, X2)
    PROVE  n \notin N /\ List(N \cup {n}, S2, P2, X2)
<1> DEFINE M == N \cup {n}
<1>0. /\ Limit \in Nat /\ N \subseteq Int /\ NULL = -1 /\ NULL \notin N
      /\ \A a \in N : a >= 0 /\ S[a] \in Int /\ S[a] >= 0
  BY HeapConstants DEF Addr, NULL
<1>1. /\ n \in Int /\ n > m /\ n # 0 /\ n # NULL
      /\ n = m + 1 + S[m] /\ n + 1 + s <= Limit /\ X[m] = NULL
  BY <1>0 DEF AppendAt
<1>2. \A a \in N : a <= m
  BY <1>1 DEF List, EndIsLast
<1>3. n \notin N
  BY <1>0, <1>1, <1>2
<1>4. \A a \in N : a + 1 + S[a] <= n
  <2> SUFFICES ASSUME NEW a \in N PROVE a + 1 + S[a] <= n
    OBVIOUS
  <2>1. CASE a = m
    BY <1>0, <1>1, <2>1
  <2>2. CASE a # m
    <3>1. a < m
      BY <1>0, <1>2, <2>2
    <3>2. a + 1 + S[a] <= m
      BY <3>1 DEF List, Apart
    <3> QED BY <1>0, <1>1, <3>2
  <2> QED BY <2>1, <2>2
<1>5. /\ S2[n] = s /\ X2[n] = NULL /\ X2[m] = n /\ P2[n] = m
      /\ \A a \in N : S2[a] = S[a] /\ P2[a] = P[a] /\ (a # m => X2[a] = X[a])
  BY <1>3 DEF AppendAt
<1>6. InHeap(M, S2)
  BY <1>1, <1>5 DEF List, InHeap
<1>7. Apart(M, S2)
  <2> SUFFICES ASSUME NEW a \in M, NEW b \in M, a < b PROVE a + 1 + S2[a] <= b
    BY DEF Apart
  <2>1. a # n
    BY <1>0, <1>1, <1>2
  <2>2. CASE b = n
    BY <1>4, <1>5, <2>1, <2>2
  <2>3. CASE b # n
    BY <1>5, <2>1, <2>3 DEF List, Apart
  <2> QED BY <2>2, <2>3
<1>8. EndIsLast(M, X2)
  <2> SUFFICES ASSUME NEW a \in M, X2[a] = NULL, NEW b \in M PROVE b <= a
    BY DEF EndIsLast
  <2>1. CASE a = n
    BY <1>0, <1>1, <1>2, <2>1
  <2>2. CASE a # n
    <3>1. a \in N /\ a # m /\ X[a] = NULL
      BY <1>1, <1>5, <2>2
    <3>2. m <= a
      BY <3>1 DEF List, EndIsLast
    <3> QED BY <1>0, <1>2, <3>1, <3>2
  <2> QED BY <2>1, <2>2
<1>9. NextLinks(M, S2, P2, X2)
  <2> SUFFICES ASSUME NEW a \in M, X2[a] # NULL
               PROVE  X2[a] \in M /\ X2[a] = a + 1 + S2[a] /\ P2[X2[a]] = a
    BY DEF NextLinks
  <2>1. CASE a = m
    BY <1>1, <1>5, <2>1
  <2>2. CASE a # m
    <3>1. a \in N
      BY <1>5
    <3> QED BY <1>5, <2>2, <3>1 DEF List, NextLinks
  <2> QED BY <2>1, <2>2
<1>10. PrevLinks(M, P2, X2)
  <2> SUFFICES ASSUME NEW a \in M
               PROVE  /\ a = 0 => P2[a] = NULL
                      /\ a # 0 => P2[a] \in M /\ X2[P2[a]] = a
    BY DEF PrevLinks
  <2>1. CASE a = n
    BY <1>1, <1>5, <2>1
  <2>2. CASE a # n
    <3>1. a \in N /\ P2[a] = P[a] /\ (a = 0 => P[a] = NULL)
          /\ (a # 0 => P[a] \in N /\ X[P[a]] = a)
      BY <1>5, <2>2 DEF List, PrevLinks
    <3>2. a # NULL
      BY <1>0, <3>1
    <3> QED BY <1>1, <1>5, <3>1, <3>2
  <2> QED BY <2>1, <2>2
<1> QED BY <1>3, <1>6, <1>7, <1>8, <1>9, <1>10 DEF List

\* The same three facts of the operations on the headers.
LEMMA AbsorbOK ==
    ASSUME NEW g \in Headers, ListOK(g), NEW m \in g.nodes, NEW n \in g.nodes,
           g.next[m] = n
    PROVE  /\ Absorb(g, m, n) \in Headers /\ ListOK(Absorb(g, m, n))
           /\ m # n /\ n # 0
<1> DEFINE r == Absorb(g, m, n)
<1>1. /\ g.nodes \in SUBSET Addr /\ g.size \in [Addr -> 0 .. Limit]
      /\ g.prev \in [Addr -> AddrNull] /\ g.next \in [Addr -> AddrNull]
      /\ g.used \in [Addr -> {MAGIC, Free, Data}]
      /\ m \in Addr /\ n \in Addr
  BY DEF Headers, AddrNull
<1>2. /\ n = m + 1 + g.size[m] /\ n + 1 + g.size[n] <= Limit
      /\ g.size[m] \in 0 .. Limit /\ g.size[n] \in 0 .. Limit
      /\ m \in Nat /\ n \in Nat /\ Limit \in Nat
  <2>1. n # NULL
    BY <1>1, HeapConstants DEF NULL, Addr
  <2>2. n = m + 1 + g.size[m]
    BY <2>1 DEF ListOK, List, NextLinks
  <2>3. n + 1 + g.size[n] <= Limit
    BY DEF ListOK, List, InHeap
  <2>4. m \in Nat /\ n \in Nat /\ Limit \in Nat
    BY <1>1, HeapConstants DEF Addr
  <2> QED BY <1>1, <2>2, <2>3, <2>4
<1>3. n # 0 /\ m # n /\ g.size[m] + g.size[n] + 1 \in 0 .. Limit
  BY <1>2
<1>4. /\ r.nodes = g.nodes \ {n} /\ r.used = g.used
      /\ r.size = [g.size EXCEPT ![m] = g.size[m] + g.size[n] + 1, ![n] = 0]
      /\ r.next = [g.next EXCEPT ![m] = g.next[n], ![n] = NULL]
      /\ r.prev = [a \in Addr |-> IF a = n THEN NULL
                                  ELSE IF a = g.next[n] THEN m ELSE g.prev[a]]
      /\ r = [used |-> r.used, size |-> r.size, prev |-> r.prev, next |-> r.next,
              nodes |-> r.nodes]
  BY <1>1, <1>3 DEF Absorb
<1> HIDE DEF r
<1>5. r.size \in [Addr -> 0 .. Limit]
  BY <1>1, <1>3, <1>4, HeapConstants
<1>6. r.next \in [Addr -> AddrNull] /\ r.prev \in [Addr -> AddrNull]
  BY <1>1, <1>4 DEF AddrNull
<1>7. r \in Headers
  BY <1>1, <1>4, <1>5, <1>6 DEF Headers, AddrNull
<1>8. /\ \A a \in g.nodes \ {n} :
            r.size[a] = IF a = m THEN g.size[m] + g.size[n] + 1 ELSE g.size[a]
      /\ \A a \in g.nodes \ {n} : r.prev[a] = IF a = g.next[n] THEN m ELSE g.prev[a]
      /\ \A a \in g.nodes \ {n} : r.next[a] = IF a = m THEN g.next[n] ELSE g.next[a]
  BY <1>1, <1>3, <1>4
<1>9. List(g.nodes \ {n}, r.size, r.prev, r.next)
  BY <1>1, <1>5, <1>6, <1>8, AbsorbList DEF ListOK
<1> QED BY <1>3, <1>4, <1>7, <1>9 DEF ListOK, r

LEMMA SplitOK ==
    ASSUME NEW g \in Headers, ListOK(g), NEW m \in g.nodes,
           NEW s \in Nat, s + 1 <= g.size[m]
    PROVE  /\ Split(g, m, s) \in Headers /\ ListOK(Split(g, m, s))
           /\ m + 1 + s \in Addr \ g.nodes
<1> DEFINE r == Split(g, m, s)
           n == m + 1 + s
<1>1. /\ g.nodes \in SUBSET Addr /\ g.size \in [Addr -> 0 .. Limit]
      /\ g.prev \in [Addr -> AddrNull] /\ g.next \in [Addr -> AddrNull]
      /\ g.used \in [Addr -> {MAGIC, Free, Data}]
      /\ m \in Addr
  BY DEF Headers, AddrNull
<1>2. g.size[m] \in 0 .. Limit /\ m \in Nat /\ Limit \in Nat
  BY <1>1, HeapConstants DEF Addr
<1>3. g.size[m] - s - 1 \in 0 .. Limit /\ s \in 0 .. Limit /\ n # m /\ n \in Nat
  BY <1>2
<1>4. n \in Addr
  <2>1. m + 1 + g.size[m] <= Limit
    BY DEF ListOK, List, InHeap
  <2> QED BY <1>2, <2>1 DEF Addr
<1>5. /\ r.nodes = g.nodes \cup {n}
      /\ r.used = [g.used EXCEPT ![n] = Free, ![m] = MAGIC]
      /\ r.size = [g.size EXCEPT ![n] = g.size[m] - s - 1, ![m] = s]
      /\ r.prev = [a \in Addr |-> IF a = n THEN m ELSE IF a = g.next[m] THEN n ELSE g.prev[a]]
      /\ r.next = [g.next EXCEPT ![n] = g.next[m], ![m] = n]
      /\ r = [used |-> r.used, size |-> r.size, prev |-> r.prev, next |-> r.next,
              nodes |-> r.nodes]
  BY DEF Split
<1> HIDE DEF r, n
<1>6. r.size \in [Addr -> 0 .. Limit] /\ r.used \in [Addr -> {MAGIC, Free, Data}]
  BY <1>1, <1>3, <1>5
<1>7. r.next \in [Addr -> AddrNull] /\ r.prev \in [Addr -> AddrNull]
  BY <1>1, <1>4, <1>5 DEF AddrNull
<1>8. r \in Headers
  BY <1>1, <1>4, <1>5, <1>6, <1>7 DEF Headers, AddrNull
<1>9. SplitAt(g.nodes, g.size, g.prev, g.next, m, s, n, r.size, r.prev, r.next)
  BY <1>1, <1>3, <1>4, <1>5 DEF SplitAt
<1>10. n \notin g.nodes /\ List(g.nodes \cup {n}, r.size, r.prev, r.next)
  <2>1. n = m + 1 + s
    BY DEF n
  <2> QED BY <1>1, <1>4, <1>6, <1>7, <1>9, <2>1, SplitList DEF ListOK
<1> QED BY <1>4, <1>5, <1>8, <1>10 DEF ListOK, r, n

LEMMA AppendOK ==
    ASSUME NEW g \in Headers, ListOK(g), NEW m \in g.nodes, g.next[m] = NULL,
           NEW s \in Nat, m + 1 + g.size[m] + 1 + s <= Limit
    PROVE  /\ Appended(g, m, m + 1 + g.size[m], s) \in Headers
           /\ ListOK(Appended(g, m, m + 1 + g.size[m], s))
           /\ m + 1 + g.size[m] \in Addr \ g.nodes
<1> DEFINE n == m + 1 + g.size[m]
           r == Appended(g, m, n, s)
<1>1. /\ g.nodes \in SUBSET Addr /\ g.size \in [Addr -> 0 .. Limit]
      /\ g.prev \in [Addr -> AddrNull] /\ g.next \in [Addr -> AddrNull]
      /\ g.used \in [Addr -> {MAGIC, Free, Data}]
      /\ m \in Addr
  BY DEF Headers, AddrNull
<1>2. g.size[m] \in Nat /\ m \in Nat /\ Limit \in Nat
  BY <1>1, HeapConstants DEF Addr
<1>3. s \in 0 .. Limit /\ n # m /\ n \in Addr
  BY <1>2 DEF Addr
<1>4. /\ r.nodes = g.nodes \cup {n}
      /\ r.used = [g.used EXCEPT ![n] = MAGIC]
      /\ r.size = [g.size EXCEPT ![n] = s]
      /\ r.prev = [g.prev EXCEPT ![n] = m]
      /\ r.next = [a \in Addr |-> IF a = n THEN NULL ELSE IF a = m THEN n ELSE g.next[a]]
      /\ r = [used |-> r.used, size |-> r.size, prev |-> r.prev, next |-> r.next,
              nodes |-> r.nodes]
  BY DEF Appended
<1>5. n + 1 + s <= Limit
  OBVIOUS
<1>6. n = m + 1 + g.size[m]
  OBVIOUS
<1> HIDE DEF r, n
<1>7. r.size \in [Addr -> 0 .. Limit] /\ r.used \in [Addr -> {MAGIC, Free, Data}]
  BY <1>1, <1>3, <1>4
<1>8. r.next \in [Addr -> AddrNull] /\ r.prev \in [Addr -> AddrNull]
  BY <1>1, <1>3, <1>4 DEF AddrNull
<1>9. r \in Headers
  BY <1>1, <1>3, <1>4, <1>7, <1>8 DEF Headers, AddrNull
<1>10. AppendAt(g.nodes, g.size, g.prev, g.next, m, s, n, r.size, r.prev, r.next)
  BY <1>1, <1>3, <1>4, <1>5, <1>6 DEF AppendAt
<1>11. n \notin g.nodes /\ List(g.nodes \cup {n}, r.size, r.prev, r.next)
  <2>1. List(g.nodes, g.size, g.prev, g.next)
    BY DEF ListOK
  <2> QED BY <1>1, <1>3, <1>7, <1>8, <1>10, <2>1, AppendList
<1> QED BY <1>3, <1>4, <1>6, <1>9, <1>11 DEF ListOK, r, n

----------------------------------------------------------------------------
(* The words that tell used nodes.                                         *)

\* Marks(g): HEAP_USED_MAGIC only at nodes, and every node marked.
Marks(g) == \A a \in Addr : /\ g.used[a] = MAGIC => a \in g.nodes
                            /\ a \in g.nodes => g.used[a] # Data

\* No two free neighbours but perhaps b and its successor.
CoalescedBut(g, b) ==
    \A n \in g.nodes : n # b /\ g.used[n] = Free /\ g.next[n] # NULL
                          => g.used[g.next[n]] = MAGIC

\* What a step of free keeps.
Sound(g) == g \in Headers /\ ListOK(g) /\ 0 \in g.nodes /\ Marks(g)

LEMMA SoundTypes ==
    ASSUME NEW g, Sound(g)
    PROVE  /\ g.nodes \in SUBSET Addr /\ g.size \in [Addr -> 0 .. Limit]
           /\ g.prev \in [Addr -> Addr \cup {NULL}]
           /\ g.next \in [Addr -> Addr \cup {NULL}]
           /\ g.used \in [Addr -> {MAGIC, Free, Data}]
           /\ NULL \notin Addr
           /\ \A n \in g.nodes : n # 0 => g.prev[n] \in g.nodes /\ g.next[g.prev[n]] = n
           /\ g.prev[0] = NULL
           /\ \A n \in g.nodes : g.next[n] # NULL => g.next[n] \in g.nodes
                                                     /\ g.prev[g.next[n]] = n
<1>1. NULL \notin Addr
  BY HeapConstants DEF NULL, Addr
<1> QED BY <1>1 DEF Sound, Headers, ListOK, List, PrevLinks, NextLinks

\* Merging the free node n into the free node m before it.
LEMMA AbsorbSound ==
    ASSUME NEW g, Sound(g), NEW m \in g.nodes, NEW n \in g.nodes, g.next[m] = n,
           g.used[n] = Free
    PROVE  /\ Sound(Absorb(g, m, n))
           /\ Absorb(g, m, n).nodes = g.nodes \ {n}
           /\ Absorb(g, m, n).used = g.used
           /\ \A a \in g.nodes \ {n} :
                 Absorb(g, m, n).next[a] = IF a = m THEN g.next[n] ELSE g.next[a]
           /\ \A a \in Addr \ {m, n} : Absorb(g, m, n).size[a] = g.size[a]
           /\ m # n
<1> DEFINE r == Absorb(g, m, n)
<1>1. g \in Headers /\ ListOK(g) /\ 0 \in g.nodes
  BY DEF Sound
<1>2. r \in Headers /\ ListOK(r) /\ m # n /\ n # 0
  BY <1>1, AbsorbOK
<1>3. r.nodes = g.nodes \ {n} /\ r.used = g.used
      /\ r.next = [g.next EXCEPT ![m] = g.next[n], ![n] = NULL]
      /\ r.size = [g.size EXCEPT ![m] = @ + g.size[n] + 1, ![n] = 0]
  BY DEF Absorb
<1> HIDE DEF r
<1>4. Marks(r)
  <2>1. MAGIC # Free
    BY DEF MAGIC, Free
  <2> QED BY <1>3, <2>1 DEF Sound, Marks
<1>5. \A a \in g.nodes \ {n} : r.next[a] = IF a = m THEN g.next[n] ELSE g.next[a]
  BY <1>2, <1>3, SoundTypes
<1>6. \A a \in Addr \ {m, n} : r.size[a] = g.size[a]
  BY <1>3, SoundTypes
<1> QED BY <1>1, <1>2, <1>3, <1>4, <1>5, <1>6 DEF Sound, r

\* The same blocks are in use, with the same sizes.
SameUsed(f, g) ==
    /\ g.used = f.used
    /\ \A x \in Addr : f.used[x] = MAGIC => g.size[x] = f.size[x]

\* The first half of free: afterwards only the free node b may have a free
\* successor.
LEMMA MergePrevOK ==
    ASSUME NEW f, Sound(f), NEW a \in f.nodes, f.used[a] = Free,
           \A n \in f.nodes : n # a /\ f.next[n] # a /\ f.used[n] = Free /\ f.next[n] # NULL
                                 => f.used[f.next[n]] = MAGIC
    PROVE  LET r == MergePrev(f, a) IN
           /\ Sound(r[1]) /\ r[2] \in r[1].nodes /\ r[1].used[r[2]] = Free
           /\ CoalescedBut(r[1], r[2]) /\ SameUsed(f, r[1])
<1> DEFINE p == f.prev[a]
<1>0. MAGIC # Free
  BY DEF MAGIC, Free
<1>1. CASE p # NULL /\ f.used[p] = Free
  <2> DEFINE g == Absorb(f, p, a)
  <2>1. a # 0 /\ p \in f.nodes /\ f.next[p] = a
    BY <1>1, SoundTypes
  <2>2. /\ Sound(g) /\ g.nodes = f.nodes \ {a} /\ g.used = f.used /\ p # a
        /\ \A x \in f.nodes \ {a} : g.next[x] = IF x = p THEN f.next[a] ELSE f.next[x]
        /\ \A x \in Addr \ {p, a} : g.size[x] = f.size[x]
    BY <2>1, AbsorbSound
  <2>3. MergePrev(f, a) = <<g, p>>
    BY <1>1 DEF MergePrev
  <2> HIDE DEF g
  <2>4. CoalescedBut(g, p)
    <3> SUFFICES ASSUME NEW n \in g.nodes, n # p, g.used[n] = Free, g.next[n] # NULL
                 PROVE  g.used[g.next[n]] = MAGIC
      BY DEF CoalescedBut
    <3>1. n \in f.nodes /\ n # a /\ g.next[n] = f.next[n]
      BY <2>2
    <3>2. f.next[n] # a
      BY <3>1, SoundTypes
    <3> QED BY <2>2, <3>1, <3>2
  <2>5. SameUsed(f, g)
    BY <1>0, <1>1, <2>2 DEF SameUsed
  <2> QED BY <1>1, <2>1, <2>2, <2>3, <2>4, <2>5
<1>2. CASE ~(p # NULL /\ f.used[p] = Free)
  <2>1. MergePrev(f, a) = <<f, a>>
    BY <1>2 DEF MergePrev
  <2>2. CoalescedBut(f, a)
    <3> SUFFICES ASSUME NEW n \in f.nodes, n # a, f.used[n] = Free, f.next[n] # NULL
                 PROVE  f.used[f.next[n]] = MAGIC
      BY DEF CoalescedBut
    <3>1. f.next[n] # a
      <4> SUFFICES ASSUME f.next[n] = a PROVE FALSE
        OBVIOUS
      <4>1. p = n
        BY SoundTypes
      <4>2. n # NULL
        BY SoundTypes
      <4> QED BY <1>2, <4>1, <4>2
    <3> QED BY <3>1
  <2>3. SameUsed(f, f)
    BY DEF SameUsed
  <2> QED BY <2>1, <2>2, <2>3
<1> QED BY <1>1, <1>2

\* The second half of free: no two free neighbours are left.
LEMMA MergeNextOK ==
    ASSUME NEW g, Sound(g), NEW b \in g.nodes, g.used[b] = Free, CoalescedBut(g, b)
    PROVE  LET r == MergeNext(g, b) IN
           Sound(r) /\ CoalescedBut(r, NULL) /\ SameUsed(g, r)
<1> DEFINE c == g.next[b]
<1>0. MAGIC # Free
  BY DEF MAGIC, Free
<1>1. CASE c # NULL /\ g.used[c] = Free
  <2> DEFINE r == Absorb(g, b, c)
  <2>1. c \in g.nodes /\ g.prev[c] = b
    BY <1>1, SoundTypes
  <2>2. /\ Sound(r) /\ r.nodes = g.nodes \ {c} /\ r.used = g.used /\ b # c
        /\ \A x \in g.nodes \ {c} : r.next[x] = IF x = b THEN g.next[c] ELSE g.next[x]
        /\ \A x \in Addr \ {b, c} : r.size[x] = g.size[x]
    BY <1>1, <2>1, AbsorbSound
  <2>3. MergeNext(g, b) = r
    BY <1>1 DEF MergeNext
  <2> HIDE DEF r
  <2>4. CoalescedBut(r, NULL)
    <3> SUFFICES ASSUME NEW n \in r.nodes, r.used[n] = Free, r.next[n] # NULL
                 PROVE  r.used[r.next[n]] = MAGIC
      BY DEF CoalescedBut
    <3>1. n \in g.nodes /\ n # c
      BY <2>2
    <3>2. CASE n = b
      <4>1. r.next[n] = g.next[c]
        BY <2>2, <3>1, <3>2
      <4> QED BY <1>1, <2>1, <2>2, <4>1 DEF CoalescedBut
    <3>3. CASE n # b
      <4>1. r.next[n] = g.next[n]
        BY <2>2, <3>1, <3>3
      <4> QED BY <2>2, <3>1, <3>3, <4>1 DEF CoalescedBut
    <3> QED BY <3>2, <3>3
  <2>5. SameUsed(g, r)
    BY <1>0, <1>1, <2>2 DEF SameUsed
  <2> QED BY <2>2, <2>3, <2>4, <2>5
<1>2. CASE ~(c # NULL /\ g.used[c] = Free)
  <2>1. MergeNext(g, b) = g
    BY <1>2 DEF MergeNext
  <2>2. c # NULL => g.used[c] = MAGIC
    <3> SUFFICES ASSUME c # NULL PROVE g.used[c] = MAGIC
      OBVIOUS
    <3>1. c \in g.nodes /\ c \in Addr
      BY SoundTypes
    <3>2. g.used[c] \in {MAGIC, Free, Data} /\ g.used[c] # Data
      BY <3>1, SoundTypes DEF Sound, Marks
    <3> QED BY <1>2, <3>2
  <2>3. CoalescedBut(g, NULL)
    BY <2>2 DEF CoalescedBut
  <2>4. SameUsed(g, g)
    BY DEF SameUsed
  <2> QED BY <2>1, <2>3, <2>4
<1> QED BY <1>1, <1>2

----------------------------------------------------------------------------
(* The invariant.                                                          *)

\* Sizes are rounded up to a natural number of units.
LEMMA AlignNat == ASSUME NEW b \in Requests PROVE Align(b) \in Nat
  BY HeapConstants DEF Align

\* The first node.
LEMMA FirstOK ==
    ASSUME NEW g \in Headers, g.nodes = {}, NEW s \in Nat, 1 + s <= Limit
    PROVE  LET r == Appended(g, NULL, 0, s) IN
           r \in Headers /\ ListOK(r) /\ r.nodes = {0}
           /\ r.used = [g.used EXCEPT ![0] = MAGIC] /\ r.size[0] = s /\ r.next[0] = NULL
<1> DEFINE r == Appended(g, NULL, 0, s)
<1>0. NULL = -1 /\ 0 \in Addr /\ s \in 0 .. Limit /\ NULL \notin Addr
  BY HeapConstants DEF NULL, Addr
<1>1. /\ g.size \in [Addr -> 0 .. Limit] /\ g.used \in [Addr -> {MAGIC, Free, Data}]
      /\ g.prev \in [Addr -> Addr \cup {NULL}] /\ g.next \in [Addr -> Addr \cup {NULL}]
  BY DEF Headers
<1>2. /\ r.nodes = {0} /\ r.used = [g.used EXCEPT ![0] = MAGIC]
      /\ r.size = [g.size EXCEPT ![0] = s] /\ r.prev = [g.prev EXCEPT ![0] = NULL]
      /\ r.next = [x \in Addr |-> IF x = 0 THEN NULL ELSE IF x = NULL THEN 0 ELSE g.next[x]]
      /\ r = [used |-> r.used, size |-> r.size, prev |-> r.prev, next |-> r.next,
              nodes |-> r.nodes]
  BY DEF Appended
<1> HIDE DEF r
<1>3. r.size[0] = s /\ r.prev[0] = NULL /\ r.next[0] = NULL
  BY <1>0, <1>1, <1>2
<1>4. r.next \in [Addr -> Addr \cup {NULL}]
  BY <1>0, <1>1, <1>2
<1>5. r \in Headers
  BY <1>0, <1>1, <1>2, <1>4 DEF Headers
<1>6. ListOK(r)
  BY <1>0, <1>2, <1>3
  DEF ListOK, List, InHeap, NextLinks, EndIsLast, PrevLinks, Apart
<1> QED BY <1>2, <1>3, <1>5, <1>6 DEF r

\* With a node in the list everything HeapInv says of the headers is Sound and
\* CoalescedBut.
LEMMA InvSound ==
    ASSUME HeapInv, first # NULL
    PROVE  Sound(h) /\ (Defrag => CoalescedBut(h, NULL))
  BY DEF HeapInv, TypeOK, ListIntact, MagicAtNodesOnly, Coalesced, Sound, Marks,
         CoalescedBut

LEMMA SoundInv ==
    ASSUME Sound(h)', first' = 0, (Defrag => CoalescedBut(h, NULL)'),
           last' \in Addr \cup {NULL}, op' = Idle,
           ~Defrag => last' \in h'.nodes /\ h'.next[last'] = NULL
    PROVE  HeapInv'
<1>1. NULL \notin Addr /\ 0 # NULL
  BY HeapConstants DEF NULL, Addr
<1>2. TypeOK'
  BY DEF TypeOK, Sound, Idle
<1>3. ListIntact'
  BY <1>1 DEF ListIntact, Sound
<1>4. MagicAtNodesOnly' /\ SearchOnList'
  BY DEF MagicAtNodesOnly, Sound, Marks, SearchOnList
<1>5. Coalesced'
  <2>1. h'.nodes \subseteq Addr
    BY DEF Sound, Headers
  <2> QED BY <1>1, <2>1 DEF Coalesced, CoalescedBut
<1> QED BY <1>2, <1>3, <1>4, <1>5 DEF HeapInv

\* The heap starts empty.
LEMMA InvInit == Init => HeapInv
<1> SUFFICES ASSUME Init PROVE HeapInv
  OBVIOUS
<1>1. NULL = -1 /\ Limit \in Nat /\ 0 \in 0 .. Limit
  BY HeapConstants DEF NULL
<1>2. h \in Headers
  BY <1>1 DEF Init, Headers
<1>3. h.nodes = {} /\ \A x \in Addr : h.used[x] = Data
  BY DEF Init
<1>4. TypeOK
  BY <1>1, <1>2 DEF Init, TypeOK, Idle
<1>5. ListIntact
  BY <1>3 DEF Init, ListIntact, ListOK, List, InHeap, NextLinks, EndIsLast, PrevLinks, Apart
<1>6. MagicAtNodesOnly /\ Coalesced /\ SearchOnList
  BY <1>3 DEF Init, MagicAtNodesOnly, Coalesced, SearchOnList, MAGIC, Data
<1> QED BY <1>4, <1>5, <1>6 DEF HeapInv

\* A step that hands out node m, and touches no other block in use.
Hands(m) ==
    /\ Sound(h') /\ (Defrag => CoalescedBut(h', NULL))
    /\ m \in h'.nodes /\ h'.used[m] = MAGIC /\ h.used[m] # MAGIC
    /\ op.size <= h'.size[m] /\ op.size \in Nat /\ op # Idle
    /\ \A x \in Addr : x # m => /\ h'.used[x] = MAGIC <=> h.used[x] = MAGIC
                                /\ h.used[x] = MAGIC => h'.size[x] = h.size[x]
    /\ first' = 0 /\ last' \in Addr \cup {NULL} /\ op' = Idle
    /\ ~Defrag => last' \in h'.nodes /\ h'.next[last'] = NULL

LEMMA FirstHands == ASSUME HeapInv, FirstNode PROVE Hands(0)
<1>0. MAGIC # Free /\ MAGIC # Data
  BY DEF MAGIC, Free, Data
<1>1. /\ h \in Headers /\ h.nodes = {} /\ op.size \in Nat /\ op # Idle
      /\ \A x \in Addr : h.used[x] # MAGIC
  BY DEF HeapInv, TypeOK, ListIntact, FirstNode, SearchOnList, MagicAtNodesOnly
<1>2. /\ h' \in Headers /\ ListOK(h') /\ h'.nodes = {0}
      /\ h'.used = [h.used EXCEPT ![0] = MAGIC] /\ h'.size[0] = op.size
      /\ h'.next[0] = NULL
  BY <1>1, FirstOK DEF FirstNode
<1>3. 0 \in Addr /\ h.used \in [Addr -> {MAGIC, Free, Data}] /\ op.size <= op.size
  BY <1>1, HeapConstants DEF FirstNode, Addr, Headers
<1>4. Sound(h')
  BY <1>0, <1>1, <1>2, <1>3 DEF Sound, Marks
<1>5. CoalescedBut(h', NULL)
  BY <1>2 DEF CoalescedBut
<1>6. first' = 0 /\ last' = 0 /\ op' = Idle
  BY DEF FirstNode
<1> QED BY <1>1, <1>2, <1>3, <1>4, <1>5, <1>6 DEF Hands

LEMMA TakeHands == ASSUME HeapInv, TakeNode PROVE Hands(op.node)
<1> DEFINE m == op.node
<1>0. MAGIC # Free /\ MAGIC # Data /\ Free # Data
  BY DEF MAGIC, Free, Data
<1>1. /\ Sound(h) /\ CoalescedBut(h, NULL) /\ m \in h.nodes /\ op.size \in Nat /\ op # Idle
      /\ h.used[m] = Free /\ op.size <= h.size[m] /\ Defrag /\ first' = first /\ last' = last
      /\ first = 0 /\ op' = Idle
  BY InvSound DEF HeapInv, TypeOK, SearchOnList, TakeNode, Fits
<1>2. /\ h.used \in [Addr -> {MAGIC, Free, Data}] /\ h.nodes \subseteq Addr /\ m \in Addr
      /\ h.size \in [Addr -> 0 .. Limit] /\ h.next \in [Addr -> Addr \cup {NULL}]
      /\ NULL \notin Addr
  BY <1>1, SoundTypes
<1>3. last' \in Addr \cup {NULL}
  BY <1>1 DEF HeapInv, TypeOK
<1>4. CASE SplitRest
  <2> DEFINE n == m + 1 + op.size
  <2>1. op.size + 1 <= h.size[m]
    <3>1. h.size[m] - op.size >= MinSplit /\ MinSplit >= 1
      BY <1>4, HeapConstants DEF SplitRest
    <3> QED BY <1>1, <1>2, <3>1, HeapConstants
  <2>2. h' = Split(h, m, op.size)
    BY <1>4 DEF TakeNode
  <2>3. h' \in Headers /\ ListOK(h') /\ n \in Addr /\ n \notin h.nodes
    BY <1>1, <2>1, <2>2, SplitOK DEF Sound
  <2>4. /\ h'.nodes = h.nodes \cup {n}
        /\ h'.used = [h.used EXCEPT ![n] = Free, ![m] = MAGIC]
        /\ h'.size = [h.size EXCEPT ![n] = h.size[m] - op.size - 1, ![m] = op.size]
        /\ h'.next = [h.next EXCEPT ![n] = h.next[m], ![m] = n]
    BY <2>2 DEF Split
  <2>5. /\ h'.used[n] = Free /\ h'.used[m] = MAGIC /\ m # n
        /\ h'.next[n] = h.next[m] /\ h'.next[m] = n /\ h'.size[m] = op.size
        /\ \A x \in Addr : x # n /\ x # m => /\ h'.used[x] = h.used[x]
                                             /\ h'.size[x] = h.size[x]
                                             /\ h'.next[x] = h.next[x]
    BY <1>1, <1>2, <2>3, <2>4
  <2> HIDE DEF n
  <2>6. h.used[n] # MAGIC
    BY <1>1, <2>3 DEF Sound, Marks
  <2>7. Sound(h')
    BY <1>0, <1>1, <1>2, <2>3, <2>4, <2>5 DEF Sound, Marks
  <2>8. CoalescedBut(h', NULL)
    <3> SUFFICES ASSUME NEW x \in h'.nodes, h'.used[x] = Free, h'.next[x] # NULL
                 PROVE  h'.used[h'.next[x]] = MAGIC
      BY DEF CoalescedBut
    <3>1. CASE x = n
      <4>1. h.next[m] # NULL /\ h.next[m] \in h.nodes
        BY <1>1, <2>5, <3>1, SoundTypes
      <4>2. h.used[h.next[m]] = MAGIC
        BY <1>1, <1>2, <4>1 DEF CoalescedBut
      <4> QED BY <1>0, <1>1, <1>2, <2>3, <2>5, <3>1, <4>1, <4>2
    <3>2. CASE x # n
      <4>1. x \in h.nodes /\ x # m /\ x \in Addr
        BY <1>0, <1>2, <2>4, <2>5, <3>2
      <4>2. h.used[x] = Free /\ h'.next[x] = h.next[x] /\ h.next[x] # NULL
        BY <2>5, <3>2, <4>1
      <4>3. h.next[x] \in h.nodes /\ h.used[h.next[x]] = MAGIC /\ x # NULL
        BY <1>1, <1>2, <4>1, <4>2, SoundTypes DEF CoalescedBut
      <4>4. h.next[x] # m /\ h.next[x] # n
        BY <1>0, <1>1, <2>3, <4>3
      <4> QED BY <1>2, <2>5, <4>2, <4>3, <4>4
    <3> QED BY <3>1, <3>2
  <2>9. \A x \in Addr : x # m => /\ h'.used[x] = MAGIC <=> h.used[x] = MAGIC
                                 /\ h.used[x] = MAGIC => h'.size[x] = h.size[x]
    BY <1>0, <2>5, <2>6
  <2> QED BY <1>0, <1>1, <1>3, <2>4, <2>5, <2>7, <2>8, <2>9 DEF Hands
<1>5. CASE ~SplitRest
  <2>1. h' = [h EXCEPT !.used[m] = MAGIC]
    BY <1>5 DEF TakeNode
  <2>2. /\ h'.nodes = h.nodes /\ h'.size = h.size /\ h'.next = h.next /\ h'.prev = h.prev
        /\ h'.used = [h.used EXCEPT ![m] = MAGIC]
    BY <1>1, <2>1 DEF Sound, Headers
  <2>3. h' \in Headers
    BY <1>1, <1>2, <2>1 DEF Sound, Headers
  <2>4. Sound(h')
    BY <1>0, <1>1, <1>2, <2>2, <2>3 DEF Sound, Marks, ListOK
  <2>5. CoalescedBut(h', NULL)
    BY <1>0, <1>1, <1>2, <2>2 DEF CoalescedBut
  <2>6. \A x \in Addr : x # m => h'.used[x] = h.used[x] /\ h'.size[x] = h.size[x]
    BY <1>2, <2>2
  <2> QED BY <1>0, <1>1, <1>2, <1>3, <2>2, <2>4, <2>5, <2>6 DEF Hands
<1> QED BY <1>4, <1>5

LEMMA NewHands ==
    ASSUME HeapInv, NewNode PROVE Hands(op.node + 1 + h.size[op.node])
<1> DEFINE m == op.node
           n == m + 1 + h.size[m]
<1>0. MAGIC # Free /\ MAGIC # Data /\ Free # Data
  BY DEF MAGIC, Free, Data
<1>1. /\ Sound(h) /\ (Defrag => CoalescedBut(h, NULL)) /\ m \in h.nodes
      /\ op.size \in Nat /\ op # Idle /\ n + 1 + op.size <= Limit
      /\ first' = first /\ last' = n /\ first = 0 /\ op' = Idle
      /\ h' = Appended(h, m, n, op.size)
  BY InvSound DEF HeapInv, TypeOK, SearchOnList, NewNode
<1>2. h.next[m] = NULL
  BY DEF NewNode, HeapInv, SearchOnList
<1>3. /\ h.used \in [Addr -> {MAGIC, Free, Data}] /\ h.nodes \subseteq Addr /\ m \in Addr
      /\ h.size \in [Addr -> 0 .. Limit] /\ h.next \in [Addr -> Addr \cup {NULL}]
      /\ NULL \notin Addr
  BY <1>1, SoundTypes
<1>4. h' \in Headers /\ ListOK(h') /\ n \in Addr /\ n \notin h.nodes
  BY <1>1, <1>2, AppendOK DEF Sound
<1>5. /\ h'.nodes = h.nodes \cup {n}
      /\ h'.used = [h.used EXCEPT ![n] = MAGIC]
      /\ h'.size = [h.size EXCEPT ![n] = op.size]
      /\ h'.next = [a \in Addr |-> IF a = n THEN NULL ELSE IF a = m THEN n ELSE h.next[a]]
  BY <1>1 DEF Appended
<1> HIDE DEF n
<1>6. /\ h'.used[n] = MAGIC /\ h'.next[n] = NULL /\ h'.next[m] = n /\ h'.size[n] = op.size
      /\ m # n
      /\ \A x \in Addr : x # n => h'.used[x] = h.used[x] /\ h'.size[x] = h.size[x]
                                  /\ (x # m => h'.next[x] = h.next[x])
  BY <1>1, <1>3, <1>4, <1>5
<1>7. h.used[n] # MAGIC
  BY <1>1, <1>4 DEF Sound, Marks
<1>8. Sound(h')
  BY <1>0, <1>1, <1>3, <1>4, <1>5, <1>6 DEF Sound, Marks
<1>9. Defrag => CoalescedBut(h', NULL)
  <2> SUFFICES ASSUME Defrag, NEW x \in h'.nodes, h'.used[x] = Free, h'.next[x] # NULL
               PROVE  h'.used[h'.next[x]] = MAGIC
    BY DEF CoalescedBut
  <2>1. x \in h.nodes /\ x # n /\ x \in Addr
    BY <1>0, <1>3, <1>5, <1>6
  <2>2. CASE x = m
    BY <1>6, <2>2
  <2>3. CASE x # m
    <3>1. h'.next[x] = h.next[x] /\ h.used[x] = Free
      BY <1>6, <2>1, <2>3
    <3>2. h.used[h.next[x]] = MAGIC /\ h.next[x] \in Addr
      BY <1>1, <1>3, <2>1, <3>1 DEF CoalescedBut
    <3> QED BY <1>6, <1>7, <3>1, <3>2
  <2> QED BY <2>2, <2>3
<1>10. op.size <= h'.size[n] /\ last' \in h'.nodes /\ h'.next[last'] = NULL
  BY <1>1, <1>5, <1>6
<1>11. \A x \in Addr : x # n => /\ h'.used[x] = MAGIC <=> h.used[x] = MAGIC
                                /\ h.used[x] = MAGIC => h'.size[x] = h.size[x]
  BY <1>6
<1>12. Hands(n)
  BY <1>1, <1>4, <1>5, <1>6, <1>7, <1>8, <1>9, <1>10, <1>11 DEF Hands
<1> QED BY <1>12 DEF n

\* A step of free that releases node a and no other block.
Frees(a) ==
    /\ Sound(h') /\ (Defrag => CoalescedBut(h', NULL))
    /\ h'.used = [h.used EXCEPT ![a] = Free]
    /\ \A x \in Addr : h'.used[x] = MAGIC => h'.size[x] = h.size[x]
    /\ a \in h.nodes /\ first = 0
    /\ ~Defrag => h'.nodes = h.nodes /\ h'.next = h.next

LEMMA FreeFrees == ASSUME HeapInv, NEW a \in Addr, free(a) PROVE Frees(a)
<1> DEFINE f == Freed(a)
<1>0. MAGIC # Free /\ MAGIC # Data /\ Free # Data
  BY DEF MAGIC, Free, Data
<1>1. a \in h.nodes /\ h.used[a] = MAGIC
  BY DEF HeapInv, MagicAtNodesOnly, free
<1>2. first = 0
  BY <1>1 DEF HeapInv, TypeOK, ListIntact
<1>3. Sound(h) /\ (Defrag => CoalescedBut(h, NULL))
  BY <1>1, InvSound DEF HeapInv, ListIntact
<1>4. /\ h.used \in [Addr -> {MAGIC, Free, Data}] /\ h.nodes \subseteq Addr
      /\ h.size \in [Addr -> 0 .. Limit] /\ h.next \in [Addr -> Addr \cup {NULL}]
      /\ NULL \notin Addr
  BY <1>3, SoundTypes
<1>5. /\ f.nodes = h.nodes /\ f.size = h.size /\ f.next = h.next /\ f.prev = h.prev
      /\ f.used = [h.used EXCEPT ![a] = Free] /\ f \in Headers
  BY <1>3, <1>4 DEF Freed, Sound, Headers
<1> HIDE DEF f
<1>6. Sound(f) /\ f.used[a] = Free
  BY <1>0, <1>1, <1>3, <1>4, <1>5 DEF Sound, Marks, ListOK
<1>7. CASE ~Defrag
  <2>1. h' = f
    BY <1>7 DEF free, f
  <2> QED BY <1>1, <1>2, <1>5, <1>6, <1>7, <2>1 DEF Frees
<1>8. CASE Defrag
  <2> DEFINE g == MergePrev(f, a)[1]
             b == MergePrev(f, a)[2]
             r == MergeNext(g, b)
  <2>1. h' = r
    BY <1>8 DEF free, f
  <2>2. \A n \in f.nodes : n # a /\ f.next[n] # a /\ f.used[n] = Free /\ f.next[n] # NULL
                              => f.used[f.next[n]] = MAGIC
    BY <1>3, <1>4, <1>5, <1>8 DEF CoalescedBut
  <2>3. /\ Sound(g) /\ b \in g.nodes /\ g.used[b] = Free
        /\ CoalescedBut(g, b) /\ SameUsed(f, g)
    BY <1>1, <1>5, <1>6, <2>2, MergePrevOK
  <2> HIDE DEF g, b
  <2>4. Sound(r) /\ CoalescedBut(r, NULL) /\ SameUsed(g, r)
    BY <2>3, MergeNextOK
  <2> HIDE DEF r
  <2>5. r.used = f.used /\ \A x \in Addr : f.used[x] = MAGIC => r.size[x] = f.size[x]
    BY <2>3, <2>4 DEF SameUsed
  <2> QED BY <1>1, <1>2, <1>5, <1>8, <2>1, <2>4, <2>5 DEF Frees
<1> QED BY <1>7, <1>8

\* What a client stores in its block reaches no header of the list.
LEMMA WriteKeeps ==
    ASSUME HeapInv, NEW n \in Addr, Write(n)
    PROVE  /\ Sound(h') /\ (Defrag => CoalescedBut(h', NULL)) /\ first = 0
           /\ h'.nodes = h.nodes /\ h'.next = h.next /\ h'.size = h.size
           /\ \A x \in h.nodes : h'.used[x] = h.used[x]
<1>0. MAGIC # Free /\ MAGIC # Data /\ Free # Data
  BY DEF MAGIC, Free, Data
<1>1. n \in h.nodes /\ h.used[n] = MAGIC
  BY DEF Write
<1>2. first = 0 /\ Sound(h) /\ (Defrag => CoalescedBut(h, NULL))
  BY <1>1, InvSound DEF HeapInv, TypeOK, ListIntact
<1>3. /\ h.used \in [Addr -> {MAGIC, Free, Data}] /\ h.nodes \subseteq Addr
      /\ h.size \in [Addr -> 0 .. Limit] /\ h.next \in [Addr -> Addr \cup {NULL}]
      /\ NULL \notin Addr /\ h \in Headers
  BY <1>2, SoundTypes DEF Sound
<1>4. /\ h'.nodes = h.nodes /\ h'.size = h.size /\ h'.next = h.next /\ h'.prev = h.prev
      /\ h'.used = [a \in Addr |-> IF a \in n + 1 .. n + h.size[n] THEN Data ELSE h.used[a]]
  BY <1>3 DEF Write, Headers
<1>5. h' \in Headers
  BY <1>3 DEF Write, Headers
<1>6. \A x \in h.nodes : x \notin n + 1 .. n + h.size[n]
  <2> SUFFICES ASSUME NEW x \in h.nodes, x \in n + 1 .. n + h.size[n] PROVE FALSE
    OBVIOUS
  <2>1. x \in Int /\ n \in Int /\ h.size[n] \in Int
    BY <1>1, <1>3, HeapConstants DEF Addr
  <2>2. n < x /\ x < n + 1 + h.size[n]
    BY <2>1
  <2>3. n + 1 + h.size[n] <= x
    BY <1>1, <1>2, <2>2 DEF Sound, ListOK, List, Apart
  <2> QED BY <2>1, <2>2, <2>3
<1>7. \A x \in h.nodes : h'.used[x] = h.used[x]
  BY <1>3, <1>4, <1>6
<1>8. Marks(h')
  <2> SUFFICES ASSUME NEW x \in Addr
               PROVE  /\ h'.used[x] = MAGIC => x \in h.nodes
                      /\ x \in h.nodes => h'.used[x] # Data
    BY <1>4 DEF Marks
  <2>1. (h.used[x] = MAGIC => x \in h.nodes) /\ (x \in h.nodes => h.used[x] # Data)
    BY <1>2 DEF Sound, Marks
  <2>2. h'.used[x] = Data \/ h'.used[x] = h.used[x]
    BY <1>4
  <2> QED BY <1>0, <1>7, <2>1, <2>2
<1>9. Sound(h')
  BY <1>2, <1>4, <1>5, <1>8 DEF Sound, ListOK
<1>10. Defrag => CoalescedBut(h', NULL)
  <2> SUFFICES ASSUME Defrag, NEW x \in h'.nodes, h'.used[x] = Free, h'.next[x] # NULL
               PROVE  h'.used[h'.next[x]] = MAGIC
    BY DEF CoalescedBut
  <2>1. x \in h.nodes /\ h.used[x] = Free /\ h.next[x] # NULL
    BY <1>4, <1>7
  <2>2. h.used[h.next[x]] = MAGIC /\ h.next[x] \in h.nodes
    BY <1>2, <1>3, <2>1, SoundTypes DEF CoalescedBut
  <2> QED BY <1>4, <1>7, <2>2
<1> QED BY <1>2, <1>4, <1>7, <1>9, <1>10

\* Every step keeps the invariant.
LEMMA InvNext == HeapInv /\ [Next]_vars => HeapInv'
<1> SUFFICES ASSUME HeapInv, [Next]_vars PROVE HeapInv'
  OBVIOUS
<1>0. NULL \notin Addr /\ 0 # NULL
  BY HeapConstants DEF NULL, Addr
<1>1. ASSUME NEW m, Hands(m) PROVE HeapInv'
  BY <1>1, SoundInv DEF Hands
<1>2. ASSUME NEW bytes \in Requests, malloc(bytes) PROVE HeapInv'
  <2>1. Align(bytes) \in Nat
    BY AlignNat
  <2>2. UNCHANGED <<first, last, h>>
        /\ op' = [size |-> Align(bytes), node |-> IF Defrag THEN first ELSE last]
    BY <1>2 DEF malloc
  <2>3. first # NULL => first \in h.nodes /\ first \in Addr
    BY DEF HeapInv, TypeOK, ListIntact, Headers
  <2>4. op'.node \in Addr \cup {NULL}
    BY <2>2, <2>3 DEF HeapInv, TypeOK
  <2>5. TypeOK'
    BY <2>1, <2>2, <2>4 DEF HeapInv, TypeOK
  <2>6. SearchOnList'
    BY <2>1, <2>2, <2>3 DEF HeapInv, SearchOnList
  <2>7. ListIntact' /\ MagicAtNodesOnly' /\ Coalesced'
    BY <2>2 DEF HeapInv, ListIntact, MagicAtNodesOnly, Coalesced
  <2> QED BY <2>5, <2>6, <2>7 DEF HeapInv
<1>3. CASE FirstNode
  BY <1>1, <1>3, FirstHands
<1>4. CASE TakeNode
  BY <1>1, <1>4, TakeHands
<1>5. CASE NewNode
  BY <1>1, <1>5, NewHands
<1>6. CASE NextNode
  <2>1. /\ UNCHANGED <<first, last, h>> /\ op' = [op EXCEPT !.node = h.next[op.node]]
        /\ Defrag /\ first # NULL /\ h.next[op.node] # NULL /\ op.node \in h.nodes
        /\ op.size \in Nat /\ op \in [size : Nat \cup {-1}, node : Addr \cup {NULL}]
    BY <1>6 DEF NextNode, HeapInv, TypeOK, SearchOnList
  <2>2. h.next[op.node] \in h.nodes /\ h.nodes \subseteq Addr
    BY <2>1, InvSound, SoundTypes
  <2>3. op'.node = h.next[op.node] /\ op'.size = op.size
        /\ op' \in [size : Nat \cup {-1}, node : Addr \cup {NULL}]
    BY <2>1, <2>2
  <2>4. TypeOK'
    BY <2>1, <2>3 DEF HeapInv, TypeOK
  <2>5. SearchOnList'
    BY <2>1, <2>2, <2>3 DEF HeapInv, SearchOnList
  <2>6. ListIntact' /\ MagicAtNodesOnly' /\ Coalesced'
    BY <2>1 DEF HeapInv, ListIntact, MagicAtNodesOnly, Coalesced
  <2> QED BY <2>4, <2>5, <2>6 DEF HeapInv
<1>7. ASSUME NEW a \in Addr, free(a) PROVE HeapInv'
  <2>1. Frees(a) /\ UNCHANGED <<first, last, op>> /\ op = Idle
    BY <1>7, FreeFrees DEF free
  <2>2. last' \in Addr \cup {NULL}
        /\ (~Defrag => last' \in h'.nodes /\ h'.next[last'] = NULL)
    BY <1>0, <2>1 DEF HeapInv, TypeOK, SearchOnList, Frees
  <2> QED BY <2>1, <2>2, SoundInv DEF Frees
<1>8. ASSUME NEW a \in Addr, FreeIgnored(a) PROVE HeapInv'
  BY <1>8 DEF FreeIgnored, vars, HeapInv, TypeOK, ListIntact, MagicAtNodesOnly,
     Coalesced, SearchOnList
<1>9. ASSUME NEW n \in Addr, Write(n) PROVE HeapInv'
  <2>1. UNCHANGED <<first, last, op>> /\ op = Idle
    BY <1>9 DEF Write
  <2>2. Sound(h') /\ (Defrag => CoalescedBut(h', NULL)) /\ first = 0
        /\ h'.nodes = h.nodes /\ h'.next = h.next
    BY <1>9, WriteKeeps
  <2>3. last' \in Addr \cup {NULL}
        /\ (~Defrag => last' \in h'.nodes /\ h'.next[last'] = NULL)
    BY <1>0, <2>1, <2>2 DEF HeapInv, TypeOK, SearchOnList
  <2> QED BY <2>1, <2>2, <2>3, SoundInv
<1>10. CASE UNCHANGED vars
  BY <1>10 DEF vars, HeapInv, TypeOK, ListIntact, MagicAtNodesOnly, Coalesced, SearchOnList
<1> QED BY <1>2, <1>3, <1>4, <1>5, <1>6, <1>7, <1>8, <1>9, <1>10 DEF Next

\* For every sequence of malloc, free and writes of the owners to their blocks,
\* in both builds, the list of _heap is a partition of the memory from
\* _heap.start on, used nodes are told by their magic, and free neighbours are
\* merged.
THEOREM HeapIsSound == Spec => []HeapInv
  BY InvInit, InvNext, PTL DEF Spec

----------------------------------------------------------------------------
(* The refinement.                                                         *)

Block(g, n) == [addr |-> n + 1, len |-> g.size[n]]

\* The blocks in use, by their headers alone.
LEMMA LiveIs ==
    ASSUME HeapInv
    PROVE  Live = {Block(h, n) : n \in {m \in Addr : h.used[m] = MAGIC}}
<1>1. \A m : m \in h.nodes /\ h.used[m] = MAGIC <=> m \in Addr /\ h.used[m] = MAGIC
  BY DEF HeapInv, TypeOK, Headers, MagicAtNodesOnly
<1>2. {m \in h.nodes : h.used[m] = MAGIC} = {m \in Addr : h.used[m] = MAGIC}
  BY <1>1
<1> QED BY <1>2 DEF Live, Block

LEMMA LiveIsNext ==
    ASSUME HeapInv'
    PROVE  Live' = {Block(h', n) : n \in {m \in Addr : h'.used[m] = MAGIC}}
<1>1. \A m : m \in h'.nodes /\ h'.used[m] = MAGIC <=> m \in Addr /\ h'.used[m] = MAGIC
  BY DEF HeapInv, TypeOK, Headers, MagicAtNodesOnly
<1>2. {m \in h'.nodes : h'.used[m] = MAGIC} = {m \in Addr : h'.used[m] = MAGIC}
  BY <1>1
<1> QED BY <1>2 DEF Live, Block

\* A block handed out is long enough and apart from all others.
LEMMA HandsGrants ==
    ASSUME HeapInv, HeapInv', NEW m, Hands(m)
    PROVE  Abstract!Grant(Block(h', m)) /\ Block(h', m) \in Abstract!Blocks
<1> DEFINE b == Block(h', m)
           U == {n \in Addr : h.used[n] = MAGIC}
<1>1. Sound(h')
  BY DEF Hands
<1>2. /\ h'.nodes \subseteq Addr /\ h'.size \in [Addr -> 0 .. Limit] /\ m \in Addr
      /\ m \in h'.nodes
  BY <1>1, SoundTypes DEF Hands
<1>3. m \in Nat /\ Limit \in Nat /\ h'.size[m] \in 0 .. Limit /\ m + 1 \in 1 .. Limit
  BY <1>2, HeapConstants DEF Addr
<1>4. b \in Abstract!Blocks
  BY <1>3 DEF Abstract!Blocks, Block
<1>5. op.size # -1 /\ op.size <= b.len /\ op'.size = -1
  BY <1>3 DEF Hands, Block, Idle
<1>6. {n \in Addr : h'.used[n] = MAGIC} = U \cup {m}
  BY <1>2 DEF Hands
<1>7. \A n \in U : n # m /\ Block(h', n) = Block(h, n) /\ n \in h'.nodes
  <2>1. \A n \in U : n # m /\ h'.size[n] = h.size[n] /\ h'.used[n] = MAGIC
    BY DEF Hands
  <2> QED BY <1>1, <2>1 DEF Block, Sound, Marks
<1>8. Live' = Live \cup {b}
  <2>1. Live = {Block(h, n) : n \in U}
    BY LiveIs
  <2>2. Live' = {Block(h', n) : n \in U \cup {m}}
    BY <1>6, LiveIsNext
  <2> QED BY <1>7, <2>1, <2>2
<1>9. \A c \in Live : c.addr # b.addr /\ Abstract!Span(c) \cap Abstract!Span(b) = {}
  <2> SUFFICES ASSUME NEW n \in U, NEW x
               PROVE  /\ Block(h, n).addr # b.addr
                      /\ ~(x \in Abstract!Span(Block(h, n)) /\ x \in Abstract!Span(b))
    BY LiveIs
  <2>1. n # m /\ h'.size[n] = h.size[n] /\ n \in h'.nodes /\ n \in Nat
        /\ h'.size[n] \in 0 .. Limit
    <3>1. n \in Addr
      OBVIOUS
    <3>2. n \in Nat
      BY <3>1, HeapConstants DEF Addr
    <3>3. h'.size[n] = h.size[n]
      BY DEF Hands
    <3> QED BY <1>2, <1>7, <3>1, <3>2, <3>3
  <2>2. (n < m => n + 1 + h'.size[n] <= m) /\ (m < n => m + 1 + h'.size[m] <= n)
    BY <1>1, <1>2, <2>1 DEF Sound, ListOK, List, Apart
  <2>3. Abstract!Span(Block(h, n)) = n + 1 .. n + 1 + h'.size[n] - 1
    BY <2>1 DEF Abstract!Span, Block
  <2>4. Abstract!Span(b) = m + 1 .. m + 1 + h'.size[m] - 1
    BY DEF Abstract!Span, Block
  <2>5. Block(h, n).addr = n + 1 /\ b.addr = m + 1
    BY DEF Block
  <2>6. PICK i \in Nat, j \in Nat, a \in Nat, c \in Nat :
          i = n /\ j = m /\ a = h'.size[n] /\ c = h'.size[m]
    BY <1>3, <2>1
  <2>7. i # j /\ (i < j => i + 1 + a <= j) /\ (j < i => j + 1 + c <= i)
    BY <2>1, <2>2, <2>6
  <2>8. ~(x \in i + 1 .. i + 1 + a - 1 /\ x \in j + 1 .. j + 1 + c - 1) /\ i + 1 # j + 1
    BY <2>7
  <2> HIDE DEF b
  <2> QED BY <2>3, <2>4, <2>5, <2>6, <2>8
<1> QED BY <1>4, <1>5, <1>8, <1>9 DEF Abstract!Grant

\* Every step is a step or a stutter of HeapAbstract.
LEMMA StepRefines ==
    ASSUME HeapInv, HeapInv', [Next]_vars
    PROVE  [Abstract!Next]_<<Live, op.size>>
<1>1. ASSUME NEW m, Hands(m) PROVE Abstract!Next
  BY <1>1, HandsGrants DEF Abstract!Next
<1>2. ASSUME NEW bytes \in Requests, malloc(bytes) PROVE Abstract!Next
  <2>1. op.size = -1 /\ op'.size = Align(bytes) /\ h' = h
    BY <1>2 DEF malloc, Idle
  <2>2. Live' = Live
    BY <2>1 DEF Live
  <2> QED BY <2>1, <2>2 DEF Abstract!Next, Abstract!Request
<1>3. CASE FirstNode
  BY <1>1, <1>3, FirstHands
<1>4. CASE TakeNode
  BY <1>1, <1>4, TakeHands
<1>5. CASE NewNode
  BY <1>1, <1>5, NewHands
<1>6. CASE NextNode
  BY <1>6 DEF NextNode, Live, HeapInv, TypeOK
<1>7. ASSUME NEW a \in Addr, free(a) PROVE Abstract!Next
  <2> DEFINE U == {n \in Addr : h.used[n] = MAGIC}
  <2>1. Frees(a) /\ op' = op /\ op = Idle /\ a \in U
    BY <1>7, FreeFrees DEF free
  <2>2. h.used \in [Addr -> {MAGIC, Free, Data}] /\ MAGIC # Free
    BY DEF HeapInv, TypeOK, Headers, MAGIC, Free
  <2>3. {n \in Addr : h'.used[n] = MAGIC} = U \ {a}
    BY <2>1, <2>2 DEF Frees
  <2>4. \A n \in U \ {a} : Block(h', n) = Block(h, n)
    BY <2>1, <2>3 DEF Frees, Block
  <2>5. Live = {Block(h, n) : n \in U} /\ Live' = {Block(h', n) : n \in U \ {a}}
    BY <2>3, LiveIs, LiveIsNext
  <2>6. \A n \in U : n # a => Block(h, n) # Block(h, a)
    <3> SUFFICES ASSUME NEW n \in U, Block(h, n) = Block(h, a) PROVE n = a
      OBVIOUS
    <3>1. n \in Int /\ a \in Int
      BY HeapConstants DEF Addr
    <3>2. n + 1 = a + 1
      BY DEF Block
    <3> QED BY <3>1, <3>2
  <2>7. Live' = Live \ {Block(h, a)} /\ Block(h, a) \in Live
    BY <2>1, <2>4, <2>5, <2>6
  <2>8. op.size = -1
    BY <2>1 DEF Idle
  <2> QED BY <2>1, <2>7, <2>8 DEF Abstract!Next, Abstract!Release
<1>8. ASSUME NEW a \in Addr, FreeIgnored(a) PROVE UNCHANGED <<Live, op.size>>
  BY <1>8 DEF FreeIgnored, vars, Live
<1>9. ASSUME NEW n \in Addr, Write(n) PROVE UNCHANGED <<Live, op.size>>
  <2>1. h'.nodes = h.nodes /\ h'.size = h.size /\ \A x \in h.nodes : h'.used[x] = h.used[x]
    BY <1>9, WriteKeeps
  <2>2. op' = op
    BY <1>9 DEF Write
  <2> QED BY <2>1, <2>2 DEF Live
<1>10. CASE UNCHANGED vars
  BY <1>10 DEF vars, Live
<1> QED BY <1>2, <1>3, <1>4, <1>5, <1>6, <1>7, <1>8, <1>9, <1>10 DEF Next

\* malloc and free keep the promise of HeapAbstract: a block is as long as asked
\* for and shares no memory with another until it is freed, and free releases
\* that block and no other.
THEOREM HeapImplementsAbstract == Spec => ImplementsAbstract
<1>1. Init => Abstract!Init
  <2> SUFFICES ASSUME Init PROVE Abstract!Init
    OBVIOUS
  <2>1. Live = {} /\ op.size = -1
    BY DEF Init, Live, Idle
  <2> QED BY <2>1 DEF Abstract!Init
<1>2. HeapInv /\ HeapInv' /\ [Next]_vars => [Abstract!Next]_<<Live, op.size>>
  BY StepRefines
<1> QED BY <1>1, <1>2, HeapIsSound, PTL DEF Spec, ImplementsAbstract, Abstract!Spec

=============================================================================
