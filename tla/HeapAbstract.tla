--------------------------- MODULE HeapAbstract ---------------------------
(***************************************************************************)
(* What malloc and free promise their callers: every block handed out is   *)
(* at least as long as asked for and shares no memory with another block   *)
(* that has not been freed.                                                *)
(***************************************************************************)
EXTENDS Integers

CONSTANTS Limit, Sizes

VARIABLES
    live,   \* the blocks handed out and not freed
    want    \* the size being allocated, -1 when no allocation is in progress

Blocks == [addr : 1 .. Limit, len : 0 .. Limit]

Span(b) == b.addr .. b.addr + b.len - 1

Init == live = {} /\ want = -1

Request(n) ==
    /\ want = -1 /\ want' = n
    /\ UNCHANGED live

Grant(b) ==
    /\ want # -1 /\ want <= b.len
    /\ \A c \in live : c.addr # b.addr /\ Span(c) \cap Span(b) = {}
    /\ live' = live \cup {b} /\ want' = -1

Release(b) ==
    /\ want = -1
    /\ live' = live \ {b}
    /\ UNCHANGED want

Next ==
    \/ \E n \in Sizes : Request(n)
    \/ \E b \in Blocks : Grant(b)
    \/ \E b \in live : Release(b)

Spec == Init /\ [][Next]_<<live, want>>

=============================================================================
