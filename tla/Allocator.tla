------------------------------ MODULE Allocator ------------------------------
(***************************************************************************)
(* What a caller of kmalloc and kfree (kernel/memory.c) is promised: every  *)
(* pointer it holds owns the bytes it asked for, inside the heap and apart  *)
(* from everybody else's, until it frees it.                                *)
(***************************************************************************)
EXTENDS Integers

CONSTANTS HEAP_SIZE, REQUESTS

VARIABLE live    \* pointer -> bytes asked for, of the allocations in use

\* The n bytes at p and the m bytes at q have nothing in common.
Apart(p, n, q, m) == p # q /\ (p + n <= q \/ q + m <= p)

Init == live = [p \in {} |-> 0]

Allocate ==
    \E p \in 0 .. HEAP_SIZE, n \in REQUESTS :
        /\ p + n <= HEAP_SIZE
        /\ \A q \in DOMAIN live : Apart(p, n, q, live[q])
        /\ live' = [q \in DOMAIN live \cup {p} |-> IF q = p THEN n ELSE live[q]]

Free ==
    \E p \in DOMAIN live :
        live' = [q \in DOMAIN live \ {p} |-> live[q]]

Next == Allocate \/ Free

Spec == Init /\ [][Next]_live
==============================================================================
