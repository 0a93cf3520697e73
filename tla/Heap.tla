-------------------------------- MODULE Heap --------------------------------
(***************************************************************************)
(* The kernel heap, kernel/memory.c: a first-fit allocator over a singly    *)
(* linked list of blocks, each behind a header.  kmalloc and kfree run with *)
(* interrupts disabled (from the exec command in the keyboard interrupt and *)
(* from system calls), so no two calls interleave; each iteration of their  *)
(* loops over the list is one step.  Addresses are offsets from heap_start. *)
(***************************************************************************)
EXTENDS Integers

CONSTANTS
    HEAP_SIZE,     \* bytes, memory.h:8 (4 MB)
    WORD_MOD,      \* values of a uint32_t (2^32)
    REQUESTS       \* sizes callers ask for

ASSUME HeapSizeAssumption == HEAP_SIZE \in Nat /\ HEAP_SIZE >= 12
ASSUME WordModAssumption == WORD_MOD \in Nat /\ WORD_MOD > HEAP_SIZE
ASSUME RequestsAssumption == REQUESTS \subseteq 0 .. WORD_MOD - 1

VARIABLES
    block,     \* headers of the blocks in the list: address -> size, is_free, next
    op,        \* the call in progress
    current,   \* the loop variable of the call
    request,   \* the size argument of kmalloc
    live       \* pointers callers hold, and the bytes they asked for

vars == <<block, op, current, request, live>>

Header == 12        \* sizeof(block_header_t)
NULL == -1

Blocks == DOMAIN block
End(a) == a + Header + block[a].size

TypeOK ==
    /\ Blocks \subseteq 0 .. HEAP_SIZE
    /\ block \in [Blocks -> [size : Nat, is_free : BOOLEAN, next : Nat \cup {NULL}]]
    /\ op \in {"none", "kmalloc", "kfree"}
    /\ current \in Nat \cup {NULL}
    /\ request \in 0 .. WORD_MOD - 1
    /\ DOMAIN live \subseteq Nat
    /\ live \in [DOMAIN live -> 0 .. WORD_MOD - 1]

\* memory_init
Init ==
    /\ block = [a \in {0} |-> [size |-> HEAP_SIZE - Header, is_free |-> TRUE, next |-> NULL]]
    /\ op = "none" /\ current = NULL /\ request = 0
    /\ live = [p \in {} |-> 0]

-----------------------------------------------------------------------------
(***************************************************************************)
(* kmalloc                                                                  *)
(***************************************************************************)
\* (size + 3) & ~3 in 32 bits
Aligned_Down(size) == size - (size % 4)
Aligned(size) == LET s == (size + 3) % WORD_MOD IN s - (s % 4)

kmalloc ==
    /\ op = "none"
    /\ op' = "kmalloc" /\ current' = 0
    /\ request' \in REQUESTS
    /\ UNCHANGED <<block, live>>

Fits_EvenIfUsed(a) == block[a].size >= Aligned(request)
Fits(a) == block[a].is_free /\ block[a].size >= Aligned(request)

\* The loop variable's next value, current->next.
Following_Same(a) == a
Following(a) == block[a].next

Skip ==
    /\ op = "kmalloc" /\ current # NULL
    /\ ~ Fits(current)
    /\ current' = Following(current)
    /\ UNCHANGED <<block, op, request, live>>

\* A block is split when a header and more than 16 bytes remain.
Splits_HeaderForgotten(a, size) == block[a].size > size
Splits(a, size) == block[a].size > size + Header + 16

\* The block at a, allocated: whole, or its first size bytes with the rest
\* as a new free block after it.
Whole(a) == [block EXCEPT ![a].is_free = FALSE]

RestNext_Lost(a, size) == NULL
RestNext(a, size) == block[a].next

Split(a, size) ==
    LET rest == a + Header + size
    IN  [b \in Blocks \cup {rest} |->
            CASE b = a    -> [size |-> size, is_free |-> FALSE, next |-> rest]
              [] b = rest -> [size |-> block[a].size - size - Header, is_free |-> TRUE,
                              next |-> RestNext(a, size)]
              [] OTHER    -> block[b]]

Take ==
    /\ op = "kmalloc" /\ current # NULL
    /\ Fits(current)
    /\ LET size == Aligned(request)
       IN  block' = IF Splits(current, size) THEN Split(current, size) ELSE Whole(current)
    /\ live' = [p \in DOMAIN live \cup {current + Header} |->
                   IF p = current + Header THEN request ELSE live[p]]
    /\ op' = "none" /\ current' = NULL /\ request' = 0

\* The list is exhausted: kmalloc returns 0.
Fail ==
    /\ op = "kmalloc" /\ current = NULL
    /\ op' = "none" /\ request' = 0
    /\ UNCHANGED <<block, current, live>>

-----------------------------------------------------------------------------
(***************************************************************************)
(* kfree of a pointer its caller holds.                                     *)
(***************************************************************************)
CoalesceFrom_Freed(p) == p - Header
CoalesceFrom(p) == 0

kfree ==
    /\ op = "none"
    /\ \E p \in DOMAIN live :
         /\ block' = [block EXCEPT ![p - Header].is_free = TRUE]
         /\ live' = [q \in DOMAIN live \ {p} |-> live[q]]
         /\ current' = CoalesceFrom(p)
    /\ op' = "kfree"
    /\ UNCHANGED request

Mergeable(a) ==
    block[a].is_free /\ block[a].next # NULL /\ block[block[a].next].is_free

\* current absorbs its free successor, whose header leaves the list; the loop
\* looks at current again.
MergedSize_NoHeader(a, b) == block[a].size + block[b].size
MergedSize(a, b) == block[a].size + Header + block[b].size

Merge ==
    /\ op = "kfree" /\ current # NULL
    /\ Mergeable(current)
    /\ LET b == block[current].next
       IN  block' = [a \in Blocks \ {b} |->
                        IF a = current
                        THEN [size |-> MergedSize(a, b), is_free |-> TRUE,
                              next |-> block[b].next]
                        ELSE block[a]]
    /\ UNCHANGED <<op, current, request, live>>

Advance ==
    /\ op = "kfree" /\ current # NULL
    /\ ~ Mergeable(current)
    /\ current' = Following(current)
    /\ UNCHANGED <<block, op, request, live>>

Return ==
    /\ op = "kfree" /\ current = NULL
    /\ op' = "none"
    /\ UNCHANGED <<block, current, request, live>>

-----------------------------------------------------------------------------
Loop == Skip \/ Take \/ Fail \/ Merge \/ Advance \/ Return

Next == kmalloc \/ kfree \/ Loop

\* A call that has begun runs: nothing interrupts it.
Spec == Init /\ [][Next]_vars /\ WF_vars(Loop)

-----------------------------------------------------------------------------
\* The blocks tile the heap in list order: a block ends where its successor's
\* header begins, the last one at the end of the heap, and none overlaps
\* another.  kmalloc's split and kfree's merge each rewrite two headers of it.
Tiling ==
    /\ 0 \in Blocks
    /\ \A a \in Blocks :
         /\ IF block[a].next = NULL THEN End(a) = HEAP_SIZE
            ELSE block[a].next = End(a) /\ End(a) \in Blocks
         /\ End(a) <= HEAP_SIZE
         /\ \A b \in Blocks : a < b => End(a) <= b

\* A pointer a caller holds is the payload of a used block of the list, as long
\* as the request (if rounding it up does not exceed a uint32_t), and every
\* used block is held: nothing is leaked and nothing in use is on offer.
Ownership ==
    /\ \A p \in DOMAIN live :
         /\ p - Header \in Blocks
         /\ ~ block[p - Header].is_free
         /\ live[p] + 3 < WORD_MOD => live[p] <= block[p - Header].size
    /\ \A a \in Blocks : ~ block[a].is_free => a + Header \in DOMAIN live

\* Between calls no two neighbours are free, however the frees were ordered:
\* one pass of kfree is enough to coalesce them all.
Coalesced ==
    op = "none" => \A a \in Blocks : ~ Mergeable(a)

\* kmalloc returns 0 only when no free block is large enough.
RefusesOnlyWhenFull ==
    op = "kmalloc" /\ current = NULL => \A a \in Blocks : ~ Fits(a)

\* Every call returns: the loops over the list terminate.
Returns == op # "none" ~> op = "none"

(***************************************************************************)
(* What makes Coalesced and RefusesOnlyWhenFull inductive: the part of the  *)
(* list before the loop variable is done.                                   *)
(***************************************************************************)
Done(a) == current = NULL \/ a < current

LoopInv ==
    /\ current # NULL => current \in Blocks
    /\ op = "none" => current = NULL
    /\ op = "kfree" => \A a \in Blocks : Done(a) => ~ Mergeable(a)
    /\ op # "kfree" => \A a \in Blocks : ~ Mergeable(a)
    /\ op = "kmalloc" => \A a \in Blocks : Done(a) => ~ Fits(a)

Abstract == INSTANCE Allocator

\* The heap keeps the promise of Allocator.
ImplementsAllocator == Abstract!Spec
=============================================================================
