----------------------------- MODULE HeapProofs -----------------------------
(***************************************************************************)
(* Proofs about the kernel heap: for every heap size, every width of the    *)
(* size type and every set of requests, the blocks tile the heap, callers   *)
(* own what they hold, freeing coalesces completely, kmalloc and kfree      *)
(* implement Allocator as long as rounding a request up does not wrap, and  *)
(* every call ends after a bounded number of iterations.                    *)
(***************************************************************************)
EXTENDS Heap, TLAPS

IInv == TypeOK /\ Tiling /\ Ownership /\ LoopInv

LEMMA BlockFields ==
    ASSUME TypeOK, NEW a \in Blocks
    PROVE  /\ a \in 0 .. HEAP_SIZE
           /\ block[a].size \in Nat /\ block[a].is_free \in BOOLEAN
           /\ block[a].next \in Nat \cup {NULL}
           /\ End(a) \in Nat
  BY HeapSizeAssumption DEF TypeOK, End, Header

LEMMA ModBelow ==
    ASSUME NEW m \in Nat \ {0}, NEW k \in Nat
    PROVE  k % m \in 0 .. m - 1 /\ (k < m => k % m = k)
  OBVIOUS

LEMMA AlignedNat == ASSUME NEW n \in Nat
                    PROVE  Aligned(n) \in Nat /\ (n + 3 < WORD_MOD => n <= Aligned(n))
<1>1. PICK k \in Nat, m \in Nat \ {0} : k = n + 3 /\ m = WORD_MOD
  BY WordModAssumption, HeapSizeAssumption
<1>2. k % m \in Nat /\ (k < m => k % m = k)
  BY ModBelow
<1>3. PICK s \in Nat : s = k % m
  BY <1>2
<1>4. s % 4 \in 0 .. 3 /\ s % 4 <= s
  OBVIOUS
<1>5. Aligned(n) = s - (s % 4)
  BY <1>1, <1>3 DEF Aligned
<1>6. QED
  BY <1>1, <1>2, <1>3, <1>4, <1>5

(* The loop variable after a: what lies before it is what lay before a, and a. *)
LEMMA FollowingIsNextBlock ==
    ASSUME TypeOK, Tiling, NEW a \in Blocks
    PROVE  /\ Following(a) # NULL => Following(a) \in Blocks /\ Following(a) > a
           /\ \A b \in Blocks : (Following(a) = NULL \/ b < Following(a)) => b <= a
<1> USE BlockFields, HeapSizeAssumption DEF Following, NULL, Header
<1>1. CASE block[a].next = NULL
  <2>1. End(a) = HEAP_SIZE
    BY <1>1 DEF Tiling
  <2>2. ASSUME NEW b \in Blocks, b > a PROVE FALSE
    BY <2>1, <2>2 DEF Tiling, End
  <2>3. QED  BY <1>1, <2>2
<1>2. CASE block[a].next # NULL
  <2>1. block[a].next = End(a) /\ End(a) \in Blocks /\ End(a) > a
    BY <1>2 DEF Tiling, End
  <2>2. \A b \in Blocks : b > a => End(a) <= b
    BY DEF Tiling
  <2>3. QED  BY <1>2, <2>1, <2>2
<1>3. QED  BY <1>1, <1>2

LEMMA InitIInv == Init => IInv
  BY HeapSizeAssumption, WordModAssumption
     DEF Init, IInv, TypeOK, Tiling, Ownership, LoopInv, Blocks, End, Header, NULL, Mergeable

(* Two states with the same headers tile the heap alike. *)
LEMMA SameTiling ==
    ASSUME Tiling, TypeOK, Blocks' = Blocks,
           \A a \in Blocks : block'[a].size = block[a].size /\ block'[a].next = block[a].next
    PROVE  Tiling'
  BY DEF Tiling, End

LEMMA KmallocInv == IInv /\ kmalloc => IInv'
<1> SUFFICES ASSUME IInv, kmalloc PROVE IInv'
  OBVIOUS
<1>1. TypeOK'
  BY RequestsAssumption DEF kmalloc, IInv, TypeOK, Blocks
<1>2. Tiling' /\ Ownership'
  BY DEF kmalloc, IInv, Tiling, Ownership, Blocks, End
<1>3. LoopInv'
  BY BlockFields DEF kmalloc, IInv, Tiling, LoopInv, Blocks, Done, Mergeable, Fits, NULL
<1>4. QED  BY <1>1, <1>2, <1>3 DEF IInv

LEMMA SkipInv == IInv /\ Skip => IInv'
<1> SUFFICES ASSUME IInv, Skip PROVE IInv'
  OBVIOUS
<1>1. current \in Blocks /\ Blocks' = Blocks /\ block' = block /\ TypeOK /\ Tiling
  BY DEF Skip, IInv, LoopInv, Blocks
<1>2. TypeOK'
  BY <1>1, BlockFields DEF Skip, TypeOK, Following
<1>3. Tiling' /\ Ownership'
  BY DEF Skip, IInv, Tiling, Ownership, Blocks, End
<1>4. LoopInv'
  <2>1. /\ Following(current) # NULL => Following(current) \in Blocks
        /\ \A b \in Blocks : (Following(current) = NULL \/ b < Following(current)) => b <= current
    BY <1>1, FollowingIsNextBlock
  <2>2. \A a \in Blocks : Done(a)' => ~ Fits(a)
    BY <1>1, <2>1, BlockFields DEF Skip, IInv, LoopInv, Done, NULL
  <2>3. \A a \in Blocks : (Fits(a)' <=> Fits(a)) /\ (Mergeable(a)' <=> Mergeable(a))
    BY <1>1 DEF Skip, Fits, Mergeable
  <2>4. QED
    BY <1>1, <2>1, <2>2, <2>3 DEF Skip, IInv, LoopInv
<1>5. QED  BY <1>2, <1>3, <1>4 DEF IInv

LEMMA FailInv == IInv /\ Fail => IInv'
<1> SUFFICES ASSUME IInv, Fail PROVE IInv'
  OBVIOUS
<1>1. TypeOK'
  BY WordModAssumption, HeapSizeAssumption DEF Fail, IInv, TypeOK, Blocks
<1>2. Tiling' /\ Ownership'
  BY DEF Fail, IInv, Tiling, Ownership, Blocks, End
<1>3. LoopInv'
  BY DEF Fail, IInv, LoopInv, Blocks, Mergeable, NULL
<1>4. QED  BY <1>1, <1>2, <1>3 DEF IInv

LEMMA ReturnInv == IInv /\ Return => IInv'
<1> SUFFICES ASSUME IInv, Return PROVE IInv'
  OBVIOUS
<1>1. TypeOK'
  BY DEF Return, IInv, TypeOK, Blocks
<1>2. Tiling' /\ Ownership'
  BY DEF Return, IInv, Tiling, Ownership, Blocks, End
<1>3. LoopInv'
  BY DEF Return, IInv, LoopInv, Blocks, Mergeable, Done, NULL
<1>4. QED  BY <1>1, <1>2, <1>3 DEF IInv

LEMMA AdvanceInv == IInv /\ Advance => IInv'
<1> SUFFICES ASSUME IInv, Advance PROVE IInv'
  OBVIOUS
<1>1. current \in Blocks /\ Blocks' = Blocks /\ block' = block /\ TypeOK /\ Tiling
  BY DEF Advance, IInv, LoopInv, Blocks
<1>2. TypeOK'
  BY <1>1, BlockFields DEF Advance, TypeOK, Following
<1>3. Tiling' /\ Ownership'
  BY DEF Advance, IInv, Tiling, Ownership, Blocks, End
<1>4. LoopInv'
  <2>1. /\ Following(current) # NULL => Following(current) \in Blocks
        /\ \A b \in Blocks : (Following(current) = NULL \/ b < Following(current)) => b <= current
    BY <1>1, FollowingIsNextBlock
  <2>2. \A a \in Blocks : Done(a)' => ~ Mergeable(a)
    BY <1>1, <2>1, BlockFields DEF Advance, IInv, LoopInv, Done, NULL
  <2>3. \A a \in Blocks : Mergeable(a)' <=> Mergeable(a)
    BY <1>1 DEF Advance, Mergeable
  <2>4. QED
    BY <1>1, <2>1, <2>2, <2>3 DEF Advance, IInv, LoopInv
<1>5. QED  BY <1>2, <1>3, <1>4 DEF IInv

(* kfree begins: the freed block is used, so nobody else's. *)
LEMMA KfreeInv == IInv /\ kfree => IInv'
<1> SUFFICES ASSUME IInv, kfree PROVE IInv'
  OBVIOUS
<1>1. PICK p \in DOMAIN live :
        /\ block' = [block EXCEPT ![p - Header].is_free = TRUE]
        /\ live' = [q \in DOMAIN live \ {p} |-> live[q]]
        /\ current' = 0
  BY DEF kfree, CoalesceFrom
<1>2. op' = "kfree" /\ UNCHANGED request /\ TypeOK /\ Tiling
  BY DEF kfree, IInv
<1>3. p - Header \in Blocks /\ p \in Nat
  BY DEF IInv, Ownership, TypeOK
<1>4. /\ Blocks' = Blocks
      /\ \A a \in Blocks : block'[a].size = block[a].size /\ block'[a].next = block[a].next
      /\ \A a \in Blocks \ {p - Header} : block'[a].is_free = block[a].is_free
      /\ block'[p - Header].is_free = TRUE
      /\ block' \in [Blocks -> [size : Nat, is_free : BOOLEAN, next : Nat \cup {NULL}]]
  BY <1>1, <1>2, <1>3 DEF TypeOK, Blocks
<1>5. TypeOK'
  BY <1>1, <1>2, <1>4 DEF TypeOK
<1>6. Tiling'
  BY <1>2, <1>4, SameTiling
<1>7. Ownership'
  BY <1>1, <1>2, <1>3, <1>4 DEF IInv, Ownership, Header, TypeOK
<1>8. LoopInv'
  <2>1. 0 \in Blocks' /\ current' = 0 /\ \A a \in Blocks : ~ Done(a)'
    BY <1>1, <1>2, <1>4, BlockFields DEF Tiling, Done, NULL
  <2>2. QED
    BY <1>2, <1>4, <2>1 DEF LoopInv
<1>9. QED  BY <1>5, <1>6, <1>7, <1>8 DEF IInv

(* kmalloc ends with a block: taken whole, or split in two. *)
LEMMA TakeInv == IInv /\ Take => IInv'
<1> SUFFICES ASSUME IInv, Take PROVE IInv'
  OBVIOUS
<1>1. PICK c \in Blocks, size \in Nat : c = current /\ size = Aligned(request)
  BY AlignedNat DEF Take, IInv, LoopInv, TypeOK
<1>2. /\ op = "kmalloc" /\ TypeOK /\ Tiling
      /\ live' = [p \in DOMAIN live \cup {c + Header} |->
                     IF p = c + Header THEN request ELSE live[p]]
      /\ op' = "none" /\ current' = NULL /\ request' = 0
      /\ request \in 0 .. WORD_MOD - 1
  BY <1>1 DEF Take, IInv, TypeOK
<1>3. /\ request + 3 < WORD_MOD => request <= size
      /\ block[c].size >= size /\ block[c].is_free
  BY <1>1, <1>2, AlignedNat DEF Take, Fits
<1>4. \A p \in DOMAIN live : p \in Nat /\ p - Header \in Blocks /\ p - Header # c
  BY <1>3 DEF IInv, Ownership, TypeOK
<1>5. \A a \in Blocks : ~ Mergeable(a)
  BY <1>2 DEF IInv, LoopInv
<1>6. \A a \in Blocks : block[a].next # NULL => block[a].next \in Blocks
  BY <1>2 DEF Tiling
<1>7. CASE ~ Splits(c, size)
  <2>1. block' = [block EXCEPT ![c].is_free = FALSE]
    BY <1>1, <1>7 DEF Take, Whole
  <2>2. /\ Blocks' = Blocks
        /\ \A a \in Blocks : block'[a].size = block[a].size /\ block'[a].next = block[a].next
        /\ \A a \in Blocks \ {c} : block'[a].is_free = block[a].is_free
        /\ block'[c].is_free = FALSE
        /\ block' \in [Blocks -> [size : Nat, is_free : BOOLEAN, next : Nat \cup {NULL}]]
    BY <1>2, <2>1 DEF TypeOK, Blocks
  <2>3. TypeOK'
    BY <1>2, <2>2, BlockFields, HeapSizeAssumption, WordModAssumption DEF TypeOK, Header
  <2>4. Tiling'
    BY <1>2, <2>2, SameTiling
  <2>5. Ownership'
    BY <1>2, <1>3, <1>4, <2>2, BlockFields DEF IInv, Ownership, Header
  <2>6. LoopInv'
    <3>1. ASSUME NEW a \in Blocks PROVE ~ Mergeable(a)'
      BY <1>5, <1>6, <2>2 DEF Mergeable
    <3>2. QED  BY <1>2, <2>2, <3>1 DEF LoopInv
  <2>7. QED  BY <2>3, <2>4, <2>5, <2>6 DEF IInv
<1>8. CASE Splits(c, size)
  <2>1. block[c].size > size + Header + 16
    BY <1>8 DEF Splits
  <2>2. PICK rest \in Nat : rest = c + Header + size
    BY <1>2, BlockFields DEF Header
  <2>3. block' = [b \in Blocks \cup {rest} |->
                    CASE b = c    -> [size |-> size, is_free |-> FALSE, next |-> rest]
                      [] b = rest -> [size |-> block[c].size - size - Header, is_free |-> TRUE,
                                      next |-> block[c].next]
                      [] OTHER    -> block[b]]
    BY <1>1, <1>8, <2>2 DEF Take, Split, RestNext
  <2>4. /\ c \in 0 .. HEAP_SIZE /\ block[c].size \in Nat
        /\ c < rest /\ rest < End(c) /\ End(c) <= HEAP_SIZE
        /\ block[c].next \in Nat \cup {NULL}
    BY <1>2, <2>1, <2>2, BlockFields, HeapSizeAssumption DEF Header, End, Tiling
  <2>5. rest \notin Blocks
    BY <1>2, <2>4, BlockFields DEF Tiling
  <2>6. /\ Blocks' = Blocks \cup {rest}
        /\ block'[c] = [size |-> size, is_free |-> FALSE, next |-> rest]
        /\ block'[rest] = [size |-> block[c].size - size - Header, is_free |-> TRUE,
                           next |-> block[c].next]
        /\ \A a \in Blocks \ {c} : block'[a] = block[a]
    BY <2>3, <2>4, <2>5 DEF Blocks
  <2>7. /\ block'[c].size = size /\ ~ block'[c].is_free /\ block'[c].next = rest
        /\ block'[rest].size = block[c].size - size - Header
        /\ block'[rest].is_free /\ block'[rest].next = block[c].next
    BY <2>6
  <2>8. TypeOK'
    <3> DEFINE Type == [size : Nat, is_free : BOOLEAN, next : Nat \cup {NULL}]
    <3>1. block'[c] \in Type
      BY <2>6
    <3>2. block'[rest] \in Type
      <4>1. block[c].size - size - Header \in Nat
        BY <2>1, <2>4 DEF Header
      <4>2. QED  BY <2>4, <2>6, <4>1
    <3>3. \A a \in Blocks \ {c} : block'[a] \in Type
      BY <1>2, <2>6 DEF TypeOK
    <3>4. block' \in [Blocks' -> Type]
      BY <2>3, <2>6, <3>1, <3>2, <3>3
    <3>5. Blocks' \subseteq 0 .. HEAP_SIZE
      <4>1. rest \in 0 .. HEAP_SIZE
        BY <1>2, <2>4, BlockFields, HeapSizeAssumption
      <4>2. QED  BY <1>2, <2>6, <4>1 DEF TypeOK
    <3>6. DOMAIN live' \subseteq Nat /\ live' \in [DOMAIN live' -> 0 .. WORD_MOD - 1]
      BY <1>2, <2>4 DEF TypeOK, Header
    <3>7. QED
      BY <1>2, <3>4, <3>5, <3>6, HeapSizeAssumption, WordModAssumption DEF TypeOK
  <2>9. /\ End(c)' = rest /\ End(rest)' = End(c)
        /\ \A a \in Blocks \ {c} : End(a)' = End(a)
    BY <2>2, <2>4, <2>6, <2>7 DEF End, Header
  <2>10. Tiling'
    <3>1. 0 \in Blocks'
      BY <1>2, <2>6 DEF Tiling
    <3>2. ASSUME NEW a \in Blocks'
          PROVE  IF block'[a].next = NULL THEN End(a)' = HEAP_SIZE
                 ELSE block'[a].next = End(a)' /\ End(a)' \in Blocks'
      <4>1. CASE a = c
        BY <4>1, <2>6, <2>7, <2>9 DEF NULL
      <4>2. CASE a = rest
        BY <4>2, <1>2, <2>6, <2>7, <2>9 DEF Tiling
      <4>3. CASE a \in Blocks \ {c}
        BY <4>3, <1>2, <2>6, <2>9 DEF Tiling
      <4>4. QED  BY <2>6, <4>1, <4>2, <4>3
    <3>3. \A a \in Blocks' : End(a)' <= HEAP_SIZE
      BY <1>2, <2>4, <2>6, <2>9, BlockFields, HeapSizeAssumption DEF Tiling
    <3>4. ASSUME NEW a \in Blocks', NEW b \in Blocks', a < b PROVE End(a)' <= b
      <4>1. \A x, y \in Blocks : x < y => End(x) <= y
        BY <1>2 DEF Tiling
      <4>2. \A x \in Blocks : x \in Nat /\ End(x) \in Nat
        BY <1>2, BlockFields
      <4>3. \A x \in Blocks : x < rest => x <= c
        BY <2>4, <4>1, <4>2
      <4>4. CASE b = rest
        <5>1. a \in Blocks
          BY <3>4, <4>4, <2>6
        <5>2. CASE a = c
          BY <5>2, <4>4, <2>9
        <5>3. CASE a # c
          <6>1. End(a)' = End(a) /\ End(a) <= c
            BY <3>4, <4>1, <4>2, <4>3, <4>4, <5>1, <5>3, <2>9
          <6>2. QED  BY <6>1, <4>2, <4>4, <5>1, <2>4
        <5>4. QED  BY <5>2, <5>3
      <4>5. CASE b # rest
        <5>1. b \in Blocks
          BY <4>5, <2>6
        <5>2. CASE a = c
          <6>1. End(c) <= b /\ End(a)' = rest
            BY <5>1, <5>2, <3>4, <4>1, <2>9
          <6>2. QED  BY <5>1, <6>1, <4>2, <2>4
        <5>3. CASE a = rest
          <6>1. c < b
            BY <5>1, <5>3, <3>4, <4>2, <2>4
          <6>2. QED  BY <5>1, <5>3, <6>1, <4>1, <2>9
        <5>4. CASE a \in Blocks \ {c}
          BY <5>1, <5>4, <3>4, <4>1, <2>9
        <5>5. QED  BY <5>2, <5>3, <5>4, <2>6
      <4>6. QED  BY <4>4, <4>5
    <3>5. QED  BY <3>1, <3>2, <3>3, <3>4 DEF Tiling
  <2>11. Ownership'
    BY <1>2, <1>3, <1>4, <2>4, <2>5, <2>6, <2>7 DEF IInv, Ownership, Header
  <2>12. LoopInv'
    <3>1. ASSUME NEW a \in Blocks' PROVE ~ Mergeable(a)'
      <4>1. CASE a = c
        BY <4>1, <2>7 DEF Mergeable
      <4>2. CASE a = rest
        <5>1. block[c].next # NULL => block[c].next # c /\ ~ block[block[c].next].is_free
          BY <1>2, <1>3, <1>5, <2>4 DEF Mergeable, Tiling
        <5>2. QED  BY <4>2, <1>6, <2>6, <2>7, <5>1 DEF Mergeable
      <4>3. CASE a \in Blocks \ {c}
        BY <4>3, <1>5, <1>6, <2>6, <2>7 DEF Mergeable
      <4>4. QED  BY <2>6, <4>1, <4>2, <4>3
    <3>2. QED  BY <1>2, <3>1 DEF LoopInv
  <2>13. QED  BY <2>8, <2>10, <2>11, <2>12 DEF IInv
<1>9. QED  BY <1>7, <1>8

(* One step of coalescing: only the loop variable pointed to the block that  *)
(* leaves the list.                                                         *)
LEMMA MergeInv == IInv /\ Merge => IInv'
<1> SUFFICES ASSUME IInv, Merge PROVE IInv'
  OBVIOUS
<1> DEFINE b == block[current].next
<1>1. /\ op = "kfree" /\ current \in Blocks /\ Mergeable(current) /\ TypeOK /\ Tiling
      /\ UNCHANGED <<op, current, request, live>>
  BY DEF Merge, IInv, LoopInv
<1>2. /\ b = End(current) /\ b \in Blocks /\ b > current /\ b # 0 /\ block[b].is_free
      /\ block[current].is_free
  BY <1>1, BlockFields DEF Mergeable, Tiling, End, Header
<1>3. block' = [a \in Blocks \ {b} |->
                  IF a = current
                  THEN [size |-> block[current].size + Header + block[b].size, is_free |-> TRUE,
                        next |-> block[b].next]
                  ELSE block[a]]
  BY DEF Merge, MergedSize
<1> HIDE DEF b
<1>4. /\ Blocks' = Blocks \ {b}
      /\ block'[current] = [size |-> block[current].size + Header + block[b].size,
                            is_free |-> TRUE, next |-> block[b].next]
      /\ \A a \in Blocks \ {b, current} : block'[a] = block[a]
  BY <1>1, <1>2, <1>3, BlockFields DEF Blocks
<1>5. /\ \A a \in Blocks : a \in Nat /\ End(a) \in Nat
      /\ \A a, c \in Blocks : a < c => End(a) <= c
      /\ \A a \in Blocks : End(a) > a
  BY <1>1, BlockFields DEF Tiling, End, Header
<1>6. \A a \in Blocks \ {current} : block[a].next # b
  BY <1>1, <1>2, <1>5, BlockFields DEF Tiling, NULL
<1>7. /\ End(current)' = End(b)
      /\ \A a \in Blocks \ {b, current} : End(a)' = End(a)
  BY <1>1, <1>2, <1>4, BlockFields DEF End, Header
<1>8. TypeOK'
  <2>1. block' \in [Blocks' -> [size : Nat, is_free : BOOLEAN, next : Nat \cup {NULL}]]
    <3> DEFINE Type == [size : Nat, is_free : BOOLEAN, next : Nat \cup {NULL}]
    <3>1. \A a \in Blocks \ {b, current} : block'[a] \in Type
      BY <1>1, <1>4 DEF TypeOK
    <3>2. block'[current] \in Type
      <4>1. block[current].size + Header + block[b].size \in Nat /\ block[b].next \in Nat \cup {NULL}
        BY <1>1, <1>2, BlockFields DEF Header
      <4>2. QED  BY <1>4, <4>1
    <3>3. QED  BY <1>3, <1>4, <3>1, <3>2
  <2>2. QED  BY <1>1, <1>4, <2>1 DEF TypeOK
<1>9. Tiling'
  <2>1. 0 \in Blocks'
    BY <1>1, <1>2, <1>4 DEF Tiling
  <2>2. \A a \in Blocks' : IF block'[a].next = NULL THEN End(a)' = HEAP_SIZE
                           ELSE block'[a].next = End(a)' /\ End(a)' \in Blocks'
    <3>1. block[b].next # b /\ block[b].next # NULL => block[b].next \in Blocks \ {b}
      BY <1>1, <1>2, <1>5 DEF Tiling
    <3>2. block[b].next # b
      BY <1>1, <1>2, <1>5 DEF Tiling, NULL
    <3>3. QED
      BY <1>1, <1>2, <1>4, <1>6, <1>7, <3>1, <3>2 DEF Tiling
  <2>3. \A a \in Blocks' : End(a)' <= HEAP_SIZE
    BY <1>1, <1>2, <1>4, <1>7 DEF Tiling
  <2>4. \A a, c \in Blocks' : a < c => End(a)' <= c
    <3>1. \A c \in Blocks \ {b} : current < c => b < c
      <4>1. ASSUME NEW c \in Blocks, c # b, current < c PROVE b < c
        BY <4>1, <1>1, <1>2, <1>5
      <4>2. QED  BY <4>1
    <3>2. QED  BY <1>1, <1>2, <1>4, <1>5, <1>7, <3>1
  <2>5. QED  BY <2>1, <2>2, <2>3, <2>4 DEF Tiling
<1>10. Ownership'
  <2>1. \A p \in DOMAIN live : p - Header \in Blocks \ {b, current}
    BY <1>2 DEF IInv, Ownership
  <2>2. QED  BY <1>1, <1>2, <1>4, <2>1 DEF IInv, Ownership
<1>11. LoopInv'
  <2>1. \A a \in Blocks : a < current => ~ Mergeable(a)
    BY <1>1 DEF IInv, LoopInv, Done
  <2>2. \A a \in Blocks' : Done(a)' => ~ Mergeable(a)'
    <3>1. SUFFICES ASSUME NEW a \in Blocks \ {b}, a < current PROVE ~ Mergeable(a)'
      BY <1>1, <1>4, BlockFields DEF Done, NULL
    <3>2. a # current /\ block'[a] = block[a] /\ ~ Mergeable(a)
      BY <1>1, <1>4, <1>5, <2>1, <3>1
    <3>3. block[a].next # NULL => block[a].next \in Blocks \ {b}
      BY <1>1, <1>6, <3>2 DEF Tiling
    <3>4. QED  BY <1>2, <1>4, <3>2, <3>3 DEF Mergeable
  <2>3. QED
    BY <1>1, <1>2, <1>4, <1>5, <2>2 DEF LoopInv, NULL
<1>12. QED  BY <1>8, <1>9, <1>10, <1>11 DEF IInv

-----------------------------------------------------------------------------
LEMMA NextIInv == IInv /\ [Next]_vars => IInv'
<1> SUFFICES ASSUME IInv, [Next]_vars PROVE IInv'
  OBVIOUS
<1>1. CASE kmalloc \/ kfree
  BY <1>1, KmallocInv, KfreeInv
<1>2. CASE Loop
  BY <1>2, SkipInv, TakeInv, FailInv, MergeInv, AdvanceInv, ReturnInv DEF Loop
<1>3. CASE UNCHANGED vars
  BY <1>3 DEF vars, IInv, TypeOK, Tiling, Ownership, LoopInv, Blocks, End, Done, Mergeable, Fits
<1>4. QED  BY <1>1, <1>2, <1>3 DEF Next

THEOREM InductiveInvariant == Spec => []IInv
  BY InitIInv, NextIInv, PTL DEF Spec

(* The list's links and the loops' variable stay within the heap: no field  *)
(* of a header is ever read outside it.                                     *)
THEOREM TypeCorrect == Spec => []TypeOK
  BY InductiveInvariant, PTL DEF IInv

(* The blocks always tile the heap, whatever the order of allocations and    *)
(* frees.                                                                   *)
THEOREM TilingAlways == Spec => []Tiling
  BY InductiveInvariant, PTL DEF IInv

(* What callers hold is used, large enough and not leaked. *)
THEOREM OwnershipAlways == Spec => []Ownership
  BY InductiveInvariant, PTL DEF IInv

(* One pass of kfree coalesces all free neighbours. *)
THEOREM CoalescedAlways == Spec => []Coalesced
<1>1. IInv => Coalesced
  BY DEF IInv, LoopInv, Coalesced
<1>2. QED  BY <1>1, InductiveInvariant, PTL

(* kmalloc returns 0 only when no free block is large enough. *)
THEOREM RefusesOnlyWhenFullAlways == Spec => []RefusesOnlyWhenFull
<1>1. IInv => RefusesOnlyWhenFull
  BY DEF IInv, LoopInv, RefusesOnlyWhenFull, Done
<1>2. QED  BY <1>1, InductiveInvariant, PTL

-----------------------------------------------------------------------------
(* Payloads of used blocks are apart from each other. *)
LEMMA HeldApart ==
    ASSUME IInv, NEW a \in Blocks, NEW q \in DOMAIN live, q # a + Header,
           live[q] <= block[q - Header].size, NEW n \in Nat, n <= block[a].size
    PROVE  Abstract!Apart(a + Header, n, q, live[q]) /\ a + Header \in 0 .. HEAP_SIZE
             /\ a + Header + n <= HEAP_SIZE
<1>1. TypeOK /\ Tiling /\ q - Header \in Blocks /\ q \in Nat /\ live[q] \in Nat
  BY DEF IInv, Ownership, TypeOK
<1>2. End(a) \in Nat /\ End(q - Header) \in Nat /\ a \in Nat
  BY <1>1, BlockFields
<1>3. a < q - Header \/ q - Header < a
  BY <1>1, <1>2 DEF Header
<1>4. End(a) <= q - Header \/ End(q - Header) <= a
  BY <1>1, <1>3 DEF Tiling
<1>5. End(a) <= HEAP_SIZE
  BY <1>1 DEF Tiling
<1>6. QED
  BY <1>1, <1>2, <1>4, <1>5, BlockFields, HeapSizeAssumption DEF Abstract!Apart, End, Header

\* No request is so large that rounding it up wraps.
NoWrap == \A n \in REQUESTS : n + 3 < WORD_MOD

\* The sizes at play are sizes that were asked for.
SizesRequested ==
    /\ op = "kmalloc" => request \in REQUESTS
    /\ \A p \in DOMAIN live : live[p] \in REQUESTS

LEMMA SizesRequestedAlways == Spec => []SizesRequested
<1>1. Init => SizesRequested
  BY DEF Init, SizesRequested
<1>2. SizesRequested /\ [Next]_vars => SizesRequested'
  <2> SUFFICES ASSUME SizesRequested, [Next]_vars PROVE SizesRequested'
    OBVIOUS
  <2>1. CASE kmalloc
    BY <2>1 DEF kmalloc, SizesRequested
  <2>2. CASE kfree
    BY <2>2 DEF kfree, SizesRequested
  <2>3. CASE Take
    BY <2>3 DEF Take, SizesRequested
  <2>4. CASE Skip \/ Fail \/ Merge \/ Advance \/ Return
    BY <2>4 DEF Skip, Fail, Merge, Advance, Return, SizesRequested
  <2>5. CASE UNCHANGED vars
    BY <2>5 DEF vars, SizesRequested
  <2>6. QED  BY <2>1, <2>2, <2>3, <2>4, <2>5 DEF Next, Loop
<1>3. QED  BY <1>1, <1>2, PTL DEF Spec

(* A step of the heap is a step of the allocator, or changes nothing a caller *)
(* sees: kmalloc allocates when it takes a block, kfree frees when it marks it. *)
LEMMA StepImplements ==
    ASSUME NoWrap, IInv, SizesRequested, [Next]_vars
    PROVE  [Abstract!Next]_live
<1>1. CASE Take
  <2>1. PICK a \in Blocks : a = current
    BY <1>1 DEF Take, IInv, LoopInv
  <2>2. PICK n \in REQUESTS : n = request
    BY <1>1 DEF Take, SizesRequested
  <2>3. live' = [q \in DOMAIN live \cup {a + Header} |-> IF q = a + Header THEN n ELSE live[q]]
    BY <1>1, <2>1, <2>2 DEF Take
  <2>4. n \in Nat /\ n <= block[a].size
    <3>1. n \in Nat /\ n <= Aligned(n) /\ Aligned(n) \in Nat
      BY <2>2, AlignedNat, RequestsAssumption DEF NoWrap
    <3>2. Aligned(n) <= block[a].size
      BY <1>1, <2>1, <2>2 DEF Take, Fits
    <3>3. QED  BY <2>1, <3>1, <3>2, BlockFields DEF IInv
  <2>5. a + Header \in 0 .. HEAP_SIZE /\ a + Header + n <= HEAP_SIZE
    <3>1. a \in Nat /\ a + Header + block[a].size <= HEAP_SIZE /\ block[a].size \in Nat
      BY BlockFields DEF IInv, Tiling, End
    <3>2. QED  BY <2>4, <3>1, HeapSizeAssumption DEF Header
  <2>6. ASSUME NEW q \in DOMAIN live
        PROVE  Abstract!Apart(a + Header, n, q, live[q])
    <3>1. live[q] <= block[q - Header].size /\ q - Header \in Blocks /\ ~ block[q - Header].is_free
      BY <2>6 DEF NoWrap, SizesRequested, IInv, Ownership
    <3>2. block[a].is_free
      BY <1>1, <2>1 DEF Take, Fits
    <3>3. q # a + Header
      BY <3>1, <3>2, <2>1, BlockFields DEF IInv, Header
    <3>4. QED  BY <2>4, <3>1, <3>3, HeldApart
  <2>7. Abstract!Allocate
    BY <2>2, <2>3, <2>5, <2>6 DEF Abstract!Allocate
  <2>8. QED  BY <2>7 DEF Abstract!Next
<1>2. CASE kfree
  BY <1>2 DEF kfree, Abstract!Next, Abstract!Free
<1>3. CASE kmalloc \/ Skip \/ Fail \/ Merge \/ Advance \/ Return \/ UNCHANGED vars
  BY <1>3 DEF kmalloc, Skip, Fail, Merge, Advance, Return, vars
<1>4. QED  BY <1>1, <1>2, <1>3 DEF Next, Loop

(* kmalloc and kfree keep the promise of Allocator, as long as no request is  *)
(* within 3 bytes of the largest uint32_t.                                   *)
THEOREM HeapImplementsAllocator == ASSUME NoWrap PROVE Spec => ImplementsAllocator
<1>1. Init => Abstract!Init
  BY DEF Init, Abstract!Init
<1>2. IInv /\ SizesRequested /\ [Next]_vars => [Abstract!Next]_live
  BY StepImplements
<1>3. QED
  BY <1>1, <1>2, InductiveInvariant, SizesRequestedAlways, PTL
     DEF Spec, ImplementsAllocator, Abstract!Spec

-----------------------------------------------------------------------------
(***************************************************************************)
(* Termination.  Every iteration of a call brings the end of the block it   *)
(* looks at closer to the end of the heap: Skip and Advance go on to the    *)
(* next block, Merge makes the block longer.                                *)
(***************************************************************************)
Remaining ==
    IF op = "none" THEN 0
    ELSE IF current = NULL THEN 1
    ELSE 2 + HEAP_SIZE - End(current)

RemainingDecreases ==
    [][op # "none" => Remaining' \in Nat /\ Remaining' < Remaining]_vars

LEMMA RemainingNat == IInv => Remaining \in Nat
<1> SUFFICES ASSUME IInv PROVE Remaining \in Nat
  OBVIOUS
<1>1. CASE op # "none" /\ current # NULL
  <2>1. current \in Blocks
    BY <1>1 DEF IInv, LoopInv
  <2>2. End(current) \in Nat /\ End(current) <= HEAP_SIZE
    BY <2>1, BlockFields DEF IInv, Tiling
  <2>3. QED  BY <1>1, <2>2, HeapSizeAssumption DEF Remaining
<1>2. QED  BY <1>1 DEF Remaining

(* The block after a ends after a. *)
LEMMA NextEndsLater ==
    ASSUME TypeOK, Tiling, NEW a \in Blocks, block[a].next # NULL
    PROVE  block[a].next \in Blocks /\ End(block[a].next) > End(a)
<1>1. block[a].next = End(a) /\ End(a) \in Blocks
  BY DEF Tiling
<1>2. End(a) \in Nat /\ block[End(a)].size \in Nat
  BY <1>1, BlockFields
<1>3. End(End(a)) = End(a) + 12 + block[End(a)].size
  BY DEF End, Header
<1>4. QED  BY <1>1, <1>2, <1>3

LEMMA FollowingDecreases ==
    ASSUME IInv, op # "none", current # NULL, current' = Following(current),
           UNCHANGED <<block, op>>
    PROVE  Remaining' < Remaining
<1>1. current \in Blocks /\ TypeOK /\ Tiling
  BY DEF IInv, LoopInv
<1>2. End(current) \in Nat /\ End(current) <= HEAP_SIZE /\ HEAP_SIZE \in Nat
  BY <1>1, BlockFields, HeapSizeAssumption DEF Tiling
<1>3. Remaining = 2 + HEAP_SIZE - End(current)
  BY DEF Remaining
<1>4. CASE current' = NULL
  <2>1. Remaining' = 1
    BY <1>4 DEF Remaining
  <2>2. QED  BY <2>1, <1>2, <1>3
<1>5. CASE current' # NULL
  <2>1. current' \in Blocks /\ End(current') > End(current)
    BY <1>1, <1>5, NextEndsLater DEF Following
  <2>2. Remaining' = 2 + HEAP_SIZE - End(current')
    BY <1>5 DEF Remaining, End
  <2>3. End(current') \in Nat
    BY <1>1, <2>1, BlockFields
  <2>4. QED  BY <2>1, <2>2, <2>3, <1>2, <1>3
<1>6. QED  BY <1>4, <1>5

LEMMA MergeDecreases == IInv /\ Merge => Remaining' < Remaining
<1> SUFFICES ASSUME IInv, Merge PROVE Remaining' < Remaining
  OBVIOUS
<1> DEFINE b == block[current].next
<1>1. current \in Blocks /\ TypeOK /\ Tiling /\ op = "kfree" /\ current # NULL
  BY DEF IInv, LoopInv, Merge
<1>2. b # NULL /\ b \in Blocks /\ b # current
  <2>1. b # NULL
    BY DEF Merge, Mergeable
  <2>2. b = End(current) /\ b \in Blocks
    BY <1>1, <2>1 DEF Tiling
  <2>3. End(current) > current
    BY <1>1, BlockFields DEF End, Header
  <2>4. QED  BY <2>1, <2>2, <2>3, <1>1, BlockFields
<1>3. block'[current].size = block[current].size + 12 + block[b].size
  BY <1>1, <1>2 DEF Merge, MergedSize, Header, Blocks
<1>4. op' = op /\ current' = current
  BY DEF Merge
<1>5. block[current].size \in Nat /\ block[b].size \in Nat /\ current \in Nat /\ HEAP_SIZE \in Nat
  BY <1>1, <1>2, BlockFields, HeapSizeAssumption
<1>6. Remaining = 2 + HEAP_SIZE - (current + 12 + block[current].size)
  BY <1>1 DEF Remaining, End, Header
<1>7. Remaining' = 2 + HEAP_SIZE - (current + 12 + block'[current].size)
  BY <1>1, <1>4 DEF Remaining, End, Header
<1>8. QED  BY <1>3, <1>5, <1>6, <1>7

LEMMA EndDecreases ==
    ASSUME IInv, op # "none", op' = "none" PROVE Remaining' < Remaining
<1>1. Remaining' = 0
  BY DEF Remaining
<1>2. CASE current = NULL
  BY <1>1, <1>2 DEF Remaining
<1>3. CASE current # NULL
  <2>1. current \in Blocks
    BY <1>3 DEF IInv, LoopInv
  <2>2. End(current) \in Nat /\ End(current) <= HEAP_SIZE /\ HEAP_SIZE \in Nat
    BY <2>1, BlockFields, HeapSizeAssumption DEF IInv, Tiling
  <2>3. QED  BY <1>1, <1>3, <2>2 DEF Remaining
<1>4. QED  BY <1>2, <1>3

(* No call of kmalloc or kfree runs on: every iteration leaves less to do,   *)
(* so a call takes at most HEAP_SIZE steps, whatever the list looks like.   *)
THEOREM CallsAreBounded == Spec => RemainingDecreases
<1>1. ASSUME IInv, Next, op # "none" PROVE Remaining' < Remaining
  <2>1. CASE Skip
    BY <1>1, <2>1, FollowingDecreases DEF Skip
  <2>2. CASE Advance
    BY <1>1, <2>2, FollowingDecreases DEF Advance
  <2>3. CASE Merge
    BY <1>1, <2>3, MergeDecreases
  <2>4. CASE Take \/ Fail \/ Return
    BY <1>1, <2>4, EndDecreases DEF Take, Fail, Return
  <2>5. QED  BY <1>1, <2>1, <2>2, <2>3, <2>4 DEF Next, kmalloc, kfree, Loop
<1> DEFINE Bounded == IInv /\ Remaining \in Nat
<1>2. IInv => Bounded
  BY RemainingNat
<1>3. Bounded /\ Bounded' /\ [Next]_vars =>
        [op # "none" => Remaining' \in Nat /\ Remaining' < Remaining]_vars
  BY <1>1
<1> HIDE DEF Bounded
<1>4. QED  BY <1>2, <1>3, InductiveInvariant, PTL DEF Spec, RemainingDecreases
=============================================================================
