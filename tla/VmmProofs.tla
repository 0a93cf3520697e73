----------------------------- MODULE VmmProofs -----------------------------
(***************************************************************************)
(* Proofs about paging: for every size of RAM, of the tables and of the     *)
(* kernel, no frame has two uses or is lost, none that is handed out        *)
(* overlaps the kernel, the identity map stays, device registers end up     *)
(* mapped, and the tables implement an AddressSpace.                        *)
(***************************************************************************)
EXTENDS Vmm, TLAPS

(***************************************************************************)
(* Arithmetic.                                                              *)
(***************************************************************************)
LEMMA Division ==
    ASSUME NEW a \in Nat, NEW n \in Nat \ {0}
    PROVE  /\ a \div n \in Nat /\ a % n \in 0 .. n - 1
           /\ a = (a \div n) * n + (a % n)
  OBVIOUS

LEMMA QuotientBelow ==
    ASSUME NEW a \in Nat, NEW n \in Nat \ {0}, NEW m \in Nat
    PROVE  a < m * n <=> a \div n < m
<1>1. PICK q \in Nat, r \in 0 .. n - 1 : q = a \div n /\ a = q * n + r
  BY Division
<1>2. CASE q < m
  <2>1. (q + 1) * n <= m * n
    BY <1>2
  <2>2. QED  BY <1>1, <1>2, <2>1
<1>3. CASE q >= m
  <2>1. q * n >= m * n
    BY <1>3
  <2>2. QED  BY <1>1, <1>3, <2>1
<1>4. QED  BY <1>2, <1>3

(* A page is its directory index and its index in the table. *)
LEMMA PageSplit ==
    ASSUME NEW v \in Pages
    PROVE  /\ Dir(v) \in 0 .. DIR_SIZE - 1 /\ Index(v) \in 0 .. TABLE_SIZE - 1
           /\ v = Dir(v) * TABLE_SIZE + Index(v)
           /\ v \in IdentityPages <=> Dir(v) < IDENTITY_MAP_TABLES
<1>1. v \in Nat /\ TABLE_SIZE \in Nat \ {0} /\ v < DIR_SIZE * TABLE_SIZE /\ DIR_SIZE \in Nat
      /\ IDENTITY_MAP_TABLES \in Nat
  BY TableAssumption DEF Pages
<1>2. /\ v \div TABLE_SIZE \in Nat /\ v % TABLE_SIZE \in 0 .. TABLE_SIZE - 1
      /\ v = (v \div TABLE_SIZE) * TABLE_SIZE + (v % TABLE_SIZE)
  BY <1>1, Division
<1>3. v \div TABLE_SIZE < DIR_SIZE
      /\ (v < IDENTITY_MAP_TABLES * TABLE_SIZE <=> v \div TABLE_SIZE < IDENTITY_MAP_TABLES)
  BY <1>1, QuotientBelow
<1>4. v \in IdentityPages <=> v < IDENTITY_MAP_TABLES * TABLE_SIZE
  BY <1>1 DEF IdentityPages
<1>5. QED  BY <1>1, <1>2, <1>3, <1>4 DEF Dir, Index

LEMMA ReservedNat ==
    /\ ReservedFrames \in 0 .. TOTAL_FRAMES
    /\ \A f \in Nat : f >= ReservedFrames => f * PAGE_SIZE >= KERNEL_END
<1>1. PICK p \in Nat \ {0}, t \in Nat \ {0}, k \in Nat :
        p = PAGE_SIZE /\ t = TOTAL_FRAMES /\ k = KERNEL_END /\ k <= t * p
  BY PageSizeAssumption, FramesAssumption, KernelEndAssumption
<1>2. PICK q \in Int : q = (k + p - 1) \div p
  OBVIOUS
<1>3. q * p <= k + p - 1 /\ k + p - 1 < (q + 1) * p
  BY <1>2
<1>4. q \in Nat
  BY <1>3
<1>5. q <= t
  BY <1>1, <1>3
<1>6. \A f \in Nat : f >= q => f * p >= k
  BY <1>3
<1>7. QED  BY <1>1, <1>2, <1>4, <1>5, <1>6 DEF ReservedFrames

(* What vmm_map_mmio goes through: whole pages up to the end. *)
LEMMA MmioRange ==
    ASSUME NEW range \in MMIO
    PROVE  /\ PageOf(range[1]) \in Nat /\ PageOf(range[1]) % PAGE_SIZE = 0
           /\ PageOf(range[1]) <= range[1]
           /\ MmioEnd(range) \in 0 .. WORD_MOD /\ MmioEnd(range) % PAGE_SIZE = 0
           /\ range[1] + range[2] + PAGE_SIZE - 1 < WORD_MOD =>
                range[1] + range[2] <= MmioEnd(range)
<1>1. PICK p \in Nat \ {0}, w \in Nat \ {0}, a \in Nat, s \in Nat :
        p = PAGE_SIZE /\ w = WORD_MOD /\ a = range[1] /\ s = range[2]
  BY PageSizeAssumption, TableAssumption, MmioAssumption DEF WORD_MOD
<1>2. ASSUME NEW x \in Nat
      PROVE  PageOf(x) \in Nat /\ PageOf(x) % p = 0 /\ PageOf(x) <= x /\ x < PageOf(x) + p
  <2>1. PICK q \in Nat, r \in 0 .. p - 1 : r = x % p /\ x = q * p + r
    BY Division
  <2>2. x - r = q * p /\ (q * p) % p = 0
    BY <2>1
  <2>3. QED  BY <1>1, <2>1, <2>2 DEF PageOf
<1>3. PICK k \in Nat : k = a + s + p - 1
  OBVIOUS
<1>4. k % w \in 0 .. w - 1 /\ (k < w => k % w = k)
  OBVIOUS
<1>5. PICK e \in Nat : e = k % w
  BY <1>4
<1>6. MmioEnd(range) = PageOf(e)
  BY <1>1, <1>3, <1>5 DEF MmioEnd
<1>7. /\ PageOf(a) \in Nat /\ PageOf(a) % p = 0 /\ PageOf(a) <= a
      /\ PageOf(e) \in Nat /\ PageOf(e) % p = 0 /\ PageOf(e) <= e /\ e < PageOf(e) + p
  BY <1>2
<1>8. e <= w - 1 /\ (k < w => e = k)
  BY <1>4, <1>5
<1>9. QED  BY <1>1, <1>3, <1>6, <1>7, <1>8

-----------------------------------------------------------------------------
(***************************************************************************)
(* The inductive invariant.                                                 *)
(***************************************************************************)
DirectoryShape ==
    \A d \in 0 .. DIR_SIZE - 1 :
        IF d < IDENTITY_MAP_TABLES THEN page_directory[d] = IdentityTable(d)
        ELSE page_directory[d] \in Frames \cup {Absent}

\* The pages that the loop of vmm_map_mmio has passed.
Passed(v) == PageOf(mmio.range[1]) <= v * PAGE_SIZE /\ v * PAGE_SIZE < mmio.addr

MmioInv ==
    /\ mmio.end \in 0 .. WORD_MOD
    /\ mmio.addr % PAGE_SIZE = 0
    /\ mmio.active =>
         /\ mmio.range \in MMIO
         /\ mmio.end = MmioEnd(mmio.range)
         /\ OutOfMemory \/ \A v \in Pages : Passed(v) => Translate(v) # Absent

IInv ==
    /\ TypeOK /\ HintSound /\ FramesHaveOneUse
    /\ DirectoryShape /\ IdentityMapped /\ MmioInv

(* What pmm_alloc_frame returns was free. *)
LEMMA AllocFrame ==
    ASSUME TypeOK, HintSound, NEW f \in Frames, pmm_alloc_frame(f)
    PROVE  /\ f \notin frame_bitmap /\ frame_bitmap' = frame_bitmap \cup {f}
           /\ first_free_frame' = first_free_frame /\ HintSound'
  BY DEF pmm_alloc_frame, Candidates, HintSound

(* Two pages have the same entry only if they are the same page. *)
LEMMA EntryOfPage ==
    ASSUME FramesHaveOneUse, NEW v \in Pages, NEW w \in Pages,
           page_directory[Dir(v)] = page_directory[Dir(w)], page_directory[Dir(v)] # Absent,
           Index(v) = Index(w)
    PROVE  v = w
<1>1. Dir(v) = Dir(w)
  BY PageSplit DEF FramesHaveOneUse
<1>2. QED  BY <1>1, PageSplit

LEMMA EntryType ==
    ASSUME TypeOK, NEW v \in Pages
    PROVE  /\ page_directory[Dir(v)] \in Frames \cup IdentityTables \cup {Absent}
           /\ page_directory[Dir(v)] # Absent =>
                /\ page_directory[Dir(v)] \in Frames \cup IdentityTables
                /\ table[page_directory[Dir(v)]] \in Entries
           /\ Translate(v) \in Pages \cup {Absent}
<1>1. Dir(v) \in 0 .. DIR_SIZE - 1 /\ Index(v) \in 0 .. TABLE_SIZE - 1
  BY PageSplit
<1>2. QED  BY <1>1, ZenonT(60) DEF TypeOK, Entries, Translate

(***************************************************************************)
(* vmm_map_page: it changes the translation of its page only, or nothing.   *)
(***************************************************************************)
MapVars == <<frame_bitmap, first_free_frame, page_directory, table>>

LEMMA MapTranslates ==
    ASSUME TypeOK, HintSound, FramesHaveOneUse, NEW v \in Pages, NEW p \in Pages, MapPage(v, p)
    PROVE  \/ OutOfMemory /\ UNCHANGED MapVars
           \/ \A w \in Pages : Translate(w)' = IF w = v THEN p ELSE Translate(w)
<1>1. CASE MapFails(v)
  BY <1>1 DEF MapFails, MapVars
<1>2. CASE MapInTable(v, p)
  <2>1. PICK f \in Frames \cup IdentityTables : f = page_directory[Dir(v)] /\ f # Absent
    BY <1>2, EntryType DEF MapInTable
  <2>2. table' = [table EXCEPT ![f][Index(v)] = p] /\ page_directory' = page_directory
    BY <1>2, <2>1 DEF MapInTable, TableOf
  <2>3. ASSUME NEW w \in Pages
        PROVE  Translate(w)' = IF w = v THEN p ELSE Translate(w)
    <3>1. Index(v) \in 0 .. TABLE_SIZE - 1 /\ Index(w) \in 0 .. TABLE_SIZE - 1
      BY PageSplit
    <3>2. CASE w = v
      BY <3>1, <3>2, <2>1, <2>2 DEF TypeOK, Entries, Translate
    <3>3. CASE w # v
      <4>1. page_directory[Dir(w)] # f \/ Index(w) # Index(v)
        BY <3>3, <2>1, EntryOfPage
      <4>2. QED  BY <4>1, <3>1, <3>3, <2>1, <2>2, EntryType DEF TypeOK, Entries, Translate
    <3>4. QED  BY <3>2, <3>3
  <2>4. QED  BY <2>3
<1>3. CASE MapInNewTable(v, p)
  <2>1. PICK f \in Frames :
          /\ pmm_alloc_frame(f)
          /\ page_directory' = [page_directory EXCEPT ![Dir(v)] = f]
          /\ table' = [table EXCEPT ![f] = [NewTable(f) EXCEPT ![Index(v)] = p]]
    BY <1>3 DEF MapInNewTable
  <2>2. f \notin frame_bitmap /\ page_directory[Dir(v)] = Absent /\ f # Absent
    BY <1>3, <2>1, AllocFrame DEF MapInNewTable, Frames, Absent
  <2>3. \A d \in 0 .. DIR_SIZE - 1 : page_directory[d] # f
    BY <2>2 DEF FramesHaveOneUse, PageTables
  <2>4. table'[f] = [i \in 0 .. TABLE_SIZE - 1 |-> IF i = Index(v) THEN p ELSE Absent]
    BY <2>1 DEF TypeOK, NewTable
  <2>5. ASSUME NEW w \in Pages
        PROVE  Translate(w)' = IF w = v THEN p ELSE Translate(w)
    <3>1. /\ Index(v) \in 0 .. TABLE_SIZE - 1 /\ Index(w) \in 0 .. TABLE_SIZE - 1
          /\ Dir(v) \in 0 .. DIR_SIZE - 1 /\ Dir(w) \in 0 .. DIR_SIZE - 1
      BY PageSplit
    <3>2. CASE Dir(w) = Dir(v)
      <4>1. Translate(w)' = table'[f][Index(w)] /\ Translate(w) = Absent
        BY <2>1, <2>2, <3>1, <3>2 DEF TypeOK, Translate
      <4>2. Index(w) = Index(v) <=> w = v
        BY <3>2, PageSplit
      <4>3. QED  BY <2>4, <3>1, <4>1, <4>2
    <3>3. CASE Dir(w) # Dir(v)
      BY <2>1, <2>3, <3>1, <3>3, EntryType DEF TypeOK, Translate
    <3>4. QED  BY <3>2, <3>3
  <2>6. QED  BY <2>5
<1>4. QED  BY <1>1, <1>2, <1>3 DEF MapPage

MapTypes ==
    /\ frame_bitmap \subseteq Frames
    /\ first_free_frame \in 0 .. TOTAL_FRAMES
    /\ page_directory \in [0 .. DIR_SIZE - 1 -> Frames \cup IdentityTables \cup {Absent}]
    /\ table \in [Frames \cup IdentityTables -> Entries]

(* ... and keeps the tables' frames apart from every other use. *)
LEMMA MapKeeps ==
    ASSUME TypeOK, HintSound, FramesHaveOneUse, DirectoryShape,
           NEW v \in Pages, NEW p \in Pages, MapPage(v, p), UNCHANGED held
    PROVE  MapTypes' /\ HintSound' /\ FramesHaveOneUse' /\ DirectoryShape'
<1>1. Index(v) \in 0 .. TABLE_SIZE - 1 /\ Dir(v) \in 0 .. DIR_SIZE - 1
  BY PageSplit
<1>2. CASE MapFails(v)
  BY <1>2 DEF MapFails, TypeOK, MapTypes, HintSound, FramesHaveOneUse, PageTables, DirectoryShape
<1>3. CASE MapInTable(v, p)
  <2>1. UNCHANGED <<frame_bitmap, first_free_frame, page_directory>>
    BY <1>3 DEF MapInTable
  <2>2. HintSound' /\ FramesHaveOneUse' /\ DirectoryShape'
    BY <2>1 DEF HintSound, FramesHaveOneUse, PageTables, DirectoryShape
  <2>3. PICK f \in Frames \cup IdentityTables :
          table' = [table EXCEPT ![f] = [table[f] EXCEPT ![Index(v)] = p]]
    <3>1. page_directory[Dir(v)] \in Frames \cup IdentityTables
      BY <1>3, EntryType DEF MapInTable
    <3>2. QED  BY <1>3, <3>1 DEF MapInTable, TableOf
  <2>4. table[f] \in Entries
    BY DEF TypeOK
  <2>5. [table[f] EXCEPT ![Index(v)] = p] \in Entries
    BY <1>1, <2>4 DEF Entries
  <2>6. table' \in [Frames \cup IdentityTables -> Entries]
    BY <2>3, <2>5 DEF TypeOK
  <2>7. QED  BY <2>1, <2>2, <2>6 DEF TypeOK, MapTypes
<1>4. CASE MapInNewTable(v, p)
  <2>1. PICK f \in Frames :
          /\ pmm_alloc_frame(f)
          /\ page_directory' = [page_directory EXCEPT ![Dir(v)] = f]
          /\ table' = [table EXCEPT ![f] = [NewTable(f) EXCEPT ![Index(v)] = p]]
    BY <1>4 DEF MapInNewTable
  <2>2. /\ f \notin frame_bitmap /\ frame_bitmap' = frame_bitmap \cup {f}
        /\ first_free_frame' = first_free_frame /\ HintSound'
    BY <2>1, AllocFrame
  <2>3. page_directory[Dir(v)] = Absent /\ f # Absent
    BY <1>4 DEF MapInNewTable, Frames, Absent
  <2>4. \A d \in 0 .. DIR_SIZE - 1 : page_directory'[d] = IF d = Dir(v) THEN f ELSE page_directory[d]
    BY <2>1, <1>1 DEF TypeOK
  <2>5. MapTypes'
    <3>1. [NewTable(f) EXCEPT ![Index(v)] = p] \in Entries
      BY <1>1 DEF Entries, NewTable
    <3>2. table' \in [Frames \cup IdentityTables -> Entries]
      BY <2>1, <3>1 DEF TypeOK
    <3>3. QED  BY <2>1, <2>2, <3>2 DEF TypeOK, MapTypes
  <2>6. FramesHaveOneUse'
    <3>1. PageTables' = PageTables \cup {f}
      BY <2>3, <2>4, <1>1 DEF PageTables, Absent, Frames
    <3>2. f \notin PageTables /\ f \notin held /\ f \notin 0 .. ReservedFrames - 1
      BY <2>2 DEF FramesHaveOneUse
    <3>3. /\ frame_bitmap' = 0 .. ReservedFrames - 1 \cup PageTables' \cup held'
          /\ PageTables' \cap held' = {}
          /\ (PageTables' \cup held') \cap 0 .. ReservedFrames - 1 = {}
      BY <2>2, <3>1, <3>2 DEF FramesHaveOneUse
    <3>4. ASSUME NEW d \in 0 .. DIR_SIZE - 1, NEW e \in 0 .. DIR_SIZE - 1,
                 page_directory'[d] = page_directory'[e], page_directory'[d] # Absent
          PROVE  d = e
      <4>1. \A c \in 0 .. DIR_SIZE - 1 : page_directory[c] # f
        BY <3>2 DEF PageTables
      <4>2. QED  BY <3>4, <2>4, <4>1 DEF FramesHaveOneUse
    <3>5. QED  BY <3>3, <3>4 DEF FramesHaveOneUse
  <2>7. DirectoryShape'
    <3>1. ~ (Dir(v) < IDENTITY_MAP_TABLES)
      <4>1. CASE Dir(v) < IDENTITY_MAP_TABLES
        <5>1. page_directory[Dir(v)] = -2 - Dir(v)
          BY <1>1, <4>1 DEF DirectoryShape, IdentityTable
        <5>2. QED  BY <5>1, <1>1, <2>3 DEF Absent
      <4>2. QED  BY <4>1
    <3>2. QED  BY <2>4, <3>1 DEF DirectoryShape
  <2>8. QED  BY <2>2, <2>5, <2>6, <2>7
<1>5. QED  BY <1>2, <1>3, <1>4 DEF MapPage

(* When memory is exhausted, mapping a page does not change that. *)
LEMMA MapKeepsOutOfMemory ==
    ASSUME NEW v \in Pages, NEW p \in Pages, MapPage(v, p), OutOfMemory
    PROVE  OutOfMemory'
  BY DEF MapPage, MapInTable, MapInNewTable, MapFails, OutOfMemory, Candidates, pmm_alloc_frame

-----------------------------------------------------------------------------
(***************************************************************************)
(* Every action keeps the invariant.                                        *)
(***************************************************************************)
LEMMA InitIInv == Init => IInv
<1> SUFFICES ASSUME Init PROVE IInv
  OBVIOUS
<1> USE DEF Init, pmm_init
<1>1. TABLE_SIZE \in Nat \ {0} /\ DIR_SIZE \in Nat /\ IDENTITY_MAP_TABLES \in Nat \ {0}
      /\ DIR_SIZE > IDENTITY_MAP_TABLES /\ TOTAL_FRAMES \in Nat \ {0}
      /\ ReservedFrames \in 0 .. TOTAL_FRAMES
  BY TableAssumption, FramesAssumption, ReservedNat
<1>2. \A d \in 0 .. IDENTITY_MAP_TABLES - 1, i \in 0 .. TABLE_SIZE - 1 : d * TABLE_SIZE + i \in Pages
  <2>1. TAKE d \in 0 .. IDENTITY_MAP_TABLES - 1, i \in 0 .. TABLE_SIZE - 1
  <2>2. (d + 1) * TABLE_SIZE <= DIR_SIZE * TABLE_SIZE
    BY <1>1
  <2>3. QED  BY <1>1, <2>2 DEF Pages
<1>3. \A t \in 0 .. IDENTITY_MAP_TABLES - 1 :
        /\ IdentityTable(t) \in IdentityTables /\ IdentityTable(t) \notin Frames
        /\ table[IdentityTable(t)] = [i \in 0 .. TABLE_SIZE - 1 |-> t * TABLE_SIZE + i]
  <2>1. TAKE t \in 0 .. IDENTITY_MAP_TABLES - 1
  <2>2. IdentityTable(t) \in IdentityTables /\ IdentityTable(t) \notin Frames /\ -2 - IdentityTable(t) = t
    BY <1>1 DEF IdentityTable, IdentityTables, Frames
  <2>3. QED  BY <2>2
<1>4. TypeOK
  <2>1. 0 \in Pages
    <3>1. 1 <= DIR_SIZE * TABLE_SIZE
      <4>1. PICK d \in Nat \ {0}, t \in Nat \ {0} : d = DIR_SIZE /\ t = TABLE_SIZE
        BY <1>1
      <4>2. d * t >= 1
        OBVIOUS
      <4>3. QED  BY <4>1, <4>2
    <3>2. QED  BY <1>1, <3>1 DEF Pages
  <2>2. Junk \in Entries
    BY <2>1 DEF Junk, Entries
  <2>3. \A f \in IdentityTables : f \notin Frames /\ table[f] \in Entries
    <3>1. TAKE f \in IdentityTables
    <3>2. PICK t \in 0 .. IDENTITY_MAP_TABLES - 1 : f = IdentityTable(t)
      BY DEF IdentityTables
    <3>3. f \notin Frames /\ table[f] = [i \in 0 .. TABLE_SIZE - 1 |-> t * TABLE_SIZE + i]
      BY <1>3, <3>2
    <3>4. \A i \in 0 .. TABLE_SIZE - 1 : t * TABLE_SIZE + i \in Pages
      BY <1>2
    <3>5. QED  BY <3>3, <3>4 DEF Entries
  <2>4. table \in [Frames \cup IdentityTables -> Entries]
    BY <2>2, <2>3
  <2>5. frame_bitmap \subseteq Frames /\ first_free_frame \in 0 .. TOTAL_FRAMES
    BY <1>1 DEF Frames
  <2>6. page_directory \in [0 .. DIR_SIZE - 1 -> Frames \cup IdentityTables \cup {Absent}]
    <3>1. \A d \in 0 .. DIR_SIZE - 1 : d < IDENTITY_MAP_TABLES => IdentityTable(d) \in IdentityTables
      BY <1>1 DEF IdentityTables
    <3>2. QED  BY <3>1
  <2>7. QED  BY <2>4, <2>5, <2>6 DEF TypeOK, Idle
<1>5. HintSound
  BY <1>1 DEF HintSound, Frames
<1>6. FramesHaveOneUse
  <2>1. PageTables = {}
    <3>1. \A d \in 0 .. DIR_SIZE - 1 : page_directory[d] \notin Frames
      BY <1>1 DEF Frames, Absent, IdentityTable
    <3>2. QED  BY <3>1 DEF PageTables
  <2>2. QED  BY <1>1, <2>1 DEF FramesHaveOneUse, IdentityTable
<1>7. DirectoryShape
  BY <1>1 DEF DirectoryShape
<1>8. IdentityMapped
  <2> SUFFICES ASSUME NEW v \in IdentityPages PROVE Translate(v) = v
    BY DEF IdentityMapped
  <2>2. v \in Pages
    <3>1. IDENTITY_MAP_TABLES * TABLE_SIZE <= DIR_SIZE * TABLE_SIZE
      BY <1>1
    <3>2. QED  BY <1>1, <3>1 DEF IdentityPages, Pages
  <2>3. Dir(v) \in 0 .. IDENTITY_MAP_TABLES - 1 /\ Index(v) \in 0 .. TABLE_SIZE - 1
        /\ v = Dir(v) * TABLE_SIZE + Index(v)
    BY <2>2, PageSplit, <1>1
  <2>4. page_directory[Dir(v)] = IdentityTable(Dir(v)) /\ IdentityTable(Dir(v)) # Absent
    BY <1>1, <2>3 DEF IdentityTable, Absent
  <2>5. table[IdentityTable(Dir(v))][Index(v)] = Dir(v) * TABLE_SIZE + Index(v)
    <3> HIDE DEF Init
    <3>1. PICK d \in 0 .. IDENTITY_MAP_TABLES - 1, i \in 0 .. TABLE_SIZE - 1 : d = Dir(v) /\ i = Index(v)
      BY <2>3
    <3>2. table[IdentityTable(d)] = [j \in 0 .. TABLE_SIZE - 1 |-> d * TABLE_SIZE + j]
      BY <1>3
    <3>3. QED  BY <3>1, <3>2
  <2>6. QED
    <3> HIDE DEF Init
    <3>1. QED  BY <2>3, <2>4, <2>5 DEF Translate
<1>9. MmioInv
  BY PageSizeAssumption, <1>1 DEF MmioInv, Idle, WORD_MOD
<1>10. QED  BY <1>4, <1>5, <1>6, <1>7, <1>8, <1>9 DEF IInv

LEMMA IdentityPagesArePages == IdentityPages \subseteq Pages
<1>1. IDENTITY_MAP_TABLES * TABLE_SIZE <= DIR_SIZE * TABLE_SIZE
  BY TableAssumption
<1>2. QED  BY <1>1, TableAssumption DEF IdentityPages, Pages

LEMMA ZeroPage == 0 \in Pages /\ WORD_MOD \in Nat /\ 0 % PAGE_SIZE = 0
<1>1. PICK p \in Nat \ {0}, t \in Nat \ {0}, d \in Nat \ {0} :
        p = PAGE_SIZE /\ t = TABLE_SIZE /\ d = DIR_SIZE
  BY PageSizeAssumption, TableAssumption
<1>2. d * t \in Nat \ {0} /\ (d * t) * p \in Nat /\ 0 % p = 0
  OBVIOUS
<1>3. QED  BY <1>1, <1>2 DEF Pages, WORD_MOD

LEMMA NoMmio == 0 \in 0 .. WORD_MOD /\ 0 % PAGE_SIZE = 0
  BY ZeroPage

LEMMA MapPageInv == IInv /\ vmm_map_page => IInv'
<1> SUFFICES ASSUME IInv, vmm_map_page PROVE IInv'
  OBVIOUS
<1>1. PICK v \in Pages \ IdentityPages, p \in PHYSICAL : MapPage(v, p)
  BY DEF vmm_map_page
<1>2. UNCHANGED <<held, mmio>> /\ ~ mmio.active /\ p \in Pages
  BY PhysicalAssumption DEF vmm_map_page, Pages
<1>3. MapTypes' /\ HintSound' /\ FramesHaveOneUse' /\ DirectoryShape'
  BY <1>1, <1>2, MapKeeps DEF IInv
<1>4. TypeOK'
  BY <1>2, <1>3 DEF IInv, TypeOK, MapTypes
<1>5. IdentityMapped'
  <2>1. \/ OutOfMemory /\ UNCHANGED MapVars
        \/ \A w \in Pages : Translate(w)' = IF w = v THEN p ELSE Translate(w)
    BY <1>1, <1>2, MapTranslates DEF IInv
  <2>2. QED  BY <1>1, <2>1, IdentityPagesArePages DEF IInv, IdentityMapped, MapVars, Translate
<1>6. MmioInv'
  BY <1>2 DEF IInv, MmioInv
<1>7. QED  BY <1>3, <1>4, <1>5, <1>6 DEF IInv

LEMMA UnmapTranslates ==
    ASSUME TypeOK, FramesHaveOneUse, NEW v \in Pages, page_directory[Dir(v)] # Absent,
           table' = [table EXCEPT ![TableOf(v)][Index(v)] = Absent],
           UNCHANGED page_directory
    PROVE  /\ \A w \in Pages : Translate(w)' = IF w = v THEN Absent ELSE Translate(w)
           /\ table' \in [Frames \cup IdentityTables -> Entries]
<1>1. PICK f \in Frames \cup IdentityTables : f = page_directory[Dir(v)] /\ f # Absent
  BY EntryType
<1>2. table' = [table EXCEPT ![f] = [table[f] EXCEPT ![Index(v)] = Absent]]
  BY <1>1 DEF TableOf
<1>3. Index(v) \in 0 .. TABLE_SIZE - 1 /\ table[f] \in Entries
  BY PageSplit DEF TypeOK
<1>4. [table[f] EXCEPT ![Index(v)] = Absent] \in Entries
  BY <1>3 DEF Entries
<1>5. ASSUME NEW w \in Pages
      PROVE  Translate(w)' = IF w = v THEN Absent ELSE Translate(w)
  <2>1. Index(w) \in 0 .. TABLE_SIZE - 1
    BY PageSplit
  <2>2. CASE w = v
    <3>1. table'[f] = [table[f] EXCEPT ![Index(v)] = Absent]
      BY <1>2 DEF TypeOK
    <3>2. table'[f][Index(v)] = Absent
      BY <3>1, <1>3 DEF Entries
    <3>3. QED  BY <2>2, <3>2, <1>1 DEF Translate
  <2>3. CASE w # v
    <3>1. page_directory[Dir(w)] # f \/ Index(w) # Index(v)
      BY <2>3, <1>1, EntryOfPage
    <3>2. CASE page_directory[Dir(w)] # f
      <4>1. page_directory[Dir(w)] # Absent => table'[page_directory[Dir(w)]] = table[page_directory[Dir(w)]]
        BY <3>2, <1>2, EntryType DEF TypeOK
      <4>2. Translate(w)' = Translate(w)
        BY <4>1 DEF Translate
      <4>3. QED  BY <4>2, <2>3
    <3>3. CASE page_directory[Dir(w)] = f /\ Index(w) # Index(v)
      <4>1. table'[f][Index(w)] = table[f][Index(w)]
        BY <3>3, <1>2, <1>3, <2>1 DEF TypeOK, Entries
      <4>2. Translate(w)' = Translate(w)
        BY <3>3, <4>1, <1>1 DEF Translate
      <4>3. QED  BY <4>2, <2>3
    <3>4. QED  BY <3>1, <3>2, <3>3
  <2>4. QED  BY <2>2, <2>3
<1>6. QED  BY <1>2, <1>4, <1>5, ZenonT(60) DEF TypeOK

LEMMA UnmapPageInv == IInv /\ vmm_unmap_page => IInv'
<1> SUFFICES ASSUME IInv, vmm_unmap_page PROVE IInv'
  OBVIOUS
<1>1. PICK v \in Pages \ IdentityPages :
        /\ page_directory[Dir(v)] # Absent
        /\ table' = [table EXCEPT ![TableOf(v)][Index(v)] = Absent]
  BY DEF vmm_unmap_page
<1>2. UNCHANGED <<frame_bitmap, first_free_frame, page_directory, held, mmio>> /\ ~ mmio.active
  BY DEF vmm_unmap_page
<1>3. /\ \A w \in Pages : Translate(w)' = IF w = v THEN Absent ELSE Translate(w)
      /\ table' \in [Frames \cup IdentityTables -> Entries]
  BY <1>1, <1>2, UnmapTranslates DEF IInv
<1>4. TypeOK' /\ HintSound' /\ FramesHaveOneUse' /\ DirectoryShape'
  BY <1>2, <1>3 DEF IInv, TypeOK, HintSound, FramesHaveOneUse, PageTables, DirectoryShape
<1>5. IdentityMapped'
  BY <1>1, <1>3, IdentityPagesArePages DEF IInv, IdentityMapped
<1>6. MmioInv'
  BY <1>2 DEF IInv, MmioInv
<1>7. QED  BY <1>4, <1>5, <1>6 DEF IInv

(* Steps that leave the tables alone. *)
LEMMA MapMmioInv == IInv /\ vmm_map_mmio => IInv'
<1> SUFFICES ASSUME IInv, vmm_map_mmio PROVE IInv'
  OBVIOUS
<1>1. PICK range \in MMIO :
        mmio' = [addr |-> PageOf(range[1]), end |-> MmioEnd(range), range |-> range, active |-> TRUE]
  BY DEF vmm_map_mmio
<1>2. UNCHANGED <<frame_bitmap, first_free_frame, page_directory, table, held>>
  BY DEF vmm_map_mmio
<1>3. /\ PageOf(range[1]) \in Nat /\ PageOf(range[1]) % PAGE_SIZE = 0
      /\ MmioEnd(range) \in 0 .. WORD_MOD /\ MmioEnd(range) \in Nat
  BY MmioRange, TableAssumption, PageSizeAssumption DEF WORD_MOD
<1>4. TypeOK' /\ HintSound' /\ FramesHaveOneUse' /\ DirectoryShape' /\ IdentityMapped'
  BY <1>1, <1>2, <1>3
     DEF IInv, TypeOK, HintSound, FramesHaveOneUse, PageTables, DirectoryShape, IdentityMapped, Translate
<1>5. MmioInv'
  <2>1. \A v \in Pages : ~ Passed(v)'
    <3>1. mmio'.addr = PageOf(range[1]) /\ mmio'.range[1] = range[1]
      BY <1>1
    <3>2. \A v \in Pages : v * PAGE_SIZE \in Int
      BY PageSizeAssumption DEF Pages
    <3>3. PageOf(mmio.range[1])' = PageOf(range[1])
      BY <3>1 DEF PageOf
    <3>4. QED  BY <1>3, <3>1, <3>2, <3>3 DEF Passed
  <2>2. QED  BY <1>1, <1>3, <2>1 DEF MmioInv
<1>6. QED  BY <1>4, <1>5 DEF IInv

LEMMA MmioReturnInv == IInv /\ MmioReturn => IInv'
<1> SUFFICES ASSUME IInv, MmioReturn PROVE IInv'
  OBVIOUS
<1>1. UNCHANGED <<frame_bitmap, first_free_frame, page_directory, table, held>> /\ mmio' = Idle
  BY DEF MmioReturn
<1>2. TypeOK' /\ HintSound' /\ FramesHaveOneUse' /\ DirectoryShape' /\ IdentityMapped'
  BY <1>1
     DEF IInv, TypeOK, Idle, HintSound, FramesHaveOneUse, PageTables, DirectoryShape, IdentityMapped, Translate
<1>3. MmioInv'
  BY <1>1, NoMmio DEF MmioInv, Idle
<1>4. QED  BY <1>2, <1>3 DEF IInv

LEMMA TakeFrameInv == IInv /\ TakeFrame => IInv'
<1> SUFFICES ASSUME IInv, TakeFrame PROVE IInv'
  OBVIOUS
<1>1. PICK f \in Frames :
        pmm_alloc_frame(f) /\ held' = held \cup {f} /\ table' = [table EXCEPT ![f] = Junk]
  BY DEF TakeFrame
<1>2. UNCHANGED <<page_directory, mmio>> /\ ~ mmio.active
  BY DEF TakeFrame
<1>3. /\ f \notin frame_bitmap /\ frame_bitmap' = frame_bitmap \cup {f}
      /\ first_free_frame' = first_free_frame /\ HintSound'
  BY <1>1, AllocFrame DEF IInv
<1>4. \A d \in 0 .. DIR_SIZE - 1 : page_directory[d] # f
  BY <1>3 DEF IInv, FramesHaveOneUse, PageTables
<1>5. TypeOK'
  <2>1. Junk \in Entries
    BY ZeroPage DEF Junk, Entries
  <2>2. table' \in [Frames \cup IdentityTables -> Entries]
    BY <1>1, <2>1 DEF IInv, TypeOK
  <2>3. QED  BY <1>1, <1>2, <1>3, <2>2 DEF IInv, TypeOK
<1>6. FramesHaveOneUse'
  <2>1. PageTables' = PageTables /\ f \notin PageTables /\ f \notin 0 .. ReservedFrames - 1
    BY <1>2, <1>3 DEF IInv, FramesHaveOneUse, PageTables
  <2>2. QED  BY <1>1, <1>2, <1>3, <2>1 DEF IInv, FramesHaveOneUse
<1>7. \A v \in Pages : Translate(v)' = Translate(v)
  BY <1>1, <1>2, <1>4, EntryType, PageSplit DEF IInv, TypeOK, Translate
<1>8. IdentityMapped'
  BY <1>7, IdentityPagesArePages DEF IInv, IdentityMapped
<1>9. DirectoryShape' /\ MmioInv'
  BY <1>2 DEF IInv, DirectoryShape, MmioInv
<1>10. QED  BY <1>3, <1>5, <1>6, <1>8, <1>9 DEF IInv

LEMMA GiveFrameInv == IInv /\ GiveFrame => IInv'
<1> SUFFICES ASSUME IInv, GiveFrame PROVE IInv'
  OBVIOUS
<1>1. PICK f \in held : pmm_free_frame(f) /\ held' = held \ {f}
  BY DEF GiveFrame
<1>2. UNCHANGED <<page_directory, table, mmio>> /\ ~ mmio.active
  BY DEF GiveFrame
<1>3. /\ f \in Frames /\ frame_bitmap' = frame_bitmap \ {f}
      /\ first_free_frame' = Hint(f) /\ first_free_frame \in 0 .. TOTAL_FRAMES
  BY <1>1 DEF IInv, TypeOK, pmm_free_frame
<1>4. TypeOK'
  <2>1. Hint(f) \in 0 .. TOTAL_FRAMES
    BY <1>3, FramesAssumption DEF Hint, Frames
  <2>2. QED  BY <1>1, <1>2, <1>3, <2>1 DEF IInv, TypeOK
<1>5. HintSound'
  BY <1>3, FramesAssumption DEF IInv, HintSound, Hint, Frames
<1>6. FramesHaveOneUse'
  <2>1. PageTables' = PageTables
    BY <1>2 DEF PageTables
  <2>2. f \notin PageTables /\ f \notin 0 .. ReservedFrames - 1
    BY DEF IInv, FramesHaveOneUse
  <2>3. QED  BY <1>1, <1>2, <1>3, <2>1, <2>2 DEF IInv, FramesHaveOneUse
<1>7. DirectoryShape' /\ IdentityMapped' /\ MmioInv'
  BY <1>2 DEF IInv, DirectoryShape, IdentityMapped, Translate, MmioInv
<1>8. QED  BY <1>4, <1>5, <1>6, <1>7 DEF IInv

(* The loop of vmm_map_mmio looks at one page after the other. *)
LEMMA NextPage ==
    ASSUME NEW p \in Nat \ {0}, NEW a \in Nat, a % p = 0
    PROVE  /\ (a + p) % p = 0 /\ a = (a \div p) * p
           /\ \A w \in Nat : w * p < a + p => w * p < a \/ w = a \div p
<1>1. PICK q \in Nat : q = a \div p /\ a = q * p
  BY Division
<1>2. a + p = (q + 1) * p /\ ((q + 1) * p) % p = 0
  BY <1>1
<1>3. ASSUME NEW w \in Nat, w * p < (q + 1) * p, ~ (w * p < q * p)
      PROVE  w = q
  BY <1>3
<1>4. QED  BY <1>1, <1>2, <1>3

LEMMA MmioPageInv == IInv /\ MmioPage => IInv'
<1> SUFFICES ASSUME IInv, MmioPage PROVE IInv'
  OBVIOUS
<1>1. PICK a \in Nat, p \in Nat \ {0} : a = mmio.addr /\ p = PAGE_SIZE
  BY PageSizeAssumption DEF IInv, TypeOK
<1>2. PICK v \in Nat : v = a \div p
  BY <1>1, Division
<1>3. /\ mmio.active /\ a < mmio.end /\ mmio.range \in MMIO /\ a % p = 0
      /\ mmio' = [mmio EXCEPT !.addr = a + p] /\ UNCHANGED held
  BY <1>1 DEF MmioPage, IInv, MmioInv
<1>4. a = v * p /\ (a + p) % p = 0 /\ \A w \in Nat : w * p < a + p => w * p < a \/ w = v
  BY <1>2, <1>3, NextPage
<1>5. v \in Pages
  <2>1. a < WORD_MOD
    BY <1>1, <1>3, ZeroPage DEF IInv, MmioInv
  <2>2. PICK m \in Nat : m = DIR_SIZE * TABLE_SIZE
    BY TableAssumption
  <2>3. v < m
    BY <1>1, <1>2, <2>1, <2>2, QuotientBelow DEF WORD_MOD
  <2>4. QED  BY <2>2, <2>3 DEF Pages
<1>6. /\ mmio' \in [addr : Nat, end : Nat, range : MMIO \cup {<<0, 0>>}, active : BOOLEAN]
      /\ mmio'.addr = a + p /\ mmio'.end = mmio.end /\ mmio'.range = mmio.range
      /\ mmio'.active = mmio.active
  <2> DEFINE Type(R) == [addr : Nat, end : Nat, range : R, active : BOOLEAN]
  <2>1. PICK R : R = MMIO \cup {<<0, 0>>}
    OBVIOUS
  <2>2. mmio \in Type(R) /\ a + p \in Nat
    BY <2>1 DEF IInv, TypeOK
  <2>3. mmio' \in Type(R)
    BY <1>3, <2>2
  <2>4. mmio'.addr = a + p /\ mmio'.end = mmio.end /\ mmio'.range = mmio.range
        /\ mmio'.active = mmio.active
    BY <1>3, <2>2
  <2>5. QED  BY <2>1, <2>3, <2>4
<1>7. ASSUME OutOfMemory' \/ \A w \in Pages : Passed(w)' => Translate(w)' # Absent
      PROVE  MmioInv'
  BY <1>1, <1>3, <1>4, <1>6, <1>7 DEF IInv, MmioInv
<1>8. \A w \in Pages : Passed(w)' => Passed(w) \/ w = v
  BY <1>1, <1>4, <1>6 DEF Passed, PageOf, Pages
<1>9. CASE vmm_get_physical(mmio.addr) = 0
  <2>1. MapPage(v, v)
    BY <1>1, <1>2, <1>9 DEF MmioPage
  <2>2. MapTypes' /\ HintSound' /\ FramesHaveOneUse' /\ DirectoryShape'
    BY <1>3, <1>5, <2>1, MapKeeps DEF IInv
  <2>3. TypeOK'
    BY <1>3, <1>6, <2>2 DEF IInv, TypeOK, MapTypes
  <2>4. \/ OutOfMemory /\ UNCHANGED MapVars
        \/ \A w \in Pages : Translate(w)' = IF w = v THEN v ELSE Translate(w)
    BY <1>5, <2>1, MapTranslates DEF IInv
  <2>5. IdentityMapped'
    BY <2>4, IdentityPagesArePages DEF IInv, IdentityMapped, MapVars, Translate
  <2>6. OutOfMemory' \/ \A w \in Pages : Passed(w)' => Translate(w)' # Absent
    <3>1. CASE OutOfMemory
      BY <3>1, <1>5, <2>1, MapKeepsOutOfMemory
    <3>2. CASE ~ OutOfMemory
      <4>1. \A w \in Pages : Translate(w)' = IF w = v THEN v ELSE Translate(w)
        BY <3>2, <2>4
      <4>2. \A w \in Pages : Passed(w) => Translate(w) # Absent
        BY <3>2, <1>3 DEF IInv, MmioInv
      <4>3. v # Absent
        BY DEF Absent
      <4>4. QED  BY <4>1, <4>2, <4>3, <1>8
    <3>3. QED  BY <3>1, <3>2
  <2>7. QED  BY <1>7, <2>2, <2>3, <2>5, <2>6 DEF IInv
<1>10. CASE vmm_get_physical(mmio.addr) # 0
  <2>1. UNCHANGED MapVars
    BY <1>10 DEF MmioPage, MapVars
  <2>2. Translate(v) # Absent
    BY <1>1, <1>2, <1>10 DEF vmm_get_physical
  <2>3. TypeOK' /\ HintSound' /\ FramesHaveOneUse' /\ DirectoryShape' /\ IdentityMapped'
    BY <1>3, <1>6, <2>1
       DEF IInv, TypeOK, HintSound, FramesHaveOneUse, PageTables, DirectoryShape, IdentityMapped,
           Translate, MapVars
  <2>4. OutOfMemory' \/ \A w \in Pages : Passed(w)' => Translate(w)' # Absent
    <3>1. \A w \in Pages : Translate(w)' = Translate(w)
      BY <2>1 DEF MapVars, Translate
    <3>2. OutOfMemory \/ \A w \in Pages : Passed(w) => Translate(w) # Absent
      BY <1>3 DEF IInv, MmioInv
    <3>3. OutOfMemory' <=> OutOfMemory
      BY <2>1 DEF MapVars, OutOfMemory, Candidates
    <3>4. QED  BY <3>1, <3>2, <3>3, <1>8, <2>2
  <2>5. QED  BY <1>7, <2>3, <2>4 DEF IInv
<1>11. QED  BY <1>9, <1>10

LEMMA NextIInv == IInv /\ [Next]_vars => IInv'
<1> SUFFICES ASSUME IInv, [Next]_vars PROVE IInv'
  OBVIOUS
<1>1. CASE Next
  BY <1>1, MapPageInv, UnmapPageInv, MapMmioInv, MmioPageInv, MmioReturnInv, TakeFrameInv,
     GiveFrameInv DEF Next
<1>2. CASE UNCHANGED vars
  BY <1>2 DEF vars, IInv, TypeOK, HintSound, FramesHaveOneUse, PageTables, DirectoryShape,
     IdentityMapped, Translate, MmioInv, Passed, OutOfMemory, Candidates
<1>3. QED  BY <1>1, <1>2

-----------------------------------------------------------------------------
THEOREM InductiveInvariant == Spec => []IInv
  BY InitIInv, NextIInv, PTL DEF Spec

(* Every entry of the directory is a table of its own or absent, and every  *)
(* table's entry a page or absent.                                          *)
THEOREM TypeCorrect == Spec => []TypeOK
  BY InductiveInvariant, PTL DEF IInv

(* No frame has two uses, none is lost and no table is shared. *)
THEOREM FramesHaveOneUseAlways == Spec => []FramesHaveOneUse
  BY InductiveInvariant, PTL DEF IInv

(* pmm_alloc_frame refuses only when every frame is in use. *)
THEOREM NoFrameLostAlways == Spec => []NoFrameLost
<1>1. IInv => NoFrameLost
  <2> SUFFICES ASSUME IInv, OutOfMemory PROVE Frames \subseteq frame_bitmap
    BY DEF NoFrameLost, IInv, TypeOK
  <2>1. ASSUME NEW f \in Frames PROVE f \in frame_bitmap
    BY FramesAssumption DEF OutOfMemory, Candidates, IInv, TypeOK, HintSound, Frames
  <2>2. QED  BY <2>1
<1>2. QED  BY <1>1, InductiveInvariant, PTL

(* No page table and no frame of a holder lies in the kernel or its heap. *)
THEOREM KernelUntouchedAlways == Spec => []KernelUntouched
<1>1. IInv => KernelUntouched
  <2> SUFFICES ASSUME IInv, NEW f \in PageTables \cup held PROVE f * PAGE_SIZE >= KERNEL_END
    BY DEF KernelUntouched
  <2>1. f \in Frames /\ f \notin 0 .. ReservedFrames - 1
    BY DEF IInv, TypeOK, FramesHaveOneUse, PageTables
  <2>2. QED  BY <2>1, ReservedNat DEF Frames
<1>2. QED  BY <1>1, InductiveInvariant, PTL

(* The identity map of RAM stays. *)
THEOREM IdentityMappedAlways == Spec => []IdentityMapped
  BY InductiveInvariant, PTL DEF IInv

(* The frames are accounted for, as the runs check it. *)
THEOREM FramesAccountedAlways == Spec => []FramesAccounted
  BY FramesHaveOneUseAlways, NoFrameLostAlways, PTL DEF FramesAccounted

(* Nothing moves the kernel or takes its memory. *)
THEOREM KernelStaysAlways == Spec => []KernelStays
  BY KernelUntouchedAlways, IdentityMappedAlways, PTL DEF KernelStays

(* vmm_map_mmio maps every page that the device's registers touch. *)
THEOREM RegistersMappedAlways == Spec => []RegistersMapped
<1>1. IInv => RegistersMapped
  <2> SUFFICES ASSUME IInv, mmio.active, mmio.addr >= mmio.end, ~ OutOfMemory,
                      ~ (mmio.range[1] + mmio.range[2] - 1 + PAGE_SIZE >= WORD_MOD),
                      NEW a \in mmio.range[1] .. mmio.range[1] + mmio.range[2] - 1
               PROVE  Translate(a \div PAGE_SIZE) # Absent
    BY DEF RegistersMapped
  <2>1. PICK p \in Nat \ {0}, f \in Nat, s \in Nat, e \in Nat :
          p = PAGE_SIZE /\ f = mmio.range[1] /\ s = mmio.range[2] /\ e = mmio.addr
    BY PageSizeAssumption, MmioAssumption, SMTT(30) DEF IInv, MmioInv, TypeOK
  <2>2. PICK v \in Nat, r \in 0 .. p - 1 : v = a \div p /\ a = v * p + r
    <3>1. PICK b \in Nat : b = a
      BY <2>1
    <3>2. b \div p \in Nat /\ b % p \in 0 .. p - 1 /\ b = (b \div p) * p + (b % p)
      BY Division
    <3>3. QED  BY <3>1, <3>2
  <2>3. PICK u \in Nat, t \in 0 .. p - 1 : t = f % p /\ f = u * p + t
    <3>1. f \div p \in Nat /\ f % p \in 0 .. p - 1 /\ f = (f \div p) * p + (f % p)
      BY Division
    <3>2. QED  BY <3>1
  <2>4. PageOf(f) = u * p
    BY <2>1, <2>3 DEF PageOf
  <2>5. f + s <= e
    <3>1. mmio.range \in MMIO /\ mmio.end = MmioEnd(mmio.range) /\ mmio.end \in Int
      BY DEF IInv, MmioInv, TypeOK
    <3>2. f + s + p - 1 < WORD_MOD
      BY <2>1, ZeroPage
    <3>3. f + s <= mmio.end
      BY <3>1, <3>2, <2>1, MmioRange
    <3>4. QED  BY <3>1, <3>3, <2>1
  <2>6. u * p <= v * p
    <3>1. u * p + t <= v * p + r
      BY <2>1, <2>2, <2>3
    <3>2. u < v + 1
      BY <3>1
    <3>3. QED  BY <3>2
  <2>7. v * p < e
    BY <2>1, <2>2, <2>5
  <2>8. v \in Pages
    <3>1. a < WORD_MOD
      BY <2>1, ZeroPage
    <3>2. PICK m \in Nat : m = DIR_SIZE * TABLE_SIZE
      BY TableAssumption
    <3>3. v < m
      BY <2>1, <2>2, <3>1, <3>2, QuotientBelow, SMTT(30) DEF WORD_MOD
    <3>4. QED  BY <3>2, <3>3 DEF Pages
  <2>9. Passed(v)
    BY <2>1, <2>4, <2>6, <2>7 DEF Passed
  <2>10. QED  BY <2>1, <2>2, <2>8, <2>9 DEF IInv, MmioInv
<1>2. QED  BY <1>1, InductiveInvariant, PTL

(* The page directory and its tables implement an AddressSpace: an operation  *)
(* on a page changes the translation of no other page.                       *)
LEMMA MapImplements ==
    ASSUME IInv, NEW v \in Pages, NEW p \in Pages, MapPage(v, p)
    PROVE  [Abstract!Next]_Space
<1>1. CASE OutOfMemory /\ UNCHANGED MapVars
  BY <1>1 DEF MapVars, Translate, Space
<1>2. CASE \A w \in Pages : Translate(w)' = IF w = v THEN p ELSE Translate(w)
  <2>1. Space' = [Space EXCEPT ![v] = p]
    BY <1>2 DEF Space
  <2>2. QED  BY <2>1 DEF Abstract!Next, Abstract!MapPage
<1>3. QED  BY <1>1, <1>2, MapTranslates DEF IInv

LEMMA StepImplements ==
    ASSUME IInv, [Next]_vars
    PROVE  [Abstract!Next]_Space
<1>1. CASE vmm_map_page
  <2>1. PICK v \in Pages, p \in PHYSICAL : MapPage(v, p)
    BY <1>1 DEF vmm_map_page
  <2>2. p \in Pages
    BY PhysicalAssumption DEF Pages
  <2>3. QED  BY <2>1, <2>2, MapImplements
<1>2. CASE vmm_unmap_page
  <2>1. PICK v \in Pages \ IdentityPages :
          /\ page_directory[Dir(v)] # Absent
          /\ table' = [table EXCEPT ![TableOf(v)][Index(v)] = Absent]
    BY <1>2 DEF vmm_unmap_page
  <2>2. \A w \in Pages : Translate(w)' = IF w = v THEN Absent ELSE Translate(w)
    BY <1>2, <2>1, UnmapTranslates DEF IInv, vmm_unmap_page
  <2>3. Space' = [Space EXCEPT ![v] = Absent]
    BY <2>2 DEF Space
  <2>4. QED  BY <2>3 DEF Abstract!Next, Abstract!UnmapPage
<1>3. CASE MmioPage
  <2>1. CASE UNCHANGED MapVars
    BY <2>1 DEF MapVars, Translate, Space
  <2>2. CASE MapPage(mmio.addr \div PAGE_SIZE, mmio.addr \div PAGE_SIZE)
    <3>1. mmio.addr \in Nat /\ mmio.addr < WORD_MOD /\ PAGE_SIZE \in Nat \ {0}
      BY <1>3, PageSizeAssumption, ZeroPage DEF MmioPage, IInv, MmioInv, TypeOK
    <3>2. PICK m \in Nat : m = DIR_SIZE * TABLE_SIZE
      BY TableAssumption
    <3>3. mmio.addr \div PAGE_SIZE \in Nat /\ mmio.addr \div PAGE_SIZE < m
      BY <3>1, <3>2, Division, QuotientBelow DEF WORD_MOD
    <3>4. mmio.addr \div PAGE_SIZE \in Pages
      BY <3>2, <3>3 DEF Pages
    <3>5. QED  BY <2>2, <3>4, MapImplements
  <2>3. QED  BY <1>3, <2>1, <2>2 DEF MmioPage, MapVars
<1>4. CASE TakeFrame
  <2>1. PICK f \in Frames : pmm_alloc_frame(f) /\ table' = [table EXCEPT ![f] = Junk]
    BY <1>4 DEF TakeFrame
  <2>2. f \notin frame_bitmap
    BY <2>1, AllocFrame DEF IInv
  <2>3. \A d \in 0 .. DIR_SIZE - 1 : page_directory[d] # f
    BY <2>2 DEF IInv, FramesHaveOneUse, PageTables
  <2>4. \A v \in Pages : Translate(v)' = Translate(v)
    BY <1>4, <2>1, <2>3, EntryType, PageSplit DEF TakeFrame, IInv, TypeOK, Translate
  <2>5. QED  BY <2>4 DEF Space
<1>5. CASE vmm_map_mmio \/ MmioReturn \/ GiveFrame \/ UNCHANGED vars
  BY <1>5 DEF vmm_map_mmio, MmioReturn, GiveFrame, vars, Translate, Space
<1>6. QED  BY <1>1, <1>2, <1>3, <1>4, <1>5 DEF Next

THEOREM VmmImplementsAddressSpace == Spec => ImplementsAddressSpace
<1>1. Init => Abstract!Init
  <2> SUFFICES ASSUME Init
               PROVE  \A v \in Pages : Translate(v) = IF v \in IdentityPages THEN v ELSE Absent
    BY DEF Abstract!Init, Space
  <2>1. ASSUME NEW v \in Pages \ IdentityPages PROVE Translate(v) = Absent
    BY PageSplit DEF Init, Translate
  <2>2. QED  BY <2>1, InitIInv DEF IInv, IdentityMapped
<1>2. IInv /\ [Next]_vars => [Abstract!Next]_Space
  BY StepImplements
<1>3. QED  BY <1>1, <1>2, InductiveInvariant, PTL DEF Spec, ImplementsAddressSpace, Abstract!Spec
=============================================================================
