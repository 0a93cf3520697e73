-------------------------------- MODULE Vmm --------------------------------
(***************************************************************************)
(* Paging, kernel/vmm.c, over the frame allocator, kernel/pmm.c: a page     *)
(* directory whose first entries are static identity tables and whose other *)
(* tables are allocated from the frames on the first map of a page they     *)
(* cover.  Drivers map their registers while the kernel boots and nothing   *)
(* else of the kernel changes the tables, so a call is one step, except for *)
(* the loop of vmm_map_mmio, whose every iteration is one.                  *)
(* vmm_unmap_page and pmm_free_frame are exported and have no caller yet;   *)
(* they are exercised as their interface allows: a page outside the         *)
(* identity map is unmapped, a frame is freed by the one who allocated it.  *)
(***************************************************************************)
EXTENDS Pmm

CONSTANTS
    TABLE_SIZE,             \* entries of a page table (1024)
    DIR_SIZE,               \* entries of the page directory (1024)
    IDENTITY_MAP_TABLES,    \* tables of the identity map (4)
    MMIO,                   \* <<address, size>> of device registers, in bytes
    PHYSICAL                \* physical pages that callers map

ASSUME TableAssumption ==
    /\ TABLE_SIZE \in Nat \ {0} /\ IDENTITY_MAP_TABLES \in Nat \ {0}
    /\ DIR_SIZE \in Nat /\ DIR_SIZE > IDENTITY_MAP_TABLES
ASSUME PhysicalAssumption == PHYSICAL \subseteq 0 .. DIR_SIZE * TABLE_SIZE - 1

VARIABLES
    page_directory,   \* directory index -> where its table is, or Absent
    table,            \* where -> the entries of the table that is there
    held,             \* frames that callers of pmm_alloc_frame own
    mmio              \* the vmm_map_mmio in progress: next address, end, range

vars == <<frame_bitmap, first_free_frame, page_directory, table, held, mmio>>

Absent == -1                       \* also an entry without PTE_PRESENT
IdentityTable(t) == -2 - t         \* identity_tables[t], in the kernel image
IdentityTables == {IdentityTable(t) : t \in 0 .. IDENTITY_MAP_TABLES - 1}

Pages == 0 .. DIR_SIZE * TABLE_SIZE - 1
IdentityPages == 0 .. IDENTITY_MAP_TABLES * TABLE_SIZE - 1
WORD_MOD == DIR_SIZE * TABLE_SIZE * PAGE_SIZE    \* values of an address (2^32)

ASSUME MmioAssumption == MMIO \subseteq (0 .. WORD_MOD - 1) \X Nat

Entries == [0 .. TABLE_SIZE - 1 -> Pages \cup {Absent}]

\* What a frame that is no table holds: any data, read as entries here.
Junk == [i \in 0 .. TABLE_SIZE - 1 |-> 0]
Idle == [addr |-> 0, end |-> 0, range |-> <<0, 0>>, active |-> FALSE]

TypeOK ==
    /\ frame_bitmap \subseteq Frames
    /\ first_free_frame \in 0 .. TOTAL_FRAMES
    /\ page_directory \in [0 .. DIR_SIZE - 1 -> Frames \cup IdentityTables \cup {Absent}]
    /\ table \in [Frames \cup IdentityTables -> Entries]
    /\ held \subseteq Frames
    /\ mmio \in [addr : Nat, end : Nat, range : MMIO \cup {<<0, 0>>}, active : BOOLEAN]

\* pmm_init, then vmm_init
Init ==
    /\ pmm_init
    /\ page_directory = [d \in 0 .. DIR_SIZE - 1 |->
                            IF d < IDENTITY_MAP_TABLES THEN IdentityTable(d) ELSE Absent]
    /\ table = [f \in Frames \cup IdentityTables |->
                   IF f \in Frames THEN Junk
                   ELSE [i \in 0 .. TABLE_SIZE - 1 |-> (-2 - f) * TABLE_SIZE + i]]
    /\ held = {}
    /\ mmio = Idle

-----------------------------------------------------------------------------
Dir(v) == v \div TABLE_SIZE
Index(v) == v % TABLE_SIZE

\* The table that a directory entry points to.
TableOf_FirstEntry(v) == page_directory[0]
TableOf(v) == page_directory[Dir(v)]

\* memset(table_frame, 0, PAGE_SIZE)
NewTable_NotCleared(f) == table[f]
NewTable(f) == [i \in 0 .. TABLE_SIZE - 1 |-> Absent]

MapInTable(v, p) ==
    /\ page_directory[Dir(v)] # Absent
    /\ table' = [table EXCEPT ![TableOf(v)][Index(v)] = p]
    /\ UNCHANGED <<frame_bitmap, first_free_frame, page_directory>>

MapInNewTable(v, p) ==
    /\ page_directory[Dir(v)] = Absent
    /\ \E f \in Frames :
         /\ pmm_alloc_frame(f)
         /\ page_directory' = [page_directory EXCEPT ![Dir(v)] = f]
         /\ table' = [table EXCEPT ![f] = [NewTable(f) EXCEPT ![Index(v)] = p]]

\* The page stays unmapped; the caller is not told.
MapFails(v) ==
    /\ page_directory[Dir(v)] = Absent /\ OutOfMemory
    /\ UNCHANGED <<frame_bitmap, first_free_frame, page_directory, table>>

MapPage(v, p) == MapInTable(v, p) \/ MapInNewTable(v, p) \/ MapFails(v)

Translate(v) ==
    IF page_directory[Dir(v)] = Absent THEN Absent
    ELSE table[page_directory[Dir(v)]][Index(v)]

\* vmm_get_physical of an address: 0 if it is not mapped.
vmm_get_physical(a) ==
    LET p == Translate(a \div PAGE_SIZE)
    IN  IF p = Absent THEN 0 ELSE p * PAGE_SIZE + (a % PAGE_SIZE)

-----------------------------------------------------------------------------
vmm_map_page ==
    /\ ~ mmio.active
    /\ \E v \in Pages \ IdentityPages, p \in PHYSICAL : MapPage(v, p)
    /\ UNCHANGED <<held, mmio>>

vmm_unmap_page ==
    /\ ~ mmio.active
    /\ \E v \in Pages \ IdentityPages :
         /\ page_directory[Dir(v)] # Absent
         /\ table' = [table EXCEPT ![TableOf(v)][Index(v)] = Absent]
    /\ UNCHANGED <<frame_bitmap, first_free_frame, page_directory, held, mmio>>

PageOf(a) == a - (a % PAGE_SIZE)

MmioEnd_NotRounded(range) == PageOf((range[1] + range[2]) % WORD_MOD)
MmioEnd(range) == PageOf((range[1] + range[2] + PAGE_SIZE - 1) % WORD_MOD)

vmm_map_mmio ==
    /\ ~ mmio.active
    /\ \E range \in MMIO :
         mmio' = [addr |-> PageOf(range[1]), end |-> MmioEnd(range), range |-> range,
                  active |-> TRUE]
    /\ UNCHANGED <<frame_bitmap, first_free_frame, page_directory, table, held>>

\* One iteration: a page that is mapped already stays as it is.
MmioPage ==
    /\ mmio.active /\ mmio.addr < mmio.end
    /\ IF vmm_get_physical(mmio.addr) = 0
       THEN MapPage(mmio.addr \div PAGE_SIZE, mmio.addr \div PAGE_SIZE)
       ELSE UNCHANGED <<frame_bitmap, first_free_frame, page_directory, table>>
    /\ mmio' = [mmio EXCEPT !.addr = @ + PAGE_SIZE]
    /\ UNCHANGED held

MmioReturn ==
    /\ mmio.active /\ mmio.addr >= mmio.end
    /\ mmio' = Idle
    /\ UNCHANGED <<frame_bitmap, first_free_frame, page_directory, table, held>>

\* Other users of frames: one takes a frame and writes to it, and gives it back.
TakeFrame ==
    /\ ~ mmio.active
    /\ \E f \in Frames :
         /\ pmm_alloc_frame(f)
         /\ held' = held \cup {f}
         /\ table' = [table EXCEPT ![f] = Junk]
    /\ UNCHANGED <<page_directory, mmio>>

GiveFrame ==
    /\ ~ mmio.active
    /\ \E f \in held :
         /\ pmm_free_frame(f)
         /\ held' = held \ {f}
    /\ UNCHANGED <<page_directory, table, mmio>>

Next ==
    \/ vmm_map_page \/ vmm_unmap_page
    \/ vmm_map_mmio \/ MmioPage \/ MmioReturn
    \/ TakeFrame \/ GiveFrame

Spec == Init /\ [][Next]_vars

-----------------------------------------------------------------------------
PageTables == {page_directory[d] : d \in 0 .. DIR_SIZE - 1} \cap Frames

\* Every frame that is in use has exactly one use: the kernel and its heap, a
\* page table, or a holder.  No frame is handed out twice and none is lost,
\* and no two directory entries share a table.
FramesHaveOneUse ==
    /\ frame_bitmap = 0 .. ReservedFrames - 1 \cup PageTables \cup held
    /\ PageTables \cap held = {}
    /\ (PageTables \cup held) \cap 0 .. ReservedFrames - 1 = {}
    /\ \A d, e \in 0 .. DIR_SIZE - 1 :
         page_directory[d] = page_directory[e] /\ page_directory[d] # Absent => d = e

\* No frame that is handed out overlaps the kernel image or its heap.
KernelUntouched == \A f \in PageTables \cup held : f * PAGE_SIZE >= KERNEL_END

\* The first 16 MB stay identity mapped: the page tables themselves are reached
\* through it.
IdentityMapped == \A v \in IdentityPages : Translate(v) = v

\* The frames are accounted for, and pmm_alloc_frame refuses only when every
\* one is in use.
FramesAccounted == FramesHaveOneUse /\ NoFrameLost

\* Whatever is mapped, unmapped or given out, the kernel stays where it is.
KernelStays == KernelUntouched /\ IdentityMapped

\* When vmm_map_mmio is about to return, every page the device's registers
\* touch is mapped, unless frames ran out (or the end wraps around).
RegistersMapped ==
    mmio.active /\ mmio.addr >= mmio.end =>
        LET first == mmio.range[1]  last == mmio.range[1] + mmio.range[2] - 1
        IN  \/ OutOfMemory
            \/ last + PAGE_SIZE >= WORD_MOD
            \/ \A a \in first .. last : Translate(a \div PAGE_SIZE) # Absent

Space == [v \in Pages |-> Translate(v)]

Abstract == INSTANCE AddressSpace WITH
    Physical <- Pages, NotMapped <- Absent,
    Initial <- [v \in Pages |-> IF v \in IdentityPages THEN v ELSE Absent],
    space <- Space

\* Mapping or unmapping a page changes the translation of that page only,
\* though it may put a whole new table in place.
ImplementsAddressSpace == Abstract!Spec
=============================================================================
