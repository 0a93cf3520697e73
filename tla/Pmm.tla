-------------------------------- MODULE Pmm --------------------------------
(***************************************************************************)
(* The physical frame allocator, kernel/pmm.c: a bitmap with one bit per    *)
(* frame, and a hint below which the search never looks.  The module gives  *)
(* the state and the operations; Vmm composes them with their callers.      *)
(***************************************************************************)
EXTENDS Integers

CONSTANTS
    PAGE_SIZE,       \* bytes of a frame (4096)
    TOTAL_FRAMES,    \* frames of RAM (16 MB)
    KERNEL_END       \* first byte after the kernel image and its heap

ASSUME PageSizeAssumption == PAGE_SIZE \in Nat \ {0}
ASSUME FramesAssumption == TOTAL_FRAMES \in Nat \ {0}
ASSUME KernelEndAssumption == KERNEL_END \in 1 .. TOTAL_FRAMES * PAGE_SIZE

VARIABLES
    frame_bitmap,       \* the frames whose bit is set: in use
    first_free_frame    \* where pmm_alloc_frame starts to search

Frames == 0 .. TOTAL_FRAMES - 1

ReservedFrames_InBytes == KERNEL_END
ReservedFrames_RoundedDown == KERNEL_END \div PAGE_SIZE
ReservedFrames == (KERNEL_END + PAGE_SIZE - 1) \div PAGE_SIZE

pmm_init ==
    /\ frame_bitmap = 0 .. ReservedFrames - 1
    /\ first_free_frame = ReservedFrames

Candidates_InUseToo == first_free_frame .. TOTAL_FRAMES - 1
Candidates_NotTheLast == {i \in first_free_frame .. TOTAL_FRAMES - 2 : i \notin frame_bitmap}
Candidates == {i \in first_free_frame .. TOTAL_FRAMES - 1 : i \notin frame_bitmap}

\* The call returns frame f, the first candidate.
pmm_alloc_frame(f) ==
    /\ f \in Candidates
    /\ \A i \in Candidates : f <= i
    /\ frame_bitmap' = frame_bitmap \cup {f}
    /\ UNCHANGED first_free_frame

\* pmm_alloc_frame returns 0.
OutOfMemory == Candidates = {}

Hint(f) == IF f < first_free_frame THEN f ELSE first_free_frame

pmm_free_frame(f) ==
    /\ frame_bitmap' = frame_bitmap \ {f}
    /\ first_free_frame' = Hint(f)

\* pmm_alloc_frame reports that memory is exhausted only when it is: no free
\* frame hides from the search.
NoFrameLost == OutOfMemory => frame_bitmap = Frames

\* ... because none hides below the hint.
HintSound == \A f \in Frames : f < first_free_frame => f \in frame_bitmap
============================================================================
