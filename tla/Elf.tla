-------------------------------- MODULE Elf ---------------------------------
(***************************************************************************)
(* The ELF loader: `exec' runs elf_load_and_run in the keyboard's handler,  *)
(* with interrupts off, so a load is one action; the task it creates starts *)
(* later.  A task gets no argument: it enters one of MAX_ELF_SLOTS runners, *)
(* which jumps to the entry of its slot as it then is.                      *)
(*                                                                          *)
(* Memory is divided into the areas programs are linked at; "low" is below  *)
(* 0x600000.                                                                *)
(***************************************************************************)
EXTENDS Integers, Sequences, FiniteSets

CONSTANTS
    MAX_ELF_SLOTS, MAX_TASKS,
    FILES,             \* what `exec' may be given, besides the programs
                       \* the kernel comes with, see Files
    MAX_LOADS,         \* bound: loads that reach task_create
    Nobody

Low == "low"
Areas == {"0x800000", "0x810000", "0x820000"}

\* A file, or the lack of one: the checks it fails, its segments in the order
\* of the program headers, the area of its entry.
Files == [name : STRING,
          fails : SUBSET {"exists", "size", "magic", "class", "data", "type", "machine"},
          segments : Seq([load : BOOLEAN, vaddr : Areas \cup {Low}]), entry : Areas]

ElfAssumption ==
    /\ FILES \subseteq Files
    /\ MAX_ELF_SLOTS \in Nat \ {0} /\ MAX_TASKS \in Nat \ {0} /\ MAX_LOADS \in Nat

\* programs_install: the two programs the kernel comes with.
BuiltinPrograms ==
    {[name |-> "hello.elf", fails |-> {}, entry |-> "0x800000",
      segments |-> <<[load |-> TRUE, vaddr |-> "0x800000"]>>],
     [name |-> "count.elf", fails |-> {}, entry |-> "0x810000",
      segments |-> <<[load |-> TRUE, vaddr |-> "0x810000"]>>]}

Given == FILES \cup BuiltinPrograms

VARIABLES
    memory,            \* the name of the file whose bytes an area holds
    elf_entries, next_elf_slot,
    tasks              \* the task table without the kernel: file, runner,
                       \* number of the load, where it is

vars == <<memory, elf_entries, next_elf_slot, tasks>>

ElfSlots == 0 .. MAX_ELF_SLOTS - 1

TypeOK ==
    /\ DOMAIN memory = Areas /\ \A a \in Areas : memory[a] \in {f.name : f \in Given} \cup {Nobody}
    /\ elf_entries \in [ElfSlots -> Areas \cup {Nobody}]
    /\ next_elf_slot \in 0 .. MAX_LOADS
    /\ Len(tasks) < MAX_TASKS
    /\ \A i \in DOMAIN tasks : /\ tasks[i].runner \in ElfSlots
                               /\ tasks[i].at \in Areas \cup {"created", "dead"}

Init ==
    /\ memory = [a \in Areas |-> Nobody]
    /\ elf_entries = [s \in ElfSlots |-> Nobody]
    /\ next_elf_slot = 0
    /\ tasks = <<>>

-----------------------------------------------------------------------------
(* The segments that are copied: those before the first one that is refused.*)

Bad(f) == {i \in DOMAIN f.segments : f.segments[i].load /\ f.segments[i].vaddr = Low}
Copied(f) ==
    {f.segments[i].vaddr : i \in {j \in DOMAIN f.segments :
        f.segments[j].load /\ \A b \in Bad(f) : j < b}}

CopySegments(f) ==
    memory' = [a \in Areas |-> IF a \in Copied(f) THEN f.name ELSE memory[a]]

\* elf_validate and the checks before it.  A file that fails one, or for which
\* kmalloc has no buffer, changes nothing (errors -1 to -5).
elf_validate(f) == f.fails = {}

\* A segment below 0x600000 is error -6: what was copied before stays.
SegmentRefused(f) ==
    /\ elf_validate(f) /\ Bad(f) # {}
    /\ CopySegments(f)
    /\ UNCHANGED <<elf_entries, next_elf_slot, tasks>>

Slot_LastFixed == IF next_elf_slot < MAX_ELF_SLOTS THEN next_elf_slot ELSE 0
Slot == next_elf_slot % MAX_ELF_SLOTS

\* Dead tasks keep their place in the table.  Without one left (-7) the slot
\* is used up all the same.
Loaded(f) ==
    /\ elf_validate(f) /\ Bad(f) = {}
    /\ next_elf_slot < MAX_LOADS
    /\ CopySegments(f)
    /\ elf_entries' = [elf_entries EXCEPT ![Slot] = f.entry]
    /\ next_elf_slot' = next_elf_slot + 1
    /\ tasks' = IF Len(tasks) < MAX_TASKS - 1
                THEN Append(tasks, [file |-> f, runner |-> Slot,
                                    number |-> next_elf_slot, at |-> "created"])
                ELSE tasks

\* The scheduler runs the task for the first time; it ends or is killed.
Start(i) ==
    /\ tasks[i].at = "created"
    /\ tasks' = [tasks EXCEPT ![i].at = elf_entries[tasks[i].runner]]
    /\ UNCHANGED <<memory, elf_entries, next_elf_slot>>

End(i) ==
    /\ tasks[i].at # "dead"
    /\ tasks' = [tasks EXCEPT ![i].at = "dead"]
    /\ UNCHANGED <<memory, elf_entries, next_elf_slot>>

Next ==
    \/ \E f \in Given : SegmentRefused(f) \/ Loaded(f)
    \/ \E i \in DOMAIN tasks : Start(i) \/ End(i)

-----------------------------------------------------------------------------
Loadable == {f \in Given : elf_validate(f) /\ Bad(f) = {}}

\* Whether a program has its area to itself: it is copied to it, and no other
\* file that exec can be given is, even in part.  The loader checks neither.
OwnArea(g) ==
    /\ g.entry \in Copied(g)
    /\ \A f \in Given : elf_validate(f) /\ g.entry \in Copied(f) => f.name = g.name

(* "Each loaded ELF gets a trampoline that jumps to its entry point"        *)
(* (elf.c:38): a task that has not started will jump to the entry of its    *)
(* own program as long as fewer than MAX_ELF_SLOTS more have been loaded,   *)
(* whether or not those became tasks, and finds that program there if it    *)
(* has its area to itself.  The load after those replaces the entry, and    *)
(* nothing makes it wait for the start of the task.                         *)
EntryKept ==
    \A i \in DOMAIN tasks :
        /\ tasks[i].at = "created"
        /\ next_elf_slot - tasks[i].number <= MAX_ELF_SLOTS
        => /\ elf_entries[tasks[i].runner] = tasks[i].file.entry
           /\ OwnArea(tasks[i].file) => memory[tasks[i].file.entry] = tasks[i].file.name

=============================================================================
