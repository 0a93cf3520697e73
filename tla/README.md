# NimrodOS in TLA+

A verification development for NimrodOS (`baremetal-x86`), a 32-bit x86 hobby
kernel: a monolithic kernel with a preemptive scheduler, a heap, paging, a RAM
file system, system calls, a network stack and a shell, about 6,400 lines of C
and assembly.  TLC checks the modules on small machines; TLAPS proves the
theorems for every value of the constants.

## The system

### How it runs

There is one CPU and no user mode: tasks, handlers and the shell share one
address space.  Three facts decide what can interleave with what.

* Every gate in the IDT is an *interrupt* gate (`isr.c`, flags 0x8E and 0xEE), so
  an interrupt handler or a system call runs with interrupts disabled from its
  first instruction to its `iret`.  No handler executes `sti`; the only `sti` is
  the one that ends `irq_install` while the kernel boots.
* The shell has no task of its own.  `keyboard_callback` calls `shell_execute` when
  Enter is pressed, so **every command runs inside the keyboard interrupt**.
  Commands are therefore atomic to each other, to ticks and to packets, and a
  command that waits for an interrupt waits for ever.
* Code that runs with interrupts enabled is: `kernel_main` (boot, then the idle
  loop), the tasks started by `run` and `exec`, and two pieces of the kernel that
  tasks reach without a gate, namely `task_exit` when an entry function returns into it, and
  the end of `switch_context` after its `popfd`.  These are where steps
  interleave.

### Components

| component | state | operations | talks to |
|---|---|---|---|
| scheduler (`task.c`, `task_switch.asm`) | task table, `current_task`, saved contexts | create, yield, exit, sleep, schedule, kill | timer, system calls, shell |
| timer (`timer.c`) | `tick_count`, `preempt_enabled` | tick, wait, enable | scheduler, every command that waits |
| heap (`memory.c`) | list of blocks in the heap | `kmalloc`, `kfree` | ELF loader, system calls |
| frames (`pmm.c`) | bitmap, hint | allocate, free | paging |
| paging (`vmm.c`) | directory, tables | map, unmap, translate, map MMIO | frames, drivers |
| file system (`ramfs.c`) | 64 slots of 4 KB | create, write, append, read, delete | shell, system calls, ELF loader |
| open files (`syscall.c`) | 16 descriptors, global | open, close, read, write | file system |
| interrupts (`idt.c`, `isr.c`) | gates, handlers, 8259 | install, register, dispatch | everything |
| keyboard (`keyboard.c`) | line, history, modifier keys | scan codes | shell |
| ELF loader (`elf.c`, `program.c`) | 8 runner slots, memory of the programs | exec | heap, file system, scheduler |
| network (`net.c`) | ARP cache, ping and DNS state | packets in, echo, resolve | drivers, timer |
| network drivers (`e1000.c`, `rtl8139.c`) | descriptor rings, a ring buffer, the cards' registers | interrupt, send | network, paging |
| PCI discovery (`pci.c`) | table of devices | scan, find | network drivers |
| environment, aliases (`env.c`, `shell.c`) | two tables by name | set, get, unset, expand | shell |
| shell (`shell.c`) | none between commands but the above | calculator, text commands, `run`, `kill`, ... | everything |
| screen (`vga.c`) | cells, cursor | characters, scrolling | keyboard, shell |
| serial, clock, speaker, CPUID, USB probe, string library | | output and discovery | |

### What is hard to get right here

`PROJECT.json` lists every hazard with its line.  The groups:

* **interleaving with interrupts** in `task_exit` and `switch_context`: a value read
  before a tick is used after it;
* **waiting in a handler**: commands that wait for ticks, keys or packets, and the
  ARP resolution that an incoming echo request starts;
* **devices that run beside the CPU**: a network card fills and empties its rings
  and raises causes between any two steps of its driver, also of its initialisation;
* **boot order**: interrupts are on before handlers are registered, gates are
  written by two initialisations;
* **long sequences of legal calls** on linked or indexed structures: heap blocks,
  page tables, file slots, descriptors, ring buffers, tables with a count;
* **limits**: task slots that are never reused, frames that run out half way
  through a mapping, file and descriptor tables that are full, 32-bit wraps of
  ticks and of sizes that are aligned, names longer than their field;
* **values that are read later than they were written**: runner slots, cached link
  addresses, the slot of history that is shown.

## The modules

| module | models | composes |
|---|---|---|
| `Task` | scheduler, context switch, preemption, task system calls, `run`, `kill` | |
| `Heap` | `memory.c`, each loop iteration a step | implements `Allocator` |
| `Allocator` | what a heap promises: disjoint allocations | |
| `Pmm` | `pmm.c`, state and operations | used by `Vmm` |
| `Vmm` | `vmm.c` over `Pmm` and the users of frames | implements `AddressSpace` |
| `AddressSpace` | what paging promises: a partial map of pages | |
| `Ramfs` | the functions of `ramfs.c` as operators on an array of slots | used by `Files` |
| `Files` | the file commands and calls over `Ramfs` and the open file table | implements `FileSystem` |
| `FileSystem` | what files promise: contents by name, names by descriptor | |
| `Irq` | boot order, gates, 8259, `irq_handler`, commands that wait | |
| `Vga` | the functions of `vga.c` as operators on a screen | used by `Keyboard` |
| `Keyboard` | the line, its echo, the history, the keys of `keyboard_callback` | composes `Vga` |
| `E1000`, `Rtl8139` | a driver, step by step, and the card beside it | |
| `Link` | what a driver promises: packets once each and in order, each way until the driver loses one | |
| `Pci` | `pci.c`: the scan and the search, as operators on a machine | used by `Nic` |
| `Nic` | `net_init`'s choice of a card, and that card | composes `Pci`, `E1000`, `Rtl8139`; implements `Link` |
| `Net` | `net.c` above the driver, `ping`, `resolve` | implements `Neighbours` |
| `Neighbours` | what an ARP cache promises: each announcement learnt as it is made, one neighbour forgotten at most, and only for want of room | |
| `Elf` | `elf.c`: loading, runner slots, memory of the programs | |
| `Env` | the tables of variables and aliases with their commands | implements `Maps` |
| `Maps` | what such a table promises: a finite map with room for so many, and what each command does to it | |
| `Calc`, `Text` | the calculator's parser; grep, wc, head, tail, as operators | used by `Answers` |
| `Shell` | a session of the commands that keep state | composes `Net`, `Elf`, `Env` |
| `Answers` | those sessions, and questions to the calculator and the text commands | extends `Shell`; composes `Calc`, `Text` |
| `TaskProofs`, `HeapProofs`, `VmmProofs`, `FilesProofs`, `IrqProofs`, `KeyboardProofs`, `NicProofs` | the theorems about the module of that name, and their proofs | |
| `ShellProofs` | the theorems about `Net`, about `Shell` with `Elf` and `Env`, and about `Answers` with `Calc` and `Text` | |
| `MC*` | instances for TLC | |

### Task

One action per handler or call that runs with interrupts disabled (`TimerTick`,
`task_yield`, `task_sleep_ticks`, `sys_exit`, `task_create`, `cmd_kill`), each with the
whole of `task_schedule`, `find_next_task` and `switch_context` inside it. `task_exit`
reached by a return is ten actions (`ExitDead` to `ExitSwitch`), one per access to what
handlers also access: the wake-up loop of `find_next_task` tests one slot (`ExitWake`) and
stores `READY` in it (`ExitReady`), its scan reads one slot (`ExitScan`). `local` is the
count, `i` or `next` that the thread holds in a register meanwhile, `seen_tick` its `now`.
The end of `switch_context` into a new task is `EnterTask`.  A *thread* is the execution on
the stack of a slot; `regs[i]` says whose execution `tasks[i].regs` would resume: nobody's
yet (`Entry`), a thread's, or one that was resumed since and whose frames are gone
(`Stale`). `cpu` is the thread that executes, or `Wild` after a jump to an address no code
put there, or onto a stack that was left.  The kernel allocates nothing else of interest to
scheduling, so registers and stacks are not modelled beyond whose they are.

What the end of `task_exit` does wrong is part of the model.  Between `current_task =
next` and `switch_context` a tick takes `next` for the task on the CPU and saves the
leaving thread over what `next` was to resume, the kernel's execution too.  `TasksKept`
says that an execution of a live task is lost, and a dead task comes back, in such
windows only; `SwitchRestores` is the run that shows the loss.

### Heap

`block` maps the addresses of the list's headers to their fields.  A call is in
progress while `op` is not `"none"`; `Skip`, `Take`, `Fail` are the iterations of
`kmalloc` and its exits, `Merge`, `Advance`, `Return` those of `kfree`.  `live` is a
history variable: the pointers callers hold and what they asked for.  Callers free
only what they hold, once: `SYS_FREE` would let a program break that contract and
the code does not defend against it.

### Pmm, Vmm

`table` gives the entries of whatever frame is read as a page table; a frame that
was data holds `Junk`, so a table that is not cleared is seen as such.
`vmm_map_mmio` is a loop of steps, because frames run out in the middle of it.
`vmm_unmap_page` and `pmm_free_frame` have no caller in this commit: they are
exercised as their interface allows (`TakeFrame`, `GiveFrame` stand for users of
frames other than page tables).

### Ramfs, Files

Each function of `ramfs.c` is an operator for what it returns and one for the array
it leaves; a command that calls several of them composes them in one action,
because it runs with interrupts disabled.  A name is a model value, `STORED` its
first 31 characters.  `result` is what the last call returned, so that the
refinement also checks return values.  `edit` is left out: it waits (see `Irq`).
Names are distinct in their first 31 characters, and writes are of names that fit in
a slot: a longer one can be created twice, and `ramfs_write` creates the file, does
not find it again and copies to address 0.

### Irq

`stage` is how far `kernel_main` has come; `stack` the interrupt frames; `irr` and
`isr` the registers of the 8259; `out` the output buffer of the keyboard
controller.  A frame goes through `Eoi` (irq_handler ends the interrupt *before* it
dispatches), the handler, and `Iret`.  `sleep` stands for every command that waits:
`timer_wait` executes `hlt` with the interrupt flag its gate cleared.  The task
switch that `timer_callback` may make is in `Task`; on the way back a switched-in
thread is in its own frame of the same handler, or starts with none.

### Vga, Keyboard

A screen is a record of cells and cursor, and each function of `vga.c` an operator on
it, so that `Keyboard` can say what the user sees.  Each action of `Keyboard` is
`keyboard_callback` for one key; `EnterKey` includes the command, which prints some text
(`OUTPUTS`) or clears the screen.  A C string with its length is a sequence, `saved_input`
and `history` as in the code.  `entered`, `own` and `tabbed` are history variables: the
commands that history should hold, the line the user typed before going up, and
whether a tab was echoed since the last prompt.  Shift selects one of two tables of
characters and is not modelled; other tasks may print at any time, which is not
modelled either, and would break `LineShown`.

### E1000, Rtl8139, Pci, Nic

Here the concurrency is not between handlers but with the device.  The driver's code is
never interrupted, so `at` is where its one activation is, and every access to what the card
also writes is a step: reading the cause register, looking at a descriptor, handing a packet
up, giving the descriptor back, acknowledging. `Receive` and `Transmit` are the card's.  For
the E1000 a descriptor is the packet whose `DD` bit is set (or clear, to transmit); for the
RTL8139 the buffer maps offsets to the packet whose header is there, `Inside` where bytes of
one are, and sizes are aligned as in the code, because that is what can go wrong.  `stage`
steps through the initialisation, since the card is on before it ends.  The firmware may
have given the E1000 an interrupt line that the code does not take, and then no handler is
registered (`handled`).  The cards are external; they are modelled from how the drivers use
them: E1000 head and tail registers, a cause register that clears when read; RTL8139 write
offset, `CAPR`, causes cleared by writing. The interrupt line is taken as level-triggered.

The drivers have flaws that the model keeps.  Four variables on which no step depends record
that one has shown, so that properties can say what holds up to it: `rewound` (the RTL8139's
`rx_offset = 0` came after packets were handled, `rtl8139.c:129`: from then on the driver
may take bytes of a packet for a header), `overrun` (`rtl8139_send` filled a buffer that was
still waiting), `overtaken` (the acknowledgement covered a packet that was not looked at)
and `cleared` (`e1000_init` read ICR with a packet in the ring).  `Nic` chooses the driver
as `net_init` does, on any of a set of machines.

### Net

The handlers of one packet and each command are one action, since both run with
interrupts disabled.  Where the code waits for a packet or a tick, `waiting` is
set and no action is enabled any more, as `Irq` shows of any `hlt` in a handler.
So `ping` and `resolve` are modelled up to their first wait, and what they print after it is
not.  `announced` is a history variable: the link address each host last gave in an
ARP packet, against which frames are judged.  The answers of a DNS response are
sequences of how the name is written, the type and the address.

### Elf

A load is one action with its error paths: nothing happens to a file that fails
validation, segments before a refused one stay copied, a load past the task limit
uses up its slot.  `memory` says whose bytes an area holds; the task that was created
starts in a later action, at the entry its runner's slot then holds.

### Env, Maps

A table is two arrays and a count, with whatever was beyond the count still there, so
that an entry that is not moved when another is removed is seen.  `CUT` is what is
left of a text in an element.  `done` is the command that was given, to which table, with which
name and value.  `Maps` says what each does to the map: a set gives that name that value or,
if the name is new and there is no room, changes nothing; a removal leaves that name without
one; no other name and no other command changes anything.

### Calc, Text, Shell, Answers

`calc_expr`, `calc_term` and `calc_number` work on the tokens of a line and a position, as
the C functions do on `calc_ptr`.  The parser calls itself further to the right only, so
`calc_expr` is a recursive function of where it begins.  A result is the number a function
returns and whether `calc_error` is set, since the operator is executed with the number of a
failed operand before the flag is looked at (`Combine`).  The reference does not parse: an
expression is a record of its operator, its operands, the tokens a user types for it (with
the parentheses that precedence requires) and what it `means`; `Expressions` says that a set
holds well-formed ones only.  The commands that read a text are functions over its bytes,
each loop a function of how often its body was executed; the references (`ShownRight`) speak
of lines.  A text is its lines and whether the last one is `ended`: a file that `write` made
does not end in a newline.  Then `wc` counts one line less, `tail` shows one more than
`LINES`, and `head` may add an empty one; `WcRight`, `TailRight` and `HeadRight` say exactly
when.  A `session` of `Shell` uses one group of commands: the groups share no variable (each
action leaves the others' `UNCHANGED`) and every property is about one group, so that a
mixed session would only multiply states.  `Answers` adds the questions that keep no state.

### System calls

`Task` and `Files` model the system call handlers as `syscall_handler` would call
them.  `Irq` shows that in this commit it is not reached: `syscall_init` overwrites
its gate with address 0.  The other modules describe the calls the kernel means
to offer; `task_create`, `kill`, preemption, return from an entry function, and
all file commands do not depend on the gate.

## The runs

| run | what it shows | bounds, and why they are enough |
|---|---|---|
| `scheduler` | one running task that is the current one, nothing resumed twice (`OneTaskRuns`); executions are lost and dead tasks come back in the windows that are named only (`TasksKept`); no starvation, sleepers wake, also across the wrap, as long as the CPU is in the kernel's code | kernel and 2 tasks: a leaving, a dispatched and a killed one are 3 slots; the counter wraps every 6 ticks (1 modulo 5, as 2^32 is) |
| `switch_restores`, `jump_reaches_entry` | findings 1 and 2 below | 3 slots, 16 ticks, no system call: both come about with ticks, `run` and returns alone |
| `heap` | tiling, ownership, coalescing, completeness, termination, refinement | 112 bytes hold up to 5 blocks; requests that split, take whole, and are empty |
| `vmm` | frames have one use and none is lost (`FramesAccounted`), the kernel and the identity map stay (`KernelStays`), registers mapped, refinement | 6 frames of which 3 are free, so that they run out; 5 directory entries, 3 identity; registers in the identity map, across two tables, and ending within a page |
| `files` | refinement of a store by name and descriptors by number | 2 slots, 2 bytes, 2 descriptors, 3 names: each limit is reached |
| `interrupts` | handlers do not nest and gates come first (`InterruptsInTurn`), no key without an interrupt; keys are read and ticks counted until a command waits | any ticks and keys from `keyboard_init` on; 6 tick values |
| `sleep_returns`, `system_call_gate` | findings 3 and 4 | as above |
| `line_editor` | the screen shows the line, history holds the last commands, the typed line comes back | lines of 2 characters or tabs, 2 slots of history; 4 rows of 2 columns, so that every line crosses a row and most scroll. With 2 slots one entry moves, so the direction of the copying loop does not show here: the theorem covers it |
| `nic` | packets handed up and sent once each and in order (`ImplementsLink`), not overwritten while they are read, room returned to the card, each up to the step at which the RTL8139's driver loses its place; a packet that waits is handed up without a further one, but in the cases of `Unnoticed` | 6 machines that choose each driver and none; rings of 3 and 2 descriptors and a buffer for two packets, so that all fill and wrap; one packet size that needs padding; packets from the moment the card is started. `OneFlaw` is explained below |
| `commands` | frames go to the next hop's latest address, the cache implements a table of neighbours, the kernel waits in `arp_resolve` for strangers only; variables and aliases implement maps; a program starts as itself unless too many are loaded first; calculator and text commands agree with their references | 4 hosts, one beyond the gateway, and a cache of 2, so that entries are overwritten; 3 variables and 2 aliases of 4 names, one value longer than its element; 5 loads on 2 runners and 3 tasks, of files two of which share an area; an int of 4 bits, where every operator overflows; expressions of up to 3 numbers with signs, and of 4 where a pair that fails is an operand; texts of up to 3 lines, with and without the last newline |

Bounds, and what they leave out.  No guard of the drivers or the cards has one: where a ring
or a buffer is full, or a packet comes at a bad moment, is the card's affair.  `OneFlaw` is
a constraint on what TLC follows: after the RTL8139's driver has lost its place in what it
receives, only while nothing is sent, and after it has lost a packet to send, only while at
most one packet waits to be read.  The theorems have no such bound.  `MAX_LOADS` bounds the counter of runner slots.
Link addresses are symmetric in `commands`: they are only copied and compared.

`CHECK_DEADLOCK FALSE` is set for the scheduler, whose CPU may leave the kernel's
code, and for the interrupts, whose CPU may halt for good: both are findings.  It is
set for `nic`, where a machine may have no card, and for `commands`, where the kernel
waits for good after `ping` or `resolve` and a session of one question ends.

### Fairness

`Task`: the timer keeps interrupting, `kernel_main` goes on to enable preemption, an
instruction that can execute does.  Nothing is assumed of tasks or of the user.
`Irq`: the CPU executes the code it is in, the timer ticks, a latched timer request
is delivered when it can be (weak fairness), a keyboard request if it is the first
again and again (strong fairness: the timer's handler is shorter than its period,
which `Tick` states).  `Nic`: the driver's code goes on and its interrupt, a level, is
taken (`FairSpec`).  Nothing is assumed of what is sent or received: `HandedUp` says that a packet
which waits needs no further packet to be noticed, and names the cases where it does.
`Heap`: a call that is in progress goes on; calls themselves
are not fair.

### Findings

1. A tick at the end of a task's exit, between `current_task = next` and `switch_context`
   (`task.c:112-115`), saves the leaving task over the one it is about to switch to, whose
   execution is lost; when the leaving one is gone on with, it switches to a stack that was
   left.  The kernel's execution can be lost so too.
2. A tick between `popfd` and `jmp` replaces the entry point of a task that starts.
3. A command that waits (`sleep`, and in the same way `beep`, `ping`, `resolve`,
   `edit`, `snake`) never returns.
4. `int 0x80` jumps to address 0.

Noticed while modelling, without a run of their own:

* *Scheduler.*  The timer switches tasks every 5 ticks, 50 ms, where the comment at
  `timer.c:15` says every 10 ms tick.  A task that is killed comes back if another one's exit has
  just found it due (`task.c:82`) or chosen it (113), or if it goes to sleep itself
  (`TasksKept`).
* *Memory.*  A request within 3 bytes of 2^32 wraps when it is aligned and gets a
  block of no bytes (`memory.c:31`).  `vmm_get_physical` answers 0 for page 0 and for no page.
* *Files.*  A name of more than 31 characters is stored cut and compared whole, so it
  can be created twice (`ramfs.c:27`, `31`).
* *Keyboard.*  A key pressed between the `sti` of `irq_install` and `keyboard_init` is never
  read and no further key interrupts.  A tab is erased as one column, so erasing a
  line with one leaves text on the screen (`LineShown` excludes it), and recalling it again and
  again moves the cursor on.
* *RTL8139.*  A packet that arrives after the handler's last look at the buffer is
  acknowledged with the others and waits for the next one (`rtl8139.c:79`, `overtaken`).  Between
  registering the handler and clearing `rx_offset` (127, 129) a packet may be handled and
  then handed up again, or the next ones not at all (`rewound`).  `rtl8139_send` returns 0 when
  its wait is in vain, and after `TX_BUF_COUNT` of those fills a buffer that still waits
  (`overrun`).
* *E1000.*  Reading the cause register when it ends its initialisation drops the
  interrupt of a packet that came before (`e1000.c:295`), which waits for the next one
  (`cleared`).  With an interrupt line out of range no handler is registered (289), and
  `e1000_init` still returns success: nothing is ever handed up.  When as
  many packets are untransmitted as the ring has descriptors, tail equals head, the ring
  looks empty to the card, and every later send fails (`e1000.c:317`).
* *Network.*  A resolution in a packet's handler waits with interrupts disabled: an echo
  request from a host that is not cached stops the kernel (`net.c:204`, `301`), unless
  Ctrl+C was the last key at the prompt.  A DNS name of labels that ends in a pointer is
  skipped wrongly (`net.c:329`, `342`).  Checksums are never verified, and the destination
  address of a packet is not looked at.
* *Programs.*  The text of `hello.elf` is at offset 0x72, not 0x78, that of `count.elf` at
  0x97, not 0x90, and the jump of `count.elf` ends at 0x58, not 0x5B (`program.c`), so that
  neither prints what was meant.  Loading a program over the area where one runs replaces
  it.  A load that fails for want of a task still uses up a runner slot.
* *Commands.*  For a file whose last line is not ended, as `write` makes it, `tail` shows 11 lines
  where `shell.c:319` says 10, and `head` may show one newline more.  `calc` panics on the least
  int divided by -1, also where -1 is what an operand in error returned, as in
  `calc 2147483648/(-1+1/0)`; it ignores what follows an expression, and refuses a space between a
  sign and its number.

## The proofs

Each theorem is proved from the assumptions its module names, and from the hypotheses
stated here where it has one; no bound on slots, heap, frames, tables, rings, lines or
counters remains.

* **`TaskProofs`.**  `OneRunning`, `KernelRunnable` and `CurrentIsOnCpu` are not
  inductive: in the middle of an interrupted `task_exit` the current task is not
  the one on the CPU and a context is in the wrong slot.  The inductive invariant
  `IInv` adds `ContextInv` (no execution is in two of the CPU and the slots; a slot that can
  be dispatched holds its own execution, or that of a leaving task which was saved over it) and
  `CpuInv` (what each step of `task_exit` relies on, among which that the context it is about to
  restore may be used up).  `KernelRunnable` speaks of the mark of slot 0 only.  That slot 0 holds
  the kernel's execution is false in the window of finding 1; `TasksKeptAlways` proves that
  there are no other windows, for the kernel or any task.  Two lemmas, `Save` and
  `Resume`, say what the halves of `switch_context` do to it, and `ScheduleInv` what any caller of `task_schedule` may rely on.
  Two theorems are what `StarvationFree` and `SleeperWakes` rest on besides fairness.
  `TurnsAlwaysComeNearer`: `Turn(c, i)` is the iteration at which the scan from slot `c` reaches
  slot `i`; whenever another slot becomes current it falls for every `READY` task that goes on
  waiting.  The proof found the one exception: a task created after `task_exit` has scanned the
  table and before it sets `current_task` may be passed over once (`ScanInv`,
  `CreatedAfterScan`).  `LastTickWakesAll`: `wake_tick` is compared with `>=` on a counter that
  wraps, and nobody sleeps through the wrap because the last tick before it, 2^32 - 1, is a
  multiple of 5 and so one that schedules.
* **`HeapProofs`.**  `IInv` is tiling, ownership and coalescing with what the two
  loops have established so far (`LoopInv`).  The refinement maps a live pointer to
  the bytes it was asked for, under the assumption `NoWrap` that no request is within
  3 bytes of 2^32, which the code needs (`memory.c:31`).  `CallsAreBounded` is termination
  without fairness: `Remaining`, the bytes behind the current block, falls with every
  iteration, also when a merge stays at the same block, so that a call ends within about
  `HEAP_SIZE` steps.
* **`VmmProofs`.**  `IInv` relates the frame bitmap to the tables and holders of
  frames, and gives each translation and the MMIO loop their meaning.  Lemmas say
  what mapping a page does to every other page's translation; the refinement
  follows from them.
* **`IrqProofs`.**  `HandlerInv` says what the code relies on between two steps: at most one
  frame, of the timer or the keyboard, entered with interrupts enabled and running with them
  disabled; gates and handlers as far as the boot has come; no wild jump before the boot ends.
  `KeyHasInterrupt` is inductive with `KeyInv`, that a byte waits in the controller only once
  the handler is registered.  It has the hypothesis `KEYS_FROM \subseteq Listening`, that the
  user types once the handler is registered: before, it is false (see the findings).
  `SilenceIsFinal` shows why that matters: once a byte waits without an interrupt, none comes
  again.  `SleepHangsForever` is finding 3 for every tick rate and duration: a command that
  waits for a tick still to come waits in all later states.
* **`FilesProofs`.**  `OneSlotEach`: a name is in one slot at most, and can be looked up.
  That and the refinement have the hypothesis `CreatesFitting`, that a name which is created fits
  in its field; without it a second file of the same name can be created.
  Types need no hypothesis.
* **`KeyboardProofs`.**  `OnScreen` gives the screen a meaning that is kept by each
  character: the cursor is on it and all behind the cursor is blank.  `Echoed` adds that
  the cells before the cursor end with the prompt and the line, until a tab is echoed.
  What a wrap and a scroll do to it is `WrapKeeps` and `ScrollKeeps`.  The loops of `vga_print`,
  of the erasing of a line and of `history_push` are recursive functions, and what they compute
  is shown by induction over a set of numbers (`Induction`).  `OwnLineKept` says that while the
  user browses, `saved_input` is the line that was typed.
* **`NicProofs`.**  The drivers' invariants hold at every step between two accesses to
  what the card also writes.  For the E1000 and for both drivers' sending, the
  descriptors that are full are an interval of the ring, and the packets in it are a
  queue (`IsRing` and the lemmas on counting around a ring).  For the RTL8139's receiving, packets
  are a chain of headers from the read to the write offset, modulo the size of the
  buffer, and the free bytes are what is not in it.  Nothing is assumed of when packets come or
  of how long the card takes: what is received by the RTL8139's driver is proved until `rewound`,
  what is sent until `overrun`, and each does not depend on the other; of the E1000's all is.
* **`ShellProofs`.**  `Fresh`: a host has one cache entry at most, and it holds the address it
  announced last, so that every announcement changes what is known of its host, to what it says, and
  of no other: the refinement of `Neighbours`.  `Remembered`: none is
  forgotten while there are no more announcers than entries; there are always finitely many, so that this needs no
  bound on the hosts.  `ElfInv` says which load each runner slot was last given to,
  from which `EntryKept` follows: the entry of a task that has not started is its own as long as
  fewer than `MAX_ELF_SLOTS` more programs are loaded, whatever the files.  The load after those
  replaces it (`elf.c:115`).  That its bytes are still there is claimed for a file that has its
  area to itself (`OwnArea`), since the loader does not check it (`elf.c:101`).  `EnvInv` says that
  the names in a table differ up to its count, of which `Maps` follows, command by command;
  `ShellImplementsNet` makes the theorems about `Net` theorems about sessions.
  `CalcRight` is an induction over expressions, by the number of their tokens: parsing from
  where an expression begins gives its meaning and stops where it ends, whatever follows
  (`ReadsSum`, `ExpressionRead`); where the parser calls itself, the text to the right is all that matters
  (`NumberLocal`, `TermLocal`, `SumLocal`), so that the recursive function exists and agrees with
  itself (`ExprExists`).  `TextRight` rests on where the lines of a text are: `LayoutUnique` says
  that its newlines determine them.  A text whose last line is not ended is one that is, `cut` by
  a byte (`Unended`), and each command's result is related to that of the whole (`ShowCut`,
  `CutCounted`, `LinesIn`).  Each loop has an invariant that relates what was
  printed so far to lines (`GrepRightOf`, `Sliced`, `HighlightedRight`), shown to hold after every
  iteration by `StepByStep`; `Recursion` shows that such functions exist.  Both cover
  expressions of any depth, any errors in them and texts of any length.

The invariants that the runs check are conjunctions of those parts or follow from
them, and each has a theorem, as have all the refinements and `OwnLineReturns`, an
action property.

Only model-checked: the findings, and the liveness properties (`StarvationFree`,
`SleeperWakes`, `Returns`, `KeysRead`, `TicksCounted`, `HandedUp`), because liveness under
fairness and `ENABLED` are outside the prover's reach.  Of the first three the safety cores
above are proved.

## Not modelled

* Exceptions (they halt the machine), the TLB, formatting, serial log, clock, speaker,
  CPUID, random numbers, the string library, boot code and GDT: no state that another
  part's correctness rests on, or straight-line set-up.
* The USB probe: it looks for a controller and leaves the keyboard to the BIOS.
* The editor, `snake`, and what `ping` and `resolve` do after their first wait: the kernel
  never gets there, because they wait with interrupts disabled.
* Commands that only print what other modules already hold.
* Two drivers' common faults the cards do not produce: bad lengths and error bits.
* The frames under the programs' areas: they may be frames that hold page tables
  (`elf.c:101`); `Elf` and `Pmm` are not composed, because the frame bitmap knows nothing of
  the loader.
* Wild pointers are not followed: once the CPU is `Wild`, a model stops.

## Plan

Done: all components listed as modelled, in the order of the table of modules; the proofs
of all of them.  What could be added:

1. The theorems with a hypothesis, sharpened: what of `KeyHasInterrupt` holds *before* the
   driver is ready, and what of the file store when names are longer than their field.
2. Action properties of single components that follow from the invariants, as `TasksKept` is:
   a descriptor refers to the file it was opened for.
3. `Shell` with `Files` and `Heap`: the loader takes its buffer from the heap and its bytes from a file.
