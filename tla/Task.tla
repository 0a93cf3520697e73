-------------------------------- MODULE Task --------------------------------
(***************************************************************************)
(* The round-robin scheduler of NimrodOS: kernel/task.c, the context switch *)
(* kernel/task_switch.asm, the preemption of drivers/timer.c, the shell     *)
(* commands `run' and `kill', and the scheduling system calls.              *)
(*                                                                          *)
(* One CPU.  Interrupt handlers and system calls enter through interrupt    *)
(* gates, so they run with interrupts disabled and each is one action.      *)
(* Two pieces of code reach the scheduler with interrupts enabled and are   *)
(* split into the steps an interrupt can come between:                      *)
(*   - task_exit() when it is reached by the return of the task's entry     *)
(*     function (task_create leaves it as the return address);              *)
(*   - the last two instructions of switch_context when it starts a new     *)
(*     task: popfd enables interrupts before jmp reads the saved EIP.       *)
(*                                                                          *)
(* A thread is an execution on the stack of one task slot.  regs[i] says    *)
(* whose execution tasks[i].regs resumes, which is what a context switch    *)
(* that saves into the wrong slot gets wrong.                               *)
(***************************************************************************)
EXTENDS Integers

CONSTANTS
    MAX_TASKS,     \* task slots, task.h:6 (16)
    TICK_MOD,      \* values of the tick counter, a uint32_t (2^32)
    SLEEP_TICKS,   \* durations tasks pass to task_sleep_ticks
    SYSTEM_CALLS   \* whether int 0x80 reaches syscall_handler: as the calls
                   \* are meant, and not in this commit (module Irq)

ASSUME MaxTasksAssumption == MAX_TASKS \in Nat \ {0}
ASSUME TickModAssumption == TICK_MOD \in Nat \ {0}
ASSUME SleepTicksAssumption == SLEEP_TICKS \subseteq 0 .. TICK_MOD - 1
ASSUME SystemCallsAssumption == SYSTEM_CALLS \in BOOLEAN

VARIABLES
    state,            \* tasks[i].state
    wake_tick,        \* tasks[i].wake_tick
    regs,             \* what tasks[i].regs resumes: Entry, a thread, or Stale
    current_task,
    task_count_val,
    tick_count,
    preempt_enabled,
    cpu,              \* the thread on the CPU, or Wild
    pc,               \* where each thread is
    local,            \* the count, i or next each thread in task_exit holds
    seen_tick         \* the `now' of its find_next_task

vars == <<state, wake_tick, regs, current_task, task_count_val, tick_count,
          preempt_enabled, cpu, pc, local, seen_tick>>
locals == <<local, seen_tick>>

Slots == 0 .. MAX_TASKS - 1

States == {"UNUSED", "READY", "RUNNING", "SLEEPING", "DEAD"}
Alive  == {"READY", "RUNNING", "SLEEPING"}

\* The context task_create builds: EIP = entry, own stack, IF = 1.
Entry == -1
\* A context that was resumed and not saved again since: the stack frames it
\* points into are gone.
Stale == -2
\* The CPU executes at an address, or on a stack, that no code put there.
Wild == -3

\* The steps of a thread: its own code, the two instructions of
\* switch_context that start it (the second form once a timer interrupt came
\* between them), and task_exit reached with interrupts enabled.
Pcs == {"run", "jmp", "jmp_irq", "x_load", "x_store", "x_ticks", "x_wake",
        "x_ready", "x_scan", "x_current", "x_running", "x_switch"}

\* task_exit before current_task = next.
InExit == {"x_load", "x_store", "x_ticks", "x_wake", "x_ready", "x_scan", "x_current"}

TypeOK ==
    /\ state \in [Slots -> States]
    /\ wake_tick \in [Slots -> 0 .. TICK_MOD - 1]
    /\ regs \in [Slots -> Slots \cup {Entry, Stale}]
    /\ current_task \in Slots
    /\ task_count_val \in Int
    /\ tick_count \in 0 .. TICK_MOD - 1
    /\ preempt_enabled \in BOOLEAN
    /\ cpu \in Slots \cup {Wild}
    /\ pc \in [Slots -> Pcs]
    /\ local \in [Slots -> Int]
    /\ seen_tick \in [Slots -> 0 .. TICK_MOD - 1]

(***************************************************************************)
(* task_init, after timer_init and keyboard_init and before                 *)
(* timer_enable_preempt.  Slot 0 is the kernel: kernel_main itself.         *)
(***************************************************************************)
Init ==
    /\ state = [i \in Slots |-> IF i = 0 THEN "RUNNING" ELSE "UNUSED"]
    /\ wake_tick = [i \in Slots |-> 0]
    /\ regs = [i \in Slots |-> Stale]
    /\ current_task = 0
    /\ task_count_val = 1
    /\ tick_count = 0
    /\ preempt_enabled = FALSE
    /\ cpu = 0
    /\ pc = [i \in Slots |-> "run"]
    /\ local = [i \in Slots |-> 0]
    /\ seen_tick = [i \in Slots |-> 0]

(***************************************************************************)
(* find_next_task: wake the sleepers that are due, then the first READY     *)
(* slot after the current one, cyclically (the current one last).           *)
(***************************************************************************)
WakeDue_AnyState(st, wt, now) ==
    [i \in Slots |-> IF now >= wt[i] THEN "READY" ELSE st[i]]
WakeDue(st, wt, now) ==
    [i \in Slots |-> IF st[i] = "SLEEPING" /\ now >= wt[i]
                     THEN "READY" ELSE st[i]]

After_FromZero(i) == i % MAX_TASKS
After(i) == (current_task + i) % MAX_TASKS

find_next_task(st) ==
    IF \E i \in 1 .. MAX_TASKS : st[After(i)] = "READY"
    THEN After(CHOOSE i \in 1 .. MAX_TASKS :
                   /\ st[After(i)] = "READY"
                   /\ \A j \in 1 .. i - 1 : st[After(j)] # "READY")
    ELSE IF st[current_task] = "RUNNING" THEN current_task ELSE 0

(***************************************************************************)
(* switch_context(&tasks[old].regs, &tasks[next].regs), executed by the     *)
(* thread on the CPU, whose pc becomes at.  Starting a new task stops       *)
(* before the jmp; its saved context is still to be read.                   *)
(***************************************************************************)
SavedRegs_Skipped(old) == regs
SavedRegs(old) == [regs EXCEPT ![old] = cpu]

switch_context(old, next, at) ==
    LET saved == SavedRegs(old)
        here  == [pc EXCEPT ![cpu] = at]
    IN  IF saved[next] = Entry
        THEN /\ cpu' = next
             /\ pc' = [here EXCEPT ![next] = "jmp"]
             /\ regs' = saved
        ELSE /\ cpu' = IF saved[next] = Stale THEN Wild ELSE saved[next]
             /\ pc' = here
             /\ regs' = [saved EXCEPT ![next] = Stale]

(***************************************************************************)
(* task_schedule with interrupts disabled.  st and wt are the task table as *)
(* its caller leaves it, now the tick, at the place in its own code where   *)
(* the calling thread goes on when it is resumed.                           *)
(***************************************************************************)
KeepsCpu(st, next) == next = current_task /\ st[current_task] = "RUNNING"

Descheduled(st) ==
    [st EXCEPT ![current_task] = IF @ = "RUNNING" THEN "READY" ELSE @]

Dispatched_OldKept(st, next) == [st EXCEPT ![next] = "RUNNING"]
Dispatched_NotMarked(st, next) == Descheduled(st)
Dispatched(st, next) == [Descheduled(st) EXCEPT ![next] = "RUNNING"]

task_schedule(st, wt, now, at) ==
    LET woken == WakeDue(st, wt, now)
        next  == find_next_task(woken)
    IN  IF KeepsCpu(woken, next)
        THEN /\ state' = woken
             /\ pc' = [pc EXCEPT ![cpu] = at]
             /\ UNCHANGED <<current_task, cpu, regs>>
        ELSE /\ state' = Dispatched(woken, next)
             /\ current_task' = next
             /\ switch_context(current_task, next, at)

-----------------------------------------------------------------------------
(***************************************************************************)
(* Interrupt handlers.  They come whenever the CPU executes known code,     *)
(* every step of which between two actions has interrupts enabled.          *)
(***************************************************************************)
CpuKnown == cpu # Wild

\* timer_enable_preempt, called by kernel_main.
EnablePreempt ==
    /\ cpu = 0 /\ pc[0] = "run"
    /\ ~preempt_enabled
    /\ preempt_enabled' = TRUE
    /\ UNCHANGED <<state, wake_tick, regs, current_task, task_count_val,
                   tick_count, cpu, pc, locals>>

PreemptDue_Every4th(now) == preempt_enabled /\ now % 4 = 0
PreemptDue(now) == preempt_enabled /\ now % 5 = 0

\* A thread that loses the CPU in task_exit before current_task = next is not
\* resumed (its slot is DEAD, and no other holds it): its registers are dropped.
Dropped(registers) ==
    IF cpu' # cpu /\ pc[cpu] \in InExit THEN [registers EXCEPT ![cpu] = 0] ELSE registers

\* timer_callback.  At most one tick falls between popfd and jmp.
TimerTick ==
    /\ CpuKnown
    /\ pc[cpu] # "jmp_irq"
    /\ tick_count' = (tick_count + 1) % TICK_MOD
    /\ LET at == IF pc[cpu] = "jmp" THEN "jmp_irq" ELSE pc[cpu]
       IN  IF PreemptDue(tick_count')
           THEN task_schedule(state, wake_tick, tick_count', at)
           ELSE /\ pc' = [pc EXCEPT ![cpu] = at]
                /\ UNCHANGED <<state, regs, current_task, cpu>>
    /\ local' = Dropped(local)
    /\ seen_tick' = Dropped(seen_tick)
    /\ UNCHANGED <<wake_tick, task_count_val, preempt_enabled>>

\* task_create, from cmd_run or elf_load_and_run in the keyboard interrupt.
\* It returns -1 and changes nothing when no slot is UNUSED.
task_create ==
    /\ CpuKnown
    /\ \E slot \in Slots :
         /\ state[slot] = "UNUSED"
         /\ \A j \in 0 .. slot - 1 : state[j] # "UNUSED"
         /\ state' = [state EXCEPT ![slot] = "READY"]
         /\ wake_tick' = [wake_tick EXCEPT ![slot] = 0]
         /\ regs' = [regs EXCEPT ![slot] = Entry]
    /\ task_count_val' = task_count_val + 1
    /\ UNCHANGED <<current_task, tick_count, preempt_enabled, cpu, pc, locals>>

Killable_KernelToo(id) == state[id] \notin {"UNUSED", "DEAD"}
Killable(id) == id # 0 /\ state[id] \notin {"UNUSED", "DEAD"}

\* cmd_kill: neither the count nor the CPU is touched.
cmd_kill ==
    /\ CpuKnown
    /\ \E id \in Slots :
         /\ Killable(id)
         /\ state' = [state EXCEPT ![id] = "DEAD"]
    /\ UNCHANGED <<wake_tick, regs, current_task, task_count_val, tick_count,
                   preempt_enabled, cpu, pc, locals>>

-----------------------------------------------------------------------------
(***************************************************************************)
(* System calls of the task on the CPU.  The kernel task makes none.        *)
(***************************************************************************)
InTask == cpu \in Slots \ {0} /\ pc[cpu] = "run"
SystemCall == SYSTEM_CALLS /\ InTask

\* sys_yield_handler -> task_yield
task_yield ==
    /\ SystemCall
    /\ task_schedule(state, wake_tick, tick_count, "run")
    /\ UNCHANGED <<wake_tick, task_count_val, tick_count, preempt_enabled, locals>>

WakeTick_NoWrap(ticks) == tick_count + ticks
WakeTick(ticks) == (tick_count + ticks) % TICK_MOD

\* sys_sleep_handler -> task_sleep_ticks
task_sleep_ticks ==
    /\ SystemCall
    /\ \E ticks \in SLEEP_TICKS :
         /\ wake_tick' = [wake_tick EXCEPT ![current_task] = WakeTick(ticks)]
         /\ task_schedule([state EXCEPT ![current_task] = "SLEEPING"], wake_tick',
                          tick_count, "run")
    /\ UNCHANGED <<task_count_val, tick_count, preempt_enabled, locals>>

\* sys_exit_handler -> task_exit, in the system call gate.
sys_exit ==
    /\ SystemCall
    /\ task_count_val' = task_count_val - 1
    /\ task_schedule([state EXCEPT ![current_task] = "DEAD"], wake_tick, tick_count, "run")
    /\ UNCHANGED <<wake_tick, tick_count, preempt_enabled, locals>>

-----------------------------------------------------------------------------
(***************************************************************************)
(* The jmp that ends switch_context into a new task.                        *)
(***************************************************************************)
EnterTask ==
    /\ CpuKnown
    /\ pc[cpu] \in {"jmp", "jmp_irq"}
    /\ IF regs[cpu] = Entry
       THEN /\ pc' = [pc EXCEPT ![cpu] = "run"]
            /\ regs' = [regs EXCEPT ![cpu] = Stale]
            /\ UNCHANGED cpu
       ELSE /\ cpu' = Wild
            /\ UNCHANGED <<pc, regs>>
    /\ UNCHANGED <<state, wake_tick, current_task, task_count_val, tick_count,
                   preempt_enabled, locals>>

(***************************************************************************)
(* task_exit reached by the return of the entry function, with interrupts   *)
(* enabled: one action per access to what the handlers also access.         *)
(***************************************************************************)
At(label) == CpuKnown /\ pc[cpu] = label
Goto(label) == pc' = [pc EXCEPT ![cpu] = label]

\* tasks[current_task].state = TASK_DEAD
ExitDead ==
    /\ InTask
    /\ state' = [state EXCEPT ![current_task] = "DEAD"]
    /\ Goto("x_load")
    /\ UNCHANGED <<wake_tick, regs, current_task, task_count_val, tick_count,
                   preempt_enabled, cpu, locals>>

\* task_count_val-- is a load, a subtraction and a store.
ExitLoadCount ==
    /\ At("x_load")
    /\ local' = [local EXCEPT ![cpu] = task_count_val]
    /\ Goto("x_store")
    /\ UNCHANGED <<state, wake_tick, regs, current_task, task_count_val,
                   tick_count, preempt_enabled, cpu, seen_tick>>

ExitStoreCount ==
    /\ At("x_store")
    /\ task_count_val' = local[cpu] - 1
    /\ Goto("x_ticks")
    /\ UNCHANGED <<state, wake_tick, regs, current_task, tick_count,
                   preempt_enabled, cpu, locals>>

\* task_schedule calls find_next_task: now = timer_get_ticks().
ExitReadTicks ==
    /\ At("x_ticks")
    /\ seen_tick' = [seen_tick EXCEPT ![cpu] = tick_count]
    /\ local' = [local EXCEPT ![cpu] = 0]
    /\ Goto("x_wake")
    /\ UNCHANGED <<state, wake_tick, regs, current_task, task_count_val,
                   tick_count, preempt_enabled, cpu>>

\* The loops go on with the next slot; the second one begins with the slot
\* after the current one, and does not use now any more.
WakeNext ==
    IF local[cpu] + 1 < MAX_TASKS
    THEN /\ local' = [local EXCEPT ![cpu] = @ + 1]
         /\ Goto("x_wake")
         /\ UNCHANGED seen_tick
    ELSE /\ local' = [local EXCEPT ![cpu] = 1]
         /\ Goto("x_scan")
         /\ seen_tick' = [seen_tick EXCEPT ![cpu] = 0]
ScanFound(next) == local' = [local EXCEPT ![cpu] = next] /\ Goto("x_current")
ScanNext ==
    IF local[cpu] < MAX_TASKS
    THEN local' = [local EXCEPT ![cpu] = @ + 1] /\ UNCHANGED pc
    ELSE ScanFound(0)

\* Is slot i a sleeper that is due?  Only a sleeper itself writes its
\* wake_tick, so that both reads are one.
ExitWake ==
    /\ At("x_wake")
    /\ IF state[local[cpu]] = "SLEEPING" /\ seen_tick[cpu] >= wake_tick[local[cpu]]
       THEN Goto("x_ready") /\ UNCHANGED locals
       ELSE WakeNext
    /\ UNCHANGED <<state, wake_tick, regs, current_task, task_count_val,
                   tick_count, preempt_enabled, cpu>>

\* tasks[i].state = TASK_READY
ExitReady ==
    /\ At("x_ready")
    /\ state' = [state EXCEPT ![local[cpu]] = "READY"]
    /\ WakeNext
    /\ UNCHANGED <<wake_tick, regs, current_task, task_count_val, tick_count,
                   preempt_enabled, cpu>>

\* The current task is not RUNNING, so that next is 0 if no slot is READY.
ExitScan ==
    /\ At("x_scan")
    /\ IF state[After(local[cpu])] = "READY"
       THEN ScanFound(After(local[cpu]))
       ELSE ScanNext
    /\ UNCHANGED <<state, wake_tick, regs, current_task, task_count_val,
                   tick_count, preempt_enabled, cpu, seen_tick>>

\* current_task = next
ExitSetCurrent ==
    /\ At("x_current")
    /\ current_task' = local[cpu]
    /\ Goto("x_running")
    /\ UNCHANGED <<state, wake_tick, regs, task_count_val, tick_count,
                   preempt_enabled, cpu, locals>>

\* tasks[next].state = TASK_RUNNING
ExitSetRunning ==
    /\ At("x_running")
    /\ state' = [state EXCEPT ![local[cpu]] = "RUNNING"]
    /\ Goto("x_switch")
    /\ UNCHANGED <<wake_tick, regs, current_task, task_count_val, tick_count,
                   preempt_enabled, cpu, locals>>

\* switch_context(&tasks[old].regs, &tasks[next].regs); old is the thread's slot.
ExitSwitch ==
    /\ At("x_switch")
    /\ switch_context(cpu, local[cpu], "x_switch")
    /\ local' = [local EXCEPT ![cpu] = 0]
    /\ UNCHANGED <<state, wake_tick, current_task, task_count_val, tick_count,
                   preempt_enabled, seen_tick>>

Exit == \/ ExitDead \/ ExitLoadCount \/ ExitStoreCount
        \/ ExitReadTicks \/ ExitWake \/ ExitReady \/ ExitScan
        \/ ExitSetCurrent \/ ExitSetRunning \/ ExitSwitch

-----------------------------------------------------------------------------
Next ==
    \/ EnablePreempt
    \/ TimerTick
    \/ task_create
    \/ cmd_kill
    \/ task_yield
    \/ task_sleep_ticks
    \/ sys_exit
    \/ EnterTask
    \/ Exit

(***************************************************************************)
(* The timer keeps interrupting, kernel_main goes on to enable preemption,  *)
(* and an instruction that can execute does.  Nothing is assumed of what    *)
(* tasks or the user at the keyboard do.                                    *)
(***************************************************************************)
Fairness == WF_vars(TimerTick) /\ WF_vars(EnablePreempt) /\ WF_vars(EnterTask)

Spec == Init /\ [][Next]_vars /\ Fairness

-----------------------------------------------------------------------------
(***************************************************************************)
(* Safety.                                                                  *)
(***************************************************************************)
\* tasks[].state is RUNNING for current_task only, also while task_exit of a
\* task that returned is interrupted between its accesses: `ps' never shows
\* two running tasks and task_schedule never leaves one behind as RUNNING.
OneRunning == \A i \in Slots : state[i] = "RUNNING" => i = current_task

\* find_next_task returns 0 without looking at tasks[0].state when nothing
\* else is READY.  The kernel task is READY or RUNNING then: that rests on
\* cmd_kill refusing task 0 and on the kernel task making no system call.
\* (Whether its saved context is still its own is TasksKept.)
KernelRunnable ==
    /\ state[0] \in {"READY", "RUNNING"}
    /\ state[0] = "READY" \/ current_task = 0

\* Whatever code of its own a task executes, tasks[current_task] is its slot,
\* and it is not marked READY or SLEEPING while it executes.
CurrentIsOnCpu ==
    CpuKnown /\ pc[cpu] \in {"run", "jmp", "jmp_irq"} =>
        /\ current_task = cpu
        /\ state[cpu] \in {"RUNNING", "DEAD"}

(***************************************************************************)
(* Who holds which execution.  This is what makes the invariants above      *)
(* inductive, in the presence of task_exit's interrupted steps.             *)
(***************************************************************************)
\* Thread t is in task_exit after current_task = next, with next = i.
Leaving(t, i) ==
    /\ pc[t] \in {"x_running", "x_switch"}
    /\ local[t] = i /\ i # t /\ t # 0
    /\ state[t] = "DEAD" /\ regs[t] = Stale

\* What switch_context finds in tasks[i].regs: the task's entry point, its own
\* execution, or that of a leaving thread which was switched away from after
\* it had made i the current task, and was saved over what was there.
LiveContext(i) ==
    \/ regs[i] = Entry /\ i # 0
    \/ regs[i] = i /\ pc[i] \in {"run", "jmp_irq"}
    \/ regs[i] \in Slots \ {i} /\ Leaving(regs[i], i)

\* The execution of task i is in no other slot.
HeldOnlyBy(i) == \A j \in Slots \ {i} : regs[j] # i

\* No execution has two homes among the CPU and the tasks[].regs; and a slot
\* that can be dispatched holds its own or the one that was saved over it.
ContextInv ==
    /\ \A i, j \in Slots : regs[i] \in Slots /\ regs[i] = regs[j] => i = j
    /\ \A i \in Slots : regs[i] # cpu
    /\ \A i \in Slots : LiveContext(i) => HeldOnlyBy(i)
    /\ \A i \in Slots : state[i] \in {"READY", "SLEEPING"} => LiveContext(i)
    /\ \A i \in Slots : state[i] = "UNUSED" => cpu # i /\ HeldOnlyBy(i) /\ regs[i] # i

\* Where the thread on the CPU is, and what it relies on there.
CpuInv ==
    /\ pc[0] = "run" /\ regs[0] # Entry
    /\ CpuKnown =>
         /\ regs[cpu] = Stale \/ (regs[cpu] = Entry /\ pc[cpu] \in {"jmp", "jmp_irq"})
         /\ pc[cpu] = "jmp" => regs[cpu] = Entry
         /\ pc[cpu] \in InExit =>
              current_task = cpu /\ state[cpu] = "DEAD"
         /\ pc[cpu] \in {"x_wake", "x_ready"} => local[cpu] \in Slots
         /\ pc[cpu] = "x_scan" => local[cpu] \in 1 .. MAX_TASKS
         /\ pc[cpu] = "x_ready" =>
              /\ state[local[cpu]] \in {"SLEEPING", "DEAD"}
              /\ local[cpu] # 0 /\ LiveContext(local[cpu])
         /\ pc[cpu] = "x_current" =>
              /\ local[cpu] \in Slots \ {cpu}
              /\ state[local[cpu]] \in {"READY", "DEAD"}
              /\ LiveContext(local[cpu])
         /\ pc[cpu] \in {"x_running", "x_switch"} =>
              /\ Leaving(cpu, current_task)
              /\ HeldOnlyBy(current_task)
              /\ LiveContext(current_task) \/ regs[current_task] = Stale
              /\ state[current_task] \in {"READY", "RUNNING", "DEAD"}
              /\ pc[cpu] = "x_switch" => state[current_task] # "READY"

\* No execution is in two of the CPU and the tasks[].regs.
OneHome ==
    \A i \in Slots : regs[i] \in Slots =>
        regs[i] # cpu /\ \A j \in Slots \ {i} : regs[j] # regs[i]

\* At most one task is marked RUNNING, which is current_task and the one whose
\* code executes; the fallback to slot 0 finds a task that is neither dead nor
\* asleep; and no execution is resumed twice.
OneTaskRuns == OneRunning /\ KernelRunnable /\ CurrentIsOnCpu /\ OneHome

(***************************************************************************)
(* What an interrupted step may do to another task.                         *)
(***************************************************************************)
\* The execution of task i can be gone on with.
Held(i) == cpu = i \/ regs[i] \in {i, Entry}

\* Between current_task = i and switch_context in the exit of another task,
\* where a tick that schedules saves the leaving thread into tasks[i].regs.
HandsOverTo(i) ==
    CpuKnown /\ pc[cpu] \in {"x_running", "x_switch"} /\ local[cpu] = i

\* Behind popfd, after a tick saved over the entry point that jmp reads.
EntrySavedOver(i) == cpu = i /\ pc[i] = "jmp_irq"

\* The exit of another task has decided that i is READY or RUNNING next, and
\* not yet stored it.
AboutToRevive(i) ==
    CpuKnown /\ pc[cpu] \in {"x_ready", "x_running"} /\ local[cpu] = i

\* No tick, call, kill or exit, in whatever order, loses the execution of a
\* task that is alive or brings back one that is dead, the kernel's included,
\* but in these windows: the end of another task's exit (task.c:112-115), the
\* jmp of a task that starts (task_switch.asm:38-41), and, for the dead, the
\* wake-up and the dispatch in an exit (task.c:82, 113) and its own sleep.
TasksKept ==
    [][\A i \in Slots :
          /\ Held(i) /\ ~Held(i)' /\ state'[i] \in Alive
                => HandsOverTo(i) \/ EntrySavedOver(i)
          /\ state[i] = "DEAD" /\ state'[i] # "DEAD"
                => AboutToRevive(i) \/ cpu = i]_vars

(***************************************************************************)
(* Liveness, up to the point where the CPU leaves the kernel's code.        *)
(***************************************************************************)
\* Round robin: a READY task gets the CPU, unless it is killed first.
StarvationFree ==
    \A i \in Slots : state[i] = "READY" ~> state[i] \in {"RUNNING", "DEAD"} \/ cpu = Wild

\* A sleeper is woken, whatever its wake_tick and also across the wrap of the
\* 32-bit tick counter.  task_schedule only looks at ticks that are multiples
\* of 5, so this needs 5 to divide 2^32 - 1, the last tick before the wrap.
SleeperWakes ==
    \A i \in Slots : state[i] = "SLEEPING" ~> state[i] # "SLEEPING" \/ cpu = Wild

(***************************************************************************)
(* What comments and messages of the code say and the code does not do.     *)
(***************************************************************************)
\* task_switch.asm:2, "restores from new_regs": what task_exit's switch is
\* about to restore was saved, and has not been gone on with since.
SwitchRestores ==
    CpuKnown /\ pc[cpu] = "x_switch" => regs[local[cpu]] # Stale

\* task_switch.asm:2 and 40, "restores from new_regs", "Jump to new EIP": the
\* jmp that starts a task finds the entry point task_create stored.
JumpReachesEntry ==
    CpuKnown /\ pc[cpu] \in {"jmp", "jmp_irq"} => regs[cpu] = Entry
=============================================================================
