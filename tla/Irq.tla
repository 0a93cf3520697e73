-------------------------------- MODULE Irq ---------------------------------
(***************************************************************************)
(* Interrupts: the order in which kernel_main sets them up, the gates of    *)
(* cpu/idt.c and cpu/isr.c, irq_handler, and the two handlers everything    *)
(* else runs in, those of the timer and of the keyboard.  The shell runs    *)
(* each command inside the keyboard handler, so a command that waits        *)
(* (`sleep' stands for all of them: every one loops on hlt until a handler  *)
(* has changed a variable) waits there.                                     *)
(*                                                                          *)
(* The CPU, the interrupt controller (8259) and the keyboard controller     *)
(* (8042) are the hardware the code relies on: the 8259 latches the rising  *)
(* edge of a line once; the 8042 raises its line when it puts a byte into   *)
(* its output buffer, and puts the next one there only after port 0x60 was  *)
(* read.                                                                    *)
(***************************************************************************)
EXTENDS Integers, Sequences

CONSTANTS
    TICK_MOD,      \* values of the tick counter, a uint32_t (2^32)
    WAIT_TICKS,    \* the ticks `sleep' asks timer_wait for
    KEYS,          \* what the user types, see Keys
    KEYS_FROM,     \* the boot stages at which the user may type
    PROGRAMS       \* whether a program that makes system calls is run

\* A key press that ends a line whose command waits, or a line whose command
\* does not wait; Ctrl+C; a key that only edits the line.
Keys == {"sleep", "line", "ctrl_c", "char"}
NoKey == "none"

\* How far kernel_main has come.
Stages == {"start", "remapped", "gated", "enabled", "timer", "keyboard",
           "syscall", "idle"}

ASSUME TickModAssumption == TICK_MOD \in Nat \ {0}
ASSUME WaitTicksAssumption == WAIT_TICKS \in 0 .. TICK_MOD - 1
ASSUME KeysAssumption == KEYS \subseteq Keys /\ KEYS_FROM \subseteq Stages
ASSUME ProgramsAssumption == PROGRAMS \in BOOLEAN

IRQ0 == 32
IRQ1 == 33
SYSCALL == 128
Lines == 32 .. 47               \* the vectors of the two controllers
Vectors == Lines \cup {SYSCALL}

VARIABLES
    stage,
    gates,               \* what idt[v] is: absent, an interrupt gate to the
                         \* stub, a trap gate to it, or a gate to address 0
    interrupt_handlers,  \* the vectors with a registered handler
    enabled,             \* the CPU's interrupt flag
    halted,              \* the CPU is in hlt
    wild,                \* the CPU was sent where there is no code
    stack,               \* the interrupt frames, the innermost first
    irr, isr,            \* the 8259: latched requests, interrupts in service
    out,                 \* the 8042's output buffer
    tick_count,
    target,              \* the local of timer_wait
    ctrl_c_pressed

cpu == <<enabled, halted, wild, stack>>
pic == <<irr, isr>>
shell == <<tick_count, target, ctrl_c_pressed>>
vars == <<stage, gates, interrupt_handlers, cpu, pic, out, shell>>

\* A frame: its vector, what its code does next, the flag iret restores.
Frames == [vector : Lines, at : {"eoi", "dispatch", "wait", "iret"}, flag : BOOLEAN]

TypeOK ==
    /\ stage \in Stages
    /\ gates \in [Vectors -> {"absent", "interrupt", "trap", "null"}]
    /\ interrupt_handlers \subseteq Vectors
    /\ enabled \in BOOLEAN /\ halted \in BOOLEAN /\ wild \in BOOLEAN
    /\ stack \in Seq(Frames)
    /\ irr \subseteq Lines /\ isr \subseteq Lines
    /\ out \in KEYS \cup {NoKey}
    /\ tick_count \in 0 .. TICK_MOD - 1 /\ target \in 0 .. TICK_MOD - 1
    /\ ctrl_c_pressed \in BOOLEAN

\* The boot loader enters _start with interrupts disabled (multiboot).
Init ==
    /\ stage = "start"
    /\ gates = [v \in Vectors |-> "absent"]
    /\ interrupt_handlers = {}
    /\ enabled = FALSE /\ halted = FALSE /\ wild = FALSE
    /\ stack = <<>>
    /\ irr = {} /\ isr = {}
    /\ out = NoKey
    /\ tick_count = 0 /\ target = 0
    /\ ctrl_c_pressed = FALSE

-----------------------------------------------------------------------------
(* kernel_main, with the steps interrupts can come between.                 *)

Boots(from, to) ==
    /\ stage = from
    /\ stage' = to
    /\ ~halted /\ ~wild /\ stack = <<>>

\* Initialising the 8259 drops its requests; no line is masked.
idt_init ==
    /\ Boots("start", "remapped")
    /\ irr' = {} /\ isr' = {}
    /\ UNCHANGED <<gates, interrupt_handlers, cpu, out, shell>>

\* Flags 0x8E and 0xEE: interrupt gates.
StubGates_Trap == [v \in Vectors |-> "trap"]
StubGates_NoKeyboard ==
    [v \in Vectors |-> IF v = IRQ1 THEN "absent" ELSE "interrupt"]
StubGates == [v \in Vectors |-> "interrupt"]

isr_install ==
    /\ Boots("remapped", "gated")
    /\ gates' = StubGates
    /\ UNCHANGED <<interrupt_handlers, cpu, pic, out, shell>>

\* idt_load: lidt; sti.
idt_load_and_enable ==
    /\ Boots("gated", "enabled")
    /\ enabled' = TRUE
    /\ UNCHANGED <<gates, interrupt_handlers, halted, wild, stack, pic, out, shell>>

TimerVector_NotRemapped == 8
TimerVector == IRQ0

timer_init ==
    /\ Boots("enabled", "timer")
    /\ interrupt_handlers' = interrupt_handlers \cup {TimerVector}
    /\ tick_count' = 0
    /\ UNCHANGED <<gates, cpu, pic, out, target, ctrl_c_pressed>>

KeyboardVector_Next == IRQ1 + 1
KeyboardVector == IRQ1

keyboard_init ==
    /\ Boots("timer", "keyboard")
    /\ interrupt_handlers' = interrupt_handlers \cup {KeyboardVector}
    /\ UNCHANGED <<gates, cpu, pic, out, shell>>

\* idt_set_gate(0x80, 0, 0x08, 0xEE) replaces the gate to the stub isr128.
syscall_init ==
    /\ Boots("keyboard", "syscall")
    /\ gates' = [gates EXCEPT ![SYSCALL] = "null"]
    /\ interrupt_handlers' = interrupt_handlers \cup {SYSCALL}
    /\ UNCHANGED <<cpu, pic, out, shell>>

shell_init ==
    /\ Boots("syscall", "idle")
    /\ UNCHANGED <<gates, interrupt_handlers, cpu, pic, out, shell>>

\* The idle loop at the end of kernel_main.
Idle ==
    /\ stage = "idle" /\ stack = <<>> /\ ~halted /\ ~wild
    /\ halted' = TRUE
    /\ UNCHANGED <<stage, gates, interrupt_handlers, enabled, wild, stack, pic, out, shell>>

-----------------------------------------------------------------------------
(* The hardware.                                                            *)

\* The timer's period is longer than its handler.
Tick ==
    /\ IRQ0 \notin irr
    /\ \A i \in DOMAIN stack : stack[i].vector # IRQ0
    /\ irr' = irr \cup {IRQ0}
    /\ UNCHANGED <<stage, gates, interrupt_handlers, cpu, isr, out, shell>>

Press(k) ==
    /\ stage \in KEYS_FROM /\ out = NoKey
    /\ out' = k
    /\ irr' = irr \cup {IRQ1}
    /\ UNCHANGED <<stage, gates, interrupt_handlers, cpu, isr, shell>>

\* The CPU takes the interrupt of highest priority.  An interrupt gate clears
\* the flag that the frame has saved; no gate, no code to run.
Deliver(v) ==
    /\ enabled /\ ~wild
    /\ v \in irr
    /\ \A w \in irr \cup isr : v <= w
    /\ v \notin isr
    /\ irr' = irr \ {v}
    /\ isr' = isr \cup {v}
    /\ halted' = FALSE
    /\ wild' = (gates[v] \in {"absent", "null"})
    /\ enabled' = (gates[v] = "trap")
    /\ stack' = <<[vector |-> v, at |-> "eoi", flag |-> enabled]>> \o stack
    /\ UNCHANGED <<stage, gates, interrupt_handlers, out, shell>>

-----------------------------------------------------------------------------
(* The code of the frame on top of the stack.                               *)

At(v, place) ==
    /\ stack # <<>> /\ ~halted /\ ~wild
    /\ Head(stack).vector = v
    /\ Head(stack).at = place

Goto(place) == stack' = [stack EXCEPT ![1].at = place]

\* irq_handler ends the interrupt before it dispatches it.
Eoi(v) ==
    /\ At(v, "eoi")
    /\ isr' = isr \ {v}
    /\ Goto("dispatch")
    /\ UNCHANGED <<stage, gates, interrupt_handlers, enabled, halted, wild, irr, out, shell>>

NoHandler(v) ==
    /\ At(v, "dispatch") /\ v \notin interrupt_handlers
    /\ Goto("iret")
    /\ UNCHANGED <<stage, gates, interrupt_handlers, enabled, halted, wild, pic, out, shell>>

NextTick_NoWrap == tick_count + 1
NextTick == (tick_count + 1) % TICK_MOD

\* The task switch it may make is module Task's: it goes on in another frame
\* of this handler, on another stack, or in a task that starts with no frame.
timer_callback ==
    /\ At(IRQ0, "dispatch") /\ IRQ0 \in interrupt_handlers
    /\ tick_count' = NextTick
    /\ Goto("iret")
    /\ UNCHANGED <<stage, gates, interrupt_handlers, enabled, halted, wild, pic, out,
                   target, ctrl_c_pressed>>

\* keyboard_callback: read port 0x60, then edit the line, or Ctrl+C, or
\* shell_execute, which begins by clearing ctrl_c_pressed.  A command that
\* waits is executed up to and including timer_wait's first statement.
keyboard_callback ==
    /\ At(IRQ1, "dispatch") /\ IRQ1 \in interrupt_handlers
    /\ out' = NoKey
    /\ \/ /\ out = "char"
          /\ Goto("iret")
          /\ UNCHANGED <<target, ctrl_c_pressed>>
       \/ /\ out \in {"ctrl_c", "line"}
          /\ ctrl_c_pressed' = (out = "ctrl_c")
          /\ Goto("iret")
          /\ UNCHANGED target
       \/ /\ out = "sleep"
          /\ ctrl_c_pressed' = FALSE
          /\ target' = (tick_count + WAIT_TICKS) % TICK_MOD
          /\ Goto("wait")
    /\ UNCHANGED <<stage, gates, interrupt_handlers, enabled, halted, wild, pic, tick_count>>

\* The loop of timer_wait.
timer_wait ==
    /\ At(IRQ1, "wait")
    /\ IF tick_count < target /\ ~ctrl_c_pressed
       THEN halted' = TRUE /\ UNCHANGED stack
       ELSE Goto("iret") /\ UNCHANGED halted
    /\ UNCHANGED <<stage, gates, interrupt_handlers, enabled, wild, pic, out, shell>>

\* The end of irq_common_stub.
Iret(v) ==
    /\ At(v, "iret")
    /\ stack' = Tail(stack)
    /\ enabled' = Head(stack).flag
    /\ UNCHANGED <<stage, gates, interrupt_handlers, halted, wild, pic, out, shell>>

\* A program executes int 0x80.  A handler that is reached returns.
Int80 ==
    /\ PROGRAMS /\ stage = "idle" /\ stack = <<>> /\ ~halted /\ ~wild
    /\ wild' = (gates[SYSCALL] # "interrupt")
    /\ UNCHANGED <<stage, gates, interrupt_handlers, enabled, halted, stack, pic, out, shell>>

-----------------------------------------------------------------------------
Boot ==
    \/ idt_init \/ isr_install \/ idt_load_and_enable \/ timer_init
    \/ keyboard_init \/ syscall_init \/ shell_init

Handler ==
    \/ \E v \in {IRQ0, IRQ1} : Eoi(v) \/ NoHandler(v) \/ Iret(v)
    \/ timer_callback \/ keyboard_callback \/ timer_wait

Next ==
    \/ Boot \/ Idle
    \/ Tick \/ \E k \in KEYS : Press(k)
    \/ \E v \in {IRQ0, IRQ1} : Deliver(v)
    \/ Handler
    \/ Int80

Spec == Init /\ [][Next]_vars

\* The CPU runs, the timer ticks, and a latched request is delivered.  The
\* keyboard's is delivered when it is again and again the first one: the
\* timer's handler is shorter than its period.
Fairness ==
    /\ WF_vars(Boot) /\ WF_vars(Handler) /\ WF_vars(Tick)
    /\ WF_vars(Deliver(IRQ0)) /\ SF_vars(Deliver(IRQ1))

FairSpec == Spec /\ Fairness

-----------------------------------------------------------------------------
(* Handlers do not nest: every gate the controllers use clears the          *)
(* interrupt flag, so the shell, which runs in the keyboard handler, is     *)
(* never entered by a second key while a command runs.                      *)
OneHandler ==
    /\ Len(stack) <= 1
    /\ enabled => stack = <<>>

(* No interrupt is taken before its gate is set (the order idt.c:33 and     *)
(* irq_install insist on): the CPU is never sent to an absent gate by a     *)
(* device, whatever tick or key comes while kernel_main boots.              *)
GatesBeforeInterrupts ==
    /\ enabled => \A v \in Lines : gates[v] = "interrupt"
    /\ wild => stage = "idle"

(* Interrupts come only when they can be served, and one at a time.         *)
InterruptsInTurn == OneHandler /\ GatesBeforeInterrupts

(* A byte in the keyboard controller's buffer has an interrupt latched for  *)
(* it, or a handler that is going to read it.  The controller raises no     *)
(* other interrupt until the byte is read, so a byte without one silences   *)
(* the keyboard for good.                                                   *)
KeyHasInterrupt ==
    out # NoKey =>
        \/ IRQ1 \in irr
        \/ \E i \in DOMAIN stack : /\ stack[i].vector = IRQ1
                                   /\ stack[i].at \in {"eoi", "dispatch"}

\* A command waits inside its handler, or the CPU has left the kernel.
Waiting == stack # <<>> /\ Head(stack).at = "wait"
Stopped == Waiting \/ wild

(* Every key is read, and once its handler is there ticks go on being       *)
(* counted, as long as no command waits.                                    *)
KeysRead == out # NoKey ~> out = NoKey \/ Stopped

TicksCounted ==
    \A n \in 0 .. TICK_MOD - 1 :
        (stage = "idle" /\ tick_count = n) ~> tick_count # n \/ Stopped

(* shell.c:302, "sleep <s> - Sleep for N seconds": a command that waits for *)
(* ticks returns.                                                           *)
SleepReturns == Waiting ~> ~Waiting

(* kernel.c:76, "Syscall interface initialized (int 0x80)": a system call    *)
(* reaches the handler that syscall_init registers, and not address 0.      *)
SystemCallsReachHandler == ~wild

=============================================================================
