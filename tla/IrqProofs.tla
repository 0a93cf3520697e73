----------------------------- MODULE IrqProofs -----------------------------
(***************************************************************************)
(* Proofs about interrupts: for every width of the tick counter, whatever   *)
(* the user types and whenever, handlers do not nest and no interrupt is    *)
(* taken before its gate is there; if the user types only once the keyboard *)
(* handler is registered, no key is left without an interrupt; and a        *)
(* command that waits for a tick, or a key without its interrupt, is stuck  *)
(* for good.                                                                *)
(***************************************************************************)
EXTENDS Irq, TLAPS

\* The stages after the sti at the end of irq_install, and those at which the
\* keyboard handler is registered.
Interruptible == {"enabled", "timer", "keyboard", "syscall", "idle"}
Listening == {"keyboard", "syscall", "idle"}

(* What the code relies on between two steps.  The stack is empty or holds  *)
(* one frame of the timer or the keyboard, entered with interrupts enabled  *)
(* and running with them disabled; from isr_install on the controllers'     *)
(* gates are set.                                                           *)
HandlerInv ==
    /\ stack # <<>> => /\ \E f \in Frames : /\ stack = <<f>>
                                            /\ f.vector \in {IRQ0, IRQ1} /\ f.flag
                       /\ ~ enabled
    /\ enabled \/ stack # <<>> => stage \in Interruptible
    /\ stage \in Interruptible \cup {"gated"} =>
            \A v \in Lines : gates[v] = "interrupt"
    /\ wild => stage = "idle"
    /\ stage \in Listening => IRQ1 \in interrupt_handlers

IInv == TypeOK /\ HandlerInv

(* With the user's keys: a byte is there only once someone listens.         *)
KeyInv == KeyHasInterrupt /\ (out # NoKey => stage \in Listening)

-----------------------------------------------------------------------------
LEMMA ModBelow ==
    ASSUME NEW m \in Nat \ {0}, NEW k \in Nat
    PROVE  k % m \in 0 .. m - 1
  OBVIOUS

LEMMA LinesFacts == IRQ0 \in Lines /\ IRQ1 \in Lines /\ SYSCALL \notin Lines
                    /\ Lines \subseteq Vectors /\ SYSCALL \in Vectors /\ IRQ0 # IRQ1
  BY DEF IRQ0, IRQ1, SYSCALL, Lines, Vectors

(* Tick arithmetic stays within the counter.                                *)
LEMMA TickType ==
    ASSUME TypeOK
    PROVE  /\ 0 \in 0 .. TICK_MOD - 1
           /\ NextTick \in 0 .. TICK_MOD - 1
           /\ (tick_count + WAIT_TICKS) % TICK_MOD \in 0 .. TICK_MOD - 1
<1>1. PICK m \in Nat \ {0} : m = TICK_MOD
  BY TickModAssumption
<1>2. tick_count + 1 \in Nat /\ tick_count + WAIT_TICKS \in Nat
  BY <1>1, WaitTicksAssumption DEF TypeOK
<1>3. PICK a \in Nat, b \in Nat : a = tick_count + 1 /\ b = tick_count + WAIT_TICKS
  BY <1>2
<1>4. a % m \in 0 .. m - 1 /\ b % m \in 0 .. m - 1
  BY ModBelow
<1>5. QED  BY <1>1, <1>3, <1>4 DEF NextTick

LEMMA InitIInv == Init => IInv
<1> SUFFICES ASSUME Init PROVE IInv
  OBVIOUS
<1>1. TypeOK
  <2>1. stack \in Seq(Frames)
    BY DEF Init
  <2>2. tick_count \in 0 .. TICK_MOD - 1 /\ target \in 0 .. TICK_MOD - 1
    BY TickModAssumption DEF Init
  <2>3. QED  BY <2>1, <2>2 DEF Init, TypeOK, Stages, NoKey
<1>2. HandlerInv
  BY DEF Init, HandlerInv, Interruptible, Listening
<1>3. QED  BY <1>1, <1>2 DEF IInv

-----------------------------------------------------------------------------
(* The steps of kernel_main: no handler is running.                         *)
LEMMA BootIInv == ASSUME IInv, Boot PROVE IInv'
<1> USE LinesFacts DEF IInv, TypeOK, HandlerInv, Boots, cpu, pic, shell, Interruptible,
        Listening, Stages
<1>1. CASE idt_init
  BY <1>1 DEF idt_init
<1>2. CASE isr_install
  BY <1>2 DEF isr_install, StubGates
<1>3. CASE idt_load_and_enable
  BY <1>3 DEF idt_load_and_enable
<1>4. CASE timer_init
  BY <1>4, TickType DEF timer_init, TimerVector
<1>5. CASE keyboard_init
  BY <1>5 DEF keyboard_init, KeyboardVector
<1>6. CASE syscall_init
  <2>1. gates' \in [Vectors -> {"absent", "interrupt", "trap", "null"}]
    BY <1>6 DEF syscall_init
  <2>2. \A v \in Lines : gates'[v] = "interrupt"
    BY <1>6 DEF syscall_init
  <2>3. QED  BY <1>6, <2>1, <2>2 DEF syscall_init
<1>7. CASE shell_init
  BY <1>7 DEF shell_init
<1>8. QED  BY <1>1, <1>2, <1>3, <1>4, <1>5, <1>6, <1>7 DEF Boot

(* The one frame a delivery leaves on the stack.                            *)
LEMMA DeliveredFrame ==
    ASSUME IInv, NEW v \in {IRQ0, IRQ1}, Deliver(v)
    PROVE  stack' = <<[vector |-> v, at |-> "eoi", flag |-> TRUE]>>
<1> DEFINE f == [vector |-> v, at |-> "eoi", flag |-> TRUE]
<1>1. stack = <<>> /\ enabled
  BY DEF Deliver, IInv, HandlerInv
<1>2. f \in Frames
  BY LinesFacts DEF Frames
<1>3. QED  BY <1>1, <1>2 DEF Deliver, IInv, TypeOK

LEMMA DeliverIInv == ASSUME IInv, NEW v \in {IRQ0, IRQ1}, Deliver(v) PROVE IInv'
<1> DEFINE f == [vector |-> v, at |-> "eoi", flag |-> TRUE]
<1>1. stack = <<>> /\ enabled
  BY DEF Deliver, IInv, HandlerInv
<1>2. f \in Frames
  BY LinesFacts DEF Frames
<1>3. stack' = <<f>>
  BY DeliveredFrame
<1>4. gates[v] = "interrupt" /\ stage \in Interruptible
  BY <1>1, LinesFacts DEF IInv, HandlerInv
<1>5. wild' = FALSE /\ enabled' = FALSE
  <2>1. (gates[v] \in {"absent", "null"}) = FALSE /\ (gates[v] = "trap") = FALSE
    BY <1>4
  <2>2. QED  BY <2>1, Zenon DEF Deliver
<1>6. TypeOK'
  <2>1. stack' \in Seq(Frames)
    BY <1>2, <1>3
  <2>2. wild' \in BOOLEAN /\ enabled' \in BOOLEAN /\ halted' \in BOOLEAN
    BY <1>5 DEF Deliver
  <2>3. irr' \subseteq Lines /\ isr' \subseteq Lines
    BY LinesFacts DEF Deliver, IInv, TypeOK
  <2>4. QED  BY <2>1, <2>2, <2>3 DEF Deliver, IInv, TypeOK, shell
<1>7. HandlerInv'
  BY <1>2, <1>3, <1>4, <1>5 DEF Deliver, IInv, HandlerInv, shell
<1>8. QED  BY <1>6, <1>7 DEF IInv

(* A handler's step: the frame goes to another place of the code.           *)
LEMMA GotoFrame ==
    ASSUME IInv, stack # <<>>, NEW place \in {"eoi", "dispatch", "wait", "iret"}, Goto(place)
    PROVE  \E f \in Frames : /\ stack' = <<f>> /\ f = [Head(stack) EXCEPT !.at = place]
                             /\ f.vector = Head(stack).vector /\ f.flag
                             /\ f.vector \in {IRQ0, IRQ1} /\ f.at = place
<1>1. PICK g \in Frames : stack = <<g>> /\ g.vector \in {IRQ0, IRQ1} /\ g.flag
  BY DEF IInv, HandlerInv
<1>2. Head(stack) = g
  BY <1>1
<1>3. PICK f \in Frames : f = [g EXCEPT !.at = place]
  BY DEF Frames
<1>4. stack' = <<f>>
  BY <1>1, <1>3 DEF Goto
<1>5. f.vector = g.vector /\ f.flag = g.flag /\ f.at = place
  BY <1>3 DEF Frames
<1>6. QED  BY <1>1, <1>2, <1>3, <1>4, <1>5

(* What a step of a handler that only moves its frame must keep.            *)
LEMMA MovedIInv ==
    ASSUME IInv, stack # <<>>, NEW place \in {"eoi", "dispatch", "wait", "iret"}, Goto(place),
           UNCHANGED <<stage, gates, interrupt_handlers, enabled, wild>>,
           halted' \in BOOLEAN, irr' \subseteq Lines, isr' \subseteq Lines,
           out' \in KEYS \cup {NoKey}, tick_count' \in 0 .. TICK_MOD - 1,
           target' \in 0 .. TICK_MOD - 1, ctrl_c_pressed' \in BOOLEAN
    PROVE  IInv'
<1>1. PICK f \in Frames : stack' = <<f>> /\ f.vector \in {IRQ0, IRQ1} /\ f.flag
  BY GotoFrame
<1>2. TypeOK'
  BY <1>1 DEF IInv, TypeOK
<1>3. HandlerInv'
  BY <1>1 DEF IInv, HandlerInv
<1>4. QED  BY <1>2, <1>3 DEF IInv

LEMMA HandlerIInv == ASSUME IInv, Handler PROVE IInv'
<1>1. ASSUME NEW v \in {IRQ0, IRQ1}, Eoi(v) PROVE IInv'
  BY <1>1, MovedIInv DEF Eoi, At, IInv, TypeOK, shell
<1>2. ASSUME NEW v \in {IRQ0, IRQ1}, NoHandler(v) PROVE IInv'
  BY <1>2, MovedIInv DEF NoHandler, At, IInv, TypeOK, shell, pic
<1>3. ASSUME NEW v \in {IRQ0, IRQ1}, Iret(v) PROVE IInv'
  <2>1. PICK f \in Frames : stack = <<f>> /\ f.flag /\ f.flag \in BOOLEAN
    BY <1>3 DEF Iret, At, IInv, HandlerInv, Frames
  <2>2. stack' = <<>> /\ enabled'
    BY <1>3, <2>1 DEF Iret
  <2>3. TypeOK'
    <3>1. stack' \in Seq(Frames)
      BY <2>2
    <3>2. Head(stack) = f
      BY <2>1
    <3>3. enabled' \in BOOLEAN
      BY <1>3, <2>1, <3>2, Zenon DEF Iret
    <3>4. QED  BY <1>3, <3>1, <3>3 DEF Iret, IInv, TypeOK, pic, shell
  <2>4. HandlerInv'
    BY <1>3, <2>1, <2>2 DEF Iret, IInv, HandlerInv, pic, shell
  <2>5. QED  BY <2>3, <2>4 DEF IInv
<1>4. CASE timer_callback
  BY <1>4, MovedIInv, TickType DEF timer_callback, At, IInv, TypeOK, pic
<1>5. CASE keyboard_callback
  <2>1. CASE out = "sleep"
    BY <1>5, <2>1, MovedIInv, TickType DEF keyboard_callback, At, IInv, TypeOK, pic
  <2>2. CASE out # "sleep"
    BY <1>5, <2>2, MovedIInv DEF keyboard_callback, At, IInv, TypeOK, pic
  <2>3. QED  BY <2>1, <2>2
<1>6. CASE timer_wait
  <2>1. CASE tick_count < target /\ ~ ctrl_c_pressed
    BY <1>6, <2>1 DEF timer_wait, IInv, TypeOK, HandlerInv, pic, shell
  <2>2. CASE ~ (tick_count < target /\ ~ ctrl_c_pressed)
    BY <1>6, <2>2, MovedIInv DEF timer_wait, At, IInv, TypeOK, pic, shell
  <2>3. QED  BY <2>1, <2>2
<1>7. QED  BY <1>1, <1>2, <1>3, <1>4, <1>5, <1>6 DEF Handler

LEMMA NextIInv == IInv /\ [Next]_vars => IInv'
<1> SUFFICES ASSUME IInv, [Next]_vars PROVE IInv'
  OBVIOUS
<1>1. CASE Boot
  BY <1>1, BootIInv
<1>2. CASE Idle
  BY <1>2 DEF Idle, IInv, TypeOK, HandlerInv, pic, shell
<1>3. CASE Tick
  BY <1>3, LinesFacts DEF Tick, IInv, TypeOK, HandlerInv, cpu, shell
<1>4. ASSUME NEW k \in KEYS, Press(k) PROVE IInv'
  BY <1>4, LinesFacts DEF Press, IInv, TypeOK, HandlerInv, cpu, shell
<1>5. ASSUME NEW v \in {IRQ0, IRQ1}, Deliver(v) PROVE IInv'
  BY <1>5, DeliverIInv
<1>6. CASE Handler
  BY <1>6, HandlerIInv
<1>7. CASE Int80
  BY <1>7 DEF Int80, IInv, TypeOK, HandlerInv, pic, shell
<1>8. CASE UNCHANGED vars
  BY <1>8 DEF vars, IInv, TypeOK, HandlerInv, cpu, pic, shell
<1>9. QED  BY <1>1, <1>2, <1>3, <1>4, <1>5, <1>6, <1>7, <1>8 DEF Next

THEOREM InductiveInvariant == Spec => []IInv
  BY InitIInv, NextIInv, PTL DEF Spec

-----------------------------------------------------------------------------
(* The registers of the controllers, the frames and the tick counter keep   *)
(* their types; the counter never leaves its width.                         *)
THEOREM TypeCorrect == Spec => []TypeOK
  BY InductiveInvariant, PTL DEF IInv

(* Handlers do not nest, so the shell is not reentered, and no device sends *)
(* the CPU to an absent gate while kernel_main boots, whenever ticks and    *)
(* keys come.                                                               *)
THEOREM InterruptsInTurnAlways == Spec => []InterruptsInTurn
<1>1. IInv => InterruptsInTurn
  BY DEF IInv, HandlerInv, InterruptsInTurn, OneHandler, GatesBeforeInterrupts, Interruptible
<1>2. QED  BY <1>1, InductiveInvariant, PTL

-----------------------------------------------------------------------------
(* Keys that come once someone listens.                                     *)

LEMMA KeyStep ==
    ASSUME KEYS_FROM \subseteq Listening, IInv, KeyInv, [Next]_vars
    PROVE  KeyInv'
<1> USE LinesFacts DEF KeyInv, KeyHasInterrupt, Listening
<1>1. CASE Boot
  BY <1>1 DEF Boot, Boots, idt_init, isr_install, idt_load_and_enable, timer_init,
              keyboard_init, syscall_init, shell_init, cpu, pic
<1>2. CASE Idle \/ Tick \/ Int80 \/ UNCHANGED vars
  BY <1>2 DEF Idle, Tick, Int80, vars, cpu, pic
<1>3. ASSUME NEW k \in KEYS, Press(k) PROVE KeyInv'
  BY <1>3 DEF Press
<1>4. ASSUME NEW v \in {IRQ0, IRQ1}, Deliver(v) PROVE KeyInv'
  <2> DEFINE f == [vector |-> v, at |-> "eoi", flag |-> TRUE]
  <2>1. stack' = <<f>>
    BY <1>4, DeliveredFrame
  <2>2. v # IRQ1 => (IRQ1 \in irr' <=> IRQ1 \in irr)
    BY <1>4 DEF Deliver
  <2>3. stack = <<>>
    BY <1>4 DEF Deliver, IInv, HandlerInv
  <2>4. QED  BY <1>4, <2>1, <2>2, <2>3 DEF Deliver
<1>5. CASE Handler
  <2>1. PICK f \in Frames : stack = <<f>>
    BY <1>5 DEF Handler, Eoi, NoHandler, Iret, timer_callback, keyboard_callback,
                timer_wait, At, IInv, HandlerInv
  <2>2. Head(stack) = f /\ DOMAIN stack = {1} /\ stack[1] = f
    BY <2>1
  <2>3. ASSUME NEW v \in {IRQ0, IRQ1}, Eoi(v) PROVE KeyInv'
    <3>1. PICK g \in Frames : stack' = <<g>> /\ g.vector = f.vector /\ g.at = "dispatch"
      BY <2>2, <2>3, GotoFrame DEF Eoi, At
    <3>2. QED  BY <2>2, <2>3, <3>1 DEF Eoi
  <2>4. ASSUME NEW v \in {IRQ0, IRQ1}, NoHandler(v) PROVE KeyInv'
    <3>1. v # IRQ1 \/ out = NoKey
      BY <2>4 DEF NoHandler, IInv, HandlerInv
    <3>2. f.vector = v
      BY <2>2, <2>4 DEF NoHandler, At
    <3>3. QED  BY <2>2, <2>4, <3>1, <3>2 DEF NoHandler, pic
  <2>5. ASSUME NEW v \in {IRQ0, IRQ1}, Iret(v) PROVE KeyInv'
    <3>1. f.at = "iret"
      BY <2>2, <2>5 DEF Iret, At
    <3>2. QED  BY <2>2, <2>5, <3>1 DEF Iret, pic
  <2>6. CASE timer_callback
    <3>1. f.vector = IRQ0
      BY <2>2, <2>6 DEF timer_callback, At
    <3>2. QED  BY <2>2, <2>6, <3>1 DEF timer_callback, pic
  <2>7. CASE keyboard_callback
    BY <2>7 DEF keyboard_callback
  <2>8. CASE timer_wait
    <3>1. f.at = "wait"
      BY <2>2, <2>8 DEF timer_wait, At
    <3>2. QED  BY <2>2, <2>8, <3>1 DEF timer_wait, pic
  <2>9. QED  BY <1>5, <2>3, <2>4, <2>5, <2>6, <2>7, <2>8 DEF Handler
<1>6. QED  BY <1>1, <1>2, <1>3, <1>4, <1>5 DEF Next

(* No key is left in the controller without an interrupt that will read it, *)
(* provided the user types once keyboard_init has registered the handler: a *)
(* key before that is dropped by irq_handler and silences the keyboard.     *)
THEOREM KeyHasInterruptAlways ==
    ASSUME KEYS_FROM \subseteq Listening
    PROVE  Spec => []KeyHasInterrupt
<1>1. Init => KeyInv
  BY DEF Init, KeyInv, KeyHasInterrupt
<1>2. IInv /\ KeyInv /\ [Next]_vars => KeyInv'
  BY KeyStep
<1>3. KeyInv => KeyHasInterrupt
  BY DEF KeyInv
<1>4. QED  BY <1>1, <1>2, <1>3, InductiveInvariant, PTL DEF Spec

-----------------------------------------------------------------------------
(***************************************************************************)
(* What is lost for good once it is lost.                                   *)
(***************************************************************************)
\* A command waits for ticks that are still to come, and no Ctrl+C came before.
Hangs == Waiting /\ tick_count < target /\ ~ ctrl_c_pressed

\* A byte is in the keyboard controller's buffer and nobody will read it.
Silent == out # NoKey /\ ~ KeyHasInterrupt

LEMMA HangsStep == IInv /\ Hangs /\ [Next]_vars => Hangs'
<1> SUFFICES ASSUME IInv, Hangs, [Next]_vars PROVE Hangs'
  OBVIOUS
<1>1. stack # <<>> /\ Head(stack).at = "wait" /\ tick_count < target /\ ~ ctrl_c_pressed
  BY DEF Hangs, Waiting
<1>2. ~ enabled
  BY <1>1 DEF IInv, HandlerInv
<1>3. UNCHANGED <<stack, tick_count, target, ctrl_c_pressed>>
  <2>1. CASE Boot \/ Idle \/ Int80
    BY <1>1, <2>1 DEF Boot, Boots, idt_init, isr_install, idt_load_and_enable, timer_init,
                      keyboard_init, syscall_init, shell_init, Idle, Int80
  <2>2. CASE Tick \/ (\E k \in KEYS : Press(k)) \/ UNCHANGED vars
    BY <2>2 DEF Tick, Press, vars, cpu, shell
  <2>3. CASE \E v \in {IRQ0, IRQ1} : Deliver(v)
    BY <1>2, <2>3 DEF Deliver
  <2>4. CASE Handler
    BY <1>1, <2>4 DEF Handler, Eoi, NoHandler, Iret, timer_callback, keyboard_callback,
                      timer_wait, At, shell
  <2>5. QED  BY <2>1, <2>2, <2>3, <2>4 DEF Next
<1>4. QED  BY <1>1, <1>3 DEF Hangs, Waiting

LEMMA SilentStep == IInv /\ Silent /\ [Next]_vars => Silent'
<1> SUFFICES ASSUME IInv, Silent, [Next]_vars PROVE Silent'
  OBVIOUS
<1> USE LinesFacts DEF Silent, KeyHasInterrupt
<1>1. CASE Boot
  BY <1>1 DEF Boot, Boots, idt_init, isr_install, idt_load_and_enable, timer_init,
              keyboard_init, syscall_init, shell_init, cpu, pic
<1>2. CASE Idle \/ Tick \/ Int80 \/ UNCHANGED vars
  BY <1>2 DEF Idle, Tick, Int80, vars, cpu, pic
<1>3. ASSUME NEW k \in KEYS, Press(k) PROVE Silent'
  BY <1>3 DEF Press
<1>4. ASSUME NEW v \in {IRQ0, IRQ1}, Deliver(v) PROVE Silent'
  <2> DEFINE f == [vector |-> v, at |-> "eoi", flag |-> TRUE]
  <2>1. stack' = <<f>>
    BY <1>4, DeliveredFrame
  <2>2. v = IRQ0 /\ irr' \subseteq irr /\ out' = out
    BY <1>4 DEF Deliver
  <2>3. \A i \in DOMAIN stack' : stack'[i].vector = IRQ0
    BY <2>1, <2>2
  <2>4. QED  BY <2>2, <2>3
<1>5. CASE Handler
  <2>1. PICK f \in Frames : stack = <<f>>
    BY <1>5 DEF Handler, Eoi, NoHandler, Iret, timer_callback, keyboard_callback,
                timer_wait, At, IInv, HandlerInv
  <2>2. Head(stack) = f /\ DOMAIN stack = {1} /\ stack[1] = f
    BY <2>1
  <2>3. ~ (f.vector = IRQ1 /\ f.at \in {"eoi", "dispatch"})
    BY <2>2
  <2>4. ASSUME NEW place \in {"dispatch", "iret"}, Goto(place), f.vector # IRQ1,
               irr' = irr, out' = out
        PROVE  Silent'
    <3>1. PICK g \in Frames : stack' = <<g>> /\ g.vector = f.vector
      BY <2>1, <2>2, <2>4, GotoFrame
    <3>2. QED  BY <2>4, <3>1
  <2>5. ASSUME NEW v \in {IRQ0, IRQ1}, Eoi(v) \/ NoHandler(v) PROVE Silent'
    <3>1. f.vector = v /\ f.at \in {"eoi", "dispatch"}
      BY <2>2, <2>5 DEF Eoi, NoHandler, At
    <3>2. QED  BY <2>3, <2>4, <2>5, <3>1 DEF Eoi, NoHandler, pic
  <2>6. ASSUME NEW v \in {IRQ0, IRQ1}, Iret(v) PROVE Silent'
    <3>1. stack' = <<>>
      BY <2>1, <2>6 DEF Iret
    <3>2. QED  BY <2>6, <3>1 DEF Iret, pic
  <2>7. CASE timer_callback
    <3>1. f.vector = IRQ0
      BY <2>2, <2>7 DEF timer_callback, At
    <3>2. QED  BY <2>4, <2>7, <3>1 DEF timer_callback, pic
  <2>8. CASE keyboard_callback
    BY <2>2, <2>3, <2>8 DEF keyboard_callback, At
  <2>9. CASE timer_wait
    <3>1. irr' = irr /\ out' = out
      BY <2>9 DEF timer_wait, pic
    <3>2. stack' = stack \/ Goto("iret")
      BY <2>9 DEF timer_wait
    <3>3. CASE Goto("iret")
      <4>1. PICK g \in Frames : stack' = <<g>> /\ g.at = "iret"
        BY <2>1, <3>3, GotoFrame
      <4>2. QED  BY <3>1, <4>1
    <3>4. QED  BY <3>1, <3>2, <3>3
  <2>10. QED  BY <1>5, <2>5, <2>6, <2>7, <2>8, <2>9 DEF Handler
<1>6. QED  BY <1>1, <1>2, <1>3, <1>4, <1>5 DEF Next

(* A command that waits for a tick to come never returns, whatever the tick *)
(* rate, the number of ticks and what the user types: its handler runs with *)
(* interrupts disabled, so neither a tick nor a Ctrl+C reaches it.          *)
THEOREM SleepHangsForever == Spec => [](Hangs => []Hangs)
  BY HangsStep, InductiveInvariant, PTL DEF Spec

(* A byte that lost its interrupt silences the keyboard for good: the       *)
(* controller raises no other before the byte is read.                      *)
THEOREM SilenceIsFinal == Spec => [](Silent => []Silent)
  BY SilentStep, InductiveInvariant, PTL DEF Spec
=============================================================================
