----------------------------- MODULE TaskProofs -----------------------------
(***************************************************************************)
(* Proofs about the scheduler: its invariants hold for any number of task   *)
(* slots, any width of the tick counter and any sleep durations, with every *)
(* interleaving of task_exit's steps with the interrupt handlers; a READY   *)
(* task's turn comes nearer with every change of the current task; and the  *)
(* last tick before the counter wraps wakes every sleeper.                  *)
(***************************************************************************)
EXTENDS Task, WellFoundedInduction, TLAPS

USE DEF locals

IInv ==
    /\ TypeOK
    /\ OneRunning
    /\ KernelRunnable
    /\ CurrentIsOnCpu
    /\ ContextInv
    /\ CpuInv

-----------------------------------------------------------------------------
(* A nonempty set of naturals has a least element. *)
LEMMA LeastNatural ==
    ASSUME NEW T, T \subseteq Nat, T # {}
    PROVE  \E x \in T : \A y \in T : x <= y
<1> DEFINE Less == {ss \in Nat \X Nat : ss[1] < ss[2]}
<1>1. OpToRel(<, Nat) = Less
  BY Zenon DEF OpToRel
<1>2. IsWellFoundedOn(Less, Nat)
  BY <1>1, NatLessThanWellFounded, Zenon
<1>3. PICK x \in T : \A y \in T : <<y, x>> \notin Less
  BY <1>2, WFMin, Zenon
<1>4. ASSUME NEW y \in T PROVE x <= y
  <2>1. x \in Nat /\ y \in Nat
    OBVIOUS
  <2>2. y < x => <<y, x>> \in Less
    BY <2>1
  <2>3. QED  BY <2>1, <2>2, <1>3
<1>5. QED
  BY <1>4

(* The remainder of a number below the modulus, and of one a modulus above. *)
LEMMA ModFacts ==
    ASSUME NEW n \in Nat \ {0}, NEW k \in 0 .. n - 1
    PROVE  k % n = k /\ (k + n) % n = k
  OBVIOUS

(* Every slot is reached by the scan of find_next_task. *)
LEMMA ScanReachesAll ==
    ASSUME current_task \in Slots, NEW k \in Slots
    PROVE  \E i \in 1 .. MAX_TASKS : After(i) = k
<1>1. CASE k > current_task
  <2>1. k - current_task \in 1 .. MAX_TASKS /\ After(k - current_task) = k
    BY <1>1, MaxTasksAssumption, ModFacts DEF Slots, After
  <2>2. QED  BY <2>1
<1>2. CASE k <= current_task
  <2>1. k - current_task + MAX_TASKS \in 1 .. MAX_TASKS
    BY <1>2, MaxTasksAssumption DEF Slots
  <2>2. current_task + (k - current_task + MAX_TASKS) = k + MAX_TASKS
    BY MaxTasksAssumption DEF Slots
  <2>3. After(k - current_task + MAX_TASKS) = k
    BY <2>2, MaxTasksAssumption, ModFacts DEF Slots, After
  <2>4. QED  BY <2>1, <2>3
<1>3. QED  BY <1>1, <1>2, MaxTasksAssumption DEF Slots

LEMMA AfterIsSlot ==
    ASSUME current_task \in Slots, NEW i \in 1 .. MAX_TASKS
    PROVE  After(i) \in Slots
  BY MaxTasksAssumption DEF Slots, After

(* find_next_task returns a READY slot when there is one. *)
LEMMA FindNextReady ==
    ASSUME current_task \in Slots, NEW st, NEW k \in Slots, st[k] = "READY"
    PROVE  find_next_task(st) \in Slots /\ st[find_next_task(st)] = "READY"
<1> DEFINE T == {i \in 1 .. MAX_TASKS : st[After(i)] = "READY"}
<1>1. T \subseteq Nat /\ T # {}
  BY ScanReachesAll, MaxTasksAssumption
<1>2. PICK x \in T : \A y \in T : x <= y
  BY <1>1, LeastNatural
<1>3. \A j \in 1 .. x - 1 : st[After(j)] # "READY"
  <2>1. SUFFICES ASSUME NEW j \in 1 .. x - 1, st[After(j)] = "READY" PROVE FALSE
    OBVIOUS
  <2>2. j \in T
    BY <2>1, <1>1, MaxTasksAssumption
  <2>3. QED  BY <2>1, <2>2, <1>2, <1>1, MaxTasksAssumption
<1> DEFINE First(i) == st[After(i)] = "READY" /\ \A j \in 1 .. i - 1 : st[After(j)] # "READY"
<1>4. \E i \in 1 .. MAX_TASKS : First(i)
  BY <1>2, <1>3
<1>5. (CHOOSE i \in 1 .. MAX_TASKS : First(i)) \in 1 .. MAX_TASKS
        /\ First(CHOOSE i \in 1 .. MAX_TASKS : First(i))
  BY <1>4
<1>6. find_next_task(st) = After(CHOOSE i \in 1 .. MAX_TASKS : First(i))
  BY <1>4 DEF find_next_task
<1>7. QED
  BY <1>5, <1>6, AfterIsSlot

-----------------------------------------------------------------------------
(***************************************************************************)
(* A context switch in two halves.  Between them no thread is on the CPU:   *)
(* the table s, the saved contexts r and the places p satisfy Parked.       *)
(***************************************************************************)
LeavingIn(s, r, p, l, t, i) ==
    /\ p[t] \in {"x_running", "x_switch"}
    /\ l[t] = i /\ i # t /\ t # 0
    /\ s[t] = "DEAD" /\ r[t] = Stale

LiveIn(s, r, p, l, i) ==
    \/ r[i] = Entry /\ i # 0
    \/ r[i] = i /\ p[i] \in {"run", "jmp_irq"}
    \/ r[i] \in Slots \ {i} /\ LeavingIn(s, r, p, l, r[i], i)

Parked(s, r, p, l) ==
    /\ s \in [Slots -> States]
    /\ r \in [Slots -> Slots \cup {Entry, Stale}]
    /\ p \in [Slots -> Pcs]
    /\ \A i, j \in Slots : r[i] \in Slots /\ r[i] = r[j] => i = j
    /\ \A i \in Slots : LiveIn(s, r, p, l, i) => \A j \in Slots \ {i} : r[j] # i
    /\ \A i \in Slots : s[i] \in {"READY", "SLEEPING"} => LiveIn(s, r, p, l, i)
    /\ \A i \in Slots : s[i] = "UNUSED" => \A j \in Slots : r[j] # i
    /\ p[0] = "run" /\ r[0] # Entry

LEMMA LiveContextIsLiveIn ==
    ASSUME NEW i PROVE LiveContext(i) <=> LiveIn(state, regs, pc, local, i)
  BY DEF LiveContext, Leaving, LiveIn, LeavingIn

LEMMA LiveContextIsLiveInPrime ==
    ASSUME NEW i PROVE LiveContext(i)' <=> LiveIn(state', regs', pc', local', i)
  BY DEF LiveContext, Leaving, LiveIn, LeavingIn

LEMMA SlotsDistinct == /\ 0 \in Slots
                       /\ Entry \notin Slots /\ Stale \notin Slots /\ Wild \notin Slots
                       /\ Entry # Stale /\ Entry # Wild /\ Stale # Wild
  BY MaxTasksAssumption DEF Slots, Entry, Stale, Wild

(* The second half: resuming slot next restores the invariant. *)
LEMMA Resume ==
    ASSUME NEW s, NEW r, NEW p, NEW next \in Slots,
           Parked(s, r, p, local),
           LiveIn(s, r, p, local, next) \/ r[next] = Stale,
           \A j \in Slots \ {next} : r[j] # next,
           s[next] # "UNUSED",
           state' \in [Slots -> States],
           state'[next] \in {"RUNNING", "DEAD"},
           \A i \in Slots \ {next} : state'[i] = s[i],
           current_task' = next,
           \A t \in Slots : p[t] \in {"x_running", "x_switch"} /\ r[t] = Stale
                => local'[t] = local[t],
           IF r[next] = Entry
           THEN cpu' = next /\ pc' = [p EXCEPT ![next] = "jmp"] /\ regs' = r
           ELSE /\ cpu' = IF r[next] = Stale THEN Wild ELSE r[next]
                /\ pc' = p
                /\ regs' = [r EXCEPT ![next] = Stale]
    PROVE  CurrentIsOnCpu' /\ ContextInv' /\ CpuInv'
<1> USE SlotsDistinct
<1> DEFINE L(i) == LiveIn(s, r, p, local, i)
           LP(i) == LiveIn(state', regs', pc', local', i)
<1>0. /\ s \in [Slots -> States] /\ r \in [Slots -> Slots \cup {Entry, Stale}]
      /\ p \in [Slots -> Pcs]
  BY DEF Parked
<1>1. /\ regs' \in [Slots -> Slots \cup {Entry, Stale}] /\ pc' \in [Slots -> Pcs]
      /\ \A i \in Slots \ {next} : regs'[i] = r[i] /\ pc'[i] = p[i]
      /\ \A i \in Slots : regs'[i] \in {r[i], Stale}
      /\ regs'[next] \in {Entry, Stale}
  BY <1>0 DEF Pcs
<1>2. \A i \in Slots \ {next} : LP(i) <=> L(i)
  <2>1. TAKE i \in Slots \ {next}
  <2>2. r[i] # next
    OBVIOUS
  <2>3. QED
    BY <1>0, <1>1, <2>2 DEF LiveIn, LeavingIn
<1>3. LP(next) => r[next] = Entry
  BY <1>0, <1>1 DEF LiveIn, LeavingIn
<1>4. \A i, j \in Slots : regs'[i] \in Slots /\ regs'[i] = regs'[j] => i = j
  BY <1>0, <1>1 DEF Parked
<1>5. \A i \in Slots : regs'[i] # cpu'
  BY <1>0, <1>1 DEF Parked
<1>6. \A i \in Slots : LP(i) => \A j \in Slots \ {i} : regs'[j] # i
  BY <1>0, <1>1, <1>2, <1>3 DEF Parked
<1>7. \A i \in Slots : state'[i] \in {"READY", "SLEEPING"} => LP(i)
  BY <1>0, <1>2 DEF Parked
<1>8. \A i \in Slots : state'[i] = "UNUSED" =>
          cpu' # i /\ (\A j \in Slots \ {i} : regs'[j] # i) /\ regs'[i] # i
  BY <1>0, <1>1 DEF Parked
<1>9. ContextInv'
  BY <1>4, <1>5, <1>6, <1>7, <1>8, LiveContextIsLiveInPrime DEF ContextInv, HeldOnlyBy
<1>10. pc'[0] = "run" /\ regs'[0] # Entry
  BY <1>0, <1>1 DEF Parked, LiveIn
<1>11. CASE r[next] = Entry
  BY <1>0, <1>1, <1>9, <1>10, <1>11 DEF CurrentIsOnCpu, CpuInv, CpuKnown, InExit
<1>12. CASE r[next] = Stale
  BY <1>0, <1>1, <1>9, <1>10, <1>12 DEF CurrentIsOnCpu, CpuInv, CpuKnown
<1>13. CASE r[next] = next /\ p[next] \in {"run", "jmp_irq"}
  BY <1>0, <1>1, <1>9, <1>10, <1>13 DEF CurrentIsOnCpu, CpuInv, CpuKnown, InExit
<1>14. CASE r[next] \in Slots \ {next} /\ LeavingIn(s, r, p, local, r[next], next)
  BY <1>0, <1>1, <1>9, <1>10, <1>14 DEF CurrentIsOnCpu, CpuInv, CpuKnown, Leaving, LeavingIn, HeldOnlyBy, InExit
<1>15. QED
  BY <1>9, <1>11, <1>12, <1>13, <1>14 DEF LiveIn

(* What task_schedule's caller has done to the table before it, relative to *)
(* the state the invariant speaks of, and where the caller goes on.         *)
Caller(st, at) ==
    /\ st \in [Slots -> States] /\ st[current_task] # "UNUSED"
    /\ \A i \in Slots \ {current_task} :
          st[i] = state[i] \/ {st[i], state[i]} \subseteq {"READY", "SLEEPING"}
    /\ st[0] \in {"READY", "RUNNING"} /\ (st[0] = "READY" \/ current_task = 0)
    /\ cpu = 0 => at = "run"
    /\ \/ at \in {"run", "jmp_irq"} /\ cpu = current_task
       \/ /\ at \in InExit
          /\ cpu = current_task /\ st[current_task] = "DEAD"
       \/ at \in {"x_running", "x_switch"} /\ at = pc[cpu]

(* The first half: saving the current context parks the thread on the CPU.  *)
LEMMA Save ==
    ASSUME IInv, CpuKnown, NEW st, NEW at \in Pcs, Caller(st, at)
    PROVE  /\ Parked(Descheduled(st), SavedRegs(current_task), [pc EXCEPT ![cpu] = at], local)
           /\ \A j \in Slots \ {current_task} : SavedRegs(current_task)[j] # current_task
<1> USE SlotsDistinct
<1> DEFINE s == Descheduled(st)
           r == SavedRegs(current_task)
           p == [pc EXCEPT ![cpu] = at]
           L(i) == LiveIn(s, r, p, local, i)
<1>1. /\ cpu \in Slots /\ current_task \in Slots /\ regs \in [Slots -> Slots \cup {Entry, Stale}]
      /\ pc \in [Slots -> Pcs] /\ state \in [Slots -> States] /\ st \in [Slots -> States]
  BY DEF IInv, TypeOK, CpuKnown, Caller
<1>2. /\ s \in [Slots -> States] /\ r \in [Slots -> Slots \cup {Entry, Stale}] /\ p \in [Slots -> Pcs]
      /\ r[current_task] = cpu
      /\ \A i \in Slots \ {current_task} : s[i] = st[i] /\ r[i] = regs[i]
      /\ p[cpu] = at /\ \A i \in Slots \ {cpu} : p[i] = pc[i]
      /\ s[current_task] # "UNUSED" /\ (st[current_task] = "DEAD" => s[current_task] = "DEAD")
  BY <1>1 DEF Descheduled, SavedRegs, States, Caller
<1>3. /\ \A i \in Slots : regs[i] # cpu
      /\ \A i, j \in Slots : regs[i] \in Slots /\ regs[i] = regs[j] => i = j
      /\ \A i \in Slots : LiveContext(i) => HeldOnlyBy(i)
      /\ \A i \in Slots : state[i] \in {"READY", "SLEEPING"} => LiveContext(i)
      /\ \A i \in Slots : state[i] = "UNUSED" => cpu # i /\ HeldOnlyBy(i) /\ regs[i] # i
  BY DEF IInv, ContextInv
<1>4. /\ regs[cpu] = Stale \/ (regs[cpu] = Entry /\ pc[cpu] \in {"jmp", "jmp_irq"})
      /\ pc[cpu] \in {"run", "jmp", "jmp_irq"} => current_task = cpu
      /\ pc[cpu] \in {"x_running", "x_switch"} =>
            Leaving(cpu, current_task) /\ HeldOnlyBy(current_task)
      /\ pc[0] = "run" /\ regs[0] # Entry
  BY DEF IInv, CpuInv, CurrentIsOnCpu
<1>5. \A j \in Slots \ {current_task} : r[j] # current_task
  BY <1>1, <1>2, <1>3, <1>4 DEF Caller, HeldOnlyBy
<1>6. \A i \in Slots \ {current_task} : st[i] = "DEAD" <=> state[i] = "DEAD"
  BY <1>1 DEF Caller
<1>7. \A i \in Slots \ {current_task} : LiveContext(i) <=> L(i)
  <2>1. SUFFICES ASSUME NEW i \in Slots \ {current_task} PROVE LiveContext(i) <=> L(i)
    OBVIOUS
  <2>2. r[i] = regs[i] /\ regs[i] # cpu /\ regs[i] # current_task
    BY <1>1, <1>2, <1>3, <1>5
  <2>3. regs[i] \in Slots => /\ p[regs[i]] = pc[regs[i]] /\ r[regs[i]] = regs[regs[i]]
                             /\ s[regs[i]] = "DEAD" <=> state[regs[i]] = "DEAD"
    BY <1>1, <1>2, <1>6, <2>2
  <2>4. QED
    BY <2>2, <2>3 DEF LiveContext, Leaving, LiveIn, LeavingIn
<1>8. \A i \in Slots : L(i) => \A j \in Slots \ {i} : r[j] # i
  <2>1. SUFFICES ASSUME NEW i \in Slots \ {current_task}, L(i) PROVE \A j \in Slots \ {i} : r[j] # i
    BY <1>5
  <2>2. LiveContext(i) /\ HeldOnlyBy(i)
    BY <2>1, <1>7, <1>3
  <2>3. cpu # i
    BY <2>2, <1>1, <1>3, <1>4 DEF LiveContext
  <2>4. QED
    BY <2>2, <2>3, <1>2 DEF HeldOnlyBy
<1>9. \A i \in Slots : s[i] \in {"READY", "SLEEPING"} => L(i)
  <2>1. \A i \in Slots \ {current_task} : s[i] \in {"READY", "SLEEPING"} => L(i)
    BY <1>2, <1>3, <1>7 DEF Caller
  <2>2. s[current_task] \in {"READY", "SLEEPING"} => L(current_task)
    <3>1. CASE at \in {"run", "jmp_irq"} /\ cpu = current_task
      BY <3>1, <1>2 DEF LiveIn
    <3>2. CASE st[current_task] = "DEAD"
      BY <3>2, <1>2
    <3>3. CASE at \in {"x_running", "x_switch"} /\ at = pc[cpu]
      BY <3>3, <1>1, <1>2, <1>4, <1>6 DEF LiveIn, LeavingIn, Leaving
    <3>4. QED  BY <3>1, <3>2, <3>3 DEF Caller
  <2>3. QED  BY <2>1, <2>2
<1>10. \A i \in Slots : s[i] = "UNUSED" => \A j \in Slots : r[j] # i
  BY <1>1, <1>2, <1>3 DEF Caller, HeldOnlyBy
<1>11. \A i, j \in Slots : r[i] \in Slots /\ r[i] = r[j] => i = j
  BY <1>1, <1>2, <1>3
<1>12. p[0] = "run" /\ r[0] # Entry
  BY <1>1, <1>2, <1>4 DEF Caller
<1>13. QED
  BY <1>2, <1>5, <1>8, <1>9, <1>10, <1>11, <1>12 DEF Parked

LEMMA WakeDueFacts ==
    ASSUME NEW st \in [Slots -> States], NEW wt, NEW now
    PROVE  /\ WakeDue(st, wt, now) \in [Slots -> States]
           /\ \A i \in Slots : \/ WakeDue(st, wt, now)[i] = st[i]
                               \/ WakeDue(st, wt, now)[i] = "READY" /\ st[i] = "SLEEPING"
  BY DEF WakeDue, States

(* A READY slot exists whenever the current task does not keep the CPU. *)
LEMMA FindNextFindsReady ==
    ASSUME current_task \in Slots, NEW st \in [Slots -> States],
           st[0] \in {"READY", "RUNNING"}, st[0] = "READY" \/ current_task = 0,
           ~ KeepsCpu(st, find_next_task(st))
    PROVE  find_next_task(st) \in Slots /\ st[find_next_task(st)] = "READY"
<1>1. CASE \E i \in Slots : st[i] = "READY"
  BY <1>1, FindNextReady
<1>2. CASE \A i \in Slots : st[i] # "READY"
  <2>1. current_task = 0 /\ st[0] = "RUNNING"
    BY <1>2, SlotsDistinct
  <2>2. \A i \in 1 .. MAX_TASKS : st[After(i)] # "READY"
    BY <1>2, AfterIsSlot
  <2>3. find_next_task(st) = current_task
    BY <2>1, <2>2 DEF find_next_task
  <2>4. QED
    BY <2>1, <2>3 DEF KeepsCpu
<1>3. QED  BY <1>1, <1>2

(* The CPU keeps its thread, which moves on from an interrupted jmp at most; *)
(* sleepers are woken.                                                      *)
LEMMA Stay ==
    ASSUME IInv, CpuKnown, NEW at \in Pcs,
           state' \in [Slots -> States],
           \A i \in Slots : state'[i] = state[i] \/ (state[i] = "SLEEPING" /\ state'[i] = "READY"),
           pc' = [pc EXCEPT ![cpu] = at],
           at = pc[cpu] \/ (pc[cpu] = "jmp" /\ at = "jmp_irq"),
           state' = state \/ state[current_task] = "RUNNING",
           UNCHANGED <<current_task, cpu, regs, local>>
    PROVE  OneRunning' /\ KernelRunnable' /\ CurrentIsOnCpu' /\ ContextInv' /\ CpuInv'
<1> USE SlotsDistinct
<1>1. /\ cpu \in Slots /\ current_task \in Slots /\ regs \in [Slots -> Slots \cup {Entry, Stale}]
      /\ pc \in [Slots -> Pcs] /\ state \in [Slots -> States]
  BY DEF IInv, TypeOK, CpuKnown
<1>2. \A i \in Slots : LiveContext(i)' <=> LiveContext(i)
  <2>1. \A t \in Slots : t # cpu => pc'[t] = pc[t]
    BY <1>1
  <2>2. \A i \in Slots : regs[i] # cpu
    BY DEF IInv, ContextInv
  <2>3. \A t \in Slots : state'[t] = "DEAD" <=> state[t] = "DEAD"
    OBVIOUS
  <2>4. QED
    BY <1>1, <2>1, <2>2, <2>3 DEF LiveContext, Leaving
<1>3. OneRunning' /\ KernelRunnable'
  BY <1>1 DEF IInv, OneRunning, KernelRunnable
<1>4. ContextInv'
  BY <1>1, <1>2 DEF IInv, ContextInv, HeldOnlyBy
<1>5. CurrentIsOnCpu' /\ CpuInv'
  <2>1. pc'[cpu] = at /\ (at = pc[cpu] \/ (pc[cpu] = "jmp" /\ at = "jmp_irq"))
    BY <1>1
  <2>2. CurrentIsOnCpu'
    BY <1>1, <2>1 DEF IInv, CurrentIsOnCpu, CpuKnown
  <2>3. pc'[0] = "run" /\ regs'[0] # Entry
    BY <1>1, <2>1 DEF IInv, CpuInv
  <2>4. (pc[cpu] \in {"x_running", "x_switch"} => Leaving(cpu, current_task))
          => (pc[cpu] \in {"x_running", "x_switch"} => Leaving(cpu, current_task)')
    BY <1>1, <2>1 DEF Leaving
  <2>5. local[cpu] \in Slots => (LiveContext(local[cpu])' <=> LiveContext(local[cpu]))
    BY <1>2
  <2>6. LiveContext(current_task)' <=> LiveContext(current_task)
    BY <1>1, <1>2
  <2>7. state[current_task] \in {"READY", "RUNNING", "DEAD"} => state'[current_task] = state[current_task]
    BY <1>1
  <2>8. pc[cpu] = "x_ready" => state' = state
    BY DEF IInv, CpuInv, InExit
  <2>9. QED
    BY <1>1, <2>1, <2>2, <2>3, <2>4, <2>5, <2>6, <2>7, <2>8
       DEF IInv, CpuInv, CpuKnown, HeldOnlyBy, InExit
<1>6. QED  BY <1>3, <1>4, <1>5

(* task_schedule keeps the invariant, whoever calls it. *)
LEMMA ScheduleInv ==
    ASSUME IInv, CpuKnown, NEW st, NEW wt, NEW now, NEW at \in Pcs,
           Caller(st, at),
           \A i \in Slots \ {current_task} : st[i] = state[i],
           st[current_task] = "RUNNING" => state[current_task] = "RUNNING",
           at = pc[cpu] \/ (pc[cpu] = "jmp" /\ at = "jmp_irq"),
           local' = local \/ local' = Dropped(local),
           task_schedule(st, wt, now, at)
    PROVE  /\ state' \in [Slots -> States] /\ regs' \in [Slots -> Slots \cup {Entry, Stale}]
           /\ current_task' \in Slots /\ cpu' \in Slots \cup {Wild} /\ pc' \in [Slots -> Pcs]
           /\ OneRunning' /\ KernelRunnable' /\ CurrentIsOnCpu' /\ ContextInv' /\ CpuInv'
<1> USE SlotsDistinct
<1> DEFINE woken == WakeDue(st, wt, now)
           next == find_next_task(woken)
<1>1. /\ cpu \in Slots /\ current_task \in Slots /\ regs \in [Slots -> Slots \cup {Entry, Stale}]
      /\ pc \in [Slots -> Pcs] /\ state \in [Slots -> States] /\ st \in [Slots -> States]
      /\ local \in [Slots -> Int]
  BY DEF IInv, TypeOK, CpuKnown, Caller
<1>2. /\ woken \in [Slots -> States]
      /\ \A i \in Slots : woken[i] = st[i] \/ (woken[i] = "READY" /\ st[i] = "SLEEPING")
  BY <1>1, WakeDueFacts
<1>3. woken[0] \in {"READY", "RUNNING"} /\ (woken[0] = "READY" \/ current_task = 0)
  BY <1>2 DEF Caller
<1>4. Caller(woken, at)
  BY <1>1, <1>2, <1>3 DEF Caller
<1>5. CASE KeepsCpu(woken, next)
  <2>1. /\ state' = woken /\ pc' = [pc EXCEPT ![cpu] = at]
        /\ UNCHANGED <<current_task, cpu, regs>>
    BY <1>5 DEF task_schedule
  <2>2. woken[current_task] = "RUNNING"
    BY <1>5 DEF KeepsCpu
  <2>3. st[current_task] = "RUNNING" /\ state[current_task] = "RUNNING"
    BY <1>1, <1>2, <2>2
  <2>4. \A i \in Slots : woken[i] = state[i] \/ (state[i] = "SLEEPING" /\ woken[i] = "READY")
    BY <1>2, <2>3
  <2> HIDE DEF woken, next
  <2>5. OneRunning' /\ KernelRunnable' /\ CurrentIsOnCpu' /\ ContextInv' /\ CpuInv'
    <3>1. local' = local
      BY <2>1 DEF Dropped
    <3>2. QED  BY <1>2, <2>1, <2>3, <2>4, <3>1, Stay
  <2>6. QED  BY <1>1, <1>2, <2>1, <2>5
<1>6. CASE ~ KeepsCpu(woken, next)
  <2> DEFINE s == Descheduled(woken)
             r == SavedRegs(current_task)
             p == [pc EXCEPT ![cpu] = at]
  <2>1. next \in Slots /\ woken[next] = "READY"
    BY <1>1, <1>2, <1>3, <1>6, FindNextFindsReady
  <2>2. /\ state' = Dispatched(woken, next) /\ current_task' = next
        /\ switch_context(current_task, next, at)
    BY <1>6 DEF task_schedule
  <2>3. /\ Parked(s, r, p, local)
        /\ \A j \in Slots \ {current_task} : r[j] # current_task
    BY <1>4, Save
  <2>4. s \in [Slots -> States] /\ s[next] = "READY"
    BY <1>1, <1>2, <2>1 DEF Descheduled, States
  <2>5. state' = [s EXCEPT ![next] = "RUNNING"]
    BY <2>2 DEF Dispatched
  <2>6. LiveIn(s, r, p, local, next) /\ \A j \in Slots \ {next} : r[j] # next
    BY <2>1, <2>3, <2>4 DEF Parked
  <2>7. IF r[next] = Entry
        THEN cpu' = next /\ pc' = [p EXCEPT ![next] = "jmp"] /\ regs' = r
        ELSE /\ cpu' = IF r[next] = Stale THEN Wild ELSE r[next]
             /\ pc' = p
             /\ regs' = [r EXCEPT ![next] = Stale]
    BY <2>2 DEF switch_context
  <2>8. state' \in [Slots -> States] /\ state'[next] = "RUNNING"
          /\ \A i \in Slots \ {next} : state'[i] = s[i]
    BY <2>1, <2>4, <2>5 DEF States
  <2>9. CurrentIsOnCpu' /\ ContextInv' /\ CpuInv'
    <3>1. s[next] # "UNUSED" /\ state'[next] \in {"RUNNING", "DEAD"}
      BY <2>4, <2>8
    <3>3. \A t \in Slots : p[t] \in {"x_running", "x_switch"} /\ r[t] = Stale
              => local'[t] = local[t]
      BY <1>1 DEF Dropped, Caller, InExit
    <3> HIDE DEF s, r, p, next
    <3>2. QED
      BY <1>1, <2>1, <2>2, <2>3, <2>6, <2>7, <2>8, <3>1, <3>3, Resume
  <2>10. OneRunning'
    <3>1. \A i \in Slots : s[i] # "RUNNING"
      BY <1>1, <1>2 DEF IInv, OneRunning, Descheduled
    <3>2. QED  BY <2>2, <2>8, <3>1 DEF OneRunning
  <2>11. KernelRunnable'
    BY <1>1, <1>2, <1>3, <2>1, <2>2, <2>8 DEF KernelRunnable, Descheduled
  <2>12. /\ regs' \in [Slots -> Slots \cup {Entry, Stale}] /\ current_task' \in Slots
         /\ cpu' \in Slots \cup {Wild} /\ pc' \in [Slots -> Pcs]
    BY <2>1, <2>2, <2>3, <2>7 DEF Parked, Pcs
  <2>13. QED  BY <2>8, <2>9, <2>10, <2>11, <2>12
<1>7. QED  BY <1>5, <1>6

-----------------------------------------------------------------------------
(***************************************************************************)
(* One lemma per action.                                                    *)
(***************************************************************************)
LEMMA Types ==
    ASSUME TypeOK, CpuKnown
    PROVE  /\ cpu \in Slots /\ current_task \in Slots
           /\ regs \in [Slots -> Slots \cup {Entry, Stale}]
           /\ pc \in [Slots -> Pcs] /\ state \in [Slots -> States]
           /\ local \in [Slots -> Int] /\ wake_tick \in [Slots -> 0 .. TICK_MOD - 1]
           /\ seen_tick \in [Slots -> 0 .. TICK_MOD - 1]
           /\ tick_count \in 0 .. TICK_MOD - 1 /\ task_count_val \in Int
           /\ preempt_enabled \in BOOLEAN
  BY DEF TypeOK, CpuKnown

LEMMA TickTypes ==
    /\ tick_count \in Nat => (tick_count + 1) % TICK_MOD \in 0 .. TICK_MOD - 1
    /\ \A ticks \in SLEEP_TICKS :
          tick_count \in Nat => (tick_count + ticks) % TICK_MOD \in 0 .. TICK_MOD - 1
  BY TickModAssumption, SleepTicksAssumption

LEMMA EnablePreemptInv == IInv /\ EnablePreempt => IInv'
<1> SUFFICES ASSUME IInv, EnablePreempt PROVE IInv'
  OBVIOUS
<1> USE SlotsDistinct DEF EnablePreempt
<1>1. CpuKnown /\ TypeOK
  BY DEF CpuKnown, IInv
<1>2. pc' = [pc EXCEPT ![cpu] = pc[cpu]] /\ pc[cpu] \in Pcs
  BY <1>1, Types
<1>3. OneRunning' /\ KernelRunnable' /\ CurrentIsOnCpu' /\ ContextInv' /\ CpuInv'
  BY <1>1, <1>2, Types, Stay
<1>4. TypeOK'
  BY <1>1 DEF TypeOK
<1>5. QED  BY <1>3, <1>4 DEF IInv

LEMMA TimerTickInv == IInv /\ TimerTick => IInv'
<1> SUFFICES ASSUME IInv, TimerTick PROVE IInv'
  OBVIOUS
<1> USE SlotsDistinct
<1> DEFINE at == IF pc[cpu] = "jmp" THEN "jmp_irq" ELSE pc[cpu]
<1>1. CpuKnown /\ TypeOK
  BY DEF TimerTick, IInv
<1>2. tick_count' \in 0 .. TICK_MOD - 1
  BY <1>1, Types, TickTypes, TickModAssumption DEF TimerTick
<1>3. at \in Pcs /\ (at = pc[cpu] \/ (pc[cpu] = "jmp" /\ at = "jmp_irq"))
  BY <1>1, Types DEF Pcs
<1>7. /\ local' = Dropped(local) /\ local' \in [Slots -> Int]
      /\ seen_tick' \in [Slots -> 0 .. TICK_MOD - 1]
  BY <1>1, Types, TickModAssumption DEF TimerTick, Dropped
<1>4. CASE PreemptDue(tick_count')
  <2>1. task_schedule(state, wake_tick, tick_count', at)
    BY <1>4 DEF TimerTick
  <2>2. state[current_task] # "UNUSED"
    BY <1>1, Types DEF IInv, CurrentIsOnCpu, CpuInv, Pcs, InExit
  <2>3. Caller(state, at)
    BY <1>1, <2>2, Types DEF Caller, IInv, KernelRunnable, CpuInv, CurrentIsOnCpu, Pcs, InExit, TimerTick
  <2>4. /\ state' \in [Slots -> States] /\ regs' \in [Slots -> Slots \cup {Entry, Stale}]
        /\ current_task' \in Slots /\ cpu' \in Slots \cup {Wild} /\ pc' \in [Slots -> Pcs]
        /\ OneRunning' /\ KernelRunnable' /\ CurrentIsOnCpu' /\ ContextInv' /\ CpuInv'
    <3> HIDE DEF at
    <3>1. QED  BY <1>1, <1>3, <1>7, <2>1, <2>3, ScheduleInv
  <2>5. TypeOK'
    BY <1>1, <1>2, <1>7, <2>4, Types DEF TypeOK, TimerTick
  <2>6. QED  BY <2>4, <2>5 DEF IInv
<1>5. CASE ~ PreemptDue(tick_count')
  <2>1. pc' = [pc EXCEPT ![cpu] = at] /\ UNCHANGED <<state, regs, current_task, cpu, local>>
    BY <1>5 DEF TimerTick, Dropped
  <2>2. OneRunning' /\ KernelRunnable' /\ CurrentIsOnCpu' /\ ContextInv' /\ CpuInv'
    <3> HIDE DEF at
    <3>1. QED  BY <1>1, <1>3, <2>1, Types, Stay
  <2>3. TypeOK'
    BY <1>1, <1>2, <1>3, <1>7, <2>1 DEF TypeOK, TimerTick
  <2>4. QED  BY <2>2, <2>3 DEF IInv
<1>6. QED  BY <1>4, <1>5

(* The three system calls, which differ in what they write before            *)
(* task_schedule.                                                           *)
LEMMA SyscallInv ==
    ASSUME IInv, InTask, NEW st, st \in {"RUNNING", "SLEEPING", "DEAD"} \/ st = state[cpu],
           task_schedule([state EXCEPT ![current_task] = st], wake_tick', tick_count, "run"),
           st = "RUNNING" => st = state[current_task],
           wake_tick' \in [Slots -> 0 .. TICK_MOD - 1], task_count_val' \in Int,
           UNCHANGED <<tick_count, preempt_enabled, locals>>
    PROVE  IInv'
<1> USE SlotsDistinct
<1> DEFINE t == [state EXCEPT ![current_task] = st]
<1>1. CpuKnown /\ TypeOK /\ pc[cpu] = "run" /\ cpu # 0 /\ "run" \in Pcs
  BY DEF InTask, IInv, CpuKnown, Pcs
<1>2. cpu = current_task /\ state[cpu] \in {"RUNNING", "DEAD"}
  BY <1>1 DEF IInv, CurrentIsOnCpu
<1>3. /\ t \in [Slots -> States] /\ t[current_task] = st
      /\ \A i \in Slots \ {current_task} : t[i] = state[i]
  BY <1>1, <1>2, Types DEF States
<1>4. Caller(t, "run")
  BY <1>1, <1>2, <1>3, Types DEF Caller, IInv, KernelRunnable
<1>5. /\ state' \in [Slots -> States] /\ regs' \in [Slots -> Slots \cup {Entry, Stale}]
      /\ current_task' \in Slots /\ cpu' \in Slots \cup {Wild} /\ pc' \in [Slots -> Pcs]
      /\ OneRunning' /\ KernelRunnable' /\ CurrentIsOnCpu' /\ ContextInv' /\ CpuInv'
  <2>1. t[current_task] = "RUNNING" => state[current_task] = "RUNNING"
    BY <1>3
  <2>2. task_schedule(t, wake_tick', tick_count, "run")
    OBVIOUS
  <2> HIDE DEF t
  <2>3. QED  BY <1>1, <1>3, <1>4, <2>1, <2>2, ScheduleInv
<1>6. TypeOK'
  BY <1>1, <1>5 DEF TypeOK
<1>7. QED  BY <1>5, <1>6 DEF IInv

LEMMA SyscallsInv == IInv /\ (task_yield \/ task_sleep_ticks \/ sys_exit) => IInv'
<1>1. ASSUME IInv, task_yield PROVE IInv'
  <2>1. CpuKnown /\ TypeOK /\ InTask
    BY <1>1, SlotsDistinct DEF task_yield, SystemCall, InTask, CpuKnown, IInv
  <2>2. cpu = current_task /\ state = [state EXCEPT ![current_task] = state[current_task]]
          /\ state[cpu] \in {"RUNNING", "DEAD"}
    BY <1>1, <2>1, Types DEF IInv, CurrentIsOnCpu, InTask
  <2>3. task_schedule([state EXCEPT ![current_task] = state[current_task]], wake_tick', tick_count, "run")
    BY <1>1, <2>2 DEF task_yield
  <2>4. QED
    BY <1>1, <2>1, <2>2, <2>3, Types, SyscallInv DEF task_yield
<1>2. ASSUME IInv, task_sleep_ticks PROVE IInv'
  <2>1. CpuKnown /\ TypeOK /\ InTask
    BY <1>2, SlotsDistinct DEF task_sleep_ticks, SystemCall, InTask, CpuKnown, IInv
  <2>2. wake_tick' \in [Slots -> 0 .. TICK_MOD - 1]
    BY <1>2, <2>1, Types, TickTypes, TickModAssumption DEF task_sleep_ticks, WakeTick
  <2>3. task_schedule([state EXCEPT ![current_task] = "SLEEPING"], wake_tick', tick_count, "run")
    BY <1>2 DEF task_sleep_ticks
  <2>4. UNCHANGED <<task_count_val, tick_count, preempt_enabled, locals>>
    BY <1>2 DEF task_sleep_ticks
  <2>5. task_count_val' \in Int /\ UNCHANGED <<tick_count, preempt_enabled, locals>>
    BY <2>1, <2>4, Types
  <2>6. QED
    BY <1>2, <2>1, <2>2, <2>3, <2>5, SyscallInv
<1>3. ASSUME IInv, sys_exit PROVE IInv'
  <2>1. CpuKnown /\ TypeOK /\ InTask
    BY <1>3, SlotsDistinct DEF sys_exit, SystemCall, InTask, CpuKnown, IInv
  <2>2. task_schedule([state EXCEPT ![current_task] = "DEAD"], wake_tick', tick_count, "run")
    BY <1>3 DEF sys_exit
  <2>3. /\ wake_tick' \in [Slots -> 0 .. TICK_MOD - 1] /\ task_count_val' \in Int
        /\ UNCHANGED <<tick_count, preempt_enabled, locals>>
    BY <1>3, <2>1, Types DEF sys_exit
  <2>4. QED
    BY <1>3, <2>1, <2>2, <2>3, SyscallInv
<1>4. QED  BY <1>1, <1>2, <1>3

LEMMA TaskCreateInv == IInv /\ task_create => IInv'
<1> SUFFICES ASSUME IInv, task_create PROVE IInv'
  OBVIOUS
<1> USE SlotsDistinct
<1>1. CpuKnown /\ TypeOK
  BY DEF task_create, IInv
<1>2. PICK slot \in Slots :
        /\ state[slot] = "UNUSED"
        /\ state' = [state EXCEPT ![slot] = "READY"]
        /\ wake_tick' = [wake_tick EXCEPT ![slot] = 0]
        /\ regs' = [regs EXCEPT ![slot] = Entry]
  BY DEF task_create
<1>3. UNCHANGED <<current_task, tick_count, preempt_enabled, cpu, pc, locals>>
        /\ task_count_val' = task_count_val + 1
  BY DEF task_create
<1>4. cpu # slot /\ HeldOnlyBy(slot) /\ regs[slot] # slot
  BY <1>2 DEF IInv, ContextInv
<1>5. current_task # slot /\ slot # 0 /\ (pc[cpu] \in {"x_ready", "x_current"} => local[cpu] # slot)
  BY <1>1, <1>2, <1>4, Types DEF IInv, CpuInv, CurrentIsOnCpu, KernelRunnable, Pcs, InExit
<1>6. /\ \A i \in Slots \ {slot} : state'[i] = state[i] /\ regs'[i] = regs[i]
      /\ state'[slot] = "READY" /\ regs'[slot] = Entry
      /\ state' \in [Slots -> States] /\ regs' \in [Slots -> Slots \cup {Entry, Stale}]
  BY <1>1, <1>2, Types DEF States
<1>7. \A i \in Slots \ {slot} : LiveContext(i)' <=> LiveContext(i)
  <2>1. TAKE i \in Slots \ {slot}
  <2>2. regs[i] # slot /\ regs'[i] = regs[i]
    BY <1>4, <1>6 DEF HeldOnlyBy
  <2>3. QED
    BY <1>3, <1>6, <2>2 DEF LiveContext, Leaving
<1>8. LiveContext(slot)' /\ \A j \in Slots : regs'[j] # slot
  BY <1>4, <1>5, <1>6 DEF LiveContext, HeldOnlyBy
<1>9. OneRunning' /\ KernelRunnable'
  BY <1>1, <1>3, <1>5, <1>6 DEF IInv, OneRunning, KernelRunnable
<1>10. ContextInv'
  <2>1. \A i, j \in Slots : regs'[i] \in Slots /\ regs'[i] = regs'[j] => i = j
    BY <1>1, <1>6, Types DEF IInv, ContextInv
  <2>2. \A i \in Slots : regs'[i] # cpu'
    BY <1>1, <1>3, <1>6, Types DEF IInv, ContextInv
  <2>3. \A i \in Slots : LiveContext(i)' => HeldOnlyBy(i)'
    BY <1>6, <1>7, <1>8 DEF IInv, ContextInv, HeldOnlyBy
  <2>4. \A i \in Slots : state'[i] \in {"READY", "SLEEPING"} => LiveContext(i)'
    BY <1>6, <1>7, <1>8 DEF IInv, ContextInv
  <2>5. \A i \in Slots : state'[i] = "UNUSED" => cpu' # i /\ HeldOnlyBy(i)' /\ regs'[i] # i
    BY <1>3, <1>6 DEF IInv, ContextInv, HeldOnlyBy
  <2>6. QED  BY <2>1, <2>2, <2>3, <2>4, <2>5 DEF ContextInv
<1>11. CurrentIsOnCpu'
  BY <1>1, <1>3, <1>4, <1>6, Types DEF IInv, CurrentIsOnCpu, CpuKnown
<1>12. CpuInv'
  <2>1. Leaving(cpu, current_task)' <=> Leaving(cpu, current_task)
    BY <1>1, <1>3, <1>4, <1>6, Types DEF Leaving
  <2>2. LiveContext(current_task)' <=> LiveContext(current_task)
    BY <1>1, <1>5, <1>7, <1>3, Types
  <2>3. pc[cpu] \in {"x_ready", "x_current"} /\ local[cpu] \in Slots
           => (LiveContext(local[cpu])' <=> LiveContext(local[cpu]))
    BY <1>5, <1>7, <1>3
  <2>4. HeldOnlyBy(current_task) => HeldOnlyBy(current_task)'
    BY <1>1, <1>3, <1>6, Types DEF HeldOnlyBy
  <2>5. regs'[cpu] = regs[cpu] /\ state'[cpu] = state[cpu]
          /\ regs'[current_task] = regs[current_task] /\ state'[current_task] = state[current_task]
          /\ regs'[0] = regs[0]
    BY <1>1, <1>4, <1>5, <1>6, Types
  <2>6. pc[cpu] \in {"x_ready", "x_current"} /\ local[cpu] \in Slots => state'[local[cpu]] = state[local[cpu]]
    BY <1>5, <1>6
  <2>7. QED
    BY <1>1, <1>3, <2>1, <2>2, <2>3, <2>4, <2>5, <2>6 DEF IInv, CpuInv, CpuKnown, InExit
<1>13. TypeOK'
  BY <1>1, <1>2, <1>3, <1>6, Types, TickModAssumption DEF TypeOK
<1>14. QED  BY <1>9, <1>10, <1>11, <1>12, <1>13 DEF IInv

LEMMA CmdKillInv == IInv /\ cmd_kill => IInv'
<1> SUFFICES ASSUME IInv, cmd_kill PROVE IInv'
  OBVIOUS
<1> USE SlotsDistinct
<1>1. CpuKnown /\ TypeOK
  BY DEF cmd_kill, IInv
<1>2. PICK id \in Slots : Killable(id) /\ state' = [state EXCEPT ![id] = "DEAD"]
  BY DEF cmd_kill
<1>3. UNCHANGED <<wake_tick, regs, current_task, task_count_val, tick_count, preempt_enabled, cpu, pc, locals>>
  BY DEF cmd_kill
<1>4. /\ \A i \in Slots \ {id} : state'[i] = state[i]
      /\ state'[id] = "DEAD" /\ id # 0 /\ state[id] \in {"READY", "RUNNING", "SLEEPING"}
      /\ state' \in [Slots -> States]
  BY <1>1, <1>2, Types DEF States, Killable
<1>5. \A i \in Slots \ {id} : regs[i] = id => regs[id] # Stale
  <2>1. SUFFICES ASSUME NEW i \in Slots \ {id}, regs[i] = id, regs[id] = Stale PROVE FALSE
    OBVIOUS
  <2>2. state[id] = "RUNNING"
    BY <1>1, <1>4, <2>1, Types DEF IInv, ContextInv, LiveContext
  <2>3. current_task = id /\ cpu # id
    BY <1>1, <2>1, <2>2, Types DEF IInv, OneRunning, ContextInv
  <2>4. QED
    BY <1>1, <2>1, <2>2, <2>3, Types DEF IInv, CurrentIsOnCpu, CpuInv, HeldOnlyBy, Pcs, InExit
<1>6. \A i \in Slots : LiveContext(i)' <=> LiveContext(i)
  <2>1. TAKE i \in Slots
  <2>2. \A t \in Slots \ {i} : regs[i] = t => (Leaving(t, i)' <=> Leaving(t, i))
    <3>1. TAKE t \in Slots \ {i}
    <3>2. CASE t = id
      BY <1>3, <1>4, <1>5, <3>2 DEF Leaving
    <3>3. CASE t # id
      BY <1>3, <1>4, <3>3 DEF Leaving
    <3>4. QED  BY <3>2, <3>3
  <2>3. QED
    BY <1>1, <1>3, <2>2, Types DEF LiveContext
<1>7. OneRunning' /\ KernelRunnable' /\ CurrentIsOnCpu'
  BY <1>1, <1>3, <1>4, Types DEF IInv, OneRunning, KernelRunnable, CurrentIsOnCpu, CpuKnown
<1>8. ContextInv'
  BY <1>1, <1>3, <1>4, <1>6, Types DEF IInv, ContextInv, HeldOnlyBy
<1>9. CpuInv'
  <2>1. Leaving(cpu, current_task) => Leaving(cpu, current_task)'
    BY <1>1, <1>3, <1>4, Types DEF Leaving
  <2>2. LiveContext(current_task)' <=> LiveContext(current_task)
    BY <1>1, <1>3, <1>6, Types
  <2>3. local[cpu] \in Slots => (LiveContext(local[cpu])' <=> LiveContext(local[cpu]))
    BY <1>3, <1>6
  <2>4. \A i \in Slots : state'[i] = state[i] \/ state'[i] = "DEAD"
    BY <1>4
  <2>5. HeldOnlyBy(current_task) => HeldOnlyBy(current_task)'
    BY <1>1, <1>3, Types DEF HeldOnlyBy
  <2>6. QED
    BY <1>1, <1>3, <2>1, <2>2, <2>3, <2>4, <2>5, Types DEF IInv, CpuInv, CpuKnown
<1>10. TypeOK'
  BY <1>1, <1>3, <1>4 DEF TypeOK
<1>11. QED  BY <1>7, <1>8, <1>9, <1>10 DEF IInv

LEMMA EnterTaskInv == IInv /\ EnterTask => IInv'
<1> SUFFICES ASSUME IInv, EnterTask PROVE IInv'
  OBVIOUS
<1> USE SlotsDistinct
<1>1. /\ CpuKnown /\ TypeOK /\ pc[cpu] \in {"jmp", "jmp_irq"}
      /\ UNCHANGED <<state, wake_tick, current_task, task_count_val, tick_count, preempt_enabled, locals>>
  BY DEF EnterTask, IInv
<1>2. current_task = cpu /\ state[cpu] \in {"RUNNING", "DEAD"} /\ cpu # 0
  BY <1>1 DEF IInv, CurrentIsOnCpu, CpuInv
<1>3. OneRunning' /\ KernelRunnable'
  BY <1>1 DEF IInv, OneRunning, KernelRunnable
<1>4. CASE regs[cpu] = Entry
  <2>1. /\ pc' = [pc EXCEPT ![cpu] = "run"] /\ regs' = [regs EXCEPT ![cpu] = Stale] /\ cpu' = cpu
    BY <1>4 DEF EnterTask
  <2>2. /\ \A i \in Slots \ {cpu} : pc'[i] = pc[i] /\ regs'[i] = regs[i]
        /\ pc'[cpu] = "run" /\ regs'[cpu] = Stale
        /\ pc' \in [Slots -> Pcs] /\ regs' \in [Slots -> Slots \cup {Entry, Stale}]
    BY <1>1, <2>1, Types DEF Pcs
  <2>3. \A i \in Slots \ {cpu} : LiveContext(i)' <=> LiveContext(i)
    <3>1. TAKE i \in Slots \ {cpu}
    <3>2. regs[i] # cpu
      BY DEF IInv, ContextInv
    <3>3. QED  BY <1>1, <2>2, <3>2 DEF LiveContext, Leaving
  <2>4. ~ LiveContext(cpu)'
    BY <1>1, <2>1, <2>2, Types DEF LiveContext
  <2>5. ContextInv'
    <3>1. \A i, j \in Slots : regs'[i] \in Slots /\ regs'[i] = regs'[j] => i = j
      BY <1>1, <2>2, Types DEF IInv, ContextInv
    <3>2. \A i \in Slots : regs'[i] # cpu'
      BY <1>1, <2>1, <2>2, Types DEF IInv, ContextInv
    <3>3. \A i \in Slots : LiveContext(i)' => HeldOnlyBy(i)'
      BY <1>1, <2>1, <2>2, <2>3, <2>4, Types DEF IInv, ContextInv, HeldOnlyBy
    <3>4. \A i \in Slots : state'[i] \in {"READY", "SLEEPING"} => LiveContext(i)'
      BY <1>1, <1>2, <2>3 DEF IInv, ContextInv
    <3>5. \A i \in Slots : state'[i] = "UNUSED" => cpu' # i /\ HeldOnlyBy(i)' /\ regs'[i] # i
      BY <1>1, <1>2, <2>1, <2>2 DEF IInv, ContextInv, HeldOnlyBy
    <3>6. QED  BY <3>1, <3>2, <3>3, <3>4, <3>5 DEF ContextInv
  <2>6. CurrentIsOnCpu' /\ CpuInv'
    BY <1>1, <1>2, <2>1, <2>2, Types DEF IInv, CurrentIsOnCpu, CpuInv, CpuKnown, InExit
  <2>7. TypeOK'
    BY <1>1, <2>1, <2>2 DEF TypeOK
  <2>8. QED  BY <1>3, <2>5, <2>6, <2>7 DEF IInv
<1>5. CASE regs[cpu] # Entry
  <2>1. cpu' = Wild /\ UNCHANGED <<pc, regs>>
    BY <1>5 DEF EnterTask
  <2>2. \A i : LiveContext(i)' <=> LiveContext(i)
    BY <1>1, <2>1 DEF LiveContext, Leaving
  <2>3. ContextInv'
    BY <1>1, <2>1, <2>2, Types DEF IInv, ContextInv, HeldOnlyBy
  <2>4. CurrentIsOnCpu' /\ CpuInv'
    BY <2>1 DEF IInv, CurrentIsOnCpu, CpuInv, CpuKnown
  <2>5. TypeOK'
    BY <1>1, <2>1 DEF TypeOK
  <2>6. QED  BY <1>3, <2>3, <2>4, <2>5 DEF IInv
<1>6. QED  BY <1>4, <1>5

(* The steps of task_exit before current_task = next touch no thread's       *)
(* execution: they move the thread on the CPU, whose slot is current and     *)
(* dead, and its registers, and may mark a task READY that has a context.    *)
LEMMA ExitStay ==
    ASSUME IInv, CpuKnown, current_task = cpu, regs[cpu] = Stale, cpu # 0,
           NEW label \in InExit, pc' = [pc EXCEPT ![cpu] = label],
           state' \in [Slots -> States], state'[cpu] = "DEAD",
           \A i \in Slots \ {cpu} :
               \/ state'[i] = state[i]
               \/ /\ state'[i] = "READY" /\ state[i] \in {"SLEEPING", "DEAD"}
                  /\ i # 0 /\ LiveContext(i),
           local' \in [Slots -> Int], \A t \in Slots \ {cpu} : local'[t] = local[t],
           seen_tick' \in [Slots -> 0 .. TICK_MOD - 1], task_count_val' \in Int,
           label \in {"x_wake", "x_ready"} => local'[cpu] \in Slots,
           label = "x_scan" => local'[cpu] \in 1 .. MAX_TASKS,
           label = "x_ready" =>
               /\ state'[local'[cpu]] \in {"SLEEPING", "DEAD"}
               /\ local'[cpu] # 0 /\ LiveContext(local'[cpu]),
           label = "x_current" =>
               /\ local'[cpu] \in Slots \ {cpu}
               /\ state'[local'[cpu]] \in {"READY", "DEAD"} /\ LiveContext(local'[cpu]),
           UNCHANGED <<wake_tick, regs, current_task, tick_count, preempt_enabled, cpu>>
    PROVE  IInv'
<1> USE SlotsDistinct
<1>1. TypeOK
  BY DEF IInv
<1>2. state[cpu] # "UNUSED"
  BY <1>1, Types DEF IInv, ContextInv
<1>3. /\ pc' \in [Slots -> Pcs] /\ pc'[cpu] = label
      /\ \A i \in Slots \ {cpu} : pc'[i] = pc[i]
  BY <1>1, Types DEF Pcs, InExit
<1>4. \A i \in Slots : LiveContext(i)' <=> LiveContext(i)
  <2>1. TAKE i \in Slots
  <2>2. regs[i] # cpu
    BY DEF IInv, ContextInv
  <2>3. \A t \in Slots \ {i, cpu} : regs[i] = t => (state'[t] = "DEAD" <=> state[t] = "DEAD")
    BY DEF IInv, ContextInv, HeldOnlyBy
  <2>4. QED  BY <1>1, <1>3, <2>2, <2>3, Types DEF LiveContext, Leaving
<1>5. OneRunning' /\ KernelRunnable'
  BY <1>1, Types DEF IInv, OneRunning, KernelRunnable
<1>6. ContextInv'
  <2>1. \A i \in Slots : state'[i] \in {"READY", "SLEEPING"} => LiveContext(i)'
    BY <1>4 DEF IInv, ContextInv
  <2>2. \A i \in Slots : state'[i] = "UNUSED" => state[i] = "UNUSED"
    BY <1>2
  <2>3. QED
    BY <1>1, <1>4, <2>1, <2>2, Types DEF IInv, ContextInv, HeldOnlyBy
<1>7. label \in {"x_ready", "x_current"} => LiveContext(local[cpu])'
  <2>1. SUFFICES ASSUME label \in {"x_ready", "x_current"} PROVE LiveContext(local[cpu])'
    OBVIOUS
  <2>2. PICK n \in Slots : n = local'[cpu] /\ LiveContext(n)
    BY <2>1
  <2>3. LiveContext(n)'
    BY <1>4, <2>2
  <2>4. local'[cpu'] = n
    BY <2>2
  <2>5. QED  BY <2>3, <2>4 DEF LiveContext, Leaving
<1>8. CurrentIsOnCpu' /\ CpuInv'
  BY <1>1, <1>3, <1>7, Types DEF IInv, CurrentIsOnCpu, CpuInv, CpuKnown, InExit
<1>9. TypeOK'
  BY <1>1, <1>3 DEF TypeOK
<1>10. QED  BY <1>5, <1>6, <1>8, <1>9 DEF IInv

(* Where each of these steps begins. *)
LEMMA AtExit ==
    ASSUME IInv, NEW label \in InExit, At(label)
    PROVE  /\ CpuKnown /\ TypeOK /\ current_task = cpu /\ regs[cpu] = Stale /\ cpu # 0
           /\ state[cpu] = "DEAD" /\ state[0] = "READY"
  BY SlotsDistinct DEF IInv, At, CpuInv, KernelRunnable, InExit

LEMMA ExitCountInv == IInv /\ (ExitDead \/ ExitLoadCount \/ ExitStoreCount) => IInv'
<1> USE SlotsDistinct DEF InExit
<1>1. ASSUME IInv, ExitDead PROVE IInv'
  <2>1. CpuKnown /\ TypeOK /\ current_task = cpu /\ regs[cpu] = Stale /\ cpu # 0
    BY <1>1 DEF IInv, CpuKnown, CurrentIsOnCpu, CpuInv, ExitDead, InTask
  <2>2. /\ state' \in [Slots -> States] /\ state'[cpu] = "DEAD"
        /\ \A i \in Slots \ {cpu} : state'[i] = state[i]
    BY <1>1, <2>1, Types DEF ExitDead, States
  <2>3. QED  BY <1>1, <2>1, <2>2, Types, ExitStay DEF ExitDead, Goto
<1>2. ASSUME IInv, ExitLoadCount PROVE IInv'
  <2>1. /\ CpuKnown /\ TypeOK /\ current_task = cpu /\ regs[cpu] = Stale /\ cpu # 0
        /\ state[cpu] = "DEAD"
    BY <1>2, AtExit DEF ExitLoadCount
  <2>2. local' \in [Slots -> Int] /\ \A t \in Slots \ {cpu} : local'[t] = local[t]
    BY <1>2, <2>1, Types DEF ExitLoadCount
  <2>3. QED  BY <1>2, <2>1, <2>2, Types, ExitStay DEF ExitLoadCount, Goto
<1>3. ASSUME IInv, ExitStoreCount PROVE IInv'
  <2>1. /\ CpuKnown /\ TypeOK /\ current_task = cpu /\ regs[cpu] = Stale /\ cpu # 0
        /\ state[cpu] = "DEAD"
    BY <1>3, AtExit DEF ExitStoreCount
  <2>2. task_count_val' \in Int
    BY <1>3, <2>1, Types DEF ExitStoreCount
  <2>3. QED  BY <1>3, <2>1, <2>2, Types, ExitStay DEF ExitStoreCount, Goto
<1>4. QED  BY <1>1, <1>2, <1>3

LEMMA ExitReadTicksInv == IInv /\ ExitReadTicks => IInv'
<1> SUFFICES ASSUME IInv, ExitReadTicks PROVE IInv'
  OBVIOUS
<1> USE SlotsDistinct DEF InExit
<1>1. /\ CpuKnown /\ TypeOK /\ current_task = cpu /\ regs[cpu] = Stale /\ cpu # 0
      /\ state[cpu] = "DEAD"
  BY AtExit DEF ExitReadTicks
<1>2. /\ local' \in [Slots -> Int] /\ local'[cpu] = 0
      /\ \A t \in Slots \ {cpu} : local'[t] = local[t]
      /\ seen_tick' \in [Slots -> 0 .. TICK_MOD - 1]
  BY <1>1, Types DEF ExitReadTicks
<1>3. QED  BY <1>1, <1>2, Types, ExitStay DEF ExitReadTicks, Goto

(* The next round of the wake-up loop, or the first of the scan. *)
LEMMA WakeNextFacts ==
    ASSUME TypeOK, CpuKnown, local[cpu] \in Slots, WakeNext
    PROVE  \E label \in {"x_wake", "x_scan"} :
               /\ pc' = [pc EXCEPT ![cpu] = label]
               /\ local' \in [Slots -> Int] /\ \A t \in Slots \ {cpu} : local'[t] = local[t]
               /\ seen_tick' \in [Slots -> 0 .. TICK_MOD - 1]
               /\ label = "x_wake" => local'[cpu] \in Slots
               /\ label = "x_scan" => local'[cpu] = 1 /\ 1 \in 1 .. MAX_TASKS
<1>1. CASE local[cpu] + 1 < MAX_TASKS
  <2>1. /\ pc' = [pc EXCEPT ![cpu] = "x_wake"] /\ seen_tick' = seen_tick
        /\ local' = [local EXCEPT ![cpu] = @ + 1]
    BY <1>1 DEF WakeNext, Goto
  <2>2. cpu \in Slots /\ local \in [Slots -> Int] /\ local[cpu] + 1 \in Slots
    <3>1. ASSUME NEW k \in Slots, k + 1 < MAX_TASKS PROVE k + 1 \in Slots
      BY <3>1, MaxTasksAssumption DEF Slots
    <3>2. QED  BY <1>1, <3>1, Types
  <2>3. local'[cpu] \in Slots /\ local' \in [Slots -> Int]
          /\ \A t \in Slots \ {cpu} : local'[t] = local[t]
    BY <2>1, <2>2
  <2>4. QED  BY <2>1, <2>3, Types
<1>2. CASE ~ local[cpu] + 1 < MAX_TASKS
  <2>1. /\ pc' = [pc EXCEPT ![cpu] = "x_scan"] /\ seen_tick' = [seen_tick EXCEPT ![cpu] = 0]
        /\ local' = [local EXCEPT ![cpu] = 1]
    BY <1>2 DEF WakeNext, Goto
  <2>2. /\ local'[cpu] = 1 /\ local' \in [Slots -> Int] /\ 1 \in 1 .. MAX_TASKS
        /\ \A t \in Slots \ {cpu} : local'[t] = local[t]
        /\ seen_tick' \in [Slots -> 0 .. TICK_MOD - 1]
    BY <2>1, Types, MaxTasksAssumption, TickModAssumption
  <2>3. QED  BY <2>1, <2>2
<1>3. QED  BY <1>1, <1>2

LEMMA ExitWakeInv == IInv /\ ExitWake => IInv'
<1> SUFFICES ASSUME IInv, ExitWake PROVE IInv'
  OBVIOUS
<1> USE SlotsDistinct DEF InExit
<1>1. /\ CpuKnown /\ TypeOK /\ current_task = cpu /\ regs[cpu] = Stale /\ cpu # 0
      /\ state[cpu] = "DEAD" /\ state[0] = "READY"
  BY AtExit DEF ExitWake
<1>2. local[cpu] \in Slots
  BY DEF ExitWake, At, IInv, CpuInv
<1>3. UNCHANGED <<state, wake_tick, regs, current_task, task_count_val, tick_count, preempt_enabled, cpu>>
  BY DEF ExitWake
<1>4. CASE state[local[cpu]] = "SLEEPING" /\ seen_tick[cpu] >= wake_tick[local[cpu]]
  <2>1. pc' = [pc EXCEPT ![cpu] = "x_ready"] /\ local' = local /\ seen_tick' = seen_tick
    BY <1>4 DEF ExitWake, Goto
  <2>2. local[cpu] # 0 /\ LiveContext(local[cpu])
    BY <1>1, <1>2, <1>4 DEF IInv, ContextInv
  <2>3. QED  BY <1>1, <1>2, <1>3, <1>4, <2>1, <2>2, Types, ExitStay
<1>5. CASE ~ (state[local[cpu]] = "SLEEPING" /\ seen_tick[cpu] >= wake_tick[local[cpu]])
  <2>1. WakeNext
    BY <1>5 DEF ExitWake
  <2>2. QED  BY <1>1, <1>2, <1>3, <2>1, Types, WakeNextFacts, ExitStay
<1>6. QED  BY <1>4, <1>5

LEMMA ExitReadyInv == IInv /\ ExitReady => IInv'
<1> SUFFICES ASSUME IInv, ExitReady PROVE IInv'
  OBVIOUS
<1> USE SlotsDistinct DEF InExit
<1>1. /\ CpuKnown /\ TypeOK /\ current_task = cpu /\ regs[cpu] = Stale /\ cpu # 0
      /\ state[cpu] = "DEAD"
  BY AtExit DEF ExitReady
<1>2. /\ local[cpu] \in Slots /\ state[local[cpu]] \in {"SLEEPING", "DEAD"}
      /\ local[cpu] # 0 /\ LiveContext(local[cpu])
  BY DEF ExitReady, At, IInv, CpuInv
<1>3. /\ UNCHANGED <<wake_tick, regs, current_task, task_count_val, tick_count, preempt_enabled, cpu>>
      /\ state' = [state EXCEPT ![local[cpu]] = "READY"] /\ WakeNext
  BY DEF ExitReady
<1>4. local[cpu] # cpu
  BY <1>1, <1>2, Types DEF LiveContext
<1>5. /\ state' \in [Slots -> States] /\ state'[cpu] = "DEAD"
      /\ \A i \in Slots \ {cpu} :
            \/ state'[i] = state[i]
            \/ /\ state'[i] = "READY" /\ state[i] \in {"SLEEPING", "DEAD"}
               /\ i # 0 /\ LiveContext(i)
  BY <1>1, <1>2, <1>3, <1>4, Types DEF States
<1>6. QED  BY <1>1, <1>2, <1>3, <1>5, Types, WakeNextFacts, ExitStay

LEMMA ExitScanInv == IInv /\ ExitScan => IInv'
<1> SUFFICES ASSUME IInv, ExitScan PROVE IInv'
  OBVIOUS
<1> USE SlotsDistinct DEF InExit
<1>1. /\ CpuKnown /\ TypeOK /\ current_task = cpu /\ regs[cpu] = Stale /\ cpu # 0
      /\ state[cpu] = "DEAD" /\ state[0] = "READY"
  BY AtExit DEF ExitScan
<1>2. local[cpu] \in 1 .. MAX_TASKS /\ pc[cpu] = "x_scan"
  BY DEF ExitScan, At, IInv, CpuInv
<1>3. UNCHANGED <<state, wake_tick, regs, current_task, task_count_val, tick_count,
                  preempt_enabled, cpu, seen_tick>>
  BY DEF ExitScan
<1>4. ASSUME NEW next \in Slots, state[next] = "READY", ScanFound(next)
      PROVE  IInv'
  <2>1. /\ pc' = [pc EXCEPT ![cpu] = "x_current"] /\ local' \in [Slots -> Int]
        /\ local'[cpu] = next /\ \A t \in Slots \ {cpu} : local'[t] = local[t]
    BY <1>1, <1>4, Types DEF ScanFound, Goto, Slots
  <2>2. LiveContext(next) /\ next # cpu
    BY <1>1, <1>4 DEF IInv, ContextInv
  <2>3. QED  BY <1>1, <1>3, <1>4, <2>1, <2>2, Types, ExitStay
<1>5. CASE state[After(local[cpu])] = "READY"
  BY <1>1, <1>2, <1>4, <1>5, Types, AfterIsSlot DEF ExitScan
<1>6. CASE state[After(local[cpu])] # "READY" /\ local[cpu] < MAX_TASKS
  <2>1. local' = [local EXCEPT ![cpu] = @ + 1] /\ pc' = pc
    BY <1>6 DEF ExitScan, ScanNext
  <2>2. /\ local' \in [Slots -> Int] /\ local'[cpu] \in 1 .. MAX_TASKS
        /\ \A t \in Slots \ {cpu} : local'[t] = local[t]
        /\ pc' = [pc EXCEPT ![cpu] = "x_scan"]
    BY <1>1, <1>2, <1>6, <2>1, Types, MaxTasksAssumption
  <2>3. QED  BY <1>1, <1>3, <2>2, Types, ExitStay
<1>7. CASE state[After(local[cpu])] # "READY" /\ ~ local[cpu] < MAX_TASKS
  BY <1>1, <1>4, <1>7 DEF ExitScan, ScanNext
<1>8. QED  BY <1>5, <1>6, <1>7

LEMMA ExitSetCurrentInv == IInv /\ ExitSetCurrent => IInv'
<1> SUFFICES ASSUME IInv, ExitSetCurrent PROVE IInv'
  OBVIOUS
<1> USE SlotsDistinct
<1>1. CpuKnown /\ TypeOK /\ pc[cpu] = "x_current"
  BY DEF ExitSetCurrent, At, IInv
<1>2. /\ current_task' = local[cpu] /\ pc' = [pc EXCEPT ![cpu] = "x_running"]
      /\ UNCHANGED <<state, wake_tick, regs, task_count_val, tick_count, preempt_enabled, cpu, locals>>
  BY DEF ExitSetCurrent, Goto
<1>3. /\ current_task = cpu /\ regs[cpu] = Stale /\ cpu # 0 /\ state[cpu] = "DEAD"
      /\ local[cpu] \in Slots \ {cpu} /\ state[local[cpu]] \in {"READY", "DEAD"}
      /\ LiveContext(local[cpu]) /\ HeldOnlyBy(local[cpu])
  BY <1>1 DEF IInv, CpuInv, ContextInv, InExit
<1>4. /\ pc' \in [Slots -> Pcs] /\ pc'[cpu] = "x_running"
      /\ \A i \in Slots \ {cpu} : pc'[i] = pc[i]
  BY <1>1, <1>2, Types DEF Pcs
<1>5. \A i \in Slots : LiveContext(i)' <=> LiveContext(i)
  <2>1. TAKE i \in Slots
  <2>2. regs[i] # cpu
    BY DEF IInv, ContextInv
  <2>3. QED  BY <1>1, <1>2, <1>3, <1>4, <2>2, Types DEF LiveContext, Leaving
<1>6. OneRunning' /\ KernelRunnable'
  BY <1>1, <1>2, <1>3 DEF IInv, OneRunning, KernelRunnable
<1>7. ContextInv'
  BY <1>1, <1>2, <1>5, Types DEF IInv, ContextInv, HeldOnlyBy
<1>8. Leaving(cpu, current_task)' /\ HeldOnlyBy(current_task)' /\ LiveContext(current_task)'
  BY <1>2, <1>3, <1>4, <1>5 DEF Leaving, HeldOnlyBy
<1>9. CurrentIsOnCpu' /\ CpuInv'
  BY <1>1, <1>2, <1>3, <1>4, <1>8, Types DEF IInv, CurrentIsOnCpu, CpuInv, CpuKnown, InExit
<1>10. TypeOK'
  BY <1>1, <1>2, <1>3, <1>4 DEF TypeOK
<1>11. QED  BY <1>6, <1>7, <1>9, <1>10 DEF IInv

LEMMA ExitSetRunningInv == IInv /\ ExitSetRunning => IInv'
<1> SUFFICES ASSUME IInv, ExitSetRunning PROVE IInv'
  OBVIOUS
<1> USE SlotsDistinct
<1>1. CpuKnown /\ TypeOK /\ pc[cpu] = "x_running"
  BY DEF ExitSetRunning, At, IInv
<1>2. /\ Leaving(cpu, current_task) /\ HeldOnlyBy(current_task)
      /\ LiveContext(current_task) \/ regs[current_task] = Stale
      /\ regs[cpu] = Stale
  BY <1>1 DEF IInv, CpuInv
<1>3. /\ state' = [state EXCEPT ![current_task] = "RUNNING"] /\ pc' = [pc EXCEPT ![cpu] = "x_switch"]
      /\ UNCHANGED <<wake_tick, regs, current_task, task_count_val, tick_count, preempt_enabled, cpu, locals>>
  BY <1>2 DEF ExitSetRunning, Goto, Leaving
<1>4. /\ pc' \in [Slots -> Pcs] /\ pc'[cpu] = "x_switch" /\ cpu # current_task
      /\ \A i \in Slots \ {cpu} : pc'[i] = pc[i]
  BY <1>1, <1>2, <1>3, Types DEF Pcs, Leaving
<1>5. /\ state' \in [Slots -> States] /\ state'[current_task] = "RUNNING"
      /\ \A i \in Slots \ {current_task} : state'[i] = state[i]
  BY <1>1, <1>3, Types DEF States
<1>6. \A i \in Slots : LiveContext(i)' <=> LiveContext(i)
  <2>1. TAKE i \in Slots
  <2>2. regs[i] # cpu /\ (regs[i] = current_task => i = current_task)
    BY <1>2 DEF IInv, ContextInv, HeldOnlyBy
  <2>3. QED  BY <1>1, <1>2, <1>3, <1>4, <1>5, <2>2, Types DEF LiveContext, Leaving
<1>7. OneRunning' /\ KernelRunnable'
  BY <1>1, <1>3, <1>5, Types DEF IInv, OneRunning, KernelRunnable
<1>8. ContextInv'
  BY <1>1, <1>3, <1>5, <1>6, Types DEF IInv, ContextInv, HeldOnlyBy
<1>9. Leaving(cpu, current_task)' /\ HeldOnlyBy(current_task)'
  BY <1>1, <1>2, <1>3, <1>4, <1>5, Types DEF Leaving, HeldOnlyBy
<1>10. LiveContext(current_task)' \/ regs'[current_task'] = Stale
  BY <1>1, <1>2, <1>3, <1>6, Types
<1>11. CurrentIsOnCpu' /\ CpuInv'
  BY <1>1, <1>2, <1>3, <1>4, <1>5, <1>9, <1>10, Types DEF IInv, CurrentIsOnCpu, CpuInv, CpuKnown, InExit
<1>12. TypeOK'
  BY <1>1, <1>3, <1>4, <1>5 DEF TypeOK
<1>13. QED  BY <1>7, <1>8, <1>11, <1>12 DEF IInv

LEMMA ExitSwitchInv == IInv /\ ExitSwitch => IInv'
<1> SUFFICES ASSUME IInv, ExitSwitch PROVE IInv'
  OBVIOUS
<1> USE SlotsDistinct
<1> DEFINE r == SavedRegs(cpu)
           p == [pc EXCEPT ![cpu] = "x_switch"]
<1>1. CpuKnown /\ TypeOK /\ pc[cpu] = "x_switch"
  BY DEF ExitSwitch, At, IInv
<1>2. /\ Leaving(cpu, current_task) /\ HeldOnlyBy(current_task)
      /\ LiveContext(current_task) \/ regs[current_task] = Stale
      /\ state[current_task] \in {"RUNNING", "DEAD"}
  BY <1>1 DEF IInv, CpuInv
<1>3. local[cpu] = current_task /\ cpu # current_task /\ state[cpu] = "DEAD" /\ regs[cpu] = Stale /\ cpu # 0
  BY <1>2 DEF Leaving
<1>4. /\ UNCHANGED <<state, wake_tick, current_task, task_count_val, tick_count, preempt_enabled, seen_tick>>
      /\ local' = [local EXCEPT ![cpu] = 0]
      /\ IF r[current_task] = Entry
         THEN cpu' = current_task /\ pc' = [p EXCEPT ![current_task] = "jmp"] /\ regs' = r
         ELSE /\ cpu' = IF r[current_task] = Stale THEN Wild ELSE r[current_task]
              /\ pc' = p
              /\ regs' = [r EXCEPT ![current_task] = Stale]
  BY <1>3 DEF ExitSwitch, switch_context
<1>5. /\ r \in [Slots -> Slots \cup {Entry, Stale}] /\ r[cpu] = cpu
      /\ \A i \in Slots \ {cpu} : r[i] = regs[i]
      /\ p = pc
  BY <1>1, Types DEF SavedRegs
<1> HIDE DEF r
<1>6. \A i \in Slots \ {cpu} : LiveContext(i) <=> LiveIn(state, r, pc, local, i)
  <2>1. TAKE i \in Slots \ {cpu}
  <2>2. regs[i] # cpu
    BY DEF IInv, ContextInv
  <2>3. QED  BY <1>1, <1>5, <2>2, Types DEF LiveContext, Leaving, LiveIn, LeavingIn
<1>7. ~ LiveIn(state, r, pc, local, cpu)
  BY <1>1, <1>5, Types DEF LiveIn
<1>8. Parked(state, r, pc, local)
  <2>1. \A i, j \in Slots : r[i] \in Slots /\ r[i] = r[j] => i = j
    BY <1>1, <1>5, Types DEF IInv, ContextInv
  <2>2. \A i \in Slots : LiveIn(state, r, pc, local, i) => \A j \in Slots \ {i} : r[j] # i
    BY <1>1, <1>5, <1>6, <1>7, Types DEF IInv, ContextInv, HeldOnlyBy
  <2>3. \A i \in Slots : state[i] \in {"READY", "SLEEPING"} => LiveIn(state, r, pc, local, i)
    BY <1>3, <1>6 DEF IInv, ContextInv
  <2>4. \A i \in Slots : state[i] = "UNUSED" => \A j \in Slots : r[j] # i
    BY <1>1, <1>3, <1>5, Types DEF IInv, ContextInv, HeldOnlyBy
  <2>5. pc[0] = "run" /\ r[0] # Entry
    BY <1>3, <1>5 DEF IInv, CpuInv
  <2>6. QED
    BY <1>1, <1>5, <2>1, <2>2, <2>3, <2>4, <2>5, Types DEF Parked
<1>9. LiveIn(state, r, pc, local, current_task) \/ r[current_task] = Stale
  BY <1>1, <1>2, <1>3, <1>5, <1>6, Types
<1>10. \A j \in Slots \ {current_task} : r[j] # current_task
  BY <1>2, <1>3, <1>5 DEF HeldOnlyBy
<1>11. CurrentIsOnCpu' /\ ContextInv' /\ CpuInv'
  <2>1. /\ current_task \in Slots /\ local \in [Slots -> Int] /\ state \in [Slots -> States]
        /\ state[current_task] # "UNUSED"
    BY <1>1, <1>2, Types
  <2>2. /\ state' \in [Slots -> States] /\ state'[current_task] \in {"RUNNING", "DEAD"}
        /\ \A i \in Slots \ {current_task} : state'[i] = state[i]
        /\ current_task' = current_task
        /\ \A t \in Slots : pc[t] \in {"x_running", "x_switch"} /\ r[t] = Stale
              => local'[t] = local[t]
    BY <1>1, <1>2, <1>4, <1>5, <2>1, Types
  <2>3. IF r[current_task] = Entry
        THEN cpu' = current_task /\ pc' = [pc EXCEPT ![current_task] = "jmp"] /\ regs' = r
        ELSE /\ cpu' = IF r[current_task] = Stale THEN Wild ELSE r[current_task]
             /\ pc' = pc
             /\ regs' = [r EXCEPT ![current_task] = Stale]
    BY <1>4, <1>5
  <2>4. QED  BY <1>8, <1>9, <1>10, <2>1, <2>2, <2>3, Resume
<1>12. OneRunning' /\ KernelRunnable'
  BY <1>4 DEF IInv, OneRunning, KernelRunnable
<1>13. TypeOK'
  <2>1. local' \in [Slots -> Int]
    BY <1>1, <1>4, Types
  <2>2. /\ regs' \in [Slots -> Slots \cup {Entry, Stale}] /\ pc' \in [Slots -> Pcs]
        /\ cpu' \in Slots \cup {Wild}
    BY <1>1, <1>4, <1>5, Types DEF Pcs
  <2>3. QED  BY <1>1, <1>4, <2>1, <2>2 DEF TypeOK
<1>14. QED  BY <1>11, <1>12, <1>13 DEF IInv

-----------------------------------------------------------------------------
(***************************************************************************)
(* The invariant holds initially and every step keeps it.                   *)
(***************************************************************************)
LEMMA InitIInv == Init => IInv
<1> SUFFICES ASSUME Init PROVE IInv
  OBVIOUS
<1> USE SlotsDistinct DEF Init
<1>1. TypeOK
  <2>1. 0 \in 0 .. TICK_MOD - 1
    BY TickModAssumption
  <2>2. state \in [Slots -> States] /\ pc \in [Slots -> Pcs]
    BY DEF States, Pcs
  <2>3. regs \in [Slots -> Slots \cup {Entry, Stale}] /\ local \in [Slots -> Int]
          /\ wake_tick \in [Slots -> 0 .. TICK_MOD - 1]
    BY <2>1
  <2>4. current_task \in Slots /\ cpu \in Slots \cup {Wild} /\ task_count_val \in Int
    OBVIOUS
  <2>5. tick_count \in 0 .. TICK_MOD - 1
    BY <2>1
  <2>6. preempt_enabled \in BOOLEAN
    BY Zenon
  <2>7. QED  BY <2>2, <2>3, <2>4, <2>5, <2>6, Zenon DEF TypeOK
<1>2. OneRunning /\ KernelRunnable /\ CurrentIsOnCpu /\ CpuInv
  BY DEF OneRunning, KernelRunnable, CurrentIsOnCpu, CpuInv, InExit
<1>3. \A i \in Slots : ~ LiveContext(i)
  BY DEF LiveContext
<1>4. ContextInv
  BY <1>3 DEF ContextInv, HeldOnlyBy
<1>5. QED  BY <1>1, <1>2, <1>4 DEF IInv

LEMMA NextIInv == IInv /\ [Next]_vars => IInv'
<1> SUFFICES ASSUME IInv, [Next]_vars PROVE IInv'
  OBVIOUS
<1>1. CASE EnablePreempt
  BY <1>1, EnablePreemptInv
<1>2. CASE TimerTick
  BY <1>2, TimerTickInv
<1>3. CASE task_create
  BY <1>3, TaskCreateInv
<1>4. CASE cmd_kill
  BY <1>4, CmdKillInv
<1>5. CASE task_yield \/ task_sleep_ticks \/ sys_exit
  BY <1>5, SyscallsInv
<1>6. CASE EnterTask
  BY <1>6, EnterTaskInv
<1>7. CASE Exit
  BY <1>7, ExitCountInv, ExitReadTicksInv, ExitWakeInv, ExitReadyInv, ExitScanInv,
     ExitSetCurrentInv, ExitSetRunningInv, ExitSwitchInv DEF Exit
<1>8. CASE UNCHANGED vars
  BY <1>8 DEF vars, IInv, TypeOK, OneRunning, KernelRunnable, CurrentIsOnCpu, ContextInv,
              CpuInv, LiveContext, Leaving, HeldOnlyBy, CpuKnown
<1>9. QED
  BY <1>1, <1>2, <1>3, <1>4, <1>5, <1>6, <1>7, <1>8 DEF Next

THEOREM InductiveInvariant == Spec => []IInv
  BY InitIInv, NextIInv, PTL DEF Spec

-----------------------------------------------------------------------------
(* The scheduler's variables have their types: in particular current_task   *)
(* is always a slot and tasks[].regs is never resumed past the table.       *)
THEOREM TypeCorrect == Spec => []TypeOK
  BY InductiveInvariant, PTL DEF IInv

(* At most the current task is RUNNING, for every number of slots and every *)
(* interleaving of task_exit with the interrupt handlers.                   *)
THEOREM OneRunningAlways == Spec => []OneRunning
  BY InductiveInvariant, PTL DEF IInv

(* When nothing else is READY, find_next_task returns 0 unseen: the kernel's *)
(* task is then marked READY or RUNNING, never dead or asleep.              *)
THEOREM KernelRunnableAlways == Spec => []KernelRunnable
  BY InductiveInvariant, PTL DEF IInv

(* A task executing its own code is the current task, RUNNING or killed.    *)
THEOREM CurrentIsOnCpuAlways == Spec => []CurrentIsOnCpu
  BY InductiveInvariant, PTL DEF IInv

(* The three together, as the runs check them; and no execution is in two of *)
(* the CPU and the saved contexts.                                          *)
THEOREM OneTaskRunsAlways == Spec => []OneTaskRuns
<1>1. IInv => OneTaskRuns
  <2>1. IInv => OneHome
    BY DEF IInv, ContextInv, OneHome
  <2>2. QED  BY <2>1 DEF IInv, OneTaskRuns
<1>2. QED  BY <1>1, InductiveInvariant, PTL

-----------------------------------------------------------------------------
(***************************************************************************)
(* Executions that are lost and tasks that come back: only in the windows   *)
(* TasksKept names.                                                         *)
(***************************************************************************)
KeptBy(i) ==
    /\ Held(i) /\ ~Held(i)' /\ state'[i] \in Alive => HandsOverTo(i) \/ EntrySavedOver(i)
    /\ state[i] = "DEAD" /\ state'[i] # "DEAD" => AboutToRevive(i) \/ cpu = i

(* The first half of a context switch loses at most the execution that is   *)
(* in the slot it saves into.                                               *)
LEMMA SwitchKeeps ==
    ASSUME TypeOK, CpuKnown, NEW old \in Slots, NEW next \in Slots, NEW at,
           switch_context(old, next, at), NEW i \in Slots, Held(i), ~Held(i)'
    PROVE  i \in {old, cpu} /\ cpu # old
<1> USE SlotsDistinct
<1>1. /\ SavedRegs(old)[old] = cpu
      /\ \A j \in Slots \ {old} : SavedRegs(old)[j] = regs[j]
      /\ SavedRegs(old) \in [Slots -> Slots \cup {Entry, Stale}]
  BY Types DEF SavedRegs
<1> DEFINE saved == SavedRegs(old)
<1> HIDE DEF saved
<1>2. IF saved[next] = Entry THEN cpu' = next /\ regs' = saved
      ELSE /\ cpu' = IF saved[next] = Stale THEN Wild ELSE saved[next]
           /\ regs' = [saved EXCEPT ![next] = Stale]
  BY DEF switch_context, saved
<1>3. saved[i] \in {i, Entry} => Held(i)'
  <2>1. CASE i = next
    BY <1>1, <1>2, <2>1, Types DEF Held, saved
  <2>2. CASE i # next
    BY <1>1, <1>2, <2>2, Types DEF Held, saved
  <2>3. QED  BY <2>1, <2>2
<1>4. QED  BY <1>1, <1>3 DEF Held, saved

LEMMA ScheduleKeeps ==
    ASSUME IInv, CpuKnown, NEW st \in [Slots -> States], NEW wt, NEW now, NEW at,
           \A i \in Slots \ {current_task} : st[i] = state[i],
           st = state \/ current_task = cpu,
           st[0] \in {"READY", "RUNNING"}, st[0] = "READY" \/ current_task = 0,
           task_schedule(st, wt, now, at), NEW i \in Slots
    PROVE  KeptBy(i)
<1> USE SlotsDistinct
<1> DEFINE woken == WakeDue(st, wt, now)
           next == find_next_task(woken)
<1>1. TypeOK
  BY DEF IInv
<1>2. /\ woken \in [Slots -> States]
      /\ \A j \in Slots : woken[j] = st[j] \/ (woken[j] = "READY" /\ st[j] = "SLEEPING")
  BY WakeDueFacts
<1> HIDE DEF woken
<1>3. current_task # cpu => Leaving(cpu, current_task)
  BY <1>1, Types DEF IInv, CpuInv, CurrentIsOnCpu, Pcs, InExit
<1>4. CASE KeepsCpu(woken, next)
  <2>1. state' = woken /\ UNCHANGED <<cpu, regs>>
    BY <1>4 DEF task_schedule, woken
  <2>2. Held(i)' <=> Held(i)
    BY <2>1 DEF Held
  <2>3. state[i] = "DEAD" => state'[i] = "DEAD" \/ cpu = i
    BY <1>2, <2>1
  <2>4. QED  BY <2>2, <2>3 DEF KeptBy
<1>5. CASE ~ KeepsCpu(woken, next)
  <2>1. next \in Slots /\ woken[next] = "READY"
    BY <1>1, <1>2, <1>5, Types, FindNextFindsReady
  <2>2. state' = [Descheduled(woken) EXCEPT ![next] = "RUNNING"]
          /\ switch_context(current_task, next, at)
    BY <1>5 DEF task_schedule, Dispatched, woken
  <2> HIDE DEF next
  <2>3. /\ state'[next] = "RUNNING"
        /\ \A j \in Slots \ {next} : woken[j] = "DEAD" => state'[j] = "DEAD"
    BY <1>1, <1>2, <2>1, <2>2, Types DEF Descheduled
  <2>4. state[i] = "DEAD" => state'[i] = "DEAD" \/ cpu = i
    BY <1>1, <1>2, <2>1, <2>3, Types
  <2>5. ASSUME Held(i), ~Held(i)', state'[i] \in Alive PROVE HandsOverTo(i)
    <3>1. i \in {current_task, cpu} /\ cpu # current_task
      BY <1>1, <2>1, <2>2, <2>5, Types, SwitchKeeps
    <3>2. Leaving(cpu, current_task) /\ st = state
      BY <1>3, <3>1
    <3>3. woken[cpu] = "DEAD" /\ cpu # next
      BY <1>1, <1>2, <2>1, <3>2, Types DEF Leaving
    <3>4. state'[cpu] = "DEAD"
      BY <1>1, <2>3, <3>3, Types
    <3>5. i = current_task
      BY <2>5, <3>1, <3>4 DEF Alive
    <3>6. QED  BY <3>2, <3>5 DEF HandsOverTo, Leaving
  <2>6. QED  BY <2>4, <2>5 DEF KeptBy
<1>6. QED  BY <1>4, <1>5

LEMMA StepKeeps ==
    ASSUME IInv, Next, NEW i \in Slots
    PROVE  KeptBy(i)
<1> USE SlotsDistinct
<1>1. TypeOK /\ state \in [Slots -> States] /\ regs \in [Slots -> Slots \cup {Entry, Stale}]
  BY DEF IInv, TypeOK
<1>2. ASSUME NEW st, NEW wt, NEW at, InTask, task_schedule(st, wt, tick_count, at),
             st = state \/ st = [state EXCEPT ![current_task] = "SLEEPING"]
                        \/ st = [state EXCEPT ![current_task] = "DEAD"]
      PROVE  KeptBy(i)
  <2>1. CpuKnown /\ cpu = current_task /\ cpu \in Slots \ {0}
    BY <1>2 DEF InTask, CpuKnown, IInv, CurrentIsOnCpu
  <2>2. /\ st \in [Slots -> States] /\ st[0] = state[0]
        /\ \A j \in Slots \ {current_task} : st[j] = state[j]
    BY <1>1, <1>2, <2>1 DEF States
  <2>3. st[0] \in {"READY", "RUNNING"} /\ (st[0] = "READY" \/ current_task = 0)
    BY <2>1, <2>2 DEF IInv, KernelRunnable
  <2>4. QED  BY <1>2, <2>1, <2>2, <2>3, ScheduleKeeps
<1>3. CASE task_yield \/ task_sleep_ticks \/ sys_exit
  <2>1. CASE task_yield
    BY <1>2, <2>1 DEF task_yield, SystemCall
  <2>2. CASE task_sleep_ticks
    BY <1>2, <2>2 DEF task_sleep_ticks, SystemCall
  <2>3. CASE sys_exit
    BY <1>2, <2>3 DEF sys_exit, SystemCall
  <2>4. QED  BY <1>3, <2>1, <2>2, <2>3
<1>4. CASE TimerTick
  <2>1. CASE PreemptDue(tick_count')
    <3>1. PICK at : task_schedule(state, wake_tick, tick_count', at)
      BY <1>4, <2>1 DEF TimerTick
    <3>2. CpuKnown
      BY <1>4 DEF TimerTick
    <3>3. QED  BY <1>1, <3>1, <3>2, ScheduleKeeps DEF IInv, KernelRunnable
  <2>2. CASE ~ PreemptDue(tick_count')
    BY <1>4, <2>2 DEF TimerTick, KeptBy, Held
  <2>3. QED  BY <2>1, <2>2
<1>5. CASE task_create
  <2>1. PICK slot \in Slots : /\ state[slot] = "UNUSED"
                             /\ state' = [state EXCEPT ![slot] = "READY"]
                             /\ regs' = [regs EXCEPT ![slot] = Entry]
    BY <1>5 DEF task_create
  <2>2. cpu' = cpu
    BY <1>5 DEF task_create
  <2>3. QED  BY <1>1, <2>1, <2>2 DEF KeptBy, Held
<1>6. CASE cmd_kill
  <2>1. PICK id \in Slots : state' = [state EXCEPT ![id] = "DEAD"]
    BY <1>6 DEF cmd_kill
  <2>2. UNCHANGED <<cpu, regs>>
    BY <1>6 DEF cmd_kill
  <2>3. QED  BY <1>1, <2>1, <2>2 DEF KeptBy, Held
<1>7. CASE EnterTask
  <2>1. CpuKnown /\ cpu \in Slots /\ UNCHANGED state
    BY <1>1, <1>7, Types DEF EnterTask
  <2>2. CASE regs[cpu] = Entry
    BY <1>1, <1>7, <2>1, <2>2 DEF EnterTask, KeptBy, Held
  <2>3. CASE regs[cpu] # Entry
    <3>1. pc[cpu] = "jmp_irq"
      BY <1>7, <2>1, <2>3 DEF EnterTask, IInv, CpuInv
    <3>2. UNCHANGED regs
      BY <1>7, <2>3 DEF EnterTask
    <3>3. QED  BY <2>1, <3>1, <3>2 DEF KeptBy, Held, EntrySavedOver
  <2>4. QED  BY <2>2, <2>3
<1>8. CASE ExitReady \/ ExitSetRunning
  <2>1. /\ CpuKnown /\ pc[cpu] \in {"x_ready", "x_running"} /\ UNCHANGED <<cpu, regs>>
        /\ \E to \in States : state' = [state EXCEPT ![local[cpu]] = to]
    BY <1>8 DEF ExitReady, ExitSetRunning, At, States
  <2>2. QED  BY <1>1, <2>1 DEF KeptBy, Held, AboutToRevive
<1>9. CASE ExitSwitch
  <2>1. CpuKnown /\ pc[cpu] = "x_switch" /\ cpu \in Slots /\ local[cpu] \in Slots /\ UNCHANGED state
    BY <1>1, <1>9, Types DEF ExitSwitch, At, IInv, CpuInv, Leaving
  <2>2. switch_context(cpu, local[cpu], "x_switch")
    BY <1>9 DEF ExitSwitch
  <2>3. Held(i) => Held(i)'
    BY <1>1, <2>1, <2>2, SwitchKeeps
  <2>4. QED  BY <2>1, <2>3 DEF KeptBy
<1>10. CASE EnablePreempt \/ ExitLoadCount \/ ExitStoreCount \/ ExitReadTicks \/ ExitWake
              \/ ExitScan \/ ExitSetCurrent
  <2>1. UNCHANGED <<state, cpu, regs>>
    BY <1>10 DEF EnablePreempt, ExitLoadCount, ExitStoreCount, ExitReadTicks, ExitWake,
       ExitScan, ExitSetCurrent
  <2>2. QED  BY <2>1 DEF KeptBy, Held
<1>11. CASE ExitDead
  <2>1. UNCHANGED <<cpu, regs>> /\ state' = [state EXCEPT ![current_task] = "DEAD"]
    BY <1>11 DEF ExitDead
  <2>2. QED  BY <1>1, <2>1 DEF KeptBy, Held
<1>12. QED
  BY <1>3, <1>4, <1>5, <1>6, <1>7, <1>8, <1>9, <1>10, <1>11 DEF Next, Exit

(* For any number of slots and every interleaving of task_exit with ticks,   *)
(* kills and creations: a task that is alive loses its execution, and a dead *)
(* one comes back, in the windows TasksKept names and nowhere else.          *)
THEOREM TasksKeptAlways == Spec => TasksKept
<1> DEFINE Kept == \A i \in Slots : KeptBy(i)
<1>1. IInv /\ [Next]_vars => [Kept]_vars
  BY StepKeeps
<1>2. [][Kept]_vars => TasksKept
  BY PTL DEF TasksKept, KeptBy
<1> HIDE DEF Kept
<1>3. QED  BY <1>1, <1>2, InductiveInvariant, PTL DEF Spec

-----------------------------------------------------------------------------
(***************************************************************************)
(* Round robin.  Turn(c, i) is the iteration at which find_next_task's scan *)
(* from slot c reaches slot i.  What keeps a READY task from starving is    *)
(* that its turn comes strictly nearer with every change of current_task.   *)
(***************************************************************************)
Turn(c, i) == IF i > c THEN i - c ELSE i - c + MAX_TASKS

\* The exception: a task created while another one's exit looks for its
\* successor may be missed by it.
CreatedAfterScan(i) == pc[cpu] = "x_current" /\ regs[i] = Entry

TurnsComeNearer ==
    [][\A i \in Slots :
          /\ state[i] = "READY" /\ state'[i] = "READY"
          /\ current_task' \notin {current_task, i}
          /\ ~ CreatedAfterScan(i)
          => Turn(current_task', i) < Turn(current_task, i)]_vars

\* The scan of task_exit has passed no READY slot, and the successor it has
\* chosen is still the first, but for what was created since.
ScanInv ==
    CpuKnown => \A i \in Slots :
        state[i] = "READY" /\ regs[i] # Entry =>
            /\ pc[cpu] = "x_scan" => local[cpu] <= Turn(current_task, i)
            /\ pc[cpu] = "x_current" => Turn(current_task, local[cpu]) <= Turn(current_task, i)

LEMMA TurnIsScan ==
    ASSUME current_task \in Slots
    PROVE  /\ \A k \in Slots : Turn(current_task, k) \in 1 .. MAX_TASKS
                               /\ After(Turn(current_task, k)) = k
           /\ \A i \in 1 .. MAX_TASKS : Turn(current_task, After(i)) = i
<1>1. ASSUME NEW k \in Slots
      PROVE  Turn(current_task, k) \in 1 .. MAX_TASKS /\ After(Turn(current_task, k)) = k
  <2>1. CASE k > current_task
    <3>1. k - current_task \in 1 .. MAX_TASKS /\ After(k - current_task) = k
      BY <2>1, MaxTasksAssumption, ModFacts DEF Slots, After
    <3>2. QED  BY <2>1, <3>1 DEF Turn
  <2>2. CASE ~ k > current_task
    <3>1. k - current_task + MAX_TASKS \in 1 .. MAX_TASKS
      BY <2>2, MaxTasksAssumption DEF Slots
    <3>2. current_task + (k - current_task + MAX_TASKS) = k + MAX_TASKS
      BY MaxTasksAssumption DEF Slots
    <3>3. After(k - current_task + MAX_TASKS) = k
      BY <3>2, MaxTasksAssumption, ModFacts DEF Slots, After
    <3>4. QED  BY <2>2, <3>1, <3>3 DEF Turn
  <2>3. QED  BY <2>1, <2>2
<1>2. ASSUME NEW i \in 1 .. MAX_TASKS PROVE Turn(current_task, After(i)) = i
  <2>1. CASE current_task + i < MAX_TASKS
    <3>1. After(i) = current_task + i
      BY <2>1, MaxTasksAssumption, ModFacts DEF Slots, After
    <3>2. QED  BY <3>1, MaxTasksAssumption DEF Turn, Slots
  <2>2. CASE current_task + i >= MAX_TASKS
    <3>1. current_task + i - MAX_TASKS \in 0 .. MAX_TASKS - 1
      BY <2>2, MaxTasksAssumption DEF Slots
    <3>2. (current_task + i - MAX_TASKS) + MAX_TASKS = current_task + i
      BY MaxTasksAssumption DEF Slots
    <3>3. After(i) = current_task + i - MAX_TASKS
      BY <3>1, <3>2, MaxTasksAssumption, ModFacts DEF After
    <3>4. QED  BY <3>3, MaxTasksAssumption DEF Turn, Slots
  <2>3. QED  BY <2>1, <2>2, MaxTasksAssumption DEF Slots
<1>3. QED  BY <1>1, <1>2

(* find_next_task returns the READY slot whose turn is first.               *)
LEMMA FindNextFirst ==
    ASSUME current_task \in Slots, NEW st, NEW k \in Slots, st[k] = "READY"
    PROVE  Turn(current_task, find_next_task(st)) <= Turn(current_task, k)
<1> DEFINE T == {i \in 1 .. MAX_TASKS : st[After(i)] = "READY"}
           First(i) == st[After(i)] = "READY" /\ \A j \in 1 .. i - 1 : st[After(j)] # "READY"
           next == CHOOSE i \in 1 .. MAX_TASKS : First(i)
           t == Turn(current_task, k)
<1>1. t \in T
  BY TurnIsScan
<1>2. T \subseteq Nat /\ T # {}
  BY <1>1, MaxTasksAssumption
<1>3. PICK x \in T : \A y \in T : x <= y
  BY <1>2, LeastNatural
<1>4. \A j \in 1 .. x - 1 : st[After(j)] # "READY"
  <2>1. SUFFICES ASSUME NEW j \in 1 .. x - 1, st[After(j)] = "READY" PROVE FALSE
    OBVIOUS
  <2>2. j \in T
    BY <2>1, <1>2, MaxTasksAssumption
  <2>3. QED  BY <2>1, <2>2, <1>2, <1>3, MaxTasksAssumption
<1>5. \E i \in 1 .. MAX_TASKS : First(i)
  BY <1>3, <1>4
<1>6. next \in 1 .. MAX_TASKS /\ First(next)
  BY <1>5
<1>7. find_next_task(st) = After(next)
  BY <1>5 DEF find_next_task
<1>8. Turn(current_task, find_next_task(st)) = next
  <2> HIDE DEF next
  <2>1. QED  BY <1>6, <1>7, TurnIsScan
<1>9. next <= t
  <2>1. SUFFICES ASSUME t < next PROVE FALSE
    <3>1. t \in Nat /\ next \in Nat
      BY <1>1, <1>2, <1>6, MaxTasksAssumption
    <3> HIDE DEF t, next
    <3>2. QED  BY <3>1
  <2>2. t \in 1 .. next - 1
    <3>1. t \in 1 .. MAX_TASKS /\ next \in 1 .. MAX_TASKS
      BY <1>1, <1>6
    <3> HIDE DEF t, next
    <3>2. QED  BY <2>1, <3>1, MaxTasksAssumption
  <2>3. st[After(t)] = "READY"
    BY <1>1
  <2> HIDE DEF t, next
  <2>4. QED  BY <1>6, <2>2, <2>3
<1>10. QED  BY <1>8, <1>9

(* A slot whose turn is not before that of the new current task is nearer.  *)
LEMMA NearerTurn ==
    ASSUME NEW c \in Slots, NEW n \in Slots, NEW i \in Slots, i # n,
           Turn(c, n) <= Turn(c, i)
    PROVE  Turn(n, i) < Turn(c, i)
  BY MaxTasksAssumption DEF Slots, Turn

LEMMA ScheduleTurns ==
    ASSUME current_task \in Slots, NEW st \in [Slots -> States], NEW wt, NEW now, NEW at,
           task_schedule(st, wt, now, at), current_task' \in Slots,
           NEW i \in Slots, st[i] = "READY", current_task' \notin {current_task, i}
    PROVE  Turn(current_task', i) < Turn(current_task, i)
<1> DEFINE woken == WakeDue(st, wt, now)
           next == find_next_task(woken)
<1>1. woken[i] = "READY"
  BY WakeDueFacts
<1>2. current_task' = next
  BY DEF task_schedule
<1>3. Turn(current_task, next) <= Turn(current_task, i)
  <2> HIDE DEF woken
  <2>1. QED  BY <1>1, FindNextFirst
<1> HIDE DEF next
<1>4. QED  BY <1>2, <1>3, NearerTurn

(* After task_schedule the current task is RUNNING, so that no thread goes  *)
(* on in task_exit before its current_task = next.                          *)
LEMMA ScheduleScan ==
    ASSUME IInv, IInv', NEW st, NEW wt, NEW now, NEW at, st \in [Slots -> States],
           task_schedule(st, wt, now, at)
    PROVE  ScanInv'
<1> DEFINE woken == WakeDue(st, wt, now)
           next == find_next_task(woken)
<1>1. woken \in [Slots -> States]
  BY WakeDueFacts
<1> HIDE DEF woken
<1>2. current_task' \in Slots
  BY DEF IInv, TypeOK
<1>3. state'[current_task'] = "RUNNING"
  <2>1. CASE KeepsCpu(woken, next)
    BY <2>1 DEF task_schedule, KeepsCpu, woken
  <2>2. CASE ~ KeepsCpu(woken, next)
    <3>1. state' = [Descheduled(woken) EXCEPT ![next] = "RUNNING"] /\ current_task' = next
      BY <2>2 DEF task_schedule, Dispatched, woken
    <3>2. DOMAIN Descheduled(woken) = Slots
      BY <1>1 DEF Descheduled
    <3> HIDE DEF next
    <3>3. QED  BY <3>1, <3>2, <1>2
  <2>3. QED  BY <2>1, <2>2
<1>4. CpuKnown' => pc'[cpu'] \notin {"x_scan", "x_current"}
  BY <1>3 DEF IInv, CpuInv, CpuKnown, InExit
<1>5. QED  BY <1>4 DEF ScanInv, CpuKnown

LEMMA InitScan == Init => ScanInv
  BY SlotsDistinct DEF Init, ScanInv

LEMMA SchedulersScan ==
    ASSUME IInv, IInv', ScanInv, TimerTick \/ task_yield \/ task_sleep_ticks \/ sys_exit
    PROVE  ScanInv'
<1> USE SlotsDistinct
<1>1. state \in [Slots -> States] /\ pc \in [Slots -> Pcs]
  BY DEF IInv, TypeOK
<1>2. CASE TimerTick /\ PreemptDue(tick_count')
  <2>1. PICK at : task_schedule(state, wake_tick, tick_count', at)
    BY <1>2 DEF TimerTick
  <2>2. QED  BY <1>1, <2>1, ScheduleScan
<1>3. CASE TimerTick /\ ~ PreemptDue(tick_count')
  <2>1. CpuKnown /\ cpu \in Slots
    BY <1>3 DEF TimerTick, IInv, TypeOK, CpuKnown
  <2>2. pc' = [pc EXCEPT ![cpu] = IF pc[cpu] = "jmp" THEN "jmp_irq" ELSE pc[cpu]]
        /\ UNCHANGED <<state, regs, current_task, cpu, local>>
    BY <1>3 DEF TimerTick, Dropped
  <2>3. \A label \in {"x_scan", "x_current"} : pc'[cpu'] = label => pc[cpu] = label
    BY <1>1, <2>1, <2>2
  <2>4. QED  BY <2>1, <2>2, <2>3 DEF ScanInv, CpuKnown
<1>4. CASE task_yield
  <2>1. task_schedule(state, wake_tick, tick_count, "run")
    BY <1>4 DEF task_yield
  <2>2. QED  BY <1>1, <2>1, ScheduleScan
<1>5. CASE task_sleep_ticks
  <2>1. task_schedule([state EXCEPT ![current_task] = "SLEEPING"], wake_tick', tick_count, "run")
    BY <1>5 DEF task_sleep_ticks
  <2>2. [state EXCEPT ![current_task] = "SLEEPING"] \in [Slots -> States]
    BY <1>1 DEF States
  <2>3. QED  BY <2>1, <2>2, ScheduleScan
<1>6. CASE sys_exit
  <2>1. task_schedule([state EXCEPT ![current_task] = "DEAD"], wake_tick, tick_count, "run")
    BY <1>6 DEF sys_exit
  <2>2. [state EXCEPT ![current_task] = "DEAD"] \in [Slots -> States]
    BY <1>1 DEF States
  <2>3. QED  BY <2>1, <2>2, ScheduleScan
<1>7. QED  BY <1>2, <1>3, <1>4, <1>5, <1>6

LEMMA CommandsScan ==
    ASSUME IInv, ScanInv, EnablePreempt \/ task_create \/ cmd_kill
    PROVE  ScanInv'
<1>1. state \in [Slots -> States] /\ regs \in [Slots -> Slots \cup {Entry, Stale}]
  BY DEF IInv, TypeOK
<1>2. CASE EnablePreempt
  BY <1>2 DEF EnablePreempt, ScanInv
<1>3. CASE task_create
  <2>1. PICK slot \in Slots : /\ state' = [state EXCEPT ![slot] = "READY"]
                             /\ regs' = [regs EXCEPT ![slot] = Entry]
    BY <1>3 DEF task_create
  <2>2. UNCHANGED <<current_task, cpu, pc, local>> /\ CpuKnown
    BY <1>3 DEF task_create
  <2>3. regs'[slot] = Entry
        /\ \A i \in Slots \ {slot} : state'[i] = state[i] /\ regs'[i] = regs[i]
    BY <1>1, <2>1
  <2>4. QED  BY <2>2, <2>3 DEF ScanInv, CpuKnown
<1>4. CASE cmd_kill
  <2>1. PICK id \in Slots : state' = [state EXCEPT ![id] = "DEAD"]
    BY <1>4 DEF cmd_kill
  <2>2. UNCHANGED <<regs, current_task, cpu, pc, local>> /\ CpuKnown
    BY <1>4 DEF cmd_kill
  <2>3. state'[id] = "DEAD" /\ \A i \in Slots \ {id} : state'[i] = state[i]
    BY <1>1, <2>1
  <2>4. QED  BY <2>2, <2>3 DEF ScanInv, CpuKnown
<1>5. QED  BY <1>2, <1>3, <1>4

LEMMA ThreadScan ==
    ASSUME IInv, ScanInv, EnterTask \/ Exit
    PROVE  ScanInv'
<1> USE SlotsDistinct
<1>1. /\ state \in [Slots -> States] /\ regs \in [Slots -> Slots \cup {Entry, Stale}]
      /\ pc \in [Slots -> Pcs] /\ local \in [Slots -> Int] /\ current_task \in Slots
  BY DEF IInv, TypeOK
<1>2. CpuKnown /\ cpu \in Slots
  BY DEF EnterTask, Exit, ExitDead, ExitLoadCount, ExitStoreCount, ExitReadTicks, ExitWake,
         ExitReady, ExitScan, ExitSetCurrent, ExitSetRunning, ExitSwitch, At, InTask, IInv, TypeOK, CpuKnown
<1>3. CASE EnterTask
  <2>1. pc'[cpu'] \notin {"x_scan", "x_current"} \/ cpu' = Wild
    BY <1>1, <1>2, <1>3 DEF EnterTask
  <2>2. QED  BY <2>1 DEF ScanInv, CpuKnown
<1>4. CASE ExitDead \/ ExitLoadCount \/ ExitStoreCount \/ ExitReadTicks \/ ExitSetCurrent
            \/ ExitSetRunning
  <2>1. cpu' = cpu
    BY <1>4 DEF ExitDead, ExitLoadCount, ExitStoreCount, ExitReadTicks, ExitSetCurrent, ExitSetRunning
  <2>2. PICK label \in {"x_load", "x_store", "x_ticks", "x_wake", "x_running", "x_switch"} :
            pc' = [pc EXCEPT ![cpu] = label]
    BY <1>4 DEF ExitDead, ExitLoadCount, ExitStoreCount, ExitReadTicks, ExitSetCurrent,
       ExitSetRunning, Goto
  <2>3. pc'[cpu'] \notin {"x_scan", "x_current"}
    BY <1>1, <1>2, <2>1, <2>2
  <2>4. QED  BY <2>3 DEF ScanInv
<1>5. CASE ExitWake \/ ExitReady
  <2>1. UNCHANGED <<current_task, cpu>> /\ pc[cpu] \in {"x_wake", "x_ready"}
    BY <1>5 DEF ExitWake, ExitReady, At
  <2>2. local[cpu] \in Slots
    BY <1>2, <2>1 DEF IInv, CpuInv
  <2>3. pc'[cpu] = "x_ready" \/ \E label \in {"x_wake", "x_scan"} :
            pc'[cpu] = label /\ (label = "x_scan" => local'[cpu] = 1)
    <3>1. CASE WakeNext
      BY <1>1, <1>2, <2>2, <3>1, WakeNextFacts DEF IInv
    <3>2. CASE pc' = [pc EXCEPT ![cpu] = "x_ready"]
      BY <1>1, <1>2, <3>2
    <3>3. QED  BY <1>5, <3>1, <3>2 DEF ExitWake, ExitReady, Goto
  <2>4. \A i \in Slots : 1 <= Turn(current_task, i)
    BY <1>1, TurnIsScan, MaxTasksAssumption
  <2>5. QED  BY <2>1, <2>3, <2>4 DEF ScanInv
<1>8. CASE ExitScan
  <2> DEFINE k == local[cpu]
             Missed(i) == state[i] = "READY" /\ regs[i] # Entry
  <2>1. /\ pc[cpu] = "x_scan" /\ k \in 1 .. MAX_TASKS
        /\ UNCHANGED <<state, regs, current_task, cpu>>
    BY <1>2, <1>8 DEF ExitScan, At, IInv, CpuInv
  <2>2. \A i \in Slots : Missed(i) => k <= Turn(current_task, i)
    BY <1>2, <2>1 DEF ScanInv
  <2>3. \A i \in Slots : Turn(current_task, i) \in 1 .. MAX_TASKS
                           /\ After(Turn(current_task, i)) = i
    BY <1>1, TurnIsScan
  <2>4. CASE state[After(k)] = "READY"
    <3>1. pc'[cpu] = "x_current" /\ local'[cpu] = After(k)
      BY <1>1, <1>2, <1>8, <2>4 DEF ExitScan, ScanFound, Goto
    <3>2. Turn(current_task, After(k)) = k
      BY <1>1, <2>1, TurnIsScan
    <3>3. QED  BY <2>1, <2>2, <3>1, <3>2 DEF ScanInv
  <2>5. CASE state[After(k)] # "READY"
    <3>1. \A i \in Slots : Missed(i) => k < Turn(current_task, i)
      <4>1. SUFFICES ASSUME NEW i \in Slots, Missed(i) PROVE k < Turn(current_task, i)
        OBVIOUS
      <4>2. Turn(current_task, i) # k
        BY <2>3, <2>5, <4>1
      <4> DEFINE t == Turn(current_task, i)
      <4>3. k <= t /\ t # k /\ t \in 1 .. MAX_TASKS
        BY <2>2, <2>3, <4>1, <4>2
      <4> HIDE DEF t, k
      <4>4. k < t
        BY <2>1, <4>3, MaxTasksAssumption
      <4>5. QED  BY <4>4 DEF t
    <3>2. CASE k < MAX_TASKS
      <4>1. pc' = pc /\ local'[cpu] = k + 1
        BY <1>1, <1>2, <1>8, <2>5, <3>2 DEF ExitScan, ScanNext
      <4>2. \A i \in Slots : Missed(i) => k + 1 <= Turn(current_task, i)
        <5>1. \A i \in Slots : Turn(current_task, i) \in Int /\ k \in Int
          BY <2>1, <2>3, MaxTasksAssumption
        <5> HIDE DEF k
        <5>2. QED  BY <3>1, <5>1
      <4>3. QED  BY <2>1, <4>1, <4>2 DEF ScanInv
    <3>3. CASE ~ k < MAX_TASKS
      <4>1. \A i \in Slots : ~ Missed(i)
        <5>1. \A i \in Slots : Turn(current_task, i) \in 1 .. MAX_TASKS /\ k = MAX_TASKS
          BY <2>1, <2>3, <3>3, MaxTasksAssumption
        <5> HIDE DEF k, Missed
        <5>2. QED  BY <3>1, <5>1, MaxTasksAssumption
      <4>2. QED  BY <2>1, <4>1 DEF ScanInv
    <3>4. QED  BY <3>2, <3>3
  <2>6. QED  BY <2>4, <2>5
<1>6. CASE ExitSwitch
  <2>1. /\ pc[cpu] = "x_switch" /\ Leaving(cpu, current_task)
        /\ LiveContext(current_task) \/ regs[current_task] = Stale
    BY <1>2, <1>6 DEF ExitSwitch, At, IInv, CpuInv
  <2>2. local[cpu] = current_task /\ current_task # cpu
    BY <2>1 DEF Leaving
  <2>3. SavedRegs(cpu)[current_task] = regs[current_task] /\ [pc EXCEPT ![cpu] = "x_switch"] = pc
    BY <1>1, <1>2, <2>1, <2>2 DEF SavedRegs
  <2>4. IF regs[current_task] = Entry
        THEN cpu' = current_task /\ pc' = [pc EXCEPT ![current_task] = "jmp"]
        ELSE cpu' = (IF regs[current_task] = Stale THEN Wild ELSE regs[current_task]) /\ pc' = pc
    BY <1>6, <2>2, <2>3 DEF ExitSwitch, switch_context
  <2>5. cpu' = Wild \/ pc'[cpu'] \notin {"x_scan", "x_current"}
    BY <1>1, <2>1, <2>2, <2>4 DEF LiveContext, Leaving
  <2>6. QED  BY <2>5 DEF ScanInv, CpuKnown
<1>7. QED  BY <1>3, <1>4, <1>5, <1>6, <1>8 DEF Exit

LEMMA NextScan == IInv /\ IInv' /\ ScanInv /\ [Next]_vars => ScanInv'
<1> SUFFICES ASSUME IInv, IInv', ScanInv, [Next]_vars PROVE ScanInv'
  OBVIOUS
<1>1. CASE UNCHANGED vars
  BY <1>1 DEF vars, ScanInv, CpuKnown
<1>2. QED
  BY <1>1, SchedulersScan, CommandsScan, ThreadScan DEF Next

LEMMA ScanAlways == Spec => []ScanInv
  BY InitScan, NextScan, InductiveInvariant, PTL DEF Spec

(* Only task_schedule and task_exit change current_task, and both to a slot *)
(* whose turn is not after that of a task that waits.                       *)
LEMMA StepTurns ==
    ASSUME IInv, IInv', ScanInv, Next, NEW i \in Slots, state[i] = "READY", state'[i] = "READY",
           current_task' \notin {current_task, i}, ~ CreatedAfterScan(i)
    PROVE  Turn(current_task', i) < Turn(current_task, i)
<1>1. /\ state \in [Slots -> States] /\ current_task \in Slots /\ current_task' \in Slots
  BY DEF IInv, TypeOK
<1>2. CASE TimerTick
  <2>1. PICK at : task_schedule(state, wake_tick, tick_count', at)
    BY <1>2 DEF TimerTick
  <2>2. QED  BY <1>1, <2>1, ScheduleTurns
<1>3. CASE task_yield \/ task_sleep_ticks \/ sys_exit
  <2>1. current_task # i
    BY <1>3, SlotsDistinct DEF task_yield, task_sleep_ticks, sys_exit, SystemCall, InTask, IInv, CurrentIsOnCpu, CpuKnown
  <2>2. PICK st, wt : /\ task_schedule(st, wt, tick_count, "run")
                      /\ st = state \/ st = [state EXCEPT ![current_task] = "SLEEPING"]
                                   \/ st = [state EXCEPT ![current_task] = "DEAD"]
    BY <1>3 DEF task_yield, task_sleep_ticks, sys_exit
  <2>3. st \in [Slots -> States] /\ st[i] = "READY"
    BY <1>1, <2>1, <2>2 DEF States
  <2>4. QED  BY <1>1, <2>2, <2>3, ScheduleTurns
<1>4. CASE ExitSetCurrent
  <2>1. CpuKnown /\ pc[cpu] = "x_current" /\ current_task' = local[cpu]
    BY <1>4 DEF ExitSetCurrent, At
  <2>2. regs[i] # Entry
    BY <2>1 DEF CreatedAfterScan
  <2>3. Turn(current_task, current_task') <= Turn(current_task, i)
    BY <2>1, <2>2 DEF ScanInv
  <2>4. QED  BY <1>1, <2>3, NearerTurn
<1>5. QED
  BY <1>2, <1>3, <1>4 DEF Next, EnablePreempt, task_create, cmd_kill, EnterTask, Exit, ExitDead,
     ExitLoadCount, ExitStoreCount, ExitReadTicks, ExitWake, ExitReady, ExitScan, ExitSetRunning,
     ExitSwitch

(* Round robin, for every number of slots: whenever another slot becomes    *)
(* the current one, every READY task that goes on waiting has strictly      *)
(* fewer slots before it, so at most MAX_TASKS - 1 others are made current  *)
(* before it is.  The one exception is a task that has not run yet when      *)
(* another's task_exit makes its successor current: it may have been created *)
(* behind the scan.                                                         *)
THEOREM TurnsAlwaysComeNearer == Spec => TurnsComeNearer
<1> DEFINE Nearer == \A i \in Slots :
              /\ state[i] = "READY" /\ state'[i] = "READY"
              /\ current_task' \notin {current_task, i}
              /\ ~ CreatedAfterScan(i)
              => Turn(current_task', i) < Turn(current_task, i)
<1>1. IInv /\ IInv' /\ ScanInv /\ [Next]_vars => [Nearer]_vars
  BY StepTurns
<1>2. [][Nearer]_vars => TurnsComeNearer
  BY PTL DEF TurnsComeNearer
<1> HIDE DEF Nearer
<1>3. QED  BY <1>1, <1>2, ScanAlways, InductiveInvariant, PTL DEF Spec

(* Wake-up across the wrap of the tick counter.  2^32 - 1 is a multiple of  *)
(* 5, so the last tick before the wrap is one that looks for sleepers, and  *)
(* every wake_tick is due then: none is slept through.                      *)
THEOREM LastTickWakesAll ==
    ASSUME (TICK_MOD - 1) % 5 = 0
    PROVE  Spec => [][preempt_enabled /\ tick_count' # tick_count /\ tick_count' = TICK_MOD - 1
                        => \A i \in Slots : state'[i] # "SLEEPING"]_vars
<1> DEFINE Awake == preempt_enabled /\ tick_count' # tick_count /\ tick_count' = TICK_MOD - 1
                        => \A i \in Slots : state'[i] # "SLEEPING"
<1>1. ASSUME IInv, Next PROVE Awake
  <2> SUFFICES ASSUME preempt_enabled, tick_count' # tick_count, tick_count' = TICK_MOD - 1,
                      NEW i \in Slots
               PROVE  state'[i] # "SLEEPING"
    OBVIOUS
  <2>1. TimerTick
    BY <1>1 DEF Next, EnablePreempt, task_create, cmd_kill, task_yield, task_sleep_ticks, sys_exit,
       EnterTask, Exit, ExitDead, ExitLoadCount, ExitStoreCount, ExitReadTicks, ExitWake, ExitReady, ExitScan,
       ExitSetCurrent, ExitSetRunning, ExitSwitch
  <2>2. PICK at : task_schedule(state, wake_tick, tick_count', at)
    BY <2>1 DEF TimerTick, PreemptDue
  <2> DEFINE woken == WakeDue(state, wake_tick, tick_count')
             next == find_next_task(woken)
  <2>3. woken \in [Slots -> States] /\ \A j \in Slots : woken[j] # "SLEEPING"
    <3>1. \A j \in Slots : tick_count' >= wake_tick[j]
      BY <1>1, TickModAssumption DEF IInv, TypeOK
    <3>2. state \in [Slots -> States]
      BY <1>1 DEF IInv, TypeOK
    <3>3. QED  BY <3>1, <3>2 DEF WakeDue, States
  <2>4. state' = woken \/ state' = [Descheduled(woken) EXCEPT ![next] = "RUNNING"]
    BY <2>2 DEF task_schedule, Dispatched
  <2> HIDE DEF woken, next
  <2>5. \A j \in Slots : Descheduled(woken)[j] # "SLEEPING" /\ DOMAIN Descheduled(woken) = Slots
    BY <2>3 DEF Descheduled
  <2>6. QED  BY <2>3, <2>4, <2>5
<1>2. IInv /\ [Next]_vars => [Awake]_vars
  BY <1>1
<1> HIDE DEF Awake
<1>3. Spec => [][Awake]_vars
  BY <1>2, InductiveInvariant, PTL DEF Spec
<1>4. QED  BY <1>3 DEF Awake
=============================================================================
