-------------------------- MODULE ConcurrentProofs --------------------------
(***************************************************************************)
(* Proofs about IrqLock and IpcWait for any numbers of CPUs, locks and      *)
(* contexts.  A spinlock has one holder, interrupts are off on a CPU        *)
(* exactly while its handler runs or its task is in an outermost _irq       *)
(* section, and no contexts wait in a circle: the order in which locks are  *)
(* waited for, and interrupts that are off wherever a handler's lock is     *)
(* held, exclude it.  Of a mutex, how many contexts a failed wait lets in;  *)
(* of a condition, which takers a lost signal may leave asleep.             *)
(***************************************************************************)
EXTENDS MCConcurrent, WellFoundedInduction, FiniteSetTheorems, TLAPS

----------------------------------------------------------------------------
(* The spinlocks                                                           *)

\* A context is the task or the handler of its CPU, and not both.
LEMMA Contexts ==
  /\ \A x \in Ctx : Cpu(x) \in Cpus /\ (x = Task(Cpu(x)) \/ x = Handler(Cpu(x)))
  /\ \A c \in Cpus : /\ Task(c) \in Ctx /\ Handler(c) \in Ctx /\ Task(c) # Handler(c)
                     /\ Cpu(Task(c)) = c /\ Cpu(Handler(c)) = c
BY DEF Ctx, Cpu, Task, Handler

\* An operation that was begun has a lock.
OpOK == \A x \in Ctx : doing[x] # Idle => op[x] \in Ops

\* The words of the locks and who holds them.
HolderInv == LockTypeOK /\ OpOK /\ OneHolder

\* The lock words agree with their holders at the start.
LEMMA HolderInit ==
  ASSUME LockInit PROVE HolderInv
<1>1. LockTypeOK BY DEF LockInit, LockTypeOK, Ops, NoOp, NoSection, Idle
<1>2. OpOK BY DEF LockInit, OpOK
<1>3. OneHolder BY DEF LockInit, OneHolder
<1> QED BY <1>1, <1>2, <1>3 DEF HolderInv

\* Interrupts change none of it.
LEMMA HolderInterrupts ==
  ASSUME HolderInv, NEW c \in Cpus, Interrupt(c) \/ Return(c)
  PROVE  HolderInv'
<1>1. LockTypeOK' BY DEF HolderInv, LockTypeOK, Interrupt, Return
<1>2. OpOK' /\ OneHolder' BY DEF HolderInv, OpOK, OneHolder, Interrupt, Return
<1> QED BY <1>1, <1>2 DEF HolderInv

\* An operation that begins has its lock and what was read of the flags.
LEMMA BegunOp ==
  ASSUME irq \in [Cpus -> BOOLEAN], NEW x \in Ctx,
         \E l \in Locks : SpinLock(x, l) \/ SpinLockIrq(x, l)
  PROVE  \E r \in Ops : op' = [op EXCEPT ![x] = r]
<1>1. CASE \E l \in Locks : SpinLock(x, l)
  <2>1. PICK l \in Locks : SpinLock(x, l) BY <1>1
  <2>2. [lock |-> l, irq |-> FALSE, flags |-> FALSE] \in Ops BY DEF Ops
  <2> QED BY <2>1, <2>2 DEF SpinLock
<1>2. CASE \E l \in Locks : SpinLockIrq(x, l)
  <2>1. PICK l \in Locks : SpinLockIrq(x, l) BY <1>2
  <2>2. irq[Cpu(x)] \in BOOLEAN BY Contexts
  <2>3. [lock |-> l, irq |-> TRUE, flags |-> irq[Cpu(x)]] \in Ops BY <2>2 DEF Ops
  <2> QED BY <2>1, <2>3 DEF SpinLockIrq
<1> QED BY <1>1, <1>2

\* Beginning and ending an operation, and the steps that only read.
LEMMA HolderKept ==
  ASSUME HolderInv, NEW x \in Ctx,
         \/ Cli(x) \/ Spin(x) \/ Restore(x)
         \/ \E l \in Locks : SpinLock(x, l) \/ SpinLockIrq(x, l)
  PROVE  HolderInv'
<1> USE DEF HolderInv
<1>1. UNCHANGED <<lockWord, inHandler, held, section>>
  BY DEF Cli, Spin, Restore, SpinLock, SpinLockIrq
<1>2. irq' \in [Cpus -> BOOLEAN]
  BY Contexts DEF LockTypeOK, Cli, Spin, Restore, SpinLock, SpinLockIrq
<1>3. doing' \in [Ctx -> {Idle, "cli", "test", "spin", "restore"}]
  BY DEF LockTypeOK, Cli, Spin, Restore, SpinLock, SpinLockIrq
<1>4. op' \in [Ctx -> Ops \union {NoOp}]
  <2>1. CASE Cli(x) \/ Spin(x) BY <2>1 DEF LockTypeOK, Cli, Spin
  <2>2. CASE Restore(x) BY <2>2 DEF LockTypeOK, Restore
  <2>3. CASE \E l \in Locks : SpinLock(x, l) \/ SpinLockIrq(x, l)
    <3>1. PICK r \in Ops : op' = [op EXCEPT ![x] = r] BY <2>3, BegunOp DEF LockTypeOK
    <3> QED BY <3>1 DEF LockTypeOK
  <2> QED BY <2>1, <2>2, <2>3
<1>5. OpOK'
  <2>1. CASE Cli(x) \/ Spin(x)
    BY <2>1 DEF OpOK, LockTypeOK, Cli, Spin, Idle
  <2>2. CASE Restore(x)
    BY <2>2 DEF OpOK, LockTypeOK, Restore
  <2>3. CASE \E l \in Locks : SpinLock(x, l) \/ SpinLockIrq(x, l)
    <3>1. PICK r \in Ops : op' = [op EXCEPT ![x] = r] BY <2>3, BegunOp DEF LockTypeOK
    <3>2. \A y \in Ctx : y # x => doing'[y] = doing[y]
      BY <2>3 DEF LockTypeOK, SpinLock, SpinLockIrq
    <3> QED BY <3>1, <3>2 DEF OpOK, LockTypeOK
  <2> QED BY <2>1, <2>2, <2>3
<1>6. OneHolder' BY <1>1 DEF OneHolder
<1> QED BY <1>1, <1>2, <1>3, <1>4, <1>5, <1>6 DEF LockTypeOK

\* A context enters a section: it is the first holder of a lock that was free.
LEMMA HolderEnters ==
  ASSUME HolderInv, NEW x \in Ctx, NEW l \in Locks,
         NEW saved \in [irq : BOOLEAN, flags : BOOLEAN],
         lockWord[l] = 0, lockWord' = [lockWord EXCEPT ![l] = 1],
         held' = [held EXCEPT ![x] = held[x] \union {l}]
  PROVE  /\ lockWord' \in [Locks -> {0, 1}] /\ held' \in [Ctx -> SUBSET Locks]
         /\ OneHolder'
<1>1. \A y \in Ctx : l \notin held[y] BY DEF HolderInv, OneHolder
<1>2. \A m \in Locks, y \in Ctx : m \in held'[y] <=> m \in held[y] \/ (m = l /\ y = x)
  BY DEF HolderInv, LockTypeOK
<1>3. lockWord' \in [Locks -> {0, 1}] /\ held' \in [Ctx -> SUBSET Locks]
  BY DEF HolderInv, LockTypeOK
<1>4. \A m \in Locks : lockWord'[m] = IF m = l THEN 1 ELSE lockWord[m]
  BY DEF HolderInv, LockTypeOK
<1>5. OneHolder'
  <2> SUFFICES ASSUME NEW m \in Locks
               PROVE  /\ \A y, z \in Ctx : m \in held'[y] /\ m \in held'[z] => y = z
                      /\ lockWord'[m] = 1 <=> \E y \in Ctx : m \in held'[y]
    BY DEF OneHolder
  <2>1. CASE m = l BY <2>1, <1>1, <1>2, <1>4
  <2>2. CASE m # l BY <2>2, <1>2, <1>4 DEF HolderInv, OneHolder
  <2> QED BY <2>1, <2>2
<1> QED BY <1>3, <1>5

\* What is noted about a section that is entered.
LEMMA SectionEntered ==
  ASSUME LockTypeOK, NEW x \in Ctx, NEW l \in Locks, NEW r \in [irq : BOOLEAN, flags : BOOLEAN, outer : SUBSET Locks],
         section' = [section EXCEPT ![x][l] = r]
  PROVE  /\ section' \in [Ctx -> [Locks -> [irq : BOOLEAN, flags : BOOLEAN, outer : SUBSET Locks]]]
         /\ \A y \in Ctx, m \in Locks :
              section'[y][m] = IF y = x /\ m = l THEN r ELSE section[y][m]
BY DEF LockTypeOK

\* The exchange, won or lost.
LEMMA HolderExchange ==
  ASSUME HolderInv, NEW x \in Ctx, TestAndSet(x)
  PROVE  HolderInv'
<1> DEFINE l == op[x].lock
<1>1. op[x] \in Ops /\ l \in Locks
  BY DEF HolderInv, OpOK, TestAndSet, Idle, Ops
<1>2. CASE lockWord[l] = 0
  <2>1. lockWord' \in [Locks -> {0, 1}] /\ held' \in [Ctx -> SUBSET Locks] /\ OneHolder'
    <3>1. op[x].irq \in BOOLEAN /\ op[x].flags \in BOOLEAN BY <1>1 DEF Ops
    <3>2. [irq |-> op[x].irq, flags |-> op[x].flags] \in [irq : BOOLEAN, flags : BOOLEAN]
      BY <3>1
    <3> QED BY <1>1, <1>2, <3>2, HolderEnters DEF TestAndSet, Enter
  <2>2. section' \in [Ctx -> [Locks -> [irq : BOOLEAN, flags : BOOLEAN, outer : SUBSET Locks]]]
    <3> DEFINE r == [irq |-> op[x].irq, flags |-> op[x].flags, outer |-> held[x]]
    <3>1. r \in [irq : BOOLEAN, flags : BOOLEAN, outer : SUBSET Locks]
      BY <1>1 DEF Ops, HolderInv, LockTypeOK
    <3>2. section' = [section EXCEPT ![x][l] = r] BY <1>2 DEF TestAndSet, Enter
    <3> HIDE DEF r
    <3> QED BY <1>1, <3>1, <3>2, SectionEntered DEF HolderInv
  <2>3. /\ doing' \in [Ctx -> {Idle, "cli", "test", "spin", "restore"}]
        /\ op' \in [Ctx -> Ops \union {NoOp}] /\ OpOK'
    BY <1>2 DEF HolderInv, LockTypeOK, OpOK, TestAndSet
  <2>4. irq' \in [Cpus -> BOOLEAN] /\ inHandler' \in [Cpus -> BOOLEAN]
    BY DEF HolderInv, LockTypeOK, TestAndSet
  <2> QED BY <2>1, <2>2, <2>3, <2>4 DEF HolderInv, LockTypeOK
<1>3. CASE lockWord[l] # 0
  <2>1. lockWord[l] = 1 /\ lockWord' = lockWord
    BY <1>1, <1>3 DEF HolderInv, LockTypeOK, TestAndSet
  <2>2. UNCHANGED <<held, section, op, irq, inHandler>> BY <1>3 DEF TestAndSet
  <2>3. doing' \in [Ctx -> {Idle, "cli", "test", "spin", "restore"}] /\ OpOK'
    BY <1>1, <1>3 DEF HolderInv, LockTypeOK, OpOK, TestAndSet
  <2> QED BY <2>1, <2>2, <2>3 DEF HolderInv, LockTypeOK, OneHolder
<1> QED BY <1>2, <1>3

\* bk_spin_trylock.
LEMMA HolderTries ==
  ASSUME HolderInv, NEW x \in Ctx, NEW l \in Locks, TryLock(x, l)
  PROVE  HolderInv'
<1> DEFINE r == [irq |-> FALSE, flags |-> FALSE, outer |-> held[x]]
<1>1. UNCHANGED <<irq, inHandler, doing, op>> BY DEF TryLock
<1>2. CASE lockWord[l] = 0
  <2>1. [irq |-> FALSE, flags |-> FALSE] \in [irq : BOOLEAN, flags : BOOLEAN] OBVIOUS
  <2>2. lockWord' \in [Locks -> {0, 1}] /\ held' \in [Ctx -> SUBSET Locks] /\ OneHolder'
    BY <1>2, <2>1, HolderEnters DEF TryLock, Enter
  <2>3. r \in [irq : BOOLEAN, flags : BOOLEAN, outer : SUBSET Locks]
    BY DEF HolderInv, LockTypeOK
  <2>4. section' = [section EXCEPT ![x][l] = r] BY <1>2 DEF TryLock, Enter
  <2>5. section' \in [Ctx -> [Locks -> [irq : BOOLEAN, flags : BOOLEAN, outer : SUBSET Locks]]]
    <3> HIDE DEF r
    <3> QED BY <2>3, <2>4, SectionEntered DEF HolderInv
  <2> QED BY <1>1, <2>2, <2>5 DEF HolderInv, LockTypeOK, OpOK
<1>3. CASE lockWord[l] # 0
  BY <1>1, <1>3 DEF HolderInv, LockTypeOK, OpOK, OneHolder, TryLock
<1> QED BY <1>2, <1>3

\* A lock given back is free: nobody else held it.
LEMMA HolderLeaves ==
  ASSUME HolderInv, NEW x \in Ctx, NEW l \in Locks, SpinUnlock(x, l)
  PROVE  HolderInv'
<1>1. \A m \in Locks, y \in Ctx : m \in held'[y] <=> m \in held[y] /\ ~(m = l /\ y = x)
  BY DEF HolderInv, LockTypeOK, SpinUnlock
<1>2. \A m \in Locks : lockWord'[m] = IF m = l THEN 0 ELSE lockWord[m]
  BY DEF HolderInv, LockTypeOK, SpinUnlock
<1>3. OneHolder'
  <2>1. l \in held[x] BY DEF SpinUnlock
  <2> SUFFICES ASSUME NEW m \in Locks
               PROVE  /\ \A y, z \in Ctx : m \in held'[y] /\ m \in held'[z] => y = z
                      /\ lockWord'[m] = 1 <=> \E y \in Ctx : m \in held'[y]
    BY DEF OneHolder
  <2>2. CASE m = l BY <2>1, <2>2, <1>1, <1>2 DEF HolderInv, OneHolder
  <2>3. CASE m # l BY <2>3, <1>1, <1>2 DEF HolderInv, OneHolder
  <2> QED BY <2>2, <2>3
<1>4. section' \in [Ctx -> [Locks -> [irq : BOOLEAN, flags : BOOLEAN, outer : SUBSET Locks]]]
  <2>1. NoSection \in [irq : BOOLEAN, flags : BOOLEAN, outer : SUBSET Locks] BY DEF NoSection
  <2> QED BY <2>1, SectionEntered DEF HolderInv, SpinUnlock
<1>5. lockWord' \in [Locks -> {0, 1}] /\ held' \in [Ctx -> SUBSET Locks]
  BY DEF HolderInv, LockTypeOK, SpinUnlock
<1>6. /\ doing' \in [Ctx -> {Idle, "cli", "test", "spin", "restore"}]
      /\ op' \in [Ctx -> Ops \union {NoOp}] /\ OpOK'
  <2>1. section[x][l].flags \in BOOLEAN BY DEF HolderInv, LockTypeOK
  <2>2. [lock |-> l, irq |-> TRUE, flags |-> section[x][l].flags] \in Ops BY <2>1 DEF Ops
  <2> QED BY <2>2 DEF HolderInv, LockTypeOK, OpOK, SpinUnlock
<1>7. irq' \in [Cpus -> BOOLEAN] /\ inHandler' \in [Cpus -> BOOLEAN]
  BY DEF HolderInv, LockTypeOK, SpinUnlock
<1> QED BY <1>3, <1>4, <1>5, <1>6, <1>7 DEF HolderInv, LockTypeOK

\* Every step keeps the lock words in agreement with their holders.
LEMMA HolderStep ==
  ASSUME HolderInv, [LockNext]_lockVars PROVE HolderInv'
<1>1. CASE \E c \in Cpus : Interrupt(c) \/ Return(c) BY <1>1, HolderInterrupts
<1>2. CASE \E x \in Ctx : Cli(x) \/ TestAndSet(x) \/ Spin(x) \/ Restore(x)
  BY <1>2, HolderKept, HolderExchange
<1>3. CASE \E x \in Ctx, l \in Locks :
             SpinLock(x, l) \/ SpinLockIrq(x, l) \/ TryLock(x, l) \/ SpinUnlock(x, l)
  BY <1>3, HolderKept, HolderTries, HolderLeaves
<1>4. CASE UNCHANGED lockVars
  BY <1>4 DEF lockVars, HolderInv, LockTypeOK, OpOK, OneHolder
<1> QED BY <1>1, <1>2, <1>3, <1>4 DEF LockNext

\* However many CPUs race for however many locks, a lock has at most one holder
\* and its word is 1 exactly while it has one (bk_spin_lock, bk_spin_trylock).
THEOREM Holders == LockSpec => [](LockTypeOK /\ OneHolder)
<1>1. LockInit => HolderInv BY HolderInit
<1>2. HolderInv /\ [LockNext]_lockVars => HolderInv' BY HolderStep
<1>3. HolderInv => LockTypeOK /\ OneHolder BY DEF HolderInv
<1> QED BY <1>1, <1>2, <1>3, PTL DEF LockSpec

----------------------------------------------------------------------------
(* The interrupt flag.  A section or an operation is off when it is the    *)
(* outermost one that switched interrupts off.                             *)

Off(r) == r.irq /\ r.flags
InOffOp(x) == doing[x] \in {"test", "spin", "restore"} /\ Off(op[x])

\* What holds of the task of a CPU: while the handler runs it is in no off
\* section; between reading the flags and the cli it knows whether interrupts
\* are on, or were when the handler came; and of its operation and its sections
\* one at most is off.
TaskInv(c) ==
  LET x == Task(c) IN
  /\ irq[c] <=> ~inHandler[c] /\ ~OffSection(x)
  /\ inHandler[c] => ~OffSection(x)
  /\ doing[x] = "cli" => op[x].irq /\ (op[x].flags <=> irq[c] \/ inHandler[c])
  /\ InOffOp(x) => \A l \in held[x] : ~Off(section[x][l])
  /\ \A l, m \in held[x] : Off(section[x][l]) /\ Off(section[x][m]) => l = m
  /\ doing[x] = "restore" => op[x].irq

\* A handler runs with interrupts off and saves flags that say so.
HandlerInv(c) ==
  ~op[Handler(c)].flags /\ \A l \in Locks : ~section[Handler(c)][l].flags

\* What a CPU is to a step of another one.
SameTask(c) ==
  /\ irq'[c] = irq[c] /\ inHandler'[c] = inHandler[c]
  /\ doing'[Task(c)] = doing[Task(c)] /\ op'[Task(c)] = op[Task(c)]
  /\ held'[Task(c)] = held[Task(c)] /\ section'[Task(c)] = section[Task(c)]
SameHandler(c) ==
  op'[Handler(c)] = op[Handler(c)] /\ section'[Handler(c)] = section[Handler(c)]

\* What the step of another context leaves as it was, for a task.
LEMMA TaskKept ==
  ASSUME NEW c \in Cpus, TaskInv(c), SameTask(c) PROVE TaskInv(c)'
BY DEF TaskInv, SameTask, OffSection, InOffOp, Off, Task

\* What the step of another context leaves as it was, for a handler.
LEMMA HandlerKept ==
  ASSUME NEW c \in Cpus, HandlerInv(c), SameHandler(c) PROVE HandlerInv(c)'
BY DEF HandlerInv, SameHandler, Handler

FlagInv == HolderInv /\ \A c \in Cpus : TaskInv(c) /\ HandlerInv(c)

\* The invariant of the interrupt flag holds at the start.
LEMMA FlagStart ==
  ASSUME LockInit PROVE FlagInv
<1>1. \A c \in Cpus : TaskInv(c)
  BY Contexts DEF LockInit, TaskInv, OffSection, InOffOp, Off, NoSection, NoOp, Idle
<1>2. \A c \in Cpus : HandlerInv(c)
  BY Contexts DEF LockInit, HandlerInv, NoSection, NoOp
<1> QED BY <1>1, <1>2, HolderInit DEF FlagInv

\* The entry of a handler and the return from it.
LEMMA FlagInterrupts ==
  ASSUME FlagInv, NEW d \in Cpus, Interrupt(d) \/ Return(d), NEW c \in Cpus
  PROVE  TaskInv(c)' /\ HandlerInv(c)'
<1>1. UNCHANGED <<doing, op, held, section>> BY DEF Interrupt, Return
<1>2. HandlerInv(c)' BY <1>1, HandlerKept DEF FlagInv, SameHandler
<1>3. irq \in [Cpus -> BOOLEAN] /\ inHandler \in [Cpus -> BOOLEAN]
  BY DEF FlagInv, HolderInv, LockTypeOK
<1>4. CASE c # d
  <2>1. irq'[c] = irq[c] /\ inHandler'[c] = inHandler[c]
    BY <1>3, <1>4 DEF Interrupt, Return
  <2> QED BY <2>1, <1>1, <1>2, TaskKept DEF FlagInv, SameTask
<1>5. CASE c = d
  <2>1. \/ irq[c] /\ ~inHandler[c] /\ inHandler'[c] /\ ~irq'[c]
        \/ inHandler[c] /\ ~inHandler'[c] /\ irq'[c]
    BY <1>3, <1>5 DEF Interrupt, Return
  <2>2. TaskInv(c) BY DEF FlagInv
  <2>3. TaskInv(c)'
    BY <2>1, <2>2, <1>1 DEF TaskInv, OffSection, InOffOp, Off, Task
  <2> QED BY <2>3, <1>2
<1> QED BY <1>4, <1>5

\* A step of a context, its call of bk_spin_lock to its last instruction.
ContextStep(x) ==
  \/ Cli(x) \/ TestAndSet(x) \/ Spin(x) \/ Restore(x)
  \/ \E l \in Locks : SpinLock(x, l) \/ SpinLockIrq(x, l) \/ TryLock(x, l) \/ SpinUnlock(x, l)

\* It is a step of the context that runs on its CPU, changes no other context
\* and no other CPU, and if it is a handler's it leaves interrupts off.
LEMMA StepLocal ==
  ASSUME FlagInv, NEW x \in Ctx, ContextStep(x)
  PROVE  /\ Running(x) /\ inHandler' = inHandler
         /\ \A y \in Ctx : y # x => /\ doing'[y] = doing[y] /\ op'[y] = op[y]
                                    /\ held'[y] = held[y] /\ section'[y] = section[y]
         /\ \A d \in Cpus : d # Cpu(x) => irq'[d] = irq[d]
         /\ x = Handler(Cpu(x)) => irq'[Cpu(x)] = irq[Cpu(x)]
<1> USE DEF FlagInv, HolderInv, LockTypeOK
<1>1. Running(x) /\ inHandler' = inHandler
  BY DEF ContextStep, Cli, TestAndSet, Spin, Restore, SpinLock, SpinLockIrq, TryLock, SpinUnlock
<1>2. \A y \in Ctx : y # x => doing'[y] = doing[y] /\ op'[y] = op[y]
  BY DEF ContextStep, Cli, TestAndSet, Spin, Restore, SpinLock, SpinLockIrq, TryLock, SpinUnlock
<1>3. \A y \in Ctx : y # x => held'[y] = held[y] /\ section'[y] = section[y]
  BY DEF ContextStep, Cli, TestAndSet, Spin, Restore, SpinLock, SpinLockIrq, TryLock, SpinUnlock,
     Enter
<1>4. \A d \in Cpus : d # Cpu(x) => irq'[d] = irq[d]
  BY DEF ContextStep, Cli, TestAndSet, Spin, Restore, SpinLock, SpinLockIrq, TryLock, SpinUnlock
<1>5. ASSUME x = Handler(Cpu(x)) PROVE irq'[Cpu(x)] = irq[Cpu(x)]
  <2>1. Cpu(x) \in Cpus /\ irq[Cpu(x)] = FALSE
    <3>1. Cpu(x) \in Cpus /\ inHandler[Cpu(x)] BY <1>1, <1>5, Contexts DEF Running
    <3> QED BY <3>1 DEF TaskInv
  <2>2. CASE Cli(x) BY <2>1, <2>2 DEF Cli
  <2>3. CASE Restore(x)
    <3>1. op[x].flags = FALSE
      <4>1. ~op[x].flags BY <2>1, <1>5 DEF HandlerInv
      <4>2. op[x] \in Ops BY <2>3 DEF OpOK, Restore, Idle
      <4> QED BY <4>1, <4>2 DEF Ops
    <3> QED BY <2>1, <2>3, <3>1 DEF Restore
  <2>4. CASE ~Cli(x) /\ ~Restore(x)
    BY <2>4 DEF ContextStep, TestAndSet, Spin, SpinLock, SpinLockIrq, TryLock, SpinUnlock
  <2> QED BY <2>2, <2>3, <2>4
<1> QED BY <1>1, <1>2, <1>3, <1>4, <1>5

\* A task is not affected by any context but itself, nor is a handler.
LEMMA OthersKept ==
  ASSUME FlagInv, NEW x \in Ctx, ContextStep(x), NEW c \in Cpus
  PROVE  /\ x # Task(c) => TaskInv(c)'
         /\ x # Handler(c) => HandlerInv(c)'
<1>1. ASSUME x # Task(c) PROVE TaskInv(c)'
  <2>1. irq'[c] = irq[c]
    <3>1. CASE Cpu(x) # c BY <3>1, StepLocal
    <3>2. CASE Cpu(x) = c BY <3>2, <1>1, Contexts, StepLocal
    <3> QED BY <3>1, <3>2
  <2>2. Task(c) \in Ctx /\ Task(c) # x BY <1>1, Contexts
  <2>3. SameTask(c) BY <2>1, <2>2, StepLocal DEF SameTask
  <2> QED BY <2>3, TaskKept DEF FlagInv
<1>2. ASSUME x # Handler(c) PROVE HandlerInv(c)'
  <2>1. Handler(c) \in Ctx BY Contexts
  <2>2. SameHandler(c) BY <1>2, <2>1, StepLocal DEF SameHandler
  <2> QED BY <2>2, HandlerKept DEF FlagInv
<1> QED BY <1>1, <1>2

----------------------------------------------------------------------------
(* A step of a task, for the CPU it runs on.                               *)

\* What there is to know before each of them.
LEMMA TaskRuns ==
  ASSUME FlagInv, NEW c \in Cpus, Running(Task(c))
  PROVE  /\ Task(c) \in Ctx /\ Cpu(Task(c)) = c /\ inHandler[c] = FALSE
         /\ irq[c] \in BOOLEAN /\ (irq[c] <=> ~OffSection(Task(c)))
         /\ doing[Task(c)] # Idle => op[Task(c)] \in Ops
<1>1. Task(c) \in Ctx /\ Cpu(Task(c)) = c /\ Task(c) # Handler(c) BY Contexts
<1>2. ~inHandler[c] BY <1>1 DEF Running
<1>3. inHandler[c] \in BOOLEAN /\ irq[c] \in BOOLEAN
  BY DEF FlagInv, HolderInv, LockTypeOK
<1>4. irq[c] <=> ~OffSection(Task(c)) BY <1>2 DEF FlagInv, TaskInv
<1>5. doing[Task(c)] # Idle => op[Task(c)] \in Ops BY <1>1 DEF FlagInv, HolderInv, OpOK
<1> QED BY <1>1, <1>2, <1>3, <1>4, <1>5

\* An operation begins; the flags it may read are those of the CPU.
LEMMA TaskBegins ==
  ASSUME FlagInv, NEW c \in Cpus, NEW l \in Locks,
         SpinLock(Task(c), l) \/ SpinLockIrq(Task(c), l)
  PROVE  TaskInv(c)'
<1> DEFINE x == Task(c)
<1>1. Running(x) BY DEF SpinLock, SpinLockIrq
<1>2. UNCHANGED <<irq, inHandler, held, section>> BY DEF SpinLock, SpinLockIrq
<1>3. doing[x] = Idle /\ TaskInv(c) BY DEF SpinLock, SpinLockIrq, FlagInv
<1>4. \/ doing'[x] = "test" /\ ~op'[x].irq
      \/ doing'[x] = "cli" /\ op'[x].irq /\ op'[x].flags = irq[c]
  <2>1. x \in Ctx /\ Cpu(x) = c BY <1>1, TaskRuns
  <2>2. CASE SpinLock(x, l)
    BY <2>1, <2>2 DEF FlagInv, HolderInv, LockTypeOK, SpinLock
  <2>3. CASE SpinLockIrq(x, l)
    <3>1. doing'[x] = "cli" /\ op'[x] = [lock |-> l, irq |-> TRUE, flags |-> irq[c]]
      BY <2>1, <2>3 DEF FlagInv, HolderInv, LockTypeOK, SpinLockIrq
    <3> QED BY <3>1
  <2> QED BY <2>2, <2>3
<1>5. ~InOffOp(x)' /\ ~InOffOp(x) BY <1>3, <1>4 DEF InOffOp, Off, Idle
<1>6. OffSection(x)' <=> OffSection(x)
  BY <1>2, <1>5 DEF OffSection, InOffOp, Off
<1>7. ~inHandler[c] BY <1>1, TaskRuns
<1> QED BY <1>2, <1>3, <1>4, <1>5, <1>6, <1>7 DEF TaskInv

\* The cli: the operation becomes an off one exactly if interrupts were on.
LEMMA TaskCli ==
  ASSUME FlagInv, NEW c \in Cpus, Cli(Task(c))
  PROVE  TaskInv(c)'
<1> DEFINE x == Task(c)
<1>1. Running(x) /\ doing[x] = "cli" /\ TaskInv(c) BY DEF Cli, FlagInv
<1>2. UNCHANGED <<inHandler, op, held, section>> BY DEF Cli
<1>3. doing'[x] = "test" /\ irq'[c] = FALSE
  BY <1>1, TaskRuns DEF FlagInv, HolderInv, LockTypeOK, Cli
<1>4. ~inHandler[c] /\ op[x].irq /\ (op[x].flags <=> irq[c])
  BY <1>1, TaskRuns DEF TaskInv
<1>5. InOffOp(x)' <=> irq[c] BY <1>2, <1>3, <1>4 DEF InOffOp, Off
<1>6. OffSection(x) <=> \E l \in held[x] : Off(section[x][l])
  BY <1>1 DEF OffSection, Off
<1>7. OffSection(x)' <=> irq[c] \/ \E l \in held[x] : Off(section[x][l])
  BY <1>2, <1>5 DEF OffSection, InOffOp, Off
<1>8. OffSection(x)' BY <1>1, <1>6, <1>7, TaskRuns
<1>9. InOffOp(x)' => \A l \in held'[x] : ~Off(section'[x][l])
  BY <1>1, <1>2, <1>5, <1>6, TaskRuns
<1>10. \A l, m \in held'[x] : Off(section'[x][l]) /\ Off(section'[x][m]) => l = m
  BY <1>1, <1>2 DEF TaskInv
<1> QED BY <1>2, <1>3, <1>4, <1>8, <1>9, <1>10 DEF TaskInv, Off

\* A wait between two exchanges.
LEMMA TaskSpins ==
  ASSUME FlagInv, NEW c \in Cpus, Spin(Task(c))
  PROVE  TaskInv(c)'
<1> DEFINE x == Task(c)
<1>1. Running(x) /\ doing[x] = "spin" /\ TaskInv(c) BY DEF Spin, FlagInv
<1>2. UNCHANGED <<irq, inHandler, op, held, section>> BY DEF Spin
<1>3. doing'[x] = "test"
  BY <1>1, TaskRuns DEF FlagInv, HolderInv, LockTypeOK, Spin
<1>4. OffSection(x)' <=> OffSection(x) BY <1>1, <1>2, <1>3 DEF OffSection
<1>5. InOffOp(x)' <=> InOffOp(x) BY <1>1, <1>2, <1>3 DEF InOffOp
<1> QED BY <1>1, <1>2, <1>3, <1>4, <1>5 DEF TaskInv, Off

\* A section that is entered takes over from its operation.
LEMMA TaskEnters ==
  ASSUME FlagInv, NEW c \in Cpus, NEW l \in Locks, NEW r \in [irq : BOOLEAN, flags : BOOLEAN, outer : SUBSET Locks],
         Running(Task(c)), l \notin held[Task(c)],
         UNCHANGED <<irq, inHandler>>, doing'[Task(c)] = Idle,
         doing[Task(c)] # "restore", Off(r) <=> InOffOp(Task(c)),
         held' = [held EXCEPT ![Task(c)] = held[Task(c)] \union {l}],
         section' = [section EXCEPT ![Task(c)][l] = r]
  PROVE  TaskInv(c)'
<1> DEFINE x == Task(c)
<1>1. TaskInv(c) BY DEF FlagInv
<1>2. held'[x] = held[x] \union {l} BY TaskRuns DEF FlagInv, HolderInv, LockTypeOK
<1>3. section'[x][l] = r /\ \A m \in held[x] : section'[x][m] = section[x][m]
  <2>1. \A m \in Locks : section'[x][m] = IF m = l THEN r ELSE section[x][m]
    BY TaskRuns, SectionEntered, ZenonT(60) DEF FlagInv, HolderInv
  <2>2. held[x] \subseteq Locks BY TaskRuns DEF FlagInv, HolderInv, LockTypeOK
  <2> QED BY <2>1, <2>2
<1>4. ~InOffOp(x)' BY DEF InOffOp, Idle
<1>5. OffSection(x)' <=> OffSection(x)
  <2>1. OffSection(x) <=> InOffOp(x) \/ \E m \in held[x] : Off(section[x][m])
    BY DEF OffSection, InOffOp, Off
  <2>2. OffSection(x)' <=> InOffOp(x)' \/ \E m \in held'[x] : Off(section'[x][m])
    BY DEF OffSection, InOffOp, Off
  <2> QED BY <2>1, <2>2, <1>2, <1>3, <1>4
<1>6. \A k, m \in held'[x] : Off(section'[x][k]) /\ Off(section'[x][m]) => k = m
  BY <1>1, <1>2, <1>3 DEF TaskInv
<1>7. ~inHandler[c] BY TaskRuns
<1> QED BY <1>1, <1>4, <1>5, <1>6, <1>7 DEF TaskInv, Idle, Off

\* The exchange wins and the section takes over, or nothing changes.
LEMMA TaskExchanges ==
  ASSUME FlagInv, NEW c \in Cpus, TestAndSet(Task(c))
  PROVE  TaskInv(c)'
<1> DEFINE x == Task(c)
           l == op[x].lock
           r == [irq |-> op[x].irq, flags |-> op[x].flags, outer |-> held[x]]
<1>1. Running(x) /\ doing[x] = "test" /\ TaskInv(c) BY DEF TestAndSet, FlagInv
<1>2. x \in Ctx /\ op[x] \in Ops /\ l \in Locks BY <1>1, TaskRuns DEF Idle, Ops
<1>3. UNCHANGED <<irq, inHandler>> BY DEF TestAndSet
<1>4. CASE lockWord[l] = 0
  <2>1. l \notin held[x] BY <1>2, <1>4 DEF FlagInv, HolderInv, OneHolder
  <2>2. r \in [irq : BOOLEAN, flags : BOOLEAN, outer : SUBSET Locks]
    BY <1>2 DEF Ops, FlagInv, HolderInv, LockTypeOK
  <2>3. doing'[x] = Idle
    BY <1>2, <1>4 DEF TestAndSet, FlagInv, HolderInv, LockTypeOK
  <2>4. Off(r) <=> InOffOp(x) BY <1>1 DEF Off, InOffOp
  <2>5. /\ held' = [held EXCEPT ![x] = held[x] \union {l}]
        /\ section' = [section EXCEPT ![x][l] = r]
    BY <1>4 DEF TestAndSet, Enter
  <2> HIDE DEF r
  <2> QED BY <1>1, <1>2, <1>3, <2>1, <2>2, <2>3, <2>4, <2>5, TaskEnters
<1>5. CASE lockWord[l] # 0
  <2>1. doing'[x] = "spin" /\ UNCHANGED <<op, held, section>>
    BY <1>2, <1>5 DEF TestAndSet, FlagInv, HolderInv, LockTypeOK
  <2>2. OffSection(x)' <=> OffSection(x) BY <1>1, <2>1 DEF OffSection
  <2>3. InOffOp(x)' <=> InOffOp(x) BY <1>1, <2>1 DEF InOffOp
  <2> QED BY <1>1, <1>3, <2>1, <2>2, <2>3 DEF TaskInv, Off
<1> QED BY <1>4, <1>5

\* bk_spin_trylock: the section it enters is not off.
LEMMA TaskTries ==
  ASSUME FlagInv, NEW c \in Cpus, NEW l \in Locks, TryLock(Task(c), l)
  PROVE  TaskInv(c)'
<1> DEFINE x == Task(c)
           r == [irq |-> FALSE, flags |-> FALSE, outer |-> held[x]]
<1>1. Running(x) /\ doing[x] = Idle /\ l \notin held[x] /\ TaskInv(c) BY DEF TryLock, FlagInv
<1>2. UNCHANGED <<irq, inHandler, doing, op>> BY DEF TryLock
<1>3. CASE lockWord[l] = 0
  <2>1. r \in [irq : BOOLEAN, flags : BOOLEAN, outer : SUBSET Locks]
    BY <1>1, TaskRuns DEF FlagInv, HolderInv, LockTypeOK
  <2>2. Off(r) <=> InOffOp(x) BY <1>1 DEF Off, InOffOp, Idle
  <2>3. /\ held' = [held EXCEPT ![x] = held[x] \union {l}]
        /\ section' = [section EXCEPT ![x][l] = r]
    BY <1>3 DEF TryLock, Enter
  <2>4. doing'[x] = Idle /\ doing[x] # "restore" BY <1>1, <1>2 DEF Idle
  <2> HIDE DEF r
  <2> QED BY <1>1, <1>2, <2>1, <2>2, <2>3, <2>4, TaskEnters
<1>4. CASE lockWord[l] # 0
  <2>1. UNCHANGED <<held, section>> BY <1>4 DEF TryLock
  <2>2. SameTask(c) BY <1>2, <2>1 DEF SameTask
  <2> QED BY <1>1, <2>2, TaskKept
<1> QED BY <1>3, <1>4

\* Leaving an off section makes an off operation of it; no other one is off.
LEMMA TaskLeaves ==
  ASSUME FlagInv, NEW c \in Cpus, NEW l \in Locks, SpinUnlock(Task(c), l)
  PROVE  TaskInv(c)'
<1> DEFINE x == Task(c)
           s == section[x][l]
<1>1. Running(x) /\ doing[x] = Idle /\ l \in held[x] /\ TaskInv(c) BY DEF SpinUnlock, FlagInv
<1>2. x \in Ctx BY <1>1, TaskRuns
<1>3. UNCHANGED <<irq, inHandler>> BY DEF SpinUnlock
<1>4. held'[x] = held[x] \ {l} /\ l \notin held'[x]
  BY <1>2 DEF SpinUnlock, FlagInv, HolderInv, LockTypeOK
<1>5. \A m \in held'[x] : section'[x][m] = section[x][m]
  <2>1. NoSection \in [irq : BOOLEAN, flags : BOOLEAN, outer : SUBSET Locks] BY DEF NoSection
  <2>2. section' = [section EXCEPT ![x][l] = NoSection] BY DEF SpinUnlock
  <2>3. \A m \in Locks : section'[x][m] = IF m = l THEN NoSection ELSE section[x][m]
    BY <1>2, <2>1, <2>2, SectionEntered DEF FlagInv, HolderInv
  <2>4. held'[x] \subseteq Locks BY <1>2, <1>4 DEF FlagInv, HolderInv, LockTypeOK
  <2> QED BY <1>4, <2>3, <2>4
<1>6. InOffOp(x)' <=> Off(s)
  <2>1. CASE s.irq
    <3>1. doing'[x] = "restore" /\ op'[x] = [lock |-> l, irq |-> TRUE, flags |-> s.flags]
      BY <1>2, <2>1 DEF SpinUnlock, FlagInv, HolderInv, LockTypeOK
    <3> QED BY <2>1, <3>1 DEF InOffOp, Off
  <2>2. CASE ~s.irq
    <3>1. doing'[x] = Idle BY <1>1, <2>2 DEF SpinUnlock
    <3> QED BY <2>2, <3>1 DEF InOffOp, Off, Idle
  <2> QED BY <2>1, <2>2
<1>7. doing'[x] = "restore" => op'[x].irq
  <2>1. CASE s.irq
    BY <1>2, <2>1 DEF SpinUnlock, FlagInv, HolderInv, LockTypeOK
  <2>2. CASE ~s.irq
    BY <1>1, <2>2 DEF SpinUnlock, Idle
  <2> QED BY <2>1, <2>2
<1>8. doing'[x] # "cli"
  BY <1>1, <1>2 DEF SpinUnlock, FlagInv, HolderInv, LockTypeOK, Idle
<1>9. OffSection(x)' <=> OffSection(x)
  <2>1. OffSection(x) <=> \E m \in held[x] : Off(section[x][m])
    BY <1>1 DEF OffSection, Off, Idle
  <2>2. OffSection(x)' <=> InOffOp(x)' \/ \E m \in held'[x] : Off(section'[x][m])
    BY DEF OffSection, InOffOp, Off
  <2> QED BY <2>1, <2>2, <1>1, <1>4, <1>5, <1>6
<1>10. InOffOp(x)' => \A m \in held'[x] : ~Off(section'[x][m])
  BY <1>1, <1>4, <1>5, <1>6 DEF TaskInv
<1>11. \A k, m \in held'[x] : Off(section'[x][k]) /\ Off(section'[x][m]) => k = m
  BY <1>1, <1>4, <1>5 DEF TaskInv
<1> HIDE DEF s
<1> QED BY <1>1, <1>3, <1>7, <1>8, <1>9, <1>10, <1>11 DEF TaskInv, Off

\* The end of an _irq section: interrupts go on exactly if it was the off one.
LEMMA TaskRestores ==
  ASSUME FlagInv, NEW c \in Cpus, Restore(Task(c))
  PROVE  TaskInv(c)'
<1> DEFINE x == Task(c)
<1>1. Running(x) /\ doing[x] = "restore" /\ TaskInv(c) BY DEF Restore, FlagInv
<1>2. UNCHANGED <<inHandler, held, section>> BY DEF Restore
<1>3. doing'[x] = Idle /\ (irq'[c] <=> irq[c] \/ op[x].flags)
  BY <1>1, TaskRuns DEF Restore, FlagInv, HolderInv, LockTypeOK
<1>4. InOffOp(x) <=> op[x].flags BY <1>1 DEF InOffOp, Off, TaskInv
<1>5. OffSection(x)' <=> \E l \in held[x] : Off(section[x][l])
  BY <1>2, <1>3 DEF OffSection, Off, Idle
<1>6. OffSection(x) <=> op[x].flags \/ \E l \in held[x] : Off(section[x][l])
  BY <1>4 DEF OffSection, InOffOp, Off
<1>7. irq'[c] <=> ~OffSection(x)'
  <2>1. irq[c] <=> ~OffSection(x) BY <1>1, TaskRuns
  <2>2. op[x].flags => ~\E l \in held[x] : Off(section[x][l]) BY <1>1, <1>4 DEF TaskInv
  <2> QED BY <2>1, <2>2, <1>3, <1>5, <1>6
<1>8. ~InOffOp(x)' BY <1>3 DEF InOffOp, Idle
<1>9. \A l, m \in held'[x] : Off(section'[x][l]) /\ Off(section'[x][m]) => l = m
  BY <1>1, <1>2 DEF TaskInv
<1>10. ~inHandler'[c] BY <1>1, <1>2, TaskRuns
<1> QED BY <1>3, <1>7, <1>8, <1>9, <1>10 DEF TaskInv, Idle, Off

----------------------------------------------------------------------------
\* A handler runs with interrupts off and therefore never saves that they were
\* on, in an operation or for a section.
LEMMA HandlerFlags ==
  ASSUME FlagInv, NEW c \in Cpus, ContextStep(Handler(c))
  PROVE  HandlerInv(c)'
<1> DEFINE x == Handler(c)
<1> USE DEF FlagInv, HolderInv, LockTypeOK
<1>1. x \in Ctx /\ Cpu(x) = c BY Contexts
<1>2. ~irq[c]
  <2>1. inHandler[c] BY <1>1, StepLocal, Contexts DEF Running
  <2> QED BY <2>1 DEF TaskInv
<1>3. ~op[x].flags /\ \A m \in Locks : ~section[x][m].flags BY DEF HandlerInv
<1>4. ASSUME ~op'[x].flags, \A m \in Locks : ~section'[x][m].flags PROVE HandlerInv(c)'
  BY <1>4 DEF HandlerInv, Handler
<1>5. CASE Cli(x) \/ Spin(x)
  <2>1. UNCHANGED <<op, section>> BY <1>5 DEF Cli, Spin
  <2> QED BY <2>1, <1>3, <1>4
<1>6. CASE Restore(x)
  <2>1. op'[x] = NoOp /\ section' = section BY <1>1, <1>6 DEF Restore
  <2> QED BY <2>1, <1>3, <1>4 DEF NoOp
<1>7. CASE TestAndSet(x)
  <2> DEFINE l == op[x].lock
             r == [irq |-> op[x].irq, flags |-> op[x].flags, outer |-> held[x]]
  <2>1. CASE lockWord[l] = 0
    <3>1. op[x] \in Ops /\ l \in Locks BY <1>1, <1>7 DEF TestAndSet, OpOK, Idle, Ops
    <3>2. op'[x] = NoOp /\ section' = [section EXCEPT ![x][l] = r]
      BY <1>1, <1>7, <2>1 DEF TestAndSet, Enter
    <3>3. r \in [irq : BOOLEAN, flags : BOOLEAN, outer : SUBSET Locks] /\ ~r.flags
      BY <1>1, <1>3, <3>1 DEF Ops
    <3> HIDE DEF r, l
    <3>4. \A m \in Locks : section'[x][m] = IF m = l THEN r ELSE section[x][m]
      BY <1>1, <3>1, <3>2, <3>3, SectionEntered
    <3> QED BY <3>2, <3>3, <3>4, <1>3, <1>4 DEF NoOp
  <2>2. CASE lockWord[l] # 0
    BY <1>7, <2>2, <1>3, <1>4 DEF TestAndSet
  <2> QED BY <2>1, <2>2
<1>8. ASSUME NEW l \in Locks, SpinLock(x, l) \/ SpinLockIrq(x, l) PROVE HandlerInv(c)'
  <2>1. section' = section BY <1>8 DEF SpinLock, SpinLockIrq
  <2>2. ~op'[x].flags
    <3>1. CASE SpinLock(x, l) BY <3>1, <1>1 DEF SpinLock
    <3>2. CASE SpinLockIrq(x, l)
      <4>1. op'[x] = [lock |-> l, irq |-> TRUE, flags |-> irq[c]]
        BY <3>2, <1>1 DEF SpinLockIrq
      <4> QED BY <4>1, <1>2
    <3> QED BY <3>1, <3>2, <1>8
  <2> QED BY <2>1, <2>2, <1>3, <1>4
<1>9. ASSUME NEW l \in Locks, TryLock(x, l) PROVE HandlerInv(c)'
  <2> DEFINE r == [irq |-> FALSE, flags |-> FALSE, outer |-> held[x]]
  <2>1. op' = op BY <1>9 DEF TryLock
  <2>2. CASE lockWord[l] = 0
    <3>1. section' = [section EXCEPT ![x][l] = r] BY <1>9, <2>2 DEF TryLock, Enter
    <3>2. r \in [irq : BOOLEAN, flags : BOOLEAN, outer : SUBSET Locks] /\ ~r.flags
      BY <1>1
    <3> HIDE DEF r
    <3>3. \A m \in Locks : section'[x][m] = IF m = l THEN r ELSE section[x][m]
      BY <1>1, <3>1, <3>2, SectionEntered
    <3> QED BY <2>1, <3>2, <3>3, <1>3, <1>4
  <2>3. CASE lockWord[l] # 0 BY <1>9, <2>1, <2>3, <1>3, <1>4 DEF TryLock
  <2> QED BY <2>2, <2>3
<1>10. ASSUME NEW l \in Locks, SpinUnlock(x, l) PROVE HandlerInv(c)'
  <2>1. NoSection \in [irq : BOOLEAN, flags : BOOLEAN, outer : SUBSET Locks] /\ ~NoSection.flags
    BY DEF NoSection
  <2>2. section' = [section EXCEPT ![x][l] = NoSection] BY <1>10 DEF SpinUnlock
  <2>3. \A m \in Locks : section'[x][m] = IF m = l THEN NoSection ELSE section[x][m]
    BY <1>1, <2>1, <2>2, SectionEntered
  <2>4. ~op'[x].flags
    <3>1. CASE section[x][l].irq
      <4>1. op'[x] = [lock |-> l, irq |-> TRUE, flags |-> section[x][l].flags]
        BY <3>1, <1>1, <1>10 DEF SpinUnlock
      <4> QED BY <4>1, <1>3
    <3>2. CASE ~section[x][l].irq BY <3>2, <1>3, <1>10 DEF SpinUnlock
    <3> QED BY <3>1, <3>2
  <2> QED BY <2>1, <2>3, <2>4, <1>3, <1>4
<1> QED BY <1>5, <1>6, <1>7, <1>8, <1>9, <1>10 DEF ContextStep

\* A step of its task keeps the invariant of a CPU's task.
LEMMA TaskStep ==
  ASSUME FlagInv, NEW c \in Cpus, ContextStep(Task(c))
  PROVE  TaskInv(c)'
BY TaskBegins, TaskCli, TaskSpins, TaskExchanges, TaskTries, TaskLeaves, TaskRestores
DEF ContextStep

\* Every step keeps the invariant of the interrupt flag.
LEMMA FlagStep ==
  ASSUME FlagInv, [LockNext]_lockVars PROVE FlagInv'
<1>1. HolderInv' BY HolderStep DEF FlagInv
<1>2. ASSUME NEW c \in Cpus PROVE TaskInv(c)' /\ HandlerInv(c)'
  <2>1. CASE \E d \in Cpus : Interrupt(d) \/ Return(d) BY <2>1, FlagInterrupts
  <2>2. ASSUME NEW x \in Ctx, ContextStep(x) PROVE TaskInv(c)' /\ HandlerInv(c)'
    <3>1. TaskInv(c)' BY <2>2, OthersKept, TaskStep
    <3>2. HandlerInv(c)' BY <2>2, OthersKept, HandlerFlags
    <3> QED BY <3>1, <3>2
  <2>3. CASE UNCHANGED lockVars
    <3>1. SameTask(c) /\ SameHandler(c) BY <2>3 DEF lockVars, SameTask, SameHandler
    <3> QED BY <3>1, TaskKept, HandlerKept DEF FlagInv
  <2> QED BY <2>1, <2>2, <2>3 DEF LockNext, ContextStep
<1> QED BY <1>1, <1>2 DEF FlagInv

\* However deep _irq sections nest on however many CPUs, and whenever interrupts
\* come, interrupts are off on a CPU exactly while its handler runs or its task
\* is between the cli and the restore of its outermost _irq section
\* (bk_spin_lock_irq, bk_spin_unlock_irq).
THEOREM FlagRestored == LockSpec => []InterruptsExact
<1>1. LockInit => FlagInv BY FlagStart
<1>2. FlagInv /\ [LockNext]_lockVars => FlagInv' BY FlagStep
<1>3. FlagInv => InterruptsExact BY DEF FlagInv, TaskInv, InterruptsExact
<1> QED BY <1>1, <1>2, <1>3, PTL DEF LockSpec

----------------------------------------------------------------------------
(* No circle of waiting contexts                                           *)

InOff(x) == \E m \in held[x] : Off(section[x][m])

\* The section of l is off, or inside of one that is.
Covered(x, l) ==
  \/ Off(section[x][l])
  \/ \E m \in held[x] : Off(section[x][m]) /\ m \in section[x][l].outer

\* A context aims at a lock below those it holds, a handler at one of its own.
AimInv(x) ==
  doing[x] \in {"cli", "test", "spin"} =>
    /\ \A m \in held[x] : op[x].lock < m
    /\ x = Handler(Cpu(x)) => op[x].lock \in HandlerLocks

\* A task holds and waits for the locks of handlers with interrupts off.
CoverInv(c) ==
  LET x == Task(c) IN
  /\ \A l \in held[x] \intersect HandlerLocks : Covered(x, l)
  /\ doing[x] \in {"test", "spin"} /\ op[x].lock \in HandlerLocks => Off(op[x]) \/ InOff(x)

CircleInv ==
  FlagInv /\ (\A x \in Ctx : AimInv(x)) /\ (\A c \in Cpus : CoverInv(c))

\* The invariant behind the absence of circles holds at the start.
LEMMA CircleStart ==
  ASSUME LockInit PROVE CircleInv
<1>1. \A x \in Ctx : doing[x] = Idle /\ held[x] = {} BY DEF LockInit
<1>2. \A c \in Cpus : Task(c) \in Ctx BY Contexts
<1> QED BY <1>1, <1>2, FlagStart DEF CircleInv, AimInv, CoverInv, Idle

\* Neither part depends on anything but the context itself.
LEMMA AimKept ==
  ASSUME NEW x \in Ctx, AimInv(x),
         doing'[x] = doing[x], op'[x] = op[x], held'[x] = held[x]
  PROVE  AimInv(x)'
BY DEF AimInv

\* Sections stay covered while their task does nothing.
LEMMA CoverKept ==
  ASSUME NEW c \in Cpus, CoverInv(c),
         doing'[Task(c)] = doing[Task(c)], op'[Task(c)] = op[Task(c)],
         held'[Task(c)] = held[Task(c)], section'[Task(c)] = section[Task(c)]
  PROVE  CoverInv(c)'
BY DEF CoverInv, Covered, InOff, Off, Task

----------------------------------------------------------------------------
\* The lock a context aims at is chosen when the operation begins.
LEMMA AimStep ==
  ASSUME CircleInv, NEW x \in Ctx, ContextStep(x)
  PROVE  AimInv(x)'
<1> USE DEF CircleInv, FlagInv, HolderInv, LockTypeOK
<1>1. CASE \E l \in Locks : SpinLock(x, l) \/ SpinLockIrq(x, l)
  <2>1. PICK l \in Locks : SpinLock(x, l) \/ SpinLockIrq(x, l) BY <1>1
  <2>2. op'[x].lock = l
    <3>1. CASE SpinLock(x, l) BY <3>1 DEF SpinLock
    <3>2. CASE SpinLockIrq(x, l) BY <3>2 DEF SpinLockIrq
    <3> QED BY <2>1, <3>1, <3>2
  <2>3. held' = held /\ MayWaitFor(x, l) /\ InReach(x, l)
    BY <2>1 DEF SpinLock, SpinLockIrq
  <2> QED BY <2>2, <2>3 DEF AimInv, MayWaitFor, InReach
<1>2. CASE Cli(x) \/ Spin(x)
  <2>1. doing[x] \in {"cli", "test", "spin"} /\ UNCHANGED <<op, held>>
    BY <1>2 DEF Cli, Spin
  <2> QED BY <2>1 DEF AimInv
<1>3. CASE TestAndSet(x)
  <2>1. CASE lockWord[op[x].lock] = 0
    <3>1. doing'[x] = Idle BY <1>3, <2>1 DEF TestAndSet
    <3> QED BY <3>1 DEF AimInv, Idle
  <2>2. CASE lockWord[op[x].lock] # 0
    <3>1. doing[x] = "test" /\ UNCHANGED <<op, held>> BY <1>3, <2>2 DEF TestAndSet
    <3> QED BY <3>1 DEF AimInv
  <2> QED BY <2>1, <2>2
<1>4. CASE Restore(x) \/ \E l \in Locks : TryLock(x, l) \/ SpinUnlock(x, l)
  <2>1. doing'[x] \in {Idle, "restore"}
    BY <1>4 DEF Restore, TryLock, SpinUnlock
  <2> QED BY <2>1 DEF AimInv, Idle
<1> QED BY <1>1, <1>2, <1>3, <1>4 DEF ContextStep

\* A section that is entered is covered if its lock is a handler's.
LEMMA CoverEnters ==
  ASSUME CircleInv, NEW c \in Cpus, NEW l \in Locks,
         NEW r \in [irq : BOOLEAN, flags : BOOLEAN, outer : SUBSET Locks],
         l \notin held[Task(c)], r.outer = held[Task(c)],
         l \in HandlerLocks => Off(r) \/ InOff(Task(c)),
         doing'[Task(c)] = Idle,
         held' = [held EXCEPT ![Task(c)] = held[Task(c)] \union {l}],
         section' = [section EXCEPT ![Task(c)][l] = r]
  PROVE  CoverInv(c)'
<1> DEFINE x == Task(c)
<1>1. x \in Ctx /\ held[x] \subseteq Locks
  BY Contexts DEF CircleInv, FlagInv, HolderInv, LockTypeOK
<1>2. held'[x] = held[x] \union {l}
  BY <1>1 DEF CircleInv, FlagInv, HolderInv, LockTypeOK
<1>3. section'[x][l] = r /\ \A m \in held[x] : section'[x][m] = section[x][m]
  <2>1. \A m \in Locks : section'[x][m] = IF m = l THEN r ELSE section[x][m]
    BY <1>1, SectionEntered DEF CircleInv, FlagInv, HolderInv
  <2> QED BY <2>1, <1>1
<1>4. ASSUME NEW k \in held'[x] \intersect HandlerLocks PROVE Covered(x, k)'
  <2>1. CASE k = l
    BY <2>1, <1>2, <1>3 DEF Covered, InOff
  <2>2. CASE k # l
    <3>1. k \in held[x] /\ Covered(x, k) BY <2>2, <1>2, <1>4 DEF CircleInv, CoverInv
    <3> QED BY <3>1, <1>2, <1>3 DEF Covered
  <2> QED BY <2>1, <2>2
<1> QED BY <1>4 DEF CoverInv, Idle

\* A step of a task that takes or gives back a lock, or prepares to.
LEMMA CoverStep ==
  ASSUME CircleInv, FlagInv', NEW c \in Cpus, ContextStep(Task(c))
  PROVE  CoverInv(c)'
<1> DEFINE x == Task(c)
<1>0. /\ x \in Ctx /\ Cpu(x) = c /\ ~inHandler[c] /\ ~inHandler'[c]
      /\ (irq[c] <=> ~OffSection(x)) /\ CoverInv(c)
      /\ (doing[x] # Idle => op[x] \in Ops)
  <2>1. x \in Ctx /\ FlagInv BY Contexts DEF CircleInv
  <2>2. Running(x) /\ inHandler' = inHandler BY <2>1, StepLocal
  <2>3. /\ Cpu(x) = c /\ inHandler[c] = FALSE /\ (irq[c] <=> ~OffSection(x))
        /\ (doing[x] # Idle => op[x] \in Ops)
    BY <2>1, <2>2, TaskRuns
  <2> QED BY <2>1, <2>2, <2>3 DEF CircleInv
<1>1. ASSUME doing[x] = Idle, ~irq[c] PROVE InOff(x)
  BY <1>0, <1>1 DEF OffSection, InOff, Off, Idle
<1>2. CASE \E l \in Locks : SpinLock(x, l)
  <2>1. PICK l \in Locks : SpinLock(x, l) BY <1>2
  <2>2. doing[x] = Idle /\ UNCHANGED <<held, section>> /\ PlainIsSafe(x, l)
    BY <2>1 DEF SpinLock
  <2>3. op'[x].lock = l
    BY <2>1, <1>0 DEF SpinLock, CircleInv, FlagInv, HolderInv, LockTypeOK
  <2>4. l \in HandlerLocks => InOff(x) BY <2>2, <1>0, <1>1 DEF PlainIsSafe
  <2> QED BY <1>0, <2>2, <2>3, <2>4 DEF CoverInv, Covered, InOff
<1>3. CASE \E l \in Locks : SpinLockIrq(x, l)
  <2>1. doing'[x] = "cli" /\ UNCHANGED <<held, section>>
    BY <1>0, <1>3 DEF SpinLockIrq, CircleInv, FlagInv, HolderInv, LockTypeOK
  <2> QED BY <1>0, <2>1 DEF CoverInv, Covered
<1>4. CASE Cli(x)
  <2>1. UNCHANGED <<op, held, section>> BY <1>4 DEF Cli
  <2>2. irq'[c] = FALSE
    BY <1>0, <1>4 DEF Cli, CircleInv, FlagInv, HolderInv, LockTypeOK
  <2>3. OffSection(x)' BY <2>2, <1>0 DEF FlagInv, TaskInv
  <2>4. Off(op'[x]) \/ InOff(x)' BY <2>3 DEF OffSection, Off, InOff
  <2> QED BY <1>0, <2>1, <2>4 DEF CoverInv, Covered
<1>5. CASE Spin(x)
  <2>1. doing[x] = "spin" /\ UNCHANGED <<op, held, section>> BY <1>5 DEF Spin
  <2> QED BY <1>0, <2>1 DEF CoverInv, Covered, InOff
<1>6. CASE TestAndSet(x)
  <2> DEFINE l == op[x].lock
             r == [irq |-> op[x].irq, flags |-> op[x].flags, outer |-> held[x]]
  <2>1. doing[x] = "test" /\ op[x] \in Ops /\ l \in Locks
    BY <1>0, <1>6 DEF TestAndSet, Idle, Ops
  <2>2. CASE lockWord[l] = 0
    <3>1. l \notin held[x]
      BY <1>0, <2>1, <2>2 DEF CircleInv, FlagInv, HolderInv, OneHolder
    <3>2. r \in [irq : BOOLEAN, flags : BOOLEAN, outer : SUBSET Locks] /\ r.outer = held[x]
      BY <1>0, <2>1 DEF Ops, CircleInv, FlagInv, HolderInv, LockTypeOK
    <3>3. doing'[x] = Idle
      BY <1>0, <1>6, <2>2 DEF TestAndSet, CircleInv, FlagInv, HolderInv, LockTypeOK
    <3>4. l \in HandlerLocks => Off(r) \/ InOff(x)
      BY <1>0, <2>1 DEF CoverInv, Off
    <3>5. /\ held' = [held EXCEPT ![x] = held[x] \union {l}]
          /\ section' = [section EXCEPT ![x][l] = r]
      BY <1>6, <2>2 DEF TestAndSet, Enter
    <3> HIDE DEF r
    <3> QED BY <2>1, <3>1, <3>2, <3>3, <3>4, <3>5, CoverEnters
  <2>3. CASE lockWord[l] # 0
    <3>1. UNCHANGED <<op, held, section>> BY <1>6, <2>3 DEF TestAndSet
    <3> QED BY <1>0, <2>1, <3>1 DEF CoverInv, Covered, InOff
  <2> QED BY <2>2, <2>3
<1>7. CASE Restore(x)
  <2>1. doing'[x] = Idle /\ UNCHANGED <<held, section>>
    BY <1>0, <1>7 DEF Restore, CircleInv, FlagInv, HolderInv, LockTypeOK
  <2> QED BY <1>0, <2>1 DEF CoverInv, Covered, Idle
<1>8. CASE \E l \in Locks : TryLock(x, l)
  <2>1. PICK l \in Locks : TryLock(x, l) BY <1>8
  <2> DEFINE r == [irq |-> FALSE, flags |-> FALSE, outer |-> held[x]]
  <2>2. /\ doing[x] = Idle /\ l \notin held[x] /\ PlainIsSafe(x, l)
        /\ UNCHANGED <<doing, op>>
    BY <2>1 DEF TryLock
  <2>3. CASE lockWord[l] = 0
    <3>1. r \in [irq : BOOLEAN, flags : BOOLEAN, outer : SUBSET Locks] /\ r.outer = held[x]
      BY <1>0 DEF CircleInv, FlagInv, HolderInv, LockTypeOK
    <3>2. l \in HandlerLocks => InOff(x) BY <1>0, <1>1, <2>2 DEF PlainIsSafe
    <3>3. /\ held' = [held EXCEPT ![x] = held[x] \union {l}]
          /\ section' = [section EXCEPT ![x][l] = r]
      BY <2>1, <2>3 DEF TryLock, Enter
    <3> HIDE DEF r
    <3> QED BY <2>2, <3>1, <3>2, <3>3, CoverEnters
  <2>4. CASE lockWord[l] # 0
    <3>1. UNCHANGED <<held, section>> BY <2>1, <2>4 DEF TryLock
    <3> QED BY <1>0, <2>2, <3>1, CoverKept
  <2> QED BY <2>3, <2>4
<1>9. CASE \E l \in Locks : SpinUnlock(x, l)
  <2>1. PICK l \in Locks : SpinUnlock(x, l) BY <1>9
  <2>2. /\ doing'[x] \in {Idle, "restore"} /\ held'[x] = held[x] \ {l}
        /\ \A m \in held[x] : l \notin section[x][m].outer
    BY <1>0, <2>1 DEF SpinUnlock, CircleInv, FlagInv, HolderInv, LockTypeOK
  <2>3. \A m \in held[x] \ {l} : section'[x][m] = section[x][m]
    BY <1>0, <2>1 DEF SpinUnlock, CircleInv, FlagInv, HolderInv, LockTypeOK
  <2>4. ASSUME NEW k \in held'[x] \intersect HandlerLocks PROVE Covered(x, k)'
    <3>1. k \in held[x] \ {l} /\ Covered(x, k) BY <1>0, <2>2, <2>4 DEF CoverInv
    <3> QED BY <3>1, <2>2, <2>3 DEF Covered
  <2> QED BY <2>2, <2>4 DEF CoverInv, Idle
<1> QED BY <1>2, <1>3, <1>4, <1>5, <1>6, <1>7, <1>8, <1>9 DEF ContextStep

----------------------------------------------------------------------------
\* Every step keeps the invariant behind the absence of circles.
LEMMA CircleStep ==
  ASSUME CircleInv, [LockNext]_lockVars PROVE CircleInv'
<1>1. FlagInv' BY FlagStep DEF CircleInv
<1>2. CASE \E d \in Cpus : Interrupt(d) \/ Return(d)
  <2>1. UNCHANGED <<doing, op, held, section>> BY <1>2 DEF Interrupt, Return
  <2>2. \A x \in Ctx : AimInv(x)' BY <2>1, AimKept DEF CircleInv
  <2>3. \A c \in Cpus : CoverInv(c)' BY <2>1, CoverKept DEF CircleInv
  <2> QED BY <1>1, <2>2, <2>3 DEF CircleInv
<1>3. CASE \E x \in Ctx : ContextStep(x)
  <2>1. PICK x \in Ctx : ContextStep(x) BY <1>3
  <2>2. \A y \in Ctx : y # x => /\ doing'[y] = doing[y] /\ op'[y] = op[y]
                                /\ held'[y] = held[y] /\ section'[y] = section[y]
    BY <2>1, StepLocal DEF CircleInv
  <2>3. ASSUME NEW y \in Ctx PROVE AimInv(y)'
    <3>1. CASE y = x BY <3>1, <2>1, AimStep
    <3>2. CASE y # x BY <3>2, <2>2, AimKept DEF CircleInv
    <3> QED BY <3>1, <3>2
  <2>4. ASSUME NEW c \in Cpus PROVE CoverInv(c)'
    <3>1. CASE Task(c) = x BY <3>1, <2>1, <1>1, CoverStep
    <3>2. CASE Task(c) # x BY <3>2, <2>2, Contexts, CoverKept DEF CircleInv
    <3> QED BY <3>1, <3>2
  <2> QED BY <1>1, <2>3, <2>4 DEF CircleInv
<1>4. CASE UNCHANGED lockVars
  <2>1. UNCHANGED <<doing, op, held, section>> BY <1>4 DEF lockVars
  <2>2. \A x \in Ctx : AimInv(x)' BY <2>1, AimKept DEF CircleInv
  <2>3. \A c \in Cpus : CoverInv(c)' BY <2>1, CoverKept DEF CircleInv
  <2> QED BY <1>1, <2>2, <2>3 DEF CircleInv
<1> QED BY <1>2, <1>3, <1>4 DEF LockNext, ContextStep

\* Of the locks some contexts wait for, one is the lowest.
LEMMA Lowest ==
  ASSUME NEW T \in SUBSET Locks, T # {}
  PROVE  \E l \in T : \A m \in T : ~(m < l)
<1>1. IsWellFoundedOn(OpToRel(<, Nat), Nat) BY NatLessThanWellFounded
<1>2. T \subseteq Nat BY LockAssumption
<1>3. PICK l \in T : \A m \in T : ~(<<m, l>> \in OpToRel(<, Nat))
  BY <1>1, <1>2, WFMin
<1> QED BY <1>2, <1>3 DEF OpToRel

\* While a handler has interrupted its task, the task neither holds nor waits
\* for a lock of a handler.
LEMMA Interrupted ==
  ASSUME CircleInv, NEW c \in Cpus, inHandler[c]
  PROVE  /\ held[Task(c)] \intersect HandlerLocks = {}
         /\ Waiting(Task(c)) => op[Task(c)].lock \notin HandlerLocks
<1>1. ~OffSection(Task(c)) BY DEF CircleInv, FlagInv, TaskInv
<1>2. ~InOff(Task(c)) BY <1>1 DEF OffSection, InOff, Off
<1>3. Waiting(Task(c)) => ~Off(op[Task(c)]) BY <1>1 DEF OffSection, Off, Waiting
<1>4. \A l \in held[Task(c)] : ~Covered(Task(c), l) BY <1>2 DEF Covered, InOff
<1> QED BY <1>2, <1>3, <1>4 DEF CircleInv, CoverInv, Waiting

\* The lowest lock that a circle waits for is held by one who waits for a lower
\* one, or by a task whose handler does.
LEMMA NoCircle ==
  ASSUME CircleInv PROVE NoCircularWait
<1> SUFFICES ASSUME NEW S \in SUBSET Ctx, S # {},
                    \A x \in S : \E y \in S : WaitsFor(x, y)
             PROVE  FALSE
  BY DEF NoCircularWait
<1> DEFINE W == {x \in S : Waiting(x)}
           T == {op[x].lock : x \in W}
<1>1. \A x \in W : x \in Ctx /\ op[x].lock \in Locks
  BY DEF CircleInv, FlagInv, HolderInv, OpOK, Waiting, Idle, Ops
<1>2. \A c \in Cpus : Handler(c) \in S => Handler(c) \in W
  <2> SUFFICES ASSUME NEW c \in Cpus, Handler(c) \in S PROVE Waiting(Handler(c))
    OBVIOUS
  <2>1. PICK z \in S : WaitsFor(Handler(c), z) OBVIOUS
  <2>2. \A d : Handler(c) # Task(d) BY DEF Handler, Task
  <2> QED BY <2>1, <2>2 DEF WaitsFor
<1>3. W # {}
  <2>1. PICK x \in S : TRUE OBVIOUS
  <2>2. PICK y \in S : WaitsFor(x, y) BY <2>1
  <2> QED BY <1>2, <2>1, <2>2 DEF WaitsFor
<1>4. T \in SUBSET Locks /\ T # {} BY <1>1, <1>3
<1>5. PICK x \in W : \A m \in T : ~(m < op[x].lock) BY <1>4, Lowest
<1> DEFINE l == op[x].lock
<1>6. l \in Locks /\ \A w \in W : ~(op[w].lock < l) BY <1>1, <1>5
<1>7. ASSUME NEW c \in Cpus, inHandler[c], Handler(c) \in S PROVE l \in HandlerLocks
  <2>1. Handler(c) \in W BY <1>2, <1>7
  <2>2. op[Handler(c)].lock \in HandlerLocks
    BY <2>1, Contexts DEF CircleInv, AimInv, Waiting
  <2> QED BY <1>6, <2>1, <2>2, LockAssumption
<1>8. ASSUME NEW c \in Cpus, inHandler[c], Handler(c) \in S
      PROVE  l \notin held[Task(c)] /\ x # Task(c)
  BY <1>7, <1>8, <1>5, Interrupted
<1>9. PICK y \in S : WaitsFor(x, y) BY <1>5
<1>10. l \in held[y] BY <1>8, <1>9 DEF WaitsFor
<1>11. PICK z \in S : WaitsFor(y, z) OBVIOUS
<1>12. Waiting(y) BY <1>8, <1>10, <1>11 DEF WaitsFor
<1>13. op[y].lock < l BY <1>10, <1>12 DEF CircleInv, AimInv, Waiting
<1> QED BY <1>6, <1>12, <1>13

\* For any number of CPUs and locks no circle of tasks and handlers ever wait
\* for one another: a handler never spins for a lock of the task it interrupted
\* (bk_spin_lock_irq), whatever bk_spin_trylock took out of order.
THEOREM NoDeadlock == LockSpec => []NoCircularWait
<1>1. LockInit => CircleInv BY CircleStart
<1>2. CircleInv /\ [LockNext]_lockVars => CircleInv' BY CircleStep
<1>3. CircleInv => NoCircularWait BY NoCircle
<1> QED BY <1>1, <1>2, <1>3, PTL DEF LockSpec

----------------------------------------------------------------------------
(* The mutex and the condition                                             *)

TakerPlaces == {"lock", "check", "unlock", "release", "sleep", "asleep", "done"}
GiverPlaces == {"lock", "give", "signal", "unlock", "done"}
Places == TakerPlaces \union GiverPlaces

\* How many of U are at one of the places S, according to f.
Num(f, U, S) == Cardinality({q \in U : f[q] \in S})

In      == {"check", "give", "signal", "unlock", "release"}
Silent  == {"lock", "give", "signal"}
Ungiven == {"lock", "give"}
Looking == {"lock", "check"}
Falls   == {"release", "sleep", "asleep"}

\* The count when p alone is moved from f[p] to g[p].
Shift(f, g, p, U, S) ==
  /\ Num(f, U, S) \in Nat /\ Num(g, U, S) \in Nat
  /\ p \in U /\ f[p] \notin S /\ g[p] \in S => Num(g, U, S) = Num(f, U, S) + 1
  /\ p \in U /\ f[p] \in S /\ g[p] \notin S => Num(f, U, S) = Num(g, U, S) + 1
  /\ p \notin U \/ (f[p] \in S <=> g[p] \in S) => Num(g, U, S) = Num(f, U, S)

\* A context that moves leaves the count of its old place and enters the
\* count of its new one.
LEMMA Moved ==
  ASSUME NEW U \in SUBSET Users, NEW S, NEW f \in [Users -> Places],
         NEW p \in Users, NEW to, NEW g, g = [f EXCEPT ![p] = to]
  PROVE  Shift(f, g, p, U, S)
PROOF
<1> DEFINE rest == {q \in U \ {p} : f[q] \in S}
           inF == {q \in U : f[q] \in S}
           inG == {q \in U : g[q] \in S}
<1>1. IsFiniteSet(rest) /\ IsFiniteSet(inF) /\ IsFiniteSet(inG)
  BY FS_Subset, WaitAssumption DEF Users
<1>2. Cardinality(rest) \in Nat /\ Cardinality(inF) \in Nat /\ Cardinality(inG) \in Nat
  BY <1>1, FS_CardinalityType
<1>3. /\ inF = IF p \in U /\ f[p] \in S THEN rest \union {p} ELSE rest
      /\ inG = IF p \in U /\ g[p] \in S THEN rest \union {p} ELSE rest
  OBVIOUS
<1>4. p \notin rest
  OBVIOUS
<1>5. Num(f, U, S) = Cardinality(inF) /\ Num(g, U, S) = Cardinality(inG)
  BY DEF Num
<1>6. Cardinality(rest \union {p}) = Cardinality(rest) + 1
  BY <1>1, <1>4, FS_AddElement
<1> HIDE DEF inF, inG, rest
<1> QED BY <1>2, <1>3, <1>5, <1>6 DEF Shift

\* The counts the invariant speaks of, after a move.
Shifts(f, g, p) ==
  /\ Shift(f, g, p, Users, In)
  /\ Shift(f, g, p, Givers, Silent)
  /\ Shift(f, g, p, Givers, Ungiven)
  /\ Shift(f, g, p, Givers, {"signal"})
  /\ Shift(f, g, p, Takers, Looking)

LEMMA Counts ==
  ASSUME NEW f \in [Users -> Places], NEW p \in Users, NEW to,
         NEW g, g = [f EXCEPT ![p] = to]
  PROVE  Shifts(f, g, p)
PROOF
<1>1. Users \in SUBSET Users /\ Givers \in SUBSET Users /\ Takers \in SUBSET Users
  BY DEF Users
<1>2. ASSUME NEW U \in SUBSET Users, NEW S PROVE Shift(f, g, p, U, S)
  BY Moved
<1> QED BY <1>1, <1>2 DEF Shifts

----------------------------------------------------------------------------
(* The invariant.                                                          *)

Types ==
  /\ memory \in {"none", "last", "all"}
  /\ token \in {0, 1}
  /\ pending \in Nat /\ items \in Nat
  /\ place \in [Users -> Places]
  /\ \A p \in Takers : place[p] \in TakerPlaces
  /\ \A p \in Givers : place[p] \in GiverPlaces
  /\ lockFailures \in 0 .. MaxFailures /\ condFailures \in 0 .. MaxFailures
  /\ missed \subseteq Takers

\* A mutex is out or someone is inside, but for the failed waits.
Entered == Num(place, Users, In) + token <= 1 + lockFailures

\* Signals and items come from givers that are past the step.
Given ==
  /\ pending + Num(place, Givers, Silent) <= Cardinality(Givers)
  /\ items + Num(place, Givers, Ungiven) <= Cardinality(Givers)

\* While a taker that no lost signal was meant for waits or is about to,
\* every item is matched by a signal that is under way or kept, or by a taker
\* that will look.
Supply == Num(place, Givers, {"signal"}) + Num(place, Takers, Looking) + pending
Matched == \A q \in Takers \ missed : place[q] \in Falls => items <= Supply

\* Nobody sleeps beside a kept signal, and nothing is lost that is kept.
Kept == /\ \A q \in Takers : place[q] = "asleep" => pending = 0
        /\ memory = "all" => missed = {}

WaitInv == Types /\ Entered /\ Given /\ Matched /\ Kept

LEMMA WaitBegins ==
  ASSUME WaitInit PROVE WaitInv
PROOF
<1>1. Types BY WaitAssumption DEF WaitInit, Types, Users, Places, TakerPlaces, GiverPlaces
<1>2. Num(place, Users, In) = 0
  <2>1. {q \in Users : place[q] \in In} = {} BY DEF WaitInit, In
  <2> QED BY <2>1, FS_EmptySet DEF Num
<1>3. /\ Num(place, Givers, Silent) = Cardinality(Givers)
      /\ Num(place, Givers, Ungiven) = Cardinality(Givers)
  <2>1. /\ {q \in Givers : place[q] \in Silent} = Givers
        /\ {q \in Givers : place[q] \in Ungiven} = Givers
    BY DEF WaitInit, Silent, Ungiven, Users
  <2> QED BY <2>1 DEF Num
<1>4. Cardinality(Givers) \in Nat
  BY WaitAssumption, FS_Subset, FS_CardinalityType DEF Users
<1> QED BY <1>1, <1>2, <1>3, <1>4
        DEF WaitInv, Types, Entered, Given, Matched, Kept, WaitInit, Falls, Users

\* What a step of one context does to the places and their counts.
LEMMA Move ==
  ASSUME Types, NEW p \in Users, NEW from, NEW to, Goto(p, from, to)
  PROVE  /\ Shifts(place, place', p)
         /\ place[p] = from /\ place'[p] = to
         /\ place' \in [Users -> Places \union {to}]
         /\ \A q \in Users \ {p} : place'[q] = place[q]
PROOF
<1>1. place \in [Users -> Places] /\ place' = [place EXCEPT ![p] = to] /\ place[p] = from
  BY DEF Types, Goto
<1>2. Shifts(place, place', p) BY <1>1, Counts
<1> QED BY <1>1, <1>2

\* A context is a taker or a giver, and not both.
LEMMA Roles ==
  /\ Takers \subseteq Users /\ Givers \subseteq Users
  /\ \A p \in Users : p \in Takers <=> p \notin Givers
  /\ Cardinality(Givers) \in Nat
BY WaitAssumption, FS_Subset, FS_CardinalityType DEF Users

\* Taking the mutex, whether the wait on it succeeds or fails.
LEMMA LockKeeps ==
  ASSUME WaitInv, NEW p \in Users, Lock(p) \/ LockFails(p)
  PROVE  WaitInv'
PROOF
<1>1. Goto(p, "lock", First(p)) BY DEF Lock, LockFails
<1>2. /\ Shifts(place, place', p)
      /\ place[p] = "lock" /\ place'[p] = First(p)
      /\ place' \in [Users -> Places \union {First(p)}]
      /\ \A q \in Users \ {p} : place'[q] = place[q]
  BY <1>1, Move DEF WaitInv
<1>3. UNCHANGED <<memory, pending, items, condFailures, missed>>
  BY DEF Lock, LockFails
<1>4. First(p) = IF p \in Takers THEN "check" ELSE "give" BY DEF First
<1>5. \/ token = 1 /\ token' = 0 /\ lockFailures' = lockFailures
      \/ token' = token /\ lockFailures' = lockFailures + 1 /\ MayFail
  BY DEF Lock, LockFails
<1>6. Types'
  BY <1>2, <1>3, <1>4, <1>5, Roles, WaitAssumption
     DEF WaitInv, Types, Places, TakerPlaces, GiverPlaces, MayFail
<1>7. Num(place, Users, In)' = Num(place, Users, In) + 1
  BY <1>2, <1>4 DEF Shifts, Shift, In
<1>8. Entered'
  BY <1>2, <1>5, <1>7 DEF WaitInv, Types, Entered, Shifts, Shift
<1>9. /\ Num(place, Givers, Silent)' = Num(place, Givers, Silent)
      /\ Num(place, Givers, Ungiven)' = Num(place, Givers, Ungiven)
      /\ Supply' = Supply
  BY <1>2, <1>3, <1>4, Roles DEF Shifts, Shift, Silent, Ungiven, Looking, Supply
<1>10. Given' BY <1>3, <1>9 DEF WaitInv, Given
<1>11. Matched' BY <1>2, <1>3, <1>4, <1>9, Roles DEF WaitInv, Matched, Falls
<1>12. Kept' BY <1>2, <1>3, <1>4, Roles DEF WaitInv, Kept
<1> QED BY <1>6, <1>8, <1>10, <1>11, <1>12 DEF WaitInv

\* Giving the mutex back, although it may be free already.
LEMMA UnlockKeeps ==
  ASSUME WaitInv, NEW p \in Users, Unlock(p)
  PROVE  WaitInv'
PROOF
<1>1. PICK from, to : Goto(p, from, to) /\ <<from, to>> \in {<<"unlock", "done">>, <<"release", "sleep">>}
  BY DEF Unlock
<1>2. /\ Shifts(place, place', p)
      /\ place[p] = from /\ place'[p] = to
      /\ place' \in [Users -> Places \union {to}]
      /\ \A q \in Users \ {p} : place'[q] = place[q]
  BY <1>1, Move DEF WaitInv
<1>3. token' = 1 /\ UNCHANGED <<memory, pending, items, lockFailures, condFailures, missed>>
  BY DEF Unlock
<1>4. Types'
  BY <1>1, <1>2, <1>3, Roles DEF WaitInv, Types, Places, TakerPlaces, GiverPlaces
<1>5. Num(place, Users, In) = Num(place, Users, In)' + 1
  BY <1>1, <1>2 DEF Shifts, Shift, In
<1>6. Entered'
  BY <1>2, <1>3, <1>5 DEF WaitInv, Types, Entered, Shifts, Shift
<1>7. /\ Num(place, Givers, Silent)' = Num(place, Givers, Silent)
      /\ Num(place, Givers, Ungiven)' = Num(place, Givers, Ungiven)
      /\ Supply' = Supply
  BY <1>1, <1>2, <1>3, Roles DEF Shifts, Shift, Silent, Ungiven, Looking, Supply
<1>8. Given' BY <1>3, <1>7 DEF WaitInv, Given
<1>9. Matched' BY <1>1, <1>2, <1>3, <1>7, Roles DEF WaitInv, Matched, Falls
<1>10. Kept' BY <1>1, <1>2, <1>3, Roles DEF WaitInv, Kept
<1> QED BY <1>4, <1>6, <1>8, <1>9, <1>10 DEF WaitInv

\* A taker looks: it takes an item, or finds none and will wait.
LEMMA CheckKeeps ==
  ASSUME WaitInv, NEW p \in Takers, Check(p)
  PROVE  WaitInv'
PROOF
<1>0. p \in Users /\ p \notin Givers BY Roles
<1>1. PICK to : Goto(p, "check", to) /\ to = IF items > 0 THEN "unlock" ELSE "release"
  BY DEF Check
<1>2. /\ Shifts(place, place', p)
      /\ place[p] = "check" /\ place'[p] = to
      /\ place' \in [Users -> Places \union {to}]
      /\ \A q \in Users \ {p} : place'[q] = place[q]
  BY <1>0, <1>1, Move DEF WaitInv
<1>3. /\ items' = IF items > 0 THEN items - 1 ELSE items
      /\ UNCHANGED <<memory, token, pending, lockFailures, condFailures, missed>>
  BY DEF Check
<1>4. Types'
  BY <1>0, <1>1, <1>2, <1>3, Roles DEF WaitInv, Types, Places, TakerPlaces, GiverPlaces
<1>5. Num(place, Users, In) = Num(place, Users, In)'
  BY <1>0, <1>1, <1>2 DEF Shifts, Shift, In
<1>6. Entered'
  BY <1>3, <1>5 DEF WaitInv, Entered
<1>7. /\ Num(place, Givers, Silent)' = Num(place, Givers, Silent)
      /\ Num(place, Givers, Ungiven)' = Num(place, Givers, Ungiven)
      /\ Num(place, Givers, {"signal"})' = Num(place, Givers, {"signal"})
      /\ Num(place, Takers, Looking) = Num(place, Takers, Looking)' + 1
  BY <1>0, <1>1, <1>2 DEF Shifts, Shift, Looking
<1>8. Given'
  BY <1>2, <1>3, <1>7, Roles DEF WaitInv, Types, Given, Shifts, Shift
<1>9. Supply' = Supply - 1 /\ Supply \in Nat /\ Supply' \in Nat
  BY <1>2, <1>3, <1>7 DEF WaitInv, Types, Supply, Shifts, Shift
<1>10. Matched'
  <2>1. CASE items > 0
    BY <2>1, <1>0, <1>1, <1>2, <1>3, <1>9, Roles DEF WaitInv, Types, Matched, Falls
  <2>2. CASE ~(items > 0)
    <3>1. items' = 0 BY <2>2, <1>3 DEF WaitInv, Types
    <3>2. items' <= Supply' BY <3>1, <1>9
    <3> QED BY <3>2 DEF Matched
  <2> QED BY <2>1, <2>2
<1>11. Kept' BY <1>0, <1>1, <1>2, <1>3, Roles DEF WaitInv, Kept
<1> QED BY <1>4, <1>6, <1>8, <1>10, <1>11 DEF WaitInv

\* The wait on the condition, which returns, sleeps or fails.
LEMMA SleepKeeps ==
  ASSUME WaitInv, NEW p \in Takers, Sleep(p) \/ WaitFails(p)
  PROVE  WaitInv'
PROOF
<1>0. p \in Users /\ p \notin Givers BY Roles
<1>1. PICK from, to :
        /\ Goto(p, from, to) /\ from \in {"sleep", "asleep"}
        /\ \/ to = "lock" /\ pending > 0 /\ pending' = pending - 1 /\ condFailures' = condFailures
           \/ to = "lock" /\ pending' = pending /\ condFailures' = condFailures + 1 /\ MayFail
           \/ to = "asleep" /\ ~(pending > 0) /\ pending' = pending /\ condFailures' = condFailures
  BY DEF Sleep, WaitFails
<1>2. /\ Shifts(place, place', p)
      /\ place[p] = from /\ place'[p] = to
      /\ place' \in [Users -> Places \union {to}]
      /\ \A q \in Users \ {p} : place'[q] = place[q]
  BY <1>0, <1>1, Move DEF WaitInv
<1>3. UNCHANGED <<memory, token, items, lockFailures, missed>>
  BY DEF Sleep, WaitFails
<1>4. Types'
  BY <1>0, <1>1, <1>2, <1>3, Roles, WaitAssumption
     DEF WaitInv, Types, Places, TakerPlaces, GiverPlaces, MayFail
<1>5. Num(place, Users, In) = Num(place, Users, In)'
  BY <1>0, <1>1, <1>2 DEF Shifts, Shift, In
<1>6. Entered' BY <1>3, <1>5 DEF WaitInv, Entered
<1>7. /\ Num(place, Givers, Silent)' = Num(place, Givers, Silent)
      /\ Num(place, Givers, Ungiven)' = Num(place, Givers, Ungiven)
      /\ Num(place, Givers, {"signal"})' = Num(place, Givers, {"signal"})
      /\ Num(place, Takers, Looking)' =
           IF to = "lock" THEN Num(place, Takers, Looking) + 1 ELSE Num(place, Takers, Looking)
  BY <1>0, <1>1, <1>2 DEF Shifts, Shift, Looking
<1>8. Given'
  BY <1>1, <1>2, <1>3, <1>7, Roles DEF WaitInv, Types, Given, Shifts, Shift
<1>9. Supply' >= Supply /\ Supply' \in Nat /\ Supply \in Nat
  BY <1>1, <1>2, <1>3, <1>7 DEF WaitInv, Types, Supply, Shifts, Shift
<1>10. Matched'
  BY <1>0, <1>1, <1>2, <1>3, <1>9, Roles DEF WaitInv, Types, Matched, Falls
<1>11. Kept' BY <1>0, <1>1, <1>2, <1>3, Roles DEF WaitInv, Types, Kept
<1> QED BY <1>4, <1>6, <1>8, <1>10, <1>11 DEF WaitInv

\* A giver puts an item: the signal is under way.
LEMMA GiveKeeps ==
  ASSUME WaitInv, NEW p \in Givers, Give(p)
  PROVE  WaitInv'
PROOF
<1>0. p \in Users /\ p \notin Takers BY Roles
<1>1. Goto(p, "give", "signal") BY DEF Give
<1>2. /\ Shifts(place, place', p)
      /\ place[p] = "give" /\ place'[p] = "signal"
      /\ place' \in [Users -> Places \union {"signal"}]
      /\ \A q \in Users \ {p} : place'[q] = place[q]
  BY <1>0, <1>1, Move DEF WaitInv
<1>3. items' = items + 1 /\ UNCHANGED <<memory, token, pending, lockFailures, condFailures, missed>>
  BY DEF Give
<1>4. Types'
  BY <1>0, <1>2, <1>3, Roles DEF WaitInv, Types, Places, TakerPlaces, GiverPlaces
<1>5. Num(place, Users, In) = Num(place, Users, In)'
  BY <1>0, <1>2 DEF Shifts, Shift, In
<1>6. Entered' BY <1>3, <1>5 DEF WaitInv, Entered
<1>7. /\ Num(place, Givers, Silent)' = Num(place, Givers, Silent)
      /\ Num(place, Givers, Ungiven) = Num(place, Givers, Ungiven)' + 1
      /\ Num(place, Givers, {"signal"})' = Num(place, Givers, {"signal"}) + 1
      /\ Num(place, Takers, Looking)' = Num(place, Takers, Looking)
  BY <1>0, <1>2 DEF Shifts, Shift, Silent, Ungiven
<1>8. Given'
  BY <1>2, <1>3, <1>7, Roles DEF WaitInv, Types, Given, Shifts, Shift
<1>9. Supply' = Supply + 1 /\ Supply \in Nat
  BY <1>2, <1>3, <1>7 DEF WaitInv, Types, Supply, Shifts, Shift
<1>10. Matched'
  BY <1>0, <1>2, <1>3, <1>9, Roles DEF WaitInv, Types, Matched, Falls
<1>11. Kept' BY <1>0, <1>2, <1>3, Roles DEF WaitInv, Kept
<1> QED BY <1>4, <1>6, <1>8, <1>10, <1>11 DEF WaitInv

\* A signal wakes a sleeper, or is kept, or misses who is about to wait.
LEMMA SignalKeeps ==
  ASSUME WaitInv, NEW p \in Givers, Signal(p)
  PROVE  WaitInv'
PROOF
<1>0. p \in Users /\ p \notin Takers BY Roles
<1>1. UNCHANGED <<memory, token, items, lockFailures, condFailures>> /\ place[p] = "signal"
  BY DEF Signal
<1>2. CASE Asleep # {}
  <2>1. PICK q \in Asleep : place' = [place EXCEPT ![p] = "unlock", ![q] = "lock"]
    BY <1>2 DEF Signal
  <2>2. q \in Takers /\ q \in Users /\ q \notin Givers /\ place[q] = "asleep" /\ q # p
    BY <1>0, Roles DEF Asleep
  <2>3. UNCHANGED <<pending, missed>> BY <1>2 DEF Signal
  <2> DEFINE mid == [place EXCEPT ![p] = "unlock"]
  <2>4. mid \in [Users -> Places] /\ place \in [Users -> Places]
    BY DEF WaitInv, Types, Places, TakerPlaces
  <2>5. mid[p] = "unlock" /\ \A r \in Users \ {p} : mid[r] = place[r]
    BY <1>0, <2>4
  <2>6. place' = [mid EXCEPT ![q] = "lock"] BY <2>1, <2>2
  <2>7. Shifts(place, mid, p) BY <1>0, <2>4, Counts
  <2> HIDE DEF mid
  <2>8. Shifts(mid, place', q) BY <2>2, <2>4, <2>6, Counts
  <2>9. /\ place'[p] = "unlock" /\ place'[q] = "lock"
        /\ \A r \in Users \ {p, q} : place'[r] = place[r]
    BY <1>0, <2>2, <2>4, <2>5, <2>6
  <2>10. Types'
    BY <1>1, <2>2, <2>3, <2>4, <2>6, <2>9, Roles
       DEF WaitInv, Types, Places, TakerPlaces, GiverPlaces
  <2>11. Num(place, Users, In)' = Num(place, Users, In)
    BY <1>0, <1>1, <2>2, <2>5, <2>7, <2>8, <2>9 DEF Shifts, Shift, In
  <2>12. Entered' BY <1>1, <2>11 DEF WaitInv, Entered
  <2>13. /\ Num(place, Givers, Silent) = Num(place, Givers, Silent)' + 1
         /\ Num(place, Givers, Ungiven)' = Num(place, Givers, Ungiven)
         /\ Num(place, Givers, {"signal"}) = Num(place, Givers, {"signal"})' + 1
         /\ Num(place, Takers, Looking)' = Num(place, Takers, Looking) + 1
    BY <1>0, <1>1, <2>2, <2>5, <2>7, <2>8, <2>9
       DEF Shifts, Shift, Silent, Ungiven, Looking
  <2>14. Given'
    BY <1>1, <2>3, <2>7, <2>8, <2>13, Roles DEF WaitInv, Types, Given, Shifts, Shift
  <2>15. Supply' = Supply
    BY <2>3, <2>7, <2>8, <2>13 DEF WaitInv, Types, Supply, Shifts, Shift
  <2>16. Matched'
    BY <1>0, <1>1, <2>2, <2>3, <2>9, <2>15, Roles DEF WaitInv, Matched, Falls
  <2>17. Kept' BY <1>0, <1>1, <2>2, <2>3, <2>9, Roles DEF WaitInv, Kept
  <2> QED BY <2>10, <2>12, <2>14, <2>16, <2>17 DEF WaitInv
<1>3. CASE Asleep = {}
  <2>1. Goto(p, "signal", "unlock") BY <1>3 DEF Signal, Goto
  <2>2. /\ Shifts(place, place', p)
        /\ place[p] = "signal" /\ place'[p] = "unlock"
        /\ place' \in [Users -> Places \union {"unlock"}]
        /\ \A q \in Users \ {p} : place'[q] = place[q]
    BY <1>0, <2>1, Move DEF WaitInv
  <2>3. /\ pending' = IF Keeps THEN pending + 1 ELSE pending
        /\ missed' = IF Keeps THEN missed ELSE missed \union Falling
    BY <1>3 DEF Signal
  <2>4. Types'
    BY <1>0, <1>1, <2>2, <2>3, Roles
       DEF WaitInv, Types, Places, TakerPlaces, GiverPlaces, Falling
  <2>5. Num(place, Users, In)' = Num(place, Users, In)
    BY <1>0, <2>2 DEF Shifts, Shift, In
  <2>6. Entered' BY <1>1, <2>5 DEF WaitInv, Entered
  <2>7. /\ Num(place, Givers, Silent) = Num(place, Givers, Silent)' + 1
        /\ Num(place, Givers, Ungiven)' = Num(place, Givers, Ungiven)
        /\ Num(place, Givers, {"signal"}) = Num(place, Givers, {"signal"})' + 1
        /\ Num(place, Takers, Looking)' = Num(place, Takers, Looking)
    BY <1>0, <2>2 DEF Shifts, Shift, Silent, Ungiven
  <2>8. Given'
    BY <1>1, <2>2, <2>3, <2>7, Roles DEF WaitInv, Types, Given, Shifts, Shift
  <2>9. Matched'
    <3>1. CASE Keeps
      <4>1. Supply' = Supply
        BY <3>1, <2>2, <2>3, <2>7 DEF WaitInv, Types, Supply, Shifts, Shift
      <4> QED BY <3>1, <4>1, <1>0, <1>1, <2>2, <2>3, Roles DEF WaitInv, Matched, Falls
    <3>2. CASE ~Keeps
      BY <3>2, <1>0, <1>3, <2>2, <2>3, Roles DEF Matched, Falls, Falling, Asleep
    <3> QED BY <3>1, <3>2
  <2>10. Kept'
    BY <1>0, <1>1, <1>3, <2>2, <2>3, Roles DEF WaitInv, Kept, Keeps, Asleep
  <2> QED BY <2>4, <2>6, <2>8, <2>9, <2>10 DEF WaitInv
<1> QED BY <1>2, <1>3

----------------------------------------------------------------------------
(* The theorems.                                                           *)

LEMMA WaitStep == WaitInv /\ [WaitNext]_waitVars => WaitInv'
PROOF
<1> SUFFICES ASSUME WaitInv, [WaitNext]_waitVars PROVE WaitInv'
  OBVIOUS
<1>1. CASE \E p \in Users : Lock(p) \/ LockFails(p) BY <1>1, LockKeeps
<1>2. CASE \E p \in Users : Unlock(p) BY <1>2, UnlockKeeps
<1>3. CASE \E p \in Takers : Check(p) BY <1>3, CheckKeeps
<1>4. CASE \E p \in Takers : Sleep(p) \/ WaitFails(p) BY <1>4, SleepKeeps
<1>5. CASE \E p \in Givers : Give(p) BY <1>5, GiveKeeps
<1>6. CASE \E p \in Givers : Signal(p) BY <1>6, SignalKeeps
<1>7. CASE UNCHANGED waitVars
  BY <1>7 DEF waitVars, WaitInv, Types, Entered, Given, Matched, Supply, Kept, Num
<1> QED BY <1>1, <1>2, <1>3, <1>4, <1>5, <1>6, <1>7 DEF WaitNext

\* The inductive invariant of the mutex and the condition: who is inside, what
\* was given and signalled, and who will still look.
THEOREM WaitsKept == WaitSpec => []WaitInv
PROOF
<1>1. WaitInit => WaitInv BY WaitBegins
<1>2. WaitInv /\ [WaitNext]_waitVars => WaitInv' BY WaitStep
<1> QED BY <1>1, <1>2, PTL DEF WaitSpec

\* A condition never remembers more signals than there are givers, nor is
\* there ever an item too many or too few.
THEOREM WaitTypes == WaitSpec => []WaitTypeOK
PROOF
<1>1. WaitInv => WaitTypeOK
  <2> SUFFICES ASSUME WaitInv PROVE WaitTypeOK
    OBVIOUS
  <2>1. Num(place, Givers, Silent) \in Nat /\ Num(place, Givers, Ungiven) \in Nat
    <3>1. /\ IsFiniteSet({q \in Givers : place[q] \in Silent})
          /\ IsFiniteSet({q \in Givers : place[q] \in Ungiven})
      BY FS_Subset, WaitAssumption DEF Users
    <3> QED BY <3>1, FS_CardinalityType DEF Num
  <2>2. pending \in 0 .. Cardinality(Givers) /\ items \in 0 .. Cardinality(Givers)
    BY <2>1, Roles DEF WaitInv, Types, Given
  <2> QED BY <2>2 DEF WaitInv, Types, WaitTypeOK, Places, TakerPlaces, GiverPlaces
<1> QED BY <1>1, WaitsKept, PTL

\* For any number of contexts, as many are inside the mutex at once as waits on
\* it have failed, and one more.
THEOREM MutexExcludes == WaitSpec => []Exclusion
PROOF
<1>1. WaitInv => Exclusion
  BY DEF WaitInv, Entered, Exclusion, Num, Inside, In
<1> QED BY <1>1, WaitsKept, PTL

\* Whatever the condition remembers, a taker is left asleep beside an item only
\* by a signal that was lost while it was between the two calls of BK_IPC_WAIT.
THEOREM WakeupsAccounted == WaitSpec => []NoLostWakeup
PROOF
<1>1. WaitInv => NoLostWakeup
  <2> SUFFICES ASSUME WaitInv, Stuck, items > 0
               PROVE  Asleep \subseteq missed /\ (memory = "all" => Asleep = {})
    BY DEF NoLostWakeup
  <2>1. SUFFICES ASSUME NEW q \in Takers \ missed, place[q] = "asleep"
                 PROVE  FALSE
    BY <2>1 DEF Asleep, WaitInv, Kept
  <2>2. Num(place, Givers, {"signal"}) = 0 /\ Num(place, Takers, Looking) = 0
    <3>1. {r \in Givers : place[r] \in {"signal"}} = {} /\ {r \in Takers : place[r] \in Looking} = {}
      BY Roles DEF Stuck, Looking
    <3> QED BY <3>1, FS_EmptySet DEF Num
  <2>3. pending = 0 BY <2>1 DEF WaitInv, Kept
  <2>4. items <= 0 BY <2>1, <2>2, <2>3 DEF WaitInv, Matched, Supply, Falls
  <2> QED BY <2>4 DEF WaitInv, Types
<1> QED BY <1>1, WaitsKept, PTL

----------------------------------------------------------------------------
(* The two together                                                        *)

\* What one component does is invisible to the other.
THEOREM Composed == ConcurrentSpec => LockSpec /\ WaitSpec
<1>1. ConcurrentInit => LockInit /\ WaitInit BY DEF ConcurrentInit
<1>2. [ConcurrentNext]_concurrentVars => [LockNext]_lockVars /\ [WaitNext]_waitVars
  BY DEF ConcurrentNext, concurrentVars
<1> QED BY <1>1, <1>2, PTL DEF ConcurrentSpec, LockSpec, WaitSpec

\* A lock word is 0 or 1 and a condition remembers no more signals than there
\* are givers, whichever of the two components runs.
THEOREM ConcurrentTypes == ConcurrentSpec => []ConcurrentTypeOK
<1>1. LockTypeOK /\ WaitTypeOK => ConcurrentTypeOK BY DEF ConcurrentTypeOK
<1> QED BY <1>1, Composed, Holders, WaitTypes, PTL
=============================================================================
