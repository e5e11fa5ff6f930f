------------------------------ MODULE IrqLock ------------------------------
(***************************************************************************)
(* The spinlocks of atomic_common.h and the interrupt switch they are      *)
(* combined with (bk_spin_lock_irq, and the "state; cli; ...; sti if it    *)
(* was on" sequence of interrupt.h).                                       *)
(*                                                                         *)
(* A CPU runs a task; while its interrupt flag is on the task may be       *)
(* interrupted by a handler, which runs to its end on the same CPU with    *)
(* the flag off.  The contexts that take locks are thus the tasks and the  *)
(* handlers, and an interrupted task does not move.                        *)
(*                                                                         *)
(* The callers are the environment.  They keep the discipline the two      *)
(* families of functions are made for: a lock a handler may wait for is    *)
(* only taken with interrupts off, waiting follows the order of the locks  *)
(* and sections are left in the opposite order of entering.                *)
(***************************************************************************)
EXTENDS Naturals, FiniteSets

CONSTANTS
  Cpus,
  Locks,          \* numbered: a context waits only for a lock below those it holds
  HandlerLocks,   \* the locks a handler waits for
  NoLock          \* the lock of a context that is in no operation

ASSUME LockAssumption ==
  /\ Locks \subseteq Nat
  /\ NoLock \notin Locks
  /\ HandlerLocks \subseteq Locks
  /\ \A h \in HandlerLocks, l \in Locks \ HandlerLocks : h < l

Ctx == Cpus \X {"task", "handler"}
Cpu(x) == x[1]
Handler(c) == <<c, "handler">>
Task(c) == <<c, "task">>

VARIABLES
  lockWord,   \* the counter of each lock: 0 free, 1 taken
  irq,        \* IF of each CPU
  inHandler,  \* the CPU runs its handler
  doing,      \* what the context does next in the operation it is in
  op,         \* that operation: its lock, whether it is the _irq one, the flags it saved
  held,       \* the locks the context holds
  section     \* of each of them: the operation that took it, the locks held before

lockVars == <<lockWord, irq, inHandler, doing, op, held, section>>

Ops == [lock : Locks, irq : BOOLEAN, flags : BOOLEAN]
NoOp == [lock |-> NoLock, irq |-> FALSE, flags |-> FALSE]
NoSection == [irq |-> FALSE, flags |-> FALSE, outer |-> {}]
Idle == "idle"
Waiting(x) == doing[x] \in {"test", "spin"}

(* The CPU executes this context now. *)
Running(x) == (x = Handler(Cpu(x))) <=> inHandler[Cpu(x)]

LockInit ==
  /\ lockWord = [l \in Locks |-> 0]
  /\ irq = [c \in Cpus |-> TRUE]
  /\ inHandler = [c \in Cpus |-> FALSE]
  /\ doing = [x \in Ctx |-> Idle]
  /\ op = [x \in Ctx |-> NoOp]
  /\ held = [x \in Ctx |-> {}]
  /\ section = [x \in Ctx |-> [l \in Locks |-> NoSection]]

----------------------------------------------------------------------------
(* Interrupts: the entry clears IF, the return sets it again. *)

Interrupt(c) ==
  /\ irq[c]
  /\ ~inHandler[c]
  /\ inHandler' = [inHandler EXCEPT ![c] = TRUE]
  /\ irq' = [irq EXCEPT ![c] = FALSE]
  /\ UNCHANGED <<lockWord, doing, op, held, section>>

Return(c) ==
  /\ inHandler[c]
  /\ doing[Handler(c)] = Idle
  /\ held[Handler(c)] = {}
  /\ inHandler' = [inHandler EXCEPT ![c] = FALSE]
  /\ irq' = [irq EXCEPT ![c] = TRUE]
  /\ UNCHANGED <<lockWord, doing, op, held, section>>

----------------------------------------------------------------------------
(* What the callers may do. *)

MayWaitFor(x, l) == l \notin held[x] /\ \A m \in held[x] : l < m

(* A handler waits for none but the locks meant for it. *)
InReach(x, l) == x = Handler(Cpu(x)) => l \in HandlerLocks

(* A plain operation on such a lock needs interrupts off already. *)
PlainIsSafe(x, l) == l \in HandlerLocks => ~irq[Cpu(x)]

Enter(x, l, saved) ==
  /\ held' = [held EXCEPT ![x] = held[x] \union {l}]
  /\ section' = [section EXCEPT ![x][l] = [irq |-> saved.irq,
                   flags |-> saved.flags, outer |-> held[x]]]

----------------------------------------------------------------------------
(* bk_spin_lock, from its call on. *)
SpinLock(x, l) ==
  /\ Running(x) /\ doing[x] = Idle
  /\ MayWaitFor(x, l) /\ InReach(x, l) /\ PlainIsSafe(x, l)
  /\ doing' = [doing EXCEPT ![x] = "test"]
  /\ op' = [op EXCEPT ![x] = [lock |-> l, irq |-> FALSE, flags |-> FALSE]]
  /\ UNCHANGED <<lockWord, irq, inHandler, held, section>>

(* bk_spin_lock_irq: the flags are read, ... *)
SpinLockIrq(x, l) ==
  /\ Running(x) /\ doing[x] = Idle
  /\ MayWaitFor(x, l) /\ InReach(x, l)
  /\ doing' = [doing EXCEPT ![x] = "cli"]
  /\ op' = [op EXCEPT ![x] = [lock |-> l, irq |-> TRUE, flags |-> irq[Cpu(x)]]]
  /\ UNCHANGED <<lockWord, irq, inHandler, held, section>>

\* Faulty variant: the flags are saved but interrupts stay on.
CliMissing(x) ==
  /\ Running(x) /\ doing[x] = "cli"
  /\ doing' = [doing EXCEPT ![x] = "test"]
  /\ UNCHANGED <<lockWord, irq, inHandler, op, held, section>>

(* ... interrupts are disabled, and the spinlock is taken. *)
Cli(x) ==
  /\ Running(x) /\ doing[x] = "cli"
  /\ irq' = [irq EXCEPT ![Cpu(x)] = FALSE]
  /\ doing' = [doing EXCEPT ![x] = "test"]
  /\ UNCHANGED <<lockWord, inHandler, op, held, section>>

(* The outer loop: an atomic exchange with 1 that wins if it returns 0. *)
TestAndSet(x) ==
  LET l == op[x].lock IN
  /\ Running(x) /\ doing[x] = "test"
  /\ lockWord' = [lockWord EXCEPT ![l] = 1]
  /\ IF lockWord[l] = 0
     THEN /\ doing' = [doing EXCEPT ![x] = Idle]
          /\ op' = [op EXCEPT ![x] = NoOp]
          /\ Enter(x, l, op[x])
     ELSE /\ doing' = [doing EXCEPT ![x] = "spin"]
          /\ UNCHANGED <<op, held, section>>
  /\ UNCHANGED <<irq, inHandler>>

\* Faulty variant: the inner loop takes the lock it saw free, with no exchange.
SpinTakes(x) ==
  /\ Running(x) /\ doing[x] = "spin"
  /\ lockWord[op[x].lock] = 0
  /\ doing' = [doing EXCEPT ![x] = Idle]
  /\ op' = [op EXCEPT ![x] = NoOp]
  /\ Enter(x, op[x].lock, op[x])
  /\ UNCHANGED <<lockWord, irq, inHandler>>

\* Faulty variant: the inner loop waits while the lock is free.
SpinReversed(x) ==
  /\ Running(x) /\ doing[x] = "spin"
  /\ lockWord[op[x].lock] = 1
  /\ doing' = [doing EXCEPT ![x] = "test"]
  /\ UNCHANGED <<lockWord, irq, inHandler, op, held, section>>

(* The inner loop reads until it sees 0, then the exchange is tried again. *)
Spin(x) ==
  /\ Running(x) /\ doing[x] = "spin"
  /\ lockWord[op[x].lock] = 0
  /\ doing' = [doing EXCEPT ![x] = "test"]
  /\ UNCHANGED <<lockWord, irq, inHandler, op, held, section>>

(* bk_spin_trylock: one compare-and-swap, no waiting, so in any order. *)
TryLock(x, l) ==
  /\ Running(x) /\ doing[x] = Idle
  /\ l \notin held[x] /\ PlainIsSafe(x, l)
  /\ IF lockWord[l] = 0
     THEN /\ lockWord' = [lockWord EXCEPT ![l] = 1]
          /\ Enter(x, l, [irq |-> FALSE, flags |-> FALSE])
     ELSE UNCHANGED <<lockWord, held, section>>
  /\ UNCHANGED <<irq, inHandler, doing, op>>

(* bk_spin_unlock, and the first half of bk_spin_unlock_irq. *)
SpinUnlock(x, l) ==
  /\ Running(x) /\ doing[x] = Idle
  /\ l \in held[x]
  /\ \A m \in held[x] : l \notin section[x][m].outer
  /\ lockWord' = [lockWord EXCEPT ![l] = 0]
  /\ held' = [held EXCEPT ![x] = held[x] \ {l}]
  /\ section' = [section EXCEPT ![x][l] = NoSection]
  /\ IF section[x][l].irq
     THEN /\ doing' = [doing EXCEPT ![x] = "restore"]
          /\ op' = [op EXCEPT ![x] = [lock |-> l, irq |-> TRUE,
                                        flags |-> section[x][l].flags]]
     ELSE UNCHANGED <<doing, op>>
  /\ UNCHANGED <<irq, inHandler>>

\* Faulty variant: leaving a section switches interrupts on in any case.
RestoreAlways(x) ==
  /\ Running(x) /\ doing[x] = "restore"
  /\ irq' = [irq EXCEPT ![Cpu(x)] = TRUE]
  /\ doing' = [doing EXCEPT ![x] = Idle]
  /\ op' = [op EXCEPT ![x] = NoOp]
  /\ UNCHANGED <<lockWord, inHandler, held, section>>

(* Interrupts go on again only if they were on when the flags were read. *)
Restore(x) ==
  /\ Running(x) /\ doing[x] = "restore"
  /\ irq' = [irq EXCEPT ![Cpu(x)] = irq[Cpu(x)] \/ op[x].flags]
  /\ doing' = [doing EXCEPT ![x] = Idle]
  /\ op' = [op EXCEPT ![x] = NoOp]
  /\ UNCHANGED <<lockWord, inHandler, held, section>>

LockNext ==
  \/ \E c \in Cpus : Interrupt(c) \/ Return(c)
  \/ \E x \in Ctx : Cli(x) \/ TestAndSet(x) \/ Spin(x) \/ Restore(x)
  \/ \E x \in Ctx, l \in Locks :
       SpinLock(x, l) \/ SpinLockIrq(x, l) \/ TryLock(x, l) \/ SpinUnlock(x, l)

LockSpec == LockInit /\ [][LockNext]_lockVars

(* A CPU goes on with an operation that was begun, a section is left and   *)
(* a handler returns.  Strong where interrupts or other sections come in   *)
(* between.  Nothing makes an exchange win.                                *)
Step(x) == Cli(x) \/ TestAndSet(x) \/ Spin(x) \/ Restore(x)
Leave(x) == \E l \in Locks : SpinUnlock(x, l)

LockFairness ==
  /\ \A c \in Cpus : /\ SF_lockVars(Step(Task(c)) \/ Leave(Task(c)))
                     /\ WF_lockVars(Step(Handler(c)) \/ Leave(Handler(c)))
                     /\ WF_lockVars(Return(c))
  /\ \A x \in Ctx, l \in HandlerLocks : SF_lockVars(SpinUnlock(x, l))

FairLockSpec == LockSpec /\ LockFairness

----------------------------------------------------------------------------
LockTypeOK ==
  /\ lockWord \in [Locks -> {0, 1}]
  /\ irq \in [Cpus -> BOOLEAN]
  /\ inHandler \in [Cpus -> BOOLEAN]
  /\ doing \in [Ctx -> {Idle, "cli", "test", "spin", "restore"}]
  /\ op \in [Ctx -> Ops \union {NoOp}]
  /\ held \in [Ctx -> SUBSET Locks]
  /\ section \in [Ctx -> [Locks -> [irq : BOOLEAN, flags : BOOLEAN,
                                    outer : SUBSET Locks]]]

(* The lock word says 1 exactly while one context is between the exchange  *)
(* that returned 0 and the release, and never while two are: whatever CPUs *)
(* race in the two nested loops of bk_spin_lock, in bk_spin_trylock and    *)
(* with their own handlers.                                                *)
OneHolder ==
  \A l \in Locks :
    LET holders == {x \in Ctx : l \in held[x]} IN
    /\ \A x, y \in holders : x = y
    /\ lockWord[l] = 1 <=> holders # {}

(* Interrupts are off on a CPU exactly while its handler runs or its task  *)
(* is between the cli and the restore of the outermost _irq section: the   *)
(* inner sections, whose saved flags say "off", do not switch them on.     *)
OffSection(x) ==
  \/ \E l \in held[x] : section[x][l].irq /\ section[x][l].flags
  \/ doing[x] \in {"test", "spin", "restore"} /\ op[x].irq /\ op[x].flags

InterruptsExact ==
  \A c \in Cpus : irq[c] <=> ~inHandler[c] /\ ~OffSection(Task(c))

(* y must move before x can: it holds the lock x waits for, or it is the   *)
(* handler that interrupted x.                                             *)
WaitsFor(x, y) ==
  \/ Waiting(x) /\ op[x].lock \in held[y]
  \/ \E c \in Cpus : inHandler[c] /\ x = Task(c) /\ y = Handler(c)

(* No circle of contexts that wait for one another: in particular no       *)
(* handler spins for a lock of the task it interrupted, which is what      *)
(* bk_spin_lock_irq is for.                                                *)
NoCircularWait ==
  \A S \in (SUBSET Ctx) \ {{}} : \E x \in S : \A y \in S : ~WaitsFor(x, y)

(* A lock is always given back, although interrupts, other CPUs' exchanges *)
(* and nested sections come in between.  Only a holder that waits for a    *)
(* lower lock may keep it for ever, and only while that lock keeps passing *)
(* from hand to hand: the exchange is not fair.                            *)
EveryLockReturned ==
  \A l \in Locks :
    \/ []<>(lockWord[l] = 0)
    \/ \E m \in Locks : m < l /\ []<>(lockWord[m] = 0) /\ []<>(lockWord[m] = 1)
============================================================================
