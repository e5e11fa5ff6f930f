# Verification of biblekernel

TLA+ models of the executable parts of biblekernel, checked by TLC on small
instances and proved with TLAPS for every value of the parameters.

The repository is a kernel made of headers: 46 of them, most of which declare
types, constants and prototypes.  Code with bodies is in the two schedulers
(`tree_sched.h`, `bitmap.h`), the linked lists (`queue.h`), the helpers
(`string.h`, `bitcount.h`, `endian.h`, `select.h`, `atomic_common.h`) and in
macros and inline functions of the other headers.  The models go where there is
something to execute: first the schedulers, then what they are built from, then
the macros and the tables of numbers and flags that have rules of their own.

## The system

| component | source | state | operations | status |
|---|---|---|---|---|
| Tree scheduler | `incl/bible/tree_sched.h` | red-black tree of nodes keyed by Virtual Fire, its count, a spinlock, per node times, weights and a lag history | init, create, insert, remove, pick, update, finish, set weight/request, system time, justice | modelled: `TreeSched`, `VirtualFire` |
| Bitmap scheduler | `incl/bible/bitmap.h` | 32 levels with a queue and a counter, a bitmap of the levels in use, the clock, the current entity, EDGE groups | init, create, register, enqueue, dequeue, pick, tick, aging, EDGE | partly: `BitmapSched`, `EdgeGroups` |
| Lists | `incl/bible/queue.h` | heads and entries with next and previous pointers | insert, remove, concatenate, iterate | modelled: `BkQueue` |
| Strings | `incl/bible/string.h` | none (`bk_strtok` keeps one pointer) | copy, compare, search, convert, tokenise | modelled: `CString` |
| Bits, byte order, fd sets | `bitcount.h`, `endian.h`, `select.h` | a word, a value on a wire, two sets | count, scan, rotate, swap, set operations, walk | modelled: `BitOps`, `ByteOrder`, `FdSet` |
| Atomics and spinlocks | `incl/bible/atomic_common.h` | words, locks | counters, compare and swap, bits, spinlock, trylock, `_irq` | modelled: `AtomicOps`, `IrqLock` |
| Interrupt switch | `interrupt.h` | the flag of each CPU | enable, disable, save, restore | partly: `IrqLock`, `Codes`, `FlagWords` |
| Register handles | `incl/bible/regsister.h` | handle = pointer and type | macros; the functions are only declared | partly: `Addresses`, `Booleans`, `Codes` |
| Processes, tasks, threads, activities | `base/kernel/proc/*.h` | structures, flags, list heads | flag macros; prototypes | partly: `FlagWords` |
| IPC, driver messages | `ipc.h`, `base/driver/OSDKit/OSDMsg.h` | mutex and condition objects, message layouts | lock, wait and signal macros, checksums; prototypes | partly: `IpcWait`, `Records`, `Codes` |
| Memory | `vm.h`, `pmap.h` | none | page and frame arithmetic; `bk_vm_alloc` declared only | partly: `Addresses` |
| Accounting, file systems | `acct.h`, `ctfs.h`, `bofs.h`, `biblefs.h` | records | validation, checksums, record flags; prototypes | partly: `Records`, `FlagWords` |
| Exceptions | `exception.h` | a stack of frames per thread | the TRY ... END_TRY macros | partly: `Frames`, `Codes` |
| Kernel objects, executables | `kernl_object.h`, `exec_format.h` | flags, types | two predicates; prototypes | partly: `FlagWords`, `Codes` |
| System calls | `syscalls.h` and the prototypes of `megakernel.h`, `task.h`, `pthread.h` | none | numbers | partly: `Codes` |
| Base types | `ktypes.h`, `OSDErrno.h`, `OSDTypes.h`, ... | none | truth values, statuses and their predicates | partly: `Booleans`, `Codes` |
| Printing | `printl.h`, `prints.h`, `kprintn.h` | none | prototypes | not modelled |

How they interact: the schedulers hold what `proc.h`, `task.h`, `thread.h` and
`activity.h` register, by register handle; they allocate with `bk_vm_alloc`;
they link histories and global queues with the macros of `queue.h`; the bitmap
scheduler takes its locks with `sched_spin_lock`, which `tree_sched.h` defines.
`select.h` builds on `bitcount.h`; the spinlock with interrupts builds on the
switch of `interrupt.h`; almost every header takes its truth values from `vm.h`.
CPUs call the schedulers concurrently, and the timer calls `bk_sched_tick`.

What is hard in it, and what makes it correct:

* **Tree scheduler.** Concurrent calls on one lock; a call nested inside
  another under it; a key that changes while its node is in the tree; pointer
  surgery in rotations and removal; allocation failures.  Correct means: one CPU
  in the tree at a time, every lock given back, a red-black search tree between
  calls, the pick is the least key and the oldest among equals, an exact count.
* **Bitmap scheduler.** Three records of the same fact (queue, counter, bit)
  found through a priority that feedback and aging change; times charged at
  switches.  Correct means: the records agree, a pick takes the highest
  priority, no time is charged twice.
* **Lists.** Pointers to pointers and a tail pointer that must follow every
  removal; iteration that allows removal.  Correct means: walking forwards and
  backwards spells the intended sequence whatever was done before.

* **Spinlocks and interrupts.** Tasks and handlers of several CPUs, nested
  sections, a saved flag per section.  Correct means: one holder of a lock, no
  handler that waits for the task under it, interrupts on again after the
  outermost section and not before, every lock given back.
* **Atomic counters.** Functions that return the old value beside functions that
  return the new one.  Correct means: no ticket twice, nothing drained twice, the
  last reference frees once.
* **Wait and signal.** A condition wait made of two calls, waits that fail.
  Correct means: who is let in beside a holder, and who is left asleep, can be
  told.
* **Accounting of a node.** Wrapping fixed-point arithmetic over a list that
  grows at the wrong end.  Correct means: the results are exact where the format
  reaches, and which of them can ever move.
* **Words, strings, sets, numbers, flags, records, frames.** Pure code, hard at
  the boundaries: full words, shifts by the width, exact room, overlapping
  regions, names that share a number or a bit.  Correct means: agreement with the
  plain definition on sets and sequences.

`PROJECT.json` lists the hazards with their lines and the properties on watch.

## Modules

    ReadyQueue       a queue ordered by key, no tree             (abstract)
      ^ implemented by
    TreeSched        the tree, the lock, the calls of each CPU
      ^ TreeSchedProps      properties, refinement mapping
          ^ MCTreeSched     instances for TLC
          ^ TreeSchedProofs theorems on the lock, times, types and members
              ^ TreeLinks         lemmas: rotation, new leaf, removal; the turns of
                                  both repairs
                  ^ TreeShapeProofs theorems on shape, colours, order and that
                                    the tree implements ReadyQueue

    BitmapSched      the levels, bitmap and clock
      ^ BitmapSchedProps    properties
          ^ MCBitmapSched   instance
          ^ BitmapSchedProofs theorems

    BkQueue          the five kinds of lists on memory, and their properties
      ^ MCBkQueue           instance
      ^ BkQueueProofs       theorems

    IrqLock          spinlocks on CPUs with interrupt handlers
    IpcWait          mutex and condition of ipc.h
      ^ MCConcurrent        both together, instance
          ^ ConcurrentProofs theorems

    Words            words as sets of bit positions, and arithmetic on them
      ^ BitOps       counts, scans, rotations, fields
          ^ FdSet    descriptor sets (an instance of BitOps)
      ^ ByteOrder    values sent between hosts
      ^ Booleans     the three definitions of truth
          ^ Records  checksums and validations (an instance of Booleans)
    CString          memory, strings, tokens, numbers as text
    AtomicOps        counters and bits used by several contexts
    VirtualFire      one node's fixed-point accounting and lag history
    EdgeGroups       groups of levels with a deadline, the walk over a level
    Addresses        pages, frames, handles
    FlagWords        flag words and bit-fields
    Codes            numbers of system calls, statuses, types
    Frames           exception frames
      ^ MCLibrary           instance of all of these, one at a time
          ^ LibraryProofs   theorems on AtomicOps, Frames, Records, EdgeGroups,
                            VirtualFire, BitOps, ByteOrder, FdSet, CString;
                            the last five and Words in NumberProofs, which it extends

### TreeSched

One action is one step a CPU takes between two points where others may run: a
test-and-set, one turn of a loop, or the code between.  `pc`, `call`, `arg`,
`cur` and `par` are a CPU's place in the code, the call it made and the local
`node`, `x` and `y`.  `link`, `colour`, `root` and `count` are `n_left`,
`n_right`, `n_parent`, `n_color`, `t_root` and `t_count`.  `members` is a
history variable: the nodes linked in.

| actions | code |
|---|---|
| `NodeCreate` | `bk_sched_node_create` |
| `Acquire`, `Release`, `SpinLock` | `sched_spin_lock`, `sched_spin_unlock` |
| `InsertStart` ... `InsertDone` | `bk_sched_insert`: search, link, rebalancing |
| `RemoveSearch`, `RemoveSplice`, `RemoveDone` | `bk_sched_remove` |
| `DelFixup...`, `Transplant`, `RemoveDescend` | `rb_delete_fixup`, `rb_transplant`, `rb_minimum`: declared at lines 668-670 and defined nowhere; the textbook's, which the names and the calls follow |
| `PickEmpty` ... `PickDone` | `bk_sched_pick_next` |
| `Update`, `UpdateRelease` | `bk_sched_node_update` |
| `Finish`, `FinishUpdate` | `bk_sched_finish_node` and its nested call |
| `Tune` | the calls that set or read a weight, a request, the system time or the justice under the lock |

Abstractions: the result of the Virtual Fire formula is any member of `Fires`,
and the fields only the formula reads are left out; memory is a set of blocks,
`Base` being the one at the kernel base, which a failed allocation yields
because its offset is 0.  Left and right cases of the code are one action with a
side.  What callers may do is in `Callable`: they insert a node that is not in
the tree, remove one that is, finish the one they picked; `bk_sched_insert` and
`bk_sched_remove` take no lock of their own, so callers hold it around them, as
`bk_sched_finish_node` does.

### BitmapSched

A call holds `bs_lock` from its first statement to its last and is one action.
`queue[l]` is the set of entities in the queue of level l: the CFS and EEVDF
queues are declared and not defined, so only membership, and the choice their
declarations name (`Candidates`), is assumed.  `bitmap`, `count`, `prio`, the
flags and the times are the fields of the same name.  `Visits` is what `rb_first` and `rb_next` of this header reach: the
leftmost node and at most one more.  Not in the model: the RR and FIFO branches
(no level has these types, and the branch at line 763 cannot be reached),
statistics.  `EdgeGroups` has the groups: `Create`, `AssignLevel`, `Renew` and
`UpdateDeadlines` are the calls, and a level's tree is the set of its places,
because the walk stops at a node that has no right child (line 409).

### BkQueue

The macros work on memory: `mem` maps each field to what it holds, and a pointer
to a pointer is a field.  One run covers all kinds (`kind`) and both positions
of a CIRCLEQ entry in its structure (`overlay`).  `lists` is the history
variable that says what the operations asked for.  Callers insert an element
that is in no list, and a loop body moves only the element it is at (`Move`).
`Node` numbers the nodes of a list from the head to what comes after the last
element; `Forward`, `Backward` and `LastExact` say what their fields hold, and so
that following the links spells the sequence.

### IrqLock

A context is the task or the handler of a CPU; an action is one step of one
context: reading the flags, `cli`, the exchange of the outer loop, a turn of the
inner loop, the release, the restore.  `lockWord` is `counter`; `irq` is the
interrupt flag of a CPU; `op` is what the context's call keeps in its arguments
and locals; `held` and `section` are history, the second also the flags a caller
keeps for `bk_spin_unlock_irq`.  `Interrupt` and `Return` are the processor.
Callers keep the discipline the functions are made for: locks are waited for in
order, a lock that handlers take is taken with interrupts off.  `TryLock` may
break the order, as it does not wait.

### IpcWait

`BK_IPC_WAIT` is three steps (give the mutex back, wait, take it again), and
every wait may fail: the macro for the mutex ignores it and the macro for the
condition does not look.  The objects are declared only, so a condition may keep
no signal, the last one or all (`memory`).  Takers and givers use them around a
count of items.

### AtomicOps

A `__sync` builtin is one step.  `role` is what the words are used for: tickets,
a counter that is drained by compare and swap, references, a word of claimed
flags, an array of claimed bits.  `issued`, `owner` and `due` are history.

### VirtualFire

One node: `Record`, `Push` and `Recompute` are the body of
`bk_sched_node_update`; `Sum`, `Exp`, `Mercy`, `Debt`, ... are the `sched_calc_*`
functions over the list that `head` and `next` make.  A failed allocation links
the entry at the kernel base.  The lock is reduced to `held`: the calls are
one after the other here, and an update whose walk never ends, or a finish, keeps it.
But the caller reads the time before it waits for the lock (882), so an update
takes any time up to now, and `samples` tells whether they came in order (`InTimeOrder`).
`TreeSched` interleaves the calls and takes the key as any value.

### Words and what is built on them

A word is the set of the positions of its ones; `Plus`, `Minus`, `Times` work on
widths up to 64 where the integers of TLC would not reach.  `BitOps` has the
parallel sums, tables and shifts of the source, also where C leaves a shift open
(every outcome is allowed).  `ByteOrder` has both builds, portable and assembly, at both ends
of a wire.  `FdSet` walks over a set with `BK_FD_NEXT` while it changes.
`Booleans` has the constants of `ktypes.h` and of `vm.h`, as 32- and 64-bit cells.
`Records` stamps, damages and verifies a message or a record; the fields in front of
a driver message's checksum, the same on both sides, are left out.

### CString, Addresses, FlagWords, Codes, Frames

`CString` copies cell by cell and so shows overlaps; two users cut their strings
with `bk_strtok` or `bk_strtok_r`, in any interleaving.  `saveptr` says whose string a pointer is
in, so that with `bk_strtok`, where there is one pointer, a user goes on in the other's
string; `cut` and `mixed` are history.  `Addresses` reduces the
width of addresses and keeps every cast.  `FlagWords` lists the masks and
bit-fields of each word in the order of the source, so that a name's bit is its
place in the list.  `Codes` reads the definitions of the system calls in order, a later one
replacing an earlier, and answers every status and type number; the users' range of types,
0xF000 to 0xFFFF, is represented by its first number.  `Frames` opens
blocks within blocks; a throw records the exception and goes on.

## Runs

| run | checks | bounds |
|---|---|---|
| `TreeSchedOrder` | `ImplementsReadyQueue` | 2 CPUs, 3 nodes, 2 keys, so there are ties and both orders |
| `TreeSchedBalance` | `Shape`, `RedBlack`, `CountExact`, `LeftmostIsLeast` | 1 CPU (the lock serialises the rest), 7 nodes of different keys, every order of insertion and removal: 4 levels, all cases of both rebalancings |
| `TreeSchedLock` | `TypeOK`, `MutualExclusion`, `FinishNeverReturns` | 2 CPUs, 2 nodes, all calls, updates of nodes in the tree, time 0 to 2 |
| `TreeSchedLive` | `LockReleased` | 1 CPU, 3 nodes, all calls but update and finish |
| `TreeSchedFinish` | `FinishReturns`, violated | 1 CPU, 1 node |
| `TreeSchedLeftmost` | `LeftmostIsLeast`, violated | 1 CPU, 2 nodes, 2 keys, updates in the tree |
| `TreeSchedCreate` | `NodePerEntity`, violated | 2 entities, failing allocations |
| `BitmapLevels` | `TypeOK`, `LevelsExact`, `RunningExact`, `CountsAddUp`, `TimeConserved`, `PickHighest` | 2 entities, 4 levels (2 EEVDF, 2 CFS, the last with aging), clock to 6 with aging at 3 and 6, counters modulo 4 so that they wrap |
| `BitmapAging` | `CountIsEntities`, violated | the same |
| `BkQueue` | `TypeOK`, `Links` (forwards, backwards and the tail pointer), `VisitsAll` | 2 heads, 4 elements: first, inner, last and only element of either list |
| `Concurrent` | `ConcurrentTypeOK`, `OneHolder`, `InterruptsExact`, `NoCircularWait`, `EveryLockReturned`; `Exclusion`, `NoLostWakeup` | 2 CPUs with a task and a handler each, 2 locks, one of them taken by handlers: nesting, interrupts at every step; 2 takers, 2 givers, 2 failed waits |
| `Library` | `LibraryTypeOK`, `WordsExact`, `FdWalk`, `StringsExact`, `CountersExact`, `LagHistory`, `NumbersTold`, `FlagsTold`, `BooleansTold`, `VerdictsRight`, `DeadlinesHeld`, `FramesUnwound`, `FieldsMove`, `CopiesExact`, `FixedPointExact` | below |

`Library` uses one component in a behaviour.  Its bounds: words of 32 and 64 bits
and all widths of shift around 0, 32 and 64, two changes of a word; descriptors
on both sides of a word boundary and the last one; a buffer of 3 cells beside a
source of 3, so that every limit is met, passed and missed by one; strings with
delimiters in runs, in front and behind; integers of 8 bits as text, all of
them; counters of 3 and 4 bits, so that they wrap, two contexts; a history of
2 entries and 3 updates, fixed-point numbers of 6.6 bits, 64 and 67 nodes (0 and 3
modulo the integer bits); addresses of 12 bits with the sizes around 0, a page,
the page count's range and the end; all system calls, statuses and type numbers;
two writes to every flag and field; records of 2 bytes with a CRC of 32 bits and one
damaged byte; trees of height 3 with 2 groups; 3 blocks of exceptions deep, one
failed push.

All runs but `Concurrent` and `Library` check for deadlock; in these two a behaviour ends when its
contexts are done, its bound is reached, or, which the properties say, a walk
keeps the lock.  Blocks, CPUs, entities, heads and elements are
interchangeable where SYMMETRY is used; it is not used with liveness, nor where
nodes are numbers that serve as keys.  `LiveView` leaves out the links and the colour of a node
that is not in the tree, which insertion sets before anything reads them.
Passing runs with a restriction are not the whole story, and the violations show
the rest: `TreeSchedOrder` and `TreeSchedBalance` assume that no node is updated
while it is in the tree, `LevelsExact` and `PickHighest` that no priority was
aged.

What the violations show:

1. `bk_sched_finish_node` holds `t_lock` when it calls `bk_sched_node_update`,
   which takes it again: the CPU spins for ever, and all others after it.
2. `bk_sched_node_update` changes the key of a node where it stands, so the
   leftmost node need not have the least Virtual Fire, as the comment says.
3. `bk_sched_node_create` does not notice a failed allocation (0 is added to the
   kernel base before the test), and two entities get one node.
4. `bk_mlfq_aging` changes `se_prio` of queued entities, so a later dequeue
   counts them out of a level they are not in.

What the passing properties say of defects, each with its exact extent:

* `LagHistory`: the history keeps the oldest lags and not the latest
  (`tree_sched.h:894`); as it is newest first every interval but one is negative or 0
  and mercy is 0 (428), unless an update waited for `t_lock` behind one of a later
  time (882); a second failed allocation of an entry ties the
  list into a loop and the update keeps `t_lock` for ever (900).
* `FixedPointExact`: the default request of 10,000,000 does not fit the 16 integer
  bits (324), and 65,536 nodes stop the system time (1003).
* `WordsExact`: `bk_clz32` increments the word before a lookup in a table made
  for the word before the increment, and is right for one highest bit only
  (`bitcount.h:95`); `bk_swap_quad` built with assembly exchanges the halves
  (`endian.h:88`).
* `Exclusion`, `NoLostWakeup`: a failed `BK_IPC_LOCK` is not noticed (`ipc.h:1169`),
  a signal may fall between the two calls of `BK_IPC_WAIT` (1174).
* `VerdictsRight`: a checksum inside the bytes it covers does not verify
  (`acct.h:510`, `OSDMsg.h:581`); a refusal with `BK_FALSE`, which is not 0
  (`vm.h:14`), passes an `if`.
* `FlagsTold`: half of the thread flags are defined twice, after which two pairs
  of them share a bit (`thread.h:284`); `BK_PROCESS_IS_64BIT` tests a task's flag
  in a process's word (`proc.h:869`).
* `BooleansTold`: with `BK_FALSE` a handle that is not 0 an `if` takes every constant of 64 bits
  for true, and no value of 32 bits, nor the result of a comparison, is valid (`vm.h:14`).
* `StringsExact`: when users of `bk_strtok` interleave all go on in the string begun last, and are
  done when that one is, with the rest of the other string lost (`string.h:808`).
* `NumbersTold`: three system calls are numbered twice (`syscalls.h:387`),
  `FCPROC` is beyond the call named the last, three statuses named after a breach
  of security satisfy no security predicate (`OSDErrno.h:298`), a handle's type
  mask is at the wrong end (`regsister.h:233`), page counts are cut to 32 bits.
* `FramesUnwound`: a throw does not leave its block, a rethrow stays in its frame,
  and a block whose push failed pops somebody else's (`exception.h:420`).

Seen in the source and not checked by a run: inserting or removing at the ends
of a CIRCLEQ with INSERT_BEFORE, INSERT_AFTER or REMOVE writes through a head pointer as if it
were an element, beside the head unless the entry comes first; the constants at
`tree_sched.h:58-68` are written as multiples of 2^20 although the
format has 16 fraction bits; PREEMPT is set at `bitmap.h:995` and read nowhere.

## Fairness

`FairSpec` has weak fairness of each CPU's `Step`: a CPU inside a call goes on
executing.  Nothing else is assumed: not that a call is made, nor that a CPU that
spins wins the lock.  This is why `LockReleased` is about a lock being given back
and not about every CPU getting it; a test-and-set lock promises nobody a turn.
With more CPUs a spinning one would not help or hinder the holder: its steps
write 1 over 1.  `LockReleased` leaves `bk_sched_finish_node` out because that
call keeps the lock.  `TreeSchedFinish` uses the same fairness: the call does
not return although its CPU keeps taking steps.

`LockFairness` of `IrqLock` says that a CPU goes on with what it runs, leaves its
sections and returns from its handler.  For a handler this is weak fairness.  For a
task it is strong, because interrupts disable the task's steps again and again
and a CPU still comes back to it; leaving a section that handlers wait for is strong
for the same reason.  Nothing makes an exchange win, so `EveryLockReturned`
excepts a holder that waits for a lower lock as long as that lock keeps passing
from hand to hand.  No fairness is assumed of the IPC waits: their properties
speak of states where nothing moves any more.

## Proofs

`TreeSchedProofs`, for any CPUs, nodes, entities and keys:

* `Control`: `Spec => []IInv`.  `IInv` adds to `MutualExclusion` the control
  types and `CallOK`, which ties a CPU's step to the call it is in.  Exclusion is
  not inductive without them: the steps behind the nested lock of
  `bk_sched_finish_node` would be reachable in some state.  All
  steps inside a call do one thing as far as `IInv` goes (`Inside`): they move
  one CPU that holds the lock to another step that holds it.
* `LockExcludes`, `FinishDeadlocks`, `TimeFrozen` follow: the nested test-and-set
  finds 1, the CPU's own, so it never passes; hence a finish time is only on nodes
  of a CPU that spins, and no update ever adds an interval (`NoTimeAccounted`, which no run
  repeats).
* `Types`: `Spec => []TypeOK`, by `TInv` beside `IInv`.  The lemmas on trees as
  values (`ReplaceType`, `TransplantType`, `HangType`, `RotateType`, the two
  `Splice...Type`) say that what rewires links keeps them among the blocks and
  the sentinel.  `TInv` adds that a CPU inserting has a block as its argument;
  with `CallOK`, which rules out the steps of `bk_sched_finish_node` behind its
  nested lock, only blocks become members.
* `MembersCounted`: `Spec => []CInv`.  `CountExact` alone is not inductive: the
  count is written at the end of a call and the links in the middle.  `CInv` says
  by how much it is off between (`Ahead`, `Behind`), and, so that a link adds a
  node and a splice takes one away, that a node on its way in is not a member, one
  on its way out is, and no two CPUs, of which all but one wait for the lock, move
  one node (`MovesOK`).  `CountIsExact` follows.

`TreeLinks` and `TreeShapeProofs`, for any CPUs, nodes and keys, if no
allocation fails:

* A tree is described by what induction would otherwise have to build: every
  member's place in the order (`at`) and the span of places its subtree takes
  (`ends`).  `IsTree` relates them to the links of one node at a time (`Branch`, `Hung`,
  `Rooted`), so a step that rewires a few links is proved by looking at a few nodes;
  the colours likewise have a black height per node (`bh`).
* `TreeLinks`: for any tree, a rotation (`RotateTree`), a new leaf (`LeafTree`) and the
  removal of a node with at most one child (`SpliceTree`) or two (`SuccessorTree`:
  the successor is spliced out, then takes the node's place, `RenameTree`) leave a
  tree with the places one expects.  That links followed to smaller spans never
  come back (`NoCircle`) is what keeps the nodes of each case distinct.
* Also there: one lemma per turn of both repairs (`PaintRecolour`, `PaintIn`,
  `PaintOut`, `PaintRedSibling`, `PaintUp`, `PaintNear`, `PaintFar`).  `Painted` allows one red pair,
  or one black node too few at one place; a turn moves that place up or mends it.
* `TreeKept`: `Spec => [](TreeInv /\ OwnInv)`.  `Shape` and `RedBlack` are not inductive, since they
  speak of the end of a repair, or say nothing of where a search is.  `TreeInv`
  adds where each call is (`Placed`), what is left to mend there (`Mending`) and, if
  callers update no linked node, that keys ascend and that a search for a leaf
  has the new key's place in its subtree (`Narrowed`).  `OwnInv` says that members were
  created, which keeps a creation from resetting the key of one.
* `ShapeKept`, `ColoursKept`, `LeastIsLeftmost` follow by `WalkLists` and `HeightsCount`: the walk
  and the heights the properties compute down to a bounded depth are the
  places and black heights of any tree, by the least depth at which they would
  not be.  A creation whose allocation failed (`TreeSchedCreate`) would reset the key of a
  block that may be on its way in; and with updates in the tree (`TreeSchedLeftmost`) the
  keys do not ascend.  Hence the two hypotheses.

`TreeShapeProofs`, last part, under both hypotheses:

* `TreeIsQueue`: `Spec => ImplementsReadyQueue`.  `Listing` says that the walk has every
  member at its place, so a step's effect on the places (`OrderKept`, `Enters`,
  `Leaves`, which the lemmas of the steps conclude with) is its effect on the queue:
  `PutIn` and `TakenOut` turn it into `InsertAt` and `RemoveAt`.  The place of a new leaf is
  behind as many members as have keys no greater, by `Narrowed`; a pick is at the
  head because the search for the leftmost node keeps to the spans that begin at 1
  (`Placed`).  `QueueRests` disposes of the other actions.

`BitmapSchedProofs`, for any finite set of entities below the counters' range and
any number of levels:

* `Accounting`: `Spec => []BInv`, where `BInv` has the types, `RunningExact` and
  `LevelsExact`.  `LinkStep` and `UnlinkStep` say what entering and leaving a level
  does to them, with the facts about cardinality modulo the counter's range
  (`CountUp`, `CountDown`).
* `LevelsAgree`, `RunningCounted`, `BestIsPicked` follow.
* `SumCounted`: `Spec => []CountsAddUp`, from `RunningExact` and the two steps' effect on the
  counters.  The sum over a finite set is a recursive function over its
  subsets; that there is one, and what it does when one term changes (`SumsExist`,
  `SumsChange`), is proved with the smallest subset for which it would fail.
* `ChargedOnce`: `Spec => []TimeConserved`, by `TimeInv` (`TimeKept`): every stamp is
  behind the clock, and no entity was charged beyond the start of the running
  one's interval (`Started`), so the next charge is of time nobody has.
  `Types`: `Spec => []TypeOK` from both invariants.

`BkQueueProofs`, for any set of heads and any finite set of elements:

* `ListsKept`: `Spec => []QInv`, where `QInv` has the types, the links of every list
  (`Chain`, the three parts of `Links`), that no element is in two lists or twice
  in one, and where a loop stands (`IterOK`): at an element of its list, with
  that element's successor already read, or beyond its end.  A lemma per macro says which fields it writes, or that it writes what
  INSERT_AFTER does (`AtTailIsAfter`, `BeforeIsAfter`); `AfterChain`, `CutChain`,
  `BetweenChain`, `CircleCut` and `ConcatChain` say that the changed list is
  linked as the changed sequence; `Untouched`, that the others, which share no
  object with it, are as they were.  Sequences are taken by index, so that no
  induction is needed.
* `LinksKept`, `LoopsVisitAll`, `QueueTypes` follow.

`ConcurrentProofs`, first part (`IrqLock`), for any CPUs and any locks:

* `Holders`: `LockSpec => [](LockTypeOK /\ OneHolder)`, by `HolderInv`, which adds
  that an operation under way has a lock.  Only an exchange or a compare-and-swap
  that finds 0 adds a holder, and only the release takes it away.
* `FlagRestored`: `LockSpec => []InterruptsExact`, by `FlagInv`.  The property is
  not inductive: nothing in it keeps a nested section, or a handler's, from
  having saved "on", and such a one would switch interrupts on too early.
  `TaskInv` therefore says that of a task's sections and its operation one at
  most switched interrupts off, and that between reading the flags and the `cli`
  what was read stays true but for a handler that runs meanwhile; `HandlerInv`, that
  no handler ever saved "on".  `TaskKept` and `HandlerKept` dispose of the other CPUs.

* `NoDeadlock`: `LockSpec => []NoCircularWait`, by `CircleInv`, which adds two
  things to `FlagInv`.  `AimInv`: a context spins for a lock below all it holds,
  a handler for a handlers' lock.  `CoverInv`: a task holds or wants a handlers'
  lock only with interrupts off.  Of the locks a circle waits for take the lowest
  (`<` on the numbers is well-founded).  Its holder waits for a lower one, or is
  a task whose handler runs; the lock is then none of the handlers', but the
  handler, itself in the circle, waits for one of theirs, which is lower.

Second part (`IpcWait`), for any finite sets of takers and givers and any number of
failures:

* `WaitsKept`: `WaitSpec => []WaitInv`.  `Moved` says what moving one context does
  to the number of contexts at a set of places; every action cites it for the
  five sets of `Shifts`.  `Matched` is the strengthening for `NoLostWakeup`: while a
  taker that no lost signal was meant for sleeps or is about to, there are as
  many signals under way, kept signals and takers that will look as there are
  items.  `Kept` says that nobody sleeps beside a kept signal.
* `MutexExcludes`, `WakeupsAccounted` and `WaitTypes` follow.
* `Composed`: `ConcurrentSpec => LockSpec /\ WaitSpec`, a step of the composition being
  a step or a stutter of each part; so all of the above hold of the composition, and
  `ConcurrentTypes` (`ConcurrentSpec => []ConcurrentTypeOK`) with them.

`LibraryProofs`, first part (`AtomicOps`), for any number of contexts and any widths of
the four families:

* `AtomicKept`: `AtomicSpec => []AtomicInv`, with one conjunct for each use of the words.
  `Drawn`: the i-th value drawn is i - 1 as the family reads it, so that two are
  the same only if a whole range lies between them.  `Drained`: the counter is what is due
  modulo its range, which is what is due where that fits (`WrapsWithin`).  `Referred`: the counter
  is the number of the references held, numbered as pairs (`Tokens`), because `FreedByLast`
  does not say what the counter is between; `LastAnswer` is what the step to 0 answers in
  each family.  `Flagged` and `Claimed`: every bit that is 1 is one context's, and a context
  between its answer and its use of it has a number in the array.  That two numbers
  name one bit only if they are equal (`BitPlace`) is division with remainder, which the module proves first.
* `AtomicsExact` follows, and `LibraryCounters` (`LibrarySpec => []CountersExact`), since a
  step of the instance is a step or a stutter of each component (`LibraryParts`).

Second part (`Frames`), for blocks of any depth, any classes and any number of pushes that fail:

* `FramesKept`: `FrameSpec => []FrameInv`.  `FramesUnwound` is not inductive: nothing in it says that a
  frame is the one of its block, so the pop at the end of one block could take the
  frame of another.  `Stacked` has the frames in the order of their blocks, `Owned`, while no
  push failed, one for each block.  The end of a block pops the innermost frame whosever it
  is; `EndPops` shows what that does to the rest.  `CatchKeeps`: a clause that fits
  found something in its own frame.
* `FramesUnwind` and, for the instance, `LibraryFrames` follow.

Third part (`Records`), for data of any size, any values of a byte, words of any number
of bytes and any polynomial whose highest bit is 1:

* A turn of the CRC can be taken back: the bit shifted in at the top, which the
  polynomial has, says whether the polynomial was added (`TurnBack`).  Hence, of two
  messages that agree from some byte on, equal checksums mean equal checksums there
  (`CrcMeets`), and a byte that differs leaves different ones (`ByteTells`, `CrcChanges`).
  `ByteSpreads` says how far the difference of two words reaches after a byte less:
  two messages that differ only in as many bytes as the checksum has do not share it
  (`CrcFieldTells`), so an accounting record verifies over no field but the one it was
  stamped over (`AccountingTells`).
* The rotating sum can be taken back over a known byte (`SumByteTells`, `SumMeets`).  `SumFieldTells` needs that the first bytes do
  not carry beyond the word (`PlusGrows`), and gives `DriverTells` for a field of 0.
  Two fields other than 0 may share a sum, which is why the property has that condition.
  `PlusIs` and `PlusTells` are about addition as the positions that carry.
* `RecordsKept`: `RecordSpec => []RecordInv`, which keeps what was stamped
  (`StampedOver`): the property speaks of the reader's answer only.  `VerdictsKept`
  and, for the instance, `LibraryVerdicts` follow.

The states of each loop are a recursive function over a range; that there is one
is proved by the shortest range that would have none (`ChainExists`).

Fourth part (`EdgeGroups`), for trees of any height and shape, any levels, groups and
deadlines:

* Where a place stands in the order is computed from powers of 2, so that the proofs reason with
  distances: the places below one of depth d are less than half its distance to
  its neighbours away (`Reach`, `Under`), a child stands half that distance to its
  side (`ChildIs`), places of one depth stand twice that distance apart
  (`ApartAtDepth`), two places never stand at one point (`RanksApart`), and a place of
  a tree has an ancestor at every depth above its own (`AncestorAt`).
* `LeftmostIs`: `rb_first` finds the first entity below where it starts.  `NextPlace`:
  `rb_next`, where it finds a right child, comes to the very next place of the
  order, so what the walk has come to is always an initial piece of the tree
  (`FirstOnes`, `VisitedFirst`); where it stops does not matter.
* `EdgesKept`: `EdgeSpec => []EdgeInv`.  `DeadlinesHeld` says nothing of the budgets, yet a
  group that moved its deadline in the same step would leave entities it had
  just clamped; `EdgeInv` adds that no group has used its budget.  `UpdateDeadlinesKeeps`: clamping
  an initial piece, to the least of the same limits, keeps the order (`ClampIs`).
* `DeadlinesKept` and, for the instance, `LibraryDeadlines` follow.

`NumberProofs`, first part (`VirtualFire`), for words of any width, a history of any length, any parameters, requests,
weights and node counts:

* `FireKept`: `FireSpec => []FireInv`, where `Listed` ties the links of the history to the
  lags it was offered: the entries, newest first, are numbered from the last one
  made, and a failed allocation takes the place at the kernel base.  Where the lags
  came in the order of time (`InTimeOrder`), no interval of the history but the
  oldest is positive and `mercy` is 0 whatever `sched_calc_mercy` adds; the oldest has
  lag 0.  `UpdateKeeps` and `Recomputed` say it of one update.  A walk over the links is a recursive function again (`Walked`), and so is a
  walk that never ends (`LeadBack`).
* `HistoryKept`, `DeadlineRight`, `SystemStepRight` follow, the last two by division with
  remainder, and in `LibraryProofs` `LibraryHistory` and `LibraryFixedPoint`.

Second part (`BitOps`), for every word of 32 and of 64 bits:

* Addition on words is defined by carries.  `CarryNext` and `FullAdder` turn that into digits, and `NibbleAdds` and
  `EightAdd` into numbers: fields of words add as numbers do, with the carry that enters and the one that leaves.
* `SwarCounts`: the parallel sum never carries from one field into the next.  A pair less its
  upper bit is its count (`PairsAre`, by borrows, `FullSubtractor`), two pairs make at most 4
  (`NibblesAre`), two nibbles at most 8 (`BytesCount`).  The multiplication then adds the word shifted by one
  byte more at each turn, and as a word has 64 ones at most no partial sum leaves its byte
  (`MultiplyAdds`, `ByteTurn`).  `CountsAre` is `CountExact`.
* `Ctz32Is`: `x & -x` is the lowest one alone (`LowestAlone`), the product with one position is a shift
  (`TimesOne`), and each of the 32 windows of the multiplier (`WindowIs`) reads the entry of its position (`CtzEntry`).
  `LowestIs` is `LowestFound`.
* Smearing fills the word below its highest one (`SmearedDown`), one more is the next power
  of 2 (`NextPower`), so that `bk_clz32` reads the entry of the position above, or of 0:
  right for bit 3 alone (`ClzEntry`).  `LeadingOff` is `LeadingZerosOff`.
* `WordsCounted`: `BitSpec` implies the three of them always, since every change cuts to the width (`BitWordKept`).
* `FieldsKept`: `BitSpec => FieldsMove`.  A rotation is a permutation of the positions, and a field's mask,
  built from two shifts, is its positions where they are below the width (`FieldAt`, `Inserted`); beyond it any
  outcome of the shift is allowed.  `LibraryFields` is the same of the instance.

Third part (`ByteOrder`), for all values:

* A word of b bytes is told by its bytes (`InByte`, `Joined`), so loads undo stores of one order
  (`LittleBack`, `BigBack`).  Each swap is the mirror of the bytes (`SwapWordIs`, `SwapLongIs`, `SwapQuadIs`),
  a word has one mirror and it mirrors back (`SwapBack`), and a swap before a native
  store is the big-endian store (`BigIsSwapped`).
* `OrderKept`: `OrderSpec => []WireValue`, by `OrderInv`: while a value is under way the wire holds
  the bytes of the value in the order agreed, its halves exchanged if the sender's swap is the assembly one.
* `LibraryWords` (`LibrarySpec => []WordsExact`) follows in `LibraryProofs`.

Fourth part (`FdSet`), for sets of any number of words:

* `Stands` ties an array of words to a set: bit b of word w is there exactly when
  descriptor 64w + b is.  A descriptor has one such place (`FdPlace`), so setting, clearing and combining words does the
  same to the set (`FdAdd`, `FdTakeOut`, `FdCombine`).
* `NextMember`: a member below the first word that is not empty, or below the lowest one of a word, would
  be a one there, so `BK_FD_NEXT` gives the least member from its start.  `CountIs`: word
  by word the members below 64w are counted, each word by the parallel sum.  `EqualIs`: arrays are equal when the sets are.
* `FdKept`: `FdSpec => []FdInv`: both arrays stand for their sets, and of the members `a` has had since
  the walk began, those up to the cursor were met.  Members added behind the cursor are
  not among them, members taken out leave them.  `FdWalked` and, for the instance, `LibraryWalk` follow.

Fifth part (`CString`), for a buffer and a source of any size and any characters:

* `CopiesUp`, `CopiesDown`: after k cells, those cells hold what the source held before the call, as
  the next cell read was not written yet; upwards that needs the destination below the
  source or clear of it, downwards above it, which is how `bk_memmove` chooses (`Moves`).
* `EndIs`, `StrnlenIs`: the end of a string is the one 0 with none before it.  Every string function is
  the buffer's first characters, some of the source and a 0 (`EndedIs`, `Spliced`), so its
  text is a prefix of the two texts joined (`FromSource`, `WithSource`, `CutWhole`); one lemma per function
  (`StrcpyKept` to `StrncpyKept`) adds the bound and the value returned.
* `CopiesKept`: `CSpec => MoveExact /\ CopiesText`, with `CallInv`: memory holds characters until the one
  call is made.  `LibraryCopies` is the same of the instance.

`LibraryProofs`, last part (`Booleans`, `Codes`, `Addresses`):

* `BooleansKept`: `BoolSpec => []BooleansTold`, by `BoolInv`: a cell holds what is meant as
  a constant, as a comparison or as either cut to 32 bits.
* `CodesKept`: `CodeSpec => [](CallsReached /\ StatusesTold /\ TypesTold)`, by `CodeInv`.  The header
  is a list of definitions read in order; the number a call has is the last one its name
  was given.
* `AddressesKept`: `AddressSpec => [](PagesCover /\ HandleTold)`, for memories, pages, frames and handles
  of any width: rounding and cutting are division with remainder by powers that divide one
  another.
* `LibraryBooleans` and `LibraryNumbers` are the same of the instance.

The assumptions are those the modules name: blocks are finite and distinct from
the sentinel and the kernel base, there are fewer entities than a counter can count,
parameters are numbers, locks are numbers with the handlers' locks below the
others, takers and givers are finite and disjoint, contexts are finitely many and no more than
a counter can count references of, and no exception and no frame are neither an
exception nor a number; the widths of checksums are multiples of 8, requests, weights and node
counts are natural numbers, a descriptor lies in its set and the scheduler's parameters words.  `PowerAssumption` says of powers
of 2 that each is twice the one before, and `ParamsAssumption` that 2 to the fraction
bits is a number above 1: true of any width, but a recursion the provers do not unfold; `HeightAssumption`
says the same of the heights of the EDGE trees, `PowersOfTwo` of the powers below 2^31 in `Words`,
`AddressPowers` of those up to the width of an address; `BitAssumption` says that positions and shifts are numbers.

Only model-checked:

* liveness (`LockReleased`, `EveryLockReturned`), out of the prover's reach;
* of `Library`, `StringsExact`: it compares comparisons, searches, tokens and numbers as text
  with definitions on sequences, which is induction over data;
* `FlagsTold`: finite tables of flag words, whose every row TLC looks at, so a proof would say no more;
* `LibraryTypeOK`, the types of all the components of the instance.

## Not modelled

Prototypes without a body anywhere: the life cycle of processes, tasks, threads
and activities, channels, ports, pipes and shared regions, vectors and interrupt
controllers, the memory allocator, the register's functions, the file systems,
executables, printing, `megakernel.h`, `task.h`, `pthread.h`.  A model of them
would be taken from their names.  Where code with a body uses one of them
(`bk_vm_alloc`, the CFS and EEVDF queues, `bk_ipc_wait`, the exception
functions), it is modelled from that use and marked external.

On-disk layouts, compiler macros and type definitions have no behaviour.  The RR
and FIFO branches of the bitmap scheduler cannot be reached: no level is given
these types.  The processor-specific branches of `bitcount.h` are single
instructions.

## Plan

1. Done: the schedulers, lists, helpers, macros and tables; the control, types and
   accounting of the schedulers proved, the spinlocks and the IPC waits proved, the
   sums and times of the bitmap scheduler, the lists, and the members, shape, colours and
   order of the tree and its refinement of `ReadyQueue` proved; the atomic words,
   the exception frames, the fixed-point accounting, the records, the EDGE groups, the
   counts and searches of words, the byte order, the descriptor sets, the copies of memory and strings, the fields of words,
   the truth values, the codes and the addresses.
