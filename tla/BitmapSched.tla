---------------------------- MODULE BitmapSched ----------------------------
(***************************************************************************)
(* The bitmap scheduler of incl/bible/bitmap.h: a multi-level feedback      *)
(* queue with one bit per priority level, periodic aging, and the choice of *)
(* the next entity to run.                                                  *)
(*                                                                         *)
(* Every function of its API holds bs_lock from its first statement to its *)
(* last, and takes the lock of one level at a time inside it, so a call is  *)
(* one action.  The CFS and EEVDF queues of a level are declared in the     *)
(* header and defined nowhere: a queue is the set of entities it was given, *)
(* and it chooses as its declaration says.  se_exec_count is only compared  *)
(* with 0 and stops at 1.                                                   *)
(***************************************************************************)
EXTENDS Integers, FiniteSets

CONSTANTS
  Entities,       \* schedulable entities
  None,           \* the null pointer, and bs_idle, which nothing sets
  PrioMin,        \* BK_SCHED_PRIO_MIN, the lowest priority (31); 0 is highest
  PrioDefault,    \* BK_SCHED_PRIO_DEFAULT (16)
  CfsFrom,        \* first level that is a CFS queue (16); above it EEVDF
  AgingFrom,      \* first level with BK_MLFQ_FLAG_AGING (21)
  Granularity,    \* time added by a tick (BK_SCHED_CFS_GRANULARITY)
  AgingThreshold, \* BK_SCHED_AGING_THRESHOLD
  AgingPeriod,    \* ticks of the clock between agings (10 thresholds)
  TimesliceBase,  \* BK_SCHED_TIMESLICE_BASE
  TimesliceMin,   \* BK_SCHED_TIMESLICE_MIN
  CountMod,       \* 2^32, where a BK_UINT32 counter wraps
  MaxClock        \* bound on bs_clock

ASSUME LevelsAssumption ==
  /\ PrioMin \in Nat
  /\ PrioDefault \in 0..PrioMin
  /\ CfsFrom \in Nat
  /\ AgingFrom \in Nat
  /\ CfsFrom <= AgingFrom

ASSUME TimesAssumption ==
  /\ Granularity \in Nat \ {0}
  /\ AgingThreshold \in Nat
  /\ AgingPeriod \in Nat \ {0}
  /\ TimesliceBase \in Nat
  /\ TimesliceMin \in Nat
  /\ MaxClock \in Nat

\* No counter can reach 2^32 by counting entities.
ASSUME EntitiesAssumption ==
  /\ IsFiniteSet(Entities)
  /\ None \notin Entities
  /\ CountMod \in Nat
  /\ Cardinality(Entities) < CountMod

Levels      == 0..PrioMin
PrioMax     == 0
AgingFactor == 1

\* The slice shrinks as the number of the level grows (bk_mlfq_init).
Timeslice(l) ==
  IF TimesliceBase \div (l + 1) < TimesliceMin
  THEN TimesliceMin ELSE TimesliceBase \div (l + 1)

VARIABLES
  bitmap,      \* bs_prio_bitmap, as the set of levels whose bit is 1
  queue,       \* per level: the entities linked into its queue
  count,       \* per level: ml_count
  prio,        \* se_prio
  onRq, aged, preempt, \* the flags ON_RQ, AGED and PREEMPT of se_flags
  vruntime, execStart, execTotal, execCount, lastRan, lastEnqueued,
  clock,       \* bs_clock
  current,     \* bs_current
  running,     \* bs_running_entities
  created,     \* entities that exist
  returned     \* what the last bk_bitmap_pick_next returned

levels == <<bitmap, queue, count>>
flags  == <<onRq, aged, preempt>>
times  == <<vruntime, execStart, execTotal, execCount, lastRan, lastEnqueued>>
vars   == <<levels, prio, flags, times, clock, current, running, created, returned>>

\* bk_mlfq_init: no entity on any level.
InitLevels ==
  /\ bitmap = {}
  /\ queue = [l \in Levels |-> {}]
  /\ count = [l \in Levels |-> 0]

\* What bk_sched_entity_create gives an entity.
InitEntities ==
  /\ prio = [e \in Entities |-> PrioDefault]
  /\ onRq = [e \in Entities |-> FALSE]
  /\ aged = [e \in Entities |-> FALSE]
  /\ preempt = [e \in Entities |-> FALSE]
  /\ vruntime = [e \in Entities |-> 0]
  /\ execStart = [e \in Entities |-> 0]
  /\ execTotal = [e \in Entities |-> 0]
  /\ execCount = [e \in Entities |-> 0]
  /\ lastRan = [e \in Entities |-> 0]
  /\ lastEnqueued = [e \in Entities |-> 0]

\* bk_bitmap_sched_init.
Init ==
  /\ InitLevels
  /\ InitEntities
  /\ clock = 0
  /\ current = None
  /\ running = 0
  /\ created = {}
  /\ returned = None

----------------------------------------------------------------------------
\* bk_mlfq_enqueue: link the entity into level l; the first one sets the bit.
MlfqEnqueue(e, l) ==
  LET n == (count[l] + 1) % CountMod IN
  /\ queue' = [queue EXCEPT ![l] = @ \cup {e}]
  /\ count' = [count EXCEPT ![l] = n]
  /\ bitmap' = IF n = 1 THEN bitmap \cup {l} ELSE bitmap
  /\ onRq' = [onRq EXCEPT ![e] = TRUE]
  /\ lastEnqueued' = [lastEnqueued EXCEPT ![e] = clock]

\* What removing e from the queue of level l leaves.  The links are in the
\* entity: when it hangs in the queue of another level, it may leave that one
\* or stay there, according to where in that tree it is.
Without(e, l) ==
  {[queue EXCEPT ![l] = @ \ {e}], [m \in Levels |-> queue[m] \ {e}]}

\* Faulty variant: an entity that is not in the queue of its level is left
\* there and not counted out.
MlfqDequeueStrict(e) ==
  LET l == prio[e] IN
  /\ queue' = [queue EXCEPT ![l] = @ \ {e}]
  /\ count' = IF e \in queue[l] THEN [count EXCEPT ![l] = @ - 1] ELSE count
  /\ bitmap' = IF count'[l] = 0 THEN bitmap \ {l} ELSE bitmap
  /\ onRq' = [onRq EXCEPT ![e] = FALSE]

\* bk_mlfq_dequeue: the level is the one se_prio names now, whichever queue
\* the entity was linked into.
MlfqDequeue(e) ==
  LET l == prio[e]
      n == (count[l] - 1) % CountMod
  IN
  /\ queue' \in Without(e, l)
  /\ count' = [count EXCEPT ![l] = n]
  /\ bitmap' = IF n = 0 THEN bitmap \ {l} ELSE bitmap
  /\ onRq' = [onRq EXCEPT ![e] = FALSE]

\* The feedback of bk_sched_enqueue: an entity that stayed for long between
\* its last enqueue and the end of its last run goes up, any other goes down.
Feedback(e) ==
  IF execCount[e] = 0 THEN prio[e]
  ELSE IF lastRan[e] - lastEnqueued[e] > 2 * AgingThreshold
       THEN IF prio[e] > PrioMax THEN prio[e] - 1 ELSE prio[e]
       ELSE IF prio[e] < PrioMin THEN prio[e] + 1 ELSE prio[e]

\* Faulty variant: the entity is linked without going through
\* bk_sched_enqueue, so bs_running_entities misses it.
RegisterUncounted(e) ==
  /\ e \notin created
  /\ created' = created \cup {e}
  /\ MlfqEnqueue(e, PrioDefault)
  /\ UNCHANGED <<prio, aged, preempt, vruntime, execStart, execTotal, execCount, lastRan,
                 clock, current, running, returned>>

\* bk_sched_register_entity: create the entity and enqueue it.
Register(e) ==
  /\ e \notin created
  /\ created' = created \cup {e}
  /\ MlfqEnqueue(e, PrioDefault)
  /\ running' = (running + 1) % CountMod
  /\ UNCHANGED <<prio, aged, preempt, vruntime, execStart, execTotal, execCount, lastRan,
                 clock, current, returned>>

\* Faulty variant: the feedback is applied after the entity is linked.
EnqueueThenFeedback(e) ==
  /\ e \in created
  /\ ~onRq[e]
  /\ MlfqEnqueue(e, prio[e])
  /\ prio' = [prio EXCEPT ![e] = Feedback(e)]
  /\ running' = (running + 1) % CountMod
  /\ UNCHANGED <<aged, preempt, vruntime, execStart, execTotal, execCount, lastRan, clock,
                 current, created, returned>>

\* bk_sched_enqueue.  Callers enqueue an entity that is not queued.
Enqueue(e) ==
  /\ e \in created
  /\ ~onRq[e]
  /\ prio' = [prio EXCEPT ![e] = Feedback(e)]
  /\ MlfqEnqueue(e, Feedback(e))
  /\ running' = (running + 1) % CountMod
  /\ UNCHANGED <<aged, preempt, vruntime, execStart, execTotal, execCount, lastRan, clock,
                 current, created, returned>>

\* bk_sched_dequeue.  Callers dequeue an entity that is queued; bs_current is
\* not touched even when it is the entity that leaves.
Dequeue(e) ==
  /\ e \in created
  /\ onRq[e]
  /\ MlfqDequeue(e)
  /\ running' = (running - 1) % CountMod
  /\ UNCHANGED <<prio, aged, preempt, times, clock, current, created, returned>>

----------------------------------------------------------------------------
(* bk_bitmap_pick_next                                                     *)

\* Faulty variant: the highest number, which is the lowest priority.
HighestNumber == CHOOSE l \in bitmap : \A m \in bitmap : l >= m

Highest == CHOOSE l \in bitmap : \A m \in bitmap : l <= m

\* bk_cfs_pick_next returns an entity of least virtual run time, and
\* bk_eevdf_pick_next any entity, the deadlines being left to callers.
Candidates(l) ==
  IF l < CfsFrom THEN queue[l]
  ELSE {e \in queue[l] : \A d \in queue[l] : vruntime[e] <= vruntime[d]}

\* What a switch to e at this time sets, given what it charges.
SwitchTo(e, runtime) ==
  LET Charge(f, d) == IF current = None THEN f ELSE [f EXCEPT ![current] = @ + d] IN
  /\ execTotal' = Charge(execTotal, runtime)
  /\ execCount' = Charge(execCount, IF execCount[current] = 0 THEN 1 ELSE 0)
  /\ vruntime' = Charge(vruntime, runtime)
  /\ lastRan' = IF current = None THEN lastRan ELSE [lastRan EXCEPT ![current] = clock]
  /\ preempt' = [preempt EXCEPT ![e] = FALSE]
  /\ current' = e
  /\ returned' = e
  /\ UNCHANGED <<levels, prio, onRq, aged, lastEnqueued, clock, running, created>>

\* Faulty variants: the operands of the run time swapped, and the start of the
\* next entity left as it was.
SwitchNegative(e) ==
  /\ SwitchTo(e, execStart[current] - clock)
  /\ execStart' = [execStart EXCEPT ![e] = clock]

SwitchNoStart(e) ==
  /\ SwitchTo(e, clock - execStart[current])
  /\ UNCHANGED execStart

\* Another entity than the current one is next: the current one is charged
\* with the time since it was started, whether or not it ran all along.
Switch(e) ==
  /\ SwitchTo(e, clock - execStart[current])
  /\ execStart' = [execStart EXCEPT ![e] = clock]

PickSwitch ==
  /\ bitmap # {}
  /\ \E e \in Candidates(Highest) : e # current /\ Switch(e)

\* The entity that runs already is chosen again: nothing is charged.
PickSame ==
  /\ bitmap # {}
  /\ current \in Candidates(Highest)
  /\ returned' = current
  /\ UNCHANGED <<levels, prio, flags, times, clock, current, running, created>>

\* No bit set, or the bit of a level with an empty queue: idle.
PickIdle ==
  /\ bitmap # {} => queue[Highest] = {}
  /\ returned' = None
  /\ UNCHANGED <<levels, prio, flags, times, clock, current, running, created>>

----------------------------------------------------------------------------
(* bk_sched_tick                                                           *)

\* What bk_mlfq_aging visits of one CFS queue: rb_first is the leftmost node,
\* and rb_next goes no further than its right subtree, which in a red-black
\* tree is at most one node.  The key, se_vruntime, is updated under the tree,
\* so any entity may be the leftmost one.
Visits(l) ==
  {v \in SUBSET queue[l] : (v = {} <=> queue[l] = {}) /\ Cardinality(v) <= 2}

AgingLevels == {l \in Levels : l > PrioMax /\ l >= AgingFrom}

\* The priority of a visited entity that has waited is raised where it is:
\* it is not moved to the queue of its new level.
Aged(visited, now) ==
  {e \in visited : now - lastRan[e] > AgingThreshold /\ prio[e] > PrioMax + AgingFactor}

Age(now) ==
  \E v \in [AgingLevels -> SUBSET Entities] :
    LET up == Aged(UNION {v[l] : l \in AgingLevels}, now) IN
    /\ \A l \in AgingLevels : v[l] \in Visits(l)
    /\ prio' = [e \in Entities |-> IF e \in up THEN prio[e] - AgingFactor ELSE prio[e]]
    /\ aged' = [e \in Entities |-> aged[e] \/ e \in up]

\* The flag that asks for the current entity to be preempted: its slice is
\* over, or a level above its own has its bit set.
Preempt(now) ==
  preempt' = IF current # None /\ ( \/ now - execStart[current] >= Timeslice(prio'[current])
                                    \/ \E l \in bitmap : l < prio'[current] )
             THEN [preempt EXCEPT ![current] = TRUE] ELSE preempt

\* The timer's tick.  The deadlines of EDGE groups, which it also updates, are
\* read by bk_eevdf_pick_next only.
Tick ==
  LET now == clock + Granularity IN
  /\ now <= MaxClock
  /\ clock' = now
  /\ IF now % AgingPeriod = 0 THEN Age(now) ELSE UNCHANGED <<prio, aged>>
  /\ Preempt(now)
  /\ UNCHANGED <<levels, onRq, times, current, running, created, returned>>

Next ==
  \/ \E e \in Entities : Register(e) \/ Enqueue(e) \/ Dequeue(e)
  \/ PickSwitch
  \/ PickSame
  \/ PickIdle
  \/ Tick

Spec == Init /\ [][Next]_vars
============================================================================
