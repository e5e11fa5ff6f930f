-------------------------- MODULE BitmapSchedProps --------------------------
(***************************************************************************)
(* What the bitmap scheduler of incl/bible/bitmap.h promises.              *)
(***************************************************************************)
EXTENDS BitmapSched, Functions

Total(f) == FoldFunction(LAMBDA a, b : a + b, 0, f)

Ready == {e \in Entities : onRq[e]}

\* The type invariant.  A priority never leaves the 32 levels, whichever
\* feedback and aging it goes through: it indexes bs_levels.
TypeOK ==
  /\ bitmap \subseteq Levels
  /\ queue \in [Levels -> SUBSET Entities]
  /\ count \in [Levels -> 0..(CountMod - 1)]
  /\ prio \in [Entities -> Levels]
  /\ {onRq, aged, preempt} \subseteq [Entities -> BOOLEAN]
  /\ {vruntime, execStart, execTotal, lastRan, lastEnqueued} \subseteq [Entities -> 0..clock]
  /\ execCount \in [Entities -> 0..1]
  /\ clock \in 0..MaxClock
  /\ {current, returned} \subseteq created \cup {None}
  /\ running \in 0..(CountMod - 1)
  /\ created \subseteq Entities

\* As long as aging has raised no priority, the three records of what is
\* ready agree, level by level: the entities linked into the queue are those
\* flagged ON_RQ whose priority it is, ml_count counts them, and the bit is
\* set exactly when there are some.  bk_mlfq_enqueue and bk_mlfq_dequeue find
\* the level through se_prio, which bk_sched_enqueue changes between them.
LevelsExact ==
  (\A e \in Entities : ~aged[e]) =>
    \A l \in Levels :
      /\ queue[l] = {e \in Ready : prio[e] = l}
      /\ count[l] = Cardinality(queue[l])
      /\ l \in bitmap <=> queue[l] # {}

\* bs_running_entities is the number of ready entities, even when aging has
\* made single levels count entities that left them.
RunningExact == running = Cardinality(Ready)

\* What one level lost through aging another one has in excess: modulo their
\* width the ml_count of all levels still add up to bs_running_entities.
CountsAddUp == running = Total(count) % CountMod

\* No interval of bs_clock is charged twice: what all entities have been
\* charged is the time from the first switch to the last one, hence never
\* more than the clock, across switches, idle periods and re-enqueues.
TimeConserved ==
  /\ current = None => Total(execTotal) = 0
  /\ current # None => Total(execTotal) <= execStart[current]

\* A pick never passes over a ready entity of higher priority, and comes back
\* with nothing only when nothing is ready, as long as no priority was aged; a
\* pick that answers as the one before, with the same entity current, is not told
\* from a call that picks nothing (bitmap.h:727).
PickStep ==
  (returned' # returned \/ current' # current) /\ (\A e \in Entities : ~aged[e]) =>
    IF returned' = None
    THEN Ready = {}
    ELSE returned' \in Ready /\ \A e \in Ready : prio[returned'] <= prio[e]

PickHighest == [][PickStep]_vars

\* ml_count is the number of entities of the level (the field's comment).
CountIsEntities == \A l \in Levels : count[l] = Cardinality(queue[l])
============================================================================
