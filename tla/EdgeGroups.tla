----------------------------- MODULE EdgeGroups -----------------------------
(***************************************************************************)
(* The EDGE groups of the bitmap scheduler (bitmap.h): groups of levels    *)
(* with a deadline and a budget, and the walk that holds the entities of a *)
(* level to the deadlines of its groups.                                   *)
(*                                                                         *)
(* The entities of a level are in a binary tree ordered by deadline, which *)
(* the walk changes in place.  A tree is the set of its places, numbered   *)
(* as in a heap: the children of n are 2n and 2n + 1.                      *)
(***************************************************************************)
EXTENDS Integers, Sequences

CONSTANTS
  EdgeLevels,    \* BK_SCHED_PRIO_LEVELS (32)
  EevdfLevels,   \* the levels of type BK_SCHED_QUEUE_EEVDF
  Shapes,        \* the trees tried
  Height,        \* the levels of the tallest
  Deadlines,     \* the deadlines entities and groups are given
  MaxGroups

ASSUME EdgeAssumption ==
  /\ EevdfLevels \subseteq 0 .. EdgeLevels - 1
  /\ \A s \in Shapes : /\ s \subseteq 1 .. 2^Height - 1 /\ 1 \in s
                       /\ \A n \in s : n > 1 => n \div 2 \in s
  /\ Deadlines \subseteq Nat

\* The powers of 2 that number the places, which the provers do not compute.
ASSUME HeightAssumption ==
  /\ Height \in Nat \ {0}
  /\ 2^0 = 1 /\ \A d \in 0 .. Height : 2^d \in Nat \ {0} /\ 2^(d + 1) = 2 * 2^d

VARIABLES
  shape,       \* level |-> the places of its tree
  groups,      \* the list bs_edge_groups, newest first
  groupCount,  \* bs_edge_group_count
  deadline,    \* level |-> place |-> se_deadline
  clamped      \* the last step was bk_edge_update_deadlines

edgeVars == <<shape, groups, groupCount, deadline, clamped>>

----------------------------------------------------------------------------
\* The order of the places in the tree: left subtree, node, right subtree.
Depth(n) == CHOOSE d \in 0 .. Height - 1 : n \in 2^d .. 2^(d + 1) - 1
Rank(n) == (2 * (n - 2^Depth(n)) + 1) * 2^(Height - 1 - Depth(n))

Ordered(s, key) == \A m, n \in s : Rank(m) < Rank(n) => key[m] <= key[n]

\* Down to the left as far as it goes.
Leftmost(s, n) ==
  CHOOSE m \in s : 2 * m \notin s /\ \E k \in 0 .. Height - 1 : m = n * 2^k

\* rb_first, and rb_next until it returns NULL: it goes down to the right and
\* then to the left, but never up.
Visited(s) ==
  LET after(n) == IF 2 * n + 1 \in s THEN {Leftmost(s, 2 * n + 1)} ELSE {}
      walk[i \in 1 .. Height] ==
        IF i = 1 THEN {Leftmost(s, 1)}
        ELSE walk[i - 1] \cup UNION {after(n) : n \in walk[i - 1]}
  IN  walk[Height]

----------------------------------------------------------------------------
EdgeInit ==
  /\ shape \in [EevdfLevels -> Shapes]
  /\ groups = <<>> /\ groupCount = 0
  /\ deadline = [l \in EevdfLevels |-> [n \in shape[l] |-> 0]]
  /\ clamped = FALSE

\* bk_edge_group_create; a failed allocation changes nothing.
Create(d) ==
  /\ groupCount < MaxGroups
  /\ groups' = <<[id |-> groupCount, deadline |-> d, budget |-> d \div 10, used |-> 0,
                  levels |-> {}]>> \o groups
  /\ groupCount' = groupCount + 1
  /\ clamped' = FALSE
  /\ UNCHANGED <<shape, deadline>>

\* bk_edge_assign_level
AssignLevel(i, prio) ==
  /\ groups' = IF prio < EdgeLevels THEN [groups EXCEPT ![i].levels = @ \cup {prio}] ELSE groups
  /\ clamped' = FALSE
  /\ UNCHANGED <<shape, groupCount, deadline>>

\* The queue of a level, which is declared only, gives its entities deadlines
\* and puts them in order.
Renew(level) ==
  /\ \E key \in [shape[level] -> Deadlines] :
       /\ Ordered(shape[level], key)
       /\ deadline' = [deadline EXCEPT ![level] = key]
  /\ clamped' = FALSE
  /\ UNCHANGED <<shape, groups, groupCount>>

Limits(level) ==
  {groups[i].deadline : i \in {j \in DOMAIN groups : level \in groups[j].levels}}

\* Faulty variant: an entity is given the deadline of a group unconditionally.
ClampBlind(level, d) ==
  IF Limits(level) = {} THEN d ELSE CHOOSE e \in Limits(level) : \A x \in Limits(level) : e <= x

\* Each group with the level in turn: a later deadline becomes the group's.
Clamp(level, d) == CHOOSE e \in Limits(level) \cup {d} : \A x \in Limits(level) \cup {d} : e <= x

\* bk_edge_update_deadlines; a group that had used more than its budget would
\* be given a later deadline, but nothing is ever added to what it used.
UpdateDeadlines ==
  /\ deadline' = [l \in EevdfLevels |-> [n \in shape[l] |->
       IF n \in Visited(shape[l]) THEN Clamp(l, deadline[l][n]) ELSE deadline[l][n]]]
  /\ groups' = [i \in DOMAIN groups |->
       [groups[i] EXCEPT !.deadline = IF groups[i].used > groups[i].budget THEN @ + 1 ELSE @]]
  /\ clamped' = TRUE
  /\ UNCHANGED <<shape, groupCount>>

EdgeNext ==
  \/ \E d \in Deadlines : Create(d)
  \/ \E i \in DOMAIN groups, prio \in 0 .. EdgeLevels : AssignLevel(i, prio)
  \/ \E l \in EevdfLevels : Renew(l)
  \/ UpdateDeadlines

EdgeSpec == EdgeInit /\ [][EdgeNext]_edgeVars

----------------------------------------------------------------------------
EdgeTypeOK ==
  /\ groupCount = Len(groups)
  /\ \A i \in DOMAIN groups :
       /\ groups[i].id = groupCount - i
       /\ groups[i].levels \subseteq 0 .. EdgeLevels - 1
  /\ \A l \in EevdfLevels : deadline[l] \in [shape[l] -> Deadlines]

\* The keys are changed where they stand, and only those the walk comes to, but
\* each tree stays in order: the entities it comes to are the first ones, and
\* none is made later.  After an update the first entity of a level is not
\* later than any group of the level; the others may be
\* (rb_next, bitmap.h:402-411, and bk_edge_update_deadlines, 868-904).
DeadlinesHeld ==
  \A l \in EevdfLevels :
    LET s == shape[l] IN
    /\ Ordered(s, deadline[l])
    /\ clamped => \A d \in Limits(l) : \A n \in s :
         (\A m \in s : Rank(n) <= Rank(m)) => deadline[l][n] <= d
    /\ \A m, n \in s : n \in Visited(s) /\ Rank(m) < Rank(n) => m \in Visited(s)
=============================================================================
