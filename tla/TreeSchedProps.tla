--------------------------- MODULE TreeSchedProps ---------------------------
(***************************************************************************)
(* The properties of TreeSched: its lock, the shape, colours and order of   *)
(* the tree, its refinement of ReadyQueue, and what becomes of a CPU that   *)
(* calls bk_sched_finish_node.                                              *)
(***************************************************************************)
EXTENDS TreeSched, Sequences

CallNames == {"insert", "remove", "pick", "update", "finish", "tune"}
Steps == {"idle", "acquire", "insert", "descend", "fixup", "remove", "minimum", "delfixup",
          "removed", "pick", "leftmost", "update", "updated", "finish", "nested", "tune",
          "release"}

\* The control state: the lock, and the step and call of every CPU.
ControlTypeOK ==
  /\ lock \in {0, 1}
  /\ pc \in [CPUs -> Steps]
  /\ call \in [CPUs -> CallNames \cup {"none"}]

\* Type invariant: besides the control state, pointers point at blocks or
\* the sentinel and times stay within the bound.
TypeOK ==
  /\ ControlTypeOK
  /\ root \in Ptrs
  /\ link \in [Ptrs -> [Sides \cup {"P"} -> Ptrs]]
  /\ colour \in [Ptrs -> Colours]
  /\ count \in Int
  /\ fire \in [Blocks -> Fires]
  /\ owner \in [Blocks -> Entities \cup {None}]
  /\ lastStart \in [Blocks -> 0..MaxTime]
  /\ lastFinish \in [Blocks -> 0..MaxTime]
  /\ totalTime \in [Blocks -> Int]
  /\ clock \in 0..MaxTime
  /\ arg \in [CPUs -> Ptrs]
  /\ cur \in [CPUs -> Ptrs]
  /\ par \in [CPUs -> Ptrs]
  /\ running \in [CPUs -> Ptrs]
  /\ nodeOf \in [Entities -> Ptrs]
  /\ members \subseteq Blocks

----------------------------------------------------------------------------
(* The lock                                                                *)

\* A CPU past sched_spin_lock and not yet past sched_spin_unlock.
Holds(c) == pc[c] \notin {"idle", "acquire"}

\* The tree is touched by one CPU at a time, and t_lock is 1 exactly while
\* some CPU is inside: sched_spin_lock gives mutual exclusion and no path
\* through the calls releases a lock it does not hold or forgets to release.
MutualExclusion ==
  /\ \A c, d \in CPUs : Holds(c) /\ Holds(d) => c = d
  /\ lock = 1 <=> \E c \in CPUs : Holds(c)

\* When no caller uses bk_sched_finish_node, a lock that was taken is given
\* back: every search, rebalancing and leftmost walk over the tree ends.
LockReleased == lock = 1 ~> lock = 0

----------------------------------------------------------------------------
(* The tree                                                                *)

\* In-order walks to one level more than those below.
WalksOver(below) ==
  [n \in Ptrs |-> IF n = Nil THEN <<>> ELSE below[link[n]["L"]] \o <<n>> \o below[link[n]["R"]]]

\* In-order walk, by depth so that it is defined on any links whatever.
Walk ==
  LET w[d \in 0..Cardinality(Blocks)] ==
        IF d = 0 THEN [n \in Ptrs |-> <<>>] ELSE WalksOver(w[d - 1])
  IN  w[Cardinality(Blocks)][root]

\* Number of black nodes on the leftmost path below n.
HeightsOver(below) ==
  [n \in Ptrs |-> IF n = Nil THEN 0
                  ELSE below[link[n]["L"]] + (IF colour[n] = "black" THEN 1 ELSE 0)]

BlackHeight ==
  LET h[d \in 0..Cardinality(Blocks)] ==
        IF d = 0 THEN [n \in Ptrs |-> 0] ELSE HeightsOver(h[d - 1])
  IN  h[Cardinality(Blocks)]

Rebalancing == \E c \in CPUs : pc[c] \in {"fixup", "delfixup", "removed"}

\* The links form one tree that holds the inserted nodes and no others, each
\* once, with parent pointers that agree: insertion, removal and every
\* rotation neither lose a node nor tie the links into a cycle.
Shape ==
  /\ root # Nil => link[root]["P"] = Nil
  /\ \A n \in members, s \in Sides :
       link[n][s] # Nil => link[n][s] \in members /\ link[link[n][s]]["P"] = n
  /\ Len(Walk) = Cardinality(members)
  /\ {Walk[i] : i \in DOMAIN Walk} = members

\* Between calls the tree is a red-black tree: black root and sentinel, no
\* red child of a red node, the same number of black nodes on both sides.
\* This is what bounds the search and the leftmost walk by 2 log n turns.
RedBlack ==
  ~Rebalancing =>
    /\ colour[root] = "black" /\ colour[Nil] = "black"
    /\ \A n \in members : colour[n] = "red" => \A s \in Sides : colour[link[n][s]] = "black"
    /\ \A n \in members : BlackHeight[link[n]["L"]] = BlackHeight[link[n]["R"]]

\* t_count is the number of nodes in the tree.
CountExact == ~Rebalancing => count = Cardinality(members)

\* tree_sched.h:973: the leftmost node has the smallest Virtual Fire.
LeftmostIsLeast ==
  Walk # <<>> => \A n \in members : fire[Walk[1]] <= fire[n]

\* The tree implements the ready queue: insertion takes effect when the leaf
\* is linked, removal when the node is spliced out, every rotation and
\* recolouring leaves the order alone, and a pick returns the head, the
\* oldest of the nodes with the smallest key.
Queue == INSTANCE ReadyQueue WITH
  queue  <- [i \in DOMAIN Walk |-> [n |-> Walk[i], f |-> fire[Walk[i]]]],
  chosen <- running

ImplementsReadyQueue == Queue!Spec

----------------------------------------------------------------------------
(* Nodes                                                                   *)

\* tree_sched.h:811: bk_sched_node_create creates a new node for an entity:
\* the node an entity was given keeps describing that entity.
NodePerEntity == \A e \in Entities : nodeOf[e] # Nil => owner[nodeOf[e]] = e

----------------------------------------------------------------------------
(* bk_sched_finish_node                                                    *)

\* tree_sched.h:1010 and 1022: finishing marks the end of the execution and
\* puts the node back into the tree, so the call returns.
FinishReturns == \A c \in CPUs : pc[c] = "finish" ~> pc[c] = "idle"

\* What the code does instead: a CPU in bk_sched_finish_node spins in
\* bk_sched_node_update on the lock it holds itself, and from then on no CPU
\* gets into the tree.
FinishNeverReturns ==
  [][\A c \in CPUs : pc[c] = "nested" =>
       pc'[c] = "nested" /\ \A d \in CPUs \ {c} : Holds(d)' => Holds(d)]_vars

\* Hence n_total_time (and n_virtual_time with it) is never advanced: a node
\* with an end time is one whose update never starts.
NoTimeAccounted == \A n \in Blocks : totalTime[n] = 0

=============================================================================
