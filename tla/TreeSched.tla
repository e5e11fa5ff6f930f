----------------------------- MODULE TreeSched -----------------------------
(***************************************************************************)
(* The red-black tree scheduler of incl/bible/tree_sched.h: the tree of    *)
(* scheduling nodes ordered by Virtual Fire, its spinlock, and the kernel  *)
(* API that CPUs call concurrently.  One action is one step of a call: a   *)
(* test-and-set of the lock, one turn of a loop, or the straight-line code *)
(* between two of those.                                                   *)
(*                                                                         *)
(* bk_sched_insert and bk_sched_remove take no lock themselves; the only   *)
(* caller in the source, bk_sched_finish_node, holds t_lock around them,   *)
(* and the callers modelled here do the same.                              *)
(***************************************************************************)
EXTENDS Integers, FiniteSets

CONSTANTS
  CPUs,          \* processors that call the scheduler
  Nodes,         \* memory blocks bk_vm_alloc can hand out for nodes
  Nil,           \* t_nil, the sentinel
  Base,          \* the block at BK_VM_KERNEL_BASE + 0: a failed allocation
  Entities,      \* registered entities (n_entity handles)
  None,          \* n_entity of a block no node was created in
  Fires,         \* values of n_virtual_fire (bk_fixed_t, unsigned)
  MaxTime,       \* bound on the time passed as "now"
  Calls,         \* the API calls the CPUs make
  AllocFails,    \* whether bk_vm_alloc may return 0
  UpdateLinked   \* whether callers update a node that is in the tree

\* The memory is finite.  The sentinel and the block at the kernel base are not
\* among the blocks a successful allocation returns; a new node has Virtual
\* Fire 0.
ASSUME BlocksAssumption ==
  /\ IsFiniteSet(Nodes)
  /\ Nil \notin Nodes
  /\ Base \notin Nodes
  /\ Base # Nil
  /\ None \notin Entities

ASSUME ParametersAssumption ==
  /\ Fires \subseteq Nat
  /\ 0 \in Fires
  /\ MaxTime \in Nat
  /\ Calls \subseteq {"insert", "remove", "pick", "update", "finish", "tune"}
  /\ AllocFails \in BOOLEAN
  /\ UpdateLinked \in BOOLEAN

Blocks  == Nodes \cup {Base}
Ptrs    == Blocks \cup {Nil}
Sides   == {"L", "R"}
Colours == {"black", "red"}

VARIABLES
  lock,          \* t_lock.s_lock
  root, link,    \* t_root; n_left, n_right and n_parent as "L", "R", "P"
  colour,        \* n_color
  count,         \* t_count
  fire,          \* n_virtual_fire, the key of the tree
  owner,         \* n_entity
  lastStart, lastFinish, totalTime,
  clock,         \* the time callers read
  pc, call,      \* per CPU: the step it is at and the call it is in
  arg, cur, par, \* per CPU: the node passed, and the local pointers x and y
  running,       \* per CPU: the node its last bk_sched_pick_next returned
  nodeOf,        \* per entity: the node its bk_sched_node_create returned
  members        \* the nodes inserted and not removed (history variable)

tree   == <<root, link, colour, count, members>>
node   == <<fire, owner, lastStart, lastFinish, totalTime, nodeOf>>
cpu    == <<pc, call, arg, cur, par, running>>
vars   == <<lock, tree, node, cpu, clock>>

----------------------------------------------------------------------------
(* The tree as a value [root, link], so that rotations compose.            *)

Opposite(s) == IF s = "L" THEN "R" ELSE "L"

\* Puts v where u hangs below u's parent, or at the root.
Replace(t, u, v) ==
  LET p == t.link[u]["P"] IN
  IF p = Nil
  THEN [t EXCEPT !.root = v]
  ELSE [t EXCEPT !.link[p][IF u = t.link[p]["L"] THEN "L" ELSE "R"] = v]

\* Faulty variant: the subtree that changes sides keeps its old parent.
RotateNoParent(t, x, s) ==
  LET o  == Opposite(s)
      y  == t.link[x][o]
      t1 == [t EXCEPT !.link[x][o] = t.link[y][s], !.link[y]["P"] = t.link[x]["P"]]
  IN  [Replace(t1, x, y) EXCEPT !.link[y][s] = x, !.link[x]["P"] = y]

\* v becomes n's child on side s; the sentinel's parent is left alone.
Hang(t, n, s, v) ==
  LET t1 == [t EXCEPT !.link[n][s] = v]
  IN  IF v = Nil THEN t1 ELSE [t1 EXCEPT !.link[v]["P"] = n]

\* rb_rotate_left is Rotate(t, x, "L") and rb_rotate_right Rotate(t, y, "R").
Rotate(t, x, s) ==
  LET o  == Opposite(s)
      y  == t.link[x][o]
      t1 == Hang(t, x, o, t.link[y][s])
      t2 == [t1 EXCEPT !.link[y]["P"] = t1.link[x]["P"]]
  IN  Hang(Replace(t2, x, y), y, s, x)

\* rb_transplant, rb_minimum and rb_delete_fixup are declared in the source
\* and defined nowhere; their names and uses are those of the textbook removal.
Transplant(t, u, v) ==
  LET t1 == Replace(t, u, v)
  IN  [t1 EXCEPT !.link[v]["P"] = t1.link[u]["P"]]

Tree == [root |-> root, link |-> link]

SetTree(t) == root' = t.root /\ link' = t.link

----------------------------------------------------------------------------
\* The empty tree (bk_sched_tree_init, when its own allocation succeeds), with
\* nodes that have these keys, describe these entities and were returned for them.
InitWith(keys, entities, created) ==
  /\ lock = 0
  /\ root = Nil
  /\ link = [n \in Ptrs |-> [d \in Sides \cup {"P"} |-> Nil]]
  /\ colour = [n \in Ptrs |-> "black"]
  /\ count = 0
  /\ fire = keys
  /\ owner = entities
  /\ lastStart = [n \in Blocks |-> 0]
  /\ lastFinish = [n \in Blocks |-> 0]
  /\ totalTime = [n \in Blocks |-> 0]
  /\ clock = 0
  /\ pc = [c \in CPUs |-> "idle"]
  /\ call = [c \in CPUs |-> "none"]
  /\ arg = [c \in CPUs |-> Nil]
  /\ cur = [c \in CPUs |-> Nil]
  /\ par = [c \in CPUs |-> Nil]
  /\ running = [c \in CPUs |-> Nil]
  /\ nodeOf = created
  /\ members = {}

Init == InitWith([n \in Blocks |-> 0], [n \in Blocks |-> None], [e \in Entities |-> Nil])

\* Time passes between calls.
Tick ==
  /\ clock < MaxTime
  /\ clock' = clock + 1
  /\ UNCHANGED <<lock, tree, node, cpu>>

\* bk_sched_node_create.  A failed allocation gives offset 0, hence the block
\* at the kernel base, which is not NULL: the function carries on with it.
NodeCreate(e) ==
  /\ nodeOf[e] = Nil
  /\ \E n \in {b \in Nodes : owner[b] = None} \cup (IF AllocFails THEN {Base} ELSE {}) :
       /\ nodeOf' = [nodeOf EXCEPT ![e] = n]
       /\ owner' = [owner EXCEPT ![n] = e]
       /\ fire' = [fire EXCEPT ![n] = 0]
       /\ lastStart' = [lastStart EXCEPT ![n] = 0]
       /\ lastFinish' = [lastFinish EXCEPT ![n] = 0]
       /\ totalTime' = [totalTime EXCEPT ![n] = 0]
  /\ UNCHANGED <<lock, tree, cpu, clock>>

----------------------------------------------------------------------------
(* Calls.  A caller inserts a node that is not in the tree, removes one     *)
(* that is, and finishes the node it picked; no two callers insert or       *)
(* remove one node at the same time, and unless UpdateLinked a node is not  *)
(* updated while it is in the tree or on its way there.                     *)

Using(n, fs) == \E c \in CPUs : call[c] \in fs /\ arg[c] = n

Exclusive == {"insert", "remove"} \cup (IF UpdateLinked THEN {} ELSE {"update"})

Callable(c, f, n) ==
  \/ f = "insert" /\ n \in Blocks \ members /\ owner[n] # None /\ ~Using(n, Exclusive)
  \/ f = "remove" /\ n \in members /\ ~Using(n, Exclusive)
  \/ f = "pick" /\ n = Nil
  \/ /\ f = "update"
     /\ n \in Blocks
     /\ owner[n] # None
     /\ UpdateLinked \/ (n \notin members /\ ~Using(n, Exclusive))
  \/ f = "finish" /\ n = running[c] /\ n # Nil
  \/ f = "tune" /\ n \in Blocks /\ owner[n] # None

Call(c, f, n) ==
  /\ pc[c] = "idle"
  /\ Callable(c, f, n)
  /\ pc' = [pc EXCEPT ![c] = "acquire"]
  /\ call' = [call EXCEPT ![c] = f]
  /\ arg' = [arg EXCEPT ![c] = n]
  /\ UNCHANGED <<lock, tree, node, cur, par, running, clock>>

Goto(c, l) == pc' = [pc EXCEPT ![c] = l]

\* Faulty variants: the lock counts its takers, or is taken without a test.
SpinLockCounts(c, from, to) ==
  /\ pc[c] = from
  /\ lock' = lock + 1
  /\ IF lock = 0 THEN Goto(c, to) ELSE UNCHANGED pc
  /\ UNCHANGED <<tree, node, call, arg, cur, par, running, clock>>

SpinLockBlind(c, from, to) ==
  /\ pc[c] = from
  /\ lock' = 1
  /\ Goto(c, to)
  /\ UNCHANGED <<tree, node, call, arg, cur, par, running, clock>>

\* sched_spin_lock: every turn of the loop writes 1 and tests what was there.
SpinLock(c, from, to) ==
  /\ pc[c] = from
  /\ lock' = 1
  /\ IF lock = 0 THEN Goto(c, to) ELSE UNCHANGED pc
  /\ UNCHANGED <<tree, node, call, arg, cur, par, running, clock>>

\* The body of each call starts at the step of the call's name.
Acquire(c) == SpinLock(c, "acquire", call[c])

\* The end of a call: its arguments and local pointers cease to exist.
Return(c) ==
  /\ Goto(c, "idle")
  /\ call' = [call EXCEPT ![c] = "none"]
  /\ arg' = [arg EXCEPT ![c] = Nil]
  /\ cur' = [cur EXCEPT ![c] = Nil]
  /\ par' = [par EXCEPT ![c] = Nil]

\* sched_spin_unlock, and the return to the caller.
Release(c) ==
  /\ pc[c] = "release"
  /\ lock' = 0
  /\ Return(c)
  /\ UNCHANGED <<tree, node, running, clock>>

----------------------------------------------------------------------------
(* bk_sched_insert                                                         *)

InsertStart(c) ==
  /\ pc[c] = "insert"
  /\ par' = [par EXCEPT ![c] = Nil]
  /\ cur' = [cur EXCEPT ![c] = root]
  /\ Goto(c, "descend")
  /\ UNCHANGED <<lock, tree, node, call, arg, running, clock>>

\* Faulty variants: equal keys to the left, or the order reversed.
SideTiesLeft(n, m) == IF fire[n] <= fire[m] THEN "L" ELSE "R"

SideReversed(n, m) == IF fire[n] > fire[m] THEN "L" ELSE "R"

\* The side of m on which n goes: smaller keys left, equal ones right.
Side(n, m) == IF fire[n] < fire[m] THEN "L" ELSE "R"

\* One turn of the search.
InsertDescend(c) ==
  /\ pc[c] = "descend"
  /\ cur[c] # Nil
  /\ par' = [par EXCEPT ![c] = cur[c]]
  /\ cur' = [cur EXCEPT ![c] = link[@][Side(arg[c], @)]]
  /\ UNCHANGED <<lock, tree, node, pc, call, arg, running, clock>>

\* The new node becomes a red leaf below the last node visited.
InsertLink(c) ==
  LET n == arg[c]
      y == par[c]
      leaf == [L |-> Nil, R |-> Nil, P |-> y]
  IN
  /\ pc[c] = "descend"
  /\ cur[c] = Nil
  /\ IF y = Nil
     THEN root' = n /\ link' = [link EXCEPT ![n] = leaf]
     ELSE root' = root /\ link' = [link EXCEPT ![y][Side(n, y)] = n, ![n] = leaf]
  /\ colour' = [colour EXCEPT ![n] = "red"]
  /\ members' = members \cup {n}
  /\ cur' = [cur EXCEPT ![c] = n]
  /\ Goto(c, "fixup")
  /\ UNCHANGED <<lock, count, node, call, arg, par, running, clock>>

\* The condition of the rebalancing loop and the links its turns follow.
RedParent(n) == colour[link[n]["P"]] = "red"
Parent(n)    == link[n]["P"]
Grand(n)     == Parent(Parent(n))
SideOf(n)    == IF n = link[Parent(n)]["L"] THEN "L" ELSE "R"
Uncle(n)     == link[Grand(n)][Opposite(SideOf(Parent(n)))]

\* A red uncle: recolour and carry on from the grandparent.
FixupRecolour(c) ==
  LET n == cur[c] IN
  /\ pc[c] = "fixup"
  /\ RedParent(n)
  /\ colour[Uncle(n)] = "red"
  /\ colour' = [colour EXCEPT ![Parent(n)] = "black", ![Uncle(n)] = "black",
                              ![Grand(n)] = "red"]
  /\ cur' = [cur EXCEPT ![c] = Grand(n)]
  /\ UNCHANGED <<lock, root, link, count, members, node, pc, call, arg, par, running, clock>>

\* A black uncle: an inner grandchild is rotated outwards first, then the
\* grandparent is rotated down.
FixupRotate(c) ==
  LET n  == cur[c]
      s  == SideOf(Parent(n))
      inner == n = link[Parent(n)][Opposite(s)]
      m  == IF inner THEN Parent(n) ELSE n
      t  == IF inner THEN Rotate(Tree, m, s) ELSE Tree
      p  == t.link[m]["P"]
      g  == t.link[p]["P"]
  IN
  /\ pc[c] = "fixup"
  /\ RedParent(n)
  /\ colour[Uncle(n)] # "red"
  /\ SetTree(Rotate(t, g, Opposite(s)))
  /\ colour' = [colour EXCEPT ![p] = "black", ![g] = "red"]
  /\ cur' = [cur EXCEPT ![c] = m]
  /\ UNCHANGED <<lock, count, members, node, pc, call, arg, par, running, clock>>

\* Faulty variant: the root is left red.
InsertDoneRedRoot(c) ==
  /\ pc[c] = "fixup"
  /\ ~RedParent(cur[c])
  /\ count' = count + 1
  /\ Goto(c, "release")
  /\ UNCHANGED <<lock, root, link, colour, members, node, call, arg, cur, par, running, clock>>

InsertDone(c) ==
  /\ pc[c] = "fixup"
  /\ ~RedParent(cur[c])
  /\ colour' = [colour EXCEPT ![root] = "black"]
  /\ count' = count + 1
  /\ Goto(c, "release")
  /\ UNCHANGED <<lock, root, link, members, node, call, arg, cur, par, running, clock>>

----------------------------------------------------------------------------
(* bk_sched_remove                                                         *)

\* A node with a child missing: the other child takes its place.
SpliceOut(n) ==
  LET x == IF link[n]["L"] = Nil THEN link[n]["R"] ELSE link[n]["L"]
  IN  [t |-> Transplant(Tree, n, x), x |-> x, black |-> colour[n] = "black", colour |-> colour]

\* The successor y takes the place, the children and the colour of n.
SpliceSuccessor(n, y) ==
  LET x  == link[y]["R"]
      t0 == Transplant(Tree, y, x)
      t1 == IF link[y]["P"] = n
            THEN [Tree EXCEPT !.link[x]["P"] = y]
            ELSE Hang(t0, y, "R", t0.link[n]["R"])
      t2 == Transplant(t1, n, y)
  IN  [t |-> Hang(t2, y, "L", t2.link[n]["L"]), x |-> x,
       black |-> colour[y] = "black", colour |-> [colour EXCEPT ![y] = colour[n]]]

TwoChildren(n) == \A s \in Sides : link[n][s] # Nil

\* rb_minimum looks for the successor of a node with two children.
RemoveSearch(c) ==
  /\ pc[c] = "remove"
  /\ TwoChildren(arg[c])
  /\ cur' = [cur EXCEPT ![c] = link[arg[c]]["R"]]
  /\ Goto(c, "minimum")
  /\ UNCHANGED <<lock, tree, node, call, arg, par, running, clock>>

RemoveDescend(c) ==
  /\ pc[c] = "minimum"
  /\ link[cur[c]]["L"] # Nil
  /\ cur' = [cur EXCEPT ![c] = link[@]["L"]]
  /\ UNCHANGED <<lock, tree, node, pc, call, arg, par, running, clock>>

RemoveSplice(c) ==
  LET n == arg[c]
      r == IF pc[c] = "minimum" THEN SpliceSuccessor(n, cur[c]) ELSE SpliceOut(n)
  IN
  /\ \/ pc[c] = "remove" /\ ~TwoChildren(n)
     \/ pc[c] = "minimum" /\ link[cur[c]]["L"] = Nil
  /\ SetTree(r.t)
  /\ colour' = r.colour
  /\ members' = members \ {n}
  /\ cur' = [cur EXCEPT ![c] = r.x]
  /\ Goto(c, IF r.black THEN "delfixup" ELSE "removed")
  /\ UNCHANGED <<lock, count, node, call, arg, par, running, clock>>

\* rb_delete_fixup: moves the missing black of cur upwards until it can be
\* made good.
Doubled(n) == n # root /\ colour[n] = "black"

Sibling(n) == link[Parent(n)][Opposite(SideOf(n))]

DelFixupRedSibling(c) ==
  LET n == cur[c] IN
  /\ pc[c] = "delfixup"
  /\ Doubled(n)
  /\ colour[Sibling(n)] = "red"
  /\ colour' = [colour EXCEPT ![Sibling(n)] = "black", ![Parent(n)] = "red"]
  /\ SetTree(Rotate(Tree, Parent(n), SideOf(n)))
  /\ UNCHANGED <<lock, count, members, node, pc, call, arg, cur, par, running, clock>>

DelFixupRecolour(c) ==
  LET n == cur[c] IN
  /\ pc[c] = "delfixup"
  /\ Doubled(n)
  /\ colour[Sibling(n)] = "black"
  /\ \A s \in Sides : colour[link[Sibling(n)][s]] = "black"
  /\ colour' = [colour EXCEPT ![Sibling(n)] = "red"]
  /\ cur' = [cur EXCEPT ![c] = Parent(n)]
  /\ UNCHANGED <<lock, root, link, count, members, node, pc, call, arg, par, running, clock>>

DelFixupRotate(c) ==
  LET n == cur[c]
      p == Parent(n)
      s == SideOf(n)
      o == Opposite(s)
      w == Sibling(n)
      farBlack == colour[link[w][o]] = "black"
      t == IF farBlack THEN Rotate(Tree, w, o) ELSE Tree
      v == IF farBlack THEN link[w][s] ELSE w
      col == IF farBlack THEN [colour EXCEPT ![v] = "black", ![w] = "red"] ELSE colour
  IN
  /\ pc[c] = "delfixup"
  /\ Doubled(n)
  /\ colour[w] = "black"
  /\ \E d \in Sides : colour[link[w][d]] = "red"
  /\ colour' = [col EXCEPT ![v] = col[p], ![p] = "black", ![t.link[v][o]] = "black"]
  /\ SetTree(Rotate(t, p, s))
  /\ cur' = [cur EXCEPT ![c] = root']
  /\ UNCHANGED <<lock, count, members, node, pc, call, arg, par, running, clock>>

DelFixupDone(c) ==
  /\ pc[c] = "delfixup"
  /\ ~Doubled(cur[c])
  /\ colour' = [colour EXCEPT ![cur[c]] = "black"]
  /\ Goto(c, "removed")
  /\ UNCHANGED <<lock, root, link, count, members, node, call, arg, cur, par, running, clock>>

\* Faulty variant: the node is not counted out.
RemoveUncounted(c) ==
  /\ pc[c] = "removed"
  /\ Goto(c, IF call[c] = "finish" THEN "insert" ELSE "release")
  /\ UNCHANGED <<lock, tree, node, call, arg, cur, par, running, clock>>

\* t_count--; bk_sched_finish_node goes on to insert the node again.
RemoveDone(c) ==
  /\ pc[c] = "removed"
  /\ count' = count - 1
  /\ Goto(c, IF call[c] = "finish" THEN "insert" ELSE "release")
  /\ UNCHANGED <<lock, root, link, colour, members, node, call, arg, cur, par, running, clock>>

----------------------------------------------------------------------------
(* bk_sched_pick_next: the leftmost node, which stays in the tree.          *)

\* Faulty variant: the early return for the empty tree keeps the lock.
PickEmptyLocked(c) ==
  /\ pc[c] = "pick"
  /\ root = Nil
  /\ running' = [running EXCEPT ![c] = Nil]
  /\ Return(c)
  /\ UNCHANGED <<lock, tree, node, clock>>

PickEmpty(c) ==
  /\ pc[c] = "pick"
  /\ root = Nil
  /\ running' = [running EXCEPT ![c] = Nil]
  /\ Goto(c, "release")
  /\ UNCHANGED <<lock, tree, node, call, arg, cur, par, clock>>

PickStart(c) ==
  /\ pc[c] = "pick"
  /\ root # Nil
  /\ cur' = [cur EXCEPT ![c] = root]
  /\ Goto(c, "leftmost")
  /\ UNCHANGED <<lock, tree, node, call, arg, par, running, clock>>

PickDescend(c) ==
  /\ pc[c] = "leftmost"
  /\ link[cur[c]]["L"] # Nil
  /\ cur' = [cur EXCEPT ![c] = link[@]["L"]]
  /\ UNCHANGED <<lock, tree, node, pc, call, arg, par, running, clock>>

PickDone(c) ==
  /\ pc[c] = "leftmost"
  /\ link[cur[c]]["L"] = Nil
  /\ lastStart' = [lastStart EXCEPT ![cur[c]] = clock]
  /\ running' = [running EXCEPT ![c] = cur[c]]
  /\ Goto(c, "release")
  /\ UNCHANGED <<lock, tree, fire, owner, lastFinish, totalTime, nodeOf, call, arg,
                 cur, par, clock>>

----------------------------------------------------------------------------
(* bk_sched_node_update: recomputes the key of the node where it stands.    *)
(* The value of the Virtual Fire formula is any of Fires.                   *)

Update(c) ==
  LET n == arg[c] IN
  /\ pc[c] = "update"
  /\ \E f \in Fires : fire' = [fire EXCEPT ![n] = f]
  /\ totalTime' = IF lastStart[n] # 0 /\ lastFinish[n] # 0
                  THEN [totalTime EXCEPT ![n] = @ + lastFinish[n] - lastStart[n]]
                  ELSE totalTime
  /\ Goto(c, "updated")
  /\ UNCHANGED <<lock, tree, owner, lastStart, lastFinish, nodeOf, call, arg, cur, par,
                 running, clock>>

\* The unlock at the end of bk_sched_node_update, which returns to its caller
\* or into bk_sched_finish_node.
UpdateRelease(c) ==
  /\ pc[c] = "updated"
  /\ lock' = 0
  /\ IF call[c] = "finish"
     THEN Goto(c, "remove") /\ UNCHANGED <<call, arg, cur, par>>
     ELSE Return(c)
  /\ UNCHANGED <<tree, node, running, clock>>

----------------------------------------------------------------------------
(* bk_sched_finish_node: stamps the node, then calls bk_sched_node_update,  *)
(* whose first act is to take the lock the caller already holds.            *)

\* Faulty variant: the node's time is accounted before the nested call.
FinishAccounts(c) ==
  LET n == arg[c] IN
  /\ pc[c] = "finish"
  /\ lastFinish' = [lastFinish EXCEPT ![n] = clock]
  /\ totalTime' = [totalTime EXCEPT ![n] = @ + clock - lastStart[n]]
  /\ Goto(c, "nested")
  /\ UNCHANGED <<lock, tree, fire, owner, lastStart, nodeOf, call, arg, cur, par, running, clock>>

Finish(c) ==
  /\ pc[c] = "finish"
  /\ lastFinish' = [lastFinish EXCEPT ![arg[c]] = clock]
  /\ Goto(c, "nested")
  /\ UNCHANGED <<lock, tree, fire, owner, lastStart, totalTime, nodeOf, call, arg, cur,
                 par, running, clock>>

\* Faulty variant: as it would be if the update did not take the lock again.
FinishUnlocked(c) ==
  /\ pc[c] = "nested"
  /\ Goto(c, "update")
  /\ UNCHANGED <<lock, tree, node, call, arg, cur, par, running, clock>>

FinishUpdate(c) == SpinLock(c, "nested", "update")

----------------------------------------------------------------------------
\* bk_sched_set_weight, bk_sched_set_request, bk_sched_update_system_time,
\* bk_sched_get_justice and bk_sched_is_just: under the lock they change or
\* read what the Virtual Fire is computed from, and leave the key, and the
\* node's place in the tree, as they were.
Tune(c) ==
  /\ pc[c] = "tune"
  /\ Goto(c, "release")
  /\ UNCHANGED <<lock, tree, node, call, arg, cur, par, running, clock>>

----------------------------------------------------------------------------
Insert(c) == InsertStart(c) \/ InsertDescend(c) \/ InsertLink(c)
             \/ FixupRecolour(c) \/ FixupRotate(c) \/ InsertDone(c)
Remove(c) == RemoveSearch(c) \/ RemoveDescend(c) \/ RemoveSplice(c) \/ RemoveDone(c)
             \/ DelFixupRedSibling(c) \/ DelFixupRecolour(c) \/ DelFixupRotate(c)
             \/ DelFixupDone(c)
Pick(c)   == PickEmpty(c) \/ PickStart(c) \/ PickDescend(c) \/ PickDone(c)

\* What a CPU inside a call does.
Step(c) == Acquire(c) \/ Insert(c) \/ Remove(c) \/ Pick(c) \/ Update(c) \/ UpdateRelease(c)
           \/ Finish(c) \/ FinishUpdate(c) \/ Tune(c) \/ Release(c)

Next ==
  \/ Tick
  \/ \E e \in Entities : NodeCreate(e)
  \/ \E c \in CPUs, f \in Calls, n \in Ptrs : Call(c, f, n)
  \/ \E c \in CPUs : Step(c)

Spec == Init /\ [][Next]_vars

\* A CPU inside a call keeps executing; that it is in one, and that time
\* passes, is up to the callers.
Fairness == \A c \in CPUs : WF_vars(Step(c))

FairSpec == Spec /\ Fairness
============================================================================
