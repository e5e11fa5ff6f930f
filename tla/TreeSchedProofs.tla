-------------------------- MODULE TreeSchedProofs ---------------------------
(***************************************************************************)
(* Proofs about TreeSched for any number of CPUs, nodes and entities: the  *)
(* lock gives mutual exclusion, a CPU that calls bk_sched_finish_node      *)
(* never comes back from it, every variable keeps its type, and t_count    *)
(* counts the members of the tree.                                         *)
(***************************************************************************)
EXTENDS TreeSchedProps, FiniteSetTheorems, TLAPS

\* What a CPU is doing agrees with the call it made.  Only bk_sched_finish_node
\* comes to the nested lock, and it never gets to the update behind it.
InsertSteps == {"insert", "descend"}
RemoveSteps == {"remove", "minimum", "delfixup", "removed"}

CallOK(c) ==
  /\ pc[c] = "acquire" => call[c] \in CallNames
  /\ pc[c] \in InsertSteps => call[c] = "insert"
  /\ pc[c] \in RemoveSteps => call[c] = "remove"
  /\ pc[c] \in {"finish", "nested"} => call[c] = "finish"
  /\ pc[c] \in {"update", "updated"} => call[c] = "update"

\* A finish time is stamped only by a CPU that then spins for ever.
StampOK ==
  \A n \in Blocks : lastFinish[n] = 0 \/ \E c \in CPUs : pc[c] = "nested"

\* The inductive invariant.
IInv ==
  /\ ControlTypeOK
  /\ \A c \in CPUs : CallOK(c)
  /\ MutualExclusion

\* The steps that leave the lock, and the call of every CPU, alone, and move
\* one CPU that holds the lock to another step inside the lock.
Inside(c) ==
  /\ lock' = lock
  /\ call' = call
  /\ Holds(c)
  /\ \E l \in Steps \ {"idle", "acquire", "finish", "nested", "update"} :
       /\ l \in InsertSteps => pc[c] \in InsertSteps
       /\ l \in RemoveSteps => pc[c] \in RemoveSteps
       /\ l = "updated" => pc[c] = "update"
       /\ pc' = [pc EXCEPT ![c] = l]

\* The control invariant holds at the start.
LEMMA InitIInv == Init => IInv
  BY DEF Init, InitWith, IInv, ControlTypeOK, CallOK, MutualExclusion, Holds, Steps, CallNames,
         InsertSteps, RemoveSteps

\* A turn of a loop is a step from the loop to itself.
LEMMA Turn ==
  ASSUME IInv, NEW c \in CPUs, lock' = lock, call' = call, pc' = pc,
         pc[c] \in {"descend", "fixup", "minimum", "delfixup", "leftmost"}
  PROVE  Inside(c)
PROOF
<1>1. pc' = [pc EXCEPT ![c] = pc[c]]
  BY DEF IInv, ControlTypeOK
<1>2. pc[c] \in Steps \ {"idle", "acquire", "finish", "nested", "update"} /\ pc[c] # "updated"
  BY DEF Steps
<1> QED BY <1>1, <1>2 DEF Inside, Holds

\* Every step of an insertion, a removal or a pick, and the bodies of the other
\* calls, stay inside the lock.
LEMMA BodiesInside ==
  ASSUME IInv, NEW c \in CPUs, Insert(c) \/ Remove(c) \/ Pick(c) \/ Update(c) \/ Tune(c)
  PROVE  Inside(c)
PROOF
<1> USE DEF ControlTypeOK, Holds, Goto, Inside, Steps, InsertSteps, RemoveSteps, node, tree, cpu
<1>0. ControlTypeOK
  BY DEF IInv
<1>1. CASE Insert(c)
  <2>1. CASE InsertStart(c) \/ InsertLink(c) \/ InsertDone(c)
    BY <2>1 DEF InsertStart, InsertLink, InsertDone
  <2>2. CASE InsertDescend(c) \/ FixupRecolour(c) \/ FixupRotate(c)
    BY <2>2, Turn DEF InsertDescend, FixupRecolour, FixupRotate
  <2> QED BY <1>1, <2>1, <2>2 DEF Insert
<1>2. CASE Remove(c)
  <2>1. CASE RemoveSearch(c) \/ RemoveSplice(c)
    BY <2>1, <1>0 DEF RemoveSearch, RemoveSplice
  <2>2. CASE RemoveDone(c)
    BY <2>2 DEF RemoveDone, IInv, CallOK
  <2>3. CASE DelFixupDone(c)
    BY <2>3 DEF DelFixupDone
  <2>4. CASE RemoveDescend(c) \/ DelFixupRedSibling(c) \/ DelFixupRecolour(c) \/ DelFixupRotate(c)
    BY <2>4, Turn DEF RemoveDescend, DelFixupRedSibling, DelFixupRecolour, DelFixupRotate
  <2> QED BY <1>2, <2>1, <2>2, <2>3, <2>4 DEF Remove
<1>3. CASE Pick(c)
  <2>1. CASE PickEmpty(c) \/ PickStart(c) \/ PickDone(c)
    BY <2>1 DEF PickEmpty, PickStart, PickDone
  <2>2. CASE PickDescend(c)
    BY <2>2, Turn DEF PickDescend
  <2> QED BY <1>3, <2>1, <2>2 DEF Pick
<1>4. CASE Update(c) \/ Tune(c)
  BY <1>4 DEF Update, Tune
<1> QED BY <1>1, <1>2, <1>3, <1>4

\* A step inside the lock preserves the invariant.
LEMMA InsideInv ==
  ASSUME IInv, NEW c \in CPUs, Inside(c)
  PROVE  IInv'
BY DEF IInv, ControlTypeOK, CallOK, MutualExclusion, Holds, Inside, Steps, CallNames,
       InsertSteps, RemoveSteps

\* Taking the lock: only one CPU finds it free.
LEMMA SpinInv ==
  ASSUME IInv, NEW c \in CPUs, Acquire(c) \/ FinishUpdate(c)
  PROVE  IInv'
PROOF
<1> USE DEF IInv, ControlTypeOK, CallOK, MutualExclusion, Holds, Steps, CallNames, InsertSteps,
          RemoveSteps, cpu
<1>1. CASE Acquire(c)
  <2>1. CASE lock = 0
    BY <1>1, <2>1 DEF Acquire, SpinLock, Goto
  <2>2. CASE lock # 0
    BY <1>1, <2>2 DEF Acquire, SpinLock
  <2> QED BY <2>1, <2>2
<1>2. CASE FinishUpdate(c)
  \* The lock is the CPU's own: the test fails and nothing changes.
  <2>1. lock = 1 /\ pc[c] = "nested"
    BY <1>2 DEF FinishUpdate, SpinLock
  <2>2. lock' = lock /\ pc' = pc /\ call' = call
    BY <1>2, <2>1 DEF FinishUpdate, SpinLock
  <2> QED BY <2>2
<1> QED BY <1>1, <1>2

\* Giving the lock back.
LEMMA ReleaseInv ==
  ASSUME IInv, NEW c \in CPUs, Release(c) \/ UpdateRelease(c)
  PROVE  IInv'
PROOF
<1> USE DEF IInv, ControlTypeOK, CallOK, MutualExclusion, Holds, Steps, CallNames, InsertSteps,
          RemoveSteps, Goto, Return
<1>1. CASE Release(c)
  BY <1>1 DEF Release
<1>2. CASE UpdateRelease(c)
  BY <1>2 DEF UpdateRelease
<1> QED BY <1>1, <1>2

\* The control invariant holds in every reachable state.
THEOREM Control == Spec => []IInv
PROOF
<1>1. IInv /\ [Next]_vars => IInv'
  <2> SUFFICES ASSUME IInv, [Next]_vars PROVE IInv'
    OBVIOUS
  <2>1. CASE Tick \/ \E e \in Entities : NodeCreate(e)
    BY <2>1 DEF Tick, NodeCreate, cpu, IInv, ControlTypeOK, CallOK, MutualExclusion, Holds
  <2>2. ASSUME NEW c \in CPUs, NEW f \in Calls, NEW n \in Ptrs, Call(c, f, n) PROVE IInv'
    BY <2>2, ParametersAssumption
       DEF Call, IInv, ControlTypeOK, CallOK, MutualExclusion, Holds, Steps, CallNames,
           InsertSteps, RemoveSteps
  <2>3. ASSUME NEW c \in CPUs, Step(c) PROVE IInv'
    <3>1. CASE Acquire(c) \/ FinishUpdate(c)
      BY <3>1, SpinInv
    <3>2. CASE Release(c) \/ UpdateRelease(c)
      BY <3>2, ReleaseInv
    <3>3. CASE Insert(c) \/ Remove(c) \/ Pick(c) \/ Update(c) \/ Tune(c)
      BY <3>3, BodiesInside, InsideInv
    <3>4. CASE Finish(c)
      BY <3>4 DEF Finish, Goto, IInv, ControlTypeOK, CallOK, MutualExclusion, Holds, Steps,
           CallNames, InsertSteps, RemoveSteps
    <3> QED BY <2>3, <3>1, <3>2, <3>3, <3>4 DEF Step
  <2>4. CASE UNCHANGED vars
    BY <2>4 DEF vars, cpu, IInv, ControlTypeOK, CallOK, MutualExclusion, Holds
  <2> QED BY <2>1, <2>2, <2>3, <2>4 DEF Next
<1> QED BY InitIInv, <1>1, PTL DEF Spec

\* At most one CPU is between sched_spin_lock and sched_spin_unlock, and
\* t_lock is 1 exactly then.
THEOREM LockExcludes == Spec => []MutualExclusion
BY Control, PTL DEF IInv
----------------------------------------------------------------------------
(* bk_sched_finish_node                                                    *)

\* While a CPU spins on the nested lock it holds the lock, so the others get
\* no further than the first test-and-set, and it stays where it is.
LEMMA NestedIsForEver ==
  ASSUME IInv, [Next]_vars, NEW c \in CPUs, pc[c] = "nested"
  PROVE  pc'[c] = "nested" /\ \A d \in CPUs \ {c} : Holds(d)' => Holds(d)
PROOF
<1> USE DEF Holds
<1>1. lock = 1 /\ \A d \in CPUs \ {c} : ~Holds(d)
  BY DEF IInv, MutualExclusion
<1>2. ControlTypeOK /\ \A d \in CPUs : CallOK(d)
  BY DEF IInv
<1>3. CASE Tick \/ (\E e \in Entities : NodeCreate(e)) \/ UNCHANGED vars
  BY <1>3, <1>1 DEF Tick, NodeCreate, vars, cpu
<1>4. ASSUME NEW d \in CPUs, NEW f \in Calls, NEW n \in Ptrs, Call(d, f, n)
      PROVE  pc'[c] = "nested" /\ \A e \in CPUs \ {c} : Holds(e)' => Holds(e)
  BY <1>4, <1>1, <1>2 DEF Call, ControlTypeOK, Steps
<1>5. ASSUME NEW d \in CPUs, Step(d) PROVE pc' = pc
  <2>1. CASE d = c
    <3>1. FinishUpdate(c)
      BY <1>5, <2>1 DEF Step, Acquire, SpinLock, Release, UpdateRelease, Finish, Tune,
           Update, Insert, InsertStart, InsertDescend, InsertLink, FixupRecolour, FixupRotate,
           InsertDone, Remove, RemoveSearch, RemoveDescend,
           RemoveSplice, DelFixupRedSibling, DelFixupRecolour,
           DelFixupRotate, DelFixupDone, RemoveDone, Pick, PickEmpty, PickStart, PickDescend,
           PickDone
    <3> QED BY <3>1, <1>1 DEF FinishUpdate, SpinLock
  <2>2. CASE d # c
    <3>1. pc[d] \in {"idle", "acquire"}
      BY <1>1, <2>2
    <3>2. Acquire(d)
      BY <1>5, <3>1 DEF Step, FinishUpdate, SpinLock, Release, UpdateRelease, Finish, Tune,
           Update, Insert, InsertStart, InsertDescend, InsertLink, FixupRecolour, FixupRotate,
           InsertDone, Remove, RemoveSearch, RemoveDescend,
           RemoveSplice, DelFixupRedSibling, DelFixupRecolour,
           DelFixupRotate, DelFixupDone, RemoveDone, Pick, PickEmpty, PickStart, PickDescend,
           PickDone
    <3> QED BY <3>2, <1>1 DEF Acquire, SpinLock
  <2> QED BY <2>1, <2>2
<1>6. ASSUME NEW d \in CPUs, Step(d)
      PROVE  pc'[c] = "nested" /\ \A e \in CPUs \ {c} : Holds(e)' => Holds(e)
  BY <1>5, <1>6
<1> QED BY <1>3, <1>4, <1>6 DEF Next

\* A call of bk_sched_finish_node never returns, and shuts every CPU out of
\* the scheduler for ever.
THEOREM FinishDeadlocks == Spec => FinishNeverReturns
PROOF
<1>1. IInv /\ [Next]_vars =>
        [\A c \in CPUs : pc[c] = "nested" =>
           pc'[c] = "nested" /\ \A d \in CPUs \ {c} : Holds(d)' => Holds(d)]_vars
  BY NestedIsForEver
<1> QED BY <1>1, Control, PTL DEF Spec, FinishNeverReturns

\* No execution time is accounted, and a node with a finish time is one in
\* the hands of a CPU that spins.
TimeInv ==
  /\ totalTime = [n \in Blocks |-> 0]
  /\ lastFinish \in [Blocks -> Nat]
  /\ clock \in Nat
  /\ StampOK

\* Every step keeps the accounted time.
LEMMA TimeStep == IInv /\ TimeInv /\ [Next]_vars => TimeInv'
PROOF
<1> SUFFICES ASSUME IInv, TimeInv, [Next]_vars PROVE TimeInv'
  OBVIOUS
<1> USE DEF TimeInv, StampOK
<1>1. \A c \in CPUs : pc[c] = "nested" => pc'[c] = "nested"
  BY NestedIsForEver
<1>2. CASE Tick \/ UNCHANGED vars
  BY <1>2, <1>1 DEF Tick, node, vars
<1>3. CASE \E e \in Entities : NodeCreate(e)
  <2>1. PICK n \in Blocks : /\ totalTime' = [totalTime EXCEPT ![n] = 0]
                            /\ lastFinish' = [lastFinish EXCEPT ![n] = 0]
    BY <1>3 DEF NodeCreate, Blocks
  <2>2. clock' = clock
    BY <1>3 DEF NodeCreate
  <2>3. totalTime' = [m \in Blocks |-> 0] /\ lastFinish' \in [Blocks -> Nat]
    BY <2>1
  <2>4. ASSUME NEW m \in Blocks PROVE (lastFinish[m] = 0 \/ \E c \in CPUs : pc[c] = "nested")'
    BY <2>1, <1>1
  <2> QED BY <2>2, <2>3, <2>4
<1>4. CASE \E c \in CPUs, f \in Calls, n \in Ptrs : Call(c, f, n)
  BY <1>4, <1>1 DEF Call, node
<1>5. ASSUME NEW c \in CPUs, Step(c) PROVE TimeInv'
  <2>1. CASE Update(c)
    <3>1. \A n \in Blocks : lastFinish[n] = 0
      BY <2>1 DEF Update, IInv, MutualExclusion, Holds
    <3>2. totalTime' = totalTime /\ lastFinish' = lastFinish /\ clock' = clock
      <4>1. CASE arg[c] \in Blocks
        BY <2>1, <3>1, <4>1 DEF Update
      <4>2. CASE arg[c] \notin Blocks
        BY <2>1, <4>2 DEF Update
      <4> QED BY <4>1, <4>2
    <3> QED BY <3>1, <3>2
  <2>2. CASE Finish(c)
    <3>1. pc'[c] = "nested"
      BY <2>2 DEF Finish, Goto, IInv, ControlTypeOK
    <3>2. totalTime' = totalTime /\ clock' = clock
          /\ lastFinish' = [lastFinish EXCEPT ![arg[c]] = clock]
      BY <2>2 DEF Finish
    <3> QED BY <3>1, <3>2
  <2>3. CASE Insert(c) \/ Remove(c) \/ Pick(c)
    BY <2>3, <1>1 DEF node, Insert, InsertStart, InsertDescend, InsertLink, FixupRecolour,
         FixupRotate, InsertDone, Remove, RemoveSearch, RemoveDescend,
           RemoveSplice, DelFixupRedSibling, DelFixupRecolour,
         DelFixupRotate, DelFixupDone, RemoveDone, Pick, PickEmpty, PickStart, PickDescend,
         PickDone
  <2>4. CASE Acquire(c) \/ FinishUpdate(c) \/ Release(c) \/ UpdateRelease(c) \/ Tune(c)
    BY <2>4, <1>1 DEF node, Acquire, FinishUpdate, SpinLock, Release, UpdateRelease, Tune
  <2> QED BY <1>5, <2>1, <2>2, <2>3, <2>4 DEF Step
<1> QED BY <1>2, <1>3, <1>4, <1>5 DEF Next

\* n_total_time stays 0 for every node, whatever the callers do.
THEOREM TimeFrozen == Spec => []NoTimeAccounted
PROOF
<1>1. Init => TimeInv
  BY DEF Init, InitWith, TimeInv, StampOK
<1>2. TimeInv => NoTimeAccounted
  BY DEF TimeInv, NoTimeAccounted
<1> QED BY <1>1, <1>2, TimeStep, Control, PTL DEF Spec
----------------------------------------------------------------------------
(* Types                                                                   *)

Dirs  == Sides \cup {"P"}
Trees == [root : Ptrs, link : [Ptrs -> [Dirs -> Ptrs]]]

\* One link of a tree set to a pointer.
LEMMA LinkType ==
  ASSUME NEW t \in Trees, NEW n \in Ptrs, NEW d \in Dirs, NEW v \in Ptrs
  PROVE  [t EXCEPT !.link[n][d] = v] \in Trees
BY DEF Trees

\* Sides are directions, and the opposite of a side is a side.
LEMMA DirsAre ==
  /\ "L" \in Dirs /\ "R" \in Dirs /\ "P" \in Dirs
  /\ \A s \in Sides : s \in Dirs /\ Opposite(s) \in Sides
BY DEF Dirs, Sides, Opposite

\* Replace gives a tree.
LEMMA ReplaceType ==
  ASSUME NEW t \in Trees, NEW u \in Ptrs, NEW v \in Ptrs
  PROVE  Replace(t, u, v) \in Trees
PROOF
<1> DEFINE p == t.link[u]["P"]
<1>1. p \in Ptrs
  BY DirsAre DEF Trees
<1>2. [t EXCEPT !.root = v] \in Trees
  BY DEF Trees
<1>3. [t EXCEPT !.link[p][IF u = t.link[p]["L"] THEN "L" ELSE "R"] = v] \in Trees
  <2>1. (IF u = t.link[p]["L"] THEN "L" ELSE "R") \in Dirs
    BY DirsAre
  <2> HIDE DEF p
  <2> QED BY <1>1, <2>1, LinkType
<1> QED BY <1>2, <1>3 DEF Replace

\* Transplant gives a tree.
LEMMA TransplantType ==
  ASSUME NEW t \in Trees, NEW u \in Ptrs, NEW v \in Ptrs
  PROVE  Transplant(t, u, v) \in Trees
PROOF
<1> DEFINE t1 == Replace(t, u, v)
<1>1. t1 \in Trees
  BY ReplaceType
<1> HIDE DEF t1
<1>2. t1.link[u]["P"] \in Ptrs
  BY <1>1, DirsAre DEF Trees
<1>3. [t1 EXCEPT !.link[v]["P"] = t1.link[u]["P"]] \in Trees
  BY <1>1, <1>2, DirsAre, LinkType
<1> QED BY <1>3 DEF Transplant, t1

\* Hang gives a tree.
LEMMA HangType ==
  ASSUME NEW t \in Trees, NEW n \in Ptrs, NEW d \in Dirs, NEW v \in Ptrs
  PROVE  Hang(t, n, d, v) \in Trees
PROOF
<1> DEFINE t1 == [t EXCEPT !.link[n][d] = v]
<1>1. t1 \in Trees
  BY LinkType
<1> HIDE DEF t1
<1>2. [t1 EXCEPT !.link[v]["P"] = n] \in Trees
  BY <1>1, DirsAre, LinkType
<1> QED BY <1>1, <1>2 DEF Hang, t1

\* Rotate gives a tree.
LEMMA RotateType ==
  ASSUME NEW t \in Trees, NEW x \in Ptrs, NEW s \in Sides
  PROVE  Rotate(t, x, s) \in Trees
PROOF
<1> DEFINE o  == Opposite(s)
           y  == t.link[x][o]
           t1 == Hang(t, x, o, t.link[y][s])
           t2 == [t1 EXCEPT !.link[y]["P"] = t1.link[x]["P"]]
<1>0. Rotate(t, x, s) = Hang(Replace(t2, x, y), y, s, x)
  BY DEF Rotate
<1>1. \A u \in Trees, m \in Ptrs, d \in Dirs : u.link[m][d] \in Ptrs
  BY DEF Trees
<1>2. o \in Dirs /\ s \in Dirs /\ "P" \in Dirs
  BY DirsAre
<1> HIDE DEF o
<1>3. y \in Ptrs
  BY <1>1, <1>2
<1> HIDE DEF y
<1>4. t1 \in Trees
  BY <1>1, <1>2, <1>3, HangType
<1> HIDE DEF t1
<1>5. t2 \in Trees
  BY <1>1, <1>2, <1>3, <1>4, LinkType
<1> HIDE DEF t2
<1> QED BY <1>0, <1>2, <1>3, <1>5, ReplaceType, HangType

\* The parts of the type invariant, by what the actions change together.  The
\* node a CPU inserts is a block: the sentinel never becomes a member.
TreeTyped ==
  /\ Tree \in Trees
  /\ colour \in [Ptrs -> Colours]
  /\ count \in Int
  /\ members \subseteq Blocks

NodesTyped ==
  /\ fire \in [Blocks -> Fires]
  /\ owner \in [Blocks -> Entities \cup {None}]
  /\ lastStart \in [Blocks -> 0..MaxTime]
  /\ lastFinish \in [Blocks -> 0..MaxTime]
  /\ totalTime \in [Blocks -> Int]
  /\ nodeOf \in [Entities -> Ptrs]
  /\ clock \in 0..MaxTime

CpusTyped ==
  /\ arg \in [CPUs -> Ptrs]
  /\ cur \in [CPUs -> Ptrs]
  /\ par \in [CPUs -> Ptrs]
  /\ running \in [CPUs -> Ptrs]
  /\ \A c \in CPUs : call[c] = "insert" => arg[c] \in Blocks

TInv == TreeTyped /\ NodesTyped /\ CpusTyped

\* The links after SetTree are those of the tree it was given.
LEMMA SetTreeType ==
  ASSUME NEW t \in Trees, SetTree(t)
  PROVE  Tree' \in Trees
BY DEF Trees, SetTree, Tree

\* Reading a link or a colour.
LEMMA Reads ==
  ASSUME TreeTyped
  PROVE  /\ root \in Ptrs
         /\ \A n \in Ptrs, d \in Dirs : link[n][d] \in Ptrs
         /\ \A n \in Ptrs : colour[n] \in Colours
         /\ \A n \in Ptrs : Parent(n) \in Ptrs /\ Sibling(n) \in Ptrs /\ Uncle(n) \in Ptrs
                            /\ Grand(n) \in Ptrs /\ SideOf(n) \in Sides
PROOF
<1>1. root \in Ptrs /\ (\A n \in Ptrs, d \in Dirs : link[n][d] \in Ptrs)
      /\ (\A n \in Ptrs : colour[n] \in Colours)
  BY DEF TreeTyped, Tree, Trees
<1>2. \A n : SideOf(n) \in Sides
  BY DEF SideOf, Sides
<1>3. \A n \in Ptrs : Parent(n) \in Ptrs
  BY <1>1, DirsAre DEF Parent
<1>4. \A n \in Ptrs : Grand(n) \in Ptrs
  BY <1>3 DEF Grand
<1>5. \A s \in Sides : Opposite(s) \in Dirs
  BY DirsAre
<1> QED BY <1>1, <1>2, <1>3, <1>4, <1>5 DEF Sibling, Uncle

\* What the two ways of splicing a node out leave behind.
SpliceTyped(r) ==
  r.t \in Trees /\ r.x \in Ptrs /\ r.colour \in [Ptrs -> Colours]

\* SpliceOut gives a tree and what goes with it.
LEMMA SpliceOutType ==
  ASSUME TreeTyped, NEW n \in Ptrs
  PROVE  SpliceTyped(SpliceOut(n))
PROOF
<1> DEFINE x == IF link[n]["L"] = Nil THEN link[n]["R"] ELSE link[n]["L"]
<1>1. x \in Ptrs
  BY Reads, DirsAre
<1>2. Tree \in Trees /\ colour \in [Ptrs -> Colours]
  BY DEF TreeTyped
<1> HIDE DEF x
<1>3. Transplant(Tree, n, x) \in Trees
  BY <1>1, <1>2, TransplantType
<1>4. SpliceOut(n) = [t |-> Transplant(Tree, n, x), x |-> x, black |-> colour[n] = "black",
                      colour |-> colour]
  BY DEF SpliceOut, x
<1> QED BY <1>1, <1>2, <1>3, <1>4 DEF SpliceTyped

\* SpliceSuccessor gives a tree and what goes with it.
LEMMA SpliceSuccessorType ==
  ASSUME TreeTyped, NEW n \in Ptrs, NEW y \in Ptrs
  PROVE  SpliceTyped(SpliceSuccessor(n, y))
PROOF
<1> DEFINE x  == link[y]["R"]
           t0 == Transplant(Tree, y, x)
           t1 == IF link[y]["P"] = n
                 THEN [Tree EXCEPT !.link[x]["P"] = y]
                 ELSE Hang(t0, y, "R", t0.link[n]["R"])
           t2 == Transplant(t1, n, y)
           k  == [colour EXCEPT ![y] = colour[n]]
<1>0. SpliceSuccessor(n, y) = [t |-> Hang(t2, y, "L", t2.link[n]["L"]), x |-> x,
                               black |-> colour[y] = "black", colour |-> k]
  BY DEF SpliceSuccessor
<1>1. \A t \in Trees, m \in Ptrs, d \in Dirs : t.link[m][d] \in Ptrs
  BY DEF Trees
<1>2. Tree \in Trees /\ colour \in [Ptrs -> Colours]
  BY DEF TreeTyped
<1>3. x \in Ptrs
  BY Reads, DirsAre
<1>4. k \in [Ptrs -> Colours]
  BY <1>2
<1> HIDE DEF x, k
<1>5. t0 \in Trees
  BY <1>2, <1>3, TransplantType
<1> HIDE DEF t0
<1>6. t1 \in Trees
  BY <1>1, <1>2, <1>3, <1>5, DirsAre, LinkType, HangType
<1> HIDE DEF t1
<1>7. t2 \in Trees
  BY <1>6, TransplantType
<1> HIDE DEF t2
<1>8. Hang(t2, y, "L", t2.link[n]["L"]) \in Trees
  BY <1>1, <1>7, DirsAre, HangType
<1> QED BY <1>0, <1>3, <1>4, <1>8 DEF SpliceTyped

----------------------------------------------------------------------------
(* The steps and the type invariant                                        *)

\* The parts of the state a step leaves alone keep their types.
LEMMA TreeSame ==
  ASSUME TreeTyped, UNCHANGED tree PROVE TreeTyped'
BY DEF TreeTyped, tree, Tree

\* Untouched nodes keep their types.
LEMMA NodesSame ==
  ASSUME NodesTyped, UNCHANGED <<node, clock>> PROVE NodesTyped'
BY DEF NodesTyped, node

\* Local pointers move to pointers while the calls stay as they are.
LEMMA CpusMove ==
  ASSUME CpusTyped, NEW c \in CPUs, NEW m \in Ptrs, NEW p \in Ptrs, NEW r \in Ptrs,
         cur' \in {cur, [cur EXCEPT ![c] = m]},
         par' \in {par, [par EXCEPT ![c] = p]},
         running' \in {running, [running EXCEPT ![c] = r]},
         UNCHANGED <<call, arg>>
  PROVE  CpusTyped'
BY DEF CpusTyped

\* The steps of an insertion keep the types.
LEMMA InsertTypes ==
  ASSUME IInv, TInv, NEW c \in CPUs, Insert(c)
  PROVE  TInv'
PROOF
<1> USE DEF TInv
<1>0. cur[c] \in Ptrs /\ par[c] \in Ptrs /\ arg[c] \in Ptrs /\ Nil \in Ptrs
  BY DEF CpusTyped, Ptrs
<1>1. Tree \in Trees /\ colour \in [Ptrs -> Colours] /\ "black" \in Colours /\ "red" \in Colours
  BY DEF TreeTyped, Colours
<1>2. CASE InsertStart(c)
  BY <1>0, <1>2, TreeSame, NodesSame, CpusMove, Reads DEF InsertStart
<1>3. CASE InsertDescend(c)
  <2>1. link[cur[c]][Side(arg[c], cur[c])] \in Ptrs
    BY <1>0, Reads DEF Side, Dirs, Sides
  <2> QED BY <1>0, <1>3, <2>1, TreeSame, NodesSame, CpusMove DEF InsertDescend, CpusTyped
<1>4. CASE InsertLink(c)
  <2> DEFINE leaf == [L |-> Nil, R |-> Nil, P |-> par[c]]
  <2>1. arg[c] \in Blocks
    BY <1>4 DEF InsertLink, IInv, CallOK, InsertSteps, CpusTyped
  <2>2. leaf \in [Dirs -> Ptrs]
    BY <1>0 DEF Dirs, Sides
  <2>3. Tree' \in Trees
    <3> HIDE DEF leaf
    <3>1. CASE par[c] = Nil
      <4>1. root' = arg[c] /\ link' = [link EXCEPT ![arg[c]] = leaf]
        BY <1>4, <3>1 DEF InsertLink, leaf
      <4> QED BY <1>0, <1>1, <2>2, <4>1 DEF Trees, Tree
    <3>2. CASE par[c] # Nil
      <4>1. root' = root /\ link' = [link EXCEPT ![par[c]][Side(arg[c], par[c])] = arg[c],
                                                 ![arg[c]] = leaf]
        BY <1>4, <3>2 DEF InsertLink, leaf
      <4>2. Side(arg[c], par[c]) \in Dirs
        BY DEF Side, Dirs, Sides
      <4> QED BY <1>0, <1>1, <2>2, <4>1, <4>2 DEF Trees, Tree
    <3> QED BY <3>1, <3>2
  <2>4. TreeTyped'
    BY <1>1, <1>4, <2>1, <2>3 DEF InsertLink, TreeTyped
  <2> QED BY <1>0, <1>4, <2>4, NodesSame, CpusMove DEF InsertLink
<1>5. CASE FixupRecolour(c)
  <2>1. Grand(cur[c]) \in Ptrs
    BY <1>0, Reads
  <2>2. TreeTyped'
    BY <1>1, <1>5 DEF FixupRecolour, TreeTyped, Tree
  <2> QED BY <1>0, <1>5, <2>1, <2>2, NodesSame, CpusMove DEF FixupRecolour
<1>6. CASE FixupRotate(c)
  <2> DEFINE n == cur[c]
             s == SideOf(Parent(n))
             inner == n = link[Parent(n)][Opposite(s)]
             m == IF inner THEN Parent(n) ELSE n
             t == IF inner THEN Rotate(Tree, m, s) ELSE Tree
             p == t.link[m]["P"]
             g == t.link[p]["P"]
  <2>0. /\ SetTree(Rotate(t, g, Opposite(s)))
        /\ colour' = [colour EXCEPT ![p] = "black", ![g] = "red"]
        /\ cur' = [cur EXCEPT ![c] = m]
        /\ UNCHANGED <<count, members, node, call, arg, par, running, clock>>
    BY <1>6 DEF FixupRotate
  <2>1. Parent(n) \in Ptrs /\ s \in Sides /\ Opposite(s) \in Sides
    BY <1>0, Reads, DirsAre
  <2> HIDE DEF s
  <2>2. m \in Ptrs
    BY <1>0, <2>1
  <2> HIDE DEF m
  <2>3. t \in Trees
    BY <1>1, <2>1, <2>2, RotateType
  <2> HIDE DEF t
  <2>4. p \in Ptrs /\ g \in Ptrs
    BY <2>2, <2>3, DirsAre DEF Trees
  <2> HIDE DEF p, g
  <2>5. Tree' \in Trees
    BY <2>0, <2>1, <2>3, <2>4, RotateType, SetTreeType
  <2>6. TreeTyped'
    BY <1>1, <2>0, <2>5 DEF TreeTyped
  <2> QED BY <1>0, <2>0, <2>2, <2>6, NodesSame, CpusMove
<1>7. CASE InsertDone(c)
  <2>1. UNCHANGED <<root, link, members>> /\ count' = count + 1
        /\ colour' = [colour EXCEPT ![root] = "black"]
    BY <1>7 DEF InsertDone
  <2>2. colour' \in [Ptrs -> Colours]
    BY <1>1, <2>1
  <2>3. count' \in Int
    BY <2>1 DEF TreeTyped
  <2>4. TreeTyped'
    BY <2>1, <2>2, <2>3 DEF TreeTyped, Tree
  <2> QED BY <1>0, <1>7, <2>4, NodesSame, CpusMove DEF InsertDone
<1> QED BY <1>2, <1>3, <1>4, <1>5, <1>6, <1>7 DEF Insert

\* The steps of a removal keep the types.
LEMMA RemoveTypes ==
  ASSUME IInv, TInv, NEW c \in CPUs, Remove(c)
  PROVE  TInv'
PROOF
<1> USE DEF TInv
<1>0. cur[c] \in Ptrs /\ par[c] \in Ptrs /\ arg[c] \in Ptrs /\ Nil \in Ptrs
  BY DEF CpusTyped, Ptrs
<1>1. Tree \in Trees /\ colour \in [Ptrs -> Colours] /\ "black" \in Colours /\ "red" \in Colours
  BY DEF TreeTyped, Colours
<1>2. CASE RemoveSearch(c)
  <2>1. link[arg[c]]["R"] \in Ptrs
    BY <1>0, Reads, DirsAre
  <2> QED BY <1>0, <1>2, <2>1, TreeSame, NodesSame, CpusMove DEF RemoveSearch
<1>3. CASE RemoveDescend(c)
  <2>1. link[cur[c]]["L"] \in Ptrs
    BY <1>0, Reads, DirsAre
  <2> QED BY <1>0, <1>3, <2>1, TreeSame, NodesSame, CpusMove DEF RemoveDescend, CpusTyped
<1>4. CASE RemoveSplice(c)
  <2> DEFINE r == IF pc[c] = "minimum" THEN SpliceSuccessor(arg[c], cur[c]) ELSE SpliceOut(arg[c])
  <2>1. /\ SetTree(r.t)
        /\ colour' = r.colour
        /\ members' = members \ {arg[c]}
        /\ cur' = [cur EXCEPT ![c] = r.x]
        /\ UNCHANGED <<count, node, call, arg, par, running, clock>>
    BY <1>4 DEF RemoveSplice
  <2>2. SpliceTyped(r)
    BY <1>0, SpliceOutType, SpliceSuccessorType
  <2> HIDE DEF r
  <2>3. TreeTyped'
    BY <2>1, <2>2, SetTreeType DEF TreeTyped, SpliceTyped
  <2> QED BY <1>0, <2>1, <2>2, <2>3, NodesSame, CpusMove DEF SpliceTyped
<1>5. CASE RemoveDone(c)
  <2>1. UNCHANGED <<root, link, members, colour>> /\ count' \in Int
    BY <1>5 DEF RemoveDone, TreeTyped
  <2>2. TreeTyped'
    BY <2>1 DEF TreeTyped, Tree
  <2> QED BY <1>0, <1>5, <2>2, NodesSame, CpusMove DEF RemoveDone
<1>6. CASE DelFixupRedSibling(c)
  <2>1. Parent(cur[c]) \in Ptrs /\ SideOf(cur[c]) \in Sides
    BY <1>0, Reads
  <2>2. Tree' \in Trees
    BY <1>1, <1>6, <2>1, RotateType, SetTreeType DEF DelFixupRedSibling
  <2>3. TreeTyped'
    BY <1>1, <1>6, <2>2 DEF DelFixupRedSibling, TreeTyped
  <2> QED BY <1>0, <1>6, <2>3, NodesSame, CpusMove DEF DelFixupRedSibling
<1>7. CASE DelFixupRecolour(c)
  <2>1. Parent(cur[c]) \in Ptrs
    BY <1>0, Reads
  <2>2. TreeTyped'
    BY <1>1, <1>7 DEF DelFixupRecolour, TreeTyped, Tree
  <2> QED BY <1>0, <1>7, <2>1, <2>2, NodesSame, CpusMove DEF DelFixupRecolour
<1>8. CASE DelFixupRotate(c)
  <2> DEFINE n == cur[c]
             p == Parent(n)
             s == SideOf(n)
             o == Opposite(s)
             w == Sibling(n)
             farBlack == colour[link[w][o]] = "black"
             t == IF farBlack THEN Rotate(Tree, w, o) ELSE Tree
             v == IF farBlack THEN link[w][s] ELSE w
             col == IF farBlack THEN [colour EXCEPT ![v] = "black", ![w] = "red"] ELSE colour
  <2>0. /\ SetTree(Rotate(t, p, s))
        /\ colour' = [col EXCEPT ![v] = col[p], ![p] = "black", ![t.link[v][o]] = "black"]
        /\ cur' = [cur EXCEPT ![c] = root']
        /\ UNCHANGED <<count, members, node, call, arg, par, running, clock>>
    BY <1>8 DEF DelFixupRotate
  <2>1. p \in Ptrs /\ w \in Ptrs /\ s \in Sides /\ o \in Sides
    BY <1>0, Reads, DirsAre
  <2> HIDE DEF p, w, s, o
  <2>2. t \in Trees
    BY <1>1, <2>1, RotateType
  <2> HIDE DEF t
  <2>3. v \in Ptrs
    BY <2>1, Reads, DirsAre
  <2> HIDE DEF v
  <2>4. col \in [Ptrs -> Colours]
    BY <1>1
  <2> HIDE DEF col
  <2>5. Tree' \in Trees
    BY <2>0, <2>1, <2>2, RotateType, SetTreeType
  <2>6. root' \in Ptrs
    BY <2>5 DEF Trees, Tree
  <2>7. TreeTyped'
    BY <1>1, <2>0, <2>1, <2>4, <2>5 DEF TreeTyped
  <2> QED BY <1>0, <2>0, <2>6, <2>7, NodesSame, CpusMove
<1>9. CASE DelFixupDone(c)
  <2>1. TreeTyped'
    BY <1>1, <1>9 DEF DelFixupDone, TreeTyped, Tree
  <2> QED BY <1>0, <1>9, <2>1, NodesSame, CpusMove DEF DelFixupDone
<1> QED BY <1>2, <1>3, <1>4, <1>5, <1>6, <1>7, <1>8, <1>9 DEF Remove

\* The bodies of the other calls.
LEMMA PickTypes ==
  ASSUME TInv, NEW c \in CPUs, Pick(c)
  PROVE  TInv'
PROOF
<1> USE DEF TInv
<1>0. cur[c] \in Ptrs /\ Nil \in Ptrs
  BY DEF CpusTyped, Ptrs
<1>1. link[cur[c]]["L"] \in Ptrs
  BY <1>0, Reads, DirsAre
<1>2. CASE PickEmpty(c)
  BY <1>0, <1>2, TreeSame, NodesSame, CpusMove DEF PickEmpty
<1>3. CASE PickStart(c)
  BY <1>0, <1>3, TreeSame, NodesSame, CpusMove, Reads DEF PickStart
<1>4. CASE PickDescend(c)
  BY <1>0, <1>1, <1>4, TreeSame, NodesSame, CpusMove DEF PickDescend, CpusTyped
<1>5. CASE PickDone(c)
  <2>1. NodesTyped'
    BY <1>5 DEF PickDone, NodesTyped
  <2> QED BY <1>0, <1>5, <2>1, TreeSame, CpusMove DEF PickDone
<1> QED BY <1>2, <1>3, <1>4, <1>5 DEF Pick

\* The steps of updates, of bk_sched_finish_node and of the tuning keep the types.
LEMMA UpdateTypes ==
  ASSUME TInv, NEW c \in CPUs, Update(c) \/ Finish(c) \/ Tune(c)
  PROVE  TInv'
PROOF
<1> USE DEF TInv
<1>0. Nil \in Ptrs
  BY DEF Ptrs
<1>1. CASE Update(c)
  <2> DEFINE n == arg[c]
  <2>1. fire' \in [Blocks -> Fires]
    BY <1>1 DEF Update, NodesTyped
  <2>2. totalTime' \in [Blocks -> Int]
    <3>1. CASE n \in Blocks
      <4>1. lastFinish[n] - lastStart[n] \in Int /\ totalTime[n] \in Int
        BY <3>1 DEF NodesTyped
      <4>2. totalTime[n] + lastFinish[n] - lastStart[n] \in Int
        BY <3>1, <4>1 DEF NodesTyped
      <4> QED BY <1>1, <4>2 DEF Update, NodesTyped
    <3>2. CASE n \notin Blocks
      BY <1>1, <3>2 DEF Update, NodesTyped
    <3> QED BY <3>1, <3>2
  <2>3. NodesTyped'
    BY <1>1, <2>1, <2>2 DEF Update, NodesTyped
  <2> QED BY <1>0, <1>1, <2>3, TreeSame, CpusMove DEF Update
<1>2. CASE Finish(c)
  <2>1. NodesTyped'
    BY <1>2 DEF Finish, NodesTyped
  <2> QED BY <1>0, <1>2, <2>1, TreeSame, CpusMove DEF Finish
<1>3. CASE Tune(c)
  BY <1>0, <1>3, TreeSame, NodesSame, CpusMove DEF Tune
<1> QED BY <1>1, <1>2, <1>3

\* The beginning and the end of a call.
LEMMA CallTypes ==
  ASSUME IInv, TInv, NEW c \in CPUs, NEW f \in Calls, NEW n \in Ptrs, Call(c, f, n)
  PROVE  TInv'
PROOF
<1> USE DEF TInv
<1>1. f = "insert" => n \in Blocks
  BY DEF Call, Callable
<1>2. call' = [call EXCEPT ![c] = f] /\ arg' = [arg EXCEPT ![c] = n]
      /\ UNCHANGED <<tree, node, cur, par, running, clock>>
  BY DEF Call
<1>3. CpusTyped'
  BY <1>1, <1>2 DEF CpusTyped, IInv, ControlTypeOK
<1> QED BY <1>2, <1>3, TreeSame, NodesSame

\* Taking and releasing the lock keep the types.
LEMMA LockTypes ==
  ASSUME IInv, TInv, NEW c \in CPUs,
         Acquire(c) \/ FinishUpdate(c) \/ Release(c) \/ UpdateRelease(c)
  PROVE  TInv'
PROOF
<1> USE DEF TInv
<1>0. Nil \in Ptrs
  BY DEF Ptrs
<1>1. CASE Acquire(c) \/ FinishUpdate(c)
  BY <1>0, <1>1, TreeSame, NodesSame, CpusMove DEF Acquire, FinishUpdate, SpinLock
<1>2. CASE Release(c) \/ UpdateRelease(c)
  <2>1. UNCHANGED <<tree, node, running, clock>>
    BY <1>2 DEF Release, UpdateRelease
  <2>2. UNCHANGED <<call, arg, cur, par>> \/ Return(c)
    BY <1>2 DEF Release, UpdateRelease
  <2>3. CpusTyped'
    BY <1>0, <2>1, <2>2 DEF CpusTyped, Return, IInv, ControlTypeOK
  <2> QED BY <2>1, <2>3, TreeSame, NodesSame
<1> QED BY <1>1, <1>2

\* Time and node creation.
LEMMA OutsideTypes ==
  ASSUME TInv, Tick \/ (\E e \in Entities : NodeCreate(e)) \/ UNCHANGED vars
  PROVE  TInv'
PROOF
<1> USE DEF TInv
<1>1. CASE Tick
  <2>1. NodesTyped'
    BY <1>1, ParametersAssumption DEF Tick, NodesTyped, node
  <2> QED BY <1>1, <2>1, TreeSame DEF Tick, cpu, CpusTyped
<1>2. ASSUME NEW e \in Entities, NodeCreate(e) PROVE TInv'
  <2>1. PICK n \in Blocks : /\ nodeOf' = [nodeOf EXCEPT ![e] = n]
                            /\ owner' = [owner EXCEPT ![n] = e]
                            /\ fire' = [fire EXCEPT ![n] = 0]
                            /\ lastStart' = [lastStart EXCEPT ![n] = 0]
                            /\ lastFinish' = [lastFinish EXCEPT ![n] = 0]
                            /\ totalTime' = [totalTime EXCEPT ![n] = 0]
    BY <1>2 DEF NodeCreate, Blocks
  <2>2. UNCHANGED <<tree, cpu, clock>>
    BY <1>2 DEF NodeCreate
  <2>3. NodesTyped'
    BY <2>1, <2>2, ParametersAssumption DEF NodesTyped, Ptrs
  <2> QED BY <2>2, <2>3, TreeSame DEF cpu, CpusTyped
<1>3. CASE UNCHANGED vars
  BY <1>3, TreeSame, NodesSame DEF vars, cpu, CpusTyped
<1> QED BY <1>1, <1>2, <1>3

\* The parts of the type invariant hold in every state of every execution.
THEOREM Typed == Spec => []TInv
PROOF
<1>1. Init => TInv
  BY ParametersAssumption
     DEF Init, InitWith, TInv, TreeTyped, NodesTyped, CpusTyped, Tree, Trees, Dirs, Colours, Ptrs
<1>2. IInv /\ TInv /\ [Next]_vars => TInv'
  BY InsertTypes, RemoveTypes, PickTypes, UpdateTypes, CallTypes, LockTypes, OutsideTypes
     DEF Next, Step
<1> QED BY <1>1, <1>2, Control, PTL DEF Spec

\* Pointers always point at blocks or the sentinel, only blocks become members
\* of the tree, and every other variable keeps its type: no search, splice or
\* rotation follows a link out of the tree's memory.
THEOREM Types == Spec => []TypeOK
PROOF
<1>1. IInv /\ TInv => TypeOK
  BY DEF IInv, TInv, TreeTyped, NodesTyped, CpusTyped, TypeOK, Tree, Trees, Dirs
<1> QED BY <1>1, Control, Typed, PTL

----------------------------------------------------------------------------
(* The calls in progress and the members                                   *)

\* The steps of an insertion before its node is linked, and of a removal
\* before its node is spliced out.
Entering == {"acquire", "insert", "descend"}
Leaving  == {"acquire", "remove", "minimum"}

Moving(c) == call[c] \in {"insert", "remove"}

\* A node on its way in is not a member, one on its way out is, and no two
\* calls move one node.
MovesOK ==
  /\ \A c \in CPUs : call[c] = "insert" /\ pc[c] \in Entering => arg[c] \notin members
  /\ \A c \in CPUs : call[c] = "remove" /\ pc[c] \in Leaving => arg[c] \in members
  /\ \A c, d \in CPUs : c # d /\ Moving(c) /\ Moving(d) => arg[c] # arg[d]

\* t_count is one behind from the link to the end of an insertion, and one
\* ahead from the splice to the end of a removal.
Behind == \E c \in CPUs : pc[c] = "fixup"
Ahead  == \E c \in CPUs : pc[c] \in {"delfixup", "removed"}

Counted ==
  count = Cardinality(members) + (IF Ahead THEN 1 ELSE 0) - (IF Behind THEN 1 ELSE 0)

CInv == MovesOK /\ IsFiniteSet(members) /\ Counted

\* While a CPU holds the lock no other is inside.
LEMMA Alone ==
  ASSUME IInv, NEW c \in CPUs, Holds(c), NEW d \in CPUs \ {c}
  PROVE  pc[d] \in {"idle", "acquire"}
BY DEF IInv, MutualExclusion, Holds

\* A step that leaves the calls and the members alone and moves one CPU inside
\* the lock, not past a link or a splice.
LEMMA CountSame ==
  ASSUME IInv, CInv, NEW c \in CPUs, NEW l \in Steps,
         pc' = [pc EXCEPT ![c] = l],
         UNCHANGED <<call, arg, members, count>>,
         l \in Entering => call[c] # "insert" \/ pc[c] \in Entering,
         l \in Leaving => call[c] # "remove" \/ pc[c] \in Leaving,
         l = "fixup" <=> pc[c] = "fixup",
         l \in {"delfixup", "removed"} <=> pc[c] \in {"delfixup", "removed"}
  PROVE  CInv'
<1>1. \A d \in CPUs : /\ d # c => pc'[d] = pc[d]
                      /\ pc'[c] = l
  BY DEF IInv, ControlTypeOK
<1>2. MovesOK' BY <1>1 DEF CInv, MovesOK, Moving
<1>3. (Ahead <=> Ahead') /\ (Behind <=> Behind') BY <1>1 DEF Ahead, Behind
<1> QED BY <1>2, <1>3 DEF CInv, Counted

\* The same when no CPU moves.
LEMMA CountStill ==
  ASSUME CInv, UNCHANGED <<pc, call, arg, members, count>>
  PROVE  CInv'
BY DEF CInv, MovesOK, Moving, Counted, Ahead, Behind

\* An insertion makes its node a member at the link and counts it at the end.
LEMMA CountInsert ==
  ASSUME IInv, CInv, NEW c \in CPUs, Insert(c)
  PROVE  CInv'
<1> USE DEF Steps, Entering, Leaving, Goto, tree
<1>0. ControlTypeOK /\ CallOK(c) BY DEF IInv
<1>1. CASE InsertStart(c)
  BY <1>0, <1>1, CountSame DEF InsertStart, CallOK, InsertSteps
<1>2. CASE InsertDescend(c) \/ FixupRecolour(c) \/ FixupRotate(c)
  BY <1>2, CountStill DEF InsertDescend, FixupRecolour, FixupRotate
<1>3. CASE InsertLink(c)
  <2>1. /\ pc[c] = "descend" /\ call[c] = "insert"
        /\ members' = members \cup {arg[c]}
        /\ pc' = [pc EXCEPT ![c] = "fixup"]
        /\ UNCHANGED <<call, arg, count>>
    BY <1>0, <1>3 DEF InsertLink, CallOK, InsertSteps
  <2>2. arg[c] \notin members BY <2>1 DEF CInv, MovesOK
  <2>3. \A d \in CPUs : d # c => pc[d] \in {"idle", "acquire"} BY <2>1, Alone DEF Holds
  <2>4. \A d \in CPUs : (d # c => pc'[d] = pc[d]) /\ pc'[c] = "fixup"
    BY <1>0, <2>1 DEF ControlTypeOK
  <2>5. MovesOK' BY <2>1, <2>2, <2>4 DEF CInv, MovesOK, Moving
  <2>6. /\ IsFiniteSet(members')
        /\ Cardinality(members') = Cardinality(members) + 1
        /\ Cardinality(members) \in Nat
    BY <2>1, <2>2, FS_AddElement, FS_CardinalityType DEF CInv
  <2>7. ~Ahead /\ ~Behind /\ ~Ahead' /\ Behind'
    BY <2>1, <2>3, <2>4 DEF Ahead, Behind
  <2>8. Counted' BY <2>1, <2>6, <2>7 DEF CInv, Counted
  <2> QED BY <2>5, <2>6, <2>8 DEF CInv
<1>4. CASE InsertDone(c)
  <2>1. /\ pc[c] = "fixup"
        /\ count' = count + 1
        /\ pc' = [pc EXCEPT ![c] = "release"]
        /\ UNCHANGED <<call, arg, members>>
    BY <1>4 DEF InsertDone
  <2>2. \A d \in CPUs : d # c => pc[d] \in {"idle", "acquire"} BY <2>1, Alone DEF Holds
  <2>3. \A d \in CPUs : (d # c => pc'[d] = pc[d]) /\ pc'[c] = "release"
    BY <1>0, <2>1 DEF ControlTypeOK
  <2>4. MovesOK' BY <2>1, <2>3 DEF CInv, MovesOK, Moving
  <2>5. ~Ahead /\ Behind /\ ~Ahead' /\ ~Behind'
    BY <2>1, <2>2, <2>3 DEF Ahead, Behind
  <2>6. Cardinality(members) \in Nat BY FS_CardinalityType DEF CInv
  <2>7. Counted' BY <2>1, <2>5, <2>6 DEF CInv, Counted
  <2> QED BY <2>1, <2>4, <2>7 DEF CInv
<1> QED BY <1>1, <1>2, <1>3, <1>4 DEF Insert

\* A removal ends a membership at the splice and counts it at the end.
LEMMA CountRemove ==
  ASSUME IInv, CInv, NEW c \in CPUs, Remove(c)
  PROVE  CInv'
<1> USE DEF Steps, Entering, Leaving, Goto, tree
<1>0. ControlTypeOK /\ CallOK(c) BY DEF IInv
<1>1. CASE RemoveSearch(c)
  BY <1>0, <1>1, CountSame DEF RemoveSearch, CallOK, RemoveSteps
<1>2. CASE RemoveDescend(c) \/ DelFixupRedSibling(c) \/ DelFixupRecolour(c) \/ DelFixupRotate(c)
  BY <1>2, CountStill DEF RemoveDescend, DelFixupRedSibling, DelFixupRecolour, DelFixupRotate
<1>3. CASE DelFixupDone(c)
  BY <1>0, <1>3, CountSame DEF DelFixupDone
<1>4. CASE RemoveSplice(c)
  <2> DEFINE l == IF (IF pc[c] = "minimum" THEN SpliceSuccessor(arg[c], cur[c])
                      ELSE SpliceOut(arg[c])).black THEN "delfixup" ELSE "removed"
  <2>1. /\ pc[c] \in {"remove", "minimum"} /\ call[c] = "remove"
        /\ members' = members \ {arg[c]}
        /\ pc' = [pc EXCEPT ![c] = l]
        /\ UNCHANGED <<call, arg, count>>
    BY <1>0, <1>4 DEF RemoveSplice, CallOK, RemoveSteps
  <2>2. l \in {"delfixup", "removed"} OBVIOUS
  <2> HIDE DEF l
  <2>3. arg[c] \in members BY <2>1 DEF CInv, MovesOK
  <2>4. \A d \in CPUs : d # c => pc[d] \in {"idle", "acquire"} BY <2>1, Alone DEF Holds
  <2>5. \A d \in CPUs : (d # c => pc'[d] = pc[d]) /\ pc'[c] = l
    BY <1>0, <2>1 DEF ControlTypeOK
  <2>6. MovesOK' BY <2>1, <2>2, <2>3, <2>5 DEF CInv, MovesOK, Moving
  <2>7. /\ IsFiniteSet(members')
        /\ Cardinality(members') = Cardinality(members) - 1
        /\ Cardinality(members) \in Nat
    BY <2>1, <2>3, FS_RemoveElement, FS_CardinalityType DEF CInv
  <2>8. ~Ahead /\ ~Behind /\ Ahead' /\ ~Behind'
    BY <2>1, <2>2, <2>4, <2>5 DEF Ahead, Behind
  <2>9. Counted' BY <2>1, <2>7, <2>8 DEF CInv, Counted
  <2> QED BY <2>6, <2>7, <2>9 DEF CInv
<1>5. CASE RemoveDone(c)
  <2>1. /\ pc[c] = "removed" /\ call[c] = "remove"
        /\ count' = count - 1
        /\ pc' = [pc EXCEPT ![c] = "release"]
        /\ UNCHANGED <<call, arg, members>>
    BY <1>0, <1>5 DEF RemoveDone, CallOK, RemoveSteps
  <2>2. \A d \in CPUs : d # c => pc[d] \in {"idle", "acquire"} BY <2>1, Alone DEF Holds
  <2>3. \A d \in CPUs : (d # c => pc'[d] = pc[d]) /\ pc'[c] = "release"
    BY <1>0, <2>1 DEF ControlTypeOK
  <2>4. MovesOK' BY <2>1, <2>3 DEF CInv, MovesOK, Moving
  <2>5. Ahead /\ ~Behind /\ ~Ahead' /\ ~Behind'
    BY <2>1, <2>2, <2>3 DEF Ahead, Behind
  <2>6. Cardinality(members) \in Nat BY FS_CardinalityType DEF CInv
  <2>7. Counted' BY <2>1, <2>5, <2>6 DEF CInv, Counted
  <2> QED BY <2>1, <2>4, <2>7 DEF CInv
<1> QED BY <1>1, <1>2, <1>3, <1>4, <1>5 DEF Remove

\* The other calls link and splice nothing.
LEMMA CountOther ==
  ASSUME IInv, CInv, NEW c \in CPUs,
         Acquire(c) \/ Pick(c) \/ Update(c) \/ UpdateRelease(c) \/ Finish(c) \/ FinishUpdate(c)
         \/ Tune(c) \/ Release(c)
  PROVE  CInv'
<1> USE DEF Steps, Entering, Leaving, Goto, tree
<1>0. ControlTypeOK /\ CallOK(c) BY DEF IInv
<1>1. CASE Acquire(c)
  <2>1. CASE lock = 0
    <3>1. call[c] \in CallNames BY <1>0, <1>1 DEF Acquire, SpinLock, CallOK
    <3> QED BY <1>0, <1>1, <2>1, <3>1, CountSame DEF Acquire, SpinLock, CallNames
  <2>2. CASE lock # 0 BY <1>1, <2>2, CountStill DEF Acquire, SpinLock
  <2> QED BY <2>1, <2>2
<1>2. CASE FinishUpdate(c)
  <2>1. lock = 1 BY <1>2 DEF FinishUpdate, SpinLock, IInv, MutualExclusion, Holds
  <2> QED BY <1>2, <2>1, CountStill DEF FinishUpdate, SpinLock
<1>3. CASE PickDescend(c) BY <1>3, CountStill DEF PickDescend
<1>4. CASE PickEmpty(c) \/ PickStart(c) \/ PickDone(c) \/ Update(c) \/ Finish(c) \/ Tune(c)
  BY <1>0, <1>4, CountSame DEF PickEmpty, PickStart, PickDone, Update, Finish, Tune
<1>5. CASE Release(c) \/ UpdateRelease(c)
  <2>1. pc[c] \in {"release", "updated"} /\ UNCHANGED <<members, count>>
        /\ (pc[c] = "updated" => call[c] = "update")
    BY <1>0, <1>5 DEF Release, UpdateRelease, CallOK
  <2>2. Return(c) BY <1>5, <2>1 DEF Release, UpdateRelease
  <2>3. \A d \in CPUs : /\ d # c => pc'[d] = pc[d] /\ call'[d] = call[d] /\ arg'[d] = arg[d]
                        /\ pc'[c] = "idle" /\ call'[c] = "none"
    BY <1>0, <2>2 DEF Return, ControlTypeOK
  <2>4. MovesOK' BY <2>1, <2>3 DEF CInv, MovesOK, Moving
  <2>5. (Ahead <=> Ahead') /\ (Behind <=> Behind') BY <2>1, <2>3 DEF Ahead, Behind
  <2> QED BY <2>1, <2>4, <2>5 DEF CInv, Counted
<1> QED BY <1>1, <1>2, <1>3, <1>4, <1>5 DEF Pick

\* A call starts on a node no other call is moving.
LEMMA CountCall ==
  ASSUME IInv, TInv, CInv, NEW c \in CPUs, NEW f \in Calls, NEW n \in Ptrs, Call(c, f, n)
  PROVE  CInv'
<1>0. ControlTypeOK /\ arg \in [CPUs -> Ptrs] BY DEF IInv, TInv, CpusTyped
<1>1. /\ pc[c] = "idle" /\ Callable(c, f, n) /\ UNCHANGED <<members, count>>
      /\ \A d \in CPUs : d # c => pc'[d] = pc[d] /\ call'[d] = call[d] /\ arg'[d] = arg[d]
      /\ pc'[c] = "acquire" /\ call'[c] = f
  BY <1>0 DEF Call, tree, ControlTypeOK
<1>2. arg'[c] = n
  BY <1>0 DEF Call
<1>3. f = "insert" => n \notin members BY <1>1 DEF Callable
<1>4. f = "remove" => n \in members BY <1>1 DEF Callable
<1>5. f \in {"insert", "remove"} => \A d \in CPUs : Moving(d) => arg[d] # n
  BY <1>1 DEF Callable, Using, Exclusive, Moving
<1>6. MovesOK' BY <1>1, <1>2, <1>3, <1>4, <1>5 DEF CInv, MovesOK, Moving
<1>7. (Ahead <=> Ahead') /\ (Behind <=> Behind') BY <1>1 DEF Ahead, Behind
<1> QED BY <1>1, <1>6, <1>7 DEF CInv, Counted

\* The empty tree.
LEMMA CountStart == Init => CInv
<1> SUFFICES ASSUME Init PROVE CInv OBVIOUS
<1>1. IsFiniteSet({}) /\ Cardinality({}) = 0 BY FS_EmptySet
<1>2. ~Ahead /\ ~Behind BY DEF Init, InitWith, Ahead, Behind
<1> QED BY <1>1, <1>2 DEF Init, InitWith, CInv, MovesOK, Moving, Counted

\* Between its link and the end of its insertion a node is a member that
\* t_count does not count yet, and between its splice and the end of its
\* removal t_count still counts a node that is none; at any other time, and
\* whichever CPUs wait for the lock, t_count is the number of members.
THEOREM MembersCounted == Spec => []CInv
<1>1. IInv /\ TInv /\ CInv /\ [Next]_vars => CInv'
  <2> SUFFICES ASSUME IInv, TInv, CInv, [Next]_vars PROVE CInv' OBVIOUS
  <2>1. CASE Tick \/ (\E e \in Entities : NodeCreate(e)) \/ UNCHANGED vars
    BY <2>1, CountStill DEF Tick, NodeCreate, vars, tree, cpu
  <2>2. CASE \E c \in CPUs, f \in Calls, n \in Ptrs : Call(c, f, n) BY <2>2, CountCall
  <2>3. CASE \E c \in CPUs : Step(c) BY <2>3, CountInsert, CountRemove, CountOther DEF Step
  <2> QED BY <2>1, <2>2, <2>3 DEF Next
<1> QED BY <1>1, CountStart, Control, Typed, PTL DEF Spec

\* Whenever no call is between its first and its last write of the tree, t_count is the number of nodes in the tree.
THEOREM CountIsExact == Spec => []CountExact
<1>1. CInv => CountExact
  <2> SUFFICES ASSUME CInv, ~Rebalancing PROVE count = Cardinality(members) BY DEF CountExact
  <2>1. ~Ahead /\ ~Behind BY DEF Ahead, Behind, Rebalancing
  <2>2. Cardinality(members) \in Nat BY FS_CardinalityType DEF CInv
  <2> QED BY <2>1, <2>2 DEF CInv, Counted
<1> QED BY <1>1, MembersCounted, PTL

=============================================================================
