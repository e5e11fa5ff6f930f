-------------------------- MODULE TreeShapeProofs ---------------------------
(***************************************************************************)
(* Proofs that the tree of TreeSched stays a red-black search tree while   *)
(* any number of CPUs insert, remove, pick and update any number of nodes: *)
(* the invariant of the links, colours and keys, and the properties Shape, *)
(* RedBlack and LeftmostIsLeast that follow from it.  At the end, that it  *)
(* implements ReadyQueue: the members of the tree in order are the queue,  *)
(* the linking of a leaf is an arrival, the splicing out of a node a       *)
(* departure, a pick the choice of the head, and every other step of a     *)
(* call leaves the queue alone.                                            *)
(***************************************************************************)
EXTENDS TreeLinks, SequenceTheorems, WellFoundedInduction

----------------------------------------------------------------------------
(* The invariant of the tree                                               *)

\* The steps at which a call depends on where it is in the tree.
Placing == {"descend", "minimum", "leftmost", "fixup", "delfixup"}

\* The search for a leaf is at the child its last comparison led to, the
\* search for a successor below the node that is removed, and the search for
\* the leftmost node on the left edge.
Placed(c, at, ends) ==
  /\ pc[c] = "descend" =>
       /\ par[c] \in members \cup {Nil}
       /\ cur[c] = IF par[c] = Nil THEN root ELSE link[par[c]][Side(arg[c], par[c])]
  /\ pc[c] = "minimum" =>
       /\ arg[c] \in members /\ cur[c] \in members
       /\ TwoChildren(arg[c])
       /\ ends[cur[c]]["L"] = at[arg[c]] + 1
  /\ pc[c] = "leftmost" => cur[c] \in members /\ ends[cur[c]]["L"] = 1

\* A CPU that repairs the colours is at the one place where they are wrong.
Mending(c, bh) ==
  /\ pc[c] = "fixup" =>
       /\ cur[c] \in members
       /\ colour[cur[c]] = "red"
       /\ Painted(Tree, members, colour, bh, Nil, "L", Nil, cur[c])
  /\ pc[c] = "delfixup" => \E h, d : Owed(Tree, members, colour, bh, cur[c], h, d)

Mended(bh) ==
  (\A c \in CPUs : pc[c] \notin {"fixup", "delfixup"}) => Balanced(Tree, members, colour, bh)

\* The keys of the members ascend.
InOrder(at) == \A l, m \in members : at[l] < at[m] => fire[l] <= fire[m]

\* The members before the subtree that a search for a leaf is in have no
\* greater keys than the new node, those behind it have greater ones.
Narrowed(c, at, ends) ==
  pc[c] = "descend" /\ par[c] # Nil =>
    \A m \in members :
      /\ at[m] < ends[par[c]]["L"] => fire[m] <= fire[arg[c]]
      /\ at[m] > ends[par[c]]["R"] => fire[m] > fire[arg[c]]

Sorting(at, ends) == InOrder(at) /\ \A c \in CPUs : Narrowed(c, at, ends)

TreeInv ==
  \E k, at, ends, bh :
    /\ IsTree(Tree, members, k, at, ends)
    /\ \A c \in CPUs : Placed(c, at, ends) /\ Mending(c, bh)
    /\ Mended(bh)
    /\ ~UpdateLinked => Sorting(at, ends)

\* Members, and nodes on their way in, were created; a node that is updated is
\* neither, unless callers update linked nodes.
OwnInv ==
  /\ \A n \in members : owner[n] # None
  /\ \A c \in CPUs : call[c] = "insert" => owner[arg[c]] # None
  /\ ~UpdateLinked =>
       \A c \in CPUs : call[c] = "update" =>
         /\ arg[c] \notin members
         /\ \A d \in CPUs : d # c /\ call[d] = "insert" => arg[d] # arg[c]

\* The order of the members before and after a step: the one it was, with one
\* more member behind those whose keys are not greater, and without one.
OrderKept ==
  \E k, at, ends, e :
    /\ IsTree(Tree, members, k, at, ends)
    /\ IsTree(Tree', members', k, at, e)
    /\ members' = members

FitsIn(n, at, a) ==
  \A m \in members : /\ a[m] = IF at[m] >= a[n] THEN at[m] + 1 ELSE at[m]
                     /\ at[m] < a[n] <=> fire[m] <= fire[n]

Enters(n) ==
  \E k, at, ends, a, e :
    /\ IsTree(Tree, members, k, at, ends)
    /\ IsTree(Tree', members', k + 1, a, e)
    /\ n \in Blocks \ members /\ members' = members \cup {n}
    /\ FitsIn(n, at, a)

Leaves(n) ==
  \E k, at, ends, a, e :
    /\ IsTree(Tree, members, k, at, ends)
    /\ IsTree(Tree', members', k - 1, a, e)
    /\ n \in members /\ members' = members \ {n}
    /\ \A m \in members' : a[m] = IF at[m] > at[n] THEN at[m] - 1 ELSE at[m]

----------------------------------------------------------------------------
\* What a CPU that holds the lock leaves behind.
LEMMA Settled ==
  ASSUME IInv, NEW c \in CPUs, Holds(c), NEW l, pc' = [pc EXCEPT ![c] = l],
         NEW k, NEW at, NEW ends, NEW bh,
         IsTree(Tree', members', k, at, ends),
         Placed(c, at, ends)', Mending(c, bh)',
         l \notin {"fixup", "delfixup"} => Balanced(Tree', members', colour', bh),
         ~UpdateLinked => InOrder(at)' /\ Narrowed(c, at, ends)'
  PROVE  TreeInv'
<1>1. \A d \in CPUs : d # c => pc'[d] \in {"idle", "acquire"} BY Alone DEF IInv, ControlTypeOK
<1>2. pc'[c] = l BY DEF IInv, ControlTypeOK
<1>3. \A d \in CPUs : d # c => Placed(d, at, ends)' /\ Mending(d, bh)' /\ Narrowed(d, at, ends)'
  BY <1>1 DEF Placed, Mending, Narrowed
<1>4. Mended(bh)' BY <1>2 DEF Mended
<1>5. ~UpdateLinked => Sorting(at, ends)' BY <1>3 DEF Sorting
<1>6. \A d \in CPUs : Placed(d, at, ends)' /\ Mending(d, bh)' BY <1>3
<1> QED BY <1>4, <1>5, <1>6 DEF TreeInv

\* A step that leaves the tree, the keys in it and the places in it alone.
LEMMA TreeRest ==
  ASSUME TreeInv, UNCHANGED <<root, link, colour, members>>,
         \A m \in members : fire'[m] = fire[m],
         \A d \in CPUs :
           \/ pc[d] \notin Placing /\ pc'[d] \notin Placing
           \/ /\ pc'[d] = pc[d] /\ cur'[d] = cur[d] /\ par'[d] = par[d] /\ arg'[d] = arg[d]
              /\ pc[d] = "descend" => fire'[arg[d]] = fire[arg[d]]
  PROVE  TreeInv'
<1>1. PICK k, at, ends, bh :
        /\ IsTree(Tree, members, k, at, ends)
        /\ \A c \in CPUs : Placed(c, at, ends) /\ Mending(c, bh)
        /\ Mended(bh)
        /\ ~UpdateLinked => Sorting(at, ends)
  BY DEF TreeInv
<1>2. Tree' = Tree BY DEF Tree
<1>3. IsTree(Tree', members', k, at, ends) BY <1>1, <1>2
<1>4. ASSUME NEW d \in CPUs PROVE Placed(d, at, ends)'
  <2>1. Placed(d, at, ends) BY <1>1
  <2>2. CASE pc'[d] \notin Placing BY <2>2 DEF Placed, Placing
  <2>3. CASE pc'[d] = pc[d] /\ cur'[d] = cur[d] /\ par'[d] = par[d] /\ arg'[d] = arg[d]
             /\ (pc[d] = "descend" => fire'[arg[d]] = fire[arg[d]])
    <3>1. pc[d] = "descend" /\ par[d] # Nil => Side(arg[d], par[d])' = Side(arg[d], par[d])
      BY <2>1, <2>3 DEF Placed, Side
    <3> QED BY <2>1, <2>3, <3>1 DEF Placed, TwoChildren
  <2> QED BY <2>2, <2>3
<1>5. ASSUME NEW d \in CPUs PROVE Mending(d, bh)'
  BY <1>1, <1>2 DEF Mending, Placing
<1>6. Mended(bh)'
  <2>1. \A d \in CPUs : pc'[d] \notin {"fixup", "delfixup"} => pc[d] \notin {"fixup", "delfixup"}
    BY DEF Placing
  <2> QED BY <1>1, <1>2, <2>1 DEF Mended
<1>7. ~UpdateLinked => Sorting(at, ends)'
  <2> SUFFICES ASSUME Sorting(at, ends) PROVE Sorting(at, ends)' BY <1>1
  <2>1. InOrder(at)' BY DEF Sorting, InOrder
  <2>2. ASSUME NEW d \in CPUs PROVE Narrowed(d, at, ends)'
    <3>1. Narrowed(d, at, ends) BY DEF Sorting
    <3>2. CASE pc'[d] \notin Placing BY <3>2 DEF Narrowed, Placing
    <3>3. CASE pc'[d] = pc[d] /\ cur'[d] = cur[d] /\ par'[d] = par[d] /\ arg'[d] = arg[d]
               /\ (pc[d] = "descend" => fire'[arg[d]] = fire[arg[d]])
      BY <3>1, <3>3 DEF Narrowed
    <3> QED BY <3>2, <3>3
  <2> QED BY <2>1, <2>2 DEF Sorting
<1> QED BY <1>3, <1>4, <1>5, <1>6, <1>7 DEF TreeInv

\* No CPU mends the tree while one that holds the lock does something else.
LEMMA Whole ==
  ASSUME IInv, NEW c \in CPUs, Holds(c), pc[c] \notin {"fixup", "delfixup"}, NEW bh, Mended(bh)
  PROVE  Balanced(Tree, members, colour, bh)
BY Alone DEF Mended

\* A step of a search: only pc, cur and par of the CPU change.
LEMMA Searching ==
  ASSUME IInv, NEW c \in CPUs, Holds(c), NEW l, pc' = [pc EXCEPT ![c] = l],
         pc[c] \notin {"fixup", "delfixup"}, l \notin {"fixup", "delfixup"},
         UNCHANGED <<root, link, colour, members, fire>>,
         NEW k, NEW at, NEW ends, NEW bh,
         IsTree(Tree, members, k, at, ends), Mended(bh),
         Placed(c, at, ends)', ~UpdateLinked => InOrder(at) /\ Narrowed(c, at, ends)'
  PROVE  TreeInv'
<1>1. Balanced(Tree', members', colour', bh) /\ IsTree(Tree', members', k, at, ends)
  <2>1. Tree' = Tree BY DEF Tree
  <2> QED BY <2>1, Whole
<1>2. Mending(c, bh)'
  <2>1. pc'[c] = l BY DEF IInv, ControlTypeOK
  <2> QED BY <2>1 DEF Mending
<1>3. ~UpdateLinked => InOrder(at)' /\ Narrowed(c, at, ends)' BY DEF InOrder
<1> QED BY <1>1, <1>2, <1>3, Settled

\* The search for the leaf.
LEMMA InsertStartShape ==
  ASSUME IInv, TInv, TreeInv, NEW c \in CPUs, InsertStart(c)
  PROVE  TreeInv'
<1>1. PICK k, at, ends, bh :
        /\ IsTree(Tree, members, k, at, ends)
        /\ Mended(bh)
        /\ ~UpdateLinked => Sorting(at, ends)
  BY DEF TreeInv
<1>2. /\ pc[c] = "insert" /\ pc' = [pc EXCEPT ![c] = "descend"]
      /\ UNCHANGED <<root, link, colour, members, fire>>
      /\ pc'[c] = "descend" /\ par'[c] = Nil /\ cur'[c] = root
  BY DEF InsertStart, Goto, tree, node, IInv, ControlTypeOK, TInv, CpusTyped
<1>3. Placed(c, at, ends)' /\ Narrowed(c, at, ends)' BY <1>2 DEF Placed, Narrowed
<1>4. Holds(c) BY <1>2 DEF Holds
<1>5. ~UpdateLinked => InOrder(at) /\ Narrowed(c, at, ends)' BY <1>1, <1>3 DEF Sorting
<1> QED BY <1>1, <1>2, <1>3, <1>4, <1>5, Searching

\* A turn of the search: the subtree it goes on in takes the places on one side
\* of the node it compared with.
LEMMA InsertDescendShape ==
  ASSUME IInv, TInv, TreeInv, NEW c \in CPUs, InsertDescend(c)
  PROVE  TreeInv'
<1> DEFINE n == arg[c]
           y == cur[c]
           q == par[c]
<1>1. PICK k, at, ends, bh :
        /\ IsTree(Tree, members, k, at, ends)
        /\ \A d \in CPUs : Placed(d, at, ends)
        /\ Mended(bh)
        /\ ~UpdateLinked => Sorting(at, ends)
  BY DEF TreeInv
<1>2. /\ pc[c] = "descend" /\ pc' = [pc EXCEPT ![c] = "descend"] /\ y # Nil
      /\ UNCHANGED <<root, link, colour, members, fire, arg>>
      /\ pc'[c] = "descend" /\ par'[c] = y /\ cur'[c] = link[y][Side(n, y)]
  BY DEF InsertDescend, Goto, tree, node, IInv, ControlTypeOK, TInv, CpusTyped
<1>3. Side(n, q) \in Sides /\ Side(n, y) \in Sides BY DEF Side, Sides
<1>4. \A m \in members, s \in Sides : link[m][s] \in members \cup {Nil}
  <2>1. \A m \in members, s \in Sides : Tree.link[m][s] \in members \cup {Nil} BY <1>1, Family
  <2> QED BY <2>1 DEF Tree
<1>5. /\ q \in members \cup {Nil}
      /\ y = IF q = Nil THEN root ELSE link[q][Side(n, q)]
  BY <1>1, <1>2 DEF Placed
<1>6. root # Nil => /\ root \in members /\ ends[root]["L"] = 1 /\ ends[root]["R"] = k
  BY <1>1 DEF IsTree, Rooted, Tree
<1>7. y \in members BY <1>2, <1>3, <1>4, <1>5, <1>6
<1>8. Placed(c, at, ends)'
  BY <1>2, <1>7 DEF Placed, Side
<1>9. ASSUME ~UpdateLinked PROVE Narrowed(c, at, ends)'
  <2>1. /\ Nil \notin members
        /\ \A m \in members : at[m] \in Int /\ 1 <= at[m] /\ at[m] <= k /\ fire[m] \in Nat
        /\ k \in Int /\ fire[n] \in Nat
    <3>1. n \in Blocks BY <1>2 DEF IInv, CallOK, InsertSteps, TInv, CpusTyped
    <3>2. \A m \in Blocks : fire[m] \in Nat BY ParametersAssumption DEF TInv, NodesTyped
    <3>3. members \subseteq Blocks /\ k \in Nat
          /\ \A m \in members : at[m] \in Int /\ 1 <= at[m] /\ at[m] <= k
      BY <1>1 DEF IsTree, Ordered
    <3> QED BY <3>1, <3>2, <3>3, SidesAre
  <2>2. CASE q = Nil
    <3>1. ends[y]["L"] = 1 /\ ends[y]["R"] = k BY <1>2, <1>5, <1>6, <2>2
    <3>2. \A m \in members : ~(at[m] < ends[y]["L"]) /\ ~(at[m] > ends[y]["R"]) BY <2>1, <3>1
    <3> QED BY <1>2, <3>2 DEF Narrowed
  <2>3. CASE q # Nil
    <3> DEFINE s == Side(n, q)
    <3>1. q \in members /\ y = link[q][s] BY <1>5, <2>3
    <3>2. /\ ends[y][s] = ends[q][s]
          /\ ends[y][Opposite(s)] = at[q] + Way(s)
      <4>1. Branch(Tree, members, at, ends, q, s) BY <1>1, <1>3, <3>1 DEF IsTree
      <4> QED BY <1>2, <3>1, <4>1 DEF Branch, Tree
    <3>3. \A m \in members : /\ at[m] < ends[q]["L"] => fire[m] <= fire[n]
                             /\ at[m] > ends[q]["R"] => fire[m] > fire[n]
      BY <1>1, <1>2, <1>9, <2>3 DEF Sorting, Narrowed
    <3>4. \A l, m \in members : at[l] <= at[m] => fire[l] <= fire[m]
      <4>1. \A l, m \in members : at[l] = at[m] => l = m BY <1>1 DEF IsTree, Ordered
      <4> QED BY <1>1, <1>9, <2>1, <4>1 DEF Sorting, InOrder
    <3>5. CASE s = "L"
      <4>1. ends[y]["L"] = ends[q]["L"] /\ ends[y]["R"] = at[q] - 1
        BY <2>1, <3>1, <3>2, <3>5 DEF Opposite, Way
      <4>2. fire[n] < fire[q] BY <3>5 DEF Side
      <4>3. ASSUME NEW m \in members, at[m] > ends[y]["R"] PROVE fire[m] > fire[n]
        <5>1. at[q] <= at[m] BY <2>1, <3>1, <4>1, <4>3
        <5> QED BY <2>1, <3>1, <3>4, <4>2, <5>1
      <4> QED BY <1>2, <3>3, <4>1, <4>3 DEF Narrowed
    <3>6. CASE s = "R"
      <4>1. ends[y]["R"] = ends[q]["R"] /\ ends[y]["L"] = at[q] + 1
        BY <2>1, <3>1, <3>2, <3>6 DEF Opposite, Way
      <4>2. fire[q] <= fire[n] BY <2>1, <3>1, <3>6 DEF Side
      <4>3. ASSUME NEW m \in members, at[m] < ends[y]["L"] PROVE fire[m] <= fire[n]
        <5>1. at[m] <= at[q] BY <2>1, <3>1, <4>1, <4>3
        <5> QED BY <2>1, <3>1, <3>4, <4>2, <5>1
      <4> QED BY <1>2, <3>3, <4>1, <4>3 DEF Narrowed
    <3> QED BY <1>3, <3>5, <3>6 DEF Sides
  <2> QED BY <2>2, <2>3
<1>10. Holds(c) BY <1>2 DEF Holds
<1>11. ~UpdateLinked => InOrder(at) /\ Narrowed(c, at, ends)' BY <1>1, <1>9 DEF Sorting
<1> QED BY <1>1, <1>2, <1>8, <1>10, <1>11, Searching

\* What the link of the new leaf writes.
LEMMA LinkedNode ==
  ASSUME TInv, NEW c \in CPUs, InsertLink(c), par[c] # arg[c], arg[c] \in Blocks
  PROVE  Linked(Tree, Tree', par[c], Side(arg[c], par[c]), arg[c])
<1> DEFINE n == arg[c]
           y == par[c]
           s == Side(n, y)
           leaf == [L |-> Nil, R |-> Nil, P |-> y]
<1>1. /\ n \in Ptrs /\ y \in Ptrs /\ y # n
      /\ Tree \in Trees /\ root \in Ptrs
      /\ link \in [Ptrs -> [Dirs -> Ptrs]]
      /\ Nil \in Ptrs
  BY DEF TInv, CpusTyped, TreeTyped, Trees, Tree, Ptrs
<1>2. s \in Dirs /\ s # "P" BY DEF Side, Dirs, Sides
<1>3. leaf \in [Dirs -> Ptrs] /\ leaf["P"] = y /\ \A d \in Sides : leaf[d] = Nil
  BY <1>1 DEF Dirs, Sides
<1>4. /\ root' = IF y = Nil THEN n ELSE root
      /\ y = Nil => link' = [link EXCEPT ![n] = leaf]
      /\ y # Nil => link' = [link EXCEPT ![y][s] = n, ![n] = leaf]
  BY DEF InsertLink
<1> HIDE DEF leaf, s
<1>5. /\ link' \in [Ptrs -> [Dirs -> Ptrs]]
      /\ \A m \in Ptrs, d \in Dirs :
           link'[m][d] = IF m = n THEN leaf[d] ELSE IF m = y /\ y # Nil /\ d = s THEN n ELSE link[m][d]
  <2>1. CASE y = Nil
    <3>1. link' = [link EXCEPT ![n] = leaf] BY <1>4, <2>1
    <3>2. link' \in [Ptrs -> [Dirs -> Ptrs]] BY <1>1, <1>3, <3>1
    <3>3. \A m \in Ptrs : link'[m] = IF m = n THEN leaf ELSE link[m] BY <1>1, <3>1
    <3> QED BY <2>1, <3>2, <3>3
  <2>2. CASE y # Nil
    <3> DEFINE f == [link EXCEPT ![y][s] = n]
    <3>1. f \in [Ptrs -> [Dirs -> Ptrs]] BY <1>1, <1>2
    <3>2. \A m \in Ptrs, d \in Dirs : f[m][d] = IF m = y /\ d = s THEN n ELSE link[m][d]
      BY <1>1, <1>2
    <3>3. link' = [f EXCEPT ![n] = leaf] BY <1>4, <2>2
    <3> HIDE DEF f
    <3>4. link' \in [Ptrs -> [Dirs -> Ptrs]] BY <1>1, <1>3, <3>1, <3>3
    <3>5. \A m \in Ptrs : link'[m] = IF m = n THEN leaf ELSE f[m] BY <1>1, <3>1, <3>3
    <3> QED BY <2>2, <3>2, <3>4, <3>5
  <2> QED BY <2>1, <2>2
<1>6. Tree' \in Trees /\ Tree'.root = root' /\ Tree'.link = link' /\ Tree.root = root /\ Tree.link = link
  BY <1>1, <1>4, <1>5 DEF Tree, Trees
<1>7. \A d \in Sides : d \in Dirs /\ d # "P" BY SidesAre
<1>8. "P" \in Dirs BY DEF Dirs
<1> QED BY <1>2, <1>3, <1>4, <1>5, <1>6, <1>7, <1>8, SMTT(30) DEF Linked, s

\* The place of the new leaf keeps the keys in order.
LEMMA LeafInOrder ==
  ASSUME NEW S, NEW k, NEW at, Ordered(S, k, at), NEW f \in [Blocks -> Nat], S \subseteq Blocks,
         NEW n \in Blocks \ S, NEW i \in Int,
         \A l, m \in S : at[l] < at[m] => f[l] <= f[m],
         \A m \in S : /\ at[m] < i => f[m] <= f[n]
                      /\ at[m] >= i => f[n] <= f[m]
  PROVE  \A l, m \in S \cup {n} : AtPlus(S, at, n, i)[l] < AtPlus(S, at, n, i)[m] => f[l] <= f[m]
<1> DEFINE b == AtPlus(S, at, n, i)
<1>1. b[n] = i /\ \A m \in S : b[m] = IF at[m] >= i THEN at[m] + 1 ELSE at[m] BY DEF AtPlus
<1>2. \A m \in S : at[m] \in Int /\ f[m] \in Nat BY DEF Ordered
<1> HIDE DEF b
<1>3. ASSUME NEW l \in S \cup {n}, NEW m \in S \cup {n}, b[l] < b[m] PROVE f[l] <= f[m]
  <2>1. CASE l = n /\ m = n BY <2>1
  <2>2. CASE l = n /\ m \in S BY <1>1, <1>2, <1>3, <2>2
  <2>3. CASE l \in S /\ m = n BY <1>1, <1>2, <1>3, <2>3
  <2>4. CASE l \in S /\ m \in S
    <3>1. at[l] < at[m] BY <1>1, <1>2, <1>3, <2>4
    <3> QED BY <2>4, <3>1
  <2> QED BY <2>1, <2>2, <2>3, <2>4
<1> QED BY <1>3 DEF b

\* The new leaf.
LEMMA InsertLinkShape ==
  ASSUME IInv, TInv, CInv, TreeInv, NEW c \in CPUs, InsertLink(c)
  PROVE  TreeInv' /\ (~UpdateLinked => Enters(arg[c]))
<1> DEFINE n == arg[c]
           y == par[c]
           s == Side(n, y)
           Sorted(a) == \A l, m \in members' : a[l] < a[m] => fire'[l] <= fire'[m]
           Good(at, a) == ~UpdateLinked => Sorted(a) /\ FitsIn(n, at, a)
<1>1. PICK k, at, ends, bh :
        /\ IsTree(Tree, members, k, at, ends)
        /\ \A d \in CPUs : Placed(d, at, ends)
        /\ Mended(bh)
        /\ ~UpdateLinked => Sorting(at, ends)
  BY DEF TreeInv
<1>2. /\ pc[c] = "descend" /\ pc' = [pc EXCEPT ![c] = "fixup"] /\ cur[c] = Nil
      /\ colour' = [colour EXCEPT ![n] = "red"]
      /\ members' = members \cup {n} /\ fire' = fire
      /\ pc'[c] = "fixup" /\ cur'[c] = n
  BY DEF InsertLink, Goto, tree, node, IInv, ControlTypeOK, TInv, CpusTyped
<1>3. /\ n \in Blocks /\ n \notin members
  <2>1. call[c] = "insert" BY <1>2 DEF IInv, CallOK, InsertSteps
  <2> QED BY <1>2, <2>1 DEF TInv, CpusTyped, CInv, MovesOK, Entering
<1>4. /\ y \in members \cup {Nil}
      /\ Nil = IF y = Nil THEN root ELSE link[y][s]
  BY <1>1, <1>2 DEF Placed
<1>5. Nil \notin members /\ Nil \notin Blocks /\ s \in Sides
  BY <1>1, SidesAre DEF IsTree, Side, Sides
<1>6. Linked(Tree, Tree', y, s, n) BY <1>3, <1>4, <1>5, LinkedNode
<1>7. Holds(c) BY <1>2 DEF Holds
<1>8. Balanced(Tree, members, colour, bh) BY <1>1, <1>2, <1>7, Whole
<1> HIDE DEF s
<1>9. Painted(Tree', members \cup {n}, [colour EXCEPT ![n] = "red"], [bh EXCEPT ![n] = 0], Nil, "L", Nil, n)
  <2>1. (y # Nil => Tree.link[y][s] = Nil) /\ (y = Nil => Tree.root = Nil) BY <1>4 DEF Tree
  <2> QED BY <1>1, <1>3, <1>4, <1>5, <1>6, <1>8, <2>1, PaintLeaf
<1>10. colour'[n] = "red"
  <2>1. n \in Ptrs /\ colour \in [Ptrs -> Colours] BY <1>3 DEF TInv, TreeTyped, Ptrs
  <2> QED BY <1>2, <2>1
<1>11. PICK b : Painted(Tree', members', colour', b, Nil, "L", Nil, cur'[c])
  <2>1. Painted(Tree', members', colour', [bh EXCEPT ![n] = 0], Nil, "L", Nil, cur'[c])
    BY <1>2, <1>9
  <2> QED BY <2>1
<1>12. Mending(c, b)' BY <1>2, <1>10, <1>11 DEF Mending
<1>13. ASSUME y = Nil
       PROVE  \E a, e : IsTree(Tree', members', k + 1, a, e) /\ Good(at, a)
  <2> DEFINE a2 == [m \in {n} |-> 1]
             e2 == [m \in {n} |-> [d \in Sides |-> 1]]
  <2>1. members = {} /\ k = 0
    <3>1. members = {} BY <1>1, <1>4, <1>13 DEF IsTree, Rooted, Tree
    <3>2. k \in Nat /\ \A i \in 1..k : \E m \in members : at[m] = i BY <1>1 DEF IsTree, Ordered
    <3>3. k >= 1 => 1 \in 1..k BY <3>2
    <3> QED BY <3>1, <3>2, <3>3
  <2>2. IsTree(Tree', {n}, 1, a2, e2) BY <1>1, <1>3, <1>6, <1>13, <2>1, FirstTree
  <2>3. members' = {n} BY <1>2, <2>1
  <2>4. Good(at, a2) BY <2>1, <2>3 DEF FitsIn
  <2> HIDE DEF a2, e2, Sorted, Good
  <2>5. IsTree(Tree', members', k + 1, a2, e2) BY <2>1, <2>2, <2>3
  <2> QED BY <2>4, <2>5
<1>14. ASSUME y # Nil
       PROVE  \E a, e : IsTree(Tree', members', k + 1, a, e) /\ Good(at, a)
  <2> DEFINE i == IF s = "L" THEN at[y] ELSE at[y] + 1
             a2 == AtPlus(members, at, n, i)
             e2 == EndsPlus(members, ends, at[y], n, i)
  <2>1. y \in members /\ Tree.link[y][s] = Nil BY <1>4, <1>14 DEF Tree
  <2> HIDE DEF i
  <2>2. IsTree(Tree', members \cup {n}, k + 1, a2, e2)
    <3>1. i = IF s = "L" THEN at[y] ELSE at[y] + 1 BY DEF i
    <3> QED BY <1>1, <1>3, <1>5, <1>6, <2>1, <3>1, LeafTree
  <2>3. ASSUME ~UpdateLinked
        PROVE  Sorted(a2) /\ FitsIn(n, at, a2)
    <3>1. /\ Ordered(members, k, at) /\ members \subseteq Blocks
          /\ \A m \in members : at[m] \in Int
          /\ ends[y][s] = at[y]
      <4>1. Branch(Tree, members, at, ends, y, s) BY <1>1, <1>5, <2>1 DEF IsTree
      <4>2. ends[y][s] = at[y] BY <2>1, <4>1 DEF Branch
      <4> QED BY <1>1, <4>2 DEF IsTree, Ordered
    <3>2. \A m \in Blocks : fire[m] \in Nat BY ParametersAssumption DEF TInv, NodesTyped
    <3>3. fire \in [Blocks -> Nat] BY ParametersAssumption DEF TInv, NodesTyped
    <3>4. \A m \in members : /\ at[m] < ends[y]["L"] => fire[m] <= fire[n]
                             /\ at[m] > ends[y]["R"] => fire[m] > fire[n]
      BY <1>1, <1>2, <1>14, <2>3 DEF Sorting, Narrowed
    <3>5. \A l, m \in members : at[l] < at[m] => fire[l] <= fire[m]
      BY <1>1, <2>3 DEF Sorting, InOrder
    <3>6. \A l, m \in members : at[l] <= at[m] => fire[l] <= fire[m]
      <4>1. \A l, m \in members : at[l] = at[m] => l = m BY <3>1 DEF Ordered
      <4> QED BY <3>1, <3>2, <3>5, <4>1
    <3>7. i \in Int BY <2>1, <3>1 DEF i
    <3>8. ASSUME NEW m \in members
          PROVE  (at[m] < i => fire[m] <= fire[n]) /\ (at[m] >= i => fire[n] < fire[m])
      <4>1. fire[m] \in Nat /\ fire[n] \in Nat /\ fire[y] \in Nat /\ at[m] \in Int /\ at[y] \in Int
        BY <1>3, <2>1, <3>1, <3>2
      <4>2. CASE s = "L"
        <5>1. fire[n] < fire[y] BY <4>2 DEF s, Side
        <5>2. i = at[y] /\ ends[y]["L"] = at[y] BY <3>1, <4>2 DEF i
        <5>3. at[y] <= at[m] => fire[y] <= fire[m] BY <2>1, <3>6
        <5> QED BY <3>4, <4>1, <5>1, <5>2, <5>3
      <4>3. CASE s = "R"
        <5>1. fire[y] <= fire[n] BY <4>1, <4>3 DEF s, Side
        <5>2. i = at[y] + 1 /\ ends[y]["R"] = at[y] BY <3>1, <4>3 DEF i
        <5>3. at[m] <= at[y] => fire[m] <= fire[y] BY <2>1, <3>6
        <5> QED BY <3>4, <4>1, <5>1, <5>2, <5>3
      <4> QED BY <1>5, <4>2, <4>3 DEF Sides
    <3>9. \A l, m \in members \cup {n} : a2[l] < a2[m] => fire[l] <= fire[m]
      <4>1. \A m \in members : /\ at[m] < i => fire[m] <= fire[n]
                               /\ at[m] >= i => fire[n] <= fire[m]
        BY <1>3, <3>1, <3>2, <3>8
      <4> QED BY <1>3, <3>1, <3>3, <3>5, <3>7, <4>1, LeafInOrder
    <3>10. a2[n] = i /\ \A m \in members : a2[m] = IF at[m] >= i THEN at[m] + 1 ELSE at[m]
      BY <1>3 DEF AtPlus
    <3>11. ASSUME NEW m \in members PROVE at[m] < i <=> fire[m] <= fire[n]
      <4>1. fire[m] \in Nat /\ fire[n] \in Nat /\ at[m] \in Int BY <1>3, <3>1, <3>2
      <4> QED BY <3>7, <3>8, <4>1
    <3>12. FitsIn(n, at, a2) BY <3>10, <3>11 DEF FitsIn
    <3> HIDE DEF a2, e2
    <3> QED BY <1>2, <3>9, <3>12
  <2> HIDE DEF a2, e2, Sorted, Good
  <2>4. IsTree(Tree', members', k + 1, a2, e2) BY <1>2, <2>2
  <2>5. Good(at, a2) BY <2>3 DEF Good
  <2> QED BY <2>4, <2>5
<1> HIDE DEF Sorted, Good
<1>15. PICK a, e : IsTree(Tree', members', k + 1, a, e) /\ Good(at, a)
  <2>1. CASE y = Nil BY <1>13, <2>1
  <2>2. CASE y # Nil BY <1>14, <2>2
  <2> QED BY <2>1, <2>2
<1>16. Placed(c, a, e)' /\ Narrowed(c, a, e)' BY <1>2 DEF Placed, Narrowed
<1>17. ~UpdateLinked => InOrder(a)' /\ Narrowed(c, a, e)' BY <1>15, <1>16 DEF InOrder, Sorted, Good
<1>18. ASSUME ~UpdateLinked PROVE Enters(n)
  <2>1. FitsIn(n, at, a) BY <1>15, <1>18 DEF Good
  <2> HIDE DEF Sorted, Good
  <2> QED BY <1>1, <1>2, <1>3, <1>15, <2>1 DEF Enters
<1>19. TreeInv' BY <1>2, <1>7, <1>12, <1>15, <1>16, <1>17, Settled
<1> QED BY <1>18, <1>19

\* A step of the repair keeps the members in their order.
LEMMA Mends ==
  ASSUME IInv, NEW c \in CPUs, pc[c] \in {"fixup", "delfixup"},
         NEW l, pc' = [pc EXCEPT ![c] = l], l \notin {"descend", "minimum", "leftmost"},
         members' = members, fire' = fire,
         NEW k, NEW at, ~UpdateLinked => InOrder(at), NEW ends, IsTree(Tree', members', k, at, ends),
         NEW bh, Mending(c, bh)',
         l \notin {"fixup", "delfixup"} => Balanced(Tree', members', colour', bh)
  PROVE  TreeInv'
<1>1. pc'[c] = l /\ Holds(c) BY DEF IInv, ControlTypeOK, Holds
<1>2. Placed(c, at, ends)' /\ Narrowed(c, at, ends)' BY <1>1 DEF Placed, Narrowed
<1>3. ~UpdateLinked => InOrder(at)' /\ Narrowed(c, at, ends)' BY <1>2 DEF InOrder
<1> QED BY <1>1, <1>2, <1>3, Settled

\* The side a node hangs on, found as the code does.
LEMMA SideFound ==
  ASSUME NEW k, NEW at, NEW ends, IsTree(Tree, members, k, at, ends), NEW m \in members,
         NEW h \in members, NEW s \in Sides, link[h][s] = m
  PROVE  Parent(m) = h /\ SideOf(m) = s
<1>1. m # Nil /\ m \in members BY SidesAre DEF IsTree
<1>2. Tree.link[m]["P"] = h
  <2>1. Branch(Tree, members, at, ends, h, s) BY DEF IsTree
  <2>2. Tree.link[h][s] = m BY DEF Tree
  <2> QED BY <1>1, <2>1, <2>2 DEF Branch
<1>3. Parent(m) = h BY <1>2 DEF Parent, Tree
<1>4. Tree.link[h]["L"] = Tree.link[h]["R"] => Tree.link[h]["L"] = Nil BY Family
<1>5. link[h]["L"] = link[h]["R"] => link[h]["L"] = Nil BY <1>4 DEF Tree
<1> QED BY <1>1, <1>3, <1>5 DEF SideOf, Sides

\* The rotation of the grandparent, as the code makes it.
LEMMA OuterTurn ==
  ASSUME NEW t, NEW S, NEW k, NEW at, NEW ends, IsTree(t, S, k, at, ends),
         NEW col, NEW bh, NEW n \in S, Painted(t, S, col, bh, Nil, "L", Nil, n),
         NEW p, NEW g, NEW s \in Sides, Elders(t, n, p, g, s), col[n] = "red", col[p] = "red",
         Child(t, n, p, s), col[t.link[g][Opposite(s)]] # "red"
  PROVE  \E e, b : /\ IsTree(Rotate(t, g, Opposite(s)), S, k, at, e)
                   /\ Painted(Rotate(t, g, Opposite(s)), S, [col EXCEPT ![p] = "black", ![g] = "red"],
                              b, Nil, "L", Nil, n)
<1> DEFINE o == Opposite(s)
           r == Rotate(t, g, o)
<1>1. p \in S /\ g \in S /\ p # n /\ g # p /\ g # n /\ col[g] = "black" BY EldersAre
<1>2. o \in Sides /\ Opposite(o) = s BY SidesAre
<1>3. t.link[g][s] = p /\ p # Nil BY <1>1, SidesAre DEF Elders, IsTree
<1>4. t.link[g][Opposite(o)] # Nil BY <1>2, <1>3
<1>5. Rotated(t, r, g, o) BY <1>1, <1>2, <1>4, RotateLinks
<1> HIDE DEF r
<1>6. \E e : IsTree(r, S, k, at, e)
  <2> DEFINE y == t.link[g][Opposite(o)]
  <2>1. y # Nil BY <1>4
  <2>2. y = t.link[g][Opposite(o)] OBVIOUS
  <2> HIDE DEF y
  <2>3. IsTree(r, S, k, at, [ends EXCEPT ![g][Opposite(o)] = at[y] + Way(o), ![y][o] = ends[g][o]])
    BY <1>1, <1>2, <1>5, <2>1, <2>2, RotateTree
  <2> QED BY <2>3
<1>7. Painted(r, S, [col EXCEPT ![p] = "black", ![g] = "red"],
              [bh EXCEPT ![p] = bh[g], ![g] = bh[p]], Nil, "L", Nil, n)
  BY <1>5, PaintOut
<1> QED BY <1>6, <1>7 DEF r

\* The rotation of the parent before it, if the node is an inner grandchild.
LEMMA InnerTurn ==
  ASSUME NEW t, NEW S, NEW k, NEW at, NEW ends, IsTree(t, S, k, at, ends),
         NEW col, NEW bh, NEW n \in S, Painted(t, S, col, bh, Nil, "L", Nil, n),
         NEW p, NEW g, NEW s \in Sides, Elders(t, n, p, g, s), col[n] = "red", col[p] = "red",
         Child(t, n, p, Opposite(s))
  PROVE  LET r == Rotate(t, p, s) IN
         /\ \E e : IsTree(r, S, k, at, e)
         /\ Painted(r, S, col, bh, Nil, "L", Nil, p)
         /\ Elders(r, p, n, g, s)
         /\ Child(r, p, n, s)
         /\ r.link[g][Opposite(s)] = t.link[g][Opposite(s)]
<1> DEFINE r == Rotate(t, p, s)
<1>1. p \in S /\ g \in S /\ p # n /\ g # p /\ g # n /\ col[g] = "black" BY EldersAre
<1>2. n # Nil /\ t.link[p][Opposite(s)] = n BY SidesAre DEF Child, IsTree
<1>3. t.link[p][Opposite(s)] # Nil BY <1>2
<1>4. Rotated(t, r, p, s) BY <1>1, <1>3, RotateLinks
<1> HIDE DEF r
<1>5. \E e : IsTree(r, S, k, at, e)
  <2> DEFINE y == t.link[p][Opposite(s)]
  <2>1. y # Nil BY <1>3
  <2>2. y = t.link[p][Opposite(s)] OBVIOUS
  <2> HIDE DEF y
  <2>3. IsTree(r, S, k, at, [ends EXCEPT ![p][Opposite(s)] = at[y] + Way(s), ![y][s] = ends[p][s]])
    BY <1>1, <1>4, <2>1, <2>2, RotateTree
  <2> QED BY <2>3
<1>6. /\ Painted(r, S, col, bh, Nil, "L", Nil, p)
      /\ Elders(r, p, n, g, s)
      /\ r.link[n][s] = p
      /\ r.link[g][Opposite(s)] = t.link[g][Opposite(s)]
  BY <1>4, PaintIn
<1> QED BY <1>5, <1>6 DEF Child, r

\* Where the repair of an insertion is.
LEMMA AtFixup ==
  ASSUME IInv, TreeInv, NEW c \in CPUs, pc[c] = "fixup"
  PROVE  \E k, at, ends, bh :
           /\ IsTree(Tree, members, k, at, ends)
           /\ ~UpdateLinked => InOrder(at)
           /\ cur[c] \in members /\ colour[cur[c]] = "red"
           /\ Painted(Tree, members, colour, bh, Nil, "L", Nil, cur[c])
           /\ RedParent(cur[c]) =>
                LET n == cur[c]  p == Parent(n)  g == Grand(n)  s == SideOf(p) IN
                /\ Elders(Tree, n, p, g, s)
                /\ s \in Sides /\ p \in members /\ g \in members /\ p # n /\ g # n /\ g # p
                /\ colour[p] = "red"
                /\ Child(Tree, n, p, s) \/ Child(Tree, n, p, Opposite(s))
<1> DEFINE n == cur[c]
           p == Parent(n)
           g == Grand(n)
           s == SideOf(p)
<1>1. PICK k, at, ends, bh :
        /\ IsTree(Tree, members, k, at, ends)
        /\ Mending(c, bh)
        /\ ~UpdateLinked => Sorting(at, ends)
  BY DEF TreeInv
<1>2. /\ n \in members /\ colour[n] = "red"
      /\ Painted(Tree, members, colour, bh, Nil, "L", Nil, n)
  BY <1>1 DEF Mending
<1>3. ASSUME RedParent(n)
      PROVE  /\ Elders(Tree, n, p, g, s)
             /\ s \in Sides /\ p \in members /\ g \in members /\ p # n /\ g # n /\ g # p
             /\ colour[p] = "red"
             /\ Child(Tree, n, p, s) \/ Child(Tree, n, p, Opposite(s))
  <2> DEFINE q == Tree.link[n]["P"]
             h == Tree.link[q]["P"]
  <2>1. q = p /\ h = g BY DEF Parent, Grand, Tree
  <2>2. colour[q] = "red" BY <1>3 DEF RedParent, Tree
  <2>3. /\ q \in members /\ h \in members /\ q # n /\ h # q /\ h # n
        /\ \E d \in Sides : Elders(Tree, n, q, h, d)
        /\ \E d \in Sides : Tree.link[q][d] = n
    BY <1>1, <1>2, <2>2, RedChain
  <2> HIDE DEF q, h
  <2>4. PICK d \in Sides : Elders(Tree, n, q, h, d) BY <2>3
  <2>5. link[h][d] = q BY <2>4 DEF Elders, Tree
  <2>6. SideOf(q) = d BY <1>1, <2>3, <2>5, SideFound
  <2>7. PICK e \in Sides : Tree.link[q][e] = n BY <2>3
  <2>8. e = d \/ e = Opposite(d) BY SidesAre
  <2>9. Child(Tree, n, q, d) \/ Child(Tree, n, q, Opposite(d)) BY <2>7, <2>8 DEF Child
  <2> QED BY <2>1, <2>2, <2>3, <2>4, <2>6, <2>9
<1>4. ~UpdateLinked => InOrder(at) BY <1>1 DEF Sorting
<1> QED BY <1>1, <1>2, <1>3, <1>4

\* A red uncle.
LEMMA FixupRecolourShape ==
  ASSUME IInv, TInv, TreeInv, NEW c \in CPUs, FixupRecolour(c)
  PROVE  TreeInv'
<1>0. PICK n : n = cur[c] OBVIOUS
<1> DEFINE p == Parent(n)
           g == Grand(n)
           s == SideOf(p)
           u == Uncle(n)
<1>1. /\ pc[c] = "fixup" /\ RedParent(n) /\ colour[u] = "red"
      /\ pc' = pc /\ UNCHANGED <<root, link, members, fire>>
      /\ colour' = [colour EXCEPT ![p] = "black", ![u] = "black", ![g] = "red"]
      /\ cur' = [cur EXCEPT ![c] = g]
  BY <1>0 DEF FixupRecolour, node
<1>2. PICK k, at, ends, bh :
           /\ IsTree(Tree, members, k, at, ends)
           /\ ~UpdateLinked => InOrder(at)
           /\ n \in members /\ colour[n] = "red"
           /\ Painted(Tree, members, colour, bh, Nil, "L", Nil, n)
           /\ Elders(Tree, n, p, g, s)
           /\ s \in Sides /\ g \in members
           /\ colour[p] = "red"
  BY <1>0, <1>1, AtFixup
<1>3. pc' = [pc EXCEPT ![c] = "fixup"] /\ pc'[c] = "fixup" /\ cur'[c] = g
  BY <1>1 DEF IInv, ControlTypeOK, TInv, CpusTyped
<1>4. Tree' = Tree BY <1>1 DEF Tree
<1>5. u = Tree.link[g][Opposite(s)] BY DEF Uncle, Tree
<1>6. Painted(Tree, members, [colour EXCEPT ![p] = "black", ![u] = "black", ![g] = "red"],
              [bh EXCEPT ![p] = @ + 1, ![u] = @ + 1], Nil, "L", Nil, g)
  <2>1. colour[Tree.link[g][Opposite(s)]] = "red" BY <1>1, <1>5
  <2> HIDE DEF u, p, g, s
  <2> QED BY <1>2, <1>5, <2>1, PaintRecolour
<1>7. PICK b : Painted(Tree', members', colour', b, Nil, "L", Nil, cur'[c])
  BY <1>1, <1>3, <1>4, <1>6
<1>8. colour'[cur'[c]] = "red"
  <2>1. colour \in [Ptrs -> Colours] /\ g \in Ptrs BY <1>2 DEF TInv, TreeTyped, Ptrs
  <2> QED BY <1>1, <1>3, <2>1
<1>9. Mending(c, b)' BY <1>1, <1>2, <1>3, <1>7, <1>8 DEF Mending
<1> QED BY <1>1, <1>2, <1>3, <1>4, <1>9, Mends

\* A black uncle.
LEMMA FixupRotateShape ==
  ASSUME IInv, TInv, TreeInv, NEW c \in CPUs, FixupRotate(c)
  PROVE  TreeInv' /\ OrderKept
<1>0. PICK n : n = cur[c] OBVIOUS
<1> DEFINE q == Parent(n)
           h == Grand(n)
           s == SideOf(q)
           inner == n = link[q][Opposite(s)]
           m == IF inner THEN q ELSE n
           t == IF inner THEN Rotate(Tree, m, s) ELSE Tree
           p == t.link[m]["P"]
           g == t.link[p]["P"]
<1>1. /\ pc[c] = "fixup" /\ RedParent(n) /\ colour[Uncle(n)] # "red"
      /\ pc' = pc /\ UNCHANGED <<members, fire>>
      /\ SetTree(Rotate(t, g, Opposite(s)))
      /\ colour' = [colour EXCEPT ![p] = "black", ![g] = "red"]
      /\ cur' = [cur EXCEPT ![c] = m]
  BY <1>0 DEF FixupRotate, node
<1>2. PICK k, at, ends, bh :
           /\ IsTree(Tree, members, k, at, ends)
           /\ ~UpdateLinked => InOrder(at)
           /\ n \in members /\ colour[n] = "red"
           /\ Painted(Tree, members, colour, bh, Nil, "L", Nil, n)
           /\ Elders(Tree, n, q, h, s)
           /\ s \in Sides /\ q \in members /\ h \in members /\ q # n /\ h # n /\ h # q
           /\ colour[q] = "red"
           /\ Child(Tree, n, q, s) \/ Child(Tree, n, q, Opposite(s))
  BY <1>0, <1>1, AtFixup
<1>3. pc' = [pc EXCEPT ![c] = "fixup"] /\ pc'[c] = "fixup" /\ cur'[c] = m
  BY <1>1 DEF IInv, ControlTypeOK, TInv, CpusTyped
<1>4. colour[Tree.link[h][Opposite(s)]] # "red" BY <1>1 DEF Uncle, Tree
<1>5. inner <=> Child(Tree, n, q, Opposite(s)) BY DEF Child, Tree
<1>6. \E e : /\ IsTree(t, members, k, at, e)
             /\ m \in members
             /\ Painted(t, members, colour, bh, Nil, "L", Nil, m)
             /\ Elders(t, m, p, g, s)
             /\ colour[m] = "red" /\ colour[p] = "red"
             /\ Child(t, m, p, s)
             /\ colour[t.link[g][Opposite(s)]] # "red"
             /\ g # m /\ p # m
             /\ g \in members
  <2>1. CASE inner
    <3> DEFINE r == Rotate(Tree, q, s)
    <3>1. m = q /\ t = r BY <2>1
    <3>2. Child(Tree, n, q, Opposite(s)) BY <1>5, <2>1
    <3> HIDE DEF q, h, s
    <3>3. /\ \E e : IsTree(r, members, k, at, e)
          /\ Painted(r, members, colour, bh, Nil, "L", Nil, q)
          /\ Elders(r, q, n, h, s)
          /\ Child(r, q, n, s)
          /\ r.link[h][Opposite(s)] = Tree.link[h][Opposite(s)]
      BY <1>2, <3>2, InnerTurn
    <3> HIDE DEF r
    <3>4. r.link[q]["P"] = n /\ r.link[n]["P"] = h BY <3>3 DEF Elders
    <3>5. p = n /\ g = h BY <3>1, <3>4
    <3> HIDE DEF p, g, t, m, inner
    <3> QED BY <1>2, <1>4, <3>1, <3>3, <3>5
  <2>2. CASE ~inner
    <3>1. m = n /\ t = Tree BY <2>2
    <3>2. p = q /\ g = h
      <4>1. t.link = link BY <3>1 DEF Tree
      <4> HIDE DEF t, m
      <4>2. p = q BY <3>1, <4>1 DEF Parent
      <4>3. h = link[q]["P"] BY DEF Grand, Parent
      <4> HIDE DEF p, q, h
      <4> QED BY <4>1, <4>2, <4>3
    <3>3. Child(Tree, n, q, s) BY <1>2, <1>5, <2>2
    <3> HIDE DEF p, g, t, m, inner, q, h, s
    <3> QED BY <1>2, <1>4, <3>1, <3>2, <3>3
  <2> QED BY <2>1, <2>2
<1> HIDE DEF m, t, p, g, s, q, h, inner
<1>7. PICK e2, b :
        /\ IsTree(Rotate(t, g, Opposite(s)), members, k, at, e2)
        /\ Painted(Rotate(t, g, Opposite(s)), members, [colour EXCEPT ![p] = "black", ![g] = "red"],
                   b, Nil, "L", Nil, m)
  BY <1>2, <1>6, OuterTurn
<1>8. Tree' = Rotate(t, g, Opposite(s))
  <2>1. Rotate(t, g, Opposite(s)) \in Trees BY <1>7 DEF IsTree
  <2> QED BY <1>1, <2>1 DEF SetTree, Tree, Trees
<1>9. IsTree(Tree', members', k, at, e2) /\ Painted(Tree', members', colour', b, Nil, "L", Nil, cur'[c])
  BY <1>1, <1>3, <1>7, <1>8
<1>10. colour'[cur'[c]] = "red"
  <2>1. colour \in [Ptrs -> Colours] /\ m \in Ptrs BY <1>6 DEF TInv, TreeTyped, Ptrs
  <2> QED BY <1>1, <1>3, <1>6, <2>1
<1>11. Mending(c, b)'
  <2>1. cur'[c] \in members' BY <1>1, <1>3, <1>6
  <2> QED BY <1>3, <1>9, <1>10, <2>1 DEF Mending
<1>12. OrderKept BY <1>1, <1>2, <1>9 DEF OrderKept
<1>13. TreeInv' BY <1>1, <1>2, <1>3, <1>9, <1>11, Mends
<1> QED BY <1>12, <1>13

\* The end of the insertion.
LEMMA InsertDoneShape ==
  ASSUME IInv, TInv, TreeInv, NEW c \in CPUs, InsertDone(c)
  PROVE  TreeInv'
<1>1. /\ pc[c] = "fixup" /\ ~RedParent(cur[c])
      /\ pc' = [pc EXCEPT ![c] = "release"] /\ UNCHANGED <<root, link, members, fire>>
      /\ colour' = [colour EXCEPT ![root] = "black"]
  BY DEF InsertDone, node, Goto
<1>2. PICK k, at, ends, bh :
           /\ IsTree(Tree, members, k, at, ends)
           /\ ~UpdateLinked => InOrder(at)
           /\ cur[c] \in members
           /\ Painted(Tree, members, colour, bh, Nil, "L", Nil, cur[c])
  BY <1>1, AtFixup
<1>3. colour[Tree.link[cur[c]]["P"]] # "red" BY <1>1 DEF RedParent, Tree
<1>4. PICK b : Balanced(Tree, members, [colour EXCEPT ![Tree.root] = "black"], b)
  BY <1>2, <1>3, PaintRoot
<1>5. Tree' = Tree /\ Tree.root = root BY <1>1 DEF Tree
<1>6. Balanced(Tree', members', colour', b) BY <1>1, <1>4, <1>5
<1>7. Mending(c, b)'
  <2>1. pc'[c] = "release" BY <1>1 DEF IInv, ControlTypeOK
  <2> QED BY <2>1 DEF Mending
<1> QED BY <1>1, <1>2, <1>5, <1>6, <1>7, Mends

----------------------------------------------------------------------------
(* Removal                                                                 *)

\* The children of a member, on the side they are on.
LEMMA Below ==
  ASSUME NEW k, NEW at, NEW ends, IsTree(Tree, members, k, at, ends), NEW n \in members
  PROVE  /\ link[n]["L"] # Nil => /\ link[n]["L"] \in members
                                  /\ ends[link[n]["L"]]["L"] = ends[n]["L"]
         /\ link[n]["R"] # Nil => /\ link[n]["R"] \in members
                                  /\ ends[link[n]["R"]]["L"] = at[n] + 1
<1>1. Branch(Tree, members, at, ends, n, "L") /\ Branch(Tree, members, at, ends, n, "R")
  BY DEF IsTree, Sides
<1>2. Opposite("R") = "L" /\ Way("R") = 1 BY DEF Opposite, Way
<1> QED BY <1>1, <1>2 DEF Branch, Tree

\* The search for the successor.
LEMMA RemoveSearchShape ==
  ASSUME IInv, TInv, CInv, TreeInv, NEW c \in CPUs, RemoveSearch(c) \/ RemoveDescend(c)
  PROVE  TreeInv'
<1> DEFINE n == arg[c]
<1>1. PICK k, at, ends, bh :
        /\ IsTree(Tree, members, k, at, ends)
        /\ Placed(c, at, ends)
        /\ Mended(bh)
        /\ ~UpdateLinked => Sorting(at, ends)
  BY DEF TreeInv
<1>2. /\ pc[c] \in {"remove", "minimum"} /\ pc' = [pc EXCEPT ![c] = "minimum"]
      /\ UNCHANGED <<root, link, colour, members, fire, arg>>
      /\ pc'[c] = "minimum"
      /\ pc[c] = "remove" => TwoChildren(n) /\ cur'[c] = link[n]["R"]
      /\ pc[c] = "minimum" => link[cur[c]]["L"] # Nil /\ cur'[c] = link[cur[c]]["L"]
  <2>1. CASE RemoveSearch(c)
    BY <2>1 DEF RemoveSearch, Goto, tree, node, IInv, ControlTypeOK, TInv, CpusTyped
  <2>2. CASE RemoveDescend(c)
    BY <2>2 DEF RemoveDescend, tree, node, IInv, ControlTypeOK, TInv, CpusTyped
  <2> QED BY <2>1, <2>2
<1>3. CASE pc[c] = "remove"
  <2>1. n \in members
    <3>1. call[c] = "remove" BY <1>3 DEF IInv, CallOK, RemoveSteps
    <3> QED BY <1>3, <3>1 DEF CInv, MovesOK, Leaving
  <2>2. link[n]["R"] # Nil BY <1>2, <1>3 DEF TwoChildren, Sides
  <2>3. link[n]["R"] \in members /\ ends[link[n]["R"]]["L"] = at[n] + 1 BY <1>1, <2>1, <2>2, Below
  <2>4. Placed(c, at, ends)' BY <1>2, <1>3, <2>1, <2>3 DEF Placed, TwoChildren
  <2>5. Narrowed(c, at, ends)' BY <1>2 DEF Narrowed
  <2>6. Holds(c) BY <1>3 DEF Holds
  <2>7. ~UpdateLinked => InOrder(at) /\ Narrowed(c, at, ends)' BY <1>1, <2>5 DEF Sorting
  <2> QED BY <1>1, <1>2, <1>3, <2>4, <2>6, <2>7, Searching
<1>4. CASE pc[c] = "minimum"
  <2>1. /\ n \in members /\ cur[c] \in members
        /\ TwoChildren(n)
        /\ ends[cur[c]]["L"] = at[n] + 1
    BY <1>1, <1>4 DEF Placed
  <2>2. link[cur[c]]["L"] \in members /\ ends[link[cur[c]]["L"]]["L"] = ends[cur[c]]["L"]
    BY <1>1, <1>2, <1>4, <2>1, Below
  <2>3. Placed(c, at, ends)' BY <1>2, <1>4, <2>1, <2>2 DEF Placed, TwoChildren
  <2>4. Narrowed(c, at, ends)' BY <1>2 DEF Narrowed
  <2>5. Holds(c) BY <1>4 DEF Holds
  <2>6. ~UpdateLinked => InOrder(at) /\ Narrowed(c, at, ends)' BY <1>1, <2>4 DEF Sorting
  <2> QED BY <1>1, <1>2, <1>4, <2>3, <2>5, <2>6, Searching
<1> QED BY <1>2, <1>3, <1>4

\* What the two ways of splicing a member out leave.
SplicedOut(r, n, k, at) ==
  /\ \E a, e : /\ IsTree(r.t, members \ {n}, k - 1, a, e)
               /\ \A m \in members \ {n} : a[m] = IF at[m] > at[n] THEN at[m] - 1 ELSE at[m]
  /\ r.black => \E b, h, d : Owed(r.t, members \ {n}, r.colour, b, r.x, h, d)
  /\ ~r.black => \E b : Balanced(r.t, members \ {n}, r.colour, b)

\* SpliceSuccessor gives the tree without n, its order kept and its colours
\* right but for the place of the successor that moved up.
LEMMA SuccessorSpliced ==
  ASSUME TInv, NEW k, NEW at, NEW ends, IsTree(Tree, members, k, at, ends), NEW n, NEW y,
         Succeeds(Tree, members, at, ends, n, y), NEW bh, Balanced(Tree, members, colour, bh)
  PROVE  SplicedOut(SpliceSuccessor(n, y), n, k, at)
<1>1. SpliceSuccessor(n, y).black <=> colour[y] = "black" BY DEF SpliceSuccessor
<1>2. colour[y] = "black" \/ colour[y] = "red"
  <2>1. y \in Ptrs BY DEF Succeeds, IsTree, Ptrs
  <2> QED BY <2>1 DEF TInv, TreeTyped, Colours
<1>3. \E a, e : /\ IsTree(SpliceSuccessor(n, y).t, members \ {n}, k - 1, a, e)
                /\ \A m \in members \ {n} : a[m] = IF at[m] > at[n] THEN at[m] - 1 ELSE at[m]
  <2>1. IsTree(SpliceSuccessor(n, y).t, members \ {n}, k - 1, AtMinus(members, at, n),
               Moved(members \ {y}, EndsMinus(members, ends, at[y], y), n, y))
    BY SuccessorTree
  <2>2. \A m \in members \ {n} :
          AtMinus(members, at, n)[m] = IF at[m] > at[n] THEN at[m] - 1 ELSE at[m]
    BY DEF AtMinus
  <2> QED BY <2>1, <2>2
<1>4. /\ colour[y] = "red" => \E b : Balanced(SpliceSuccessor(n, y).t, members \ {n}, SpliceSuccessor(n, y).colour, b)
      /\ colour[y] # "red" => \E b, h, d : Owed(SpliceSuccessor(n, y).t, members \ {n},
                                               SpliceSuccessor(n, y).colour, b, SpliceSuccessor(n, y).x, h, d)
  BY PaintSuccessor
<1> QED BY <1>1, <1>2, <1>3, <1>4 DEF SplicedOut

\* SpliceOut gives the tree without n, its order kept and its colours right but
\* for the place of n.
LEMMA OneSpliced ==
  ASSUME TInv, NEW k, NEW at, NEW ends, IsTree(Tree, members, k, at, ends), NEW n \in members,
         ~TwoChildren(n), NEW bh, Balanced(Tree, members, colour, bh)
  PROVE  SplicedOut(SpliceOut(n), n, k, at)
<1> DEFINE x == IF link[n]["L"] = Nil THEN link[n]["R"] ELSE link[n]["L"]
           s == IF link[n]["L"] = Nil THEN "L" ELSE "R"
           r == Transplant(Tree, n, x)
<1>1. /\ SpliceOut(n).t = r /\ SpliceOut(n).x = x /\ SpliceOut(n).colour = colour
      /\ SpliceOut(n).black <=> colour[n] = "black"
  BY DEF SpliceOut
<1>2. Child(Tree, Nil, n, s) /\ Child(Tree, x, n, Opposite(s)) /\ s \in Sides
  BY DEF Child, Tree, TwoChildren, Sides, Opposite
<1>3. n \in Ptrs /\ x \in Ptrs /\ (colour[n] = "black" \/ colour[n] = "red")
  <2>1. n \in Ptrs /\ members \subseteq Ptrs BY DEF IsTree, Ptrs
  <2>2. x \in Ptrs
    <3>1. link[n]["L"] \in Ptrs /\ link[n]["R"] \in Ptrs BY <2>1, Reads DEF TInv, Dirs, Sides
    <3> QED BY <3>1
  <2> QED BY <2>1, <2>2 DEF TInv, TreeTyped, Colours
<1> HIDE DEF x, s
<1>4. Spliced(Tree, r, n, x) BY <1>3, TransplantLinks
<1> HIDE DEF r
<1>5. IsTree(r, members \ {n}, k - 1, AtMinus(members, at, n), EndsMinus(members, ends, at[n], n))
  <2>1. Tree.link[n][s] = Nil BY <1>2 DEF Child
  <2>2. x = Tree.link[n][Opposite(s)] BY <1>2 DEF Child
  <2> QED BY <1>2, <1>4, <2>1, <2>2, SpliceTree
<1>6. \A m \in members \ {n} :
        AtMinus(members, at, n)[m] = IF at[m] > at[n] THEN at[m] - 1 ELSE at[m]
  BY DEF AtMinus
<1>7. /\ colour[n] = "red" => Balanced(r, members \ {n}, colour, bh)
      /\ colour[n] # "red" => \E h, d : Owed(r, members \ {n}, colour, bh, x, h, d)
  BY <1>2, <1>4, PaintSplice
<1> QED BY <1>1, <1>3, <1>5, <1>6, <1>7 DEF SplicedOut

\* The splice.
LEMMA RemoveSpliceShape ==
  ASSUME IInv, TInv, CInv, TreeInv, NEW c \in CPUs, RemoveSplice(c)
  PROVE  TreeInv' /\ Leaves(arg[c])
<1>0. PICK n : n = arg[c] OBVIOUS
<1> DEFINE r == IF pc[c] = "minimum" THEN SpliceSuccessor(n, cur[c]) ELSE SpliceOut(n)
           l == IF r.black THEN "delfixup" ELSE "removed"
<1>1. PICK k, at, ends, bh :
        /\ IsTree(Tree, members, k, at, ends)
        /\ Placed(c, at, ends)
        /\ Mended(bh)
        /\ ~UpdateLinked => Sorting(at, ends)
  BY DEF TreeInv
<1>2. /\ pc[c] \in {"remove", "minimum"}
      /\ pc[c] = "remove" => ~TwoChildren(n)
      /\ pc[c] = "minimum" => link[cur[c]]["L"] = Nil
      /\ SetTree(r.t) /\ colour' = r.colour /\ members' = members \ {n} /\ fire' = fire
      /\ cur' = [cur EXCEPT ![c] = r.x]
      /\ pc' = [pc EXCEPT ![c] = l]
  BY <1>0 DEF RemoveSplice, Goto, node
<1>3. pc'[c] = l /\ cur'[c] = r.x /\ Holds(c)
  BY <1>2 DEF IInv, ControlTypeOK, TInv, CpusTyped, Holds
<1>4. Balanced(Tree, members, colour, bh) BY <1>1, <1>2, <1>3, Whole
<1>13. n \in members
  <2>1. CASE pc[c] = "minimum" BY <1>0, <1>1, <2>1 DEF Placed
  <2>2. CASE pc[c] = "remove"
    <3>1. call[c] = "remove" BY <2>2 DEF IInv, CallOK, RemoveSteps
    <3> QED BY <1>0, <2>2, <3>1 DEF CInv, MovesOK, Leaving
  <2> QED BY <1>2, <2>1, <2>2
<1>5. SplicedOut(r, n, k, at)
  <2>1. CASE pc[c] = "minimum"
    <3>1. /\ cur[c] \in members
          /\ TwoChildren(n)
          /\ ends[cur[c]]["L"] = at[n] + 1
      BY <1>0, <1>1, <2>1 DEF Placed
    <3>2. Succeeds(Tree, members, at, ends, n, cur[c])
      BY <1>2, <1>13, <2>1, <3>1 DEF Succeeds, Tree, TwoChildren
    <3>3. SplicedOut(SpliceSuccessor(n, cur[c]), n, k, at) BY <1>1, <1>4, <3>2, SuccessorSpliced
    <3> QED BY <2>1, <3>3
  <2>2. CASE pc[c] = "remove"
    <3>1. SplicedOut(SpliceOut(n), n, k, at) BY <1>1, <1>2, <1>4, <1>13, <2>2, OneSpliced
    <3> QED BY <2>2, <3>1
  <2> QED BY <1>2, <2>1, <2>2
<1> HIDE DEF r
<1>6. PICK a, e : /\ IsTree(r.t, members \ {n}, k - 1, a, e)
                  /\ \A m \in members \ {n} : a[m] = IF at[m] > at[n] THEN at[m] - 1 ELSE at[m]
  BY <1>5 DEF SplicedOut
<1>7. Tree' = r.t
  <2>1. r.t \in Trees BY <1>6 DEF IsTree
  <2> QED BY <1>2, <2>1 DEF SetTree, Tree, Trees
<1>8. IsTree(Tree', members', k - 1, a, e) BY <1>2, <1>6, <1>7
<1>9. Placed(c, a, e)' /\ Narrowed(c, a, e)' BY <1>3 DEF Placed, Narrowed
<1>10. ASSUME ~UpdateLinked PROVE InOrder(a)'
  <2>1. ASSUME NEW i \in members \ {n}, NEW j \in members \ {n}, a[i] < a[j]
        PROVE  fire[i] <= fire[j]
    <3>1. at[i] \in Int /\ at[j] \in Int /\ at[n] \in Int /\ at[i] # at[n] /\ at[j] # at[n]
      BY <1>1, <1>13 DEF IsTree, Ordered
    <3>2. at[i] < at[j] BY <1>6, <2>1, <3>1
    <3> QED BY <1>1, <1>10, <3>2 DEF Sorting, InOrder
  <2> QED BY <1>2, <2>1 DEF InOrder
<1>11. \E b : Mending(c, b)' /\ (l \notin {"fixup", "delfixup"} => Balanced(Tree', members', colour', b))
  <2>1. CASE r.black
    <3>1. PICK b, h, d : Owed(r.t, members \ {n}, r.colour, b, r.x, h, d)
      BY <1>5, <2>1 DEF SplicedOut
    <3>2. Owed(Tree', members', colour', b, cur'[c], h, d) BY <1>2, <1>3, <1>7, <3>1
    <3>3. pc'[c] = "delfixup" BY <1>3, <2>1
    <3>4. Mending(c, b)' BY <3>2, <3>3 DEF Mending
    <3> QED BY <2>1, <3>4
  <2>2. CASE ~r.black
    <3>1. PICK b : Balanced(r.t, members \ {n}, r.colour, b) BY <1>5, <2>2 DEF SplicedOut
    <3>2. Balanced(Tree', members', colour', b) BY <1>2, <1>7, <3>1
    <3>3. pc'[c] = "removed" BY <1>3, <2>2
    <3>4. Mending(c, b)' BY <3>3 DEF Mending
    <3> QED BY <3>2, <3>4
  <2> QED BY <2>1, <2>2
<1>12. PICK b : Mending(c, b)' /\ (l \notin {"fixup", "delfixup"} => Balanced(Tree', members', colour', b))
  BY <1>11
<1> HIDE DEF l
<1>14. TreeInv' BY <1>2, <1>3, <1>8, <1>9, <1>10, <1>12, Settled
<1>15. Leaves(n) BY <1>1, <1>2, <1>6, <1>8, <1>13 DEF Leaves
<1> QED BY <1>0, <1>14, <1>15


\* A rotation, and the places after it.
LEMMA TurnTree ==
  ASSUME NEW t, NEW S, NEW k, NEW at, NEW ends, IsTree(t, S, k, at, ends),
         NEW x \in S, NEW s \in Sides, t.link[x][Opposite(s)] # Nil
  PROVE  /\ Rotated(t, Rotate(t, x, s), x, s)
         /\ \E e : IsTree(Rotate(t, x, s), S, k, at, e)
<1> DEFINE r == Rotate(t, x, s)
           y == t.link[x][Opposite(s)]
<1>1. Rotated(t, r, x, s) BY RotateLinks
<1>2. y # Nil /\ y = t.link[x][Opposite(s)] OBVIOUS
<1> HIDE DEF r, y
<1>3. IsTree(r, S, k, at, [ends EXCEPT ![x][Opposite(s)] = at[y] + Way(s), ![y][s] = ends[x][s]])
  BY <1>1, <1>2, RotateTree
<1> QED BY <1>1, <1>3 DEF r

\* Where the repair of a removal is.
LEMMA AtDelfixup ==
  ASSUME TreeInv, NEW c \in CPUs, pc[c] = "delfixup"
  PROVE  \E k, at, ends, bh :
           /\ IsTree(Tree, members, k, at, ends)
           /\ ~UpdateLinked => InOrder(at)
           /\ \E h, d : /\ Owed(Tree, members, colour, bh, cur[c], h, d)
                        /\ ~Doubled(cur[c]) => h = Nil \/ colour[cur[c]] = "red"
           /\ Doubled(cur[c]) =>
                LET n == cur[c]  p == Parent(n)  s == SideOf(n)  w == Sibling(n) IN
                /\ Owed(Tree, members, colour, bh, n, p, s)
                /\ s \in Sides /\ p \in members /\ w \in members
                /\ Child(Tree, w, p, Opposite(s))
                /\ colour[n] # "red"
                /\ colour[w] # "black" <=> colour[w] = "red"
<1> DEFINE n == cur[c]
           p == Parent(n)
           s == SideOf(n)
           w == Sibling(n)
<1>1. PICK k, at, ends, bh :
        /\ IsTree(Tree, members, k, at, ends)
        /\ Mending(c, bh)
        /\ ~UpdateLinked => Sorting(at, ends)
  BY DEF TreeInv
<1>2. PICK h, d : Owed(Tree, members, colour, bh, n, h, d) BY <1>1 DEF Mending
<1>3. /\ n \in Ptrs /\ colour \in [Ptrs -> Colours] /\ colour[Nil] = "black"
      /\ h \in members \cup {Nil} /\ d \in Sides
      /\ h = p
      /\ h = Nil => root = n
      /\ h # Nil => link[h][d] = n
      /\ members \subseteq Ptrs
  <2>1. Hangs(Tree, members, n, h, d) /\ Painted(Tree, members, colour, bh, h, d, n, n)
    BY <1>2 DEF Owed
  <2>2. members \subseteq Ptrs /\ Nil \in Ptrs BY <1>1 DEF IsTree, Ptrs
  <2>3. colour \in [Ptrs -> Colours] /\ colour[Nil] = "black" BY <2>1 DEF Painted
  <2> QED BY <2>1, <2>2, <2>3 DEF Hangs, Tree, Parent
<1>4. \A m \in Ptrs : colour[m] = "red" <=> colour[m] # "black" BY <1>3 DEF Colours
<1>5. n = root => h = Nil
  <2> SUFFICES ASSUME n = root, h \in members PROVE FALSE BY <1>3
  <2>1. Tree.link[h][d] # Tree.root \/ Tree.root = Nil BY <1>1, <1>3, Family
  <2>2. link[h][d] = n /\ h # Nil BY <1>1, <1>3, SidesAre DEF IsTree
  <2>3. Tree.root = Nil BY <2>1, <2>2 DEF Tree
  <2> QED BY <1>1, <2>3 DEF IsTree, Rooted
<1>6. ~Doubled(n) => h = Nil \/ colour[n] = "red" BY <1>3, <1>4, <1>5 DEF Doubled
<1>7. ASSUME Doubled(n)
      PROVE  /\ Owed(Tree, members, colour, bh, n, p, s)
             /\ s \in Sides /\ p \in members /\ w \in members
             /\ Child(Tree, w, p, Opposite(s))
             /\ colour[n] # "red"
             /\ colour[w] # "black" <=> colour[w] = "red"
  <2>1. h # Nil /\ h \in members BY <1>3, <1>7 DEF Doubled
  <2> DEFINE v == link[h][Opposite(d)]
  <2>2. Child(Tree, v, h, Opposite(d)) BY DEF Child, Tree
  <2> HIDE DEF v
  <2>3. v \in members /\ v # n
    <3>1. PICK m : m = n OBVIOUS
    <3>2. Owed(Tree, members, colour, bh, m, h, d) BY <1>2, <3>1
    <3>3. \A x : Child(Tree, x, h, Opposite(d)) =>
                 /\ x \in members /\ x # m /\ x # h /\ h # m
                 /\ d \in Sides /\ m \in Ptrs
                 /\ Tree.link[h][d] = m
                 /\ bh[x] + Black(colour, h) = bh[h]
                 /\ bh[m] + 1 = bh[x]
                 /\ bh[m] \in Nat /\ bh[x] \in Nat
      <4> HIDE DEF p, s, w
      <4> QED BY <1>1, <2>1, <3>2, OwedSibling, ZenonT(60)
    <3> QED BY <2>2, <3>1, <3>3
  <2>4. s = d
    <3>1. link[h][Opposite(d)] # n /\ link[h][d] = n BY <1>3, <2>1, <2>3 DEF v
    <3>2. d = "L" \/ d = "R" BY <1>3 DEF Sides
    <3> QED BY <1>3, <3>1, <3>2 DEF SideOf, Opposite
  <2>5. w = v BY <1>3, <2>4 DEF Sibling, v
  <2> HIDE DEF p, s, w
  <2> QED BY <1>2, <1>3, <1>4, <1>7, <2>1, <2>2, <2>3, <2>4, <2>5 DEF Doubled
<1>8. ~UpdateLinked => InOrder(at) BY <1>1 DEF Sorting
<1> QED BY <1>1, <1>2, <1>6, <1>7, <1>8

\* A red sibling.
LEMMA DelFixupRedSiblingShape ==
  ASSUME IInv, TInv, TreeInv, NEW c \in CPUs, DelFixupRedSibling(c)
  PROVE  TreeInv' /\ OrderKept
<1>0. PICK n : n = cur[c] OBVIOUS
<1> DEFINE p == Parent(n)
           s == SideOf(n)
           w == Sibling(n)
<1>1. /\ pc[c] = "delfixup" /\ Doubled(n) /\ colour[w] = "red"
      /\ pc' = pc /\ cur' = cur /\ UNCHANGED <<members, fire>>
      /\ colour' = [colour EXCEPT ![w] = "black", ![p] = "red"]
      /\ SetTree(Rotate(Tree, p, s))
  BY <1>0 DEF DelFixupRedSibling, node
<1>2. PICK k, at, ends, bh :
           /\ IsTree(Tree, members, k, at, ends)
           /\ ~UpdateLinked => InOrder(at)
           /\ Owed(Tree, members, colour, bh, n, p, s)
           /\ s \in Sides /\ p \in members /\ w \in members
           /\ Child(Tree, w, p, Opposite(s))
           /\ colour[n] # "red"
  BY <1>0, <1>1, AtDelfixup
<1>3. pc' = [pc EXCEPT ![c] = "delfixup"] /\ pc'[c] = "delfixup" /\ cur'[c] = n
  BY <1>0, <1>1 DEF IInv, ControlTypeOK
<1> DEFINE r == Rotate(Tree, p, s)
<1> HIDE DEF p, s, w
<1>4. w # Nil BY <1>2, SidesAre DEF IsTree
<1>5. Tree.link[p][Opposite(s)] # Nil BY <1>2, <1>4 DEF Child
<1>6. Rotated(Tree, r, p, s) /\ \E e : IsTree(r, members, k, at, e) BY <1>2, <1>5, TurnTree
<1>7. PICK e : IsTree(r, members, k, at, e) BY <1>6
<1> HIDE DEF r
<1>8. Owed(r, members, [colour EXCEPT ![w] = "black", ![p] = "red"],
           [bh EXCEPT ![w] = bh[p], ![p] = bh[w]], n, p, s)
  BY <1>1, <1>2, <1>6, PaintRedSibling
<1>9. Tree' = r
  <2>1. r \in Trees BY <1>7 DEF IsTree
  <2> QED BY <1>1, <2>1 DEF SetTree, Tree, Trees, r
<1>10. PICK b, h, d : Owed(Tree', members', colour', b, cur'[c], h, d) BY <1>1, <1>3, <1>8, <1>9
<1>11. Mending(c, b)' BY <1>3, <1>10 DEF Mending
<1>12. IsTree(Tree', members', k, at, e) BY <1>1, <1>7, <1>9
<1>13. OrderKept BY <1>1, <1>2, <1>12 DEF OrderKept
<1>14. TreeInv' BY <1>1, <1>2, <1>3, <1>11, <1>12, Mends
<1> QED BY <1>13, <1>14

\* A black sibling with black children.
LEMMA DelFixupRecolourShape ==
  ASSUME IInv, TInv, TreeInv, NEW c \in CPUs, DelFixupRecolour(c)
  PROVE  TreeInv'
<1>0. PICK n : n = cur[c] OBVIOUS
<1> DEFINE p == Parent(n)
           s == SideOf(n)
           w == Sibling(n)
<1>1. /\ pc[c] = "delfixup" /\ Doubled(n) /\ colour[w] = "black"
      /\ \A e \in Sides : colour[link[w][e]] = "black"
      /\ pc' = pc /\ cur' = [cur EXCEPT ![c] = p] /\ UNCHANGED <<root, link, members, fire>>
      /\ colour' = [colour EXCEPT ![w] = "red"]
  BY <1>0 DEF DelFixupRecolour, node
<1>2. PICK k, at, ends, bh :
           /\ IsTree(Tree, members, k, at, ends)
           /\ ~UpdateLinked => InOrder(at)
           /\ Owed(Tree, members, colour, bh, n, p, s)
           /\ s \in Sides /\ p \in members /\ w \in members
           /\ Child(Tree, w, p, Opposite(s))
           /\ colour[n] # "red"
  BY <1>0, <1>1, AtDelfixup
<1>3. pc' = [pc EXCEPT ![c] = "delfixup"] /\ pc'[c] = "delfixup" /\ cur'[c] = p
  BY <1>0, <1>1 DEF IInv, ControlTypeOK, TInv, CpusTyped
<1>4. Tree' = Tree /\ Tree.link = link BY <1>1 DEF Tree
<1> HIDE DEF p, s, w
<1>5. \E g, d : Hangs(Tree, members, p, g, d)
  <2> DEFINE g == Tree.link[p]["P"]
  <2>1. /\ g = Nil <=> p = Tree.root
        /\ g # Nil => g \in members /\ \E e \in Sides : Tree.link[g][e] = p
    BY <1>2, Hanging
  <2>2. CASE g = Nil
    <3>1. Hangs(Tree, members, p, g, "L") BY <1>2, <2>1, <2>2 DEF Hangs, Sides
    <3> QED BY <3>1
  <2>3. CASE g # Nil
    <3>1. PICK e \in Sides : Tree.link[g][e] = p BY <2>1, <2>3
    <3>2. Hangs(Tree, members, p, g, e) BY <1>2, <2>1, <2>3, <3>1 DEF Hangs
    <3> QED BY <3>2
  <2> QED BY <2>2, <2>3
<1>6. PICK g, d : Hangs(Tree, members, p, g, d) BY <1>5
<1>7. /\ \A e \in Sides : colour[Tree.link[w][e]] # "red"
      /\ colour[w] # "red"
  BY <1>1, <1>4
<1>8. Owed(Tree, members, [colour EXCEPT ![w] = "red"], [bh EXCEPT ![w] = @ - 1, ![p] = @ - 1], p, g, d)
  BY <1>2, <1>6, <1>7, PaintUp
<1>9. PICK b : Owed(Tree', members', colour', b, cur'[c], g, d) BY <1>1, <1>3, <1>4, <1>8
<1>10. Mending(c, b)' BY <1>3, <1>9 DEF Mending
<1> QED BY <1>1, <1>2, <1>3, <1>4, <1>10, Mends

\* A black sibling with a red near child and a black far one.
LEMMA NearTurn ==
  ASSUME NEW t, NEW S, NEW k, NEW at, NEW ends, IsTree(t, S, k, at, ends),
         NEW col, NEW bh, NEW n, NEW p \in S, NEW s, Owed(t, S, col, bh, n, p, s), col[n] # "red",
         NEW w, Child(t, w, p, Opposite(s)), col[w] # "red",
         NEW v, Child(t, v, w, s), col[v] = "red", col[t.link[w][Opposite(s)]] # "red"
  PROVE  LET r == Rotate(t, w, Opposite(s)) IN
         /\ \E e : IsTree(r, S, k, at, e)
         /\ \E b : Owed(r, S, [col EXCEPT ![v] = "black", ![w] = "red"], b, n, p, s)
         /\ Child(r, v, p, Opposite(s))
         /\ Child(r, w, v, Opposite(s))
         /\ n # v /\ n # w /\ v # w /\ p # v
<1> DEFINE r == Rotate(t, w, Opposite(s))
<1>1. w \in S /\ s \in Sides BY OwedSibling, ZenonT(60)
<1>2. Opposite(s) \in Sides /\ Opposite(Opposite(s)) = s BY <1>1, SidesAre
<1>3. t.link[w][s] = v /\ v # Nil BY DEF Child, Owed, Painted
<1>4. t.link[w][Opposite(Opposite(s))] # Nil BY <1>2, <1>3
<1>5. Rotated(t, r, w, Opposite(s)) /\ \E e : IsTree(r, S, k, at, e)
  BY <1>1, <1>2, <1>4, TurnTree
<1> HIDE DEF r
<1>6. /\ Owed(r, S, [col EXCEPT ![v] = "black", ![w] = "red"],
              [bh EXCEPT ![v] = bh[w], ![w] = bh[v]], n, p, s)
      /\ Child(r, v, p, Opposite(s))
      /\ Child(r, w, v, Opposite(s))
      /\ n # v /\ n # w /\ v # w /\ p # v
  BY <1>5, PaintNear, SMTT(60)
<1> QED BY <1>5, <1>6 DEF r

\* A black sibling with a red far child.
LEMMA FarTurn ==
  ASSUME NEW t, NEW S, NEW k, NEW at, NEW ends, IsTree(t, S, k, at, ends),
         NEW col, NEW bh, NEW n, NEW p \in S, NEW s, Owed(t, S, col, bh, n, p, s), col[n] # "red",
         NEW w, Child(t, w, p, Opposite(s)), col[w] # "red",
         NEW f, Child(t, f, w, Opposite(s)), col[f] = "red"
  PROVE  LET r == Rotate(t, p, s) IN
         \E e, b : /\ IsTree(r, S, k, at, e)
                   /\ Balanced(r, S, [col EXCEPT ![w] = col[p], ![p] = "black", ![f] = "black"], b)
<1> DEFINE r == Rotate(t, p, s)
<1>1. w \in S /\ s \in Sides BY OwedSibling, ZenonT(60)
<1>2. w # Nil BY <1>1, SidesAre DEF IsTree
<1>3. t.link[p][Opposite(s)] # Nil BY <1>2 DEF Child
<1>4. Rotated(t, r, p, s) /\ \E e : IsTree(r, S, k, at, e) BY <1>1, <1>3, TurnTree
<1>5. PICK e : IsTree(r, S, k, at, e) BY <1>4
<1> HIDE DEF r
<1>6. \E b : Balanced(r, S, [col EXCEPT ![w] = col[p], ![p] = "black", ![f] = "black"], b)
  BY <1>4, <1>5, PaintFar
<1> QED BY <1>5, <1>6 DEF r

\* A tree with no black missing has none missing above its root.
LEMMA NoneOwed ==
  ASSUME NEW t, NEW S, NEW k, NEW at, NEW ends, IsTree(t, S, k, at, ends), NEW p \in S,
         NEW col, NEW bh, Balanced(t, S, col, bh)
  PROVE  Owed(t, S, col, bh, t.root, Nil, "L")
<1>1. t.root \in S /\ t.link[t.root]["P"] = Nil BY DEF IsTree, Rooted
<1>2. Hangs(t, S, t.root, Nil, "L") BY <1>1 DEF Hangs, Sides
<1>3. Painted(t, S, col, bh, Nil, "L", Nil, Nil) /\ col[Nil] # "red" BY DEF Balanced, Painted
<1>4. Painted(t, S, col, bh, Nil, "L", t.root, t.root) BY <1>3, NoException
<1> QED BY <1>2, <1>4 DEF Owed

\* A black sibling with a red child.
LEMMA DelFixupRotateShape ==
  ASSUME IInv, TInv, TreeInv, NEW c \in CPUs, DelFixupRotate(c)
  PROVE  TreeInv' /\ OrderKept
<1>0. PICK n : n = cur[c] OBVIOUS
<1> DEFINE p == Parent(n)
           s == SideOf(n)
           o == Opposite(s)
           w == Sibling(n)
           farBlack == colour[link[w][o]] = "black"
           t == IF farBlack THEN Rotate(Tree, w, o) ELSE Tree
           v == IF farBlack THEN link[w][s] ELSE w
           col == IF farBlack THEN [colour EXCEPT ![v] = "black", ![w] = "red"] ELSE colour
           f == t.link[v][o]
<1>1. /\ pc[c] = "delfixup" /\ Doubled(n) /\ colour[w] = "black"
      /\ \E d \in Sides : colour[link[w][d]] = "red"
      /\ pc' = pc /\ cur' = [cur EXCEPT ![c] = root'] /\ UNCHANGED <<members, fire>>
      /\ colour' = [col EXCEPT ![v] = col[p], ![p] = "black", ![f] = "black"]
      /\ SetTree(Rotate(t, p, s))
  BY <1>0 DEF DelFixupRotate, node
<1>2. PICK k, at, ends, bh :
           /\ IsTree(Tree, members, k, at, ends)
           /\ ~UpdateLinked => InOrder(at)
           /\ Owed(Tree, members, colour, bh, n, p, s)
           /\ s \in Sides /\ p \in members /\ w \in members
           /\ Child(Tree, w, p, Opposite(s))
           /\ colour[n] # "red"
  BY <1>0, <1>1, AtDelfixup
<1>3. pc' = [pc EXCEPT ![c] = "delfixup"] /\ pc'[c] = "delfixup" /\ cur'[c] = root'
  BY <1>0, <1>1 DEF IInv, ControlTypeOK, TInv, CpusTyped
<1>4. colour \in [Ptrs -> Colours] /\ \A d \in Sides : link[w][d] \in Ptrs
  <2>1. \A d \in Sides : Tree.link[w][d] \in Ptrs BY <1>2, Family DEF IsTree, Ptrs
  <2> QED BY <2>1 DEF TInv, TreeTyped, Tree
<1>5. /\ \E e, b : IsTree(t, members, k, at, e) /\ Owed(t, members, col, b, n, p, s)
      /\ Child(t, v, p, o) /\ col[v] # "red" /\ col[n] # "red" /\ col[f] = "red"
  <2>1. CASE farBlack
    <3> DEFINE r == Rotate(Tree, w, o)
               x == link[w][s]
    <3>1. t = r /\ v = x /\ col = [colour EXCEPT ![x] = "black", ![w] = "red"] BY <2>1
    <3>2. colour[x] = "red"
      <4>1. PICK d \in Sides : colour[link[w][d]] = "red" BY <1>1
      <4>2. d # o BY <2>1, <4>1
      <4>3. d = s \/ d = Opposite(s) BY <1>2, SidesAre
      <4> QED BY <4>1, <4>2, <4>3
    <3>3. Child(Tree, x, w, s) /\ colour[Tree.link[w][o]] # "red" BY <2>1 DEF Child, Tree
    <3>4. colour[w] # "red" BY <1>1
    <3> HIDE DEF p, s, w, x
    <3>5. /\ \E e : IsTree(r, members, k, at, e)
          /\ \E b : Owed(r, members, [colour EXCEPT ![x] = "black", ![w] = "red"], b, n, p, s)
          /\ Child(r, x, p, o)
          /\ Child(r, w, x, o)
          /\ n # x /\ n # w /\ x # w /\ p # x
      BY <1>2, <3>2, <3>3, <3>4, NearTurn
    <3>6. x \in Ptrs /\ w \in Ptrs /\ n \in Ptrs
      <4>1. w \in Ptrs /\ \A d \in Sides : link[w][d] \in Ptrs BY <1>2, <1>4 DEF IsTree, Ptrs
      <4>2. n \in Ptrs BY <1>0 DEF TInv, CpusTyped
      <4> QED BY <1>2, <4>1, <4>2 DEF x
    <3> DEFINE q == [colour EXCEPT ![x] = "black", ![w] = "red"]
    <3>7. q[x] = "black" /\ q[w] = "red" /\ q[n] = colour[n] BY <1>4, <3>5, <3>6
    <3> HIDE DEF r, q
    <3>8. r.link[x][o] = w BY <3>5 DEF Child
    <3>9. f = w BY <3>1, <3>8
    <3>10. \E b : Owed(r, members, q, b, n, p, s) BY <3>5 DEF q
    <3>11. col = q BY <3>1 DEF q
    <3> HIDE DEF t, v, col, f, farBlack, o
    <3> QED BY <1>2, <3>1, <3>5, <3>7, <3>9, <3>10, <3>11
  <2>2. CASE ~farBlack
    <3>1. t = Tree /\ v = w /\ col = colour BY <2>2
    <3>2. o \in Sides BY <1>2, SidesAre
    <3>3. f = link[w][o] BY <3>1 DEF Tree
    <3>4. colour[f] = "red" BY <1>4, <2>2, <3>2, <3>3 DEF Colours
    <3>5. colour[w] # "red" BY <1>1
    <3> HIDE DEF t, v, col, f, farBlack, p, s, w
    <3> QED BY <1>2, <3>1, <3>4, <3>5
  <2> QED BY <2>1, <2>2
<1>6. Child(t, f, v, o) BY DEF Child
<1> HIDE DEF t, v, col, f, farBlack, p, s, w
<1>7. PICK e0, b0 : IsTree(t, members, k, at, e0) /\ Owed(t, members, col, b0, n, p, s) BY <1>5
<1>8. PICK e, b : /\ IsTree(Rotate(t, p, s), members, k, at, e)
                  /\ Balanced(Rotate(t, p, s), members,
                              [col EXCEPT ![v] = col[p], ![p] = "black", ![f] = "black"], b)
  BY <1>2, <1>5, <1>6, <1>7, FarTurn
<1>9. Tree' = Rotate(t, p, s)
  <2>1. Rotate(t, p, s) \in Trees BY <1>8 DEF IsTree
  <2> QED BY <1>1, <2>1 DEF SetTree, Tree, Trees
<1>10. IsTree(Tree', members', k, at, e) /\ Balanced(Tree', members', colour', b)
  BY <1>1, <1>8, <1>9
<1>11. Owed(Tree', members', colour', b, (Tree').root, Nil, "L")
  <2>1. p \in members' BY <1>1, <1>2
  <2> QED BY <1>10, <2>1, NoneOwed
<1>12. (Tree').root = root' BY DEF Tree
<1>13. PICK h, d : Owed(Tree', members', colour', b, cur'[c], h, d) BY <1>3, <1>11, <1>12
<1>14. Mending(c, b)' BY <1>3, <1>13 DEF Mending
<1>15. OrderKept BY <1>1, <1>2, <1>10 DEF OrderKept
<1>16. TreeInv' BY <1>1, <1>2, <1>3, <1>10, <1>14, Mends
<1> QED BY <1>15, <1>16

\* The end of the repair.
LEMMA DelFixupDoneShape ==
  ASSUME IInv, TInv, TreeInv, NEW c \in CPUs, DelFixupDone(c)
  PROVE  TreeInv'
<1>0. PICK n : n = cur[c] OBVIOUS
<1>1. /\ pc[c] = "delfixup" /\ ~Doubled(n)
      /\ pc' = [pc EXCEPT ![c] = "removed"] /\ UNCHANGED <<root, link, members, fire>>
      /\ colour' = [colour EXCEPT ![n] = "black"]
  BY <1>0 DEF DelFixupDone, node, Goto
<1>2. PICK k, at, ends, bh :
           /\ IsTree(Tree, members, k, at, ends)
           /\ ~UpdateLinked => InOrder(at)
           /\ \E h, d : /\ Owed(Tree, members, colour, bh, n, h, d)
                        /\ h = Nil \/ colour[n] = "red"
  BY <1>0, <1>1, AtDelfixup
<1>3. PICK h, d : Owed(Tree, members, colour, bh, n, h, d) /\ (h = Nil \/ colour[n] = "red") BY <1>2
<1>4. PICK b : Balanced(Tree, members, [colour EXCEPT ![n] = "black"], b) BY <1>2, <1>3, PaintDone
<1>5. Tree' = Tree BY <1>1 DEF Tree
<1>6. Balanced(Tree', members', colour', b) BY <1>1, <1>4, <1>5
<1>7. Mending(c, b)'
  <2>1. pc'[c] = "removed" BY <1>1 DEF IInv, ControlTypeOK
  <2> QED BY <2>1 DEF Mending
<1> QED BY <1>1, <1>2, <1>5, <1>6, <1>7, Mends

----------------------------------------------------------------------------
(* The other calls                                                         *)

\* The search for the leftmost node.
LEMMA PickShape ==
  ASSUME IInv, TInv, TreeInv, NEW c \in CPUs, PickStart(c) \/ PickDescend(c) \/ PickDone(c)
  PROVE  TreeInv'
<1>1. PICK k, at, ends, bh :
        /\ IsTree(Tree, members, k, at, ends)
        /\ Placed(c, at, ends)
        /\ Mended(bh)
        /\ ~UpdateLinked => Sorting(at, ends)
  BY DEF TreeInv
<1>2. UNCHANGED <<root, link, colour, members, fire>>
  BY DEF PickStart, PickDescend, PickDone, tree, node
<1>3. \E l : /\ pc' = [pc EXCEPT ![c] = l] /\ pc'[c] = l
             /\ l \in {"leftmost", "release"} /\ pc[c] \in {"pick", "leftmost"}
             /\ Placed(c, at, ends)'
  <2>1. CASE PickStart(c)
    <3>1. /\ pc[c] = "pick" /\ pc' = [pc EXCEPT ![c] = "leftmost"] /\ pc'[c] = "leftmost"
          /\ root # Nil /\ cur'[c] = root
      BY <2>1 DEF PickStart, Goto, IInv, ControlTypeOK, TInv, CpusTyped
    <3>2. root \in members /\ ends[root]["L"] = 1 BY <1>1, <3>1 DEF IsTree, Rooted, Tree
    <3>3. Placed(c, at, ends)' BY <1>2, <3>1, <3>2 DEF Placed
    <3> QED BY <3>1, <3>3
  <2>2. CASE PickDescend(c)
    <3>1. /\ pc[c] = "leftmost" /\ pc' = [pc EXCEPT ![c] = "leftmost"] /\ pc'[c] = "leftmost"
          /\ link[cur[c]]["L"] # Nil /\ cur'[c] = link[cur[c]]["L"]
      BY <2>2 DEF PickDescend, IInv, ControlTypeOK, TInv, CpusTyped
    <3>2. cur[c] \in members /\ ends[cur[c]]["L"] = 1 BY <1>1, <3>1 DEF Placed
    <3>3. link[cur[c]]["L"] \in members /\ ends[link[cur[c]]["L"]]["L"] = ends[cur[c]]["L"]
      BY <1>1, <3>1, <3>2, Below
    <3>4. Placed(c, at, ends)' BY <1>2, <3>1, <3>2, <3>3 DEF Placed
    <3> QED BY <3>1, <3>4
  <2>3. CASE PickDone(c)
    <3>1. /\ pc[c] = "leftmost" /\ pc' = [pc EXCEPT ![c] = "release"] /\ pc'[c] = "release"
      BY <2>3 DEF PickDone, Goto, IInv, ControlTypeOK
    <3>2. Placed(c, at, ends)' BY <3>1 DEF Placed
    <3> QED BY <3>1, <3>2
  <2> QED BY <2>1, <2>2, <2>3
<1>4. PICK l : /\ pc' = [pc EXCEPT ![c] = l] /\ pc'[c] = l
               /\ l \in {"leftmost", "release"} /\ pc[c] \in {"pick", "leftmost"}
               /\ Placed(c, at, ends)'
  BY <1>3
<1>5. Holds(c) BY <1>4 DEF Holds
<1>6. Narrowed(c, at, ends)' BY <1>4 DEF Narrowed
<1>7. ~UpdateLinked => InOrder(at) /\ Narrowed(c, at, ends)' BY <1>1, <1>6 DEF Sorting
<1> QED BY <1>1, <1>2, <1>4, <1>5, <1>7, Searching

\* A new key for a node: unless callers update linked nodes it is none of the
\* tree's, and the links and colours stand whatever the keys.
LEMMA UpdateShape ==
  ASSUME IInv, TInv, TreeInv, OwnInv, NEW c \in CPUs, Update(c)
  PROVE  TreeInv'
<1>1. PICK k, at, ends, bh :
        /\ IsTree(Tree, members, k, at, ends)
        /\ Mended(bh)
        /\ ~UpdateLinked => Sorting(at, ends)
  BY DEF TreeInv
<1>2. /\ pc[c] = "update" /\ pc' = [pc EXCEPT ![c] = "updated"] /\ pc'[c] = "updated"
      /\ UNCHANGED <<root, link, colour, members>>
      /\ \A m \in Blocks : m # arg[c] => fire'[m] = fire[m]
  BY DEF Update, Goto, tree, IInv, ControlTypeOK, TInv, NodesTyped
<1>3. Tree' = Tree /\ Holds(c) BY <1>2 DEF Tree, Holds
<1>4. Balanced(Tree, members, colour, bh) BY <1>1, <1>2, <1>3, Whole
<1>5. IsTree(Tree', members', k, at, ends) /\ Balanced(Tree', members', colour', bh)
  BY <1>1, <1>2, <1>3, <1>4
<1>6. Placed(c, at, ends)' /\ Mending(c, bh)' /\ Narrowed(c, at, ends)'
  BY <1>2 DEF Placed, Mending, Narrowed
<1>7. ASSUME ~UpdateLinked PROVE InOrder(at)'
  <2>1. call[c] = "update" BY <1>2 DEF IInv, CallOK
  <2>2. arg[c] \notin members /\ members \subseteq Blocks
    BY <1>7, <2>1 DEF OwnInv, TInv, TreeTyped
  <2>3. \A m \in members : fire'[m] = fire[m] BY <1>2, <2>2
  <2> QED BY <1>1, <1>2, <1>7, <2>3 DEF Sorting, InOrder
<1> QED BY <1>2, <1>3, <1>5, <1>6, <1>7, Settled

\* A CPU that moves between steps that leave the tree alone.
LEMMA Aside ==
  ASSUME TreeInv, UNCHANGED <<root, link, colour, members, fire>>, NEW c \in CPUs,
         pc[c] \notin Placing, pc'[c] \notin Placing,
         \A d \in CPUs : d # c => /\ pc'[d] = pc[d] /\ cur'[d] = cur[d]
                                  /\ par'[d] = par[d] /\ arg'[d] = arg[d]
  PROVE  TreeInv'
BY TreeRest

\* The steps that change no link and no colour keep the invariant of the tree.
LEMMA AsideShape ==
  ASSUME IInv, TInv, TreeInv, NEW c \in CPUs,
         \/ Acquire(c) \/ RemoveDone(c) \/ PickEmpty(c) \/ UpdateRelease(c) \/ Finish(c)
         \/ FinishUpdate(c) \/ Tune(c) \/ Release(c)
         \/ \E f \in Calls, n \in Ptrs : Call(c, f, n)
  PROVE  TreeInv'
<1>1. UNCHANGED <<root, link, colour, members, fire>>
  BY DEF Acquire, SpinLock, RemoveDone, PickEmpty, UpdateRelease, Finish, FinishUpdate, Tune,
         Release, Call, tree, node
<1>2. /\ pc[c] \notin Placing /\ pc'[c] \notin Placing
      /\ \A d \in CPUs : d # c => pc'[d] = pc[d]
  <2>1. pc \in [CPUs -> Steps] /\ (pc[c] = "acquire" => call[c] \in CallNames)
    BY DEF IInv, ControlTypeOK, CallOK
  <2>2. CASE Acquire(c) BY <2>1, <2>2 DEF Acquire, SpinLock, Goto, Placing, CallNames
  <2>3. CASE RemoveDone(c) \/ PickEmpty(c) \/ Finish(c) \/ FinishUpdate(c) \/ Tune(c)
    BY <2>1, <2>3 DEF RemoveDone, PickEmpty, Finish, FinishUpdate, SpinLock, Tune, Goto, Placing
  <2>4. CASE UpdateRelease(c) \/ Release(c)
    BY <2>1, <2>4 DEF UpdateRelease, Release, Return, Goto, Placing
  <2>5. CASE \E f \in Calls, n \in Ptrs : Call(c, f, n) BY <2>1, <2>5 DEF Call, Placing
  <2> QED BY <2>2, <2>3, <2>4, <2>5
<1>3. \A d \in CPUs : d # c => cur'[d] = cur[d] /\ par'[d] = par[d] /\ arg'[d] = arg[d]
  <2>1. arg \in [CPUs -> Ptrs] /\ cur \in [CPUs -> Ptrs] /\ par \in [CPUs -> Ptrs]
    BY DEF TInv, CpusTyped
  <2> QED BY <2>1 DEF Acquire, SpinLock, RemoveDone, PickEmpty, UpdateRelease, Finish, FinishUpdate,
                      Tune, Release, Return, Call
<1> QED BY <1>1, <1>2, <1>3, Aside

\* Creating a node writes to a block that is not in the tree, nor on its way
\* there, unless the allocation failed.
LEMMA OutsideShape ==
  ASSUME ~AllocFails, IInv, TInv, TreeInv, OwnInv,
         Tick \/ (\E e \in Entities : NodeCreate(e)) \/ UNCHANGED vars
  PROVE  TreeInv'
<1>1. UNCHANGED <<root, link, colour, members, cpu>> BY DEF Tick, NodeCreate, vars, tree
<1>2. \A n \in Blocks : owner[n] # None => fire'[n] = fire[n]
  BY DEF Tick, NodeCreate, vars, node, TInv, NodesTyped
<1>3. \A m \in members : fire'[m] = fire[m] BY <1>2 DEF OwnInv, TInv, TreeTyped
<1>4. \A d \in CPUs : pc[d] = "descend" => fire'[arg[d]] = fire[arg[d]]
  BY <1>2 DEF OwnInv, IInv, CallOK, InsertSteps, TInv, CpusTyped
<1> QED BY <1>1, <1>3, <1>4, TreeRest DEF cpu

----------------------------------------------------------------------------
(* Every step                                                              *)

\* A step that links no node and starts no call.
LEMMA OwnSame ==
  ASSUME OwnInv, members' \subseteq members, \A n : owner[n] # None => owner'[n] # None,
         \A c \in CPUs : call'[c] = "none" \/ (call'[c] = call[c] /\ arg'[c] = arg[c])
  PROVE  OwnInv'
BY DEF OwnInv

\* A call that starts keeps the owners of the members.
LEMMA OwnCall ==
  ASSUME IInv, TInv, OwnInv, NEW c \in CPUs, NEW f \in Calls, NEW n \in Ptrs, Call(c, f, n)
  PROVE  OwnInv'
<1>1. /\ Callable(c, f, n)
      /\ UNCHANGED <<members, owner>>
      /\ call'[c] = f /\ arg'[c] = n
      /\ \A d \in CPUs : d # c => call'[d] = call[d] /\ arg'[d] = arg[d]
  BY DEF Call, tree, node, IInv, ControlTypeOK, TInv, CpusTyped
<1>2. f = "insert" => /\ owner[n] # None
                      /\ ~UpdateLinked => \A d \in CPUs : call[d] = "update" => arg[d] # n
  BY <1>1 DEF Callable, Using, Exclusive
<1>3. f = "update" /\ ~UpdateLinked =>
        /\ n \notin members
        /\ \A d \in CPUs : call[d] = "insert" => arg[d] # n
  BY <1>1 DEF Callable, Using, Exclusive
<1> QED BY <1>1, <1>2, <1>3 DEF OwnInv

\* Every step keeps the owners of the members.
LEMMA OwnStep ==
  ASSUME IInv, TInv, CInv, OwnInv, [Next]_vars
  PROVE  OwnInv'
<1>1. ASSUME NEW c \in CPUs, InsertLink(c) PROVE OwnInv'
  <2>1. members' = members \cup {arg[c]} /\ UNCHANGED <<owner, call, arg>>
    BY <1>1 DEF InsertLink, node
  <2>2. call[c] = "insert" BY <1>1 DEF InsertLink, IInv, CallOK, InsertSteps
  <2> QED BY <2>1, <2>2 DEF OwnInv
<1>2. ASSUME NEW c \in CPUs, Step(c), ~InsertLink(c) PROVE OwnInv'
  <2>1. members' \subseteq members /\ owner' = owner
    BY <1>2 DEF Step, Acquire, SpinLock, Insert, Remove, Pick, Update, UpdateRelease, Finish,
                FinishUpdate, Tune, Release, InsertStart, InsertDescend, FixupRecolour, FixupRotate,
                InsertDone, RemoveSearch, RemoveDescend, RemoveSplice, RemoveDone,
                DelFixupRedSibling, DelFixupRecolour, DelFixupRotate, DelFixupDone,
                PickEmpty, PickStart, PickDescend, PickDone, tree, node
  <2>2. \A d \in CPUs : call'[d] = "none" \/ (call'[d] = call[d] /\ arg'[d] = arg[d])
    <3>1. CASE Release(c) \/ UpdateRelease(c)
      BY <3>1 DEF Release, UpdateRelease, Return, IInv, ControlTypeOK, TInv, CpusTyped
    <3>2. CASE ~(Release(c) \/ UpdateRelease(c))
      <4>1. UNCHANGED <<call, arg>>
        BY <1>2, <3>2 DEF Step, Acquire, SpinLock, Insert, Remove, Pick, Update, Finish,
                FinishUpdate, Tune, InsertStart, InsertDescend, FixupRecolour, FixupRotate,
                InsertDone, RemoveSearch, RemoveDescend, RemoveSplice, RemoveDone,
                DelFixupRedSibling, DelFixupRecolour, DelFixupRotate, DelFixupDone,
                PickEmpty, PickStart, PickDescend, PickDone
      <4> QED BY <4>1
    <3> QED BY <3>1, <3>2
  <2> QED BY <2>1, <2>2, OwnSame
<1>3. ASSUME NEW e \in Entities, NodeCreate(e) PROVE OwnInv'
  <2>1. UNCHANGED <<members, call, arg>> BY <1>3 DEF NodeCreate, tree, cpu
  <2>2. \A n : owner[n] # None => owner'[n] # None
    BY <1>3, BlocksAssumption DEF NodeCreate, TInv, NodesTyped
  <2> QED BY <2>1, <2>2, OwnSame
<1>4. CASE Tick \/ UNCHANGED vars
  <2>1. UNCHANGED <<members, call, arg, owner>> BY <1>4 DEF Tick, vars, tree, cpu, node
  <2> QED BY <2>1, OwnSame
<1> QED BY <1>1, <1>2, <1>3, <1>4, OwnCall DEF Next

\* Every step of a call keeps the tree.
LEMMA StepShape ==
  ASSUME IInv, TInv, CInv, TreeInv, OwnInv, NEW c \in CPUs, Step(c)
  PROVE  TreeInv'
<1>1. CASE Insert(c)
  BY <1>1, InsertStartShape, InsertDescendShape, InsertLinkShape, FixupRecolourShape,
     FixupRotateShape, InsertDoneShape DEF Insert
<1>2. CASE Remove(c)
  BY <1>2, RemoveSearchShape, RemoveSpliceShape, AsideShape, DelFixupRedSiblingShape,
     DelFixupRecolourShape, DelFixupRotateShape, DelFixupDoneShape DEF Remove
<1>3. CASE Pick(c) BY <1>3, AsideShape, PickShape DEF Pick
<1>4. CASE Update(c) BY <1>4, UpdateShape
<1> QED BY <1>1, <1>2, <1>3, <1>4, AsideShape DEF Step

\* The empty tree.
LEMMA TreeStart == Init => TreeInv /\ OwnInv
<1> SUFFICES ASSUME Init PROVE TreeInv /\ OwnInv OBVIOUS
<1> DEFINE at == [n \in {} |-> 0]
           ends == [n \in {} |-> [s \in Sides |-> 0]]
           bh == [n \in Ptrs |-> 0]
<1>1. /\ members = {} /\ root = Nil /\ Tree.root = Nil /\ colour = [n \in Ptrs |-> "black"]
      /\ \A c \in CPUs : pc[c] = "idle" /\ call[c] = "none"
  BY DEF Init, InitWith, Tree
<1>2. Tree \in Trees BY DEF Init, InitWith, Tree, Trees, Dirs, Ptrs
<1>3. IsTree(Tree, {}, 0, at, ends)
  <2>1. Ordered({}, 0, at) BY DEF Ordered
  <2>2. Spans({}, at, ends) BY DEF Spans
  <2>3. Rooted(Tree, {}, 0, ends) BY <1>1 DEF Rooted
  <2> QED BY <1>2, <2>1, <2>2, <2>3 DEF IsTree
<1>4. Balanced(Tree, {}, colour, bh)
  <2>1. Nil \in Ptrs BY DEF Ptrs
  <2>2. colour \in [Ptrs -> Colours] /\ colour[Nil] = "black" BY <1>1, <2>1 DEF Colours
  <2>3. bh \in [Ptrs -> Nat] /\ bh[Nil] = 0 BY <2>1
  <2>4. Evenly(Tree, {}, colour, bh, Nil, "L") /\ RedsApart(Tree, {}, colour, Nil, Nil)
    BY DEF Evenly, RedsApart
  <2> QED BY <1>1, <2>2, <2>3, <2>4 DEF Balanced, Painted
<1>5. \A c \in CPUs : Placed(c, at, ends) /\ Mending(c, bh) /\ Narrowed(c, at, ends)
  BY <1>1 DEF Placed, Mending, Narrowed
<1>6. Mended(bh) BY <1>1, <1>4 DEF Mended
<1>7. Sorting(at, ends) BY <1>1, <1>5 DEF Sorting, InOrder
<1>8. TreeInv
  <2>1. IsTree(Tree, members, 0, at, ends) BY <1>1, <1>3
  <2> HIDE DEF at, ends, bh
  <2> QED BY <1>5, <1>6, <1>7, <2>1 DEF TreeInv
<1>9. OwnInv BY <1>1 DEF OwnInv
<1> QED BY <1>8, <1>9

\* Whatever insertions, removals, picks and updates the CPUs make, and at each
\* step of each of them, the nodes inserted and not removed form one tree of
\* which every member is in one place; each call is where its search or repair
\* ought to be in it; the colours are those of a red-black tree, but for the one
\* place a repair is at; and unless callers update nodes in the tree, the
\* members are in the order of their keys.  An allocation that failed would
\* break this: bk_sched_node_create would reset the key of the block at the
\* kernel base, without the lock, while that block is being inserted.
THEOREM TreeKept == ASSUME ~AllocFails PROVE Spec => [](TreeInv /\ OwnInv)
<1>1. Init => TreeInv /\ OwnInv BY TreeStart
<1>2. ASSUME IInv, TInv, CInv, TreeInv, OwnInv, [Next]_vars PROVE (TreeInv /\ OwnInv)'
  <2>1. OwnInv' BY <1>2, OwnStep
  <2>2. TreeInv' BY <1>2, StepShape, AsideShape, OutsideShape DEF Next
  <2> QED BY <2>1, <2>2
<1> QED BY <1>1, <1>2, Control, Typed, MembersCounted, PTL DEF Spec

----------------------------------------------------------------------------
(* Definitions by recursion                                                *)

\* A set of numbers that is not empty has a least one.
LEMMA LeastNumber ==
  ASSUME NEW S \in SUBSET Nat, S # {}
  PROVE  \E l \in S : \A m \in S : ~(m < l)
<1>1. PICK l \in S : \A m \in S : ~(<<m, l>> \in OpToRel(<, Nat))
  BY NatLessThanWellFounded, WFMin
<1>2. \A m \in S : ~(m < l) BY <1>1 DEF OpToRel
<1> QED BY <1>2

\* Induction over the members of a set of numbers.
LEMMA Climbs ==
  ASSUME NEW P, 0 \in P, \A d \in Nat : d \in P => d + 1 \in P
  PROVE  \A d \in Nat : d \in P
<1> DEFINE B == {d \in Nat : d \notin P}
<1> SUFFICES ASSUME B # {} PROVE FALSE OBVIOUS
<1>1. PICK l \in B : \A m \in B : ~(m < l) BY LeastNumber
<1>2. l \in Nat /\ l # 0 /\ l - 1 \in Nat /\ l - 1 < l BY <1>1
<1>3. l - 1 \notin B BY <1>1, <1>2
<1>4. l - 1 \in P /\ (l - 1) + 1 = l BY <1>2, <1>3
<1>5. l \in P BY <1>2, <1>4
<1> QED BY <1>1, <1>5

\* A function that starts with a and goes on with F.
Iterates(f, C, F, a) == f[0] = a /\ \A d \in 1..C : f[d] = F[f[d - 1]]

\* A function that applies F over and over exists, as far as C steps.
LEMMA IterateExists ==
  ASSUME NEW D, NEW F \in [D -> D], NEW a \in D, NEW C \in Nat
  PROVE  \E f \in [0..C -> D] : Iterates(f, C, F, a)
<1> DEFINE P == {c \in Nat : \E f \in [0..c -> D] : Iterates(f, c, F, a)}
<1>1. 0 \in P
  <2> DEFINE f == [d \in 0..0 |-> a]
  <2>1. f \in [0..0 -> D] /\ Iterates(f, 0, F, a) BY DEF Iterates
  <2> QED BY <2>1
<1>2. ASSUME NEW c \in Nat, c \in P PROVE c + 1 \in P
  <2>1. PICK g \in [0..c -> D] : Iterates(g, c, F, a) BY <1>2
  <2> DEFINE f == [d \in 0..(c + 1) |-> IF d = c + 1 THEN F[g[c]] ELSE g[d]]
  <2>2. c \in 0..c /\ \A d \in 0..(c + 1) : d = c + 1 \/ d \in 0..c OBVIOUS
  <2>3. f \in [0..(c + 1) -> D] BY <2>2
  <2>4. f[0] = a BY <2>1 DEF Iterates
  <2>5. ASSUME NEW d \in 1..(c + 1) PROVE f[d] = F[f[d - 1]]
    <3>1. d - 1 \in 0..c /\ f[d - 1] = g[d - 1] OBVIOUS
    <3>2. CASE d = c + 1 BY <3>1, <3>2
    <3>3. CASE d # c + 1
      <4>1. d \in 1..c /\ f[d] = g[d] BY <3>3
      <4>2. g[d] = F[g[d - 1]] BY <2>1, <4>1 DEF Iterates
      <4> QED BY <3>1, <4>1, <4>2
    <3> QED BY <3>2, <3>3
  <2>6. Iterates(f, c + 1, F, a) BY <2>4, <2>5 DEF Iterates
  <2> HIDE DEF f
  <2> QED BY <2>3, <2>6
<1> HIDE DEF P
<1>3. C \in P BY <1>1, <1>2, Climbs
<1> QED BY <1>3 DEF P

----------------------------------------------------------------------------
(* The number of members                                                   *)

\* There are finitely many blocks.
LEMMA BlocksFinite == IsFiniteSet(Blocks) /\ Cardinality(Blocks) \in Nat
<1>1. IsFiniteSet(Blocks) BY BlocksAssumption, FS_AddElement DEF Blocks
<1> QED BY <1>1, FS_CardinalityType

\* The places are counted by the members.
LEMMA PlacesCount ==
  ASSUME NEW S, NEW k, NEW at, Ordered(S, k, at), S \subseteq Blocks
  PROVE  k = Cardinality(S) /\ k <= Cardinality(Blocks)
<1> DEFINE g == [i \in 1..k |-> CHOOSE n \in S : at[n] = i]
<1>1. k \in Nat /\ \A i \in 1..k : g[i] \in S /\ at[g[i]] = i BY DEF Ordered
<1>2. \A n \in S : at[n] \in 1..k /\ g[at[n]] = n BY <1>1 DEF Ordered
<1>3. g \in [1..k -> S] BY <1>1
<1> HIDE DEF g
<1>4. g \in Bijection(1..k, S)
  <2>1. g \in Injection(1..k, S) BY <1>1, <1>3 DEF Injection, IsInjective
  <2>2. g \in Surjection(1..k, S) BY <1>2, <1>3 DEF Surjection
  <2> QED BY <2>1, <2>2 DEF Bijection
<1>5. ExistsBijection(1..k, S) BY <1>4 DEF ExistsBijection
<1>6. Cardinality(S) = k BY <1>1, <1>5, FS_CountingElements
<1> QED BY <1>6, BlocksFinite, FS_Subset

----------------------------------------------------------------------------
(* The in-order walk                                                       *)

\* q lists the members of S with the places from l to r.
Lists(S, at, q, l, r) ==
  /\ q \in Seq(S)
  /\ Len(q) = r - l + 1
  /\ \A i \in 1..Len(q) : at[q[i]] = l + i - 1

\* No node lies on an empty span.
LEMMA ListNone ==
  ASSUME NEW S, NEW at, NEW l \in Int, NEW r \in Int, r = l - 1
  PROVE  Lists(S, at, <<>>, l, r)
BY EmptySeq DEF Lists

\* A sequence around an element.
LEMMA AroundOne ==
  ASSUME NEW S, NEW a \in Seq(S), NEW n \in S, NEW b \in Seq(S)
  PROVE  LET q == a \o <<n>> \o b IN
         /\ q \in Seq(S)
         /\ Len(q) = Len(a) + 1 + Len(b)
         /\ Len(a) \in Nat /\ Len(b) \in Nat
         /\ \A i \in 1..Len(a) : q[i] = a[i]
         /\ q[Len(a) + 1] = n
         /\ \A i \in 1..Len(b) : q[Len(a) + 1 + i] = b[i]
<1> DEFINE c == a \o <<n>>
           q == c \o b
<1>1. <<n>> \in Seq(S) /\ Len(<<n>>) = 1 /\ <<n>>[1] = n OBVIOUS
<1>2. Len(a) \in Nat /\ Len(b) \in Nat BY LenProperties
<1>3. /\ c \in Seq(S) /\ Len(c) = Len(a) + Len(<<n>>)
      /\ \A i \in 1..Len(a) + Len(<<n>>) : c[i] = IF i <= Len(a) THEN a[i] ELSE <<n>>[i - Len(a)]
  BY <1>1, ConcatProperties
<1> HIDE DEF c
<1>4. /\ q \in Seq(S) /\ Len(q) = Len(c) + Len(b)
      /\ \A i \in 1..Len(c) + Len(b) : q[i] = IF i <= Len(c) THEN c[i] ELSE b[i - Len(c)]
  <2>1. b \in Seq(S) /\ c \in Seq(S) BY <1>3
  <2> QED BY <2>1, ConcatProperties
<1> HIDE DEF q
<1>5. /\ Len(c) = Len(a) + 1 /\ c[Len(a) + 1] = n
      /\ \A i \in 1..Len(a) : c[i] = a[i]
  BY <1>1, <1>2, <1>3
<1>6. Len(q) = Len(a) + 1 + Len(b) BY <1>2, <1>4, <1>5
<1>7. \A i \in 1..Len(a) : q[i] = a[i] BY <1>2, <1>4, <1>5
<1>8. q[Len(a) + 1] = n BY <1>2, <1>4, <1>5
<1>9. ASSUME NEW i \in 1..Len(b) PROVE q[Len(a) + 1 + i] = b[i]
  <2> DEFINE j == Len(a) + 1 + i
  <2>1. j \in 1..Len(c) + Len(b) /\ ~(j <= Len(c)) /\ j - Len(c) = i BY <1>2, <1>5
  <2> HIDE DEF j
  <2>2. q[j] = b[i] BY <1>4, <2>1
  <2> QED BY <2>2 DEF j
<1> QED BY <1>2, <1>4, <1>6, <1>7, <1>8, <1>9 DEF q, c

\* The lists of the places before n and behind it, joined by n, list them all.
LEMMA JoinLists ==
  ASSUME NEW S, NEW at, NEW l \in Int, NEW r \in Int, NEW n \in S, at[n] \in Int,
         NEW a, Lists(S, at, a, l, at[n] - 1), NEW b, Lists(S, at, b, at[n] + 1, r)
  PROVE  Lists(S, at, a \o <<n>> \o b, l, r)
<1> DEFINE q == a \o <<n>> \o b
<1>1. a \in Seq(S) /\ b \in Seq(S) BY DEF Lists
<1>2. /\ q \in Seq(S)
      /\ Len(q) = Len(a) + 1 + Len(b)
      /\ Len(a) \in Nat /\ Len(b) \in Nat
      /\ \A i \in 1..Len(a) : q[i] = a[i]
      /\ q[Len(a) + 1] = n
      /\ \A i \in 1..Len(b) : q[Len(a) + 1 + i] = b[i]
  BY <1>1, AroundOne
<1> HIDE DEF q
<1>3. /\ Len(a) = at[n] - l
      /\ Len(b) = r - at[n]
  <2>1. Len(a) = at[n] - 1 - l + 1 /\ Len(b) = r - (at[n] + 1) + 1 BY DEF Lists
  <2> QED BY <2>1
<1>4. Len(q) = r - l + 1 BY <1>2, <1>3, SMTT(30)
<1>5. ASSUME NEW i \in 1..Len(q) PROVE at[q[i]] = l + i - 1
  <2>0. i \in Int /\ i >= 1 /\ i <= Len(a) + 1 + Len(b) BY <1>2
  <2>1. CASE i <= Len(a)
    <3>1. i \in 1..Len(a) BY <1>2, <2>0, <2>1
    <3>2. q[i] = a[i] /\ at[a[i]] = l + i - 1 BY <1>2, <3>1 DEF Lists
    <3> QED BY <3>2
  <2>2. CASE i = Len(a) + 1
    <3>1. q[i] = n BY <1>2, <2>2
    <3>2. l + i - 1 = at[n] BY <1>3, <2>2, SMTT(30)
    <3> QED BY <3>1, <3>2
  <2>3. CASE i > Len(a) + 1
    <3>1. PICK j \in 1..Len(b) : i = Len(a) + 1 + j
      <4>1. i - Len(a) - 1 \in 1..Len(b) BY <1>2, <2>0, <2>3
      <4>2. i = Len(a) + 1 + (i - Len(a) - 1) BY <1>2, <2>0
      <4> QED BY <4>1, <4>2
    <3>2. q[i] = b[j] /\ at[b[j]] = at[n] + 1 + j - 1 BY <1>2, <3>1 DEF Lists
    <3>3. l + i - 1 = at[n] + 1 + j - 1
      <4>1. PICK v \in Int : v = at[n] OBVIOUS
      <4>2. Len(a) = v - l /\ j \in Int BY <1>2, <1>3, <4>1
      <4>3. i = v - l + 1 + j BY <3>1, <4>1, <4>2
      <4>4. l + i - 1 = v + 1 + j - 1 BY <4>2, <4>3
      <4> QED BY <4>1, <4>4
    <3> QED BY <3>2, <3>3
  <2> QED BY <1>2, <2>0, <2>1, <2>2, <2>3
<1> QED BY <1>2, <1>4, <1>5 DEF Lists, q

\* The walks to every depth.
AreWalks(w) ==
  w = [d \in 0..Cardinality(Blocks) |-> IF d = 0 THEN [n \in Ptrs |-> <<>>] ELSE WalksOver(w[d - 1])]

\* The walks of the tree, which Shape is stated with, exist at every depth.
LEMMA WalksExist == ASSUME TInv PROVE \E w : AreWalks(w)
<1> DEFINE C == Cardinality(Blocks)
           D == [Ptrs -> Seq(Blocks)]
           F == [v \in D |-> WalksOver(v)]
           a == [n \in Ptrs |-> <<>>]
<1>1. C \in Nat BY BlocksFinite
<1>2. a \in D BY EmptySeq
<1>3. ASSUME NEW v \in D PROVE WalksOver(v) \in D
  <2>1. ASSUME NEW n \in Ptrs, n # Nil PROVE v[link[n]["L"]] \o <<n>> \o v[link[n]["R"]] \in Seq(Blocks)
    <3>1. v[link[n]["L"]] \in Seq(Blocks) /\ v[link[n]["R"]] \in Seq(Blocks)
      <4>1. link[n]["L"] \in Ptrs /\ link[n]["R"] \in Ptrs BY Reads DEF TInv, Dirs, Sides
      <4> QED BY <4>1
    <3>2. <<n>> \in Seq(Blocks) BY <2>1 DEF Ptrs
    <3> QED BY <3>1, <3>2, ConcatProperties
  <2>2. \A n \in Ptrs : (IF n = Nil THEN <<>> ELSE v[link[n]["L"]] \o <<n>> \o v[link[n]["R"]]) \in Seq(Blocks)
    BY <2>1, EmptySeq
  <2> QED BY <2>2 DEF WalksOver
<1>4. F \in [D -> D] BY <1>3
<1> HIDE DEF C, D, F, a
<1>5. PICK w \in [0..C -> D] : Iterates(w, C, F, a) BY <1>1, <1>2, <1>4, IterateExists
<1>6. \A d \in 1..C : d - 1 \in 0..C /\ w[d] = F[w[d - 1]] BY <1>1, <1>5 DEF Iterates
<1>7. \A d \in 1..C : w[d] = WalksOver(w[d - 1]) BY <1>5, <1>6 DEF F
<1>8. w[0] = a BY <1>5 DEF Iterates
<1>9. w = [d \in 0..C |-> IF d = 0 THEN a ELSE WalksOver(w[d - 1])]
  <2>1. \A d \in 0..C : d = 0 \/ d \in 1..C BY <1>1
  <2> QED BY <1>5, <1>7, <1>8, <2>1
<1> QED BY <1>9 DEF AreWalks, C, a

\* What is known of the walks.
LEMMA WalksAre ==
  ASSUME TInv
  PROVE  \E w : /\ Walk = w[Cardinality(Blocks)][root]
                /\ \A n \in Ptrs : w[0][n] = <<>>
                /\ \A d \in 1..Cardinality(Blocks), n \in Ptrs :
                     w[d][n] = IF n = Nil THEN <<>>
                               ELSE w[d - 1][link[n]["L"]] \o <<n>> \o w[d - 1][link[n]["R"]]
<1> DEFINE C == Cardinality(Blocks)
           w == CHOOSE v : AreWalks(v)
<1>1. AreWalks(w) BY WalksExist
<1>2. Walk = w[C][root] BY DEF Walk, AreWalks
<1> HIDE DEF w
<1>3. C \in Nat BY BlocksFinite
<1>4. \A d \in 0..C : w[d] = IF d = 0 THEN [n \in Ptrs |-> <<>>] ELSE WalksOver(w[d - 1])
  BY <1>1 DEF AreWalks
<1>5. w[0] = [n \in Ptrs |-> <<>>] BY <1>3, <1>4
<1>6. \A d \in 1..C : w[d] = WalksOver(w[d - 1]) BY <1>3, <1>4
<1>7. \A n \in Ptrs : w[0][n] = <<>> BY <1>5
<1>8. \A d \in 1..C, n \in Ptrs :
        w[d][n] = IF n = Nil THEN <<>>
                  ELSE w[d - 1][link[n]["L"]] \o <<n>> \o w[d - 1][link[n]["R"]]
  BY <1>6, ZenonT(60) DEF WalksOver
<1> HIDE DEF C
<1> QED BY <1>2, <1>7, <1>8 DEF C

\* The walk lists the members, each at its place.
LEMMA WalkLists ==
  ASSUME TInv, NEW k, NEW at, NEW ends, IsTree(Tree, members, k, at, ends)
  PROVE  Lists(members, at, Walk, 1, k)
<1> DEFINE C == Cardinality(Blocks)
<1>1. PICK w : /\ Walk = w[C][root]
               /\ \A n \in Ptrs : w[0][n] = <<>>
               /\ \A d \in 1..C, n \in Ptrs :
                    w[d][n] = IF n = Nil THEN <<>>
                              ELSE w[d - 1][link[n]["L"]] \o <<n>> \o w[d - 1][link[n]["R"]]
  BY WalksAre
<1>2. C \in Nat /\ k \in Nat /\ k <= C BY BlocksFinite, PlacesCount DEF IsTree, Ordered
<1> HIDE DEF C
<1>3. /\ members \subseteq Ptrs /\ Nil \in Ptrs /\ Nil \notin members
      /\ \A n \in members : /\ at[n] \in Int /\ ends[n]["L"] \in Int /\ ends[n]["R"] \in Int
                            /\ ends[n]["L"] <= at[n] /\ at[n] <= ends[n]["R"]
                            /\ link[n]["L"] \in Ptrs /\ link[n]["R"] \in Ptrs
  <2>1. members \subseteq Ptrs /\ Nil \in Ptrs /\ Nil \notin members BY SidesAre DEF IsTree, Ptrs
  <2>2. \A n \in members : link[n]["L"] \in Ptrs /\ link[n]["R"] \in Ptrs
    BY <2>1, Reads DEF TInv, Dirs, Sides
  <2> QED BY <2>1, <2>2 DEF IsTree, Ordered, Spans, Sides
<1>4. \A d \in Nat : d <= C => w[d][Nil] = <<>>
  <2>1. \A d \in Nat : d <= C => d = 0 \/ d \in 1..C BY <1>2
  <2> QED BY <1>1, <1>3, <2>1
<1> DEFINE Good(d) == \A n \in members : ends[n]["R"] - ends[n]["L"] < d =>
                          Lists(members, at, w[d][n], ends[n]["L"], ends[n]["R"])
           P == {d \in Nat : d <= C => Good(d)}
<1>5. 0 \in P BY <1>3
<1>6. ASSUME NEW d \in Nat, d \in P PROVE d + 1 \in P
  <2> SUFFICES ASSUME d + 1 <= C, NEW n \in members, ends[n]["R"] - ends[n]["L"] < d + 1
               PROVE  Lists(members, at, w[d + 1][n], ends[n]["L"], ends[n]["R"])
    OBVIOUS
  <2>1. Good(d) /\ d <= C BY <1>2, <1>6
  <2>2. w[d + 1][n] = w[d][link[n]["L"]] \o <<n>> \o w[d][link[n]["R"]]
    <3>1. d + 1 \in 1..C /\ (d + 1) - 1 = d /\ n \in Ptrs /\ n # Nil BY <1>2, <1>3
    <3> QED BY <1>1, <3>1
  <2>3. Lists(members, at, w[d][link[n]["L"]], ends[n]["L"], at[n] - 1)
    <3> DEFINE c == Tree.link[n]["L"]
    <3>1. c = link[n]["L"] /\ Branch(Tree, members, at, ends, n, "L") BY DEF Tree, IsTree, Sides
    <3>2. CASE c = Nil
      <4>1. ends[n]["L"] = at[n] BY <3>1, <3>2 DEF Branch
      <4>2. w[d][link[n]["L"]] = <<>> BY <1>4, <2>1, <3>1, <3>2
      <4> QED BY <1>3, <4>1, <4>2, ListNone
    <3>3. CASE c # Nil
      <4>1. c \in members /\ ends[c]["L"] = ends[n]["L"] /\ ends[c]["R"] = at[n] - 1
        <5>1. /\ c \in members /\ ends[c]["L"] = ends[n]["L"]
              /\ ends[c][Opposite("L")] = at[n] + Way("L")
          BY <3>1, <3>3 DEF Branch
        <5> QED BY <1>3, <5>1 DEF Opposite, Way
      <4>2. ends[c]["R"] - ends[c]["L"] < d BY <1>3, <4>1
      <4> HIDE DEF c
      <4> QED BY <2>1, <3>1, <4>1, <4>2
    <3> QED BY <3>2, <3>3
  <2>4. Lists(members, at, w[d][link[n]["R"]], at[n] + 1, ends[n]["R"])
    <3> DEFINE c == Tree.link[n]["R"]
    <3>1. c = link[n]["R"] /\ Branch(Tree, members, at, ends, n, "R") BY DEF Tree, IsTree, Sides
    <3>2. CASE c = Nil
      <4>1. ends[n]["R"] = at[n] BY <3>1, <3>2 DEF Branch
      <4>2. w[d][link[n]["R"]] = <<>> BY <1>4, <2>1, <3>1, <3>2
      <4>3. ends[n]["R"] = (at[n] + 1) - 1 /\ at[n] + 1 \in Int /\ ends[n]["R"] \in Int
        BY <1>3, <4>1
      <4>4. Lists(members, at, <<>>, at[n] + 1, ends[n]["R"]) BY <4>3, ListNone
      <4> QED BY <4>2, <4>4
    <3>3. CASE c # Nil
      <4>1. c \in members /\ ends[c]["R"] = ends[n]["R"] /\ ends[c]["L"] = at[n] + 1
        <5>1. /\ c \in members /\ ends[c]["R"] = ends[n]["R"]
              /\ ends[c][Opposite("R")] = at[n] + Way("R")
          BY <3>1, <3>3 DEF Branch
        <5> QED BY <1>3, <5>1 DEF Opposite, Way
      <4>2. ends[c]["R"] - ends[c]["L"] < d BY <1>3, <4>1
      <4> HIDE DEF c
      <4> QED BY <2>1, <3>1, <4>1, <4>2
    <3> QED BY <3>2, <3>3
  <2> HIDE DEF P
  <2> QED BY <1>3, <2>2, <2>3, <2>4, JoinLists
<1> HIDE DEF P
<1>7. \A d \in Nat : d \in P BY <1>5, <1>6, Climbs
<1>8. Good(C) BY <1>2, <1>7 DEF P
<1>9. CASE root = Nil
  <2>1. Walk = <<>> BY <1>1, <1>2, <1>4, <1>9
  <2>2. members = {} BY <1>9 DEF IsTree, Rooted, Tree
  <2>3. k = 0
    <3>1. \A i \in 1..k : \E n \in members : at[n] = i BY DEF IsTree, Ordered
    <3> QED BY <1>2, <2>2, <3>1
  <2>4. Lists(members, at, <<>>, 1, 0) BY ListNone
  <2> QED BY <2>1, <2>3, <2>4
<1>10. CASE root # Nil
  <2>1. root \in members /\ ends[root]["L"] = 1 /\ ends[root]["R"] = k
    BY <1>10 DEF IsTree, Rooted, Tree
  <2>2. ends[root]["R"] - ends[root]["L"] < C BY <1>2, <2>1
  <2> QED BY <1>1, <1>8, <2>1, <2>2
<1> QED BY <1>9, <1>10

----------------------------------------------------------------------------
(* The ends of the subtrees                                                *)

\* Every subtree ends within the places there are: the last of its nodes on
\* either side has no child there.
LEMMA EndsWithin ==
  ASSUME NEW t, NEW S, NEW k, NEW at, NEW ends, IsTree(t, S, k, at, ends)
  PROVE  \A n \in S : 1 <= ends[n]["L"] /\ ends[n]["R"] <= k
<1>1. /\ k \in Nat
      /\ \A n \in S : /\ at[n] \in Int /\ ends[n]["L"] \in Int /\ ends[n]["R"] \in Int
                      /\ ends[n]["L"] <= at[n] /\ at[n] <= ends[n]["R"]
                      /\ 1 <= at[n] /\ at[n] <= k
  BY DEF IsTree, Ordered, Spans, Sides
<1>2. \A n \in S : \/ ends[n]["L"] = at[n]
                   \/ \E c \in S : ends[c]["L"] = ends[n]["L"] /\ ends[c]["R"] = at[n] - 1
  <2> SUFFICES ASSUME NEW n \in S
               PROVE  \/ ends[n]["L"] = at[n]
                      \/ \E c \in S : ends[c]["L"] = ends[n]["L"] /\ ends[c]["R"] = at[n] - 1
    OBVIOUS
  <2>1. Branch(t, S, at, ends, n, "L") /\ Opposite("L") = "R" /\ at[n] + Way("L") = at[n] - 1
    BY <1>1 DEF IsTree, Sides, Opposite, Way
  <2> QED BY <2>1 DEF Branch
<1>3. \A n \in S : \/ ends[n]["R"] = at[n]
                   \/ \E c \in S : ends[c]["R"] = ends[n]["R"] /\ ends[c]["L"] = at[n] + 1
  <2> SUFFICES ASSUME NEW n \in S
               PROVE  \/ ends[n]["R"] = at[n]
                      \/ \E c \in S : ends[c]["R"] = ends[n]["R"] /\ ends[c]["L"] = at[n] + 1
    OBVIOUS
  <2>1. Branch(t, S, at, ends, n, "R") /\ Opposite("R") = "L" /\ at[n] + Way("R") = at[n] + 1
    BY <1>1 DEF IsTree, Sides, Opposite, Way
  <2> QED BY <2>1 DEF Branch
<1>4. \A n \in S : 1 <= ends[n]["L"]
  <2> DEFINE P == {d \in Nat : \A n \in S : at[n] <= d => 1 <= ends[n]["L"]}
  <2>1. 0 \in P BY <1>1
  <2>2. ASSUME NEW d \in Nat, d \in P PROVE d + 1 \in P
    <3> SUFFICES ASSUME NEW n \in S, at[n] <= d + 1 PROVE 1 <= ends[n]["L"] OBVIOUS
    <3>1. CASE ends[n]["L"] = at[n] BY <1>1, <3>1
    <3>2. CASE ends[n]["L"] # at[n]
      <4>1. PICK c \in S : ends[c]["L"] = ends[n]["L"] /\ ends[c]["R"] = at[n] - 1 BY <1>2, <3>2
      <4>2. at[c] <= d BY <1>1, <4>1
      <4> QED BY <2>2, <4>1, <4>2
    <3> QED BY <3>1, <3>2
  <2> HIDE DEF P
  <2>3. \A d \in Nat : d \in P BY <2>1, <2>2, Climbs
  <2>4. k \in P BY <1>1, <2>3
  <2> QED BY <1>1, <2>4 DEF P
<1>5. \A n \in S : ends[n]["R"] <= k
  <2> DEFINE P == {d \in Nat : \A n \in S : k - at[n] <= d => ends[n]["R"] <= k}
  <2>1. 0 \in P
    <3> SUFFICES ASSUME NEW n \in S, k - at[n] <= 0 PROVE ends[n]["R"] <= k OBVIOUS
    <3>1. CASE ends[n]["R"] = at[n] BY <1>1, <3>1
    <3>2. CASE ends[n]["R"] # at[n]
      <4>1. PICK c \in S : ends[c]["R"] = ends[n]["R"] /\ ends[c]["L"] = at[n] + 1 BY <1>3, <3>2
      <4>2. at[n] = k /\ at[c] > k BY <1>1, <4>1
      <4> QED BY <1>1, <4>2
    <3> QED BY <3>1, <3>2
  <2>2. ASSUME NEW d \in Nat, d \in P PROVE d + 1 \in P
    <3> SUFFICES ASSUME NEW n \in S, k - at[n] <= d + 1 PROVE ends[n]["R"] <= k OBVIOUS
    <3>1. CASE ends[n]["R"] = at[n] BY <1>1, <3>1
    <3>2. CASE ends[n]["R"] # at[n]
      <4>1. PICK c \in S : ends[c]["R"] = ends[n]["R"] /\ ends[c]["L"] = at[n] + 1 BY <1>3, <3>2
      <4>2. k - at[c] <= d BY <1>1, <4>1
      <4> QED BY <2>2, <4>1, <4>2
    <3> QED BY <3>1, <3>2
  <2> HIDE DEF P
  <2>3. \A d \in Nat : d \in P BY <2>1, <2>2, Climbs
  <2>4. k \in P /\ \A n \in S : k - at[n] <= k BY <1>1, <2>3
  <2> QED BY <2>4 DEF P
<1> QED BY <1>4, <1>5

----------------------------------------------------------------------------
(* The black heights                                                       *)

AreHeights(h) ==
  h = [d \in 0..Cardinality(Blocks) |-> IF d = 0 THEN [n \in Ptrs |-> 0] ELSE HeightsOver(h[d - 1])]

\* The black heights, which RedBlack is stated with, exist at every depth.
LEMMA HeightsExist == ASSUME TInv PROVE \E h : AreHeights(h)
<1> DEFINE C == Cardinality(Blocks)
           D == [Ptrs -> Nat]
           F == [v \in D |-> HeightsOver(v)]
           a == [n \in Ptrs |-> 0]
<1>1. C \in Nat BY BlocksFinite
<1>2. a \in D OBVIOUS
<1>3. ASSUME NEW v \in D PROVE HeightsOver(v) \in D
  <2>1. ASSUME NEW n \in Ptrs PROVE v[link[n]["L"]] \in Nat
    <3>1. link[n]["L"] \in Ptrs BY Reads DEF TInv, Dirs, Sides
    <3> QED BY <3>1
  <2>2. \A n \in Ptrs : (IF n = Nil THEN 0
                         ELSE v[link[n]["L"]] + (IF colour[n] = "black" THEN 1 ELSE 0)) \in Nat
    BY <2>1
  <2> QED BY <2>2 DEF HeightsOver
<1>4. F \in [D -> D] BY <1>3
<1> HIDE DEF C, D, F, a
<1>5. PICK h \in [0..C -> D] : Iterates(h, C, F, a) BY <1>1, <1>2, <1>4, IterateExists
<1>6. \A d \in 1..C : d - 1 \in 0..C /\ h[d] = F[h[d - 1]] BY <1>1, <1>5 DEF Iterates
<1>7. \A d \in 1..C : h[d] = HeightsOver(h[d - 1]) BY <1>5, <1>6 DEF F
<1>8. h[0] = a BY <1>5 DEF Iterates
<1>9. h = [d \in 0..C |-> IF d = 0 THEN a ELSE HeightsOver(h[d - 1])]
  <2>1. \A d \in 0..C : d = 0 \/ d \in 1..C BY <1>1
  <2> QED BY <1>5, <1>7, <1>8, <2>1
<1> QED BY <1>9 DEF AreHeights, C, a

\* What is known of the heights.
LEMMA HeightsAre ==
  ASSUME TInv
  PROVE  \E h : /\ BlackHeight = h[Cardinality(Blocks)]
                /\ \A n \in Ptrs : h[0][n] = 0
                /\ \A d \in 1..Cardinality(Blocks), n \in Ptrs :
                     h[d][n] = IF n = Nil THEN 0
                               ELSE h[d - 1][link[n]["L"]] + (IF colour[n] = "black" THEN 1 ELSE 0)
<1> DEFINE C == Cardinality(Blocks)
           h == CHOOSE v : AreHeights(v)
<1>1. AreHeights(h) BY HeightsExist
<1>2. BlackHeight = h[C] BY DEF BlackHeight, AreHeights
<1> HIDE DEF h
<1>3. C \in Nat BY BlocksFinite
<1>4. \A d \in 0..C : h[d] = IF d = 0 THEN [n \in Ptrs |-> 0] ELSE HeightsOver(h[d - 1])
  BY <1>1 DEF AreHeights
<1>5. h[0] = [n \in Ptrs |-> 0] BY <1>3, <1>4
<1>6. \A d \in 1..C : h[d] = HeightsOver(h[d - 1]) BY <1>3, <1>4
<1>7. \A n \in Ptrs : h[0][n] = 0 BY <1>5
<1>8. \A d \in 1..C, n \in Ptrs :
        h[d][n] = IF n = Nil THEN 0
                  ELSE h[d - 1][link[n]["L"]] + (IF colour[n] = "black" THEN 1 ELSE 0)
  BY <1>6 DEF HeightsOver
<1> HIDE DEF C
<1> QED BY <1>2, <1>7, <1>8 DEF C

\* With no black missing the leftmost way down from a node has as many black
\* nodes as every other.
LEMMA HeightsCount ==
  ASSUME TInv, NEW k, NEW at, NEW ends, IsTree(Tree, members, k, at, ends),
         NEW bh, Balanced(Tree, members, colour, bh)
  PROVE  \A n \in members \cup {Nil} : BlackHeight[n] = bh[n]
<1> DEFINE C == Cardinality(Blocks)
<1>1. PICK h : /\ BlackHeight = h[C]
               /\ \A n \in Ptrs : h[0][n] = 0
               /\ \A d \in 1..C, n \in Ptrs :
                    h[d][n] = IF n = Nil THEN 0
                              ELSE h[d - 1][link[n]["L"]] + (IF colour[n] = "black" THEN 1 ELSE 0)
  BY HeightsAre
<1>2. C \in Nat /\ k \in Nat /\ k <= C BY BlocksFinite, PlacesCount DEF IsTree, Ordered
<1> HIDE DEF C
<1>3. /\ members \subseteq Ptrs /\ Nil \in Ptrs /\ Nil \notin members
      /\ \A n \in members : /\ at[n] \in Int /\ ends[n]["L"] \in Int /\ ends[n]["R"] \in Int
                            /\ ends[n]["L"] <= at[n] /\ at[n] <= ends[n]["R"]
                            /\ 1 <= at[n] /\ at[n] <= k
  BY SidesAre DEF IsTree, Ordered, Spans, Sides, Ptrs
<1>4. /\ bh[Nil] = 0
      /\ \A n \in members : bh[n] = bh[link[n]["L"]] + (IF colour[n] = "black" THEN 1 ELSE 0)
  <2>1. bh[Nil] = 0 /\ Evenly(Tree, members, colour, bh, Nil, "L") /\ bh \in [Ptrs -> Nat]
    BY DEF Balanced, Painted
  <2>2. \A n \in members : bh[n] = bh[Tree.link[n]["L"]] + Black(colour, n) + 0
    BY <1>3, <2>1 DEF Evenly, Sides
  <2>3. \A n \in members : Tree.link[n]["L"] \in Ptrs /\ Tree.link[n]["L"] = link[n]["L"]
    BY <1>3, Family DEF Tree, Sides
  <2> QED BY <2>1, <2>2, <2>3 DEF Black
<1>5. \A d \in Nat : d <= C => h[d][Nil] = 0
  <2>1. \A d \in Nat : d <= C => d = 0 \/ d \in 1..C BY <1>2
  <2> QED BY <1>1, <1>3, <2>1
<1> DEFINE Good(d) == \A n \in members : ends[n]["R"] - ends[n]["L"] < d => h[d][n] = bh[n]
           P == {d \in Nat : d <= C => Good(d)}
<1>6. 0 \in P BY <1>3
<1>7. ASSUME NEW d \in Nat, d \in P PROVE d + 1 \in P
  <2> SUFFICES ASSUME d + 1 <= C, NEW n \in members, ends[n]["R"] - ends[n]["L"] < d + 1
               PROVE  h[d + 1][n] = bh[n]
    OBVIOUS
  <2>1. Good(d) /\ d <= C BY <1>2, <1>7
  <2>2. h[d + 1][n] = h[d][link[n]["L"]] + (IF colour[n] = "black" THEN 1 ELSE 0)
    <3>1. d + 1 \in 1..C /\ (d + 1) - 1 = d /\ n \in Ptrs /\ n # Nil BY <1>2, <1>3
    <3> QED BY <1>1, <3>1
  <2>3. h[d][link[n]["L"]] = bh[link[n]["L"]]
    <3> DEFINE c == Tree.link[n]["L"]
    <3>1. c = link[n]["L"] /\ Branch(Tree, members, at, ends, n, "L") BY DEF Tree, IsTree, Sides
    <3>2. CASE c = Nil
      <4>1. h[d][Nil] = 0 BY <1>5, <2>1
      <4> QED BY <1>4, <3>1, <3>2, <4>1
    <3>3. CASE c # Nil
      <4>1. c \in members /\ ends[c]["L"] = ends[n]["L"] /\ ends[c]["R"] = at[n] - 1
        <5>1. /\ c \in members /\ ends[c]["L"] = ends[n]["L"]
              /\ ends[c][Opposite("L")] = at[n] + Way("L")
          BY <3>1, <3>3 DEF Branch
        <5> QED BY <1>3, <5>1 DEF Opposite, Way
      <4>2. ends[c]["R"] - ends[c]["L"] < d BY <1>3, <4>1
      <4> HIDE DEF c
      <4> QED BY <2>1, <3>1, <4>1, <4>2
    <3> QED BY <3>2, <3>3
  <2> HIDE DEF P
  <2> QED BY <1>4, <2>2, <2>3
<1> HIDE DEF P
<1>8. \A d \in Nat : d \in P BY <1>6, <1>7, Climbs
<1>9. Good(C) BY <1>2, <1>8 DEF P
<1>10. \A n \in members : ends[n]["R"] <= k /\ 1 <= ends[n]["L"] BY EndsWithin
<1>11. ASSUME NEW n \in members PROVE h[C][n] = bh[n]
  <2>1. ends[n]["R"] - ends[n]["L"] < C BY <1>2, <1>3, <1>10
  <2> QED BY <1>9, <2>1
<1>12. h[C][Nil] = 0 BY <1>2, <1>5
<1> QED BY <1>1, <1>4, <1>11, <1>12

----------------------------------------------------------------------------
(* The properties of the tree                                              *)

\* The invariant of the tree implies its shape.
LEMMA ShapeStands == ASSUME TInv, TreeInv PROVE Shape
<1>1. PICK k, at, ends : IsTree(Tree, members, k, at, ends) BY DEF TreeInv
<1>2. root # Nil => link[root]["P"] = Nil BY <1>1 DEF IsTree, Rooted, Tree
<1>3. ASSUME NEW n \in members, NEW s \in Sides, link[n][s] # Nil
      PROVE  link[n][s] \in members /\ link[link[n][s]]["P"] = n
  <2>1. Branch(Tree, members, at, ends, n, s) BY <1>1 DEF IsTree
  <2> QED BY <1>3, <2>1 DEF Branch, Tree
<1>4. Walk \in Seq(members) /\ Len(Walk) = k /\ \A i \in 1..k : at[Walk[i]] = i
  <2>1. Lists(members, at, Walk, 1, k) /\ k \in Nat BY <1>1, WalkLists DEF IsTree, Ordered
  <2>2. Len(Walk) = k BY <2>1 DEF Lists
  <2>3. Walk \in Seq(members) /\ \A i \in 1..k : at[Walk[i]] = 1 + i - 1 BY <2>1, <2>2 DEF Lists
  <2>4. \A i \in 1..k : 1 + i - 1 = i BY <2>1
  <2> QED BY <2>2, <2>3, <2>4
<1>5. k = Cardinality(members) BY <1>1, PlacesCount DEF IsTree
<1>6. DOMAIN Walk = 1..k /\ \A i \in 1..k : Walk[i] \in members BY <1>4, LenProperties, ElementOfSeq
<1>7. ASSUME NEW n \in members PROVE \E i \in 1..k : Walk[i] = n
  <2>1. at[n] \in 1..k /\ \A m \in members : at[m] = at[n] => m = n BY <1>1 DEF IsTree, Ordered
  <2>2. at[Walk[at[n]]] = at[n] /\ Walk[at[n]] \in members BY <1>4, <1>6, <2>1
  <2> QED BY <2>1, <2>2
<1>8. {Walk[i] : i \in DOMAIN Walk} = members BY <1>6, <1>7
<1> QED BY <1>2, <1>3, <1>4, <1>5, <1>8 DEF Shape

\* The invariant of the tree implies its colours.
LEMMA ColoursStand == ASSUME TInv, TreeInv PROVE RedBlack
<1> SUFFICES ASSUME ~Rebalancing
             PROVE  /\ colour[root] = "black" /\ colour[Nil] = "black"
                    /\ \A n \in members : colour[n] = "red" => \A s \in Sides : colour[link[n][s]] = "black"
                    /\ \A n \in members : BlackHeight[link[n]["L"]] = BlackHeight[link[n]["R"]]
  BY DEF RedBlack
<1>1. PICK k, at, ends, bh : IsTree(Tree, members, k, at, ends) /\ Mended(bh) BY DEF TreeInv
<1>2. Balanced(Tree, members, colour, bh) BY <1>1 DEF Mended, Rebalancing
<1>3. /\ \A n \in members, s \in Sides :
           /\ link[n][s] \in Ptrs /\ link[n][s] \in members \cup {Nil}
           /\ bh[n] \in Nat /\ bh[link[n][s]] \in Nat
           /\ bh[n] = bh[link[n][s]] + Black(colour, n)
           /\ colour[n] = "red" /\ colour[link[n][s]] = "red" => n = Nil \/ link[n][s] = Nil
           /\ n # Nil
      /\ colour \in [Ptrs -> Colours] /\ colour[Nil] = "black" /\ root \in Ptrs
      /\ colour[root] = "red" => root = Nil
  <2>1. Painted(Tree, members, colour, bh, Nil, "L", Nil, Nil) BY <1>2 DEF Balanced
  <2>2. Tree.link = link /\ Tree.root = root BY DEF Tree
  <2>3. \A n \in members, s \in Sides : link[n][s] \in members \cup {Nil} BY <1>1, <2>2, Family
  <2>4. /\ \A n \in members, s \in Sides :
              /\ n \in Ptrs /\ n # Nil /\ link[n][s] \in Ptrs
              /\ bh[n] \in Nat /\ bh[link[n][s]] \in Nat
              /\ Black(colour, n) = IF colour[n] = "red" THEN 0 ELSE 1
              /\ ~(n = Nil /\ s = "L") => bh[n] = bh[link[n][s]] + Black(colour, n)
              /\ n = Nil /\ s = "L" => bh[n] = bh[link[n][s]] + Black(colour, n) + 1
              /\ colour[n] = "red" /\ colour[link[n][s]] = "red" => n = Nil \/ link[n][s] = Nil
        /\ colour \in [Ptrs -> Colours] /\ bh \in [Ptrs -> Nat] /\ colour[Nil] = "black" /\ bh[Nil] = 0
        /\ Nil \notin members /\ members \subseteq Ptrs /\ Nil \in Ptrs
        /\ colour[root] = "red" => root = Nil
    BY <1>1, <2>1, <2>2, Heights
  <2> QED BY <2>3, <2>4 DEF TInv, TreeTyped, Tree, Trees
<1>4. \A n \in Ptrs : colour[n] = "black" \/ colour[n] = "red" BY <1>3 DEF Colours
<1>5. colour[root] = "black" BY <1>3, <1>4
<1>6. ASSUME NEW n \in members, colour[n] = "red", NEW s \in Sides PROVE colour[link[n][s]] = "black"
  BY <1>3, <1>4, <1>6
<1>7. ASSUME NEW n \in members PROVE BlackHeight[link[n]["L"]] = BlackHeight[link[n]["R"]]
  <2>1. \A m \in members \cup {Nil} : BlackHeight[m] = bh[m] BY <1>1, <1>2, HeightsCount
  <2>2. /\ link[n]["L"] \in members \cup {Nil} /\ link[n]["R"] \in members \cup {Nil}
        /\ bh[link[n]["L"]] + Black(colour, n) = bh[link[n]["R"]] + Black(colour, n)
        /\ bh[link[n]["L"]] \in Nat /\ bh[link[n]["R"]] \in Nat
    BY <1>3 DEF Sides
  <2>3. Black(colour, n) \in Nat BY DEF Black
  <2>4. bh[link[n]["L"]] = bh[link[n]["R"]] BY <2>2, <2>3
  <2> QED BY <2>1, <2>2, <2>4
<1> QED BY <1>3, <1>5, <1>6, <1>7

\* The invariant of the tree implies that the leftmost node is the least.
LEMMA LeastStands == ASSUME TInv, TreeInv, ~UpdateLinked PROVE LeftmostIsLeast
<1> SUFFICES ASSUME Walk # <<>>, NEW n \in members PROVE fire[Walk[1]] <= fire[n]
  BY DEF LeftmostIsLeast
<1>1. PICK k, at, ends, bh : IsTree(Tree, members, k, at, ends) /\ Sorting(at, ends) BY DEF TreeInv
<1>2. k \in Nat /\ Walk \in Seq(members) /\ Len(Walk) = k - 1 + 1 /\ \A i \in 1..Len(Walk) : at[Walk[i]] = 1 + i - 1
  BY <1>1, WalkLists DEF Lists, IsTree, Ordered
<1>3. 1 \in 1..Len(Walk) BY <1>2, EmptySeq
<1>4. Walk[1] \in members /\ at[Walk[1]] = 1 BY <1>2, <1>3, ElementOfSeq
<1>5. /\ \A m \in members : at[m] \in Int /\ 1 <= at[m] /\ (at[m] = at[n] => m = n)
      /\ \A m \in members : fire[m] \in Nat
  BY <1>1, ParametersAssumption DEF IsTree, Ordered, TInv, NodesTyped
<1>6. CASE at[n] = 1
  <2>1. Walk[1] = n BY <1>4, <1>5, <1>6
  <2> QED BY <1>5, <2>1
<1>7. CASE at[n] # 1
  <2>1. at[Walk[1]] < at[n] BY <1>4, <1>5, <1>7
  <2> QED BY <1>1, <1>4, <2>1 DEF Sorting, InOrder
<1> QED BY <1>6, <1>7

\* The links form one tree that holds the inserted nodes and no others, each
\* once, at every step of every call of any number of CPUs on any number of
\* nodes, unless an allocation fails.
THEOREM ShapeKept == ASSUME ~AllocFails PROVE Spec => []Shape
<1>1. TInv /\ TreeInv => Shape BY ShapeStands
<1> QED BY <1>1, Typed, TreeKept, PTL

\* Whenever no call is repairing the colours they are those of a red-black
\* tree: black root, no red child of a red node, equal black heights.
THEOREM ColoursKept == ASSUME ~AllocFails PROVE Spec => []RedBlack
<1>1. TInv /\ TreeInv => RedBlack BY ColoursStand
<1> QED BY <1>1, Typed, TreeKept, PTL

\* The leftmost node has the smallest Virtual Fire, at every step, if no caller
\* updates a node that is in the tree.
THEOREM LeastIsLeftmost == ASSUME ~AllocFails, ~UpdateLinked PROVE Spec => []LeftmostIsLeast
<1>1. TInv /\ TreeInv => LeftmostIsLeast BY LeastStands
<1> QED BY <1>1, Typed, TreeKept, PTL

----------------------------------------------------------------------------
(* Sequences                                                               *)

\* A sequence with one more element at place i.
LEMMA PutIn ==
  ASSUME NEW S, NEW q \in Seq(S), NEW r \in Seq(S), NEW i \in 1..(Len(q) + 1),
         Len(r) = Len(q) + 1, r[i] \in S,
         \A j \in 1..(i - 1) : r[j] = q[j],
         \A j \in i..Len(q) : r[j + 1] = q[j]
  PROVE  r = SubSeq(q, 1, i - 1) \o <<r[i]>> \o SubSeq(q, i, Len(q))
<1> DEFINE a == SubSeq(q, 1, i - 1)
           b == SubSeq(q, i, Len(q))
           s == a \o <<r[i]>> \o b
           k == Len(q)
<1>1. k \in Nat /\ i \in Int /\ 1 <= i /\ i <= k + 1 /\ \A j \in 1..k : q[j] \in S
  BY LenProperties, ElementOfSeq
<1>2. /\ a \in Seq(S) /\ Len(a) = i - 1
      /\ \A j \in 1..(i - 1) : a[j] = q[j]
  <2>1. \A j \in 1..(i - 1) : q[j] \in S BY <1>1
  <2>2. /\ a \in Seq(S) /\ Len(a) = IF 1 <= i - 1 THEN i - 1 - 1 + 1 ELSE 0
        /\ \A j \in 1..(i - 1 - 1 + 1) : a[j] = q[1 + j - 1]
    BY <1>1, <2>1, SubSeqProperties
  <2>3. i - 1 - 1 + 1 = i - 1 /\ \A j \in 1..(i - 1) : 1 + j - 1 = j BY <1>1
  <2> HIDE DEF a
  <2> QED BY <1>1, <2>2, <2>3
<1>3. /\ b \in Seq(S) /\ Len(b) = k - i + 1
      /\ \A j \in 1..(k - i + 1) : b[j] = q[i + j - 1]
  <2>1. \A j \in i..k : q[j] \in S BY <1>1
  <2>2. /\ b \in Seq(S) /\ Len(b) = IF i <= k THEN k - i + 1 ELSE 0
        /\ \A j \in 1..(k - i + 1) : b[j] = q[i + j - 1]
    BY <1>1, <2>1, SubSeqProperties
  <2> HIDE DEF b
  <2> QED BY <1>1, <2>2
<1> HIDE DEF a, b
<1>4. /\ s \in Seq(S)
      /\ Len(s) = Len(a) + 1 + Len(b)
      /\ \A j \in 1..Len(a) : s[j] = a[j]
      /\ s[Len(a) + 1] = r[i]
      /\ \A j \in 1..Len(b) : s[Len(a) + 1 + j] = b[j]
  <2>1. PICK x \in S : x = r[i] OBVIOUS
  <2>2. PICK c \in Seq(S) : c = a BY <1>2
  <2>3. PICK d \in Seq(S) : d = b BY <1>3
  <2>4. LET u == c \o <<x>> \o d IN
        /\ u \in Seq(S)
        /\ Len(u) = Len(c) + 1 + Len(d)
        /\ \A j \in 1..Len(c) : u[j] = c[j]
        /\ u[Len(c) + 1] = x
        /\ \A j \in 1..Len(d) : u[Len(c) + 1 + j] = d[j]
    BY AroundOne
  <2> QED BY <2>1, <2>2, <2>3, <2>4
<1> HIDE DEF s, k
<1>5. Len(r) = k + 1 /\ Len(s) = k + 1 /\ Len(a) + 1 = i BY <1>1, <1>2, <1>3, <1>4 DEF k
<1>6. ASSUME NEW j \in 1..(k + 1) PROVE r[j] = s[j]
  <2>1. CASE j < i
    <3>1. j \in 1..(i - 1) BY <1>1, <2>1
    <3> QED BY <1>2, <1>4, <3>1
  <2>2. CASE j = i BY <1>4, <1>5, <2>2
  <2>3. CASE j > i
    <3>1. j - 1 \in i..k /\ j - i \in 1..(k - i + 1) /\ i + (j - i) = j /\ (j - 1) + 1 = j
          /\ i + (j - i) - 1 = j - 1
      BY <1>1, <2>3
    <3>2. s[i + (j - i)] = b[j - i] BY <1>3, <1>4, <1>5, <3>1
    <3>3. b[j - i] = q[i + (j - i) - 1] BY <1>3, <3>1
    <3>4. r[(j - 1) + 1] = q[j - 1] BY <3>1 DEF k
    <3> QED BY <3>1, <3>2, <3>3, <3>4
  <2> QED BY <1>1, <2>1, <2>2, <2>3
<1>7. r = s BY <1>4, <1>5, <1>6, SeqEqual
<1> QED BY <1>7 DEF s, a, b

\* A sequence without its element at place i.
LEMMA TakenOut ==
  ASSUME NEW S, NEW q \in Seq(S), NEW r \in Seq(S), NEW i \in 1..Len(q),
         Len(r) = Len(q) - 1,
         \A j \in 1..(i - 1) : r[j] = q[j],
         \A j \in (i + 1)..Len(q) : r[j - 1] = q[j]
  PROVE  r = SubSeq(q, 1, i - 1) \o SubSeq(q, i + 1, Len(q))
<1> DEFINE a == SubSeq(q, 1, i - 1)
           b == SubSeq(q, i + 1, Len(q))
           s == a \o b
           k == Len(q)
<1>1. k \in Nat /\ i \in Int /\ 1 <= i /\ i <= k /\ \A j \in 1..k : q[j] \in S
  BY LenProperties, ElementOfSeq
<1>2. /\ a \in Seq(S) /\ Len(a) = i - 1
      /\ \A j \in 1..(i - 1) : a[j] = q[j]
  <2>1. \A j \in 1..(i - 1) : q[j] \in S BY <1>1
  <2>2. /\ a \in Seq(S) /\ Len(a) = IF 1 <= i - 1 THEN i - 1 - 1 + 1 ELSE 0
        /\ \A j \in 1..(i - 1 - 1 + 1) : a[j] = q[1 + j - 1]
    BY <1>1, <2>1, SubSeqProperties
  <2>3. i - 1 - 1 + 1 = i - 1 /\ \A j \in 1..(i - 1) : 1 + j - 1 = j BY <1>1
  <2> HIDE DEF a
  <2> QED BY <1>1, <2>2, <2>3
<1>3. /\ b \in Seq(S) /\ Len(b) = k - i
      /\ \A j \in 1..(k - i) : b[j] = q[i + j]
  <2>1. \A j \in (i + 1)..k : q[j] \in S BY <1>1
  <2>2. /\ b \in Seq(S) /\ Len(b) = IF i + 1 <= k THEN k - (i + 1) + 1 ELSE 0
        /\ \A j \in 1..(k - (i + 1) + 1) : b[j] = q[i + 1 + j - 1]
    BY <1>1, <2>1, SubSeqProperties
  <2>3. k - (i + 1) + 1 = k - i /\ \A j \in 1..(k - i) : i + 1 + j - 1 = i + j BY <1>1
  <2> HIDE DEF b
  <2> QED BY <1>1, <2>2, <2>3
<1> HIDE DEF a, b
<1>4. /\ s \in Seq(S)
      /\ Len(s) = Len(a) + Len(b)
      /\ \A j \in 1..(Len(a) + Len(b)) : s[j] = IF j <= Len(a) THEN a[j] ELSE b[j - Len(a)]
  BY <1>2, <1>3, ConcatProperties
<1> HIDE DEF s, k
<1>5. Len(r) = k - 1 /\ Len(s) = k - 1 BY <1>1, <1>2, <1>3, <1>4 DEF k
<1>6. ASSUME NEW j \in 1..(k - 1) PROVE r[j] = s[j]
  <2>1. j \in 1..(Len(a) + Len(b)) BY <1>1, <1>2, <1>3
  <2>2. CASE j < i
    <3>1. j \in 1..(i - 1) /\ j <= Len(a) BY <1>1, <1>2, <2>2
    <3> QED BY <1>2, <1>4, <2>1, <3>1
  <2>3. CASE j >= i
    <3>1. /\ j + 1 \in (i + 1)..k /\ j - (i - 1) \in 1..(k - i) /\ (j + 1) - 1 = j
          /\ i + (j - (i - 1)) = j + 1 /\ ~(j <= Len(a))
      BY <1>1, <1>2, <2>3
    <3>2. s[j] = b[j - (i - 1)] BY <1>2, <1>4, <2>1, <3>1
    <3>3. b[j - (i - 1)] = q[i + (j - (i - 1))] BY <1>3, <3>1
    <3>4. r[(j + 1) - 1] = q[j + 1] BY <3>1 DEF k
    <3> QED BY <3>1, <3>2, <3>3, <3>4
  <2> QED BY <1>1, <2>2, <2>3
<1>7. \A j \in 1..Len(r) : r[j] = s[j] BY <1>5, <1>6
<1>8. r = s BY <1>4, <1>5, <1>7, SeqEqual
<1> QED BY <1>8 DEF s, a, b

----------------------------------------------------------------------------
(* The queue                                                               *)

Entry == [n : Blocks, f : Fires]

\* The members of the tree in order, with their keys.
Entries == [i \in DOMAIN Walk |-> [n |-> Walk[i], f |-> fire[Walk[i]]]]

\* The walk has every member at its place.
Lined(k, at) ==
  /\ k \in Nat
  /\ Entries \in Seq(Entry)
  /\ Len(Entries) = k
  /\ \A i \in 1..k : /\ Walk[i] \in members
                     /\ at[Walk[i]] = i
                     /\ Entries[i] = [n |-> Walk[i], f |-> fire[Walk[i]]]
  /\ \A n \in members : at[n] \in 1..k /\ Walk[at[n]] = n

Listed == \A k, at, ends : IsTree(Tree, members, k, at, ends) => Lined(k, at)

\* In any tree the walk has every member at its place.
LEMMA Listing == TInv => Listed
<1> SUFFICES ASSUME TInv, NEW k, NEW at, NEW ends, IsTree(Tree, members, k, at, ends)
             PROVE  Lined(k, at)
  BY DEF Listed
<1>1. /\ k \in Nat /\ Walk \in Seq(members) /\ Len(Walk) = k
      /\ \A i \in 1..k : at[Walk[i]] = i
  <2>1. k \in Nat BY DEF IsTree, Ordered
  <2>2. /\ Walk \in Seq(members) /\ Len(Walk) = k - 1 + 1
        /\ \A i \in 1..Len(Walk) : at[Walk[i]] = 1 + i - 1
    BY WalkLists DEF Lists
  <2>3. k - 1 + 1 = k /\ \A i \in 1..k : 1 + i - 1 = i BY <2>1
  <2> QED BY <2>1, <2>2, <2>3
<1>2. DOMAIN Walk = 1..k /\ \A i \in 1..k : Walk[i] \in members
  BY <1>1, LenProperties, ElementOfSeq
<1>3. \A m \in members : m \in Blocks /\ fire[m] \in Fires
  BY DEF IsTree, TInv, NodesTyped
<1>4. \A i \in 1..k : Entries[i] = [n |-> Walk[i], f |-> fire[Walk[i]]] BY <1>2 DEF Entries
<1>5. Entries \in [1..k -> Entry] BY <1>2, <1>3 DEF Entries, Entry
<1>6. Entries \in Seq(Entry) /\ Len(Entries) = k
  <2>1. PICK q \in [1..k -> Entry] : q = Entries BY <1>5
  <2>2. q \in Seq(Entry) /\ Len(q) = k BY <1>1, <2>1
  <2> QED BY <2>1, <2>2
<1>7. ASSUME NEW n \in members PROVE at[n] \in 1..k /\ Walk[at[n]] = n
  <2>1. at[n] \in 1..k /\ \A m \in members : at[m] = at[n] => m = n BY DEF IsTree, Ordered
  <2>2. at[Walk[at[n]]] = at[n] /\ Walk[at[n]] \in members BY <1>1, <1>2, <2>1
  <2> QED BY <2>1, <2>2
<1> QED BY <1>1, <1>2, <1>4, <1>6, <1>7 DEF Lined

\* Steps that keep the members in their order, and their keys, keep the queue.
LEMMA QueueKept ==
  ASSUME Listed, Listed', OrderKept, \A m \in members : fire'[m] = fire[m]
  PROVE  Entries' = Entries
<1>1. PICK k, at, ends, e :
        /\ IsTree(Tree, members, k, at, ends)
        /\ IsTree(Tree', members', k, at, e)
        /\ members' = members
  BY DEF OrderKept
<1>2. Lined(k, at) /\ Lined(k, at)' BY <1>1 DEF Listed
<1>3. ASSUME NEW i \in 1..k PROVE Walk'[i] = Walk[i]
  <2>1. Walk'[i] \in members /\ at[Walk'[i]] = i BY <1>1, <1>2 DEF Lined
  <2>2. Walk[at[Walk'[i]]] = Walk'[i] BY <1>2, <2>1 DEF Lined
  <2> QED BY <2>1, <2>2
<1>4. \A i \in 1..k : /\ Walk[i] \in members
                      /\ Entries[i] = [n |-> Walk[i], f |-> fire[Walk[i]]]
                      /\ Entries'[i] = [n |-> Walk'[i], f |-> fire'[Walk'[i]]]
  BY <1>2 DEF Lined
<1>5. ASSUME NEW i \in 1..k PROVE Entries'[i] = Entries[i]
  <2>1. PICK m \in members : m = Walk[i] BY <1>4
  <2>2. Walk'[i] = m /\ fire'[m] = fire[m] BY <1>3, <2>1
  <2>3. Entries[i] = [n |-> m, f |-> fire[m]] BY <1>4, <2>1
  <2>4. Entries'[i] = [n |-> m, f |-> fire'[m]] BY <1>4, <2>2
  <2> QED BY <2>2, <2>3, <2>4
<1>6. Entries \in Seq(Entry) /\ Entries' \in Seq(Entry) /\ Len(Entries) = k /\ Len(Entries') = k
  <2>1. Entries' \in Seq(Entry) /\ Len(Entries') = k BY <1>2 DEF Lined, Entry
  <2> QED BY <1>2, <2>1 DEF Lined
<1> QED BY <1>5, <1>6, SeqEqual

\* Steps that change no link keep the order.
LEMMA OrderSame ==
  ASSUME TreeInv, UNCHANGED <<root, link, members>>
  PROVE  OrderKept
<1>1. PICK k, at, ends : IsTree(Tree, members, k, at, ends) BY DEF TreeInv
<1>2. Tree' = Tree BY DEF Tree
<1>3. IsTree(Tree', members', k, at, ends) BY <1>1, <1>2
<1> QED BY <1>1, <1>3 DEF OrderKept

\* A node that comes in does so behind the nodes whose keys are not greater.
LEMMA QueueEntered ==
  ASSUME TInv, Listed, Listed', NEW n, Enters(n), fire' = fire
  PROVE  /\ n \in Blocks /\ fire[n] \in Fires
         /\ n \notin {Entries[i].n : i \in DOMAIN Entries}
         /\ \E i, x : /\ i = Cardinality({j \in DOMAIN Entries : Entries[j].f <= fire[n]}) + 1
                      /\ x = [n |-> n, f |-> fire[n]]
                      /\ Entries' = SubSeq(Entries, 1, i - 1) \o <<x>>
                                    \o SubSeq(Entries, i, Len(Entries))
<1>1. PICK k, at, ends, a, e :
        /\ IsTree(Tree, members, k, at, ends)
        /\ IsTree(Tree', members', k + 1, a, e)
        /\ n \in Blocks \ members /\ members' = members \cup {n}
        /\ FitsIn(n, at, a)
  BY DEF Enters
<1>2. Lined(k, at) /\ Lined(k + 1, a)' BY <1>1 DEF Listed
<1>3. /\ k \in Nat /\ Entries \in Seq(Entry) /\ Len(Entries) = k
      /\ \A i \in 1..k : /\ Walk[i] \in members /\ at[Walk[i]] = i
                         /\ Entries[i] = [n |-> Walk[i], f |-> fire[Walk[i]]]
  BY <1>2 DEF Lined
<1>4. /\ Entries' \in Seq(Entry) /\ Len(Entries') = k + 1
      /\ \A i \in 1..(k + 1) : Entries'[i] = [n |-> Walk'[i], f |-> fire[Walk'[i]]]
      /\ \A m \in members \cup {n} : a[m] \in 1..(k + 1) /\ Walk'[a[m]] = m
  BY <1>1, <1>2 DEF Lined, Entry
<1>5. DOMAIN Entries = 1..k BY <1>3, LenProperties
<1>6. PICK i \in 1..(k + 1) : i = a[n] BY <1>4
<1>7. /\ i \in Int /\ 1 <= i /\ i <= k + 1
      /\ \A m \in members : /\ a[m] = IF at[m] >= i THEN at[m] + 1 ELSE at[m]
                            /\ at[m] < i <=> fire[m] <= fire[n]
  BY <1>1, <1>3, <1>6 DEF FitsIn
<1>8. \A m \in Blocks : fire[m] \in Fires BY DEF TInv, NodesTyped
<1>9. \A j \in 1..k : /\ (j < i <=> Entries[j].f <= fire[n])
                      /\ (j < i => Entries'[j] = Entries[j])
                      /\ (j >= i => Entries'[j + 1] = Entries[j])
  <2> SUFFICES ASSUME NEW j \in 1..k
               PROVE  /\ (j < i <=> Entries[j].f <= fire[n])
                      /\ (j < i => Entries'[j] = Entries[j])
                      /\ (j >= i => Entries'[j + 1] = Entries[j])
    OBVIOUS
  <2>1. PICK m \in members : m = Walk[j] BY <1>3
  <2>2. at[m] = j /\ Entries[j] = [n |-> m, f |-> fire[m]] BY <1>3, <2>1
  <2>3. (j < i <=> fire[m] <= fire[n]) /\ a[m] = IF j >= i THEN j + 1 ELSE j BY <1>7, <2>2
  <2>4. Entries[j].f = fire[m] BY <2>2
  <2>5. Walk'[a[m]] = m /\ a[m] \in 1..(k + 1) BY <1>4, <2>1
  <2>6. Entries'[a[m]] = Entries[j] BY <1>4, <2>2, <2>5
  <2> QED BY <1>7, <2>3, <2>4, <2>6
<1>10. {j \in DOMAIN Entries : Entries[j].f <= fire[n]} = 1..(i - 1)
  <2>1. \A j \in 1..k : j < i <=> j \in 1..(i - 1) BY <1>7
  <2>2. \A j \in 1..(i - 1) : j \in 1..k BY <1>3, <1>7
  <2> QED BY <1>5, <1>9, <2>1, <2>2
<1>11. Cardinality({j \in DOMAIN Entries : Entries[j].f <= fire[n]}) = i - 1
  <2>1. Cardinality(1..(i - 1)) = i - 1 BY <1>7, FS_Interval
  <2> QED BY <1>10, <2>1
<1>12. Entries'[i] = [n |-> n, f |-> fire[n]] BY <1>4, <1>6
<1>13. Entries'[i] \in Entry BY <1>1, <1>8, <1>12 DEF Entry
<1>14. Entries' = SubSeq(Entries, 1, i - 1) \o <<Entries'[i]>> \o SubSeq(Entries, i, Len(Entries))
  <2>1. PICK q \in Seq(Entry) : q = Entries BY <1>3
  <2>2. PICK r \in Seq(Entry) : r = Entries' BY <1>4
  <2>3. Len(q) = k /\ Len(r) = k + 1 /\ r[i] \in Entry BY <1>3, <1>4, <1>13, <2>1, <2>2
  <2>4. (\A j \in 1..(i - 1) : r[j] = q[j]) /\ (\A j \in i..Len(q) : r[j + 1] = q[j])
    BY <1>3, <1>7, <1>9, <2>1, <2>2, <2>3
  <2>5. r = SubSeq(q, 1, i - 1) \o <<r[i]>> \o SubSeq(q, i, Len(q)) BY <1>7, <2>3, <2>4, PutIn
  <2> QED BY <2>1, <2>2, <2>5
<1>15. n \notin {Entries[j].n : j \in DOMAIN Entries} BY <1>1, <1>3, <1>5
<1>16. n \in Blocks /\ fire[n] \in Fires BY <1>1, <1>8
<1>17. i = Cardinality({j \in DOMAIN Entries : Entries[j].f <= fire[n]}) + 1 BY <1>7, <1>11
<1>18. PICK x : x = Entries'[i] OBVIOUS
<1>19. /\ x = [n |-> n, f |-> fire[n]]
       /\ Entries' = SubSeq(Entries, 1, i - 1) \o <<x>> \o SubSeq(Entries, i, Len(Entries))
  BY <1>12, <1>14, <1>18
<1> QED BY <1>15, <1>16, <1>17, <1>19

\* A node that goes leaves the others in their order.
LEMMA QueueLeft ==
  ASSUME Listed, Listed', NEW n, Leaves(n), fire' = fire
  PROVE  \E i \in DOMAIN Entries :
           /\ Entries[i].n = n
           /\ Entries' = SubSeq(Entries, 1, i - 1) \o SubSeq(Entries, i + 1, Len(Entries))
<1>1. PICK k, at, ends, a, e :
        /\ IsTree(Tree, members, k, at, ends)
        /\ IsTree(Tree', members', k - 1, a, e)
        /\ n \in members /\ members' = members \ {n}
        /\ \A m \in members' : a[m] = IF at[m] > at[n] THEN at[m] - 1 ELSE at[m]
  BY DEF Leaves
<1>2. Lined(k, at) /\ Lined(k - 1, a)' BY <1>1 DEF Listed
<1>3. /\ k \in Nat /\ Entries \in Seq(Entry) /\ Len(Entries) = k
      /\ \A i \in 1..k : /\ Walk[i] \in members /\ at[Walk[i]] = i
                         /\ Entries[i] = [n |-> Walk[i], f |-> fire[Walk[i]]]
      /\ at[n] \in 1..k /\ Walk[at[n]] = n
  BY <1>1, <1>2 DEF Lined
<1>4. /\ Entries' \in Seq(Entry) /\ Len(Entries') = k - 1
      /\ \A i \in 1..(k - 1) : Entries'[i] = [n |-> Walk'[i], f |-> fire[Walk'[i]]]
      /\ \A m \in members \ {n} : a[m] \in 1..(k - 1) /\ Walk'[a[m]] = m
  BY <1>1, <1>2 DEF Lined, Entry
<1>5. DOMAIN Entries = 1..k BY <1>3, LenProperties
<1>6. PICK i \in 1..k : i = at[n] BY <1>3
<1>7. /\ i \in Int /\ 1 <= i /\ i <= k
      /\ \A m \in members \ {n} : a[m] = IF at[m] > i THEN at[m] - 1 ELSE at[m]
  BY <1>1, <1>3, <1>6
<1>8. Entries[i].n = n BY <1>3, <1>6
<1>9. \A j \in 1..k : /\ (j < i => Entries'[j] = Entries[j])
                      /\ (j > i => Entries'[j - 1] = Entries[j])
  <2> SUFFICES ASSUME NEW j \in 1..k, j # i
               PROVE  /\ (j < i => Entries'[j] = Entries[j])
                      /\ (j > i => Entries'[j - 1] = Entries[j])
    BY <1>7
  <2>1. PICK m \in members : m = Walk[j] BY <1>3
  <2>2. at[m] = j /\ Entries[j] = [n |-> m, f |-> fire[m]] BY <1>3, <2>1
  <2>3. m # n BY <1>6, <2>2
  <2>4. a[m] = IF j > i THEN j - 1 ELSE j BY <1>7, <2>2, <2>3
  <2>5. Walk'[a[m]] = m /\ a[m] \in 1..(k - 1) BY <1>4, <2>3
  <2>6. Entries'[a[m]] = Entries[j] BY <1>4, <2>2, <2>5
  <2> QED BY <1>7, <2>4, <2>6
<1>10. Entries' = SubSeq(Entries, 1, i - 1) \o SubSeq(Entries, i + 1, Len(Entries))
  <2>1. PICK q \in Seq(Entry) : q = Entries BY <1>3
  <2>2. PICK r \in Seq(Entry) : r = Entries' BY <1>4
  <2>3. Len(q) = k /\ Len(r) = k - 1 BY <1>3, <1>4, <2>1, <2>2
  <2>4. ASSUME NEW j \in 1..(i - 1) PROVE r[j] = q[j]
    <3>1. j \in 1..k /\ j < i BY <1>3, <1>7
    <3> QED BY <1>9, <2>1, <2>2, <3>1
  <2>5. ASSUME NEW j \in (i + 1)..Len(q) PROVE r[j - 1] = q[j]
    <3>1. j \in 1..k /\ j > i BY <1>3, <1>7, <2>3
    <3> QED BY <1>9, <2>1, <2>2, <3>1
  <2>6. i \in 1..Len(q) BY <2>3
  <2>7. r = SubSeq(q, 1, i - 1) \o SubSeq(q, i + 1, Len(q)) BY <2>3, <2>4, <2>5, <2>6, TakenOut
  <2> QED BY <2>1, <2>2, <2>7
<1> QED BY <1>5, <1>8, <1>10

----------------------------------------------------------------------------
(* The steps of the queue                                                  *)

\* The number of elements of a set means the same in the queue's module.
LEMMA SameCardinality == \A S : Queue!Cardinality(S) = Cardinality(S)
BY DEF Queue!Cardinality, Cardinality

\* So does the insertion into a sequence.
LEMMA SameInsertAt ==
  \A s, i, x : Queue!InsertAt(s, i, x) = SubSeq(s, 1, i - 1) \o <<x>> \o SubSeq(s, i, Len(s))
BY DEF Queue!InsertAt

\* The linking of a leaf is an arrival.
LEMMA Arrives ==
  ASSUME TInv, Listed, Listed', NEW n, Enters(n), fire' = fire, running' = running
  PROVE  Queue!Next
<1>1. /\ n \in Blocks /\ fire[n] \in Fires
      /\ n \notin {Entries[i].n : i \in DOMAIN Entries}
  BY QueueEntered
<1>2. PICK i, x : /\ i = Cardinality({j \in DOMAIN Entries : Entries[j].f <= fire[n]}) + 1
                  /\ x = [n |-> n, f |-> fire[n]]
                  /\ Entries' = SubSeq(Entries, 1, i - 1) \o <<x>> \o SubSeq(Entries, i, Len(Entries))
  BY QueueEntered
<1>3. Queue!InsertAt(Entries, i, x) = Entries' BY <1>2, SameInsertAt
<1>4. PICK f \in Fires : f = fire[n] BY <1>1
<1>5. /\ x = [n |-> n, f |-> f]
      /\ i = Queue!Cardinality({j \in DOMAIN Entries : Entries[j].f <= f}) + 1
  BY <1>2, <1>4, SameCardinality
<1>6. Queue!Enter(n, f) BY <1>1, <1>3, <1>5 DEF Queue!Enter, Queue!Queued, Entries
<1> QED BY <1>1, <1>6 DEF Queue!Next

\* The splicing out of a node is a departure.
LEMMA Departs ==
  ASSUME Listed, Listed', NEW n \in Blocks, Leaves(n), fire' = fire, running' = running
  PROVE  Queue!Next
<1>1. PICK i \in DOMAIN Entries :
        /\ Entries[i].n = n
        /\ Entries' = SubSeq(Entries, 1, i - 1) \o SubSeq(Entries, i + 1, Len(Entries))
  BY QueueLeft
<1>2. Queue!Leave(n) BY <1>1 DEF Queue!Leave, Queue!RemoveAt, Entries
<1> QED BY <1>2 DEF Queue!Next

\* The queue of the empty tree is empty.
LEMMA NothingQueued ==
  ASSUME TreeInv, Listed, root = Nil
  PROVE  Entries = <<>>
<1>1. PICK k, at, ends : IsTree(Tree, members, k, at, ends) BY DEF TreeInv
<1>2. members = {} BY <1>1 DEF IsTree, Rooted, Tree
<1>3. Lined(k, at) BY <1>1 DEF Listed
<1>4. k \in Nat /\ Entries \in Seq(Entry) /\ Len(Entries) = k /\ \A i \in 1..k : Walk[i] \in members
  BY <1>3 DEF Lined
<1>5. k = 0
  <2>1. k # 0 => 1 \in 1..k BY <1>4
  <2> QED BY <1>2, <1>4, <2>1
<1> QED BY <1>4, <1>5, EmptySeq

\* A pick from the empty tree is a choice from the empty queue.
LEMMA ChoosesNone ==
  ASSUME TInv, TreeInv, Listed, Listed', NEW c \in CPUs, PickEmpty(c)
  PROVE  Queue!Next
<1>1. UNCHANGED <<root, link, members, fire>> BY DEF PickEmpty, tree, node
<1>2. Entries' = Entries BY <1>1, OrderSame, QueueKept
<1>3. Entries = <<>>
  <2>1. root = Nil BY DEF PickEmpty
  <2> QED BY <2>1, NothingQueued
<1>4. running' = [running EXCEPT ![c] = Nil] BY DEF PickEmpty
<1>5. Queue!Choose(c) BY <1>2, <1>3, <1>4 DEF Queue!Choose, Entries
<1> QED BY <1>5 DEF Queue!Next

\* A pick is the choice of the head: the search for the leftmost node ends at
\* the first of the members.
LEMMA ChoosesHead ==
  ASSUME TInv, TreeInv, Listed, Listed', NEW c \in CPUs, PickDone(c)
  PROVE  Queue!Next
<1>1. UNCHANGED <<root, link, members, fire>> BY DEF PickDone, tree
<1>2. Entries' = Entries BY <1>1, OrderSame, QueueKept
<1>3. /\ pc[c] = "leftmost" /\ link[cur[c]]["L"] = Nil
      /\ running' = [running EXCEPT ![c] = cur[c]]
  BY DEF PickDone
<1>4. PICK k, at, ends : IsTree(Tree, members, k, at, ends) /\ Placed(c, at, ends) BY DEF TreeInv
<1>5. PICK n \in members : n = cur[c] /\ ends[n]["L"] = 1 BY <1>3, <1>4 DEF Placed
<1>6. at[n] = 1
  <2>1. Branch(Tree, members, at, ends, n, "L") BY <1>4 DEF IsTree, Sides
  <2>2. Tree.link[n]["L"] = Nil BY <1>3, <1>5 DEF Tree
  <2>3. ends[n]["L"] = at[n] BY <2>1, <2>2 DEF Branch
  <2> QED BY <1>5, <2>3
<1>7. Lined(k, at) BY <1>4 DEF Listed
<1>8. /\ Entries \in Seq(Entry) /\ Len(Entries) = k /\ 1 \in 1..k
      /\ Entries[1] = [n |-> n, f |-> fire[n]]
  <2>1. 1 \in 1..k /\ Walk[1] = n BY <1>6, <1>7 DEF Lined
  <2> QED BY <1>7, <2>1 DEF Lined
<1>9. Entries # <<>> /\ Head(Entries) = Entries[1]
  <2>1. Entries # <<>> BY <1>8, EmptySeq
  <2> QED BY <1>8, <2>1
<1>10. Head(Entries).n = cur[c] BY <1>5, <1>8, <1>9
<1>11. running' = [running EXCEPT ![c] = IF Entries = <<>> THEN Nil ELSE Head(Entries).n]
  BY <1>3, <1>9, <1>10
<1>12. Queue!Choose(c) BY <1>2, <1>11 DEF Queue!Choose, Entries
<1> QED BY <1>12 DEF Queue!Next

\* Every other step leaves the queue alone: rotations keep the order, and the
\* keys that change are those of nodes outside the tree.
LEMMA QueueRests ==
  ASSUME ~AllocFails, ~UpdateLinked, IInv, TInv, CInv, TreeInv, OwnInv, Listed, Listed',
         [Next]_vars,
         \A c \in CPUs : ~InsertLink(c) /\ ~RemoveSplice(c) /\ ~PickEmpty(c) /\ ~PickDone(c)
  PROVE  Entries' = Entries /\ running' = running
<1>1. ASSUME NEW c \in CPUs, Update(c) PROVE Entries' = Entries /\ running' = running
  <2>1. UNCHANGED <<root, link, members, running>> BY <1>1 DEF Update, tree
  <2>2. call[c] = "update" BY <1>1 DEF Update, IInv, CallOK
  <2>3. arg[c] \notin members /\ members \subseteq Blocks BY <2>2 DEF OwnInv, TInv, TreeTyped
  <2>4. \A m \in members : fire'[m] = fire[m] BY <1>1, <2>3 DEF Update, TInv, NodesTyped
  <2> QED BY <2>1, <2>4, OrderSame, QueueKept
<1>2. ASSUME NEW c \in CPUs, FixupRotate(c) \/ DelFixupRedSibling(c) \/ DelFixupRotate(c)
      PROVE  Entries' = Entries /\ running' = running
  <2>1. OrderKept BY <1>2, FixupRotateShape, DelFixupRedSiblingShape, DelFixupRotateShape
  <2>2. UNCHANGED <<fire, running>> BY <1>2 DEF FixupRotate, DelFixupRedSibling, DelFixupRotate, node
  <2> QED BY <2>1, <2>2, QueueKept
<1>3. ASSUME NEW c \in CPUs,
             \/ Acquire(c) \/ InsertStart(c) \/ InsertDescend(c) \/ FixupRecolour(c)
             \/ InsertDone(c) \/ RemoveSearch(c) \/ RemoveDescend(c) \/ RemoveDone(c)
             \/ DelFixupRecolour(c) \/ DelFixupDone(c) \/ PickStart(c) \/ PickDescend(c)
             \/ UpdateRelease(c) \/ Finish(c) \/ FinishUpdate(c) \/ Tune(c) \/ Release(c)
             \/ \E f \in Calls, n \in Ptrs : Call(c, f, n)
      PROVE  Entries' = Entries /\ running' = running
  <2>1. UNCHANGED <<root, link, members, fire, running>>
    BY <1>3 DEF Acquire, InsertStart, InsertDescend, FixupRecolour, InsertDone, RemoveSearch,
                RemoveDescend, RemoveDone, DelFixupRecolour, DelFixupDone, PickStart, PickDescend,
                UpdateRelease, Finish, FinishUpdate, SpinLock, Tune, Release, Call, tree, node
  <2> QED BY <2>1, OrderSame, QueueKept
<1>4. CASE Tick \/ (\E e \in Entities : NodeCreate(e)) \/ UNCHANGED vars
  <2>1. UNCHANGED <<root, link, members, running>>
    BY <1>4 DEF Tick, NodeCreate, vars, tree, cpu
  <2>2. \A n \in Blocks : owner[n] # None => fire'[n] = fire[n]
    BY <1>4 DEF Tick, NodeCreate, vars, node, TInv, NodesTyped
  <2>3. \A m \in members : fire'[m] = fire[m] BY <2>2 DEF OwnInv, TInv, TreeTyped
  <2> QED BY <2>1, <2>3, OrderSame, QueueKept
<1> QED BY <1>1, <1>2, <1>3, <1>4 DEF Next, Step, Insert, Remove, Pick

\* Every step is a step of the queue or leaves it alone.
LEMMA StepQueue ==
  ASSUME ~AllocFails, ~UpdateLinked, IInv, TInv, CInv, TreeInv, OwnInv, Listed, Listed',
         [Next]_vars
  PROVE  Queue!Next \/ (Entries' = Entries /\ running' = running)
<1>1. ASSUME NEW c \in CPUs, InsertLink(c) PROVE Queue!Next
  <2>1. Enters(arg[c]) BY <1>1, InsertLinkShape
  <2>2. UNCHANGED <<fire, running>> BY <1>1 DEF InsertLink, node
  <2> QED BY <2>1, <2>2, Arrives
<1>2. ASSUME NEW c \in CPUs, RemoveSplice(c) PROVE Queue!Next
  <2>1. Leaves(arg[c]) BY <1>2, RemoveSpliceShape
  <2>2. UNCHANGED <<fire, running>> BY <1>2 DEF RemoveSplice, node
  <2>3. arg[c] \in Blocks BY <2>1 DEF Leaves, IsTree
  <2> QED BY <2>1, <2>2, <2>3, Departs
<1> QED BY <1>1, <1>2, ChoosesNone, ChoosesHead, QueueRests

\* The tree is a queue ordered by Virtual Fire: whatever the CPUs call, and
\* however their steps interleave, an insertion puts the node behind those
\* whose keys are not greater, a removal takes it out, a pick returns the
\* oldest of the nodes with the smallest key, and no rotation, repair or search
\* is seen - if no allocation fails and no caller updates a node in the tree.
THEOREM TreeIsQueue == ASSUME ~AllocFails, ~UpdateLinked PROVE Spec => ImplementsReadyQueue
<1> DEFINE Q == [i \in DOMAIN Walk |-> [n |-> Walk[i], f |-> fire[Walk[i]]]]
<1>1. Init /\ TreeInv /\ Listed => Queue!Init
  <2> SUFFICES ASSUME Init, TreeInv, Listed PROVE Queue!Init OBVIOUS
  <2>1. running = [c \in CPUs |-> Nil] /\ root = Nil BY DEF Init, InitWith
  <2>2. Entries = <<>> BY <2>1, NothingQueued
  <2> QED BY <2>1, <2>2 DEF Queue!Init, Entries
<1>2. /\ IInv /\ TInv /\ CInv /\ TreeInv /\ OwnInv /\ Listed /\ Listed' /\ [Next]_vars
      => [Queue!Next]_<<Q, running>>
  BY StepQueue DEF Entries
<1>3. TInv => Listed BY Listing
<1> QED BY <1>1, <1>2, <1>3, Control, Typed, MembersCounted, TreeKept, PTL
        DEF Spec, ImplementsReadyQueue, Queue!Spec

=============================================================================
