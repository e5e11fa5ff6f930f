----------------------------- MODULE TreeLinks ------------------------------
(***************************************************************************)
(* How the steps of TreeSched change the links of a tree, for any tree: a  *)
(* rotation, the hanging of a new leaf and the removal of a node leave a   *)
(* tree of the members they should, in the order they were in.  And how    *)
(* they change its colours: each turn of the repair after an insertion or  *)
(* a removal leaves one place at which the colours are wrong, nearer to    *)
(* the root, or none.                                                      *)
(***************************************************************************)
EXTENDS TreeSchedProofs, Sequences

----------------------------------------------------------------------------
(* The tree as its members in order: q is the in-order sequence, at[n] the  *)
(* place of n in it, and the subtree below n takes the places from          *)
(* ends[n]["L"] to ends[n]["R"].                                            *)

Way(s) == IF s = "L" THEN -1 ELSE 1

\* The subtree on side s of n takes the places beside n's up to the end of n's
\* own, and is hung below n.
Branch(t, S, at, ends, n, s) ==
  LET c == t.link[n][s] IN
  IF c = Nil THEN ends[n][s] = at[n]
  ELSE /\ c \in S
       /\ t.link[c]["P"] = n
       /\ ends[c][s] = ends[n][s]
       /\ ends[c][Opposite(s)] = at[n] + Way(s)

\* A member is the root or a child of its parent.
Hung(t, S, n) ==
  \/ n = t.root
  \/ /\ t.link[n]["P"] \in S
     /\ \E s \in Sides : t.link[t.link[n]["P"]][s] = n

\* The root takes all places.
Rooted(t, S, k, ends) ==
  IF t.root = Nil THEN S = {}
  ELSE /\ t.root \in S
       /\ t.link[t.root]["P"] = Nil
       /\ ends[t.root]["L"] = 1
       /\ ends[t.root]["R"] = k

Ordered(S, k, at) ==
  /\ k \in Nat
  /\ at \in [S -> Int]
  /\ \A n \in S : 1 <= at[n] /\ at[n] <= k
  /\ \A m, n \in S : at[m] = at[n] => m = n
  /\ \A i \in 1..k : \E n \in S : at[n] = i

Spans(S, at, ends) ==
  /\ ends \in [S -> [Sides -> Int]]
  /\ \A n \in S : ends[n]["L"] <= at[n] /\ at[n] <= ends[n]["R"]

IsTree(t, S, k, at, ends) ==
  /\ t \in Trees
  /\ S \subseteq Blocks
  /\ Ordered(S, k, at)
  /\ Spans(S, at, ends)
  /\ \A n \in S, s \in Sides : Branch(t, S, at, ends, n, s)
  /\ \A n \in S : Hung(t, S, n)
  /\ Rooted(t, S, k, ends)

----------------------------------------------------------------------------
\* The two sides of a node, and that Nil is no node.
LEMMA SidesAre ==
  /\ \A s \in Sides : /\ Opposite(s) \in Sides
                      /\ Opposite(s) # s
                      /\ Opposite(Opposite(s)) = s
                      /\ s # "P"
                      /\ Way(s) \in Int
                      /\ Way(s) + Way(Opposite(s)) = 0
                      /\ s \in Dirs
  /\ \A s, d \in Sides : d = s \/ d = Opposite(s)
  /\ Nil \notin Blocks
<1>1. Nil \notin Blocks BY BlocksAssumption DEF Blocks
<1>2. \A s, d \in Sides : d = s \/ d = Opposite(s) BY DEF Sides, Opposite
<1>3. ASSUME NEW s \in Sides
      PROVE  /\ Opposite(s) \in Sides /\ Opposite(s) # s /\ Opposite(Opposite(s)) = s
             /\ s # "P" /\ s \in Dirs
  BY DEF Sides, Opposite, Dirs
<1>4. ASSUME NEW s \in Sides PROVE Way(s) \in Int /\ Way(s) + Way(Opposite(s)) = 0
  <2>1. CASE s = "L" BY <2>1 DEF Opposite, Way
  <2>2. CASE s = "R" BY <2>2 DEF Opposite, Way
  <2> QED BY <2>1, <2>2 DEF Sides
<1> QED BY <1>1, <1>2, <1>3, <1>4

\* A child is another node than its parent, and another than its sibling.
LEMMA Family ==
  ASSUME NEW t, NEW S, NEW k, NEW at, NEW ends, IsTree(t, S, k, at, ends)
  PROVE  /\ \A n \in S, s \in Sides : t.link[n][s] # n
         /\ \A n \in S : t.link[n]["L"] = t.link[n]["R"] => t.link[n]["L"] = Nil
         /\ \A n \in S, s \in Sides : t.link[n][s] \in S \cup {Nil}
         /\ \A m, n \in S, s, d \in Sides :
              t.link[m][s] = t.link[n][d] /\ t.link[m][s] # Nil => m = n /\ s = d
         /\ \A n \in S : t.link[n]["P"] = Nil <=> n = t.root
         /\ \A n \in S, s \in Sides : t.link[n][s] # t.root \/ t.root = Nil
         /\ \A n \in S : n # Nil
<1>1. \A n \in S : n # Nil BY SidesAre DEF IsTree
<1>2. ASSUME NEW n \in S, NEW s \in Sides PROVE t.link[n][s] # n
  <2>1. ends[n][s] \in Int /\ ends[n][Opposite(s)] \in Int /\ at[n] \in Int
    BY SidesAre DEF IsTree, Ordered, Spans
  <2>2. ends[n]["L"] <= at[n] /\ at[n] <= ends[n]["R"] BY DEF IsTree, Ordered, Spans
  <2>3. Branch(t, S, at, ends, n, s) BY DEF IsTree
  <2> QED BY <1>1, <2>1, <2>2, <2>3 DEF Branch, Sides, Opposite, Way
<1>3. ASSUME NEW n \in S, t.link[n]["L"] = t.link[n]["R"], t.link[n]["L"] # Nil PROVE FALSE
  <2> DEFINE c == t.link[n]["L"]
  <2>1. "L" \in Sides /\ "R" \in Sides BY DEF Sides
  <2>2. Branch(t, S, at, ends, n, "L") /\ Branch(t, S, at, ends, n, "R") BY <2>1 DEF IsTree
  <2>3. /\ c \in S
        /\ ends[c]["R"] = at[n] - 1 /\ ends[c]["L"] = at[n] + 1
    BY <1>3, <2>1, <2>2 DEF Branch, Opposite, Way, IsTree, Spans
  <2>4. ends[c]["L"] <= at[c] /\ at[c] <= ends[c]["R"] /\ at[c] \in Int /\ at[n] \in Int
        /\ ends[c]["L"] \in Int /\ ends[c]["R"] \in Int
    BY <2>1, <2>3 DEF IsTree, Ordered, Spans
  <2> QED BY <2>3, <2>4
<1>4. ASSUME NEW n \in S, NEW s \in Sides
      PROVE  /\ t.link[n][s] \in S \cup {Nil}
             /\ t.link[n][s] # Nil => t.link[t.link[n][s]]["P"] = n
  BY DEF IsTree, Branch
<1>5. \A n \in S : t.link[n]["P"] = Nil <=> n = t.root BY <1>1 DEF IsTree, Hung, Rooted
<1>6. ASSUME NEW m \in S, NEW n \in S, NEW s \in Sides, NEW d \in Sides,
             t.link[m][s] = t.link[n][d], t.link[m][s] # Nil
      PROVE  m = n /\ s = d
  <2>1. m = n BY <1>4, <1>6
  <2> QED BY <1>3, <1>6, <2>1 DEF Sides
<1>7. ASSUME NEW n \in S, NEW s \in Sides, t.link[n][s] = t.root, t.root # Nil PROVE FALSE
  BY <1>1, <1>4, <1>5, <1>7
<1> QED BY <1>1, <1>2, <1>3, <1>4, <1>5, <1>6, <1>7

\* What a rotation writes: x goes down to side s, its child y up, and the
\* inner subtree of y changes over to x.
Rotated(t, r, x, s) ==
  LET o == Opposite(s)
      y == t.link[x][o]
      z == t.link[y][s]
      p == t.link[x]["P"]
  IN  /\ r \in Trees
      /\ r.root = IF p = Nil THEN y ELSE t.root
      /\ \A n \in Ptrs \ {Nil}, d \in Sides :
           r.link[n][d] = IF n = x /\ d = o THEN z
                          ELSE IF n = y /\ d = s THEN x
                          ELSE IF n = p /\ t.link[n][d] = x THEN y
                          ELSE t.link[n][d]
      /\ \A n \in Ptrs : r.link[n]["P"] = IF n = x THEN y
                                      ELSE IF n = y THEN p
                                      ELSE IF n = z /\ z # Nil THEN x
                                      ELSE t.link[n]["P"]

\* What an assignment to one pointer changes.
LEMMA SetLink ==
  ASSUME NEW t \in Trees, NEW n \in Ptrs, NEW d \in Dirs, NEW v \in Ptrs
  PROVE  LET r == [t EXCEPT !.link[n][d] = v] IN
         /\ r \in Trees
         /\ r.root = t.root
         /\ \A m \in Ptrs, e \in Dirs : r.link[m][e] = IF m = n /\ e = d THEN v ELSE t.link[m][e]
BY DEF Trees

\* What hanging v below n changes: one child and one parent.
LEMMA HangLinks ==
  ASSUME NEW t \in Trees, NEW n \in Ptrs, NEW s \in Sides, NEW v \in Ptrs
  PROVE  LET r == Hang(t, n, s, v) IN
         /\ r \in Trees
         /\ r.root = t.root
         /\ \A m \in Ptrs, d \in Sides : r.link[m][d] = IF m = n /\ d = s THEN v ELSE t.link[m][d]
         /\ \A m \in Ptrs : r.link[m]["P"] = IF m = v /\ v # Nil THEN n ELSE t.link[m]["P"]
<1> DEFINE t1 == [t EXCEPT !.link[n][s] = v]
           t2 == [t1 EXCEPT !.link[v]["P"] = n]
<1>1. s \in Dirs /\ "P" \in Dirs /\ Sides \subseteq Dirs /\ \A d \in Sides : d # "P"
  BY DEF Sides, Dirs
<1>2. /\ t1 \in Trees /\ t1.root = t.root
      /\ \A m \in Ptrs, e \in Dirs : t1.link[m][e] = IF m = n /\ e = s THEN v ELSE t.link[m][e]
  BY <1>1, SetLink
<1> HIDE DEF t1
<1>3. /\ t2 \in Trees /\ t2.root = t1.root
      /\ \A m \in Ptrs, e \in Dirs : t2.link[m][e] = IF m = v /\ e = "P" THEN n ELSE t1.link[m][e]
  BY <1>1, <1>2, SetLink
<1> HIDE DEF t2
<1>4. Hang(t, n, s, v) = IF v = Nil THEN t1 ELSE t2 BY DEF Hang, t1, t2
<1>5. CASE v = Nil BY <1>1, <1>2, <1>4, <1>5
<1>6. CASE v # Nil BY <1>1, <1>2, <1>3, <1>4, <1>6
<1> QED BY <1>5, <1>6

\* Putting v where u hangs.
LEMMA ReplaceLinks ==
  ASSUME NEW t \in Trees, NEW u \in Ptrs, NEW v \in Ptrs, u # Nil,
         \* u hangs below its parent on one side only, or is the root
         LET p == t.link[u]["P"] IN
           p # Nil => /\ \E s \in Sides : t.link[p][s] = u
                      /\ t.link[p]["L"] # t.link[p]["R"]
  PROVE  LET p == t.link[u]["P"]
             r == Replace(t, u, v) IN
         /\ r \in Trees
         /\ r.root = IF p = Nil THEN v ELSE t.root
         /\ \A m \in Ptrs, d \in Sides :
              r.link[m][d] = IF m = p /\ p # Nil /\ t.link[m][d] = u THEN v ELSE t.link[m][d]
         /\ \A m \in Ptrs : r.link[m]["P"] = t.link[m]["P"]
<1> DEFINE p == t.link[u]["P"]
           d == IF u = t.link[p]["L"] THEN "L" ELSE "R"
           r == [t EXCEPT !.link[p][d] = v]
<1>1. "P" \in Dirs /\ Sides \subseteq Dirs /\ \A e \in Sides : e # "P" BY DEF Sides, Dirs
<1>2. p \in Ptrs BY <1>1 DEF Trees
<1>3. d \in Sides BY DEF Sides
<1>4. CASE p = Nil
  <2>1. Replace(t, u, v) = [t EXCEPT !.root = v] BY <1>4 DEF Replace
  <2>2. [t EXCEPT !.root = v] \in Trees /\ [t EXCEPT !.root = v].root = v
        /\ [t EXCEPT !.root = v].link = t.link
    BY DEF Trees
  <2> QED BY <1>4, <2>1, <2>2
<1>5. CASE p # Nil
  <2>1. Replace(t, u, v) = r BY <1>5 DEF Replace
  <2>2. \A e \in Sides : t.link[p][e] = u <=> e = d BY <1>5 DEF Sides
  <2> HIDE DEF p, d
  <2>3. /\ r \in Trees /\ r.root = t.root
        /\ \A m \in Ptrs, e \in Dirs : r.link[m][e] = IF m = p /\ e = d THEN v ELSE t.link[m][e]
    BY <1>1, <1>2, <1>3, SetLink
  <2> HIDE DEF r
  <2>4. \A m \in Ptrs, e \in Sides : r.link[m][e] = IF m = p /\ p # Nil /\ t.link[m][e] = u THEN v ELSE t.link[m][e]
    BY <1>1, <1>5, <2>2, <2>3
  <2>5. \A m \in Ptrs : r.link[m]["P"] = t.link[m]["P"] BY <1>1, <1>3, <2>3
  <2> QED BY <1>5, <2>1, <2>3, <2>4, <2>5 DEF p
<1> QED BY <1>4, <1>5

\* The subtree below a child is smaller.
LEMMA Smaller ==
  ASSUME NEW t, NEW S, NEW k, NEW at, NEW ends, IsTree(t, S, k, at, ends), NEW n \in S,
         NEW s \in Sides, NEW c, c = t.link[n][s], c # Nil
  PROVE  /\ c \in S
         /\ ends[n]["L"] <= ends[c]["L"] /\ ends[c]["R"] <= ends[n]["R"]
         /\ ends[c]["R"] - ends[c]["L"] < ends[n]["R"] - ends[n]["L"]
         /\ \A m \in S : /\ ends[m]["L"] \in Int /\ ends[m]["R"] \in Int /\ at[m] \in Int
                         /\ ends[m]["L"] <= at[m] /\ at[m] <= ends[m]["R"]
<1>1. \A m \in S : /\ ends[m]["L"] \in Int /\ ends[m]["R"] \in Int /\ at[m] \in Int
                   /\ ends[m]["L"] <= at[m] /\ at[m] <= ends[m]["R"]
  BY DEF IsTree, Ordered, Spans, Sides
<1>2. /\ c \in S
      /\ ends[c][s] = ends[n][s]
      /\ ends[c][Opposite(s)] = at[n] + Way(s)
  BY DEF IsTree, Branch
<1>3. CASE s = "L" BY <1>1, <1>2, <1>3 DEF Opposite, Way
<1>4. CASE s = "R" BY <1>1, <1>2, <1>4 DEF Opposite, Way
<1> QED BY <1>1, <1>2, <1>3, <1>4 DEF Sides

\* No node is a child of its own child.
LEMMA NoCircle ==
  ASSUME NEW t, NEW S, NEW k, NEW at, NEW ends, IsTree(t, S, k, at, ends), NEW n \in S,
         NEW s \in Sides, NEW d \in Sides, t.link[n][s] # Nil
  PROVE  t.link[t.link[n][s]][d] # n
<1> DEFINE c == t.link[n][s]
<1> SUFFICES ASSUME t.link[c][d] = n PROVE FALSE OBVIOUS
<1>1. c \in S /\ n # Nil BY Family
<1>2. ends[c]["R"] - ends[c]["L"] < ends[n]["R"] - ends[n]["L"] /\ ends[c]["L"] \in Int /\ ends[c]["R"] \in Int
  BY <1>1, Smaller
<1> HIDE DEF c
<1>3. ends[n]["R"] - ends[n]["L"] < ends[c]["R"] - ends[c]["L"] /\ ends[n]["L"] \in Int /\ ends[n]["R"] \in Int
  BY <1>1, Smaller
<1> QED BY <1>2, <1>3

\* A rotation turns the two links between the node, its child and its parent,
\* and moves one subtree across.
LEMMA RotateLinks ==
  ASSUME NEW t, NEW S, NEW k, NEW at, NEW ends, IsTree(t, S, k, at, ends), NEW x \in S,
         NEW s \in Sides, t.link[x][Opposite(s)] # Nil
  PROVE  Rotated(t, Rotate(t, x, s), x, s)
<1> DEFINE o == Opposite(s)
           y == t.link[x][o]
           z == t.link[y][s]
           p == t.link[x]["P"]
           t1 == Hang(t, x, o, z)
           t2 == [t1 EXCEPT !.link[y]["P"] = t1.link[x]["P"]]
           t3 == Replace(t2, x, y)
           r  == Hang(t3, y, s, x)
<1>0. Rotate(t, x, s) = r BY DEF Rotate
<1>1. o \in Sides /\ o # s /\ S \subseteq Ptrs /\ t \in Trees /\ \A d \in Sides : d = s \/ d = o
  BY SidesAre DEF IsTree, Ptrs
<1>2. y \in S /\ y # Nil /\ y # x /\ z # y /\ z # x /\ z \in S \cup {Nil} /\ x # Nil
  BY <1>1, Family, NoCircle
<1>3. /\ p # Nil => /\ p \in S
                    /\ p # x
                    /\ p # y
                    /\ \E d \in Sides : t.link[p][d] = x
                    /\ t.link[p]["L"] # t.link[p]["R"]
      /\ p = Nil <=> x = t.root
  <2>1. p = Nil <=> x = t.root BY Family
  <2>2. ASSUME p # Nil
        PROVE  p \in S /\ \E d \in Sides : t.link[p][d] = x
    BY <2>1, <2>2 DEF IsTree, Hung
  <2>3. ASSUME p # Nil PROVE p # x /\ p # y
    <3>1. PICK d \in Sides : t.link[p][d] = x BY <2>2, <2>3
    <3>2. p # x BY <2>2, <2>3, <3>1, Family
    <3>3. p # y BY <1>1, <1>2, <2>2, <2>3, <3>1, NoCircle
    <3> QED BY <3>2, <3>3
  <2>4. ASSUME p # Nil PROVE t.link[p]["L"] # t.link[p]["R"]
    <3>1. PICK d \in Sides : t.link[p][d] = x BY <2>2, <2>4
    <3> QED BY <1>2, <2>2, <2>4, <3>1, Family DEF Sides
  <2> QED BY <2>1, <2>2, <2>3, <2>4
<1>4. p \in Ptrs /\ Nil \in Ptrs /\ \A d \in Sides : d # "P" /\ d \in Dirs
  <2>1. "P" \in Dirs BY DEF Dirs
  <2> QED BY <1>1, <2>1, SidesAre DEF Trees, Ptrs
<1> HIDE DEF o, y, z, p
<1>5. /\ t1 \in Trees
      /\ t1.root = t.root
      /\ \A m \in Ptrs, d \in Sides : t1.link[m][d] = IF m = x /\ d = o THEN z ELSE t.link[m][d]
      /\ \A m \in Ptrs : t1.link[m]["P"] = IF m = z /\ z # Nil THEN x ELSE t.link[m]["P"]
  <2>1. x \in Ptrs /\ o \in Sides /\ z \in Ptrs BY <1>1, <1>2, <1>4
  <2> QED BY <1>1, <2>1, HangLinks
<1> HIDE DEF t1
<1>6. t1.link[x]["P"] = p BY <1>1, <1>2, <1>5 DEF p
<1>7. /\ t2 \in Trees
      /\ t2.root = t.root
      /\ \A m \in Ptrs, d \in Sides : t2.link[m][d] = t1.link[m][d]
      /\ \A m \in Ptrs : t2.link[m]["P"] = IF m = y THEN p ELSE t1.link[m]["P"]
  <2>1. y \in Ptrs /\ "P" \in Dirs BY <1>1, <1>2 DEF Dirs
  <2>2. /\ t2 \in Trees
        /\ t2.root = t1.root
        /\ \A m \in Ptrs, d \in Dirs : t2.link[m][d] = IF m = y /\ d = "P" THEN t1.link[x]["P"] ELSE t1.link[m][d]
    BY <1>4, <1>5, <1>6, <2>1, SetLink
  <2> QED BY <1>4, <1>5, <1>6, <2>1, <2>2
<1> HIDE DEF t2
<1>8. /\ t3 \in Trees
      /\ t3.root = IF p = Nil THEN y ELSE t2.root
      /\ \A m \in Ptrs, d \in Sides :
           t3.link[m][d] = IF m = p /\ p # Nil /\ t2.link[m][d] = x THEN y ELSE t2.link[m][d]
      /\ \A m \in Ptrs : t3.link[m]["P"] = t2.link[m]["P"]
  <2>1. t2.link[x]["P"] = p BY <1>1, <1>2, <1>5, <1>6, <1>7
  <2>2. ASSUME p # Nil
        PROVE  (\E d \in Sides : t2.link[p][d] = x) /\ t2.link[p]["L"] # t2.link[p]["R"]
    <3>1. \A d \in Sides : t2.link[p][d] = t.link[p][d] BY <1>3, <1>4, <1>5, <1>7, <2>2
    <3>2. "L" \in Sides /\ "R" \in Sides BY DEF Sides
    <3> QED BY <1>3, <2>2, <3>1, <3>2
  <2>3. x \in Ptrs /\ y \in Ptrs BY <1>1, <1>2
  <2> QED BY <1>2, <1>7, <2>1, <2>2, <2>3, ReplaceLinks
<1> HIDE DEF t3
<1>9. /\ r \in Trees
      /\ r.root = t3.root
      /\ \A m \in Ptrs, d \in Sides : r.link[m][d] = IF m = y /\ d = s THEN x ELSE t3.link[m][d]
      /\ \A m \in Ptrs : r.link[m]["P"] = IF m = x /\ x # Nil THEN y ELSE t3.link[m]["P"]
  <2>1. x \in Ptrs /\ y \in Ptrs BY <1>1, <1>2
  <2> QED BY <1>8, <2>1, HangLinks
<1> HIDE DEF r
<1>10. \A n \in Ptrs \ {Nil}, d \in Sides :
         r.link[n][d] = IF n = x /\ d = o THEN z
                        ELSE IF n = y /\ d = s THEN x
                        ELSE IF n = p /\ t.link[n][d] = x THEN y
                        ELSE t.link[n][d]
  BY <1>1, <1>2, <1>3, <1>5, <1>7, <1>8, <1>9
<1>11. \A n \in Ptrs : r.link[n]["P"] = IF n = x THEN y
                                    ELSE IF n = y THEN p
                                    ELSE IF n = z /\ z # Nil THEN x
                                    ELSE t.link[n]["P"]
  BY <1>1, <1>2, <1>3, <1>5, <1>7, <1>8, <1>9
<1>12. r.root = IF p = Nil THEN y ELSE t.root BY <1>7, <1>8, <1>9
<1> QED BY <1>0, <1>9, <1>10, <1>11, <1>12 DEF Rotated, o, y, z, p

\* One end of a subtree set to a place.
LEMMA SetEnd ==
  ASSUME NEW S, NEW ends \in [S -> [Sides -> Int]], NEW n \in S, NEW d \in Sides, NEW v \in Int
  PROVE  LET e == [ends EXCEPT ![n][d] = v] IN
         /\ e \in [S -> [Sides -> Int]]
         /\ \A m \in S, c \in Sides : e[m][c] = IF m = n /\ c = d THEN v ELSE ends[m][c]
         /\ \A m \in S : m # n => e[m] = ends[m]
OBVIOUS

\* A rotation leaves the tree a tree with the members in the same order.
LEMMA RotateTree ==
  ASSUME NEW t, NEW S, NEW k, NEW at, NEW ends, IsTree(t, S, k, at, ends), NEW x \in S,
         NEW s \in Sides, NEW y, y = t.link[x][Opposite(s)], y # Nil,
         NEW r, Rotated(t, r, x, s)
  PROVE  IsTree(r, S, k, at, [ends EXCEPT ![x][Opposite(s)] = at[y] + Way(s), ![y][s] = ends[x][s]])
<1> DEFINE o == Opposite(s)
           z == t.link[y][s]
           p == t.link[x]["P"]
           e == [ends EXCEPT ![x][o] = at[y] + Way(s), ![y][s] = ends[x][s]]
<1>1. o \in Sides /\ o # s /\ S \subseteq Ptrs /\ t \in Trees /\ Opposite(o) = s
      /\ (\A d \in Sides : d = s \/ d = o) /\ Nil \notin S /\ S \subseteq Ptrs \ {Nil}
  BY SidesAre DEF IsTree, Ptrs
<1>2. y \in S /\ y # Nil /\ y # x /\ z # y /\ z # x /\ z \in S \cup {Nil} /\ x # Nil
  BY <1>1, Family, NoCircle
<1>3. /\ r \in Trees
      /\ r.root = IF p = Nil THEN y ELSE t.root
      /\ \A n \in S, d \in Sides :
           r.link[n][d] = IF n = x /\ d = o THEN z
                          ELSE IF n = y /\ d = s THEN x
                          ELSE IF n = p /\ t.link[n][d] = x THEN y
                          ELSE t.link[n][d]
      /\ \A n \in S : r.link[n]["P"] = IF n = x THEN y
                                      ELSE IF n = y THEN p
                                      ELSE IF n = z THEN x
                                      ELSE t.link[n]["P"]
  BY <1>1 DEF Rotated
<1>4. /\ at \in [S -> Int] /\ ends \in [S -> [Sides -> Int]]
      /\ (\A n \in S : ends[n]["L"] <= at[n] /\ at[n] <= ends[n]["R"])
      /\ "L" \in Sides /\ "R" \in Sides
      /\ Way(s) \in Int /\ Way(o) \in Int /\ Way(s) + Way(o) = 0
  BY SidesAre DEF IsTree, Ordered, Spans, Sides
<1>5. /\ t.link[y]["P"] = x
      /\ ends[y][o] = ends[x][o]
      /\ ends[y][s] = at[x] + Way(o)
  BY <1>1, <1>2 DEF IsTree, Branch
<1>6. /\ z = Nil => ends[y][s] = at[y]
      /\ z # Nil => /\ z \in S /\ t.link[z]["P"] = y
                    /\ ends[z][s] = ends[y][s] /\ ends[z][o] = at[y] + Way(s)
  BY <1>1, <1>2, ZenonT(60) DEF IsTree, Branch
<1>7. p # Nil => p \in S /\ p # x /\ p # y
  <2> SUFFICES ASSUME p # Nil PROVE p \in S /\ p # x /\ p # y OBVIOUS
  <2>1. x # t.root BY Family
  <2>2. p \in S /\ \E d \in Sides : t.link[p][d] = x BY <2>1 DEF IsTree, Hung
  <2>3. PICK d \in Sides : t.link[p][d] = x BY <2>2
  <2>4. p # x BY <2>2, <2>3, Family
  <2>5. p # y BY <1>1, <1>2, <2>2, <2>3, NoCircle
  <2> QED BY <2>2, <2>4, <2>5
<1>8. /\ \A n \in S, d \in Sides : t.link[n][d] # Nil => t.link[n][d] \in S /\ t.link[t.link[n][d]]["P"] = n
      /\ \A n \in S, d \in Sides : t.link[n][d] # n
  <2>1. \A n \in S, d \in Sides : t.link[n][d] # n BY Family
  <2> QED BY <2>1 DEF IsTree, Branch
<1> HIDE DEF o, z, p
<1>9. /\ e \in [S -> [Sides -> Int]]
      /\ \A n \in S, d \in Sides : e[n][d] = IF n = x /\ d = o THEN at[y] + Way(s)
                                             ELSE IF n = y /\ d = s THEN ends[x][s]
                                             ELSE ends[n][d]
      /\ \A n \in S : n # x /\ n # y => e[n] = ends[n]
  <2> DEFINE e1 == [ends EXCEPT ![x][o] = at[y] + Way(s)]
  <2>1. at[y] + Way(s) \in Int /\ ends[x][s] \in Int BY <1>1, <1>2, <1>4
  <2>2. /\ e1 \in [S -> [Sides -> Int]]
        /\ \A n \in S, d \in Sides : e1[n][d] = IF n = x /\ d = o THEN at[y] + Way(s) ELSE ends[n][d]
        /\ \A n \in S : n # x => e1[n] = ends[n]
    BY <1>1, <1>4, <2>1, SetEnd
  <2>3. e = [e1 EXCEPT ![y][s] = ends[x][s]] OBVIOUS
  <2> HIDE DEF e1, e
  <2>4. /\ e \in [S -> [Sides -> Int]]
        /\ \A n \in S, d \in Sides : e[n][d] = IF n = y /\ d = s THEN ends[x][s] ELSE e1[n][d]
        /\ \A n \in S : n # y => e[n] = e1[n]
    BY <1>2, <2>1, <2>2, <2>3, SetEnd
  <2> QED BY <1>1, <1>2, <2>2, <2>4
<1> HIDE DEF e
<1>10. Spans(S, at, e)
  <2>1. ASSUME NEW n \in S, n # x, n # y PROVE e[n]["L"] <= at[n] /\ at[n] <= e[n]["R"]
    BY <1>4, <1>9, <2>1
  <2>2. e[x]["L"] <= at[x] /\ at[x] <= e[x]["R"] /\ e[y]["L"] <= at[y] /\ at[y] <= e[y]["R"]
    <3>1. ends[x]["L"] <= at[x] /\ at[x] <= ends[x]["R"] /\ ends[y]["L"] <= at[y] /\ at[y] <= ends[y]["R"]
          /\ ends[x]["L"] \in Int /\ ends[x]["R"] \in Int /\ ends[y]["L"] \in Int /\ ends[y]["R"] \in Int
          /\ at[x] \in Int /\ at[y] \in Int
      BY <1>2, <1>4
    <3>2. CASE s = "L"
      <4>1. o = "R" /\ Way(s) = 0 - 1 /\ Way(o) = 1 BY <3>2 DEF o, Opposite, Way
      <4>2. e[x]["L"] = ends[x]["L"] /\ e[x]["R"] = at[y] - 1 /\ e[y]["L"] = ends[x]["L"] /\ e[y]["R"] = ends[y]["R"]
        BY <1>2, <1>4, <1>9, <3>1, <3>2, <4>1
      <4> QED BY <1>5, <3>1, <3>2, <4>1, <4>2
    <3>3. CASE s = "R"
      <4>1. o = "L" /\ Way(s) = 1 /\ Way(o) = 0 - 1 BY <3>3 DEF o, Opposite, Way
      <4>2. e[x]["R"] = ends[x]["R"] /\ e[x]["L"] = at[y] + 1 /\ e[y]["R"] = ends[x]["R"] /\ e[y]["L"] = ends[y]["L"]
        BY <1>2, <1>4, <1>9, <3>1, <3>3, <4>1
      <4> QED BY <1>5, <3>1, <3>3, <4>1, <4>2
    <3> QED BY <3>2, <3>3 DEF Sides
  <2> QED BY <1>4, <1>9, <2>1, <2>2 DEF Spans
<1>11. ASSUME NEW n \in S, NEW d \in Sides PROVE Branch(r, S, at, e, n, d)
  <2> DEFINE c == t.link[n][d]
  <2>0. /\ c = Nil => ends[n][d] = at[n]
        /\ c # Nil => /\ c \in S
                      /\ t.link[c]["P"] = n
                      /\ ends[c][d] = ends[n][d]
                      /\ ends[c][Opposite(d)] = at[n] + Way(d)
    BY DEF IsTree, Branch
  <2>1. Opposite(d) \in Sides /\ Opposite(d) # d BY SidesAre
  <2> HIDE DEF c
  <2>2. CASE n = x /\ d = o
    <3>1. r.link[n][d] = z /\ e[n][d] = at[y] + Way(s) BY <1>3, <1>9, <2>2
    <3>2. CASE z = Nil
      <4>1. at[y] + Way(s) = at[x]
        <5>1. at[x] \in Int /\ at[y] \in Int BY <1>2, <1>4
        <5>2. at[y] = at[x] + Way(o) BY <1>5, <1>6, <3>2
        <5>3. Way(s) \in Int /\ Way(o) \in Int /\ Way(s) + Way(o) = 0 BY <1>4
        <5> QED BY <5>1, <5>2, <5>3
      <4> QED BY <2>2, <3>1, <3>2, <4>1 DEF Branch
    <3>3. CASE z # Nil
      <4>1. r.link[z]["P"] = x BY <1>2, <1>3, <1>6, <3>3
      <4>2. e[z][o] = at[y] + Way(s) /\ e[z][s] = at[x] + Way(o)
        BY <1>1, <1>2, <1>5, <1>6, <1>9, <3>3
      <4> QED BY <1>1, <1>6, <2>2, <3>1, <3>3, <4>1, <4>2 DEF Branch
    <3> QED BY <3>2, <3>3
  <2>3. CASE n = y /\ d = s
    <3>1. r.link[n][d] = x /\ e[n][d] = ends[x][s] BY <1>2, <1>3, <1>9, <2>3
    <3>2. r.link[x]["P"] = y BY <1>3
    <3>3. e[x][s] = ends[x][s] /\ e[x][o] = at[y] + Way(s) BY <1>1, <1>2, <1>9
    <3>4. Opposite(d) = o BY <2>3 DEF o
    <3> QED BY <1>2, <2>3, <3>1, <3>2, <3>3, <3>4 DEF Branch
  <2>4. CASE n = p /\ c = x
    <3>1. n # x /\ n # y BY <1>1, <1>7, <2>4
    <3>2. r.link[n][d] = y BY <1>3, <2>4, <3>1 DEF c
    <3>3. r.link[y]["P"] = n BY <1>2, <1>3, <2>4
    <3>4. e[n][d] = ends[n][d] BY <1>9, <3>1
    <3>5. e[y][s] = ends[x][s] /\ e[y][o] = ends[x][o] BY <1>1, <1>2, <1>5, <1>9
    <3>6. e[y][d] = ends[x][d] /\ e[y][Opposite(d)] = ends[x][Opposite(d)] BY <1>1, <2>1, <3>5
    <3> QED BY <1>2, <2>0, <2>4, <3>2, <3>3, <3>4, <3>6 DEF Branch
  <2>5. CASE ~(n = x /\ d = o) /\ ~(n = y /\ d = s) /\ ~(n = p /\ c = x)
    <3>1. r.link[n][d] = c /\ e[n][d] = ends[n][d] BY <1>3, <1>9, <2>5 DEF c
    <3>2. CASE c = Nil BY <2>0, <3>1, <3>2 DEF Branch
    <3>3. CASE c # Nil
      <4>1. c \in S /\ t.link[c]["P"] = n BY <2>0, <3>3
      <4>2. c # x BY <2>5, <4>1 DEF p
      <4>3. c # y
        <5>1. c = y => n = x BY <1>5, <4>1
        <5>2. n = x => d = s BY <1>1, <2>5
        <5>3. n = x /\ c = y => FALSE
          <6> SUFFICES ASSUME n = x, c = y PROVE FALSE OBVIOUS
          <6>1. t.link[x][s] = y /\ t.link[x][o] = y BY <5>2 DEF c, o
          <6> QED BY <1>1, <1>2, <6>1, Family
        <5> QED BY <5>1, <5>3
      <4>4. c # z
        <5>1. c = z => n = y BY <1>6, <3>3, <4>1
        <5>2. n = y => d = o BY <1>1, <2>5
        <5>3. n = y /\ c = z => FALSE
          <6> SUFFICES ASSUME n = y, c = z PROVE FALSE OBVIOUS
          <6>1. t.link[y][o] = z /\ t.link[y][s] = z BY <5>2 DEF c, z
          <6> QED BY <1>1, <1>2, <3>3, <6>1, Family
        <5> QED BY <5>1, <5>3
      <4>5. r.link[c]["P"] = n /\ e[c] = ends[c] 
        <5>1. r.link[c]["P"] = n BY <1>3, <4>1, <4>2, <4>3, <4>4
        <5>2. e[c] = ends[c] BY <1>9, <4>1, <4>2, <4>3
        <5> QED BY <5>1, <5>2
      <4> QED BY <2>0, <3>1, <3>3, <4>5 DEF Branch
    <3> QED BY <3>2, <3>3
  <2> QED BY <2>2, <2>3, <2>4, <2>5
<1>12. ASSUME NEW n \in S PROVE Hung(r, S, n)
  <2>1. CASE n = x
    <3>1. r.link[x]["P"] = y /\ r.link[y][s] = x BY <1>2, <1>3
    <3> QED BY <1>2, <2>1, <3>1 DEF Hung
  <2>2. CASE n = y
    <3>1. r.link[y]["P"] = p BY <1>2, <1>3
    <3>2. CASE p = Nil BY <1>3, <2>2, <3>2 DEF Hung
    <3>3. CASE p # Nil
      <4>1. x # t.root BY <3>3, Family DEF p
      <4>2. PICK d \in Sides : t.link[p][d] = x BY <4>1 DEF IsTree, Hung, p
      <4>3. r.link[p][d] = y BY <1>3, <1>7, <3>3, <4>2
      <4> QED BY <1>7, <2>2, <3>1, <3>3, <4>3 DEF Hung
    <3> QED BY <3>2, <3>3
  <2>3. CASE n = z /\ n # x /\ n # y
    <3>1. r.link[n]["P"] = x /\ r.link[x][o] = n BY <1>1, <1>2, <1>3, <2>3
    <3> QED BY <1>1, <3>1 DEF Hung
  <2>4. CASE n # x /\ n # y /\ n # z
    <3>1. r.link[n]["P"] = t.link[n]["P"] BY <1>3, <2>4
    <3>2. CASE n = t.root
      <4>1. p # Nil
        <5>1. x # t.root BY <2>4, <3>2
        <5> QED BY <5>1, Family DEF p
      <4> QED BY <1>3, <3>2, <4>1 DEF Hung
    <3>3. CASE n # t.root
      <4> DEFINE m == t.link[n]["P"]
      <4>1. m \in S /\ \E d \in Sides : t.link[m][d] = n BY <3>3 DEF IsTree, Hung
      <4>2. PICK d \in Sides : t.link[m][d] = n BY <4>1
      <4> HIDE DEF m
      <4>3. ~(m = x /\ d = o) BY <2>4, <4>2 DEF o
      <4>4. ~(m = y /\ d = s) BY <2>4, <4>2 DEF z
      <4>5. r.link[m][d] = n BY <1>3, <2>4, <4>1, <4>2, <4>3, <4>4
      <4> QED BY <3>1, <4>1, <4>5 DEF Hung, m
    <3> QED BY <3>2, <3>3
  <2> QED BY <2>1, <2>2, <2>3, <2>4
<1>13. Rooted(r, S, k, e)
  <2>1. t.root # Nil /\ t.root \in S /\ t.link[t.root]["P"] = Nil /\ ends[t.root]["L"] = 1 /\ ends[t.root]["R"] = k
    BY DEF IsTree, Rooted
  <2>2. p = Nil <=> x = t.root BY Family DEF p
  <2>3. CASE p = Nil
    <3>1. r.root = y /\ r.link[y]["P"] = Nil BY <1>2, <1>3, <2>3
    <3>2. \A d \in Sides : e[y][d] = ends[x][d] BY <1>1, <1>2, <1>5, <1>9
    <3> QED BY <1>2, <1>4, <2>1, <2>2, <2>3, <3>1, <3>2 DEF Rooted
  <2>4. CASE p # Nil
    <3>1. r.root = t.root /\ t.root # x BY <1>3, <2>2, <2>4
    <3>2. t.root # y /\ t.root # z
      <4>1. t.link[x][o] # t.root /\ (z # Nil => t.link[y][s] # t.root) BY <1>1, <1>2, <2>1, Family
      <4> QED BY <2>1, <4>1 DEF o, z
    <3>3. r.link[t.root]["P"] = Nil /\ e[t.root] = ends[t.root]
      <4>1. r.link[t.root]["P"] = Nil BY <1>3, <2>1, <3>1, <3>2
      <4>2. e[t.root] = ends[t.root] BY <1>9, <2>1, <3>1, <3>2
      <4> QED BY <4>1, <4>2
    <3> QED BY <2>1, <3>1, <3>3 DEF Rooted
  <2> QED BY <2>3, <2>4
<1>14. S \subseteq Blocks /\ Ordered(S, k, at) BY DEF IsTree
<1> QED BY <1>3, <1>10, <1>11, <1>12, <1>13, <1>14 DEF IsTree, e, o

----------------------------------------------------------------------------
(* A new leaf                                                              *)

\* What linking n as a leaf below y on side s writes; y is Nil if the tree is
\* empty.
Linked(t, r, y, s, n) ==
  /\ r \in Trees
  /\ r.root = IF y = Nil THEN n ELSE t.root
  /\ \A m \in Ptrs, d \in Sides :
       r.link[m][d] = IF m = n THEN Nil ELSE IF m = y /\ y # Nil /\ d = s THEN n ELSE t.link[m][d]
  /\ \A m \in Ptrs : r.link[m]["P"] = IF m = n THEN y ELSE t.link[m]["P"]

\* The places behind the new one move up by one.
AtPlus(S, at, n, i) == [m \in S \cup {n} |-> IF m = n THEN i ELSE IF at[m] >= i THEN at[m] + 1 ELSE at[m]]

\* The subtrees that y belongs to grow by one place, those behind move up.
EndsPlus(S, ends, a, n, i) ==
  [m \in S \cup {n} |->
     [d \in Sides |->
        IF m = n THEN i
        ELSE IF d = "L"
        THEN IF ends[m]["L"] > a THEN ends[m]["L"] + 1 ELSE ends[m]["L"]
        ELSE IF ends[m]["R"] >= a THEN ends[m]["R"] + 1 ELSE ends[m]["R"]]]

\* A node put at place i of an order pushes the later ones up by one.
LEMMA OrderPlus ==
  ASSUME NEW S, NEW k, NEW at, Ordered(S, k, at), NEW n, n \notin S, NEW i \in 1..k + 1
  PROVE  Ordered(S \cup {n}, k + 1, AtPlus(S, at, n, i))
<1> DEFINE b == AtPlus(S, at, n, i)
           T == S \cup {n}
<1>1. /\ k \in Nat /\ at \in [S -> Int] /\ i \in Int
      /\ \A m \in S : at[m] \in Int /\ 1 <= at[m] /\ at[m] <= k
      /\ \A l, m \in S : at[l] = at[m] => l = m
      /\ \A j \in 1..k : \E m \in S : at[m] = j
  BY DEF Ordered
<1>2. /\ b[n] = i
      /\ \A m \in S : b[m] = IF at[m] >= i THEN at[m] + 1 ELSE at[m]
  BY DEF AtPlus
<1>3. b \in [T -> Int]
  <2>1. \A m \in T : (IF m = n THEN i ELSE IF at[m] >= i THEN at[m] + 1 ELSE at[m]) \in Int BY <1>1
  <2> QED BY <2>1 DEF AtPlus
<1> HIDE DEF b
<1>4. \A m \in T : 1 <= b[m] /\ b[m] <= k + 1 BY <1>1, <1>2
<1>5. \A l, m \in T : b[l] = b[m] => l = m BY <1>1, <1>2
<1>6. ASSUME NEW j \in 1..k + 1 PROVE \E m \in T : b[m] = j
  <2>1. CASE j < i
    <3>1. j \in 1..k BY <1>1, <2>1
    <3>2. PICK m \in S : at[m] = j BY <1>1, <3>1
    <3>3. b[m] = j BY <1>1, <1>2, <2>1, <3>2
    <3> QED BY <3>3
  <2>2. CASE j = i BY <1>2, <2>2
  <2>3. CASE j > i
    <3>1. j - 1 \in 1..k /\ j - 1 >= i BY <1>1, <2>3
    <3>2. PICK m \in S : at[m] = j - 1 BY <1>1, <3>1
    <3>3. b[m] = j BY <1>1, <1>2, <3>1, <3>2
    <3> QED BY <3>3
  <2> QED BY <1>1, <2>1, <2>2, <2>3
<1>7. k + 1 \in Nat BY <1>1
<1> QED BY <1>3, <1>4, <1>5, <1>6, <1>7 DEF Ordered, b

\* The first node of an empty tree.
LEMMA FirstTree ==
  ASSUME NEW t, NEW k, NEW at, NEW ends, IsTree(t, {}, k, at, ends), NEW n \in Blocks,
         NEW s, NEW r, Linked(t, r, Nil, s, n)
  PROVE  IsTree(r, {n}, 1, [m \in {n} |-> 1], [m \in {n} |-> [d \in Sides |-> 1]])
<1>1. n # Nil /\ n \in Ptrs BY SidesAre DEF Ptrs
<1>2. r \in Trees /\ r.root = n /\ (\A d \in Sides : r.link[n][d] = Nil) /\ r.link[n]["P"] = Nil
  BY <1>1 DEF Linked
<1>3. Ordered({n}, 1, [m \in {n} |-> 1]) BY DEF Ordered
<1>4. "L" \in Sides /\ "R" \in Sides BY DEF Sides
<1>5. Spans({n}, [m \in {n} |-> 1], [m \in {n} |-> [d \in Sides |-> 1]]) BY <1>4 DEF Spans
<1>6. \A m \in {n}, d \in Sides : Branch(r, {n}, [l \in {n} |-> 1], [l \in {n} |-> [e \in Sides |-> 1]], m, d)
  BY <1>2 DEF Branch
<1>7. \A m \in {n} : Hung(r, {n}, m) BY <1>2 DEF Hung
<1>8. Rooted(r, {n}, 1, [m \in {n} |-> [d \in Sides |-> 1]]) BY <1>1, <1>2, <1>4 DEF Rooted
<1> QED BY <1>2, <1>3, <1>5, <1>6, <1>7, <1>8 DEF IsTree

\* A further leaf.  Below y on the left it takes y's place, on the right the
\* next one.
LEMMA LeafTree ==
  ASSUME NEW t, NEW S, NEW k, NEW at, NEW ends, IsTree(t, S, k, at, ends),
         NEW y \in S, NEW s \in Sides, t.link[y][s] = Nil, NEW n \in Blocks \ S,
         NEW r, Linked(t, r, y, s, n), NEW i, i = IF s = "L" THEN at[y] ELSE at[y] + 1
  PROVE  IsTree(r, S \cup {n}, k + 1, AtPlus(S, at, n, i), EndsPlus(S, ends, at[y], n, i))
<1> DEFINE T == S \cup {n}
           b == AtPlus(S, at, n, i)
           e == EndsPlus(S, ends, at[y], n, i)
<1>1. /\ k \in Nat /\ at \in [S -> Int]
      /\ \A m \in S : at[m] \in Int /\ 1 <= at[m] /\ at[m] <= k
      /\ \A l, m \in S : at[l] = at[m] => l = m
      /\ \A m \in S : /\ ends[m]["L"] \in Int /\ ends[m]["R"] \in Int
                      /\ ends[m]["L"] <= at[m] /\ at[m] <= ends[m]["R"]
  BY DEF IsTree, Ordered, Spans, Sides
<1>2. at[y] \in Int /\ i \in Int /\ i \in 1..k + 1 BY <1>1
<1>3. S \subseteq Ptrs /\ n \in Ptrs /\ n # Nil /\ n # y /\ Nil \notin S /\ "L" \in Sides /\ "R" \in Sides
      /\ y # Nil /\ S \subseteq Blocks
  BY SidesAre DEF IsTree, Ptrs, Sides
<1>4. /\ r \in Trees /\ r.root = t.root
      /\ \A m \in S, d \in Sides : r.link[m][d] = IF m = y /\ d = s THEN n ELSE t.link[m][d]
      /\ \A d \in Sides : r.link[n][d] = Nil
      /\ \A m \in S : r.link[m]["P"] = t.link[m]["P"]
      /\ r.link[n]["P"] = y
  BY <1>3 DEF Linked
<1>5. Ordered(T, k + 1, b)
  <2>1. Ordered(S, k, at) BY DEF IsTree
  <2> QED BY <1>2, <2>1, OrderPlus
<1>6. /\ b[n] = i
      /\ \A m \in S : b[m] = IF at[m] >= i THEN at[m] + 1 ELSE at[m]
  BY DEF AtPlus
<1>7. /\ e[n]["L"] = i /\ e[n]["R"] = i
      /\ \A m \in S : /\ e[m]["L"] = IF ends[m]["L"] > at[y] THEN ends[m]["L"] + 1 ELSE ends[m]["L"]
                      /\ e[m]["R"] = IF ends[m]["R"] >= at[y] THEN ends[m]["R"] + 1 ELSE ends[m]["R"]
  BY <1>3 DEF EndsPlus
<1>8. e \in [T -> [Sides -> Int]]
  <2>1. ASSUME NEW m \in T, NEW d \in Sides
        PROVE  (IF m = n THEN i
                ELSE IF d = "L"
                THEN IF ends[m]["L"] > at[y] THEN ends[m]["L"] + 1 ELSE ends[m]["L"]
                ELSE IF ends[m]["R"] >= at[y] THEN ends[m]["R"] + 1 ELSE ends[m]["R"]) \in Int
    BY <1>1, <1>2
  <2> QED BY <2>1 DEF EndsPlus
<1> HIDE DEF b, e
<1>9. \A m \in S : b[m] = IF m = y THEN (IF s = "L" THEN at[y] + 1 ELSE at[y])
                          ELSE IF at[m] > at[y] THEN at[m] + 1 ELSE at[m]
  <2> SUFFICES ASSUME NEW m \in S
               PROVE  b[m] = IF m = y THEN (IF s = "L" THEN at[y] + 1 ELSE at[y])
                             ELSE IF at[m] > at[y] THEN at[m] + 1 ELSE at[m]
    OBVIOUS
  <2>1. m # y => at[m] # at[y] BY <1>1
  <2>2. at[m] \in Int BY <1>1
  <2> QED BY <1>2, <1>6, <2>1, <2>2
<1>10. Spans(T, b, e)
  <2>1. e[n]["L"] <= b[n] /\ b[n] <= e[n]["R"] BY <1>2, <1>6, <1>7
  <2>2. ASSUME NEW m \in S PROVE e[m]["L"] <= b[m] /\ b[m] <= e[m]["R"]
    <3>1. ends[m]["L"] \in Int /\ ends[m]["R"] \in Int /\ at[m] \in Int
          /\ ends[m]["L"] <= at[m] /\ at[m] <= ends[m]["R"]
      BY <1>1
    <3> QED BY <1>2, <1>7, <1>9, <3>1
  <2> QED BY <1>8, <2>1, <2>2 DEF Spans
<1>11. ASSUME NEW m \in S, NEW d \in Sides, ~(m = y /\ d = s) PROVE Branch(r, T, b, e, m, d)
  <2> DEFINE c == t.link[m][d]
  <2>1. Branch(t, S, at, ends, m, d) BY DEF IsTree
  <2>2. r.link[m][d] = c BY <1>4, <1>11
  <2>3. /\ c = Nil => ends[m][d] = at[m]
        /\ c # Nil => c \in S /\ t.link[c]["P"] = m /\ ends[c][d] = ends[m][d]
                      /\ ends[c][Opposite(d)] = at[m] + Way(d)
    BY <2>1 DEF Branch
  <2> HIDE DEF c
  <2>4. at[m] \in Int /\ ends[m]["L"] \in Int /\ ends[m]["R"] \in Int /\ (m # y => at[m] # at[y])
    BY <1>1
  <2>5. CASE d = "L"
    <3>1. b[m] = IF m = y THEN at[y] ELSE IF at[m] > at[y] THEN at[m] + 1 ELSE at[m]
      BY <1>9, <1>11, <2>5 DEF Sides
    <3>2. e[m]["L"] = IF ends[m]["L"] > at[y] THEN ends[m]["L"] + 1 ELSE ends[m]["L"] BY <1>7
    <3>3. CASE c = Nil
      <4>1. e[m]["L"] = b[m] BY <1>2, <2>3, <2>4, <2>5, <3>1, <3>2, <3>3
      <4> QED BY <2>2, <2>5, <3>3, <4>1 DEF Branch
    <3>4. CASE c # Nil
      <4>1. c \in S /\ t.link[c]["P"] = m /\ ends[c]["L"] = ends[m]["L"] /\ ends[c]["R"] = at[m] - 1
        BY <2>3, <2>5, <3>4, <2>4 DEF Opposite, Way
      <4>2. e[c]["L"] = e[m]["L"] BY <1>7, <4>1
      <4>3. e[c]["R"] = IF at[m] - 1 >= at[y] THEN at[m] - 1 + 1 ELSE at[m] - 1 BY <1>7, <4>1
      <4>4. e[c]["R"] = b[m] - 1 BY <1>2, <2>4, <3>1, <4>3
      <4>5. r.link[c]["P"] = m BY <1>4, <4>1
      <4>6. b[m] - 1 = b[m] + Way("L") BY <1>2, <2>4, <3>1 DEF Way
      <4>7. Opposite("L") = "R" BY DEF Opposite
      <4> QED BY <2>2, <2>5, <3>4, <4>1, <4>2, <4>4, <4>5, <4>6, <4>7 DEF Branch
    <3> QED BY <3>3, <3>4
  <2>6. CASE d = "R"
    <3>1. b[m] = IF m = y THEN at[y] + 1 ELSE IF at[m] > at[y] THEN at[m] + 1 ELSE at[m]
      BY <1>9, <1>11, <2>6 DEF Sides
    <3>2. e[m]["R"] = IF ends[m]["R"] >= at[y] THEN ends[m]["R"] + 1 ELSE ends[m]["R"] BY <1>7
    <3>3. CASE c = Nil
      <4>1. e[m]["R"] = b[m] BY <1>2, <2>3, <2>4, <2>6, <3>1, <3>2, <3>3
      <4> QED BY <2>2, <2>6, <3>3, <4>1 DEF Branch
    <3>4. CASE c # Nil
      <4>1. c \in S /\ t.link[c]["P"] = m /\ ends[c]["R"] = ends[m]["R"] /\ ends[c]["L"] = at[m] + 1
        BY <2>3, <2>6, <3>4, <2>4 DEF Opposite, Way
      <4>2. e[c]["R"] = e[m]["R"] BY <1>7, <4>1
      <4>3. e[c]["L"] = IF at[m] + 1 > at[y] THEN at[m] + 1 + 1 ELSE at[m] + 1 BY <1>7, <4>1
      <4>4. e[c]["L"] = b[m] + 1 BY <1>2, <2>4, <3>1, <4>3
      <4>5. r.link[c]["P"] = m BY <1>4, <4>1
      <4>6. Way("R") = 1 BY DEF Way
      <4>7. Opposite("R") = "L" BY DEF Opposite
      <4> QED BY <2>2, <2>6, <3>4, <4>1, <4>2, <4>4, <4>5, <4>6, <4>7 DEF Branch
    <3> QED BY <3>3, <3>4
  <2> QED BY <2>5, <2>6 DEF Sides
<1>12. Branch(r, T, b, e, y, s)
  <2>1. r.link[y][s] = n /\ n # Nil /\ n \in T /\ r.link[n]["P"] = y BY <1>3, <1>4
  <2>2. ends[y][s] = at[y] BY DEF IsTree, Branch
  <2>3. CASE s = "L"
    <3>1. e[y]["L"] = at[y] BY <1>2, <1>7, <2>2, <2>3
    <3>2. b[y] = at[y] + 1 /\ i = at[y] BY <1>9, <2>3
    <3>3. b[y] + Way("L") = at[y] BY <1>2, <3>2 DEF Way
    <3>4. Opposite("L") = "R" BY DEF Opposite
    <3> QED BY <1>7, <2>1, <2>3, <3>1, <3>2, <3>3, <3>4 DEF Branch
  <2>4. CASE s = "R"
    <3>1. e[y]["R"] = at[y] + 1 BY <1>2, <1>7, <2>2, <2>4
    <3>2. b[y] = at[y] /\ i = at[y] + 1 BY <1>9, <2>4
    <3>3. b[y] + Way("R") = at[y] + 1 BY <3>2 DEF Way
    <3>4. Opposite("R") = "L" BY DEF Opposite
    <3> QED BY <1>7, <2>1, <2>4, <3>1, <3>2, <3>3, <3>4 DEF Branch
  <2> QED BY <2>3, <2>4 DEF Sides
<1>13. ASSUME NEW d \in Sides PROVE Branch(r, T, b, e, n, d)
  <2>1. e[n][d] = i BY <1>7 DEF Sides
  <2> QED BY <1>4, <1>6, <2>1 DEF Branch
<1>14. ASSUME NEW m \in T PROVE Hung(r, T, m)
  <2>1. CASE m = n
    <3>1. r.link[y][s] = n BY <1>4
    <3> QED BY <1>4, <2>1, <3>1 DEF Hung
  <2>2. CASE m # n
    <3>1. m \in S /\ Hung(t, S, m) BY <2>2 DEF IsTree
    <3>2. CASE m = t.root BY <1>4, <3>2 DEF Hung
    <3>3. CASE m # t.root
      <4> DEFINE p == t.link[m]["P"]
      <4>1. p \in S /\ \E d \in Sides : t.link[p][d] = m BY <3>1, <3>3 DEF Hung
      <4>2. PICK d \in Sides : t.link[p][d] = m BY <4>1
      <4>3. ~(p = y /\ d = s) BY <1>3, <3>1, <4>2
      <4>4. r.link[m]["P"] = p BY <1>4, <3>1
      <4> HIDE DEF p
      <4>5. r.link[p][d] = m BY <1>4, <4>1, <4>2, <4>3
      <4> QED BY <4>1, <4>4, <4>5 DEF Hung
    <3> QED BY <3>2, <3>3
  <2> QED BY <2>1, <2>2
<1>15. Rooted(r, T, k + 1, e)
  <2>1. t.root # Nil /\ t.root \in S /\ t.link[t.root]["P"] = Nil /\ ends[t.root]["L"] = 1 /\ ends[t.root]["R"] = k
    BY DEF IsTree, Rooted
  <2>2. e[t.root]["L"] = 1 /\ e[t.root]["R"] = k + 1 BY <1>1, <1>2, <1>7, <2>1
  <2> QED BY <1>4, <2>1, <2>2 DEF Rooted
<1>16. \A m \in T, d \in Sides : Branch(r, T, b, e, m, d) BY <1>11, <1>12, <1>13
<1> QED BY <1>3, <1>4, <1>5, <1>10, <1>14, <1>15, <1>16 DEF IsTree, b, e

----------------------------------------------------------------------------
(* Taking a node out                                                       *)

\* What putting x in the place of n writes.
Spliced(t, r, n, x) ==
  LET p == t.link[n]["P"] IN
  /\ r \in Trees
  /\ r.root = IF p = Nil THEN x ELSE t.root
  /\ \A m \in Ptrs, d \in Sides :
       r.link[m][d] = IF m = p /\ p # Nil /\ t.link[m][d] = n THEN x ELSE t.link[m][d]
  /\ \A m \in Ptrs : r.link[m]["P"] = IF m = x THEN p ELSE t.link[m]["P"]

\* Transplant puts x in the place of n below the parent of n.
LEMMA TransplantLinks ==
  ASSUME NEW t, NEW S, NEW k, NEW at, NEW ends, IsTree(t, S, k, at, ends), NEW n \in S,
         NEW x \in Ptrs
  PROVE  Spliced(t, Transplant(t, n, x), n, x)
<1> DEFINE p == t.link[n]["P"]
           t1 == Replace(t, n, x)
           r == [t1 EXCEPT !.link[x]["P"] = t1.link[n]["P"]]
<1>1. t \in Trees /\ n \in Ptrs /\ n # Nil /\ "P" \in Dirs /\ \A d \in Sides : d \in Dirs /\ d # "P"
  BY SidesAre DEF IsTree, Ptrs, Sides, Dirs
<1>2. p \in Ptrs BY <1>1 DEF Trees
<1>3. p # Nil => (\E s \in Sides : t.link[p][s] = n) /\ t.link[p]["L"] # t.link[p]["R"]
  <2> SUFFICES ASSUME p # Nil
               PROVE  (\E s \in Sides : t.link[p][s] = n) /\ t.link[p]["L"] # t.link[p]["R"]
    OBVIOUS
  <2>1. n # t.root BY Family
  <2>2. p \in S /\ \E s \in Sides : t.link[p][s] = n BY <2>1 DEF IsTree, Hung
  <2>3. PICK s \in Sides : t.link[p][s] = n BY <2>2
  <2> HIDE DEF p
  <2>4. t.link[p]["L"] # t.link[p]["R"] BY <1>1, <2>2, <2>3, Family DEF Sides
  <2> QED BY <2>2, <2>4
<1>4. /\ t1 \in Trees
      /\ t1.root = IF p = Nil THEN x ELSE t.root
      /\ \A m \in Ptrs, d \in Sides :
           t1.link[m][d] = IF m = p /\ p # Nil /\ t.link[m][d] = n THEN x ELSE t.link[m][d]
      /\ \A m \in Ptrs : t1.link[m]["P"] = t.link[m]["P"]
  BY <1>1, <1>3, ReplaceLinks
<1> HIDE DEF t1
<1>5. t1.link[n]["P"] = p BY <1>1, <1>4
<1> HIDE DEF p
<1>6. /\ r \in Trees
      /\ r.root = t1.root
      /\ \A m \in Ptrs, d \in Dirs : r.link[m][d] = IF m = x /\ d = "P" THEN p ELSE t1.link[m][d]
  BY <1>1, <1>2, <1>4, <1>5, SetLink
<1> HIDE DEF r
<1>7. /\ r \in Trees
      /\ r.root = IF p = Nil THEN x ELSE t.root
      /\ \A m \in Ptrs, d \in Sides :
           r.link[m][d] = IF m = p /\ p # Nil /\ t.link[m][d] = n THEN x ELSE t.link[m][d]
      /\ \A m \in Ptrs : r.link[m]["P"] = IF m = x THEN p ELSE t.link[m]["P"]
  BY <1>1, <1>4, <1>6
<1> QED BY <1>7 DEF Spliced, Transplant, r, t1, p

\* The places behind the old one move down by one.
AtMinus(S, at, n) == [m \in S \ {n} |-> IF at[m] > at[n] THEN at[m] - 1 ELSE at[m]]

EndsMinus(S, ends, a, n) ==
  [m \in S \ {n} |->
     [d \in Sides |->
        IF d = "L"
        THEN IF ends[m]["L"] > a THEN ends[m]["L"] - 1 ELSE ends[m]["L"]
        ELSE IF ends[m]["R"] >= a THEN ends[m]["R"] - 1 ELSE ends[m]["R"]]]

\* Without n, the nodes behind it move down by one.
LEMMA OrderMinus ==
  ASSUME NEW S, NEW k, NEW at, Ordered(S, k, at), NEW n \in S
  PROVE  Ordered(S \ {n}, k - 1, AtMinus(S, at, n)) /\ k >= 1
<1> DEFINE b == AtMinus(S, at, n)
           T == S \ {n}
<1>1. /\ k \in Nat /\ at \in [S -> Int] /\ at[n] \in Int /\ 1 <= at[n] /\ at[n] <= k
      /\ \A m \in S : at[m] \in Int /\ 1 <= at[m] /\ at[m] <= k
      /\ \A l, m \in S : at[l] = at[m] => l = m
      /\ \A j \in 1..k : \E m \in S : at[m] = j
  BY DEF Ordered
<1>2. \A m \in T : b[m] = IF at[m] > at[n] THEN at[m] - 1 ELSE at[m] BY DEF AtMinus
<1>3. b \in [T -> Int]
  <2>1. \A m \in T : (IF at[m] > at[n] THEN at[m] - 1 ELSE at[m]) \in Int BY <1>1
  <2> QED BY <2>1 DEF AtMinus
<1> HIDE DEF b
<1>4. ASSUME NEW m \in T PROVE 1 <= b[m] /\ b[m] <= k - 1
  <2>1. at[m] \in Int /\ 1 <= at[m] /\ at[m] <= k /\ at[m] # at[n] BY <1>1
  <2> QED BY <1>1, <1>2, <2>1
<1>5. ASSUME NEW l \in T, NEW m \in T, b[l] = b[m] PROVE l = m
  <2>1. at[m] \in Int /\ at[l] \in Int /\ at[m] # at[n] /\ at[l] # at[n] BY <1>1
  <2>2. at[l] = at[m] BY <1>1, <1>2, <1>5, <2>1
  <2> QED BY <1>1, <2>2
<1>6. ASSUME NEW j \in 1..k - 1 PROVE \E m \in T : b[m] = j
  <2>1. CASE j < at[n]
    <3>1. j \in 1..k BY <1>1, <2>1
    <3>2. PICK m \in S : at[m] = j BY <1>1, <3>1
    <3>3. m \in T BY <1>1, <2>1, <3>2
    <3>4. b[m] = j BY <1>1, <1>2, <2>1, <3>2, <3>3
    <3> QED BY <3>3, <3>4
  <2>2. CASE j >= at[n]
    <3>1. j + 1 \in 1..k /\ j + 1 > at[n] BY <1>1, <2>2
    <3>2. PICK m \in S : at[m] = j + 1 BY <1>1, <3>1
    <3>3. m \in T BY <1>1, <3>1, <3>2
    <3>4. b[m] = j BY <1>1, <1>2, <3>1, <3>2, <3>3
    <3> QED BY <3>3, <3>4
  <2> QED BY <1>1, <2>1, <2>2
<1>7. k - 1 \in Nat BY <1>1
<1> QED BY <1>1, <1>3, <1>4, <1>5, <1>6, <1>7 DEF Ordered, b

\* A node with a child missing gives way to the other one.
LEMMA SpliceTree ==
  ASSUME NEW t, NEW S, NEW k, NEW at, NEW ends, IsTree(t, S, k, at, ends),
         NEW n \in S, NEW s \in Sides, t.link[n][s] = Nil, NEW x, x = t.link[n][Opposite(s)],
         NEW r, Spliced(t, r, n, x)
  PROVE  IsTree(r, S \ {n}, k - 1, AtMinus(S, at, n), EndsMinus(S, ends, at[n], n))
<1> DEFINE T == S \ {n}
           a == at[n]
           p == t.link[n]["P"]
           b == AtMinus(S, at, n)
           e == EndsMinus(S, ends, a, n)
<1>1. /\ k \in Nat /\ at \in [S -> Int]
      /\ \A m \in S : at[m] \in Int /\ 1 <= at[m] /\ at[m] <= k
      /\ \A l, m \in S : at[l] = at[m] => l = m
      /\ \A m \in S : /\ ends[m]["L"] \in Int /\ ends[m]["R"] \in Int
                      /\ ends[m]["L"] <= at[m] /\ at[m] <= ends[m]["R"]
  BY DEF IsTree, Ordered, Spans, Sides
<1>2. a \in Int /\ 1 <= a /\ a <= k BY <1>1
<1>3. /\ S \subseteq Ptrs /\ Nil \notin S /\ "L" \in Sides /\ "R" \in Sides /\ S \subseteq Blocks
      /\ Nil \in Ptrs
      /\ x \in S \cup {Nil} /\ x # n
  BY SidesAre, Family DEF IsTree, Ptrs, Sides
<1>4. /\ r \in Trees /\ r.root = IF p = Nil THEN x ELSE t.root
      /\ \A m \in S, d \in Sides :
           r.link[m][d] = IF m = p /\ t.link[m][d] = n THEN x ELSE t.link[m][d]
      /\ \A m \in S : r.link[m]["P"] = IF m = x THEN p ELSE t.link[m]["P"]
  BY <1>3 DEF Spliced
<1>5. Ordered(T, k - 1, b) /\ k >= 1
  <2>1. Ordered(S, k, at) BY DEF IsTree
  <2> QED BY <2>1, OrderMinus
<1>6. \A m \in T : b[m] = IF at[m] > a THEN at[m] - 1 ELSE at[m] BY DEF AtMinus
<1>7. \A m \in T : /\ e[m]["L"] = IF ends[m]["L"] > a THEN ends[m]["L"] - 1 ELSE ends[m]["L"]
                   /\ e[m]["R"] = IF ends[m]["R"] >= a THEN ends[m]["R"] - 1 ELSE ends[m]["R"]
  BY <1>3 DEF EndsMinus
<1>8. e \in [T -> [Sides -> Int]]
  <2>1. ASSUME NEW m \in T, NEW d \in Sides
        PROVE  (IF d = "L"
                THEN IF ends[m]["L"] > a THEN ends[m]["L"] - 1 ELSE ends[m]["L"]
                ELSE IF ends[m]["R"] >= a THEN ends[m]["R"] - 1 ELSE ends[m]["R"]) \in Int
    BY <1>1, <1>2
  <2> QED BY <2>1 DEF EndsMinus
\* What is known of the places next to n's.
<1>9. /\ p = Nil <=> n = t.root
      /\ p # Nil => /\ p \in T
                    /\ \E d \in Sides : t.link[p][d] = n
                    /\ \A d \in Sides : t.link[p][d] = n => /\ ends[n][d] = ends[p][d]
                                                            /\ ends[n][Opposite(d)] = at[p] + Way(d)
      /\ ends[n][s] = a
      /\ x = Nil => ends[n][Opposite(s)] = a
      /\ x # Nil => /\ x \in T /\ t.link[x]["P"] = n
                    /\ ends[x][Opposite(s)] = ends[n][Opposite(s)]
                    /\ ends[x][s] = a + Way(Opposite(s))
  <2>1. p = Nil <=> n = t.root BY Family
  <2>2. p # Nil => p \in S /\ \E d \in Sides : t.link[p][d] = n BY <2>1 DEF IsTree, Hung
  <2>3. p # Nil => p # n BY <2>2, Family
  <2>4. ASSUME p # Nil, NEW d \in Sides, t.link[p][d] = n
        PROVE  ends[n][d] = ends[p][d] /\ ends[n][Opposite(d)] = at[p] + Way(d)
    <3>1. Branch(t, S, at, ends, p, d) BY <2>2, <2>4 DEF IsTree
    <3> HIDE DEF p
    <3> QED BY <1>3, <2>4, <3>1 DEF Branch
  <2>5. Branch(t, S, at, ends, n, s) /\ Branch(t, S, at, ends, n, Opposite(s))
    BY SidesAre DEF IsTree
  <2>6. ends[n][s] = a /\ (x = Nil => ends[n][Opposite(s)] = a) BY <2>5 DEF Branch
  <2>7. x # Nil => /\ x \in S /\ t.link[x]["P"] = n
                   /\ ends[x][Opposite(s)] = ends[n][Opposite(s)]
                   /\ ends[x][Opposite(Opposite(s))] = a + Way(Opposite(s))
    BY <2>5 DEF Branch
  <2>8. Opposite(Opposite(s)) = s BY SidesAre
  <2> QED BY <1>3, <2>1, <2>2, <2>3, <2>4, <2>6, <2>7, <2>8
<1> HIDE DEF b, e, p, a
<1>10. Spans(T, b, e)
  <2>1. ASSUME NEW m \in T PROVE e[m]["L"] <= b[m] /\ b[m] <= e[m]["R"]
    <3>1. ends[m]["L"] \in Int /\ ends[m]["R"] \in Int /\ at[m] \in Int
          /\ ends[m]["L"] <= at[m] /\ at[m] <= ends[m]["R"] /\ at[m] # a
      BY <1>1 DEF a
    <3> QED BY <1>2, <1>6, <1>7, <3>1
  <2> QED BY <1>8, <2>1 DEF Spans
<1>11. ASSUME NEW m \in T, NEW d \in Sides, t.link[m][d] # n PROVE Branch(r, T, b, e, m, d)
  <2> DEFINE c == t.link[m][d]
  <2>1. Branch(t, S, at, ends, m, d) BY DEF IsTree
  <2>2. r.link[m][d] = c BY <1>4, <1>11
  <2>3. /\ c = Nil => ends[m][d] = at[m]
        /\ c # Nil => c \in T /\ t.link[c]["P"] = m /\ ends[c][d] = ends[m][d]
                      /\ ends[c][Opposite(d)] = at[m] + Way(d)
    BY <1>11, <2>1 DEF Branch
  <2> HIDE DEF c
  <2>4. at[m] \in Int /\ ends[m]["L"] \in Int /\ ends[m]["R"] \in Int /\ at[m] # a BY <1>1 DEF a
  <2>5. b[m] = IF at[m] > a THEN at[m] - 1 ELSE at[m] BY <1>6
  <2>6. c # Nil => r.link[c]["P"] = m
    <3>1. c # Nil /\ c = x => m = n BY <1>9, <2>3
    <3> QED BY <1>4, <2>3, <3>1
  <2>7. CASE d = "L"
    <3>2. e[m]["L"] = IF ends[m]["L"] > a THEN ends[m]["L"] - 1 ELSE ends[m]["L"] BY <1>7
    <3>3. CASE c = Nil
      <4>1. e[m]["L"] = b[m] BY <1>2, <2>3, <2>4, <2>5, <2>7, <3>2, <3>3
      <4> QED BY <2>2, <2>7, <3>3, <4>1 DEF Branch
    <3>4. CASE c # Nil
      <4>1. c \in T /\ ends[c]["L"] = ends[m]["L"] /\ ends[c]["R"] = at[m] - 1
        BY <2>3, <2>7, <3>4, <2>4 DEF Opposite, Way
      <4>2. e[c]["L"] = e[m]["L"] BY <1>7, <4>1
      <4>3. e[c]["R"] = IF at[m] - 1 >= a THEN at[m] - 1 - 1 ELSE at[m] - 1 BY <1>7, <4>1
      <4>4. e[c]["R"] = b[m] - 1 BY <1>2, <2>4, <2>5, <4>3
      <4>6. b[m] - 1 = b[m] + Way("L") BY <1>2, <2>4, <2>5 DEF Way
      <4>7. Opposite("L") = "R" BY DEF Opposite
      <4> QED BY <2>2, <2>6, <2>7, <3>4, <4>1, <4>2, <4>4, <4>6, <4>7 DEF Branch
    <3> QED BY <3>3, <3>4
  <2>8. CASE d = "R"
    <3>2. e[m]["R"] = IF ends[m]["R"] >= a THEN ends[m]["R"] - 1 ELSE ends[m]["R"] BY <1>7
    <3>3. CASE c = Nil
      <4>1. e[m]["R"] = b[m] BY <1>2, <2>3, <2>4, <2>5, <2>8, <3>2, <3>3
      <4> QED BY <2>2, <2>8, <3>3, <4>1 DEF Branch
    <3>4. CASE c # Nil
      <4>1. c \in T /\ ends[c]["R"] = ends[m]["R"] /\ ends[c]["L"] = at[m] + 1
        BY <2>3, <2>8, <3>4, <2>4 DEF Opposite, Way
      <4>2. e[c]["R"] = e[m]["R"] BY <1>7, <4>1
      <4>3. e[c]["L"] = IF at[m] + 1 > a THEN at[m] ELSE at[m] + 1 BY <1>7, <2>4, <4>1
      <4>4. e[c]["L"] = b[m] + 1 BY <1>2, <2>4, <2>5, <4>3
      <4>6. Way("R") = 1 BY DEF Way
      <4>7. Opposite("R") = "L" BY DEF Opposite
      <4> QED BY <2>2, <2>6, <2>8, <3>4, <4>1, <4>2, <4>4, <4>6, <4>7 DEF Branch
    <3> QED BY <3>3, <3>4
  <2> QED BY <2>7, <2>8 DEF Sides
\* The link that led to n now leads to x.
<1>12. ASSUME NEW d \in Sides, p # Nil, t.link[p][d] = n PROVE Branch(r, T, b, e, p, d)
  <2>1. r.link[p][d] = x /\ p \in T BY <1>4, <1>9, <1>12
  <2>2. ends[n][d] = ends[p][d] /\ ends[n][Opposite(d)] = at[p] + Way(d) BY <1>9, <1>12
  <2>3. at[p] \in Int /\ ends[p]["L"] \in Int /\ ends[p]["R"] \in Int
        /\ ends[n]["L"] \in Int /\ ends[n]["R"] \in Int
    BY <1>1, <2>1
  <2>4. b[p] = IF at[p] > a THEN at[p] - 1 ELSE at[p] BY <1>6, <2>1
  <2>5. /\ e[p]["L"] = IF ends[p]["L"] > a THEN ends[p]["L"] - 1 ELSE ends[p]["L"]
        /\ e[p]["R"] = IF ends[p]["R"] >= a THEN ends[p]["R"] - 1 ELSE ends[p]["R"]
    BY <1>7, <2>1
  <2>6. x # Nil => r.link[x]["P"] = p BY <1>3, <1>4
  <2>7. ends[n]["L"] <= a /\ a <= ends[n]["R"] BY <1>1 DEF a
  <2>8. CASE d = "L"
    <3>1. ends[n]["L"] = ends[p]["L"] /\ ends[n]["R"] = at[p] - 1
      BY <2>2, <2>3, <2>8 DEF Opposite, Way
    <3>2. e[p]["L"] = ends[n]["L"] /\ b[p] = at[p] - 1 BY <1>2, <2>3, <2>4, <2>5, <2>7, <3>1
    <3>3. CASE x = Nil
      <4>1. ends[n]["L"] = a /\ ends[n]["R"] = a BY <1>9, <3>3 DEF Sides, Opposite
      <4>2. e[p]["L"] = b[p] BY <2>3, <3>1, <3>2, <4>1
      <4> QED BY <2>1, <2>8, <3>3, <4>2 DEF Branch
    <3>4. CASE x # Nil
      <4>3. x \in T /\ e[x]["L"] = e[p]["L"] /\ e[x]["R"] = b[p] - 1
        <5>1. CASE s = "L"
          <6>1. x \in T /\ ends[x]["R"] = ends[n]["R"] /\ ends[x]["L"] = a + 1 /\ ends[n]["L"] = a
            BY <1>2, <1>9, <3>4, <5>1 DEF Opposite, Way
          <6>2. e[x]["L"] = a /\ e[x]["R"] = ends[n]["R"] - 1 BY <1>2, <1>7, <2>3, <2>7, <6>1
          <6> QED BY <2>3, <3>1, <3>2, <6>1, <6>2
        <5>2. CASE s = "R"
          <6>1. x \in T /\ ends[x]["L"] = ends[n]["L"] /\ ends[x]["R"] = a - 1 /\ ends[n]["R"] = a
            BY <1>2, <1>9, <3>4, <5>2 DEF Opposite, Way
          <6>2. e[x]["L"] = ends[n]["L"] /\ e[x]["R"] = a - 1 BY <1>2, <1>7, <2>3, <2>7, <6>1
          <6> QED BY <2>3, <3>1, <3>2, <6>1, <6>2
        <5> QED BY <5>1, <5>2 DEF Sides
      <4>4. b[p] - 1 = b[p] + Way("L") /\ Opposite("L") = "R" BY <2>3, <3>2 DEF Way, Opposite
      <4> QED BY <2>1, <2>6, <2>8, <3>4, <4>3, <4>4 DEF Branch
    <3> QED BY <3>3, <3>4
  <2>9. CASE d = "R"
    <3>1. ends[n]["R"] = ends[p]["R"] /\ ends[n]["L"] = at[p] + 1
      BY <2>2, <2>3, <2>9 DEF Opposite, Way
    <3>2. e[p]["R"] = ends[n]["R"] - 1 /\ b[p] = at[p] BY <1>2, <2>3, <2>4, <2>5, <2>7, <3>1
    <3>3. CASE x = Nil
      <4>1. ends[n]["L"] = a /\ ends[n]["R"] = a BY <1>9, <3>3 DEF Sides, Opposite
      <4>2. e[p]["R"] = b[p] BY <2>3, <3>1, <3>2, <4>1
      <4> QED BY <2>1, <2>9, <3>3, <4>2 DEF Branch
    <3>4. CASE x # Nil
      <4>3. x \in T /\ e[x]["R"] = e[p]["R"] /\ e[x]["L"] = b[p] + 1
        <5>1. CASE s = "L"
          <6>1. x \in T /\ ends[x]["R"] = ends[n]["R"] /\ ends[x]["L"] = a + 1 /\ ends[n]["L"] = a
            BY <1>2, <1>9, <3>4, <5>1 DEF Opposite, Way
          <6>2. e[x]["L"] = a /\ e[x]["R"] = ends[n]["R"] - 1 BY <1>2, <1>7, <2>3, <2>7, <6>1
          <6> QED BY <2>3, <3>1, <3>2, <6>1, <6>2
        <5>2. CASE s = "R"
          <6>1. x \in T /\ ends[x]["L"] = ends[n]["L"] /\ ends[x]["R"] = a - 1 /\ ends[n]["R"] = a
            BY <1>2, <1>9, <3>4, <5>2 DEF Opposite, Way
          <6>2. e[x]["L"] = ends[n]["L"] /\ e[x]["R"] = a - 1 BY <1>2, <1>7, <2>3, <2>7, <6>1
          <6> QED BY <2>3, <3>1, <3>2, <6>1, <6>2
        <5> QED BY <5>1, <5>2 DEF Sides
      <4>4. b[p] + 1 = b[p] + Way("R") /\ Opposite("R") = "L" BY <2>3, <3>2 DEF Way, Opposite
      <4> QED BY <2>1, <2>6, <2>9, <3>4, <4>3, <4>4 DEF Branch
    <3> QED BY <3>3, <3>4
  <2> QED BY <2>8, <2>9 DEF Sides
<1>13. \A m \in T, d \in Sides : Branch(r, T, b, e, m, d)
  <2>1. ASSUME NEW m \in T, NEW d \in Sides, t.link[m][d] = n PROVE m = p /\ p # Nil
    <3>1. Branch(t, S, at, ends, m, d) BY DEF IsTree
    <3>2. m = p BY <1>3, <2>1, <3>1 DEF Branch, p
    <3> QED BY <1>3, <3>2
  <2> QED BY <1>11, <1>12, <2>1
<1>14. ASSUME NEW m \in T PROVE Hung(r, T, m)
  <2>1. CASE m = x
    <3>1. r.link[m]["P"] = p BY <1>4, <2>1
    <3>2. CASE p = Nil BY <1>4, <2>1, <3>2 DEF Hung
    <3>3. CASE p # Nil
      <4>1. PICK d \in Sides : t.link[p][d] = n BY <1>9, <3>3
      <4>2. r.link[p][d] = x /\ p \in T BY <1>4, <1>9, <3>3, <4>1
      <4> QED BY <2>1, <3>1, <4>2 DEF Hung
    <3> QED BY <3>2, <3>3
  <2>2. CASE m # x
    <3>1. r.link[m]["P"] = t.link[m]["P"] BY <1>4, <2>2
    <3>2. Hung(t, S, m) BY DEF IsTree
    <3>3. CASE m = t.root
      <4>1. p # Nil BY <1>9, <3>3
      <4> QED BY <1>4, <3>3, <4>1 DEF Hung
    <3>4. CASE m # t.root
      <4> DEFINE q == t.link[m]["P"]
      <4>1. q \in S /\ \E d \in Sides : t.link[q][d] = m BY <3>2, <3>4 DEF Hung
      <4>2. PICK d \in Sides : t.link[q][d] = m BY <4>1
      <4> HIDE DEF q
      <4>3. q # n
        <5>1. t.link[n][s] = Nil /\ t.link[n][Opposite(s)] = x OBVIOUS
        <5>2. d = s \/ d = Opposite(s) BY SidesAre
        <5> QED BY <1>3, <2>2, <4>2, <5>1, <5>2
      <4>4. r.link[q][d] = m BY <1>4, <4>1, <4>2
      <4> QED BY <3>1, <4>1, <4>3, <4>4 DEF Hung, q
    <3> QED BY <3>3, <3>4
  <2> QED BY <2>1, <2>2
<1>15. Rooted(r, T, k - 1, e)
  <2>1. t.root # Nil /\ t.root \in S /\ t.link[t.root]["P"] = Nil /\ ends[t.root]["L"] = 1 /\ ends[t.root]["R"] = k
    BY <1>3 DEF IsTree, Rooted
  <2>2. CASE p # Nil
    <3>1. r.root = t.root /\ t.root \in T BY <1>4, <1>9, <2>1, <2>2
    <3>2. t.root # x
      <4>1. x # Nil => t.link[x]["P"] = n BY <1>9
      <4> QED BY <1>3, <2>1, <4>1
    <3>3. r.link[t.root]["P"] = Nil BY <1>4, <2>1, <3>2
    <3>4. e[t.root]["L"] = 1 /\ e[t.root]["R"] = k - 1 BY <1>2, <1>5, <1>7, <2>1, <3>1
    <3> QED BY <2>1, <3>1, <3>3, <3>4 DEF Rooted
  <2>3. CASE p = Nil
    <3>1. r.root = x /\ n = t.root BY <1>4, <1>9, <2>3
    <3>2. ends[n]["L"] = 1 /\ ends[n]["R"] = k BY <2>1, <3>1
    <3>3. CASE x = Nil
      <4>1. ends[n]["L"] = a /\ ends[n]["R"] = a BY <1>9, <3>3 DEF Sides, Opposite
      <4>2. k = 1 /\ a = 1 BY <3>2, <4>1
      <4>3. ASSUME NEW m \in T PROVE FALSE
        <5>1. at[m] \in Int /\ 1 <= at[m] /\ at[m] <= k BY <1>1
        <5>2. at[m] = at[n] BY <4>2, <5>1 DEF a
        <5> QED BY <1>1, <5>2
      <4>4. T = {} BY <4>3
      <4> QED BY <3>1, <3>3, <4>4 DEF Rooted
    <3>4. CASE x # Nil
      <4>1. x \in T /\ r.link[x]["P"] = Nil BY <1>4, <1>9, <2>3, <3>4
      <4>2. CASE s = "L"
        <5>1. ends[x]["R"] = k /\ ends[x]["L"] = a + 1 /\ a = 1
          BY <1>2, <1>9, <3>2, <3>4, <4>2 DEF Opposite, Way
        <5>2. e[x]["L"] = 1 /\ e[x]["R"] = k - 1 BY <1>2, <1>5, <1>7, <4>1, <5>1
        <5> QED BY <3>1, <3>4, <4>1, <5>2 DEF Rooted
      <4>3. CASE s = "R"
        <5>1. ends[x]["L"] = 1 /\ ends[x]["R"] = a - 1 /\ a = k
          BY <1>2, <1>9, <3>2, <3>4, <4>3 DEF Opposite, Way
        <5>2. e[x]["L"] = 1 /\ e[x]["R"] = k - 1 BY <1>2, <1>5, <1>7, <4>1, <5>1
        <5> QED BY <3>1, <3>4, <4>1, <5>2 DEF Rooted
      <4> QED BY <4>2, <4>3 DEF Sides
    <3> QED BY <3>3, <3>4
  <2> QED BY <2>2, <2>3
<1> QED BY <1>3, <1>4, <1>5, <1>10, <1>13, <1>14, <1>15 DEF IsTree, b, e, a

----------------------------------------------------------------------------
(* Another node in the place of one                                        *)

Moved(S, f, n, y) == [m \in (S \ {n}) \cup {y} |-> IF m = y THEN f[n] ELSE f[m]]

\* y has the links n had, and n's parent and children are linked to y.
Renamed(t, r, S, n, y) ==
  /\ r \in Trees
  /\ r.root = IF t.root = n THEN y ELSE t.root
  /\ \A m \in S \ {n}, d \in Sides : r.link[m][d] = IF t.link[m][d] = n THEN y ELSE t.link[m][d]
  /\ \A m \in S \ {n} : r.link[m]["P"] = IF t.link[m]["P"] = n THEN y ELSE t.link[m]["P"]
  /\ \A d \in Dirs : r.link[y][d] = t.link[n][d]

\* A tree in which y takes the place, the links and the span of n is a tree.
LEMMA RenameTree ==
  ASSUME NEW t, NEW S, NEW k, NEW at, NEW ends, IsTree(t, S, k, at, ends),
         NEW n \in S, NEW y \in Blocks \ S, NEW r, Renamed(t, r, S, n, y)
  PROVE  IsTree(r, (S \ {n}) \cup {y}, k, Moved(S, at, n, y), Moved(S, ends, n, y))
<1> DEFINE T == (S \ {n}) \cup {y}
           b == Moved(S, at, n, y)
           e == Moved(S, ends, n, y)
           old(m) == IF m = y THEN n ELSE m
           new(m) == IF m = n THEN y ELSE m
<1>1. /\ k \in Nat /\ at \in [S -> Int] /\ ends \in [S -> [Sides -> Int]]
      /\ \A m \in S : at[m] \in Int /\ 1 <= at[m] /\ at[m] <= k
      /\ \A l, m \in S : at[l] = at[m] => l = m
      /\ \A j \in 1..k : \E m \in S : at[m] = j
      /\ \A m \in S : ends[m]["L"] <= at[m] /\ at[m] <= ends[m]["R"]
  BY DEF IsTree, Ordered, Spans
<1>2. /\ Nil \notin S /\ y # Nil /\ n # Nil /\ y # n /\ y \notin S /\ S \subseteq Blocks
      /\ \A d \in Sides : d \in Dirs /\ d # "P"
      /\ "P" \in Dirs
      /\ S \subseteq Ptrs /\ y \in Ptrs /\ Nil \in Ptrs
  BY SidesAre DEF IsTree, Sides, Dirs, Ptrs
<1>3. \A m \in T : old(m) \in S /\ b[m] = at[old(m)] /\ e[m] = ends[old(m)] /\ new(old(m)) = m
  BY <1>2 DEF Moved
<1>4. \A m \in S : new(m) \in T /\ old(new(m)) = m BY <1>2
<1>5. ASSUME NEW m \in T PROVE /\ \A d \in Sides : r.link[m][d] = new(t.link[old(m)][d])
                               /\ r.link[m]["P"] = new(t.link[old(m)]["P"])
  <2>1. CASE m = y
    <3>1. \A d \in Sides : t.link[n][d] # n BY Family
    <3>2. t.link[n]["P"] # n
      <4>1. n = t.root => t.link[n]["P"] = Nil BY Family
      <4>2. n # t.root => t.link[n]["P"] \in S /\ \E d \in Sides : t.link[t.link[n]["P"]][d] = n
        BY DEF IsTree, Hung
      <4> QED BY <1>2, <3>1, <4>1, <4>2
    <3> QED BY <1>2, <2>1, <3>1, <3>2 DEF Renamed
  <2>2. CASE m # y BY <2>2 DEF Renamed
  <2> QED BY <2>1, <2>2
<1>6. b \in [T -> Int] /\ e \in [T -> [Sides -> Int]]
  <2>1. \A m \in T : (IF m = y THEN at[n] ELSE at[m]) \in Int BY <1>1
  <2>2. \A m \in T : (IF m = y THEN ends[n] ELSE ends[m]) \in [Sides -> Int] BY <1>1
  <2> QED BY <2>1, <2>2 DEF Moved
<1>7. r \in Trees /\ r.root = new(t.root) BY DEF Renamed
<1>8. new(Nil) = Nil /\ (\A m : new(m) = Nil => m = Nil) BY <1>2
<1> HIDE DEF b, e, T
<1>9. Ordered(T, k, b)
  <2>1. \A m \in T : 1 <= b[m] /\ b[m] <= k BY <1>1, <1>3
  <2>2. \A l, m \in T : b[l] = b[m] => l = m BY <1>1, <1>3
  <2>3. ASSUME NEW j \in 1..k PROVE \E m \in T : b[m] = j
    <3>1. PICK m \in S : at[m] = j BY <1>1
    <3>2. new(m) \in T /\ old(new(m)) = m BY <1>4
    <3>3. b[new(m)] = j BY <1>3, <3>1, <3>2
    <3> QED BY <3>2, <3>3
  <2> QED BY <1>1, <1>6, <2>1, <2>2, <2>3 DEF Ordered
<1>10. Spans(T, b, e) BY <1>1, <1>3, <1>6 DEF Spans
<1>11. ASSUME NEW m \in T, NEW d \in Sides PROVE Branch(r, T, b, e, m, d)
  <2> DEFINE c == t.link[old(m)][d]
  <2>1. Branch(t, S, at, ends, old(m), d) BY <1>3 DEF IsTree
  <2>2. r.link[m][d] = new(c) BY <1>5
  <2>3. CASE c = Nil BY <1>3, <1>8, <2>1, <2>2, <2>3 DEF Branch
  <2>4. CASE c # Nil
    <3>1. c \in S /\ t.link[c]["P"] = old(m) /\ ends[c][d] = ends[old(m)][d]
          /\ ends[c][Opposite(d)] = at[old(m)] + Way(d)
      BY <2>1, <2>4 DEF Branch
    <3>2. new(c) \in T /\ old(new(c)) = c /\ new(c) # Nil BY <1>4, <1>8, <2>4, <3>1
    <3>3. e[new(c)] = ends[c] BY <1>3, <3>2
    <3>4. r.link[new(c)]["P"] = new(old(m)) BY <1>5, <3>1, <3>2
    <3>5. e[m] = ends[old(m)] /\ b[m] = at[old(m)] /\ new(old(m)) = m BY <1>3
    <3> HIDE DEF c, old, new
    <3> QED BY <2>2, <3>1, <3>2, <3>3, <3>4, <3>5 DEF Branch
  <2> QED BY <2>3, <2>4
<1>12. ASSUME NEW m \in T PROVE Hung(r, T, m)
  <2> DEFINE p == t.link[old(m)]["P"]
  <2>1. Hung(t, S, old(m)) /\ new(old(m)) = m BY <1>3 DEF IsTree
  <2>2. CASE old(m) = t.root
    <3>1. r.root = m BY <1>7, <2>1, <2>2
    <3> QED BY <3>1 DEF Hung
  <2>3. CASE old(m) # t.root
    <3>1. p \in S /\ \E d \in Sides : t.link[p][d] = old(m) BY <2>1, <2>3 DEF Hung
    <3>2. PICK d \in Sides : t.link[p][d] = old(m) BY <3>1
    <3>3. r.link[m]["P"] = new(p) BY <1>5
    <3>4. new(p) \in T /\ old(new(p)) = p BY <1>4, <3>1
    <3>5. r.link[new(p)][d] = new(old(m)) BY <1>5, <3>2, <3>4
    <3> HIDE DEF p, old, new
    <3> QED BY <2>1, <3>3, <3>4, <3>5 DEF Hung
  <2> QED BY <2>2, <2>3
<1>13. Rooted(r, T, k, e)
  <2>1. t.root # Nil /\ t.root \in S /\ t.link[t.root]["P"] = Nil /\ ends[t.root]["L"] = 1 /\ ends[t.root]["R"] = k
    BY DEF IsTree, Rooted
  <2>2. r.root \in T /\ old(r.root) = t.root /\ r.root # Nil BY <1>4, <1>7, <1>8, <2>1
  <2>3. e[r.root] = ends[t.root] BY <1>3, <2>2
  <2>4. r.link[r.root]["P"] = new(Nil) BY <1>5, <2>1, <2>2
  <2> QED BY <1>8, <2>1, <2>2, <2>3, <2>4 DEF Rooted
<1>14. T \subseteq Blocks BY <1>2 DEF T
<1> QED BY <1>7, <1>9, <1>10, <1>11, <1>12, <1>13, <1>14 DEF IsTree, T, b, e

----------------------------------------------------------------------------
(* The successor y of n, the leftmost node of n's right subtree            *)

Succeeds(t, S, at, ends, n, y) ==
  /\ n \in S /\ y \in S
  /\ \A s \in Sides : t.link[n][s] # Nil
  /\ t.link[y]["L"] = Nil
  /\ ends[y]["L"] = at[n] + 1

\* n is above y, and its own links do not lead to x, y's right child.
LEMMA Succession ==
  ASSUME NEW t, NEW S, NEW k, NEW at, NEW ends, IsTree(t, S, k, at, ends), NEW n, NEW y,
         Succeeds(t, S, at, ends, n, y), NEW x, x = t.link[y]["R"]
  PROVE  /\ y # n /\ x # n /\ x # y
         /\ at[y] = at[n] + 1
         /\ t.link[n]["P"] # y
         /\ t.link[n]["L"] \in S /\ t.link[n]["L"] # y /\ t.link[n]["L"] # x
         /\ t.link[n]["R"] \in S /\ t.link[n]["R"] # x
         /\ t.link[n]["L"] # n /\ t.link[n]["R"] # n
         /\ t.link[n]["R"] = y <=> t.link[y]["P"] = n
         /\ t.link[y]["P"] \in S
         /\ t.link[y]["P"] # n => t.link[t.link[y]["P"]]["L"] = y
         /\ n \in S /\ y \in S /\ x \in S \cup {Nil}
<1>1. /\ n \in S /\ y \in S /\ t.link[n]["L"] # Nil /\ t.link[n]["R"] # Nil /\ t.link[y]["L"] = Nil
      /\ "L" \in Sides /\ "R" \in Sides
      /\ n # Nil /\ y # Nil
  BY SidesAre, Family DEF Succeeds, Sides
<1>2. \A m \in S : /\ ends[m]["L"] \in Int /\ ends[m]["R"] \in Int /\ at[m] \in Int
                   /\ ends[m]["L"] <= at[m] /\ at[m] <= ends[m]["R"]
                   /\ at[m] >= 1
  BY DEF IsTree, Ordered, Spans, Sides
<1>3. at[y] = at[n] + 1
  <2>1. Branch(t, S, at, ends, y, "L") BY <1>1 DEF IsTree
  <2> QED BY <1>1, <2>1 DEF Branch, Succeeds
<1>4. y # n BY <1>1, <1>2, <1>3
<1>5. /\ x # Nil => x \in S /\ t.link[x]["P"] = y /\ ends[x]["L"] = at[y] + 1
      /\ x \in S \cup {Nil}
  <2>1. Branch(t, S, at, ends, y, "R") BY <1>1 DEF IsTree
  <2> QED BY <1>1, <1>2, <2>1 DEF Branch, Opposite, Way
<1>6. x # n /\ x # y
  <2>1. x # Nil => at[x] >= at[y] + 1 BY <1>2, <1>5
  <2> QED BY <1>1, <1>2, <1>3, <1>5, <2>1
<1>7. /\ t.link[n]["L"] \in S /\ t.link[t.link[n]["L"]]["P"] = n /\ ends[t.link[n]["L"]]["R"] = at[n] - 1
      /\ t.link[n]["R"] \in S /\ t.link[t.link[n]["R"]]["P"] = n
  <2>1. Branch(t, S, at, ends, n, "L") /\ Branch(t, S, at, ends, n, "R") BY <1>1 DEF IsTree
  <2> QED BY <1>1, <1>2, <2>1 DEF Branch, Opposite, Way
<1>8. t.link[n]["L"] # y
  <2>1. ends[y]["L"] = at[n] + 1 BY DEF Succeeds
  <2> QED BY <1>1, <1>2, <1>3, <1>7
<1>9. t.link[n]["L"] # x /\ t.link[n]["R"] # x BY <1>1, <1>4, <1>5, <1>7
<1>10. t.link[n]["L"] # n /\ t.link[n]["R"] # n BY <1>1, Family
<1>11. t.link[n]["P"] # y
  <2> SUFFICES ASSUME t.link[n]["P"] = y PROVE FALSE OBVIOUS
  <2>1. n # t.root BY <1>1, Family
  <2>2. \E s \in Sides : t.link[y][s] = n BY <1>1, <2>1 DEF IsTree, Hung
  <2> QED BY <1>1, <1>6, <2>2 DEF Sides
<1>12. y # t.root
  <2> SUFFICES ASSUME y = t.root PROVE FALSE OBVIOUS
  <2>1. ends[y]["L"] = 1 BY <1>1 DEF IsTree, Rooted
  <2> QED BY <1>1, <1>2, <2>1 DEF Succeeds
<1> DEFINE q == t.link[y]["P"]
<1>13. q \in S /\ \E s \in Sides : t.link[q][s] = y BY <1>1, <1>12 DEF IsTree, Hung
<1>14. PICK s \in Sides : t.link[q][s] = y BY <1>13
<1>15. ASSUME s = "R" PROVE q = n
  <2> HIDE DEF q
  <2>1. Branch(t, S, at, ends, q, "R") BY <1>1, <1>13 DEF IsTree
  <2>2. ends[y]["L"] = at[q] + 1 BY <1>1, <1>2, <1>13, <1>14, <1>15, <2>1 DEF Branch, Opposite, Way
  <2>3. ends[y]["L"] = at[n] + 1 BY DEF Succeeds
  <2>4. at[q] = at[n] BY <1>1, <1>2, <1>13, <2>2, <2>3
  <2> QED BY <1>1, <1>13, <2>4 DEF IsTree, Ordered
<1>16. q = n => t.link[n]["R"] = y BY <1>8, <1>14 DEF Sides
<1>17. q # n => t.link[q]["L"] = y BY <1>14, <1>15 DEF Sides
<1> QED BY <1>1, <1>3, <1>4, <1>5, <1>6, <1>7, <1>8, <1>9, <1>10, <1>11, <1>13, <1>16, <1>17

\* The parent of n has it on one side.
HangsOnce(t, n) ==
  LET p == t.link[n]["P"] IN
  p # Nil => (\E s \in Sides : t.link[p][s] = n) /\ t.link[p]["L"] # t.link[p]["R"]

\* The end of the splice: y in n's place, with n's left child.
LEMMA TakePlace ==
  ASSUME NEW t1 \in Trees, NEW n \in Ptrs, NEW y \in Ptrs, n # Nil, y # Nil, y # n,
         HangsOnce(t1, n), t1.link[n]["P"] # n, t1.link[n]["P"] # y, t1.link[n]["L"] # Nil
  PROVE  LET t2 == Transplant(t1, n, y)
             r  == Hang(t2, y, "L", t2.link[n]["L"])
             p  == t1.link[n]["P"]
             l  == t1.link[n]["L"] IN
         /\ r \in Trees
         /\ r.root = IF p = Nil THEN y ELSE t1.root
         /\ \A m \in Ptrs, d \in Sides :
              r.link[m][d] = IF m = y /\ d = "L" THEN l
                             ELSE IF m = p /\ p # Nil /\ t1.link[m][d] = n THEN y
                             ELSE t1.link[m][d]
         /\ \A m \in Ptrs : r.link[m]["P"] = IF m = l THEN y ELSE IF m = y THEN p ELSE t1.link[m]["P"]
<1> DEFINE p  == t1.link[n]["P"]
           l  == t1.link[n]["L"]
           t0 == Replace(t1, n, y)
           t2 == [t0 EXCEPT !.link[y]["P"] = t0.link[n]["P"]]
           r  == Hang(t2, y, "L", t2.link[n]["L"])
<1>1. "P" \in Dirs /\ "L" \in Sides /\ p \in Ptrs /\ l \in Ptrs /\ \A d \in Sides : d \in Dirs /\ d # "P"
  BY DEF Sides, Dirs, Trees
<1>2. /\ t0 \in Trees
      /\ t0.root = IF p = Nil THEN y ELSE t1.root
      /\ \A m \in Ptrs, d \in Sides :
           t0.link[m][d] = IF m = p /\ p # Nil /\ t1.link[m][d] = n THEN y ELSE t1.link[m][d]
      /\ \A m \in Ptrs : t0.link[m]["P"] = t1.link[m]["P"]
  BY <1>1, ReplaceLinks DEF HangsOnce
<1> HIDE DEF t0
<1>10. p # n /\ p # y /\ l # Nil OBVIOUS
<1>3. t0.link[n]["P"] = p /\ t1.link[n]["L"] = l BY <1>2
<1> HIDE DEF p, l
<1>4. /\ t2 \in Trees
      /\ t2.root = t0.root
      /\ \A m \in Ptrs, d \in Dirs : t2.link[m][d] = IF m = y /\ d = "P" THEN p ELSE t0.link[m][d]
  <2> DEFINE v == t0.link[n]["P"]
  <2>3. v = p BY <1>3
  <2>1. t0 \in Trees /\ v \in Ptrs /\ "P" \in Dirs BY <1>1, <1>2, <2>3
  <2> HIDE DEF v
  <2>2. /\ [t0 EXCEPT !.link[y]["P"] = v] \in Trees
        /\ [t0 EXCEPT !.link[y]["P"] = v].root = t0.root
        /\ \A m \in Ptrs, d \in Dirs :
             [t0 EXCEPT !.link[y]["P"] = v].link[m][d] = IF m = y /\ d = "P" THEN v ELSE t0.link[m][d]
    BY <2>1, SetLink, SMTT(30)
  <2> QED BY <2>2, <2>3 DEF v
<1>5. t2 = Transplant(t1, n, y) BY DEF Transplant, t0, t2
<1> HIDE DEF t2
<1>6. t2.link[n]["L"] = l BY <1>1, <1>2, <1>3, <1>4, <1>10
<1>7. /\ r \in Trees
      /\ r.root = t2.root
      /\ \A m \in Ptrs, d \in Sides : r.link[m][d] = IF m = y /\ d = "L" THEN l ELSE t2.link[m][d]
      /\ \A m \in Ptrs : r.link[m]["P"] = IF m = l /\ l # Nil THEN y ELSE t2.link[m]["P"]
  <2> DEFINE h == Hang(t2, y, "L", l)
  <2>1. /\ h \in Trees
        /\ h.root = t2.root
        /\ \A m \in Ptrs, d \in Sides : h.link[m][d] = IF m = y /\ d = "L" THEN l ELSE t2.link[m][d]
        /\ \A m \in Ptrs : h.link[m]["P"] = IF m = l /\ l # Nil THEN y ELSE t2.link[m]["P"]
    <3> HIDE DEF r
    <3>1. t2 \in Trees /\ l \in Ptrs /\ "L" \in Sides BY <1>1, <1>4
    <3> QED BY <3>1, HangLinks, SMTT(40)
  <2>2. r = h BY <1>6
  <2> QED BY <2>1, <2>2
<1> HIDE DEF r
<1>8. /\ r \in Trees
      /\ r.root = IF p = Nil THEN y ELSE t1.root
      /\ \A m \in Ptrs, d \in Sides :
           r.link[m][d] = IF m = y /\ d = "L" THEN l
                          ELSE IF m = p /\ p # Nil /\ t1.link[m][d] = n THEN y
                          ELSE t1.link[m][d]
      /\ \A m \in Ptrs : r.link[m]["P"] = IF m = l THEN y ELSE IF m = y THEN p ELSE t1.link[m]["P"]
  BY <1>1, <1>2, <1>4, <1>7, <1>10
<1> QED BY <1>5, <1>8 DEF r, p, l

\* Where n hangs.
LEMMA Hanging ==
  ASSUME NEW t, NEW S, NEW k, NEW at, NEW ends, IsTree(t, S, k, at, ends), NEW n \in S
  PROVE  LET p == t.link[n]["P"] IN
         /\ p = Nil <=> n = t.root
         /\ p # Nil => /\ p \in S /\ p # n
                       /\ \E s \in Sides : t.link[p][s] = n
                       /\ t.link[p]["L"] # t.link[p]["R"]
<1> DEFINE p == t.link[n]["P"]
<1>1. p = Nil <=> n = t.root BY Family
<1> SUFFICES ASSUME p # Nil
             PROVE  /\ p \in S /\ p # n
                    /\ \E s \in Sides : t.link[p][s] = n
                    /\ t.link[p]["L"] # t.link[p]["R"]
  BY <1>1
<1>2. p \in S /\ \E s \in Sides : t.link[p][s] = n BY <1>1 DEF IsTree, Hung
<1>3. PICK s \in Sides : t.link[p][s] = n BY <1>2
<1>4. n # Nil BY Family
<1> HIDE DEF p
<1>5. t.link[p]["L"] # t.link[p]["R"] BY <1>2, <1>3, <1>4, Family DEF Sides
<1>6. p # n BY <1>2, <1>3, Family
<1> QED BY <1>2, <1>5, <1>6

\* The sentinel's parent pointer leads to where y was.
Handed(r, q, n, y) == r.link[Nil]["P"] = IF q = n THEN y ELSE q

\* The links out of the splice of a successor are those of the tree without y,
\* with y in n's place.
LEMMA SuccessorLinks ==
  ASSUME NEW S, NEW k, NEW at, NEW ends, IsTree(Tree, S, k, at, ends), NEW n, NEW y,
         Succeeds(Tree, S, at, ends, n, y)
  PROVE  LET x  == link[y]["R"]
             q  == link[y]["P"]
             t0 == Transplant(Tree, y, x)
             r  == SpliceSuccessor(n, y).t IN
         /\ Spliced(Tree, t0, y, x)
         /\ Renamed(t0, r, S \ {y}, n, y)
         /\ x = Nil => Handed(r, q, n, y)
<1> DEFINE t == Tree
           x == link[y]["R"]
           q == link[y]["P"]
           t0 == Transplant(t, y, x)
           r == SpliceSuccessor(n, y).t
           p == link[n]["P"]
           l == link[n]["L"]
           c == link[n]["R"]
<1> SUFFICES /\ Spliced(t, t0, y, x)
             /\ Renamed(t0, r, S \ {y}, n, y)
             /\ x = Nil => r.link[Nil]["P"] = IF q = n THEN y ELSE q
  BY DEF Handed
<1>1. /\ y # n /\ x # n /\ x # y
      /\ p # y
      /\ l \in S /\ l # y /\ l # x /\ l # n
      /\ c \in S /\ c # x /\ c # n
      /\ c = y <=> q = n
      /\ q \in S
      /\ n \in S /\ y \in S /\ x \in S \cup {Nil}
  BY Succession DEF Tree
<1>2. t \in Trees /\ t.link = link /\ t.root = root /\ S \subseteq Ptrs /\ Nil \notin S /\ Nil \in Ptrs
      /\ "L" \in Sides /\ "R" \in Sides /\ "P" \in Dirs /\ \A d \in Sides : d \in Dirs /\ d # "P"
  BY SidesAre DEF IsTree, Ptrs, Sides, Dirs, Tree
<1>3. /\ p = Nil <=> n = root
      /\ p # Nil => /\ p \in S /\ p # n
                    /\ \E s \in Sides : link[p][s] = n
                    /\ link[p]["L"] # link[p]["R"]
  BY <1>1, Hanging DEF Tree
<1>4. l # c /\ link[y]["L"] = Nil /\ link[y]["R"] = x /\ q # Nil /\ root # y
  <2>1. l # c BY <1>1, <1>2, Family
  <2>2. root # y BY <1>1, <1>2, Family
  <2> QED BY <1>1, <1>2, <2>1, <2>2 DEF Succeeds
<1>5. Spliced(t, t0, y, x) BY <1>1, <1>2, TransplantLinks
<1>6. /\ t0 \in Trees
      /\ t0.root = root
      /\ \A m \in Ptrs, d \in Sides : t0.link[m][d] = IF m = q /\ link[m][d] = y THEN x ELSE link[m][d]
      /\ \A m \in Ptrs : t0.link[m]["P"] = IF m = x THEN q ELSE link[m]["P"]
  <2> HIDE DEF t0
  <2> QED BY <1>2, <1>4, <1>5 DEF Spliced
<1> HIDE DEF x, q
<1>7. \A m \in S, d \in Sides : link[m][d] = n => m = p
  <2> SUFFICES ASSUME NEW m \in S, NEW d \in Sides, link[m][d] = n PROVE m = p OBVIOUS
  <2>1. Branch(t, S, at, ends, m, d) BY DEF IsTree
  <2> QED BY <1>1, <1>2, <2>1 DEF Branch
<1>8. \A m \in S : link[m]["P"] = n => m = l \/ m = c
  <2> SUFFICES ASSUME NEW m \in S, link[m]["P"] = n PROVE m = l \/ m = c OBVIOUS
  <2>1. m # root BY <1>1, <1>2, Family
  <2>2. \E d \in Sides : link[n][d] = m BY <1>2, <2>1 DEF IsTree, Hung
  <2> QED BY <2>2 DEF Sides
<1>9. \A m \in S : (m = l \/ m = c) => link[m]["P"] = n
  <2>1. Branch(t, S, at, ends, n, "L") /\ Branch(t, S, at, ends, n, "R") BY <1>1, <1>2 DEF IsTree
  <2> QED BY <1>1, <1>2, <2>1 DEF Branch
<1> HIDE DEF p, l, c, t, t0, r
<1>10. CASE q = n
  <2> DEFINE t1 == [t EXCEPT !.link[x]["P"] = y]
             t2 == Transplant(t1, n, y)
  <2>1. r = Hang(t2, y, "L", t2.link[n]["L"]) BY <1>10 DEF SpliceSuccessor, t, r, q, x
  <2>2. /\ t1 \in Trees
        /\ t1.root = root
        /\ \A m \in Ptrs, d \in Dirs : t1.link[m][d] = IF m = x /\ d = "P" THEN y ELSE link[m][d]
    <3>1. x \in Ptrs /\ y \in Ptrs /\ "P" \in Dirs /\ t \in Trees BY <1>1, <1>2
    <3>2. /\ t1 \in Trees
          /\ t1.root = t.root
          /\ \A m \in Ptrs, d \in Dirs : t1.link[m][d] = IF m = x /\ d = "P" THEN y ELSE t.link[m][d]
      BY <3>1, SetLink
    <3> QED BY <1>2, <3>2
  <2> HIDE DEF t1
  <2>14. n \in Ptrs /\ y \in Ptrs /\ n # Nil /\ y # Nil /\ y # n /\ p # y /\ l # Nil BY <1>1, <1>2
  <2>3. t1.link[n]["P"] = p /\ t1.link[n]["L"] = l BY <1>1, <1>2, <2>2 DEF p, l
  <2>4. p # n BY <1>1, <1>2, <1>3
  <2>5. p # Nil => (\E s \in Sides : t1.link[p][s] = n) /\ t1.link[p]["L"] # t1.link[p]["R"]
    BY <1>2, <1>3, <2>2
  <2>6. /\ r \in Trees
        /\ r.root = IF p = Nil THEN y ELSE t1.root
        /\ \A m \in Ptrs, d \in Sides :
             r.link[m][d] = IF m = y /\ d = "L" THEN l
                            ELSE IF m = p /\ p # Nil /\ t1.link[m][d] = n THEN y
                            ELSE t1.link[m][d]
        /\ \A m \in Ptrs : r.link[m]["P"] = IF m = l THEN y ELSE IF m = y THEN p ELSE t1.link[m]["P"]
    BY <2>1, <2>2, <2>3, <2>4, <2>5, <2>14, TakePlace, SMTT(30) DEF HangsOnce
  <2>7. r.root = IF t0.root = n THEN y ELSE t0.root BY <1>3, <1>6, <2>2, <2>6
  <2>8. ASSUME NEW m \in S \ {y, n}, NEW d \in Sides
        PROVE  r.link[m][d] = IF t0.link[m][d] = n THEN y ELSE t0.link[m][d]
    <3>1. t0.link[m][d] = link[m][d] BY <1>2, <1>6, <1>10
    <3>2. t1.link[m][d] = link[m][d] BY <1>2, <2>2
    <3> QED BY <1>2, <1>7, <2>6, <3>1, <3>2
  <2>9. ASSUME NEW m \in S \ {y, n}
        PROVE  r.link[m]["P"] = IF t0.link[m]["P"] = n THEN y ELSE t0.link[m]["P"]
    <3>1. t0.link[m]["P"] = IF m = x THEN n ELSE link[m]["P"] BY <1>2, <1>6, <1>10
    <3>2. t1.link[m]["P"] = IF m = x THEN y ELSE link[m]["P"] BY <1>2, <2>2
    <3>3. c = y BY <1>1, <1>10
    <3> QED BY <1>1, <1>2, <1>8, <1>9, <2>6, <3>1, <3>2, <3>3
  <2>10. ASSUME NEW d \in Dirs PROVE r.link[y][d] = t0.link[n][d]
    <3>1. CASE d = "L"
      <4>1. t0.link[n]["L"] = l BY <1>1, <1>2, <1>6 DEF l
      <4> QED BY <1>1, <1>2, <2>6, <3>1, <4>1
    <3>2. CASE d = "R"
      <4>1. t0.link[n]["R"] = x BY <1>1, <1>2, <1>6, <1>10 DEF c
      <4>2. t1.link[y]["R"] = x BY <1>1, <1>2, <1>4, <2>2
      <4> QED BY <1>1, <1>2, <2>6, <3>2, <4>1, <4>2
    <3>3. CASE d = "P"
      <4>1. t0.link[n]["P"] = p BY <1>1, <1>2, <1>6 DEF p
      <4> QED BY <1>1, <1>2, <2>6, <3>3, <4>1
    <3> QED BY <3>1, <3>2, <3>3 DEF Dirs, Sides
  <2>11. x = Nil => r.link[Nil]["P"] = y BY <1>1, <1>2, <2>2, <2>6
  <2>12. (S \ {y}) \ {n} = S \ {y, n} OBVIOUS
  <2>13. Renamed(t0, r, S \ {y}, n, y) BY <2>6, <2>7, <2>8, <2>9, <2>10, <2>12 DEF Renamed
  <2> QED BY <1>5, <1>10, <2>11, <2>13
<1>11. CASE q # n
  <2> DEFINE t1 == Hang(t0, y, "R", t0.link[n]["R"])
             t2 == Transplant(t1, n, y)
  <2>1. r = Hang(t2, y, "L", t2.link[n]["L"]) BY <1>11 DEF SpliceSuccessor, t, t0, r, q, x
  <2>2. t0.link[n]["L"] = l /\ t0.link[n]["R"] = c /\ t0.link[n]["P"] = p
    BY <1>1, <1>2, <1>6, <1>11 DEF l, c, p
  <2>3. /\ t1 \in Trees
        /\ t1.root = root
        /\ \A m \in Ptrs, d \in Sides : t1.link[m][d] = IF m = y /\ d = "R" THEN c ELSE t0.link[m][d]
        /\ \A m \in Ptrs : t1.link[m]["P"] = IF m = c THEN y ELSE t0.link[m]["P"]
    <3> DEFINE h == Hang(t0, y, "R", c)
    <3>1. t1 = h BY <2>2
    <3> HIDE DEF t1
    <3>2. y \in Ptrs /\ c \in Ptrs /\ c # Nil /\ "R" \in Sides /\ t0 \in Trees BY <1>1, <1>2, <1>6
    <3>3. /\ h \in Trees
          /\ h.root = t0.root
          /\ \A m \in Ptrs, d \in Sides : h.link[m][d] = IF m = y /\ d = "R" THEN c ELSE t0.link[m][d]
          /\ \A m \in Ptrs : h.link[m]["P"] = IF m = c /\ c # Nil THEN y ELSE t0.link[m]["P"]
      BY <3>2, HangLinks
    <3> HIDE DEF h
    <3> QED BY <1>6, <3>1, <3>2, <3>3
  <2> HIDE DEF t1
  <2>4. t1.link[n]["P"] = p /\ t1.link[n]["L"] = l BY <1>1, <1>2, <2>2, <2>3
  <2>5. p # n BY <1>1, <1>2, <1>3
  <2>6. p # Nil => (\E s \in Sides : t1.link[p][s] = n) /\ t1.link[p]["L"] # t1.link[p]["R"]
    <3> SUFFICES ASSUME p # Nil PROVE (\E s \in Sides : t1.link[p][s] = n) /\ t1.link[p]["L"] # t1.link[p]["R"]
      OBVIOUS
    <3>1. p \in S /\ link[p]["L"] # link[p]["R"] BY <1>3
    <3>2. PICK s \in Sides : link[p][s] = n BY <1>3
    <3>3. t0.link[p][s] = n BY <1>1, <1>2, <1>6, <3>1, <3>2
    <3>4. t1.link[p][s] = n BY <1>1, <1>2, <2>3, <3>1, <3>3
    <3>5. t0.link[p][Opposite(s)] # n
      <4>1. Opposite(s) \in Sides /\ link[p][Opposite(s)] # n BY <3>1, <3>2 DEF Sides, Opposite
      <4> QED BY <1>1, <1>2, <1>6, <3>1, <4>1
    <3>6. t1.link[p][Opposite(s)] # n BY <1>1, <1>2, <2>3, <3>1, <3>5, SidesAre
    <3> QED BY <3>4, <3>6 DEF Sides, Opposite
  <2>7. /\ r \in Trees
        /\ r.root = IF p = Nil THEN y ELSE t1.root
        /\ \A m \in Ptrs, d \in Sides :
             r.link[m][d] = IF m = y /\ d = "L" THEN l
                            ELSE IF m = p /\ p # Nil /\ t1.link[m][d] = n THEN y
                            ELSE t1.link[m][d]
        /\ \A m \in Ptrs : r.link[m]["P"] = IF m = l THEN y ELSE IF m = y THEN p ELSE t1.link[m]["P"]
    <3>1. n \in Ptrs /\ y \in Ptrs /\ n # Nil /\ y # Nil /\ y # n /\ p # y /\ l # Nil BY <1>1, <1>2
    <3> QED BY <2>1, <2>3, <2>4, <2>5, <2>6, <3>1, TakePlace, SMTT(30) DEF HangsOnce
  <2>8. r.root = IF t0.root = n THEN y ELSE t0.root BY <1>3, <1>6, <2>3, <2>7
  <2>9. ASSUME NEW m \in S \ {y, n}, NEW d \in Sides
        PROVE  r.link[m][d] = IF t0.link[m][d] = n THEN y ELSE t0.link[m][d]
    <3>1. t1.link[m][d] = t0.link[m][d] BY <1>2, <2>3
    <3>2. t0.link[m][d] = n => m = p BY <1>1, <1>2, <1>6, <1>7
    <3>3. p = Nil => m # p BY <1>2
    <3> QED BY <1>2, <2>7, <3>1, <3>2, <3>3
  <2>10. ASSUME NEW m \in S \ {y, n}
         PROVE  r.link[m]["P"] = IF t0.link[m]["P"] = n THEN y ELSE t0.link[m]["P"]
    <3>1. t0.link[m]["P"] = IF m = x THEN q ELSE link[m]["P"] BY <1>2, <1>6
    <3>2. t1.link[m]["P"] = IF m = c THEN y ELSE t0.link[m]["P"] BY <1>2, <2>3
    <3> QED BY <1>1, <1>2, <1>8, <1>9, <1>11, <2>7, <3>1, <3>2
  <2>11. ASSUME NEW d \in Dirs PROVE r.link[y][d] = t0.link[n][d]
    <3>1. CASE d = "L" BY <1>1, <1>2, <2>2, <2>7, <3>1
    <3>2. CASE d = "R"
      <4>1. t1.link[y]["R"] = c BY <1>1, <1>2, <2>3
      <4> QED BY <1>1, <1>2, <2>2, <2>7, <3>2, <4>1
    <3>3. CASE d = "P" BY <1>1, <1>2, <2>2, <2>7, <3>3
    <3> QED BY <3>1, <3>2, <3>3 DEF Dirs, Sides
  <2>12. x = Nil => r.link[Nil]["P"] = q
    <3>1. x = Nil => t0.link[Nil]["P"] = q BY <1>2, <1>6
    <3> QED BY <1>1, <1>2, <2>3, <2>7, <3>1
  <2>13. (S \ {y}) \ {n} = S \ {y, n} OBVIOUS
  <2>14. Renamed(t0, r, S \ {y}, n, y) BY <2>7, <2>8, <2>9, <2>10, <2>11, <2>13 DEF Renamed
  <2> QED BY <1>5, <1>11, <2>12, <2>14
<1> QED BY <1>10, <1>11 DEF Handed

\* The removal of a node with two children, its successor put in its place,
\* leaves a tree of the other nodes in the order they had.
LEMMA SuccessorTree ==
  ASSUME NEW S, NEW k, NEW at, NEW ends, IsTree(Tree, S, k, at, ends), NEW n, NEW y,
         Succeeds(Tree, S, at, ends, n, y)
  PROVE  IsTree(SpliceSuccessor(n, y).t, S \ {n}, k - 1, AtMinus(S, at, n),
                Moved(S \ {y}, EndsMinus(S, ends, at[y], y), n, y))
<1> DEFINE x  == link[y]["R"]
           t0 == Transplant(Tree, y, x)
           r  == SpliceSuccessor(n, y).t
           b  == AtMinus(S, at, y)
           e  == EndsMinus(S, ends, at[y], y)
<1>1. n \in S /\ y \in S /\ y # n /\ at[y] = at[n] + 1 /\ link[y]["L"] = Nil /\ "L" \in Sides
  BY Succession DEF Succeeds, Sides, Tree
<1>2. Spliced(Tree, t0, y, x) /\ Renamed(t0, r, S \ {y}, n, y) BY SuccessorLinks
<1>3. x = Tree.link[y][Opposite("L")] /\ Tree.link[y]["L"] = Nil BY <1>1 DEF Opposite, Tree
<1>4. IsTree(t0, S \ {y}, k - 1, b, e)
  <2> HIDE DEF x, t0
  <2> QED BY <1>1, <1>2, <1>3, SpliceTree
<1>5. y \in Blocks BY <1>1 DEF IsTree
<1>6. IsTree(r, ((S \ {y}) \ {n}) \cup {y}, k - 1, Moved(S \ {y}, b, n, y), Moved(S \ {y}, e, n, y))
  <2> HIDE DEF t0, b, e, r
  <2> QED BY <1>1, <1>2, <1>4, <1>5, RenameTree
<1>7. ((S \ {y}) \ {n}) \cup {y} = S \ {n} BY <1>1
<1>8. Moved(S \ {y}, b, n, y) = AtMinus(S, at, n)
  <2>1. ASSUME NEW m \in S \ {n}
        PROVE  (IF m = y THEN b[n] ELSE b[m]) = IF at[m] > at[n] THEN at[m] - 1 ELSE at[m]
    <3>1. /\ at[m] \in Int /\ at[n] \in Int /\ at[y] \in Int /\ at[m] # at[n]
          /\ (m # y => at[m] # at[y])
      BY <1>1 DEF IsTree, Ordered
    <3>2. b[n] = at[n] BY <1>1, <3>1 DEF AtMinus
    <3>3. m # y => b[m] = IF at[m] > at[y] THEN at[m] - 1 ELSE at[m] BY DEF AtMinus
    <3> HIDE DEF b
    <3>4. CASE m = y BY <1>1, <3>1, <3>2, <3>4
    <3>5. CASE m # y BY <1>1, <3>1, <3>3, <3>5
    <3> QED BY <3>4, <3>5
  <2> HIDE DEF b
  <2> QED BY <1>7, <2>1 DEF Moved, AtMinus
<1> QED BY <1>6, <1>7, <1>8

\* Who is whose child after a rotation.
Turned(t, r, S, x, y, s) ==
  LET o == Opposite(s)
      a == t.link[x][s]
      z == t.link[y][s]
      w == t.link[y][o]
  IN  /\ r.link[x][s] = a /\ r.link[x][o] = z
      /\ r.link[y][s] = x /\ r.link[y][o] = w
      /\ r.link[x]["P"] = y
      /\ \A m \in S \ {x, y}, d \in Sides : /\ t.link[m][d] # y
                                            /\ r.link[m][d] = IF t.link[m][d] = x THEN y ELSE t.link[m][d]
      /\ {a, z, w} \subseteq (S \ {x, y}) \cup {Nil}
      /\ a # Nil => a # z /\ a # w
      /\ z # Nil => z # w
      /\ r.root = IF t.root = x THEN y ELSE t.root
      /\ r.link[Nil]["P"] = t.link[Nil]["P"]
      /\ \A m \in S \ {x, y} : m # z => r.link[m]["P"] = t.link[m]["P"]
      /\ r.link[y]["P"] = t.link[x]["P"]

\* A rotation at a node of a tree, told by the children each node has after it.
LEMMA RotateFamily ==
  ASSUME NEW t, NEW S, NEW k, NEW at, NEW ends, IsTree(t, S, k, at, ends), NEW x \in S,
         NEW s \in Sides, t.link[x][Opposite(s)] # Nil, NEW r, Rotated(t, r, x, s)
  PROVE  LET y == t.link[x][Opposite(s)] IN
         y \in S /\ y # x /\ Turned(t, r, S, x, y, s)
<1> DEFINE o == Opposite(s)
           y == t.link[x][o]
           a == t.link[x][s]
           z == t.link[y][s]
           w == t.link[y][o]
           p == t.link[x]["P"]
<1>1. /\ o \in Sides /\ o # s /\ (\A d \in Sides : d = s \/ d = o) /\ s # "P" /\ o # "P"
      /\ Nil \in Ptrs /\ S \subseteq Ptrs \ {Nil} /\ Nil \notin S
  BY SidesAre DEF IsTree, Ptrs
<1>2. /\ \A n \in S, d \in Sides : t.link[n][d] # n
      /\ \A n \in S, d \in Sides : t.link[n][d] \in S \cup {Nil}
      /\ \A m, n \in S, d, e \in Sides :
              t.link[m][d] = t.link[n][e] /\ t.link[m][d] # Nil => m = n /\ d = e
      /\ x # Nil
  BY Family
<1>3. y \in S /\ y # Nil /\ y # x BY <1>1, <1>2
<1>4. z # x /\ w # x BY <1>1, <1>3, NoCircle
<1>5. p = Nil <=> x = t.root BY Family
<1>6. \A m \in S, d \in Sides : t.link[m][d] = x => m = p
  <2> SUFFICES ASSUME NEW m \in S, NEW d \in Sides, t.link[m][d] = x PROVE m = p OBVIOUS
  <2>1. Branch(t, S, at, ends, m, d) BY DEF IsTree
  <2> QED BY <1>2, <2>1 DEF Branch
<1> HIDE DEF y, p
<1>7. /\ r.root = IF p = Nil THEN y ELSE t.root
      /\ \A n \in Ptrs \ {Nil}, d \in Sides :
           r.link[n][d] = IF n = x /\ d = o THEN z
                          ELSE IF n = y /\ d = s THEN x
                          ELSE IF n = p /\ t.link[n][d] = x THEN y
                          ELSE t.link[n][d]
      /\ \A n \in Ptrs : r.link[n]["P"] = IF n = x THEN y
                                      ELSE IF n = y THEN p
                                      ELSE IF n = z /\ z # Nil THEN x
                                      ELSE t.link[n]["P"]
  BY DEF Rotated, y, p
<1> HIDE DEF o
<1>8. a \in (S \ {x, y}) \cup {Nil} /\ z \in (S \ {x, y}) \cup {Nil} /\ w \in (S \ {x, y}) \cup {Nil}
  <2>1. a # y
    <3>1. t.link[x][o] = y BY DEF y
    <3> QED BY <1>1, <1>2, <1>3, <3>1
  <2>2. a # x /\ z # y /\ w # y BY <1>1, <1>2, <1>3
  <2> QED BY <1>1, <1>2, <1>3, <1>4, <2>1, <2>2
<1>9. (a # Nil => a # z /\ a # w) /\ (z # Nil => z # w) BY <1>1, <1>2, <1>3
<1>10. ASSUME NEW m \in S \ {x, y}, NEW d \in Sides
       PROVE  /\ t.link[m][d] # y
              /\ r.link[m][d] = IF t.link[m][d] = x THEN y ELSE t.link[m][d]
  <2>1. t.link[x][o] = y BY DEF y
  <2>2. t.link[m][d] # y BY <1>1, <1>2, <1>3, <2>1
  <2> QED BY <1>1, <1>6, <1>7, <2>2
<1>11. r.link[x][s] = a /\ r.link[x][o] = z
  <2>1. t.link[x][s] # x BY <1>2
  <2> QED BY <1>1, <1>3, <1>7, <2>1
<1>12. r.link[y][s] = x /\ r.link[y][o] = w
  <2>1. t.link[y][o] # x BY <1>4
  <2> QED BY <1>1, <1>3, <1>7, <2>1
<1>13. r.root = IF t.root = x THEN y ELSE t.root BY <1>5, <1>7
<1>14. r.link[x]["P"] = y /\ r.link[y]["P"] = p /\ r.link[Nil]["P"] = t.link[Nil]["P"]
       /\ \A m \in S \ {x, y} : m # z => r.link[m]["P"] = t.link[m]["P"]
  BY <1>1, <1>2, <1>3, <1>7
<1> HIDE DEF a, z, w
<1>15. /\ r.link[x][s] = a /\ r.link[x][o] = z
       /\ r.link[y][s] = x /\ r.link[y][o] = w
       /\ r.link[x]["P"] = y
       /\ \A m \in S \ {x, y}, d \in Sides : /\ t.link[m][d] # y
                                             /\ r.link[m][d] = IF t.link[m][d] = x THEN y ELSE t.link[m][d]
       /\ {a, z, w} \subseteq (S \ {x, y}) \cup {Nil}
       /\ a # Nil => a # z /\ a # w
       /\ z # Nil => z # w
       /\ r.root = IF t.root = x THEN y ELSE t.root
       /\ r.link[Nil]["P"] = t.link[Nil]["P"]
       /\ \A m \in S \ {x, y} : m # z => r.link[m]["P"] = t.link[m]["P"]
       /\ r.link[y]["P"] = p
  BY <1>8, <1>9, <1>10, <1>11, <1>12, <1>13, <1>14
<1>16. y \in S /\ y # x /\ Turned(t, r, S, x, y, s) BY <1>3, <1>15 DEF Turned, a, z, w, o, p
<1> QED BY <1>16 DEF y, o

----------------------------------------------------------------------------
(* Colours                                                                 *)

Black(col, n) == IF col[n] = "black" THEN 1 ELSE 0

\* bh[n] black nodes lie on every way down from n, n included, not counting
\* the one that is missing below h on side d.
Evenly(t, S, col, bh, h, d) ==
  \A n \in S, s \in Sides :
    bh[n] = bh[t.link[n][s]] + Black(col, n) + (IF n = h /\ s = d THEN 1 ELSE 0)

\* No red node has a red child, except v as a child and u as a parent.
RedsApart(t, S, col, u, v) ==
  \A n \in S, s \in Sides :
    col[n] = "red" /\ col[t.link[n][s]] = "red" => n = u \/ t.link[n][s] = v

Painted(t, S, col, bh, h, d, u, v) ==
  /\ col \in [Ptrs -> Colours]
  /\ col[Nil] = "black"
  /\ bh \in [Ptrs -> Nat]
  /\ bh[Nil] = 0
  /\ Evenly(t, S, col, bh, h, d)
  /\ RedsApart(t, S, col, u, v)
  /\ col[t.root] = "red" => t.root = v

\* Nothing missing and no exception.
Balanced(t, S, col, bh) == Painted(t, S, col, bh, Nil, "L", Nil, Nil)

\* A node is black or red.
LEMMA ColoursAre ==
  ASSUME NEW col \in [Ptrs -> Colours], NEW n \in Ptrs
  PROVE  /\ col[n] = "black" \/ col[n] = "red"
         /\ Black(col, n) = IF col[n] = "red" THEN 0 ELSE 1
BY DEF Colours, Black

\* A new leaf is red.
LEMMA PaintLeaf ==
  ASSUME NEW t, NEW S, NEW k, NEW at, NEW ends, IsTree(t, S, k, at, ends),
         NEW col, NEW bh, Balanced(t, S, col, bh),
         NEW y \in S \cup {Nil}, NEW s \in Sides, y # Nil => t.link[y][s] = Nil,
         y = Nil => t.root = Nil, NEW n \in Blocks \ S, NEW r, Linked(t, r, y, s, n)
  PROVE  Painted(r, S \cup {n}, [col EXCEPT ![n] = "red"], [bh EXCEPT ![n] = 0], Nil, "L", Nil, n)
<1> DEFINE T == S \cup {n}
           c == [col EXCEPT ![n] = "red"]
           b == [bh EXCEPT ![n] = 0]
<1>1. n # Nil /\ n \in Ptrs /\ S \subseteq Ptrs /\ Nil \notin S /\ n \notin S /\ Nil \in Ptrs
  BY SidesAre DEF IsTree, Ptrs
<1>2. /\ col \in [Ptrs -> Colours] /\ col[Nil] = "black" /\ bh \in [Ptrs -> Nat] /\ bh[Nil] = 0
      /\ \A m \in S, d \in Sides : bh[m] = bh[t.link[m][d]] + Black(col, m)
      /\ \A m \in S, d \in Sides : ~(col[m] = "red" /\ col[t.link[m][d]] = "red")
      /\ col[t.root] # "red"
  <2>1. \A m \in S, d \in Sides : t.link[m][d] = Nil => col[t.link[m][d]] # "red"
    BY DEF Balanced, Painted
  <2>2. \A m \in S, d \in Sides : bh[m] = bh[t.link[m][d]] + Black(col, m)
    <3> SUFFICES ASSUME NEW m \in S, NEW d \in Sides PROVE bh[m] = bh[t.link[m][d]] + Black(col, m)
      OBVIOUS
    <3>1. t.link[m][d] \in Ptrs BY <1>1, Family
    <3>2. bh[t.link[m][d]] \in Nat BY <3>1 DEF Balanced, Painted
    <3> QED BY <1>1, <3>2 DEF Balanced, Painted, Evenly, Black
  <2> QED BY <1>1, <2>1, <2>2 DEF Balanced, Painted, RedsApart
<1>3. /\ c \in [Ptrs -> Colours] /\ b \in [Ptrs -> Nat] /\ c[n] = "red" /\ b[n] = 0
      /\ \A m \in Ptrs \ {n} : c[m] = col[m] /\ b[m] = bh[m]
  BY <1>1, <1>2 DEF Colours
<1>4. /\ r.root = IF y = Nil THEN n ELSE t.root
      /\ \A m \in S, d \in Sides : r.link[m][d] = IF m = y /\ d = s THEN n ELSE t.link[m][d]
      /\ \A d \in Sides : r.link[n][d] = Nil
  BY <1>1 DEF Linked
<1>5. \A m \in S, d \in Sides : t.link[m][d] \in Ptrs \ {n} BY <1>1, Family
<1> HIDE DEF c, b
<1>6. ASSUME NEW m \in T, NEW d \in Sides
      PROVE  /\ b[m] = b[r.link[m][d]] + Black(c, m) + (IF m = Nil /\ d = "L" THEN 1 ELSE 0)
             /\ c[m] = "red" /\ c[r.link[m][d]] = "red" => m = Nil \/ r.link[m][d] = n
  <2>1. m # Nil /\ m \in Ptrs BY <1>1
  <2>2. CASE m = n
    <3>1. Black(c, n) = 0 BY <1>3 DEF Black
    <3> QED BY <1>1, <1>2, <1>3, <1>4, <2>1, <2>2, <3>1
  <2>3. CASE m \in S /\ ~(m = y /\ d = s)
    <3>1. r.link[m][d] = t.link[m][d] /\ t.link[m][d] \in Ptrs \ {n} BY <1>4, <1>5, <2>3
    <3>2. Black(c, m) = Black(col, m) /\ Black(c, m) \in Nat BY <1>1, <1>3, <2>3 DEF Black
    <3>3. bh[m] \in Nat /\ bh[t.link[m][d]] \in Nat BY <1>2, <2>1, <3>1
    <3>4. b[m] = bh[m] /\ b[r.link[m][d]] = bh[t.link[m][d]] /\ c[m] = col[m] /\ c[r.link[m][d]] = col[t.link[m][d]]
      BY <1>1, <1>3, <2>1, <2>3, <3>1
    <3> QED BY <1>2, <2>1, <2>3, <3>2, <3>3, <3>4
  <2>4. CASE m = y /\ d = s /\ m # n
    <3>1. r.link[m][d] = n /\ m \in S BY <1>4, <2>1, <2>4
    <3>2. Black(c, m) = Black(col, m) /\ Black(c, m) \in Nat BY <1>1, <1>3, <2>1, <2>4 DEF Black
    <3>3. bh[m] = Black(col, m)
      <4>1. t.link[m][d] = Nil BY <2>1, <2>4
      <4> QED BY <1>2, <3>1, <3>2, <4>1
    <3>4. b[m] = bh[m] BY <1>3, <2>1, <2>4
    <3> QED BY <1>3, <2>1, <3>1, <3>2, <3>3, <3>4
  <2> QED BY <2>2, <2>3, <2>4
<1>7. c[r.root] = "red" => r.root = n
  <2>1. CASE y = Nil BY <1>4, <2>1
  <2>2. CASE y # Nil
    <3>1. t.root \in S BY <2>2 DEF IsTree, Rooted
    <3> QED BY <1>1, <1>2, <1>3, <1>4, <2>2, <3>1
  <2> QED BY <2>1, <2>2
<1>8. c[Nil] = "black" /\ b[Nil] = 0 BY <1>1, <1>2, <1>3
<1> QED BY <1>3, <1>6, <1>7, <1>8 DEF Painted, Evenly, RedsApart, c, b

\* p is n's parent and on side s of g, n's grandparent.
Elders(t, n, p, g, s) ==
  /\ p = t.link[n]["P"]
  /\ g = t.link[p]["P"]
  /\ s \in Sides
  /\ t.link[g][s] = p

\* While an insertion is being repaired: the parent and the grandparent of
\* a red node with a red parent.
LEMMA RedChain ==
  ASSUME NEW t, NEW S, NEW k, NEW at, NEW ends, IsTree(t, S, k, at, ends),
         NEW col, NEW bh, NEW n \in S, Painted(t, S, col, bh, Nil, "L", Nil, n),
         col[n] = "red", col[t.link[n]["P"]] = "red"
  PROVE  LET p == t.link[n]["P"]
             g == t.link[p]["P"] IN
         /\ p \in S /\ g \in S
         /\ p # n /\ g # p /\ g # n
         /\ col[g] = "black"
         /\ \E s \in Sides : Elders(t, n, p, g, s)
         /\ \E s \in Sides : t.link[p][s] = n
<1> DEFINE p == t.link[n]["P"]
           g == t.link[p]["P"]
<1>1. Nil \notin S /\ col[Nil] = "black" BY SidesAre DEF IsTree, Painted
<1>2. p # Nil BY <1>1
<1>3. p \in S /\ p # n /\ \E s \in Sides : t.link[p][s] = n BY <1>2, Hanging
<1>4. p # t.root BY <1>3 DEF Painted
<1> HIDE DEF p
<1>5. g # Nil BY <1>3, <1>4, Hanging
<1>6. g \in S /\ g # p /\ \E s \in Sides : t.link[g][s] = p BY <1>3, <1>5, Hanging
<1>7. PICK s \in Sides : t.link[g][s] = p BY <1>6
<1>8. PICK d \in Sides : t.link[p][d] = n BY <1>3
<1>9. col[p] = "red" BY DEF p
<1> HIDE DEF g
<1>10. g # n
  <2>1. g # n \/ t.link[t.link[g][s]][d] = g BY <1>7, <1>8
  <2> QED BY <1>1, <1>3, <1>6, <1>7, <2>1, NoCircle
<1>11. g \in Ptrs BY <1>6 DEF IsTree, Ptrs
<1>12. col[g] # "red" BY <1>1, <1>3, <1>6, <1>7, <1>9 DEF Painted, RedsApart
<1>13. col[g] = "black" BY <1>11, <1>12 DEF Painted, Colours
<1>14. Elders(t, n, p, g, s) BY <1>7 DEF p, g, Elders
<1> QED BY <1>3, <1>6, <1>10, <1>13, <1>14 DEF p, g

\* A red node with a red parent has a grandparent, and it is black.
LEMMA EldersAre ==
  ASSUME NEW t, NEW S, NEW k, NEW at, NEW ends, IsTree(t, S, k, at, ends),
         NEW col, NEW bh, NEW n \in S, Painted(t, S, col, bh, Nil, "L", Nil, n),
         NEW p, NEW g, NEW s \in Sides, Elders(t, n, p, g, s), col[n] = "red", col[p] = "red"
  PROVE  /\ p \in S /\ g \in S /\ p # n /\ g # p /\ g # n /\ col[g] = "black"
         /\ \E d \in Sides : t.link[p][d] = n
<1>1. p = t.link[n]["P"] /\ g = t.link[p]["P"] BY DEF Elders
<1>2. col[t.link[n]["P"]] = "red" BY <1>1
<1>3. LET q == t.link[n]["P"]
          h == t.link[q]["P"] IN
      /\ q \in S /\ h \in S /\ q # n /\ h # q /\ h # n /\ col[h] = "black"
      /\ \E d \in Sides : t.link[q][d] = n
  BY <1>2, RedChain
<1> QED BY <1>1, <1>3

\* A red uncle: parent and uncle turn black, the grandparent red.
LEMMA PaintRecolour ==
  ASSUME NEW t, NEW S, NEW k, NEW at, NEW ends, IsTree(t, S, k, at, ends),
         NEW col, NEW bh, NEW n \in S, Painted(t, S, col, bh, Nil, "L", Nil, n),
         NEW p, NEW g, NEW s \in Sides, Elders(t, n, p, g, s), col[n] = "red", col[p] = "red",
         col[t.link[g][Opposite(s)]] = "red"
  PROVE  LET u == t.link[g][Opposite(s)] IN
         /\ g \in S
         /\ Painted(t, S, [col EXCEPT ![p] = "black", ![u] = "black", ![g] = "red"],
                    [bh EXCEPT ![p] = @ + 1, ![u] = @ + 1], Nil, "L", Nil, g)
<1> DEFINE o == Opposite(s)
           u == t.link[g][o]
           c == [col EXCEPT ![p] = "black", ![u] = "black", ![g] = "red"]
           b == [bh EXCEPT ![p] = @ + 1, ![u] = @ + 1]
<1>1. Nil \notin S /\ Nil \in Ptrs /\ S \subseteq Ptrs /\ o \in Sides /\ o # s /\ (\A d \in Sides : d = s \/ d = o)
  BY SidesAre DEF IsTree, Ptrs
<1>2. p \in S /\ g \in S /\ p # n /\ g # p /\ g # n /\ col[g] = "black" /\ \E d \in Sides : t.link[p][d] = n
  BY EldersAre
<1>3. t.link[g][s] = p /\ col[u] = "red" /\ col[p] = "red" /\ t.link[n]["P"] = p BY DEF Elders
<1>4. /\ col \in [Ptrs -> Colours] /\ col[Nil] = "black" /\ bh \in [Ptrs -> Nat] /\ bh[Nil] = 0
      /\ RedsApart(t, S, col, Nil, n)
      /\ Evenly(t, S, col, bh, Nil, "L")
      /\ (col[t.root] = "red" => t.root = n)
  BY DEF Painted
<1> HIDE DEF o
<1>5. u \in S /\ u # p /\ u # g
  <2>1. u \in S \cup {Nil} /\ u # g BY <1>1, <1>2, Family
  <2>2. u # Nil BY <1>3, <1>4
  <2> QED BY <1>1, <1>2, <1>3, <2>1, <2>2, Family
<1>6. \A m \in S, d \in Sides : /\ t.link[m][d] = p => m = g
                                /\ t.link[m][d] = u => m = g
                                /\ t.link[m][d] \in Ptrs
  <2>1. p # Nil /\ u # Nil BY <1>1, <1>2, <1>5
  <2>2. \A m \in S, d \in Sides : t.link[m][d] \in Ptrs BY <1>1, Family
  <2> QED BY <1>1, <1>2, <1>3, <2>1, <2>2, Family
<1> HIDE DEF u
<1>7. /\ c \in [Ptrs -> Colours] /\ b \in [Ptrs -> Nat]
      /\ c[p] = "black" /\ c[u] = "black" /\ c[g] = "red"
      /\ b[p] = bh[p] + 1 /\ b[u] = bh[u] + 1
      /\ \A m \in Ptrs : m # p /\ m # u => b[m] = bh[m] /\ (m # g => c[m] = col[m])
  <2>1. p \in Ptrs /\ u \in Ptrs /\ g \in Ptrs BY <1>1, <1>2, <1>5
  <2> QED BY <1>2, <1>4, <1>5, <2>1 DEF Colours
<1> HIDE DEF c, b
<1>8. ASSUME NEW m \in S, NEW d \in Sides
      PROVE  b[m] = b[t.link[m][d]] + Black(c, m) + (IF m = Nil /\ d = "L" THEN 1 ELSE 0)
  <2> DEFINE e == t.link[m][d]
  <2>1. m # Nil /\ m \in Ptrs /\ e \in Ptrs BY <1>1, <1>6
  <2>2. bh[m] = bh[e] + Black(col, m) /\ bh[m] \in Nat /\ bh[e] \in Nat
    BY <1>4, <2>1 DEF Evenly, Black
  <2>3. CASE m = g
    <3>1. e = p \/ e = u
      <4>1. d = s \/ d = o BY <1>1
      <4> QED BY <1>3, <2>3, <4>1 DEF u
    <3>2. Black(col, m) = 1 /\ Black(c, m) = 0 BY <1>2, <1>7, <2>3 DEF Black
    <3>3. b[m] = bh[m] /\ b[e] = bh[e] + 1 BY <1>2, <1>5, <1>7, <2>1, <2>3, <3>1
    <3> QED BY <2>1, <2>2, <3>2, <3>3
  <2>4. CASE m # g
    <3>1. e # p /\ e # u BY <1>6, <2>4
    <3>2. b[e] = bh[e] BY <1>7, <2>1, <3>1
    <3>3. CASE m = p \/ m = u
      <4>1. Black(col, m) = 0 /\ Black(c, m) = 1 BY <1>3, <1>7, <3>3 DEF Black
      <4>2. b[m] = bh[m] + 1 BY <1>7, <3>3
      <4> QED BY <2>1, <2>2, <3>2, <4>1, <4>2
    <3>4. CASE m # p /\ m # u
      <4>1. Black(c, m) = Black(col, m) /\ b[m] = bh[m] /\ Black(col, m) \in Nat
        BY <1>7, <2>1, <2>4, <3>4 DEF Black
      <4> QED BY <2>1, <2>2, <3>2, <4>1
    <3> QED BY <3>3, <3>4
  <2> QED BY <2>3, <2>4
<1>9. ASSUME NEW m \in S, NEW d \in Sides, c[m] = "red", c[t.link[m][d]] = "red"
      PROVE  t.link[m][d] = g
  <2> DEFINE e == t.link[m][d]
  <2>1. m \in Ptrs /\ e \in Ptrs /\ m # p /\ m # u /\ e # p /\ e # u BY <1>1, <1>6, <1>7, <1>9
  <2>2. CASE m = g
    <3>1. d = s \/ d = o BY <1>1
    <3> QED BY <1>3, <2>1, <2>2, <3>1 DEF u
  <2>3. CASE m # g /\ e # g
    <3>1. col[m] = "red" /\ col[e] = "red" BY <1>7, <1>9, <2>1, <2>3
    <3>2. m = Nil \/ e = n BY <1>4, <3>1 DEF RedsApart
    <3>3. e = n BY <1>1, <3>2
    <3>4. m = p
      <4>1. Branch(t, S, at, ends, m, d) BY DEF IsTree
      <4> QED BY <1>1, <1>3, <3>3, <4>1 DEF Branch
    <3> QED BY <2>1, <3>4
  <2> QED BY <2>2, <2>3
<1>10. c[t.root] = "red" => t.root = g
  <2>1. t.root \in S BY <1>2 DEF IsTree, Rooted
  <2> SUFFICES ASSUME c[t.root] = "red", t.root # g PROVE FALSE OBVIOUS
  <2>2. t.root \in Ptrs /\ t.root # p /\ t.root # u BY <1>1, <1>7, <2>1
  <2>3. t.root = n BY <1>4, <1>7, <2>2
  <2>4. t.link[n]["P"] = Nil BY <2>3, Family
  <2> QED BY <1>1, <1>2, <1>3, <2>4
<1>11. c[Nil] = "black" /\ b[Nil] = 0 BY <1>1, <1>2, <1>4, <1>5, <1>7
<1>12. Painted(t, S, c, b, Nil, "L", Nil, g)
  BY <1>7, <1>8, <1>9, <1>10, <1>11 DEF Painted, Evenly, RedsApart
<1> QED BY <1>2, <1>12 DEF c, b, u, o

\* What Painted says of one link.
LEMMA Heights ==
  ASSUME NEW t, NEW S, NEW k, NEW at, NEW ends, IsTree(t, S, k, at, ends),
         NEW col, NEW bh, NEW h, NEW d, NEW u, NEW v, Painted(t, S, col, bh, h, d, u, v)
  PROVE  /\ \A m \in S, e \in Sides :
              /\ m \in Ptrs /\ m # Nil /\ t.link[m][e] \in Ptrs
              /\ bh[m] \in Nat /\ bh[t.link[m][e]] \in Nat
              /\ Black(col, m) = IF col[m] = "red" THEN 0 ELSE 1
              /\ ~(m = h /\ e = d) => bh[m] = bh[t.link[m][e]] + Black(col, m)
              /\ m = h /\ e = d => bh[m] = bh[t.link[m][e]] + Black(col, m) + 1
              /\ col[m] = "red" /\ col[t.link[m][e]] = "red" => m = u \/ t.link[m][e] = v
         /\ col \in [Ptrs -> Colours] /\ bh \in [Ptrs -> Nat] /\ col[Nil] = "black" /\ bh[Nil] = 0
         /\ Nil \notin S /\ S \subseteq Ptrs /\ Nil \in Ptrs
         /\ col[t.root] = "red" => t.root = v
<1>1. Nil \notin S /\ S \subseteq Ptrs /\ Nil \in Ptrs BY SidesAre DEF IsTree, Ptrs
<1>2. col \in [Ptrs -> Colours] /\ bh \in [Ptrs -> Nat] /\ col[Nil] = "black" /\ bh[Nil] = 0
      /\ (col[t.root] = "red" => t.root = v)
  BY DEF Painted
<1>3. ASSUME NEW m \in S, NEW e \in Sides
      PROVE   /\ m \in Ptrs /\ m # Nil /\ t.link[m][e] \in Ptrs
              /\ bh[m] \in Nat /\ bh[t.link[m][e]] \in Nat
              /\ Black(col, m) = IF col[m] = "red" THEN 0 ELSE 1
              /\ ~(m = h /\ e = d) => bh[m] = bh[t.link[m][e]] + Black(col, m)
              /\ m = h /\ e = d => bh[m] = bh[t.link[m][e]] + Black(col, m) + 1
              /\ col[m] = "red" /\ col[t.link[m][e]] = "red" => m = u \/ t.link[m][e] = v
  <2>1. m \in Ptrs /\ m # Nil /\ t.link[m][e] \in Ptrs BY <1>1, Family
  <2>2. bh[m] \in Nat /\ bh[t.link[m][e]] \in Nat BY <1>2, <2>1
  <2>3. Black(col, m) = (IF col[m] = "red" THEN 0 ELSE 1) /\ Black(col, m) \in Nat
    BY <1>2, <2>1, ColoursAre
  <2>4. bh[m] = bh[t.link[m][e]] + Black(col, m) + (IF m = h /\ e = d THEN 1 ELSE 0)
    BY DEF Painted, Evenly
  <2>5. col[m] = "red" /\ col[t.link[m][e]] = "red" => m = u \/ t.link[m][e] = v
    BY DEF Painted, RedsApart
  <2> QED BY <2>1, <2>2, <2>3, <2>4, <2>5
<1> QED BY <1>1, <1>2, <1>3

\* n is p's child on side s.
Child(t, n, p, s) == t.link[p][s] = n

\* A rotation with new colours for the two nodes it turns: what the links of
\* the two have to satisfy.  The missing black may move between them.
Repainted(r, c, b, i, e, v, x, y, a, z, w, s) ==
  /\ b[x] = b[a] + Black(c, x) + (IF i = x /\ e = s THEN 1 ELSE 0)
  /\ b[x] = b[z] + Black(c, x) + (IF i = x /\ e # s THEN 1 ELSE 0)
  /\ b[y] = b[x] + Black(c, y) + (IF i = y /\ e = s THEN 1 ELSE 0)
  /\ b[y] = b[w] + Black(c, y) + (IF i = y /\ e # s THEN 1 ELSE 0)
  /\ c[x] = "red" => c[a] # "red" /\ c[z] # "red" /\ c[y] # "red"
  /\ c[y] = "red" => c[w] # "red" \/ w = v

\* A rotation of x with its child y, repainted: the colours are right after it
\* where they are right for x, y and the three subtrees below them.
LEMMA PaintTurn ==
  ASSUME NEW t, NEW S, NEW k, NEW at, NEW ends, IsTree(t, S, k, at, ends),
         NEW x \in S, NEW y \in S, NEW s \in Sides, NEW r, y # x, Child(t, y, x, Opposite(s)),
         Turned(t, r, S, x, y, s),
         NEW col, NEW bh, NEW h, NEW d, NEW u, NEW v, Painted(t, S, col, bh, h, d, u, v),
         NEW c \in [Ptrs -> Colours], NEW b \in [Ptrs -> Nat],
         \A m \in Ptrs \ {x, y} : c[m] = col[m] /\ b[m] = bh[m],
         b[y] = bh[x], c[y] = "red" => col[x] = "red" /\ x # v,
         NEW i, NEW e \in Sides,
         \A m \in S \ {x, y}, f \in Sides : m = i /\ f = e <=> m = h /\ f = d,
         Repainted(r, c, b, i, e, v, x, y, t.link[x][s], t.link[y][s], t.link[y][Opposite(s)], s)
  PROVE  Painted(r, S, c, b, i, e, u, v)
<1> DEFINE o == Opposite(s)
           a == t.link[x][s]
           z == t.link[y][s]
           w == t.link[y][o]
<1>1. /\ \A m \in S, f \in Sides :
           /\ m \in Ptrs /\ m # Nil /\ t.link[m][f] \in Ptrs
           /\ bh[m] \in Nat /\ bh[t.link[m][f]] \in Nat
           /\ Black(col, m) = IF col[m] = "red" THEN 0 ELSE 1
           /\ ~(m = h /\ f = d) => bh[m] = bh[t.link[m][f]] + Black(col, m)
           /\ m = h /\ f = d => bh[m] = bh[t.link[m][f]] + Black(col, m) + 1
           /\ col[m] = "red" /\ col[t.link[m][f]] = "red" => m = u \/ t.link[m][f] = v
      /\ Nil \notin S /\ Nil \in Ptrs /\ S \subseteq Ptrs
      /\ (col[t.root] = "red" => t.root = v) /\ col[Nil] = "black" /\ bh[Nil] = 0
  BY Heights
<1>2. o \in Sides /\ o # s /\ \A f \in Sides : f = s \/ f = o BY SidesAre
<1>3. /\ r.link[x][s] = a /\ r.link[x][o] = z
      /\ r.link[y][s] = x /\ r.link[y][o] = w
      /\ \A m \in S \ {x, y}, f \in Sides : /\ t.link[m][f] # y
                                            /\ r.link[m][f] = IF t.link[m][f] = x THEN y ELSE t.link[m][f]
      /\ r.root = IF t.root = x THEN y ELSE t.root
  BY DEF Turned
<1>4. t.root # y
  <2>1. t.link[x][o] = y BY DEF Child
  <2>2. \A m \in S, f \in Sides : t.link[m][f] # t.root \/ t.root = Nil BY Family
  <2> QED BY <1>1, <1>2, <2>1, <2>2
<1> HIDE DEF o, a, z, w
<1>5. ASSUME NEW m \in S, NEW f \in Sides
      PROVE  /\ b[m] = b[r.link[m][f]] + Black(c, m) + (IF m = i /\ f = e THEN 1 ELSE 0)
             /\ c[m] = "red" /\ c[r.link[m][f]] = "red" => m = u \/ r.link[m][f] = v
  <2>0. /\ b[x] = b[a] + Black(c, x) + (IF i = x /\ e = s THEN 1 ELSE 0)
        /\ b[x] = b[z] + Black(c, x) + (IF i = x /\ e # s THEN 1 ELSE 0)
        /\ b[y] = b[x] + Black(c, y) + (IF i = y /\ e = s THEN 1 ELSE 0)
        /\ b[y] = b[w] + Black(c, y) + (IF i = y /\ e # s THEN 1 ELSE 0)
        /\ c[x] = "red" => c[a] # "red" /\ c[z] # "red" /\ c[y] # "red"
        /\ c[y] = "red" => c[w] # "red" \/ w = v
    BY DEF Repainted, a, z, w, o
  <2>1. f = s \/ f = o BY <1>2
  <2>2. e = s \/ e = o BY <1>2
  <2>3. CASE m = x BY <1>2, <1>3, <2>0, <2>1, <2>2, <2>3
  <2>4. CASE m = y BY <1>2, <1>3, <2>0, <2>1, <2>2, <2>4
  <2>5. CASE m # x /\ m # y
    <3>1. t.link[m][f] # y /\ r.link[m][f] = IF t.link[m][f] = x THEN y ELSE t.link[m][f]
      BY <1>3, <2>5
    <3>2. b[m] = bh[m] /\ c[m] = col[m] BY <1>1, <2>5
    <3>3. Black(c, m) = Black(col, m) /\ Black(c, m) \in Nat BY <3>2 DEF Black
    <3>4. b[r.link[m][f]] = bh[t.link[m][f]] BY <1>1, <3>1
    <3>5. m = i /\ f = e <=> m = h /\ f = d BY <2>5
    <3>6. b[m] = b[r.link[m][f]] + Black(c, m) + (IF m = i /\ f = e THEN 1 ELSE 0)
      BY <1>1, <3>2, <3>3, <3>4, <3>5
    <3>7. ASSUME c[m] = "red", c[r.link[m][f]] = "red" PROVE m = u \/ r.link[m][f] = v
      <4>1. col[m] = "red" BY <3>2, <3>7
      <4>2. CASE t.link[m][f] = x
        <5>1. c[y] = "red" BY <3>1, <3>7, <4>2
        <5>2. col[t.link[m][f]] = "red" /\ t.link[m][f] # v BY <4>2, <5>1
        <5> QED BY <1>1, <4>1, <5>2
      <4>3. CASE t.link[m][f] # x
        <5>1. r.link[m][f] = t.link[m][f] BY <3>1, <4>3
        <5>2. c[t.link[m][f]] = col[t.link[m][f]] BY <1>1, <3>1, <4>3
        <5> QED BY <1>1, <3>7, <4>1, <5>1, <5>2
      <4> QED BY <4>2, <4>3
    <3> QED BY <3>6, <3>7
  <2> QED BY <2>3, <2>4, <2>5
<1>6. c[r.root] = "red" => r.root = v
  <2>1. t.root \in S BY DEF IsTree, Rooted
  <2> QED BY <1>1, <1>3, <1>4, <2>1
<1>7. c[Nil] = "black" /\ b[Nil] = 0 BY <1>1, Heights DEF Painted
<1> QED BY <1>5, <1>6, <1>7 DEF Painted, Evenly, RedsApart

\* An inner grandchild is rotated outwards.
LEMMA PaintIn ==
  ASSUME NEW t, NEW S, NEW k, NEW at, NEW ends, IsTree(t, S, k, at, ends),
         NEW col, NEW bh, NEW n \in S, Painted(t, S, col, bh, Nil, "L", Nil, n),
         NEW p, NEW g, NEW s \in Sides, Elders(t, n, p, g, s), col[n] = "red", col[p] = "red",
         Child(t, n, p, Opposite(s)), NEW r, Rotated(t, r, p, s)
  PROVE  /\ Painted(r, S, col, bh, Nil, "L", Nil, p)
         /\ Elders(r, p, n, g, s)
         /\ r.link[n][s] = p
         /\ r.link[g][Opposite(s)] = t.link[g][Opposite(s)]
<1> DEFINE o == Opposite(s)
           a == t.link[p][s]
           z == t.link[n][s]
           w == t.link[n][o]
<1>1. p \in S /\ g \in S /\ p # n /\ g # p /\ g # n /\ col[g] = "black"
  BY EldersAre
<1>0. p = t.link[n]["P"] /\ g = t.link[p]["P"] /\ t.link[g][s] = p BY DEF Elders
<1>2. /\ \A m \in S, e \in Sides :
           /\ m \in Ptrs /\ m # Nil /\ t.link[m][e] \in Ptrs
           /\ bh[m] \in Nat /\ bh[t.link[m][e]] \in Nat
           /\ Black(col, m) = IF col[m] = "red" THEN 0 ELSE 1
           /\ bh[m] = bh[t.link[m][e]] + Black(col, m)
           /\ col[m] = "red" /\ col[t.link[m][e]] = "red" => t.link[m][e] = n
      /\ Nil \notin S /\ Nil \in Ptrs
      /\ col[t.root] = "red" => t.root = n
  BY Heights
<1>3. Turned(t, r, S, p, n, s)
  <2>1. t.link[p][Opposite(s)] = n BY DEF Child
  <2>2. t.link[p][Opposite(s)] # Nil BY <1>1, <1>2, <2>1
  <2> QED BY <1>1, <2>1, <2>2, RotateFamily
<1>4. /\ r.link[p][s] = a /\ r.link[p][o] = z
      /\ r.link[n][s] = p /\ r.link[n][o] = w
      /\ r.link[p]["P"] = n
      /\ \A m \in S \ {p, n}, d \in Sides : /\ t.link[m][d] # n
                                            /\ r.link[m][d] = IF t.link[m][d] = p THEN n ELSE t.link[m][d]
      /\ a # p /\ a # n /\ z # p /\ z # n /\ w # p /\ w # n
      /\ r.root = IF t.root = p THEN n ELSE t.root
      /\ r.link[n]["P"] = g
  <2>1. p # Nil /\ n # Nil BY <1>1, <1>2
  <2> QED BY <1>0, <1>3, <2>1 DEF Turned
<1>5. o \in Sides /\ o # s /\ \A d \in Sides : d = s \/ d = o BY SidesAre
<1>6. bh[p] = bh[a] /\ bh[p] = bh[n] /\ bh[n] = bh[z] /\ bh[n] = bh[w]
  <2>1. t.link[p][o] = n BY DEF Child
  <2>2. Black(col, p) = 0 /\ Black(col, n) = 0 BY <1>1, <1>2
  <2>3. bh[p] = bh[a] /\ bh[p] = bh[n] BY <1>1, <1>2, <1>5, <2>1, <2>2
  <2>4. bh[n] = bh[z] /\ bh[n] = bh[w] BY <1>1, <1>2, <1>5, <2>2
  <2> QED BY <2>3, <2>4
<1>7. col[a] # "red" /\ col[z] # "red" /\ col[w] # "red" BY <1>1, <1>2, <1>4, <1>5
<1>8. t.root # p /\ t.root # n
  <2>1. \A m \in S : t.link[m]["P"] = Nil <=> m = t.root BY Family
  <2>2. (p = t.root => g = Nil) /\ (n = t.root => p = Nil) BY <1>0, <1>1, <2>1
  <2> QED BY <1>1, <1>2, <2>1, <2>2
<1> HIDE DEF o, a, z, w
<1>9. ASSUME NEW m \in S, NEW d \in Sides
      PROVE  /\ bh[m] = bh[r.link[m][d]] + Black(col, m) + (IF m = Nil /\ d = "L" THEN 1 ELSE 0)
             /\ col[m] = "red" /\ col[r.link[m][d]] = "red" => m = Nil \/ r.link[m][d] = p
  <2>1. CASE m = p
    <3>1. r.link[m][d] = a \/ r.link[m][d] = z BY <1>4, <1>5, <2>1
    <3>2. bh[r.link[m][d]] = bh[p] /\ Black(col, p) = 0 BY <1>1, <1>2, <1>6, <3>1
    <3> QED BY <1>1, <1>2, <1>7, <2>1, <3>1, <3>2
  <2>2. CASE m = n
    <3>1. r.link[m][d] = p \/ r.link[m][d] = w BY <1>4, <1>5, <2>2
    <3>2. bh[r.link[m][d]] = bh[n] /\ Black(col, n) = 0 BY <1>1, <1>2, <1>6, <3>1
    <3> QED BY <1>1, <1>2, <1>7, <2>2, <3>1, <3>2
  <2>3. CASE m # p /\ m # n
    <3>1. t.link[m][d] # n /\ r.link[m][d] = IF t.link[m][d] = p THEN n ELSE t.link[m][d]
      BY <1>4, <2>3
    <3>2. bh[r.link[m][d]] = bh[t.link[m][d]] BY <1>6, <3>1
    <3>3. col[r.link[m][d]] = col[t.link[m][d]] BY <3>1
    <3>4. col[m] = "red" => col[t.link[m][d]] # "red" BY <1>2, <3>1
    <3> QED BY <1>2, <3>2, <3>3, <3>4
  <2> QED BY <2>1, <2>2, <2>3
<1>10. col[r.root] = "red" => r.root = p BY <1>2, <1>4, <1>8
<1>11. Painted(r, S, col, bh, Nil, "L", Nil, p)
  <2>1. col \in [Ptrs -> Colours] /\ bh \in [Ptrs -> Nat] /\ col[Nil] = "black" /\ bh[Nil] = 0
    BY DEF Painted
  <2> QED BY <1>9, <1>10, <2>1 DEF Painted, Evenly, RedsApart
<1>12. r.link[g][s] = n BY <1>0, <1>1, <1>4
<1>13. r.link[g][o] = t.link[g][o]
  <2>1. \A m \in S, e, d \in Sides : t.link[m][e] = t.link[m][d] /\ t.link[m][e] # Nil => e = d
    BY Family
  <2>2. o \in Sides /\ o # s BY SidesAre DEF o
  <2>3. t.link[g][o] = t.link[g][s] /\ t.link[g][o] # Nil => o = s BY <1>1, <2>1, <2>2
  <2>4. p # Nil BY <1>1, <1>2
  <2>5. t.link[g][o] # p BY <1>0, <2>2, <2>3, <2>4
  <2> QED BY <1>1, <1>4, <1>5, <2>2, <2>5
<1> QED BY <1>4, <1>11, <1>12, <1>13 DEF Elders, o

\* A black uncle: the grandparent is rotated down, and swaps colours with the
\* parent.
LEMMA PaintOut ==
  ASSUME NEW t, NEW S, NEW k, NEW at, NEW ends, IsTree(t, S, k, at, ends),
         NEW col, NEW bh, NEW n \in S, Painted(t, S, col, bh, Nil, "L", Nil, n),
         NEW p, NEW g, NEW s \in Sides, Elders(t, n, p, g, s), col[n] = "red", col[p] = "red",
         Child(t, n, p, s), col[t.link[g][Opposite(s)]] # "red",
         NEW r, Rotated(t, r, g, Opposite(s))
  PROVE  Painted(r, S, [col EXCEPT ![p] = "black", ![g] = "red"],
                 [bh EXCEPT ![p] = bh[g], ![g] = bh[p]], Nil, "L", Nil, n)
<1> DEFINE o == Opposite(s)
           c == [col EXCEPT ![p] = "black", ![g] = "red"]
           b == [bh EXCEPT ![p] = bh[g], ![g] = bh[p]]
           a == t.link[g][o]
           z == t.link[p][o]
           w == t.link[p][Opposite(o)]
<1>1. p \in S /\ g \in S /\ p # n /\ g # p /\ g # n /\ col[g] = "black" BY EldersAre
<1>2. /\ \A m \in S, e \in Sides :
           /\ m \in Ptrs /\ m # Nil /\ t.link[m][e] \in Ptrs
           /\ bh[m] \in Nat /\ bh[t.link[m][e]] \in Nat
           /\ Black(col, m) = IF col[m] = "red" THEN 0 ELSE 1
           /\ bh[m] = bh[t.link[m][e]] + Black(col, m)
           /\ col[m] = "red" /\ col[t.link[m][e]] = "red" => t.link[m][e] = n
      /\ Nil \notin S /\ Nil \in Ptrs
      /\ col \in [Ptrs -> Colours] /\ bh \in [Ptrs -> Nat]
  BY Heights
<1>3. o \in Sides /\ o # s /\ Opposite(o) = s BY SidesAre
<1>4. t.link[g][s] = p /\ t.link[p][s] = n BY DEF Elders, Child
<1>5. Turned(t, r, S, g, p, o)
  <2>1. t.link[g][Opposite(o)] = p /\ p # Nil BY <1>1, <1>2, <1>3, <1>4
  <2> QED BY <1>1, <1>3, <2>1, RotateFamily
<1>6. {a, z, w} \subseteq (S \ {g, p}) \cup {Nil} BY <1>5 DEF Turned
<1>7. w = n BY <1>3, <1>4
<1>8. /\ c \in [Ptrs -> Colours] /\ b \in [Ptrs -> Nat]
      /\ c[p] = "black" /\ c[g] = "red" /\ b[p] = bh[g] /\ b[g] = bh[p]
      /\ \A m \in Ptrs \ {g, p} : c[m] = col[m] /\ b[m] = bh[m]
  BY <1>1, <1>2 DEF Colours
<1>9. col[z] # "red"
  <2>1. z # n
    <3>1. \A m \in S, e, d \in Sides : t.link[m][e] = t.link[m][d] /\ t.link[m][e] # Nil => e = d
      BY Family
    <3> QED BY <1>1, <1>2, <1>3, <1>4, <3>1
  <2> QED BY <1>1, <1>2, <1>3, <2>1
<1>10. /\ a \in Ptrs \ {g, p} /\ z \in Ptrs \ {g, p} /\ w \in Ptrs \ {g, p}
       /\ bh[a] \in Nat /\ bh[z] \in Nat /\ bh[w] \in Nat
  BY <1>1, <1>2, <1>3, <1>6
<1>11. bh[g] = bh[a] + 1 /\ bh[g] = bh[p] + 1 /\ bh[p] = bh[z] /\ bh[p] = bh[w] /\ bh[p] \in Nat
  <2>1. Black(col, g) = 1 /\ Black(col, p) = 0 BY <1>1, <1>2
  <2> QED BY <1>1, <1>2, <1>3, <1>4, <2>1
<1>12. Black(c, g) = 0 /\ Black(c, p) = 1 BY <1>8 DEF Black
<1>13. c[a] # "red" /\ c[z] # "red" /\ b[a] = bh[a] /\ b[z] = bh[z] /\ b[w] = bh[w]
  BY <1>8, <1>9, <1>10
<1>14. Child(t, p, g, Opposite(o)) BY <1>3, <1>4 DEF Child
<1> HIDE DEF o, c, b, a, z, w
<1>15. Repainted(r, c, b, Nil, "L", n, g, p, a, z, w, o)
  <2>1. g # Nil /\ p # Nil BY <1>1, <1>2
  <2> QED BY <1>8, <1>10, <1>11, <1>12, <1>13, <2>1 DEF Repainted
<1>16. Repainted(r, c, b, Nil, "L", n, g, p, t.link[g][o], t.link[p][o], t.link[p][Opposite(o)], o)
  BY <1>15 DEF a, z, w
<1>17. o \in Sides BY <1>3
<1>18. "L" \in Sides BY DEF Sides
<1>19. Painted(r, S, c, b, Nil, "L", Nil, n)
  BY <1>1, <1>5, <1>8, <1>14, <1>16, <1>17, <1>18, PaintTurn
<1> QED BY <1>19 DEF c, b

----------------------------------------------------------------------------
(* The missing black of a removal                                          *)

\* n, maybe the sentinel, hangs below h on side d, or is the root if h is Nil.
Hangs(t, S, n, h, d) ==
  /\ n \in S \cup {Nil} /\ h \in S \cup {Nil} /\ d \in Sides
  /\ t.link[n]["P"] = h
  /\ IF h = Nil THEN t.root = n ELSE t.link[h][d] = n

\* One black node fewer on the ways through n, which may be a red child or
\* have one.
Owed(t, S, col, bh, n, h, d) == Hangs(t, S, n, h, d) /\ Painted(t, S, col, bh, h, d, n, n)

\* A node that is not the root has a sibling then, one higher.
LEMMA OwedSibling ==
  ASSUME NEW t, NEW S, NEW k, NEW at, NEW ends, IsTree(t, S, k, at, ends),
         NEW col, NEW bh, NEW n, NEW h \in S, NEW d, Owed(t, S, col, bh, n, h, d)
  PROVE  \A w : Child(t, w, h, Opposite(d)) =>
         /\ w \in S /\ w # n /\ w # h /\ h # n
         /\ d \in Sides /\ n \in Ptrs
         /\ t.link[h][d] = n
         /\ bh[w] + Black(col, h) = bh[h]
         /\ bh[n] + 1 = bh[w]
         /\ bh[n] \in Nat /\ bh[w] \in Nat
<1> DEFINE w == t.link[h][Opposite(d)]
<1>1. /\ \A m \in S, e \in Sides :
           /\ m \in Ptrs /\ m # Nil /\ t.link[m][e] \in Ptrs
           /\ bh[m] \in Nat /\ bh[t.link[m][e]] \in Nat
           /\ Black(col, m) = IF col[m] = "red" THEN 0 ELSE 1
           /\ ~(m = h /\ e = d) => bh[m] = bh[t.link[m][e]] + Black(col, m)
           /\ m = h /\ e = d => bh[m] = bh[t.link[m][e]] + Black(col, m) + 1
      /\ Nil \notin S /\ Nil \in Ptrs /\ S \subseteq Ptrs /\ bh[Nil] = 0
  BY Heights DEF Owed
<1>2. d \in Sides /\ n \in S \cup {Nil} /\ t.link[h][d] = n
  BY <1>1 DEF Owed, Hangs
<1>3. Opposite(d) \in Sides /\ Opposite(d) # d BY <1>2, SidesAre
<1>4. bh[h] = bh[w] + Black(col, h) /\ bh[h] = bh[n] + Black(col, h) + 1 /\ bh[n] \in Nat /\ bh[w] \in Nat
      /\ Black(col, h) \in Nat
  BY <1>1, <1>2, <1>3
<1>5. bh[n] + 1 = bh[w] /\ bh[w] # 0 BY <1>4
<1>6. w # Nil /\ w # n BY <1>1, <1>4, <1>5
<1>7. w \in S /\ w # h /\ n # h BY <1>1, <1>2, <1>3, <1>6, Family
<1>8. /\ w \in S /\ w # n /\ w # h /\ h # n
      /\ d \in Sides /\ n \in Ptrs
      /\ t.link[h][d] = n
      /\ bh[w] + Black(col, h) = bh[h]
      /\ bh[n] + 1 = bh[w]
      /\ bh[n] \in Nat /\ bh[w] \in Nat
  BY <1>1, <1>2, <1>4, <1>5, <1>6, <1>7
<1> HIDE DEF w
<1>9. \A v : Child(t, v, h, Opposite(d)) => v = w BY DEF Child, w
<1> QED BY <1>8, <1>9

\* Exceptions that are none.
LEMMA NoException ==
  ASSUME NEW t, NEW S, NEW k, NEW at, NEW ends, IsTree(t, S, k, at, ends),
         NEW col, NEW bh, NEW n, NEW h, NEW d, Painted(t, S, col, bh, h, d, n, n),
         col[n] # "red", NEW u, NEW v
  PROVE  Painted(t, S, col, bh, h, d, u, v)
BY DEF Painted, RedsApart

\* Where n is the missing black is made good, or no longer missing at the
\* root: n turns black.
LEMMA PaintDone ==
  ASSUME NEW t, NEW S, NEW k, NEW at, NEW ends, IsTree(t, S, k, at, ends),
         NEW col, NEW bh, NEW n, NEW h, NEW d, Owed(t, S, col, bh, n, h, d),
         h = Nil \/ col[n] = "red"
  PROVE  \E b : Balanced(t, S, [col EXCEPT ![n] = "black"], b)
<1> DEFINE c == [col EXCEPT ![n] = "black"]
           b == IF col[n] = "red" THEN [bh EXCEPT ![n] = @ + 1] ELSE bh
<1>1. /\ \A m \in S, e \in Sides :
           /\ m \in Ptrs /\ m # Nil /\ t.link[m][e] \in Ptrs
           /\ bh[m] \in Nat /\ bh[t.link[m][e]] \in Nat
           /\ Black(col, m) = IF col[m] = "red" THEN 0 ELSE 1
           /\ ~(m = h /\ e = d) => bh[m] = bh[t.link[m][e]] + Black(col, m)
           /\ m = h /\ e = d => bh[m] = bh[t.link[m][e]] + Black(col, m) + 1
           /\ col[m] = "red" /\ col[t.link[m][e]] = "red" => m = n \/ t.link[m][e] = n
      /\ Nil \notin S /\ Nil \in Ptrs /\ S \subseteq Ptrs
      /\ col \in [Ptrs -> Colours] /\ bh \in [Ptrs -> Nat] /\ col[Nil] = "black" /\ bh[Nil] = 0
      /\ col[t.root] = "red" => t.root = n
  BY Heights DEF Owed
<1>2. /\ n \in S \cup {Nil} /\ h \in S \cup {Nil} /\ d \in Sides
      /\ IF h = Nil THEN t.root = n ELSE t.link[h][d] = n
  BY DEF Owed, Hangs
<1>3. n \in Ptrs BY <1>1, <1>2
<1>4. /\ c \in [Ptrs -> Colours] /\ b \in [Ptrs -> Nat] /\ c[n] = "black"
      /\ b[n] = bh[n] + (IF col[n] = "red" THEN 1 ELSE 0)
      /\ \A m \in Ptrs \ {n} : c[m] = col[m] /\ b[m] = bh[m]
  BY <1>1, <1>3 DEF Colours
<1> HIDE DEF c, b
<1>5. \A m \in S, e \in Sides : t.link[m][e] = n =>
        \/ m = h /\ e = d
        \/ n = Nil
  <2>1. \A m \in S, e \in Sides : t.link[m][e] # t.root \/ t.root = Nil BY Family
  <2>2. \A m, l \in S, e, f \in Sides : t.link[m][e] = t.link[l][f] /\ t.link[m][e] # Nil => m = l /\ e = f
    BY Family
  <2> QED BY <1>1, <1>2, <2>1, <2>2
<1>6. ASSUME NEW m \in S, NEW e \in Sides
      PROVE  /\ b[m] = b[t.link[m][e]] + Black(c, m)
             /\ ~(c[m] = "red" /\ c[t.link[m][e]] = "red")
  <2>1. m \in Ptrs /\ t.link[m][e] \in Ptrs /\ bh[m] \in Nat /\ bh[t.link[m][e]] \in Nat BY <1>1
  <2>2. Black(c, m) = IF m = n THEN 1 ELSE Black(col, m) BY <1>4, <2>1 DEF Black
  <2>3. b[m] = bh[m] + (IF m = n /\ col[n] = "red" THEN 1 ELSE 0) BY <1>4, <2>1
  <2>4. b[t.link[m][e]] = bh[t.link[m][e]] + (IF t.link[m][e] = n /\ col[n] = "red" THEN 1 ELSE 0)
    BY <1>4, <2>1
  <2>5. t.link[m][e] # n \/ m # n
    <3>1. t.link[m][e] # m BY Family
    <3> QED BY <3>1
  <2>6. (m = h /\ e = d) <=> (t.link[m][e] = n /\ col[n] = "red")
    <3>1. n = Nil => col[n] # "red" BY <1>1
    <3>2. h = Nil => ~(m = h /\ e = d) BY <1>1
    <3>3. h = Nil /\ n # Nil => t.link[m][e] # n BY <1>1, <1>5
    <3> QED BY <1>2, <1>5, <3>1, <3>2, <3>3
  <2>7. bh[m] = bh[t.link[m][e]] + Black(col, m) + (IF t.link[m][e] = n /\ col[n] = "red" THEN 1 ELSE 0)
    <3>1. Black(col, m) \in Nat BY <1>1
    <3> QED BY <1>1, <2>1, <2>6, <3>1
  <2>8. Black(col, m) = IF col[m] = "red" THEN 0 ELSE 1 BY <1>1
  <2>9. b[m] = b[t.link[m][e]] + Black(c, m)
    <3>1. CASE m = n BY <2>1, <2>2, <2>3, <2>4, <2>5, <2>7, <2>8, <3>1
    <3>2. CASE m # n BY <2>1, <2>2, <2>3, <2>4, <2>7, <2>8, <3>2
    <3> QED BY <3>1, <3>2
  <2>10. ~(c[m] = "red" /\ c[t.link[m][e]] = "red") BY <1>1, <1>4, <2>1
  <2> QED BY <2>9, <2>10
<1>7. c[t.root] # "red" /\ c[Nil] = "black" /\ b[Nil] = 0
  <2>1. t.root \in Ptrs BY <1>1 DEF IsTree, Rooted
  <2>2. c[t.root] # "red" BY <1>1, <1>4, <2>1
  <2> QED BY <1>1, <1>4, <2>2
<1>8. ASSUME NEW m \in S, NEW e \in Sides
      PROVE  b[m] = b[t.link[m][e]] + Black(c, m) + (IF m = Nil /\ e = "L" THEN 1 ELSE 0)
  <2>1. m # Nil /\ Black(c, m) \in Nat BY <1>1 DEF Black
  <2>2. b[t.link[m][e]] \in Nat BY <1>1, <1>4
  <2> QED BY <1>6, <2>1, <2>2
<1>9. Balanced(t, S, c, b) BY <1>4, <1>6, <1>7, <1>8 DEF Balanced, Painted, Evenly, RedsApart
<1> QED BY <1>9 DEF c

\* Where the missing black is at the root it is none, hence also after an
\* insertion whose new node has a black parent.
LEMMA PaintRoot ==
  ASSUME NEW t, NEW S, NEW k, NEW at, NEW ends, IsTree(t, S, k, at, ends),
         NEW col, NEW bh, NEW n \in S, Painted(t, S, col, bh, Nil, "L", Nil, n),
         col[t.link[n]["P"]] # "red"
  PROVE  \E b : Balanced(t, S, [col EXCEPT ![t.root] = "black"], b)
<1> DEFINE q == t.root
<1>1. \A m \in S, e \in Sides : t.link[m][e] = n => t.link[n]["P"] = m
  <2>1. \A m \in S, e \in Sides : Branch(t, S, at, ends, m, e) BY DEF IsTree
  <2>2. n # Nil BY SidesAre DEF IsTree
  <2> QED BY <2>1, <2>2 DEF Branch
<1>2. q \in S /\ t.link[q]["P"] = Nil BY DEF IsTree, Rooted
<1>3. Nil \notin S BY SidesAre DEF IsTree
<1>4. RedsApart(t, S, col, q, q) BY <1>1, <1>3 DEF Painted, RedsApart
<1>5. Painted(t, S, col, bh, Nil, "L", q, q) BY <1>4 DEF Painted
<1>6. Owed(t, S, col, bh, q, Nil, "L") BY <1>2, <1>5 DEF Owed, Hangs, Sides
<1> QED BY <1>6, PaintDone

\* A red sibling is rotated above the parent and swaps colours with it.
LEMMA PaintRedSibling ==
  ASSUME NEW t, NEW S, NEW k, NEW at, NEW ends, IsTree(t, S, k, at, ends),
         NEW col, NEW bh, NEW n, NEW p \in S, NEW s, Owed(t, S, col, bh, n, p, s),
         NEW w, Child(t, w, p, Opposite(s)), col[w] = "red", col[n] # "red",
         NEW r, Rotated(t, r, p, s)
  PROVE  Owed(r, S, [col EXCEPT ![w] = "black", ![p] = "red"],
              [bh EXCEPT ![w] = bh[p], ![p] = bh[w]], n, p, s)
<1> DEFINE o == Opposite(s)
           c == [col EXCEPT ![w] = "black", ![p] = "red"]
           b == [bh EXCEPT ![w] = bh[p], ![p] = bh[w]]
           z == t.link[w][s]
           f == t.link[w][o]
<1>0. t.link[p][o] = w BY DEF Child
<1>1. /\ w \in S /\ w # n /\ w # p /\ p # n
      /\ s \in Sides /\ n \in Ptrs
      /\ t.link[p][s] = n
      /\ bh[w] + Black(col, p) = bh[p]
      /\ bh[n] + 1 = bh[w]
      /\ bh[n] \in Nat /\ bh[w] \in Nat
  BY OwedSibling
<1>2. /\ \A m \in S, e \in Sides :
           /\ m \in Ptrs /\ m # Nil /\ t.link[m][e] \in Ptrs
           /\ bh[m] \in Nat /\ bh[t.link[m][e]] \in Nat
           /\ Black(col, m) = IF col[m] = "red" THEN 0 ELSE 1
           /\ ~(m = p /\ e = s) => bh[m] = bh[t.link[m][e]] + Black(col, m)
           /\ m = p /\ e = s => bh[m] = bh[t.link[m][e]] + Black(col, m) + 1
           /\ col[m] = "red" /\ col[t.link[m][e]] = "red" => m = n \/ t.link[m][e] = n
      /\ Nil \notin S /\ Nil \in Ptrs
      /\ col \in [Ptrs -> Colours] /\ bh \in [Ptrs -> Nat]
      /\ Painted(t, S, col, bh, p, s, n, n)
  BY Heights DEF Owed
<1>3. o \in Sides /\ o # s BY <1>1, SidesAre
<1>4. Turned(t, r, S, p, w, s)
  <2>1. t.link[p][Opposite(s)] = w /\ w # Nil BY <1>0, <1>1, <1>2
  <2> QED BY <1>1, <2>1, RotateFamily
<1>5. /\ {n, z, f} \subseteq (S \ {p, w}) \cup {Nil}
      /\ r.link[p][s] = n
      /\ r.link[Nil]["P"] = t.link[Nil]["P"]
      /\ n # Nil => n # z
      /\ \A m \in S \ {p, w} : m # z => r.link[m]["P"] = t.link[m]["P"]
  BY <1>1, <1>4 DEF Turned
<1>6. /\ c \in [Ptrs -> Colours] /\ b \in [Ptrs -> Nat]
      /\ c[w] = "black" /\ c[p] = "red" /\ b[w] = bh[p] /\ b[p] = bh[w]
      /\ \A m \in Ptrs \ {p, w} : c[m] = col[m] /\ b[m] = bh[m]
  BY <1>1, <1>2 DEF Colours
<1>7. col[z] # "red" /\ col[f] # "red"
  <2>1. (z # n /\ f # n) \/ n = Nil
    <3>1. \A m, l \in S, e, d \in Sides : t.link[m][e] = t.link[l][d] /\ t.link[m][e] # Nil => m = l
      BY Family
    <3> QED BY <1>1, <1>3, <3>1
  <2>2. col[Nil] # "red" BY <1>2 DEF Painted
  <2> QED BY <1>1, <1>2, <1>3, <2>1, <2>2
<1>8. col[p] # "red"
  <2>1. ~(p = n \/ w = n) BY <1>1
  <2> QED BY <1>0, <1>1, <1>2, <1>3, <2>1
<1>9. n \in Ptrs \ {p, w} /\ z \in Ptrs \ {p, w} /\ f \in Ptrs \ {p, w} /\ bh[z] \in Nat /\ bh[f] \in Nat
  BY <1>1, <1>2, <1>3, <1>5
<1>10. bh[w] = bh[z] /\ bh[w] = bh[f] /\ bh[p] = bh[w] + 1
  <2>1. Black(col, w) = 0 /\ Black(col, p) = 1 BY <1>1, <1>2, <1>8
  <2> QED BY <1>1, <1>2, <1>3, <1>9, <2>1
<1>11. Black(c, p) = 0 /\ Black(c, w) = 1 BY <1>6 DEF Black
<1>12. Child(t, w, p, Opposite(s)) OBVIOUS
<1> HIDE DEF o, c, b, z, f
<1>13. Repainted(r, c, b, p, s, n, p, w, n, z, f, s)
  <2>1. b[n] = bh[n] /\ b[z] = bh[z] /\ b[f] = bh[f] /\ c[n] # "red" /\ c[z] # "red"
    BY <1>6, <1>7, <1>9
  <2> QED BY <1>1, <1>6, <1>9, <1>10, <1>11, <2>1 DEF Repainted
<1>14. Repainted(r, c, b, p, s, n, p, w, t.link[p][s], t.link[w][s], t.link[w][Opposite(s)], s)
  BY <1>1, <1>13 DEF z, f, o
<1>15. Painted(r, S, c, b, p, s, n, n)
  BY <1>1, <1>2, <1>4, <1>6, <1>12, <1>14, PaintTurn
<1>16. Hangs(r, S, n, p, s)
  <2>1. n \in S \cup {Nil} /\ t.link[n]["P"] = p BY <1>1, <1>2 DEF Owed, Hangs
  <2>2. n # z \/ n = Nil BY <1>5
  <2>3. n \notin {p, w} BY <1>9
  <2>4. r.link[n]["P"] = p
    <3>1. CASE n = Nil BY <1>5, <2>1, <3>1
    <3>2. CASE n # Nil BY <1>5, <2>1, <2>2, <2>3, <3>2
    <3> QED BY <3>1, <3>2
  <2> QED BY <1>1, <1>2, <1>5, <2>1, <2>4 DEF Hangs
<1> QED BY <1>15, <1>16 DEF Owed, c, b
\* A black sibling with black children turns red: now the black is missing
\* on all ways through the parent.
LEMMA PaintUp ==
  ASSUME NEW t, NEW S, NEW k, NEW at, NEW ends, IsTree(t, S, k, at, ends),
         NEW col, NEW bh, NEW n, NEW p \in S, NEW s, Owed(t, S, col, bh, n, p, s),
         NEW w, Child(t, w, p, Opposite(s)), col[w] # "red", col[n] # "red",
         \A e \in Sides : col[t.link[w][e]] # "red",
         NEW g, NEW d, Hangs(t, S, p, g, d)
  PROVE  Owed(t, S, [col EXCEPT ![w] = "red"], [bh EXCEPT ![w] = @ - 1, ![p] = @ - 1], p, g, d)
<1> DEFINE o == Opposite(s)
           c == [col EXCEPT ![w] = "red"]
           b == [bh EXCEPT ![w] = @ - 1, ![p] = @ - 1]
<1>0. t.link[p][o] = w BY DEF Child
<1>1. /\ w \in S /\ w # n /\ w # p /\ p # n
      /\ s \in Sides /\ n \in Ptrs
      /\ t.link[p][s] = n
      /\ bh[w] + Black(col, p) = bh[p]
      /\ bh[n] + 1 = bh[w]
      /\ bh[n] \in Nat /\ bh[w] \in Nat
  BY OwedSibling, ZenonT(60)
<1>2. /\ \A m \in S, e \in Sides :
           /\ m \in Ptrs /\ m # Nil /\ t.link[m][e] \in Ptrs
           /\ bh[m] \in Nat /\ bh[t.link[m][e]] \in Nat
           /\ Black(col, m) = IF col[m] = "red" THEN 0 ELSE 1
           /\ ~(m = p /\ e = s) => bh[m] = bh[t.link[m][e]] + Black(col, m)
           /\ m = p /\ e = s => bh[m] = bh[t.link[m][e]] + Black(col, m) + 1
           /\ col[m] = "red" /\ col[t.link[m][e]] = "red" => m = n \/ t.link[m][e] = n
      /\ Nil \notin S /\ Nil \in Ptrs
      /\ col \in [Ptrs -> Colours] /\ bh \in [Ptrs -> Nat] /\ col[Nil] = "black" /\ bh[Nil] = 0
      /\ col[t.root] = "red" => t.root = n
  BY Heights DEF Owed
<1>3. o \in Sides /\ o # s /\ \A e \in Sides : e = s \/ e = o BY <1>1, SidesAre
<1>4. /\ g \in S \cup {Nil} /\ d \in Sides
      /\ IF g = Nil THEN t.root = p ELSE t.link[g][d] = p
  BY DEF Hangs
<1>5. /\ c \in [Ptrs -> Colours] /\ b \in [Ptrs -> Nat] /\ c[w] = "red" /\ c[p] = col[p]
      /\ b[w] = bh[w] - 1 /\ b[p] = bh[p] - 1
      /\ \A m \in Ptrs \ {p, w} : c[m] = col[m] /\ b[m] = bh[m]
      /\ \A m \in Ptrs \ {w} : c[m] = col[m]
  <2>1. bh[p] \in Nat /\ bh[p] >= 1 /\ bh[w] >= 1
    <3>1. Black(col, p) \in Nat BY <1>1, <1>2
    <3>2. bh[p] \in Nat BY <1>2, <1>1
    <3> QED BY <1>1, <3>1, <3>2
  <2>2. w \in Ptrs /\ p \in Ptrs /\ bh[w] - 1 \in Nat /\ bh[p] - 1 \in Nat BY <1>1, <1>2, <2>1
  <2> QED BY <1>1, <1>2, <2>2 DEF Colours
<1> HIDE DEF c, b, o
<1>6. \A m \in S, e \in Sides : /\ t.link[m][e] = w => m = p /\ e = o
                                /\ t.link[m][e] = p => m = g /\ e = d
                                /\ t.link[m][e] # m
                                /\ t.link[m][e] # t.root
  <2>1. \A m \in S, e \in Sides : t.link[m][e] # t.root \/ t.root = Nil BY Family
  <2>2. \A m, l \in S, e, f \in Sides : t.link[m][e] = t.link[l][f] /\ t.link[m][e] # Nil => m = l /\ e = f
    BY Family
  <2>3. \A m \in S, e \in Sides : t.link[m][e] # m BY Family
  <2>4. w # Nil /\ p # Nil BY <1>1, <1>2
  <2>5. \A m \in S, e \in Sides : t.link[m][e] = w => m = p /\ e = o BY <1>0, <1>3, <2>2, <2>4
  <2>6. \A m \in S, e \in Sides : t.link[m][e] = p => m = g /\ e = d
    <3>1. CASE g = Nil BY <1>4, <2>1, <2>4, <3>1
    <3>2. CASE g # Nil BY <1>4, <2>2, <2>4, <3>2
    <3> QED BY <3>1, <3>2
  <2>7. t.root # Nil BY <2>4 DEF IsTree, Rooted
  <2> QED BY <2>1, <2>3, <2>5, <2>6, <2>7
<1>7. Black(col, w) = 1 /\ Black(c, w) = 0 /\ Black(c, p) = Black(col, p) /\ Black(col, p) \in Nat
  BY <1>1, <1>2, <1>5 DEF Black
<1>8. ASSUME NEW m \in S, NEW e \in Sides
      PROVE  /\ b[m] = b[t.link[m][e]] + Black(c, m) + (IF m = g /\ e = d THEN 1 ELSE 0)
             /\ c[m] = "red" /\ c[t.link[m][e]] = "red" => m = p \/ t.link[m][e] = p
  <2> DEFINE x == t.link[m][e]
  <2>1. m \in Ptrs /\ m # Nil /\ x \in Ptrs /\ bh[m] \in Nat /\ bh[x] \in Nat BY <1>2
  <2>2. CASE m = p
    <3>1. ~(m = g /\ e = d)
      <4>1. m = g /\ e = d => x = p BY <1>2, <1>4
      <4> QED BY <1>6, <2>2, <4>1
    <3>2. CASE e = s BY <1>1, <1>5, <1>7, <2>1, <2>2, <3>1, <3>2
    <3>3. CASE e = o BY <1>0, <1>1, <1>5, <1>7, <2>1, <2>2, <3>1, <3>3
    <3> QED BY <1>3, <2>2, <3>2, <3>3
  <2>3. CASE m = w
    <3>1. x # p /\ x # w /\ ~(m = g /\ e = d)
      <4>1. m = g /\ e = d => x = p BY <1>2, <1>4
      <4>2. x # w BY <1>6, <2>3
      <4>3. x # p BY <1>1, <1>0, <1>3, <2>3, NoCircle, <1>2
      <4> QED BY <4>1, <4>2, <4>3
    <3>2. bh[w] = bh[x] + 1 BY <1>1, <1>2, <1>7, <2>3
    <3>3. b[x] = bh[x] /\ c[x] # "red" BY <1>5, <2>1, <2>3, <3>1
    <3> QED BY <1>5, <1>7, <2>1, <2>3, <3>1, <3>2, <3>3
  <2>4. CASE m # p /\ m # w
    <3>1. x # w BY <1>6, <2>4
    <3>2. Black(c, m) = Black(col, m) /\ Black(col, m) \in Nat /\ c[m] = col[m] /\ b[m] = bh[m]
      <4>1. c[m] = col[m] /\ b[m] = bh[m] BY <1>5, <2>1, <2>4
      <4> QED BY <4>1 DEF Black
    <3>3. bh[m] = bh[x] + Black(col, m) BY <1>2, <2>4
    <3>4. c[x] = col[x] BY <1>5, <2>1, <3>1
    <3>5. CASE x = p
      <4>1. m = g /\ e = d BY <1>6, <3>5
      <4> QED BY <1>5, <2>1, <3>2, <3>3, <3>5, <4>1
    <3>6. CASE x # p
      <4>1. ~(m = g /\ e = d) BY <1>2, <1>4, <3>6
      <4>2. b[x] = bh[x] BY <1>5, <2>1, <3>1, <3>6
      <4>3. ~(c[m] = "red" /\ c[x] = "red")
        <5>1. col[m] = "red" /\ col[x] = "red" => m = n \/ x = n BY <1>2
        <5> QED BY <3>2, <3>4, <5>1
      <4> QED BY <2>1, <3>2, <3>3, <4>1, <4>2, <4>3
    <3> QED BY <3>5, <3>6
  <2> QED BY <2>2, <2>3, <2>4
<1>9. c[t.root] = "red" => t.root = p
  <2>1. t.root \in S /\ t.root # w BY <1>0, <1>1, <1>3, <1>6 DEF IsTree, Rooted
  <2>2. t.root \in Ptrs BY <1>2, <1>3, <2>1
  <2> QED BY <1>2, <1>5, <2>1, <2>2
<1>10. c[Nil] = "black" /\ b[Nil] = 0
  <2>1. Nil # p /\ Nil # w BY <1>1, <1>2
  <2> QED BY <1>2, <1>5, <2>1
<1>11. Painted(t, S, c, b, g, d, p, p) BY <1>5, <1>8, <1>9, <1>10 DEF Painted, Evenly, RedsApart
<1> QED BY <1>11 DEF Owed, c, b

\* A black sibling with a red near child and a black far one is rotated below
\* the near child, and swaps colours with it.
LEMMA PaintNear ==
  ASSUME NEW t, NEW S, NEW k, NEW at, NEW ends, IsTree(t, S, k, at, ends),
         NEW col, NEW bh, NEW n, NEW p \in S, NEW s, Owed(t, S, col, bh, n, p, s), col[n] # "red",
         NEW w, Child(t, w, p, Opposite(s)), col[w] # "red",
         NEW v, Child(t, v, w, s), col[v] = "red", col[t.link[w][Opposite(s)]] # "red",
         NEW r, Rotated(t, r, w, Opposite(s))
  PROVE  /\ Owed(r, S, [col EXCEPT ![v] = "black", ![w] = "red"],
                 [bh EXCEPT ![v] = bh[w], ![w] = bh[v]], n, p, s)
         /\ Child(r, v, p, Opposite(s))
         /\ Child(r, w, v, Opposite(s))
         /\ n # v /\ n # w /\ v # w /\ p # v
<1> DEFINE o == Opposite(s)
           c == [col EXCEPT ![v] = "black", ![w] = "red"]
           b == [bh EXCEPT ![v] = bh[w], ![w] = bh[v]]
           a == t.link[w][o]
           z == t.link[v][o]
           f == t.link[v][Opposite(o)]
<1>0. t.link[p][o] = w /\ t.link[w][s] = v BY DEF Child
<1>1. /\ w \in S /\ w # n /\ w # p /\ p # n
      /\ s \in Sides /\ n \in Ptrs
      /\ t.link[p][s] = n
      /\ bh[w] + Black(col, p) = bh[p]
      /\ bh[n] + 1 = bh[w]
      /\ bh[n] \in Nat /\ bh[w] \in Nat
  BY OwedSibling, ZenonT(60)
<1>2. /\ \A m \in S, e \in Sides :
           /\ m \in Ptrs /\ m # Nil /\ t.link[m][e] \in Ptrs
           /\ bh[m] \in Nat /\ bh[t.link[m][e]] \in Nat
           /\ Black(col, m) = IF col[m] = "red" THEN 0 ELSE 1
           /\ ~(m = p /\ e = s) => bh[m] = bh[t.link[m][e]] + Black(col, m)
           /\ m = p /\ e = s => bh[m] = bh[t.link[m][e]] + Black(col, m) + 1
           /\ col[m] = "red" /\ col[t.link[m][e]] = "red" => m = n \/ t.link[m][e] = n
      /\ Nil \notin S /\ Nil \in Ptrs
      /\ col \in [Ptrs -> Colours] /\ bh \in [Ptrs -> Nat] /\ col[Nil] = "black"
      /\ Painted(t, S, col, bh, p, s, n, n)
  BY Heights DEF Owed
<1>3. o \in Sides /\ o # s /\ Opposite(o) = s /\ \A e \in Sides : e = s \/ e = o BY <1>1, SidesAre
<1>4. v # Nil /\ v # w /\ v \in S
  <2>1. v # Nil BY <1>2
  <2>2. \A m \in S, e \in Sides : t.link[m][e] # m /\ t.link[m][e] \in S \cup {Nil} BY Family
  <2> QED BY <1>0, <1>1, <2>1, <2>2
<1>5. n # v /\ p # v
  <2>1. \A m, l \in S, e, d \in Sides : t.link[m][e] = t.link[l][d] /\ t.link[m][e] # Nil => m = l
    BY Family
  <2>2. n # v BY <1>0, <1>1, <1>4, <2>1
  <2>3. p # v
    <3>1. t.link[p][o] # Nil BY <1>0, <1>1, <1>2
    <3>2. t.link[t.link[p][o]][s] # p BY <1>1, <1>3, <3>1, NoCircle
    <3> QED BY <1>0, <3>2
  <2> QED BY <2>2, <2>3
<1>6. Turned(t, r, S, w, v, o)
  <2>1. t.link[w][Opposite(o)] = v BY <1>0, <1>3
  <2> QED BY <1>1, <1>3, <1>4, <2>1, RotateFamily
<1>7. /\ {a, z, f} \subseteq (S \ {w, v}) \cup {Nil}
      /\ \A m \in S \ {w, v}, d \in Sides : r.link[m][d] = IF t.link[m][d] = w THEN v ELSE t.link[m][d]
      /\ r.link[v][o] = w
      /\ r.link[Nil]["P"] = t.link[Nil]["P"]
      /\ \A m \in S \ {w, v} : m # z => r.link[m]["P"] = t.link[m]["P"]
  BY <1>6 DEF Turned
<1>8. /\ c \in [Ptrs -> Colours] /\ b \in [Ptrs -> Nat]
      /\ c[v] = "black" /\ c[w] = "red" /\ b[v] = bh[w] /\ b[w] = bh[v]
      /\ \A m \in Ptrs \ {w, v} : c[m] = col[m] /\ b[m] = bh[m]
  BY <1>1, <1>2, <1>4 DEF Colours
<1>9. n # z \/ n = Nil
  <2>1. \A m, l \in S, e, d \in Sides : t.link[m][e] = t.link[l][d] /\ t.link[m][e] # Nil => m = l
    BY Family
  <2> QED BY <1>1, <1>3, <1>4, <1>5, <2>1
<1>10. col[z] # "red"
  <2>1. z = Nil \/ z # n BY <1>9
  <2> QED BY <1>1, <1>2, <1>3, <1>4, <1>5, <2>1
<1>11. a \in Ptrs \ {w, v} /\ z \in Ptrs \ {w, v} /\ f \in Ptrs \ {w, v}
       /\ bh[a] \in Nat /\ bh[z] \in Nat /\ bh[f] \in Nat /\ bh[v] \in Nat
  BY <1>1, <1>2, <1>3, <1>4, <1>7
<1>12. bh[v] = bh[z] /\ bh[v] = bh[f] /\ bh[w] = bh[v] + 1 /\ bh[w] = bh[a] + 1
  <2>1. Black(col, v) = 0 /\ Black(col, w) = 1 BY <1>1, <1>2, <1>3, <1>4
  <2> QED BY <1>0, <1>1, <1>2, <1>3, <1>4, <1>5, <1>11, <2>1
<1>13. Black(c, w) = 0 /\ Black(c, v) = 1 BY <1>8 DEF Black
<1>14. Child(t, v, w, Opposite(o)) BY <1>0, <1>3 DEF Child
<1>15. o \in Sides BY <1>3
<1>16. r.link[p][s] = n /\ r.link[p][o] = v
  <2>1. r.link[p][s] = n BY <1>1, <1>5, <1>7
  <2> QED BY <1>0, <1>1, <1>3, <1>5, <1>7, <2>1
<1>17. col[a] # "red" OBVIOUS
<1> HIDE DEF o, c, b, a, z, f
<1>18. Repainted(r, c, b, p, s, n, w, v, a, z, f, o)
  <2>1. b[a] = bh[a] /\ b[z] = bh[z] /\ b[f] = bh[f] /\ c[a] # "red" /\ c[z] # "red"
    BY <1>8, <1>10, <1>11, <1>17
  <2> QED BY <1>1, <1>5, <1>8, <1>11, <1>12, <1>13, <2>1 DEF Repainted
<1>19. Repainted(r, c, b, p, s, n, w, v, t.link[w][o], t.link[v][o], t.link[v][Opposite(o)], o)
  BY <1>18 DEF z, f, a
<1>20. Painted(r, S, c, b, p, s, n, n)
  BY <1>1, <1>2, <1>4, <1>6, <1>8, <1>14, <1>15, <1>19, PaintTurn
<1>21. Hangs(r, S, n, p, s)
  <2>1. n \in S \cup {Nil} /\ t.link[n]["P"] = p BY <1>1, <1>2 DEF Owed, Hangs
  <2>2. r.link[n]["P"] = p
    <3>1. CASE n = Nil BY <1>7, <2>1, <3>1
    <3>2. CASE n # Nil BY <1>1, <1>5, <1>7, <1>9, <2>1, <3>2
    <3> QED BY <3>1, <3>2
  <2> QED BY <1>1, <1>2, <1>16, <2>1, <2>2 DEF Hangs
<1>22. Child(r, v, p, o) /\ Child(r, w, v, o) BY <1>7, <1>16 DEF Child
<1> QED BY <1>1, <1>4, <1>5, <1>20, <1>21, <1>22 DEF Owed, c, b, o

\* A black sibling with a red far child is rotated above the parent and swaps
\* colours with it; the far child turns black, and none is missing.
LEMMA PaintFar ==
  ASSUME NEW t, NEW S, NEW k, NEW at, NEW ends, IsTree(t, S, k, at, ends),
         NEW col, NEW bh, NEW n, NEW p \in S, NEW s, Owed(t, S, col, bh, n, p, s), col[n] # "red",
         NEW w, Child(t, w, p, Opposite(s)), col[w] # "red",
         NEW f, Child(t, f, w, Opposite(s)), col[f] = "red",
         NEW r, Rotated(t, r, p, s), NEW ends2, IsTree(r, S, k, at, ends2)
  PROVE  \E b : Balanced(r, S, [col EXCEPT ![w] = col[p], ![p] = "black", ![f] = "black"], b)
<1> DEFINE o == Opposite(s)
           c == [col EXCEPT ![w] = col[p], ![p] = "black"]
           b == [bh EXCEPT ![w] = bh[p], ![p] = bh[w]]
           z == t.link[w][s]
<1>0. t.link[p][o] = w /\ t.link[w][o] = f BY DEF Child
<1>1. /\ w \in S /\ w # n /\ w # p /\ p # n
      /\ s \in Sides /\ n \in Ptrs
      /\ t.link[p][s] = n
      /\ bh[w] + Black(col, p) = bh[p]
      /\ bh[n] + 1 = bh[w]
      /\ bh[n] \in Nat /\ bh[w] \in Nat
  BY OwedSibling, ZenonT(60)
<1>2. /\ \A m \in S, e \in Sides :
           /\ m \in Ptrs /\ m # Nil /\ t.link[m][e] \in Ptrs
           /\ bh[m] \in Nat /\ bh[t.link[m][e]] \in Nat
           /\ Black(col, m) = IF col[m] = "red" THEN 0 ELSE 1
           /\ ~(m = p /\ e = s) => bh[m] = bh[t.link[m][e]] + Black(col, m)
      /\ Nil \notin S /\ Nil \in Ptrs
      /\ col \in [Ptrs -> Colours] /\ bh \in [Ptrs -> Nat] /\ col[Nil] = "black"
  BY Heights DEF Owed
<1>3. o \in Sides /\ o # s /\ \A e \in Sides : e = s \/ e = o BY <1>1, SidesAre
<1>4. Turned(t, r, S, p, w, s)
  <2>1. t.link[p][Opposite(s)] = w /\ w # Nil BY <1>0, <1>1, <1>2
  <2> QED BY <1>1, <2>1, RotateFamily
<1>5. /\ {n, z, f} \subseteq (S \ {p, w}) \cup {Nil}
      /\ r.link[w][o] = f
      /\ f # Nil
      /\ z # Nil => z # f
      /\ \A m \in S \ {p, w} : m # z => r.link[m]["P"] = t.link[m]["P"]
  <2>1. f # Nil BY <1>2
  <2> QED BY <1>0, <1>1, <1>4, <2>1 DEF Turned
<1>6. /\ c \in [Ptrs -> Colours] /\ b \in [Ptrs -> Nat]
      /\ c[w] = col[p] /\ c[p] = "black" /\ b[w] = bh[p] /\ b[p] = bh[w]
      /\ \A m \in Ptrs \ {p, w} : c[m] = col[m] /\ b[m] = bh[m]
  BY <1>1, <1>2 DEF Colours
<1>7. Painted(t, S, col, bh, p, s, f, f) BY NoException DEF Owed
<1>8. /\ n \in Ptrs \ {p, w} /\ z \in Ptrs \ {p, w} /\ f \in Ptrs \ {p, w} /\ bh[z] \in Nat /\ bh[f] \in Nat
      /\ bh[p] \in Nat /\ f \in S
  BY <1>1, <1>2, <1>3, <1>5
<1>9. bh[w] = bh[z] + 1 /\ bh[w] = bh[f] + 1 /\ bh[p] = bh[w] + Black(col, p) /\ Black(col, p) \in Nat
  <2>1. Black(col, w) = 1 /\ Black(col, p) \in Nat BY <1>1, <1>2
  <2> QED BY <1>0, <1>1, <1>2, <1>3, <1>8, <2>1
<1>10. Black(c, p) = 1 /\ Black(c, w) = Black(col, p) BY <1>6 DEF Black
<1>11. Child(t, w, p, Opposite(s)) OBVIOUS
<1> HIDE DEF o, c, b, z
<1>12. Repainted(r, c, b, w, o, f, p, w, n, z, f, s)
  <2>1. b[n] = bh[n] /\ b[z] = bh[z] /\ b[f] = bh[f] BY <1>6, <1>8
  <2> QED BY <1>1, <1>3, <1>6, <1>8, <1>9, <1>10, <2>1 DEF Repainted
<1>13. Repainted(r, c, b, w, o, f, p, w, t.link[p][s], t.link[w][s], t.link[w][Opposite(s)], s)
  BY <1>0, <1>1, <1>12 DEF z, o
<1>14. Painted(r, S, c, b, w, o, f, f)
  <2>1. c[w] = "red" => col[p] = "red" /\ p # f BY <1>6, <1>8
  <2>2. \A m \in S \ {p, w}, e \in Sides : m = w /\ e = o <=> m = p /\ e = s OBVIOUS
  <2>3. o \in Sides BY <1>3
  <2> QED BY <1>1, <1>4, <1>6, <1>7, <1>11, <1>13, <2>1, <2>2, <2>3, PaintTurn
<1>15. Hangs(r, S, f, w, o)
  <2>1. t.link[f]["P"] = w
    <3>1. Branch(t, S, at, ends, w, o) BY <1>1, <1>3 DEF IsTree
    <3> QED BY <1>0, <1>5, <3>1 DEF Branch
  <2>2. f # z BY <1>5
  <2>3. r.link[f]["P"] = w BY <1>5, <1>8, <2>1, <2>2
  <2> QED BY <1>1, <1>2, <1>3, <1>5, <1>8, <2>3 DEF Hangs
<1>16. c[f] = "red" BY <1>6, <1>8
<1>17. Owed(r, S, c, b, f, w, o) BY <1>14, <1>15 DEF Owed
<1>18. \E x : Balanced(r, S, [c EXCEPT ![f] = "black"], x) BY <1>16, <1>17, PaintDone
<1> QED BY <1>18 DEF c

----------------------------------------------------------------------------
(* The colours after a node was taken out                                  *)

\* A node with a child missing gives way to the other one: if it was red
\* nothing is missing, else one black on the ways through that child.
LEMMA PaintSplice ==
  ASSUME NEW t, NEW S, NEW k, NEW at, NEW ends, IsTree(t, S, k, at, ends),
         NEW col, NEW bh, Balanced(t, S, col, bh), NEW n \in S, NEW s \in Sides,
         Child(t, Nil, n, s), NEW x, Child(t, x, n, Opposite(s)), NEW r, Spliced(t, r, n, x)
  PROVE  /\ col[n] = "red" => Balanced(r, S \ {n}, col, bh)
         /\ col[n] # "red" => \E h, d : Owed(r, S \ {n}, col, bh, x, h, d)
         /\ x # n
<1> DEFINE p == t.link[n]["P"]
           T == S \ {n}
           o == Opposite(s)
<1>0. t.link[n][s] = Nil /\ t.link[n][o] = x BY DEF Child
<1>1. /\ \A m \in S, e \in Sides :
           /\ m \in Ptrs /\ m # Nil /\ t.link[m][e] \in Ptrs
           /\ bh[m] \in Nat /\ bh[t.link[m][e]] \in Nat
           /\ Black(col, m) = IF col[m] = "red" THEN 0 ELSE 1
           /\ bh[m] = bh[t.link[m][e]] + Black(col, m)
           /\ ~(col[m] = "red" /\ col[t.link[m][e]] = "red")
      /\ Nil \notin S /\ Nil \in Ptrs /\ S \subseteq Ptrs
      /\ col \in [Ptrs -> Colours] /\ bh \in [Ptrs -> Nat] /\ col[Nil] = "black" /\ bh[Nil] = 0
      /\ col[t.root] # "red"
  <2>1. /\ \A m \in S, e \in Sides :
           /\ m \in Ptrs /\ m # Nil /\ t.link[m][e] \in Ptrs
           /\ bh[m] \in Nat /\ bh[t.link[m][e]] \in Nat
           /\ Black(col, m) = IF col[m] = "red" THEN 0 ELSE 1
           /\ ~(m = Nil /\ e = "L") => bh[m] = bh[t.link[m][e]] + Black(col, m)
           /\ col[m] = "red" /\ col[t.link[m][e]] = "red" => m = Nil \/ t.link[m][e] = Nil
        /\ Nil \notin S /\ Nil \in Ptrs /\ S \subseteq Ptrs
        /\ col \in [Ptrs -> Colours] /\ bh \in [Ptrs -> Nat] /\ col[Nil] = "black" /\ bh[Nil] = 0
        /\ col[t.root] = "red" => t.root = Nil
    BY Heights DEF Balanced
  <2> QED BY <2>1
<1>2. o \in Sides /\ o # s /\ \A e \in Sides : e = s \/ e = o BY SidesAre
<1>3. /\ p = Nil <=> n = t.root
      /\ p # Nil => /\ p \in S /\ p # n
                    /\ \E e \in Sides : t.link[p][e] = n
  BY Hanging
<1>4. /\ r.root = IF p = Nil THEN x ELSE t.root
      /\ \A m \in Ptrs, e \in Sides :
           r.link[m][e] = IF m = p /\ p # Nil /\ t.link[m][e] = n THEN x ELSE t.link[m][e]
      /\ r.link[x]["P"] = p
  <2>1. x \in Ptrs BY <1>0, <1>1, <1>2
  <2> QED BY <2>1 DEF Spliced
<1>5. x \in S \cup {Nil} /\ x # n
  <2>1. x # n /\ x \in S \cup {Nil} BY <1>0, <1>2, Family
  <2> QED BY <2>1
<1>6. PICK d \in Sides : p # Nil => t.link[p][d] = n
  <2>1. "L" \in Sides BY DEF Sides
  <2> QED BY <1>3, <2>1
<1>7. \A m \in S, e \in Sides : t.link[m][e] = n <=> m = p /\ e = d /\ p # Nil
  <2>1. \A m, l \in S, e, f \in Sides : t.link[m][e] = t.link[l][f] /\ t.link[m][e] # Nil => m = l /\ e = f
    BY Family
  <2>2. \A m \in S, e \in Sides : t.link[m][e] # t.root \/ t.root = Nil BY Family
  <2> QED BY <1>1, <1>3, <1>6, <2>1, <2>2
<1>8. bh[n] = bh[x] + Black(col, n) /\ bh[x] \in Nat /\ (col[n] = "red" => col[x] # "red")
  BY <1>0, <1>1, <1>2
<1> HIDE DEF p, o
<1>9. ASSUME NEW m \in T, NEW e \in Sides
      PROVE  /\ bh[m] = bh[r.link[m][e]] + Black(col, m)
                        + (IF m = p /\ e = d /\ col[n] # "red" THEN 1 ELSE 0)
             /\ col[m] = "red" /\ col[r.link[m][e]] = "red" => r.link[m][e] = x /\ col[n] # "red"
  <2>1. m \in S /\ m \in Ptrs /\ m # Nil BY <1>1
  <2>2. CASE m = p /\ e = d
    <3>1. t.link[m][e] = n /\ r.link[m][e] = x BY <1>4, <1>7, <2>1, <2>2
    <3>2. bh[m] = bh[n] + Black(col, m) /\ Black(col, m) \in Nat BY <1>1, <2>1, <3>1
    <3>3. Black(col, n) = IF col[n] = "red" THEN 0 ELSE 1 BY <1>1
    <3> QED BY <1>8, <2>2, <3>1, <3>2, <3>3
  <2>3. CASE ~(m = p /\ e = d)
    <3>1. r.link[m][e] = t.link[m][e] BY <1>4, <1>7, <2>1, <2>3
    <3>2. Black(col, m) \in Nat /\ bh[t.link[m][e]] \in Nat BY <1>1, <2>1
    <3> QED BY <1>1, <2>1, <2>3, <3>1, <3>2
  <2> QED BY <2>2, <2>3
<1>10. col[r.root] = "red" => r.root = x /\ col[n] # "red"
  BY <1>1, <1>3, <1>4
<1>11. ASSUME col[n] = "red" PROVE Balanced(r, T, col, bh)
  <2>1. ASSUME NEW m \in T, NEW e \in Sides
        PROVE  bh[m] = bh[r.link[m][e]] + Black(col, m) + (IF m = Nil /\ e = "L" THEN 1 ELSE 0)
    <3>1. m # Nil /\ bh[m] = bh[r.link[m][e]] + Black(col, m) + 0 BY <1>1, <1>9, <1>11
    <3> QED BY <3>1
  <2> QED BY <1>1, <1>9, <1>10, <1>11, <2>1 DEF Balanced, Painted, Evenly, RedsApart
<1>12. ASSUME col[n] # "red" PROVE Owed(r, T, col, bh, x, p, d)
  <2>1. ASSUME NEW m \in T, NEW e \in Sides
        PROVE  bh[m] = bh[r.link[m][e]] + Black(col, m) + (IF m = p /\ e = d THEN 1 ELSE 0)
    BY <1>9, <1>12
  <2>2. Painted(r, T, col, bh, p, d, x, x)
    BY <1>1, <1>9, <1>10, <2>1 DEF Painted, Evenly, RedsApart
  <2>3. Hangs(r, T, x, p, d)
    <3>1. p # Nil => r.link[p][d] = x /\ p \in T BY <1>1, <1>3, <1>4, <1>6
    <3> QED BY <1>3, <1>4, <1>5, <1>6, <3>1 DEF Hangs
  <2> QED BY <2>2, <2>3 DEF Owed
<1> QED BY <1>5, <1>11, <1>12

\* The successor takes the place and the colour of the node removed.
LEMMA PaintRename ==
  ASSUME NEW t, NEW S, NEW k, NEW at, NEW ends, IsTree(t, S, k, at, ends),
         NEW n \in S, NEW y \in Blocks \ S, NEW r, Renamed(t, r, S, n, y),
         NEW col, NEW bh, NEW h \in S \cup {Nil}, NEW d, NEW v \in (S \cup {Nil}) \ {n},
         Painted(t, S, col, bh, h, d, v, v)
  PROVE  Painted(r, (S \ {n}) \cup {y}, [col EXCEPT ![y] = col[n]], [bh EXCEPT ![y] = bh[n]],
                 IF h = n THEN y ELSE h, d, v, v)
<1> DEFINE T == (S \ {n}) \cup {y}
           c == [col EXCEPT ![y] = col[n]]
           b == [bh EXCEPT ![y] = bh[n]]
           g == IF h = n THEN y ELSE h
<1>1. /\ \A m \in S, e \in Sides :
           /\ m \in Ptrs /\ m # Nil /\ t.link[m][e] \in Ptrs
           /\ bh[m] \in Nat /\ bh[t.link[m][e]] \in Nat
           /\ Black(col, m) = IF col[m] = "red" THEN 0 ELSE 1
           /\ ~(m = h /\ e = d) => bh[m] = bh[t.link[m][e]] + Black(col, m)
           /\ m = h /\ e = d => bh[m] = bh[t.link[m][e]] + Black(col, m) + 1
           /\ col[m] = "red" /\ col[t.link[m][e]] = "red" => m = v \/ t.link[m][e] = v
      /\ Nil \notin S /\ Nil \in Ptrs /\ S \subseteq Ptrs
      /\ col \in [Ptrs -> Colours] /\ bh \in [Ptrs -> Nat] /\ col[Nil] = "black" /\ bh[Nil] = 0
      /\ col[t.root] = "red" => t.root = v
  BY Heights
<1>2. y \in Ptrs /\ y # Nil /\ y \notin S /\ y # n BY SidesAre DEF Ptrs
<1>3. /\ c \in [Ptrs -> Colours] /\ b \in [Ptrs -> Nat] /\ c[y] = col[n] /\ b[y] = bh[n]
      /\ \A m \in Ptrs \ {y} : c[m] = col[m] /\ b[m] = bh[m]
  <2>1. n \in Ptrs BY <1>1
  <2> QED BY <1>1, <1>2, <2>1
<1>4. /\ r.root = IF t.root = n THEN y ELSE t.root
      /\ \A m \in S \ {n}, e \in Sides : r.link[m][e] = IF t.link[m][e] = n THEN y ELSE t.link[m][e]
      /\ \A e \in Sides : r.link[y][e] = t.link[n][e]
  BY SidesAre DEF Renamed
<1>5. \A m \in S, e \in Sides : t.link[m][e] \in S \cup {Nil} BY Family
<1>6. \A e \in Sides : t.link[n][e] # n BY Family
<1>7. v # y BY <1>2
<1> HIDE DEF c, b
<1>8. ASSUME NEW m \in T, NEW e \in Sides
      PROVE  /\ b[m] = b[r.link[m][e]] + Black(c, m) + (IF m = g /\ e = d THEN 1 ELSE 0)
             /\ c[m] = "red" /\ c[r.link[m][e]] = "red" => m = v \/ r.link[m][e] = v
  <2> DEFINE l == IF m = y THEN n ELSE m
             x == t.link[l][e]
             xx == IF x = n THEN y ELSE x
  <2>1. l \in S /\ (m # y => m \in S \ {n}) BY <1>2
  <2>2. x \in S \cup {Nil} /\ x \in Ptrs BY <1>1, <1>5, <2>1
  <2>3. r.link[m][e] = xx
    <3>1. CASE m = y BY <1>4, <1>6, <3>1
    <3>2. CASE m # y BY <1>4, <2>1, <3>2
    <3> QED BY <3>1, <3>2
  <2>4. c[m] = col[l] /\ b[m] = bh[l] /\ c[xx] = col[x] /\ b[xx] = bh[x]
    <3>1. c[m] = col[l] /\ b[m] = bh[l] BY <1>1, <1>3, <2>1
    <3>2. x # y BY <1>1, <1>2, <2>2
    <3> QED BY <1>3, <2>2, <3>1, <3>2
  <2>5. m = g <=> l = h BY <1>1, <1>2, <2>1
  <2>6. Black(c, m) = Black(col, l) /\ Black(col, l) \in Nat BY <2>4 DEF Black
  <2>7. l = v => m = v
    OBVIOUS
  <2>8. x = v => xx = v OBVIOUS
  <2> HIDE DEF l, x, xx, g
  <2>9. b[m] = b[xx] + Black(c, m) + (IF m = g /\ e = d THEN 1 ELSE 0)
    <3>1. bh[x] \in Nat BY <1>1, <2>2
    <3> QED BY <1>1, <2>1, <2>4, <2>5, <2>6, <3>1 DEF x
  <2>10. c[m] = "red" /\ c[xx] = "red" => m = v \/ xx = v
    BY <1>1, <2>1, <2>4, <2>7, <2>8, ZenonT(60) DEF x
  <2> QED BY <2>3, <2>9, <2>10
<1>9. c[r.root] = "red" => r.root = v
  <2>1. t.root \in S BY DEF IsTree, Rooted
  <2>2. t.root \in Ptrs /\ t.root # y BY <1>1, <1>2, <2>1
  <2> QED BY <1>1, <1>3, <1>4, <2>1, <2>2
<1>10. c[Nil] = "black" /\ b[Nil] = 0 BY <1>1, <1>2, <1>3
<1>11. Painted(r, T, c, b, g, d, v, v) BY <1>3, <1>8, <1>9, <1>10 DEF Painted, Evenly, RedsApart
<1> QED BY <1>11 DEF c, b

\* The same when the successor y of n is taken out of its own place and put
\* into n's.
LEMMA PaintSuccessor ==
  ASSUME NEW S, NEW k, NEW at, NEW ends, IsTree(Tree, S, k, at, ends), NEW n, NEW y,
         Succeeds(Tree, S, at, ends, n, y), NEW bh, Balanced(Tree, S, colour, bh)
  PROVE  LET r == SpliceSuccessor(n, y) IN
         /\ colour[y] = "red" => \E b : Balanced(r.t, S \ {n}, r.colour, b)
         /\ colour[y] # "red" => \E b, h, d : Owed(r.t, S \ {n}, r.colour, b, r.x, h, d)
<1> DEFINE x  == link[y]["R"]
           t0 == Transplant(Tree, y, x)
           r  == SpliceSuccessor(n, y).t
           c  == [colour EXCEPT ![y] = colour[n]]
           b  == [bh EXCEPT ![y] = bh[n]]
           T  == S \ {y}
           a0 == AtMinus(S, at, y)
           e0 == EndsMinus(S, ends, at[y], y)
<1>1. SpliceSuccessor(n, y).x = x /\ SpliceSuccessor(n, y).colour = c BY DEF SpliceSuccessor
<1>2. /\ y # n /\ x # n /\ x # y
      /\ n \in S /\ y \in S /\ x \in S \cup {Nil}
      /\ y \in Blocks
  <2>1. x = Tree.link[y]["R"] BY DEF Tree
  <2>2. /\ y # n /\ x # n /\ x # y
        /\ n \in S /\ y \in S /\ x \in S \cup {Nil}
    BY <2>1, Succession
  <2> QED BY <2>2 DEF IsTree
<1>3. /\ Spliced(Tree, t0, y, x)
      /\ Renamed(t0, r, T, n, y)
      /\ x = Nil => r.link[Nil]["P"] = IF link[y]["P"] = n THEN y ELSE link[y]["P"]
  <2>1. Spliced(Tree, t0, y, x) /\ Renamed(t0, r, T, n, y) BY SuccessorLinks
  <2>2. x = Nil => Handed(r, link[y]["P"], n, y) BY SuccessorLinks
  <2> QED BY <2>1, <2>2 DEF Handed
<1>4. Child(Tree, Nil, y, "L") /\ Child(Tree, x, y, Opposite("L")) /\ "L" \in Sides
  BY DEF Child, Succeeds, Tree, Opposite, Sides
<1>5. IsTree(t0, T, k - 1, a0, e0)
  <2>1. Tree.link[y]["L"] = Nil BY DEF Succeeds
  <2>2. x = Tree.link[y][Opposite("L")] BY <1>4 DEF Child
  <2> HIDE DEF x
  <2> QED BY <1>2, <1>3, <1>4, <2>1, <2>2, SpliceTree
<1>6. /\ colour[y] = "red" => Balanced(t0, T, colour, bh)
      /\ colour[y] # "red" => \E h, d : Owed(t0, T, colour, bh, x, h, d)
  BY <1>2, <1>3, <1>4, PaintSplice
<1>7. (T \ {n}) \cup {y} = S \ {n} BY <1>2
<1>8. n \in T /\ y \in Blocks \ T BY <1>2
<1> HIDE DEF t0, r, c, b, a0, e0, x
<1>9. ASSUME colour[y] = "red" PROVE Balanced(r, S \ {n}, c, b)
  <2>1. Painted(t0, T, colour, bh, Nil, "L", Nil, Nil) BY <1>6, <1>9 DEF Balanced
  <2>2. Nil \in (T \cup {Nil}) \ {n} /\ Nil # n BY <1>2, SidesAre DEF IsTree
  <2>3. Painted(r, (T \ {n}) \cup {y}, [colour EXCEPT ![y] = colour[n]], [bh EXCEPT ![y] = bh[n]],
                IF Nil = n THEN y ELSE Nil, "L", Nil, Nil)
    <3>1. Nil \in T \cup {Nil} OBVIOUS
    <3> QED BY <1>3, <1>5, <1>8, <2>1, <2>2, <3>1, PaintRename
  <2> QED BY <1>7, <2>2, <2>3 DEF Balanced, c, b
<1>10. ASSUME colour[y] # "red" PROVE \E h, d : Owed(r, S \ {n}, c, b, x, h, d)
  <2>1. PICK h, d : Owed(t0, T, colour, bh, x, h, d) BY <1>6, <1>10
  <2> DEFINE g == IF h = n THEN y ELSE h
  <2>2. /\ x \in T \cup {Nil} /\ h \in T \cup {Nil} /\ d \in Sides
        /\ t0.link[x]["P"] = h
        /\ IF h = Nil THEN t0.root = x ELSE t0.link[h][d] = x
        /\ Painted(t0, T, colour, bh, h, d, x, x)
    BY <2>1 DEF Owed, Hangs
  <2>3. x \in (T \cup {Nil}) \ {n} BY <1>2, <2>2
  <2>4. Painted(r, (T \ {n}) \cup {y}, [colour EXCEPT ![y] = colour[n]], [bh EXCEPT ![y] = bh[n]],
                IF h = n THEN y ELSE h, d, x, x)
    <3>1. Painted(t0, T, colour, bh, h, d, x, x) /\ h \in T \cup {Nil} BY <2>2
    <3>2. Renamed(t0, r, T, n, y) BY <1>3
    <3> HIDE DEF T
    <3> QED BY <1>5, <1>8, <2>3, <3>1, <3>2, PaintRename
  <2>5. Painted(r, S \ {n}, c, b, g, d, x, x) BY <1>7, <2>4 DEF c, b
  <2>6. Nil \notin S /\ y # Nil /\ n # Nil BY <1>2, SidesAre DEF IsTree
  <2>7. r.link[x]["P"] = g
    <3>1. CASE x = Nil
      <4>1. t0.link[x]["P"] = Tree.link[y]["P"]
        <5>1. x \in Ptrs BY <3>1 DEF Ptrs
        <5> QED BY <1>3, <5>1 DEF Spliced
      <4>2. h = link[y]["P"] BY <2>2, <4>1 DEF Tree
      <4> QED BY <1>3, <3>1, <4>2
    <3>2. CASE x # Nil
      <4>1. x \in T \ {n} BY <1>2, <2>2, <3>2
      <4> QED BY <1>3, <2>2, <4>1 DEF Renamed
    <3> QED BY <3>1, <3>2
  <2>8. IF g = Nil THEN r.root = x ELSE r.link[g][d] = x
    <3>1. CASE h = n
      <4>1. t0.link[n][d] = x BY <2>2, <2>6, <3>1
      <4>2. d \in Dirs BY <2>2, SidesAre
      <4>3. r.link[y][d] = x BY <1>3, <4>1, <4>2 DEF Renamed
      <4> QED BY <2>6, <3>1, <4>3
    <3>2. CASE h = Nil
      <4>1. t0.root = x BY <2>2, <3>2
      <4>2. r.root = x BY <1>2, <1>3, <4>1 DEF Renamed
      <4> QED BY <2>6, <3>2, <4>2
    <3>3. CASE h # Nil /\ h # n
      <4>1. h \in T \ {n} /\ t0.link[h][d] = x BY <2>2, <3>3
      <4>2. r.link[h][d] = x BY <1>2, <1>3, <2>2, <4>1 DEF Renamed
      <4> QED BY <3>3, <4>2
    <3> QED BY <3>1, <3>2, <3>3
  <2>9. g \in (S \ {n}) \cup {Nil} /\ x \in (S \ {n}) \cup {Nil} BY <1>2, <2>2
  <2> QED BY <2>2, <2>5, <2>7, <2>8, <2>9 DEF Owed, Hangs
<1> QED BY <1>1, <1>9, <1>10 DEF r

=============================================================================
