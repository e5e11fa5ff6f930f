--------------------------- MODULE BkQueueProofs ---------------------------
(***************************************************************************)
(* Proofs about BkQueue for any number of heads and elements: the links of  *)
(* every list of every kind spell the sequence it should hold, forwards,    *)
(* backwards and at the tail, and a FOREACH_SAFE loop visits that sequence. *)
(*                                                                         *)
(* The sequence is what an insertion at an index or a removal from one does *)
(* to it; the links are what memory holds in the fields of its nodes, the   *)
(* head and the elements.  A lemma per macro says which fields it writes,   *)
(* one per change of the sequence that they spell the changed sequence, and *)
(* one that the other lists, which share no node with it, are as they were. *)
(***************************************************************************)
EXTENDS BkQueue, SequenceTheorems, TLAPS

\* What a part of a sequence holds.
LEMMA SubSeqOf ==
  ASSUME NEW S, NEW s \in Seq(S), NEW a \in 1..Len(s) + 1, NEW b \in 0..Len(s)
  PROVE  /\ SubSeq(s, a, b) \in Seq(S)
         /\ Len(SubSeq(s, a, b)) = IF a <= b THEN b - a + 1 ELSE 0
         /\ \A j \in 1..Len(SubSeq(s, a, b)) : SubSeq(s, a, b)[j] = s[a + j - 1]
OBVIOUS

\* Insertion at an index moves the elements from there on one further.
LEMMA Inserted ==
  ASSUME NEW s \in Seq(Elements), NEW i \in 1..Len(s) + 1, NEW e \in Elements
  PROVE  /\ InsertAt(s, i, e) \in Seq(Elements)
         /\ Len(InsertAt(s, i, e)) = Len(s) + 1
         /\ \A j \in 1..Len(s) + 1 : InsertAt(s, i, e)[j] =
              IF j < i THEN s[j] ELSE IF j = i THEN e ELSE s[j - 1]
<1> DEFINE a == SubSeq(s, 1, i - 1)
           b == SubSeq(s, i, Len(s))
<1>1. /\ a \in Seq(Elements) /\ Len(a) = i - 1 /\ \A j \in 1..i - 1 : a[j] = s[j]
  BY SubSeqOf
<1>2. /\ b \in Seq(Elements) /\ Len(b) = Len(s) - i + 1 /\ \A j \in 1..Len(s) - i + 1 : b[j] = s[i + j - 1]
  BY SubSeqOf
<1>3. <<e>> \in Seq(Elements) /\ Len(<<e>>) = 1 /\ <<e>>[1] = e OBVIOUS
<1>4. InsertAt(s, i, e) = (a \o <<e>>) \o b BY DEF InsertAt
<1> HIDE DEF a, b
<1>5. /\ a \o <<e>> \in Seq(Elements)
      /\ Len(a \o <<e>>) = i
      /\ \A j \in 1..i : (a \o <<e>>)[j] = IF j <= i - 1 THEN a[j] ELSE <<e>>[j - (i - 1)]
  BY <1>1, <1>3, ConcatProperties
<1> QED BY <1>1, <1>2, <1>3, <1>4, <1>5, ConcatProperties

\* Removal from an index moves the elements behind it one back.
LEMMA Cut ==
  ASSUME NEW s \in Seq(Elements), NEW i \in 1..Len(s)
  PROVE  /\ RemoveAt(s, i) \in Seq(Elements)
         /\ Len(RemoveAt(s, i)) = Len(s) - 1
         /\ \A j \in 1..Len(s) - 1 : RemoveAt(s, i)[j] = IF j < i THEN s[j] ELSE s[j + 1]
<1> DEFINE a == SubSeq(s, 1, i - 1)
           b == SubSeq(s, i + 1, Len(s))
<1>1. /\ a \in Seq(Elements) /\ Len(a) = i - 1 /\ \A j \in 1..i - 1 : a[j] = s[j]
  BY SubSeqOf
<1>2. /\ b \in Seq(Elements) /\ Len(b) = Len(s) - i /\ \A j \in 1..Len(s) - i : b[j] = s[i + j]
  BY SubSeqOf
<1>3. RemoveAt(s, i) = a \o b BY DEF RemoveAt
<1> HIDE DEF a, b
<1>4. /\ a \o b \in Seq(Elements)
      /\ Len(a \o b) = Len(a) + Len(b)
      /\ \A j \in 1..Len(a) + Len(b) : (a \o b)[j] = IF j <= Len(a) THEN a[j] ELSE b[j - Len(a)]
  BY <1>1, <1>2, ConcatProperties
<1>5. Len(a) + Len(b) = Len(s) - 1 BY <1>1, <1>2
<1>6. \A j \in 1..Len(s) - 1 : (a \o b)[j] = IF j < i THEN s[j] ELSE s[j + 1]
  <2> SUFFICES ASSUME NEW j \in 1..Len(s) - 1
               PROVE  (a \o b)[j] = IF j < i THEN s[j] ELSE s[j + 1]
    OBVIOUS
  <2>1. CASE j < i
    <3>1. j \in 1..i - 1 /\ j <= Len(a) /\ j \in 1..Len(a) + Len(b) BY <2>1, <1>1, <1>5
    <3> QED BY <2>1, <3>1, <1>1, <1>4
  <2>2. CASE ~(j < i)
    <3>1. j - Len(a) \in 1..Len(s) - i /\ i + (j - Len(a)) = j + 1 BY <2>2, <1>1
    <3>2. j \in 1..Len(a) + Len(b) /\ ~(j <= Len(a)) BY <2>2, <1>1, <1>5
    <3>3. (a \o b)[j] = b[j - Len(a)] BY <3>2, <1>4
    <3>4. b[j - Len(a)] = s[i + (j - Len(a))] BY <3>1, <1>2
    <3>5. b[j - Len(a)] = s[j + 1] BY <3>1, <3>4
    <3> QED BY <2>2, <3>3, <3>5
  <2>3. i \in Int /\ j \in Int OBVIOUS
  <2> QED BY <2>1, <2>2, <2>3
<1> QED BY <1>3, <1>4, <1>5, <1>6

Values == Objects \cup {Null} \cup (Objects \X {"next"})

\* Different objects and different directions have different fields.
LEMMA Addresses ==
  /\ \A o, p \in Objects : /\ F(o) = F(p) <=> o = p
                           /\ L(o) = L(p) <=> o = p
                           /\ F(o) # L(p)
                           /\ F(o) \in Fields /\ L(o) \in Fields /\ F(o) \in Values
  /\ \A o, h, f : <<h, f, "beyond">> # F(o) /\ <<h, f, "beyond">> # L(o)
BY DEF F, L, Fields, Objects, Values

\* What INSERT_AFTER writes.
LEMMA AfterFields ==
  ASSUME NEW m \in [Fields -> Values], NEW h \in Heads, NEW l \in Objects,
         NEW e \in Elements, l # e, m[F(l)] \in Objects \cup {Null}, m[F(l)] # e
  PROVE  /\ After(m, h, l, e) \in [Fields -> Values]
         /\ \A o \in Objects : After(m, h, l, e)[F(o)] =
              IF o = l THEN e ELSE IF o = e THEN m[F(l)] ELSE m[F(o)]
         /\ \A o \in Objects : After(m, h, l, e)[L(o)] =
              IF Doubly /\ o = e THEN F(l)
              ELSE IF Doubly /\ o = m[F(l)] THEN F(e)
              ELSE IF Tailed /\ m[F(l)] = Null /\ o = h THEN F(e)
              ELSE m[L(o)]
<1>1. e \in Objects /\ h \in Objects /\ e # h /\ Null \notin Objects
  BY ObjectsAssumption DEF Objects
<1>2. {Null, e} \cup Objects \subseteq Values BY <1>1 DEF Values
<1> QED BY <1>1, <1>2, Addresses DEF After

----------------------------------------------------------------------------
(* Lists                                                                   *)

Chain(m, h, s) == Forward(m, h, s) /\ Backward(m, h, s) /\ LastExact(m, h, s)

\* The nodes of a list are distinct objects.
LEMMA Nodes ==
  ASSUME kind \in Kinds, NEW s \in Seq(Elements), IsInjective(s), NEW h \in Heads
  PROVE  /\ \A i \in 0..Len(s) : Node(h, s, i) \in Objects
         /\ \A i, j \in 0..Len(s) : Node(h, s, i) = Node(h, s, j) => i = j
         /\ \A i \in 1..Len(s) : Node(h, s, i) = s[i] /\ s[i] \in Elements
         /\ Node(h, s, 0) = h
         /\ Node(h, s, Len(s) + 1) = End(h)
         /\ End(h) = IF kind = "circleq" THEN h ELSE Null
         /\ Null \notin Objects /\ h \in Objects /\ h \notin Elements
<1>1. \A i \in 1..Len(s) : s[i] \in Elements OBVIOUS
<1>2. DOMAIN s = 1..Len(s) /\ Len(s) \in Nat OBVIOUS
<1> QED BY <1>1, <1>2, ObjectsAssumption DEF Node, End, Objects, IsInjective

\* The nodes of a list with one more element.
LEMMA NodesInserted ==
  ASSUME NEW s \in Seq(Elements), NEW h, NEW i \in 1..Len(s) + 1, NEW e \in Elements
  PROVE  /\ InsertAt(s, i, e) \in Seq(Elements)
         /\ Len(InsertAt(s, i, e)) = Len(s) + 1
         /\ \A j \in 0..Len(s) + 2 : Node(h, InsertAt(s, i, e), j) =
              IF j < i THEN Node(h, s, j) ELSE IF j = i THEN e ELSE Node(h, s, j - 1)
         /\ \A j \in 1..Len(s) + 1 : InsertAt(s, i, e)[j] = Node(h, InsertAt(s, i, e), j)
<1> DEFINE t == InsertAt(s, i, e)
<1>1. /\ t \in Seq(Elements) /\ Len(t) = Len(s) + 1
      /\ \A j \in 1..Len(s) + 1 :
           t[j] = IF j < i THEN s[j] ELSE IF j = i THEN e ELSE s[j - 1]
  BY Inserted, SMTT(60)
<1>2. Len(s) \in Nat OBVIOUS
<1> HIDE DEF t
<1>3. \A j \in 0..Len(s) + 2 : Node(h, t, j) =
        IF j < i THEN Node(h, s, j) ELSE IF j = i THEN e ELSE Node(h, s, j - 1)
  BY <1>1, <1>2 DEF Node
<1>4. \A j \in 1..Len(s) + 1 : t[j] = Node(h, t, j) BY <1>1, <1>2 DEF Node
<1> QED BY <1>1, <1>3, <1>4 DEF t

\* The nodes of a list with one element less.
LEMMA NodesCut ==
  ASSUME NEW s \in Seq(Elements), NEW h, NEW i \in 1..Len(s)
  PROVE  /\ RemoveAt(s, i) \in Seq(Elements)
         /\ Len(RemoveAt(s, i)) = Len(s) - 1
         /\ \A j \in 0..Len(s) :
              Node(h, RemoveAt(s, i), j) = IF j < i THEN Node(h, s, j) ELSE Node(h, s, j + 1)
         /\ \A j \in 1..Len(s) - 1 : RemoveAt(s, i)[j] = Node(h, RemoveAt(s, i), j)
<1> DEFINE t == RemoveAt(s, i)
<1>1. /\ t \in Seq(Elements) /\ Len(t) = Len(s) - 1
      /\ \A j \in 1..Len(s) - 1 : t[j] = IF j < i THEN s[j] ELSE s[j + 1]
  BY Cut
<1>2. Len(s) \in Nat OBVIOUS
<1> HIDE DEF t
<1>3. \A j \in 0..Len(s) : Node(h, t, j) = IF j < i THEN Node(h, s, j) ELSE Node(h, s, j + 1)
  BY <1>1, <1>2 DEF Node
<1>4. \A j \in 1..Len(s) - 1 : t[j] = Node(h, t, j) BY <1>1, <1>2 DEF Node
<1> QED BY <1>1, <1>3, <1>4 DEF t

\* Insertion of e after node i, in the linear kinds.
LEMMA AfterChain ==
  ASSUME kind \in Kinds, kind # "circleq", NEW m \in [Fields -> Values], NEW h \in Heads,
         NEW s \in Seq(Elements), IsInjective(s), Chain(m, h, s),
         NEW i \in 1..Len(s) + 1, NEW e \in Elements, e \notin ToSet(s)
  PROVE  LET r == After(m, h, Node(h, s, i - 1), e)
         IN  /\ r \in [Fields -> Values]
             /\ Chain(r, h, InsertAt(s, i, e))
             /\ \A o \in Objects \ ({h, e} \cup ToSet(s)) : r[F(o)] = m[F(o)] /\ r[L(o)] = m[L(o)]
<1> DEFINE l == Node(h, s, i - 1)
           t == InsertAt(s, i, e)
           r == After(m, h, l, e)
<1>1. /\ \A j \in 0..Len(s) : Node(h, s, j) \in Objects
      /\ \A j, k \in 0..Len(s) : Node(h, s, j) = Node(h, s, k) => j = k
      /\ \A j \in 1..Len(s) : Node(h, s, j) = s[j] /\ s[j] \in Elements
      /\ Node(h, s, 0) = h
      /\ Node(h, s, Len(s) + 1) = Null
      /\ Null \notin Objects /\ h \in Objects /\ e \in Objects /\ h # e
  BY Nodes DEF Objects
<1>2. \A j \in 0..Len(s) : Node(h, s, j) \in {h} \cup ToSet(s) /\ Node(h, s, j) # e
  BY <1>1 DEF ToSet
<1>3. m[F(l)] = Node(h, s, i) BY DEF Chain, Forward
<1>4. m[F(l)] \in Objects \cup {Null} /\ m[F(l)] # e /\ l \in Objects /\ l # e
      /\ (m[F(l)] = Null <=> i = Len(s) + 1)
  BY <1>1, <1>2, <1>3, ObjectsAssumption
<1>5. /\ r \in [Fields -> Values]
      /\ \A o \in Objects : r[F(o)] = IF o = l THEN e ELSE IF o = e THEN m[F(l)] ELSE m[F(o)]
      /\ \A o \in Objects : r[L(o)] =
           IF Doubly /\ o = e THEN F(l)
           ELSE IF Doubly /\ o = m[F(l)] THEN F(e)
           ELSE IF Tailed /\ m[F(l)] = Null /\ o = h THEN F(e)
           ELSE m[L(o)]
  BY <1>4, AfterFields
<1>6. /\ Len(t) = Len(s) + 1
      /\ \A j \in 0..Len(s) + 2 : Node(h, t, j) =
           IF j < i THEN Node(h, s, j) ELSE IF j = i THEN e ELSE Node(h, s, j - 1)
      /\ \A j \in 1..Len(s) + 1 : t[j] = Node(h, t, j)
  BY NodesInserted
<1> HIDE DEF l, t, r
<1>7. Forward(r, h, t)
  <2> SUFFICES ASSUME NEW j \in 0..Len(s) + 1 PROVE r[F(Node(h, t, j))] = Node(h, t, j + 1)
    BY <1>6 DEF Forward
  <2>1. \A k \in 0..Len(s) : m[F(Node(h, s, k))] = Node(h, s, k + 1) BY DEF Chain, Forward
  <2>2. CASE j < i - 1
    <3>1. Node(h, t, j) = Node(h, s, j) /\ Node(h, t, j + 1) = Node(h, s, j + 1) BY <1>6, <2>2
    <3>2. Node(h, s, j) # l BY <1>1, <2>2 DEF l
    <3> QED BY <3>1, <3>2, <1>1, <1>2, <1>5, <2>1, <2>2
  <2>3. CASE j = i - 1
    <3>1. Node(h, t, j) = l /\ Node(h, t, j + 1) = e BY <1>6, <2>3 DEF l
    <3> QED BY <3>1, <1>4, <1>5
  <2>4. CASE j = i
    <3>1. Node(h, t, j) = e /\ Node(h, t, j + 1) = Node(h, s, i) BY <1>6, <2>4
    <3> QED BY <3>1, <1>1, <1>3, <1>4, <1>5
  <2>5. CASE j > i
    <3>1. Node(h, t, j) = Node(h, s, j - 1) /\ Node(h, t, j + 1) = Node(h, s, j) BY <1>6, <2>5
    <3>2. Node(h, s, j - 1) # l BY <1>1, <2>5 DEF l
    <3>3. m[F(Node(h, s, j - 1))] = Node(h, s, j) BY <2>1, <2>5
    <3> QED BY <3>1, <3>2, <3>3, <1>1, <1>2, <1>5, <2>5
  <2> QED BY <2>2, <2>3, <2>4, <2>5
<1>8. Backward(r, h, t)
  <2> SUFFICES ASSUME Doubly, NEW j \in 1..Len(s) + 1 PROVE r[L(t[j])] = F(Node(h, t, j - 1))
    BY <1>6 DEF Backward
  <2>1. \A k \in 1..Len(s) : m[L(s[k])] = F(Node(h, s, k - 1)) BY DEF Chain, Backward
  <2>2. CASE j < i
    <3>1. t[j] = s[j] /\ Node(h, t, j - 1) = Node(h, s, j - 1) /\ Node(h, s, j) = s[j]
      BY <1>6, <2>2, <1>1
    <3>2. s[j] # m[F(l)] BY <1>1, <1>3, <1>4, <2>2, <3>1
    <3>3. s[j] # e /\ s[j] \in Objects /\ s[j] # h BY <1>1, <1>2, <3>1, <2>2
    <3> QED BY <3>1, <3>2, <3>3, <1>5, <2>1, <2>2
  <2>3. CASE j = i
    <3>1. t[j] = e /\ Node(h, t, j - 1) = l BY <1>6, <2>3 DEF l
    <3> QED BY <3>1, <1>1, <1>5
  <2>4. CASE j > i
    <3>1. t[j] = s[j - 1] /\ Node(h, s, j - 1) = s[j - 1]
          /\ Node(h, t, j - 1) = IF j = i + 1 THEN e ELSE Node(h, s, j - 2)
      BY <1>6, <2>4, <1>1
    <3>2. s[j - 1] = m[F(l)] <=> j = i + 1 BY <1>1, <1>3, <1>4, <2>4, <3>1
    <3>3. s[j - 1] # e /\ s[j - 1] \in Objects /\ s[j - 1] # h BY <1>1, <1>2, <3>1, <2>4
    <3>4. m[L(s[j - 1])] = F(Node(h, s, j - 2)) BY <2>1, <2>4
    <3> QED BY <3>1, <3>2, <3>3, <3>4, <1>5, <2>4
  <2> QED BY <2>2, <2>3, <2>4
<1>9. LastExact(r, h, t)
  <2> SUFFICES ASSUME Tailed PROVE r[L(h)] = F(Node(h, t, Len(s) + 1)) BY <1>6 DEF LastExact
  <2>1. m[L(h)] = F(Node(h, s, Len(s))) BY DEF Chain, LastExact
  <2>2. h # m[F(l)] BY <1>1, <1>3, <1>4
  <2>3. CASE i = Len(s) + 1 BY <2>2, <2>3, <1>1, <1>4, <1>5, <1>6
  <2>4. CASE i # Len(s) + 1 BY <2>1, <2>2, <2>4, <1>1, <1>4, <1>5, <1>6
  <2> QED BY <2>3, <2>4
<1>10. ASSUME NEW o \in Objects \ ({h, e} \cup ToSet(s))
       PROVE  r[F(o)] = m[F(o)] /\ r[L(o)] = m[L(o)]
  <2>1. o # l BY <1>2 DEF l
  <2>2. o # m[F(l)] BY <1>1, <1>2, <1>3
  <2> QED BY <2>1, <2>2, <1>5
<1> QED BY <1>5, <1>7, <1>8, <1>9, <1>10 DEF Chain, l, t, r

\* INSERT_TAIL writes through the last pointer what INSERT_AFTER writes through
\* the last node.
LEMMA AtTailIsAfter ==
  ASSUME Tailed, NEW m \in [Fields -> Values], NEW h \in Heads, NEW s \in Seq(Elements),
         IsInjective(s), Chain(m, h, s), NEW e \in Elements, e \notin ToSet(s)
  PROVE  AtTail(m, h, e) = After(m, h, Node(h, s, Len(s)), e)
<1> DEFINE l == Node(h, s, Len(s))
<1>1. kind \in Kinds /\ kind # "circleq" BY DEF Tailed, Kinds
<1>2. m[L(h)] = F(l) BY DEF Chain, LastExact
<1>3. m[F(l)] = Null BY <1>1, Nodes DEF Chain, Forward
<1>4. l \in Objects /\ h \in Objects /\ e \in Objects /\ e # h /\ Null \notin Objects
  BY <1>1, Nodes, ObjectsAssumption DEF Objects
<1>5. l # e BY <1>1, Nodes DEF ToSet, Node
<1> HIDE DEF l
<1>6. AtTail(m, h, e) = After(m, h, l, e)
  <2>1. F(l) # F(e) /\ L(e) # L(h) /\ F(l) # L(h) /\ F(e) # L(h) /\ F(l) # L(e) /\ F(e) # L(e)
        /\ {F(l), F(e), L(h), L(e)} \subseteq Fields
    BY <1>4, <1>5, Addresses
  <2>2. \A x \in Fields : AtTail(m, h, e)[x] = After(m, h, l, e)[x]
    BY <1>2, <1>3, <2>1 DEF AtTail, After
  <2>3. /\ AtTail(m, h, e) = [x \in Fields |-> AtTail(m, h, e)[x]]
        /\ After(m, h, l, e) = [x \in Fields |-> After(m, h, l, e)[x]]
    BY DEF AtTail, After
  <2> QED BY <2>2, <2>3
<1> QED BY <1>6 DEF l

\* INSERT_BEFORE writes through the back pointer of an element what
\* INSERT_AFTER writes through the node before.
LEMMA BeforeIsAfter ==
  ASSUME Doubly, NEW m \in [Fields -> Values], NEW h \in Heads, NEW s \in Seq(Elements),
         IsInjective(s), Chain(m, h, s), NEW i \in 1..Len(s), NEW e \in Elements, e \notin ToSet(s)
  PROVE  Before(m, s[i], e) = After(m, h, Node(h, s, i - 1), e)
<1> DEFINE l == Node(h, s, i - 1)
<1>1. kind \in Kinds /\ kind # "circleq" BY DEF Doubly, Kinds
<1>2. m[L(s[i])] = F(l) BY DEF Chain, Backward
<1>3. m[F(l)] = s[i] BY <1>1, Nodes DEF Chain, Forward
<1>4. l \in Objects /\ s[i] \in Objects /\ e \in Objects /\ Null \notin Objects
  BY <1>1, Nodes, ObjectsAssumption DEF Objects
<1>5. l # e /\ s[i] # e BY <1>1, Nodes DEF ToSet, Node
<1>6. l # s[i]
  <2>1. Node(h, s, i) = s[i] /\ i - 1 \in 0..Len(s) /\ i \in 0..Len(s) BY <1>1, Nodes
  <2> QED BY <1>1, <2>1, Nodes
<1> HIDE DEF l
<1>7. Before(m, s[i], e) = After(m, h, l, e)
  <2>1. F(l) # F(e) /\ L(e) # L(s[i]) /\ F(l) # L(s[i]) /\ F(e) # L(s[i]) /\ F(l) # L(e)
        /\ F(e) # L(e) /\ {F(l), F(e), L(s[i]), L(e)} \subseteq Fields /\ s[i] # Null
    BY <1>4, <1>5, Addresses
  <2>2. \A x \in Fields : Before(m, s[i], e)[x] = After(m, h, l, e)[x]
    BY <1>2, <1>3, <2>1 DEF Before, After
  <2>3. /\ Before(m, s[i], e) = [x \in Fields |-> Before(m, s[i], e)[x]]
        /\ After(m, h, l, e) = [x \in Fields |-> After(m, h, l, e)[x]]
    BY DEF Before, After
  <2> QED BY <2>2, <2>3
<1> QED BY <1>7 DEF l

\* Removal of a linear kind, the node p being before e and n what is behind it.
LEMMA UnchainFields ==
  ASSUME NEW m \in [Fields -> Values], NEW h \in Heads, NEW p \in Objects, NEW e \in Objects,
         NEW n \in Objects \cup {Null}, m[F(e)] = n, ~Doubly
  PROVE  /\ Unchain(m, h, p, e) \in [Fields -> Values]
         /\ \A o \in Objects : Unchain(m, h, p, e)[F(o)] = IF o = p THEN n ELSE m[F(o)]
         /\ \A o \in Objects : Unchain(m, h, p, e)[L(o)] =
              IF Tailed /\ n = Null /\ o = h THEN F(p) ELSE m[L(o)]
<1>1. h \in Objects /\ Null \notin Objects BY ObjectsAssumption DEF Objects
<1>2. {Null} \cup Objects \subseteq Values BY DEF Values
<1> QED BY <1>1, <1>2, Addresses DEF Unchain

\* The same for the doubly linked kinds.
LEMMA UnlinkFields ==
  ASSUME NEW m \in [Fields -> Values], NEW h \in Heads, NEW p \in Objects, NEW e \in Objects,
         NEW n \in Objects \cup {Null}, m[F(e)] = n, Doubly, m[L(e)] = F(p), n # e
  PROVE  /\ Unlink(m, h, e) \in [Fields -> Values]
         /\ \A o \in Objects : Unlink(m, h, e)[F(o)] = IF o = p THEN n ELSE m[F(o)]
         /\ \A o \in Objects \ {e} : Unlink(m, h, e)[L(o)] =
              IF o = n THEN F(p)
              ELSE IF Tailed /\ n = Null /\ o = h THEN F(p) ELSE m[L(o)]
<1>1. h \in Objects /\ Null \notin Objects BY ObjectsAssumption DEF Objects
<1>2. {Null} \cup Objects \subseteq Values BY DEF Values
<1> QED BY <1>1, <1>2, Addresses DEF Unlink

\* SLIST_REMOVE's loop stops at the node before the element.
LEMMA PointingFinds ==
  ASSUME kind \in Kinds, NEW m, NEW h \in Heads, NEW s \in Seq(Elements),
         lists[h] = s, IsInjective(s), Forward(m, h, s), NEW i \in 1..Len(s)
  PROVE  Pointing(m, h, s[i]) = Node(h, s, i - 1)
<1>1. /\ \A j, k \in 0..Len(s) : Node(h, s, j) = Node(h, s, k) => j = k
      /\ \A j \in 1..Len(s) : Node(h, s, j) = s[j] /\ s[j] \in Elements
      /\ Node(h, s, 0) = h /\ h \notin Elements
      /\ Node(h, s, Len(s) + 1) \in {h, Null} /\ Null \notin Elements
  BY Nodes, ObjectsAssumption
<1>2. m[F(Node(h, s, i - 1))] = s[i] BY <1>1 DEF Forward
<1>3. Node(h, s, i - 1) \in {h} \cup ToSet(s) BY <1>1 DEF ToSet
<1>4. ASSUME NEW p \in {h} \cup ToSet(s), m[F(p)] = s[i] PROVE p = Node(h, s, i - 1)
  <2>1. PICK j \in 0..Len(s) : p = Node(h, s, j) BY <1>1 DEF ToSet
  <2>2. m[F(p)] = Node(h, s, j + 1) BY <2>1 DEF Forward
  <2>3. Node(h, s, j + 1) = Node(h, s, i) /\ s[i] = Node(h, s, i) /\ s[i] \in Elements
    BY <1>1, <1>4, <2>2
  <2>4. j + 1 = i
    <3>1. j + 1 # Len(s) + 1 BY <1>1, <2>3
    <3>2. j + 1 \in 0..Len(s) /\ i \in 0..Len(s) BY <3>1
    <3> QED BY <1>1, <2>3, <3>2
  <2> QED BY <2>1, <2>4
<1> QED BY <1>2, <1>3, <1>4 DEF Pointing

\* Removal of the element i, in the linear kinds.
LEMMA CutChain ==
  ASSUME kind \in Kinds, kind # "circleq", NEW m \in [Fields -> Values], NEW h \in Heads,
         NEW s \in Seq(Elements), lists[h] = s, IsInjective(s), Chain(m, h, s),
         NEW i \in 1..Len(s)
  PROVE  LET r == Removed(m, h, s[i])
         IN  /\ r \in [Fields -> Values]
             /\ Chain(r, h, RemoveAt(s, i))
             /\ \A o \in Objects \ ({h} \cup ToSet(s)) : r[F(o)] = m[F(o)] /\ r[L(o)] = m[L(o)]
<1> DEFINE t == RemoveAt(s, i)
           r == Removed(m, h, s[i])
           p == Node(h, s, i - 1)
           n == Node(h, s, i + 1)
<1>1. /\ \A j \in 0..Len(s) : Node(h, s, j) \in Objects
      /\ \A j, k \in 0..Len(s) : Node(h, s, j) = Node(h, s, k) => j = k
      /\ \A j \in 1..Len(s) : Node(h, s, j) = s[j] /\ s[j] \in Elements
      /\ Node(h, s, 0) = h
      /\ Node(h, s, Len(s) + 1) = Null
      /\ Null \notin Objects /\ h \in Objects
  BY Nodes
<1>2. \A j \in 0..Len(s) : Node(h, s, j) \in {h} \cup ToSet(s) BY <1>1 DEF ToSet
<1>3. m[F(p)] = s[i] /\ m[F(s[i])] = n /\ (Doubly => m[L(s[i])] = F(p))
  BY <1>1 DEF Chain, Forward, Backward
<1>4. /\ p \in Objects /\ s[i] \in Objects /\ n \in Objects \cup {Null} /\ n # s[i]
      /\ (n = Null <=> i = Len(s))
  BY <1>1
<1>5. /\ r \in [Fields -> Values]
      /\ \A o \in Objects : r[F(o)] = IF o = p THEN n ELSE m[F(o)]
      /\ \A o \in Objects \ {s[i]} : r[L(o)] =
           IF Doubly /\ o = n THEN F(p)
           ELSE IF Tailed /\ n = Null /\ o = h THEN F(p) ELSE m[L(o)]
  <2>1. CASE Doubly
    <3>1. r = Unlink(m, h, s[i]) BY <2>1 DEF Removed, Doubly
    <3> HIDE DEF p, n, r
    <3> QED BY <2>1, <3>1, <1>3, <1>4, UnlinkFields
  <2>2. CASE ~Doubly
    <3>1. r = Unchain(m, h, p, s[i]) BY <2>2, PointingFinds DEF Removed, Chain
    <3> HIDE DEF p, n, r
    <3> QED BY <2>2, <3>1, <1>3, <1>4, UnchainFields
  <2> QED BY <2>1, <2>2
<1>6. /\ Len(t) = Len(s) - 1
      /\ \A j \in 0..Len(s) : Node(h, t, j) = IF j < i THEN Node(h, s, j) ELSE Node(h, s, j + 1)
      /\ \A j \in 1..Len(s) - 1 : t[j] = Node(h, t, j)
  BY NodesCut, SMTT(60)
<1> HIDE DEF t, r, p, n
<1>7. Forward(r, h, t)
  <2> SUFFICES ASSUME NEW j \in 0..Len(s) - 1 PROVE r[F(Node(h, t, j))] = Node(h, t, j + 1)
    BY <1>6 DEF Forward
  <2>1. \A k \in 0..Len(s) : m[F(Node(h, s, k))] = Node(h, s, k + 1) BY DEF Chain, Forward
  <2>2. CASE j < i - 1
    <3>1. Node(h, t, j) = Node(h, s, j) /\ Node(h, t, j + 1) = Node(h, s, j + 1) BY <1>6, <2>2
    <3>2. Node(h, s, j) # p BY <1>1, <2>2 DEF p
    <3> QED BY <3>1, <3>2, <1>1, <1>5, <2>1, <2>2
  <2>3. CASE j = i - 1
    <3>1. Node(h, t, j) = p /\ Node(h, t, j + 1) = n BY <1>6, <2>3 DEF p, n
    <3> QED BY <3>1, <1>4, <1>5
  <2>4. CASE j > i - 1
    <3>1. Node(h, t, j) = Node(h, s, j + 1) /\ Node(h, t, j + 1) = Node(h, s, j + 2) BY <1>6, <2>4
    <3>2. Node(h, s, j + 1) # p BY <1>1, <2>4 DEF p
    <3>3. m[F(Node(h, s, j + 1))] = Node(h, s, j + 2) BY <2>1, <2>4
    <3> QED BY <3>1, <3>2, <3>3, <1>1, <1>5, <2>4
  <2> QED BY <2>2, <2>3, <2>4
<1>8. Backward(r, h, t)
  <2> SUFFICES ASSUME Doubly, NEW j \in 1..Len(s) - 1 PROVE r[L(t[j])] = F(Node(h, t, j - 1))
    BY <1>6 DEF Backward
  <2>1. \A k \in 1..Len(s) : m[L(s[k])] = F(Node(h, s, k - 1)) BY DEF Chain, Backward
  <2>2. CASE j < i
    <3>1. t[j] = s[j] /\ Node(h, t, j - 1) = Node(h, s, j - 1) /\ Node(h, s, j) = s[j]
      BY <1>6, <2>2, <1>1
    <3>2. s[j] # n BY <1>1, <1>4, <2>2, <3>1 DEF n
    <3>3. s[j] \in Objects /\ s[j] # h /\ s[j] # s[i] BY <1>1, <3>1, <2>2
    <3> QED BY <3>1, <3>2, <3>3, <1>5, <2>1, <2>2
  <2>3. CASE j = i
    <3>1. t[j] = n /\ Node(h, t, j - 1) = p /\ n \in Objects /\ n # s[i]
      BY <1>1, <1>4, <1>6, <2>3 DEF p, n
    <3> QED BY <3>1, <1>5
  <2>4. CASE j > i
    <3>1. t[j] = s[j + 1] /\ Node(h, s, j + 1) = s[j + 1] /\ Node(h, t, j - 1) = Node(h, s, j)
      BY <1>6, <2>4, <1>1
    <3>2. s[j + 1] # n BY <1>1, <1>4, <2>4, <3>1 DEF n
    <3>3. s[j + 1] \in Objects /\ s[j + 1] # h /\ s[j + 1] # s[i] BY <1>1, <3>1, <2>4
    <3>4. m[L(s[j + 1])] = F(Node(h, s, j)) BY <2>1, <2>4
    <3> QED BY <3>1, <3>2, <3>3, <3>4, <1>5, <2>4
  <2> QED BY <2>2, <2>3, <2>4
<1>9. LastExact(r, h, t)
  <2> SUFFICES ASSUME Tailed PROVE r[L(h)] = F(Node(h, t, Len(s) - 1)) BY <1>6 DEF LastExact
  <2>1. m[L(h)] = F(Node(h, s, Len(s))) BY DEF Chain, LastExact
  <2>2. h # n /\ h # s[i] BY <1>1, <1>4 DEF n
  <2>3. CASE i = Len(s) BY <2>2, <2>3, <1>1, <1>4, <1>5, <1>6 DEF p
  <2>4. CASE i # Len(s)
    <3>1. Node(h, t, Len(s) - 1) = Node(h, s, Len(s)) BY <2>4, <1>6
    <3> QED BY <2>1, <2>2, <2>4, <3>1, <1>1, <1>4, <1>5
  <2> QED BY <2>3, <2>4
<1>10. ASSUME NEW o \in Objects \ ({h} \cup ToSet(s))
       PROVE  r[F(o)] = m[F(o)] /\ r[L(o)] = m[L(o)]
  <2>1. o # p /\ o # n /\ o # s[i] /\ o # h BY <1>1, <1>2 DEF p, n
  <2> QED BY <2>1, <1>5
<1> QED BY <1>5, <1>7, <1>8, <1>9, <1>10 DEF Chain, t, r
----------------------------------------------------------------------------
(* Circular queues                                                         *)

\* What inserting e between p and n writes, whichever macro does it.
Between(m, r, p, e, n) ==
  /\ r \in [Fields -> Values]
  /\ \A o \in Objects : r[F(o)] = IF o = e THEN n ELSE IF o = p THEN e ELSE m[F(o)]
  /\ \A o \in Objects : r[L(o)] = IF o = e THEN p ELSE IF o = n THEN e ELSE m[L(o)]

\* The four insertions of a circle write the fields of e and of the two nodes
\* it comes between.
LEMMA CircleFields ==
  ASSUME NEW m \in [Fields -> Values], NEW h \in Heads, NEW p \in Objects, NEW e \in Elements,
         NEW n \in Objects, m[F(p)] = n, m[L(n)] = p, e # p, e # n
  PROVE  /\ p = h /\ (m[L(h)] = h <=> n = h) => Between(m, CircleEnd(m, h, e, "next"), p, e, n)
         /\ n = h /\ (m[F(h)] = h <=> p = h) => Between(m, CircleEnd(m, h, e, "prev"), p, e, n)
         /\ (m[L(h)] = p <=> n = h) /\ (n \in Heads => n = h)
              => Between(m, CircleBeside(m, h, p, e, "next"), p, e, n)
         /\ (m[F(h)] = n <=> p = h) /\ (p \in Heads => p = h)
              => Between(m, CircleBeside(m, h, n, e, "prev"), p, e, n)
<1>1. e \in Objects /\ h \in Objects /\ e # h
  BY ObjectsAssumption DEF Objects
<1>2. Objects \subseteq Values BY DEF Values
<1>3. \A o : <<o, "next">> = F(o) /\ <<o, "prev">> = L(o) BY DEF F, L
<1>4. Other("next") = "prev" /\ Other("prev") = "next" BY DEF Other
<1>5. ASSUME p = h, m[L(h)] = h <=> n = h PROVE Between(m, CircleEnd(m, h, e, "next"), p, e, n)
  <2>1. CASE n = h
    BY <1>1, <1>2, <1>3, <1>4, <1>5, <2>1, Addresses DEF CircleEnd, Between
  <2>2. CASE n # h
    BY <1>1, <1>2, <1>3, <1>4, <1>5, <2>2, Addresses DEF CircleEnd, Between
  <2> QED BY <2>1, <2>2
<1>6. ASSUME n = h, m[F(h)] = h <=> p = h PROVE Between(m, CircleEnd(m, h, e, "prev"), p, e, n)
  <2>1. CASE p = h
    BY <1>1, <1>2, <1>3, <1>4, <1>6, <2>1, Addresses DEF CircleEnd, Between
  <2>2. CASE p # h
    BY <1>1, <1>2, <1>3, <1>4, <1>6, <2>2, Addresses, SMTT(60) DEF CircleEnd, Between
  <2> QED BY <2>1, <2>2
<1>7. ASSUME m[L(h)] = p <=> n = h, n \in Heads => n = h
      PROVE  Between(m, CircleBeside(m, h, p, e, "next"), p, e, n)
  <2>1. CASE n # h
    <3>1. At(n, "prev") = L(n) BY <1>3, <1>7, <2>1 DEF At
    <3> QED BY <1>1, <1>2, <1>3, <1>4, <1>7, <2>1, <3>1, Addresses DEF CircleBeside, Between
  <2>2. CASE n = h /\ overlay
    <3>1. At(n, "prev") = L(n) BY <1>3, <2>2 DEF At
    <3> QED BY <1>1, <1>2, <1>3, <1>4, <1>7, <2>2, <3>1, Addresses DEF CircleBeside, Between
  <2>3. CASE n = h /\ ~overlay
    <3>1. At(n, "prev") = <<h, "prev", "beyond">> BY <2>3 DEF At
    <3> QED BY <1>1, <1>2, <1>3, <1>4, <1>7, <2>3, <3>1, Addresses DEF CircleBeside, Between
  <2> QED BY <2>1, <2>2, <2>3
<1>8. ASSUME m[F(h)] = n <=> p = h, p \in Heads => p = h
      PROVE  Between(m, CircleBeside(m, h, n, e, "prev"), p, e, n)
  <2>1. CASE p # h
    <3>1. At(p, "next") = F(p) BY <1>3, <1>8, <2>1 DEF At
    <3> QED BY <1>1, <1>2, <1>3, <1>4, <1>8, <2>1, <3>1, Addresses DEF CircleBeside, Between
  <2>2. CASE p = h /\ overlay
    <3>1. At(p, "next") = F(p) BY <1>3, <2>2 DEF At
    <3> QED BY <1>1, <1>2, <1>3, <1>4, <1>8, <2>2, <3>1, Addresses DEF CircleBeside, Between
  <2>3. CASE p = h /\ ~overlay
    <3>1. At(p, "next") = <<h, "next", "beyond">> BY <2>3 DEF At
    <3> QED BY <1>1, <1>2, <1>3, <1>4, <1>8, <2>3, <3>1, Addresses DEF CircleBeside, Between
  <2> QED BY <2>1, <2>2, <2>3
<1> QED BY <1>5, <1>6, <1>7, <1>8

\* The nodes of a circle: after the last one comes the head again.
LEMMA CircleNodes ==
  ASSUME kind = "circleq", NEW s \in Seq(Elements), IsInjective(s), NEW h \in Heads
  PROVE  /\ \A i \in 0..Len(s) + 1 : Node(h, s, i) \in {h} \cup ToSet(s)
                                     /\ Node(h, s, i) \in Objects
         /\ \A i \in 0..Len(s) + 1 : Node(h, s, i) = h <=> i \in {0, Len(s) + 1}
         /\ \A i \in 0..Len(s) + 1 : Node(h, s, i) \in Heads => Node(h, s, i) = h
         /\ \A i, j \in 1..Len(s) + 1 : Node(h, s, i) = Node(h, s, j) => i = j
         /\ \A i, j \in 0..Len(s) : Node(h, s, i) = Node(h, s, j) => i = j
         /\ \A i \in 1..Len(s) : Node(h, s, i) = s[i]
<1>1. kind \in Kinds BY DEF Kinds
<1>2. /\ \A i \in 0..Len(s) : Node(h, s, i) \in Objects
      /\ \A i, j \in 0..Len(s) : Node(h, s, i) = Node(h, s, j) => i = j
      /\ \A i \in 1..Len(s) : Node(h, s, i) = s[i] /\ s[i] \in Elements
      /\ Node(h, s, 0) = h
      /\ Node(h, s, Len(s) + 1) = h
      /\ h \in Objects /\ h \notin Elements
  BY <1>1, Nodes
<1>3. Len(s) \in Nat /\ Heads \cap Elements = {} BY ObjectsAssumption
<1>4. \A i \in 0..Len(s) + 1 : i = 0 \/ i = Len(s) + 1 \/ i \in 1..Len(s) BY <1>3
<1>5. \A i \in 1..Len(s) : Node(h, s, i) \in ToSet(s) BY <1>2 DEF ToSet
<1> QED BY <1>2, <1>3, <1>4, <1>5

\* Insertion of e before node i of a circle, by any of the four macros.
LEMMA BetweenChain ==
  ASSUME kind = "circleq", NEW m \in [Fields -> Values], NEW h \in Heads,
         NEW s \in Seq(Elements), IsInjective(s), Chain(m, h, s),
         NEW i \in 1..Len(s) + 1, NEW e \in Elements, e \notin ToSet(s),
         NEW r, Between(m, r, Node(h, s, i - 1), e, Node(h, s, i))
  PROVE  /\ r \in [Fields -> Values]
         /\ Chain(r, h, InsertAt(s, i, e))
         /\ \A o \in Objects \ ({h, e} \cup ToSet(s)) : r[F(o)] = m[F(o)] /\ r[L(o)] = m[L(o)]
<1> DEFINE t == InsertAt(s, i, e)
           p == Node(h, s, i - 1)
           n == Node(h, s, i)
<1>1. /\ \A j \in 0..Len(s) + 1 : Node(h, s, j) \in {h} \cup ToSet(s) /\ Node(h, s, j) \in Objects
      /\ \A j, k \in 1..Len(s) + 1 : Node(h, s, j) = Node(h, s, k) => j = k
      /\ \A j, k \in 0..Len(s) : Node(h, s, j) = Node(h, s, k) => j = k
  BY CircleNodes
<1>2. e \in Objects /\ e # h BY ObjectsAssumption DEF Objects
<1>3. \A j \in 0..Len(s) + 1 : Node(h, s, j) # e BY <1>1, <1>2
<1>4. /\ Len(t) = Len(s) + 1
      /\ \A j \in 0..Len(s) + 2 : Node(h, t, j) =
           IF j < i THEN Node(h, s, j) ELSE IF j = i THEN e ELSE Node(h, s, j - 1)
      /\ \A j \in 1..Len(s) + 1 : t[j] = Node(h, t, j)
  BY NodesInserted
<1>5. /\ \A j \in 0..Len(s) : m[F(Node(h, s, j))] = Node(h, s, j + 1)
      /\ \A j \in 1..Len(s) + 1 : m[L(Node(h, s, j))] = Node(h, s, j - 1)
  BY DEF Chain, Forward, Backward
<1>6. /\ r \in [Fields -> Values]
      /\ \A o \in Objects : r[F(o)] = IF o = e THEN n ELSE IF o = p THEN e ELSE m[F(o)]
      /\ \A o \in Objects : r[L(o)] = IF o = e THEN p ELSE IF o = n THEN e ELSE m[L(o)]
  BY DEF Between
<1> HIDE DEF t, p, n
<1>7. Forward(r, h, t)
  <2> SUFFICES ASSUME NEW j \in 0..Len(s) + 1 PROVE r[F(Node(h, t, j))] = Node(h, t, j + 1)
    BY <1>4 DEF Forward
  <2>1. CASE j < i - 1
    <3>1. Node(h, t, j) = Node(h, s, j) /\ Node(h, t, j + 1) = Node(h, s, j + 1) BY <1>4, <2>1
    <3>2. Node(h, s, j) # p BY <1>1, <2>1 DEF p
    <3> QED BY <3>1, <3>2, <1>1, <1>3, <1>5, <1>6, <2>1
  <2>2. CASE j = i - 1
    <3>1. Node(h, t, j) = p /\ Node(h, t, j + 1) = e BY <1>4, <2>2 DEF p
    <3>2. p \in Objects /\ p # e BY <1>1, <1>3 DEF p
    <3> QED BY <3>1, <3>2, <1>6
  <2>3. CASE j = i
    <3>1. Node(h, t, j) = e /\ Node(h, t, j + 1) = n BY <1>4, <2>3 DEF n
    <3> QED BY <3>1, <1>2, <1>6
  <2>4. CASE j > i
    <3>1. Node(h, t, j) = Node(h, s, j - 1) /\ Node(h, t, j + 1) = Node(h, s, j)
      <4>1. j + 1 \in 0..Len(s) + 2 /\ ~(j + 1 < i) /\ j + 1 # i /\ (j + 1) - 1 = j BY <2>4
      <4>2. Node(h, t, j + 1) = Node(h, s, (j + 1) - 1) BY <4>1, <1>4
      <4>3. Node(h, t, j) = Node(h, s, j - 1) BY <2>4, <1>4
      <4> QED BY <4>1, <4>2, <4>3
    <3>2. Node(h, s, j - 1) # p BY <1>1, <2>4 DEF p
    <3>3. m[F(Node(h, s, j - 1))] = Node(h, s, j) BY <1>5, <2>4
    <3>4. Node(h, s, j - 1) \in Objects /\ Node(h, s, j - 1) # e BY <1>1, <1>3, <2>4
    <3> QED BY <3>1, <3>2, <3>3, <3>4, <1>6
  <2> QED BY <2>1, <2>2, <2>3, <2>4
<1>8. Backward(r, h, t)
  <2> SUFFICES ASSUME NEW j \in 1..Len(s) + 2 PROVE r[L(Node(h, t, j))] = Node(h, t, j - 1)
    BY <1>4 DEF Backward, Doubly
  <2>1. CASE j < i
    <3>1. Node(h, t, j) = Node(h, s, j) /\ Node(h, t, j - 1) = Node(h, s, j - 1) BY <1>4, <2>1
    <3>2. Node(h, s, j) # n BY <1>1, <2>1 DEF n
    <3>3. Node(h, s, j) \in Objects /\ Node(h, s, j) # e BY <1>1, <1>3, <2>1
    <3> QED BY <3>1, <3>2, <3>3, <1>5, <1>6, <2>1
  <2>2. CASE j = i
    <3>1. Node(h, t, j) = e /\ Node(h, t, j - 1) = p BY <1>4, <2>2 DEF p
    <3> QED BY <3>1, <1>2, <1>6
  <2>3. CASE j = i + 1
    <3>1. Node(h, t, j) = n /\ Node(h, t, j - 1) = e BY <1>4, <2>3 DEF n
    <3>2. n \in Objects /\ n # e BY <1>1, <1>3 DEF n
    <3> QED BY <3>1, <3>2, <1>6
  <2>4. CASE j > i + 1
    <3>1. Node(h, t, j) = Node(h, s, j - 1) /\ Node(h, t, j - 1) = Node(h, s, j - 2)
      <4>1. j - 1 \in 0..Len(s) + 2 /\ ~(j - 1 < i) /\ j - 1 # i /\ (j - 1) - 1 = j - 2 BY <2>4
      <4>2. Node(h, t, j - 1) = Node(h, s, (j - 1) - 1) BY <4>1, <1>4
      <4>3. Node(h, t, j) = Node(h, s, j - 1) BY <2>4, <1>4
      <4> QED BY <4>1, <4>2, <4>3
    <3>2. Node(h, s, j - 1) # n BY <1>1, <2>4 DEF n
    <3>3. m[L(Node(h, s, j - 1))] = Node(h, s, j - 2) BY <1>5, <2>4
    <3>4. Node(h, s, j - 1) \in Objects /\ Node(h, s, j - 1) # e BY <1>1, <1>3, <2>4
    <3> QED BY <3>1, <3>2, <3>3, <3>4, <1>6
  <2> QED BY <2>1, <2>2, <2>3, <2>4
<1>9. ASSUME NEW o \in Objects \ ({h, e} \cup ToSet(s))
      PROVE  r[F(o)] = m[F(o)] /\ r[L(o)] = m[L(o)]
  <2>1. o # p /\ o # n BY <1>1 DEF p, n
  <2> QED BY <2>1, <1>6
<1> QED BY <1>6, <1>7, <1>8, <1>9 DEF Chain, LastExact, Tailed, t

\* The four insertions of a circle.
LEMMA CircleChain ==
  ASSUME kind = "circleq", NEW m \in [Fields -> Values], NEW h \in Heads,
         NEW s \in Seq(Elements), IsInjective(s), Chain(m, h, s),
         NEW i \in 1..Len(s) + 1, NEW e \in Elements, e \notin ToSet(s),
         NEW r, \/ i = 1 /\ r = CircleEnd(m, h, e, "next")
                \/ i = Len(s) + 1 /\ r = CircleEnd(m, h, e, "prev")
                \/ i > 1 /\ r = CircleBeside(m, h, s[i - 1], e, "next")
                \/ i <= Len(s) /\ r = CircleBeside(m, h, s[i], e, "prev")
  PROVE  Between(m, r, Node(h, s, i - 1), e, Node(h, s, i))
<1> DEFINE p == Node(h, s, i - 1)
           n == Node(h, s, i)
<1>1. /\ \A j \in 0..Len(s) + 1 : Node(h, s, j) \in {h} \cup ToSet(s) /\ Node(h, s, j) \in Objects
      /\ \A j \in 0..Len(s) + 1 : Node(h, s, j) = h <=> j \in {0, Len(s) + 1}
      /\ \A j \in 0..Len(s) + 1 : Node(h, s, j) \in Heads => Node(h, s, j) = h
      /\ \A j, k \in 1..Len(s) + 1 : Node(h, s, j) = Node(h, s, k) => j = k
      /\ \A j, k \in 0..Len(s) : Node(h, s, j) = Node(h, s, k) => j = k
      /\ \A j \in 1..Len(s) : Node(h, s, j) = s[j]
  BY CircleNodes
<1>2. e # h BY ObjectsAssumption
<1>3. Len(s) \in Nat OBVIOUS
<1>4. /\ \A j \in 0..Len(s) : m[F(Node(h, s, j))] = Node(h, s, j + 1)
      /\ \A j \in 1..Len(s) + 1 : m[L(Node(h, s, j))] = Node(h, s, j - 1)
  BY DEF Chain, Forward, Backward
<1>5. p \in Objects /\ n \in Objects /\ e # p /\ e # n /\ m[F(p)] = n /\ m[L(n)] = p
      /\ (p \in Heads => p = h) /\ (n \in Heads => n = h)
      /\ (p = h <=> i = 1) /\ (n = h <=> i = Len(s) + 1)
  BY <1>1, <1>2, <1>3, <1>4
<1>6. h = Node(h, s, 0) /\ h = Node(h, s, Len(s) + 1) BY <1>1, <1>3
<1>7. m[L(h)] = Node(h, s, Len(s)) /\ m[F(h)] = Node(h, s, 1) BY <1>3, <1>4, <1>6
<1>8. (m[L(h)] = p <=> n = h) /\ (m[F(h)] = n <=> p = h)
  BY <1>1, <1>3, <1>5, <1>7
<1>9. /\ p = h => (m[L(h)] = h <=> n = h)
      /\ n = h => (m[F(h)] = h <=> p = h)
  BY <1>8
<1>10. (i > 1 => s[i - 1] = p) /\ (i <= Len(s) => s[i] = n) BY <1>1, <1>3
<1> HIDE DEF p, n
<1>11. CASE i = 1 /\ r = CircleEnd(m, h, e, "next") BY <1>5, <1>9, <1>11, CircleFields DEF p, n
<1>12. CASE i = Len(s) + 1 /\ r = CircleEnd(m, h, e, "prev")
  BY <1>5, <1>9, <1>12, CircleFields DEF p, n
<1>13. CASE i > 1 /\ r = CircleBeside(m, h, s[i - 1], e, "next")
  BY <1>5, <1>8, <1>10, <1>13, CircleFields DEF p, n
<1>14. CASE i <= Len(s) /\ r = CircleBeside(m, h, s[i], e, "prev")
  BY <1>5, <1>8, <1>10, <1>14, CircleFields DEF p, n
<1> QED BY <1>11, <1>12, <1>13, <1>14

\* What removing e from between p and n writes.
LEMMA CircleRemoveFields ==
  ASSUME NEW m \in [Fields -> Values], NEW h \in Heads, NEW p \in Objects, NEW e \in Elements,
         NEW n \in Objects, m[F(e)] = n, m[L(e)] = p, m[F(p)] = e, m[L(n)] = e, e # p, e # n,
         p \in Heads => p = h, n \in Heads => n = h,
         m[F(h)] = e <=> p = h, m[L(h)] = e <=> n = h
  PROVE  LET r == CircleRemove(m, h, e)
         IN  /\ r \in [Fields -> Values]
             /\ \A o \in Objects : r[F(o)] = IF o = p THEN n ELSE m[F(o)]
             /\ \A o \in Objects : r[L(o)] = IF o = n THEN p ELSE m[L(o)]
<1>1. e \in Objects /\ h \in Objects /\ e # h
  BY ObjectsAssumption DEF Objects
<1>2. Objects \subseteq Values BY DEF Values
<1>3. \A o : <<o, "next">> = F(o) /\ <<o, "prev">> = L(o) BY DEF F, L
<1>4. /\ overlay \/ p # h => At(p, "next") = F(p)
      /\ overlay \/ n # h => At(n, "prev") = L(n)
      /\ ~overlay /\ p = h => At(p, "next") = <<h, "next", "beyond">>
      /\ ~overlay /\ n = h => At(n, "prev") = <<h, "prev", "beyond">>
      /\ At(p, "next") \in Fields /\ At(n, "prev") \in Fields
  BY <1>3, Addresses DEF At, Fields, Objects
<1> DEFINE m1 == [m EXCEPT ![At(m[L(e)], "next")] = m[F(e)]]
           m2 == [m1 EXCEPT ![At(m[F(e)], "prev")] = m[L(e)]]
           m3 == IF m2[L(h)] = e THEN [m2 EXCEPT ![L(h)] = m2[L(e)]] ELSE m2
           m4 == IF m3[F(h)] = e THEN [m3 EXCEPT ![F(h)] = m3[F(e)]] ELSE m3
<1>5. CircleRemove(m, h, e) = m4
  BY DEF CircleRemove
<1>6. /\ m1 \in [Fields -> Values]
      /\ \A o \in Objects : m1[F(o)] = IF o = p /\ (overlay \/ p # h) THEN n ELSE m[F(o)]
      /\ \A o \in Objects : m1[L(o)] = m[L(o)]
  BY <1>1, <1>2, <1>4, Addresses
<1> HIDE DEF m1
<1>7. /\ m2 \in [Fields -> Values]
      /\ \A o \in Objects : m2[F(o)] = m1[F(o)]
      /\ \A o \in Objects : m2[L(o)] = IF o = n /\ (overlay \/ n # h) THEN p ELSE m[L(o)]
  BY <1>1, <1>2, <1>4, <1>6, Addresses
<1> HIDE DEF m2
<1>8. /\ m3 \in [Fields -> Values]
      /\ \A o \in Objects : m3[F(o)] = m1[F(o)]
      /\ \A o \in Objects : m3[L(o)] = IF o = n THEN p ELSE m[L(o)]
  BY <1>1, <1>2, <1>7, Addresses
<1> HIDE DEF m3
<1>9. /\ m4 \in [Fields -> Values]
      /\ \A o \in Objects : m4[F(o)] = IF o = p THEN n ELSE m[F(o)]
      /\ \A o \in Objects : m4[L(o)] = m3[L(o)]
  BY <1>1, <1>2, <1>6, <1>8, Addresses
<1> HIDE DEF m4
<1> QED BY <1>5, <1>8, <1>9

\* Removal of the element i of a circle.
LEMMA CircleCut ==
  ASSUME kind = "circleq", NEW m \in [Fields -> Values], NEW h \in Heads,
         NEW s \in Seq(Elements), IsInjective(s), Chain(m, h, s), NEW i \in 1..Len(s)
  PROVE  LET r == CircleRemove(m, h, s[i])
         IN  /\ r \in [Fields -> Values]
             /\ Chain(r, h, RemoveAt(s, i))
             /\ \A o \in Objects \ ({h} \cup ToSet(s)) : r[F(o)] = m[F(o)] /\ r[L(o)] = m[L(o)]
<1> DEFINE t == RemoveAt(s, i)
           r == CircleRemove(m, h, s[i])
           p == Node(h, s, i - 1)
           n == Node(h, s, i + 1)
<1>1. /\ \A j \in 0..Len(s) + 1 : Node(h, s, j) \in {h} \cup ToSet(s) /\ Node(h, s, j) \in Objects
      /\ \A j \in 0..Len(s) + 1 : Node(h, s, j) = h <=> j \in {0, Len(s) + 1}
      /\ \A j \in 0..Len(s) + 1 : Node(h, s, j) \in Heads => Node(h, s, j) = h
      /\ \A j, k \in 1..Len(s) + 1 : Node(h, s, j) = Node(h, s, k) => j = k
      /\ \A j, k \in 0..Len(s) : Node(h, s, j) = Node(h, s, k) => j = k
      /\ \A j \in 1..Len(s) : Node(h, s, j) = s[j]
  BY CircleNodes
<1>2. Len(s) \in Nat /\ s[i] \in Elements OBVIOUS
<1>3. /\ \A j \in 0..Len(s) : m[F(Node(h, s, j))] = Node(h, s, j + 1)
      /\ \A j \in 1..Len(s) + 1 : m[L(Node(h, s, j))] = Node(h, s, j - 1)
  BY DEF Chain, Forward, Backward
<1>4. /\ p \in Objects /\ n \in Objects
      /\ (p \in Heads => p = h) /\ (n \in Heads => n = h)
      /\ (p = h <=> i = 1) /\ (n = h <=> i = Len(s))
      /\ s[i] = Node(h, s, i) /\ s[i] # p /\ s[i] # n
  BY <1>1, <1>2
<1>5. m[F(s[i])] = n /\ m[L(s[i])] = p /\ m[F(p)] = s[i] /\ m[L(n)] = s[i]
  <2>1. m[F(Node(h, s, i - 1))] = Node(h, s, (i - 1) + 1) BY <1>2, <1>3
  <2>2. m[L(Node(h, s, i + 1))] = Node(h, s, (i + 1) - 1) BY <1>2, <1>3
  <2>3. (i - 1) + 1 = i /\ (i + 1) - 1 = i OBVIOUS
  <2> QED BY <1>2, <1>3, <1>4, <2>1, <2>2, <2>3
<1>6. h = Node(h, s, 0) /\ h = Node(h, s, Len(s) + 1) BY <1>1, <1>2
<1>7. m[L(h)] = Node(h, s, Len(s)) /\ m[F(h)] = Node(h, s, 1) BY <1>2, <1>3, <1>6
<1>8. (m[F(h)] = s[i] <=> p = h) /\ (m[L(h)] = s[i] <=> n = h)
  BY <1>1, <1>2, <1>4, <1>7
<1> HIDE DEF p, n
<1>9. /\ r \in [Fields -> Values]
      /\ \A o \in Objects : r[F(o)] = IF o = p THEN n ELSE m[F(o)]
      /\ \A o \in Objects : r[L(o)] = IF o = n THEN p ELSE m[L(o)]
  BY <1>2, <1>4, <1>5, <1>8, CircleRemoveFields
<1>10. /\ Len(t) = Len(s) - 1
       /\ \A j \in 0..Len(s) : Node(h, t, j) = IF j < i THEN Node(h, s, j) ELSE Node(h, s, j + 1)
  BY NodesCut
<1> HIDE DEF t, r
<1>11. Forward(r, h, t)
  <2> SUFFICES ASSUME NEW j \in 0..Len(s) - 1 PROVE r[F(Node(h, t, j))] = Node(h, t, j + 1)
    BY <1>10 DEF Forward
  <2>1. CASE j < i - 1
    <3>1. Node(h, t, j) = Node(h, s, j) /\ Node(h, t, j + 1) = Node(h, s, j + 1) BY <1>10, <2>1
    <3>2. Node(h, s, j) # p BY <1>1, <2>1 DEF p
    <3> QED BY <3>1, <3>2, <1>1, <1>3, <1>9, <2>1, SMTT(60)
  <2>2. CASE j = i - 1
    <3>1. Node(h, t, j) = p /\ Node(h, t, j + 1) = n BY <1>10, <2>2 DEF p, n
    <3> QED BY <3>1, <1>4, <1>9
  <2>3. CASE j > i - 1
    <3>1. Node(h, t, j) = Node(h, s, j + 1) /\ Node(h, t, j + 1) = Node(h, s, j + 2) BY <1>10, <2>3
    <3>2. Node(h, s, j + 1) # p BY <1>1, <2>3 DEF p
    <3>3. m[F(Node(h, s, j + 1))] = Node(h, s, j + 2) BY <1>3, <2>3
    <3>4. Node(h, s, j + 1) \in Objects BY <1>1, <2>3
    <3> QED BY <3>1, <3>2, <3>3, <3>4, <1>9
  <2> QED BY <2>1, <2>2, <2>3
<1>12. Backward(r, h, t)
  <2> SUFFICES ASSUME NEW j \in 1..Len(s) PROVE r[L(Node(h, t, j))] = Node(h, t, j - 1)
    BY <1>10 DEF Backward, Doubly
  <2>1. CASE j < i
    <3>1. Node(h, t, j) = Node(h, s, j) /\ Node(h, t, j - 1) = Node(h, s, j - 1) BY <1>10, <2>1
    <3>2. Node(h, s, j) # n BY <1>1, <2>1 DEF n
    <3> QED BY <3>1, <3>2, <1>1, <1>3, <1>9, <2>1, SMTT(60)
  <2>2. CASE j = i
    <3>1. Node(h, t, j) = n /\ Node(h, t, j - 1) = p BY <1>10, <2>2 DEF p, n
    <3> QED BY <3>1, <1>4, <1>9
  <2>3. CASE j > i
    <3>1. Node(h, t, j) = Node(h, s, j + 1) /\ Node(h, t, j - 1) = Node(h, s, j)
      <4>1. j - 1 \in 0..Len(s) /\ ~(j - 1 < i) /\ (j - 1) + 1 = j BY <2>3
      <4>2. Node(h, t, j - 1) = Node(h, s, (j - 1) + 1) BY <4>1, <1>10
      <4>3. Node(h, t, j) = Node(h, s, j + 1) BY <2>3, <1>10
      <4> QED BY <4>1, <4>2, <4>3
    <3>2. Node(h, s, j + 1) # n BY <1>1, <2>3 DEF n
    <3>3. m[L(Node(h, s, j + 1))] = Node(h, s, (j + 1) - 1) BY <1>3, <2>3
    <3>4. Node(h, s, j + 1) \in Objects /\ (j + 1) - 1 = j BY <1>1, <2>3
    <3> QED BY <3>1, <3>2, <3>3, <3>4, <1>9
  <2> QED BY <2>1, <2>2, <2>3
<1>13. ASSUME NEW o \in Objects \ ({h} \cup ToSet(s))
       PROVE  r[F(o)] = m[F(o)] /\ r[L(o)] = m[L(o)]
  <2>1. o # p /\ o # n BY <1>1 DEF p, n
  <2> QED BY <2>1, <1>9
<1> QED BY <1>9, <1>11, <1>12, <1>13 DEF Chain, LastExact, Tailed, t, r

----------------------------------------------------------------------------
(* All the lists together                                                  *)

\* Distinct lists of distinct elements, in a memory of the right type.
Typed(m, ls) ==
  /\ m \in [Fields -> Values]
  /\ ls \in [Heads -> Seq(Elements)]
  /\ \A h \in Heads : IsInjective(ls[h])
  /\ \A h, g \in Heads : h # g => ToSet(ls[h]) \cap ToSet(ls[g]) = {}

Linking(m, ls) == \A h \in Heads : Chain(m, h, ls[h])

\* A list is as it was where its own fields are as they were.
LEMMA Untouched ==
  ASSUME kind \in Kinds, NEW m, NEW r, NEW h \in Heads, NEW s \in Seq(Elements), IsInjective(s),
         Chain(m, h, s),
         \A o \in {h} \cup ToSet(s) : r[F(o)] = m[F(o)] /\ r[L(o)] = m[L(o)]
  PROVE  Chain(r, h, s)
<1>1. /\ \A i \in 1..Len(s) : Node(h, s, i) = s[i] /\ s[i] \in ToSet(s)
      /\ Node(h, s, 0) = h /\ Len(s) \in Nat
      /\ kind = "circleq" => Node(h, s, Len(s) + 1) = h
  BY Nodes DEF ToSet
<1>2. \A i \in 0..Len(s) : Node(h, s, i) \in {h} \cup ToSet(s) BY <1>1
<1>3. Forward(r, h, s) BY <1>2 DEF Chain, Forward
<1>4. Backward(r, h, s)
  <2>1. Doubly => \A i \in 1..Len(s) : r[L(s[i])] = F(Node(h, s, i - 1))
    BY <1>1 DEF Chain, Backward
  <2>2. ASSUME kind = "circleq", NEW i \in 1..Len(s) + 1
        PROVE  r[L(Node(h, s, i))] = Node(h, s, i - 1)
    <3>1. Node(h, s, i) \in {h} \cup ToSet(s) BY <1>1, <2>2
    <3> QED BY <3>1, <2>2 DEF Chain, Backward
  <2> QED BY <2>1, <2>2 DEF Backward
<1>5. LastExact(r, h, s) BY DEF Chain, LastExact
<1> QED BY <1>3, <1>4, <1>5 DEF Chain

\* A list that grew by an element that was in none, the others untouched.
LEMMA InsertState ==
  ASSUME kind \in Kinds, NEW m, NEW ls, Typed(m, ls), Linking(m, ls), NEW h \in Heads,
         NEW i \in 1..Len(ls[h]) + 1, NEW e \in Elements,
         \A g \in Heads : e \notin ToSet(ls[g]),
         NEW r \in [Fields -> Values], Chain(r, h, InsertAt(ls[h], i, e)),
         \A o \in Objects \ ({h, e} \cup ToSet(ls[h])) : r[F(o)] = m[F(o)] /\ r[L(o)] = m[L(o)]
  PROVE  /\ Typed(r, [ls EXCEPT ![h] = InsertAt(@, i, e)])
         /\ Linking(r, [ls EXCEPT ![h] = InsertAt(@, i, e)])
<1> DEFINE s == ls[h]
           t == InsertAt(s, i, e)
           ks == [ls EXCEPT ![h] = t]
<1>0. s \in Seq(Elements) /\ IsInjective(s) /\ i \in 1..Len(s) + 1 /\ e \notin ToSet(s) BY DEF Typed
<1> HIDE DEF s
<1>1. /\ t \in Seq(Elements) /\ Len(t) = Len(s) + 1
      /\ \A j \in 1..Len(s) + 1 : t[j] = IF j < i THEN s[j] ELSE IF j = i THEN e ELSE s[j - 1]
  <2>1. s \in Seq(Elements) /\ i \in 1..Len(s) + 1 /\ e \in Elements BY <1>0
  <2> QED BY <2>1, Inserted
<1>2. DOMAIN t = 1..Len(s) + 1 /\ DOMAIN s = 1..Len(s) /\ Len(s) \in Nat BY <1>0, <1>1
<1>3. (\A j \in 1..Len(s) : s[j] # e) /\ \A j, k \in 1..Len(s) : s[j] = s[k] => j = k
  BY <1>0, <1>2 DEF ToSet, IsInjective
<1> HIDE DEF t
<1>4. ToSet(t) \subseteq ToSet(s) \cup {e}
  <2>1. \A j \in 1..Len(s) : s[j] \in ToSet(s) BY <1>2 DEF ToSet
  <2>2. \A j \in 1..Len(s) + 1 : j < i => j \in 1..Len(s) BY <1>0, <1>2
  <2>3. \A j \in 1..Len(s) + 1 : ~(j < i) /\ j # i => j - 1 \in 1..Len(s) BY <1>0, <1>2
  <2>4. \A j \in 1..Len(s) + 1 : t[j] \in ToSet(s) \cup {e} BY <1>1, <2>1, <2>2, <2>3
  <2> QED BY <1>2, <2>4 DEF ToSet
<1>5. IsInjective(t)
  <2> SUFFICES ASSUME NEW a \in 1..Len(s) + 1, NEW b \in 1..Len(s) + 1, t[a] = t[b] PROVE a = b
    BY <1>2 DEF IsInjective
  <2>1. ASSUME NEW j \in 1..Len(s) + 1
        PROVE  /\ j < i => j \in 1..Len(s) /\ t[j] = s[j]
               /\ j > i => j - 1 \in 1..Len(s) /\ t[j] = s[j - 1]
               /\ j = i => t[j] = e
    BY <1>0, <1>1, <1>2
  <2>2. i \in Int /\ a \in Int /\ b \in Int BY <1>0, <1>2
  <2>3. CASE a < i BY <1>3, <2>1, <2>2, <2>3
  <2>4. CASE a = i BY <1>3, <2>1, <2>2, <2>4
  <2>5. CASE a > i BY <1>3, <2>1, <2>2, <2>5
  <2> QED BY <2>2, <2>3, <2>4, <2>5
<1>6. ks[h] = t /\ \A g \in Heads \ {h} : ks[g] = ls[g] BY DEF Typed
<1>7. ks \in [Heads -> Seq(Elements)] BY <1>1 DEF Typed
<1> HIDE DEF ks
<1>8. \A g \in Heads : IsInjective(ks[g]) BY <1>5, <1>6 DEF Typed
<1>9. \A g, f \in Heads : g # f => ToSet(ks[g]) \cap ToSet(ks[f]) = {}
  BY <1>4, <1>6, SMTT(60) DEF Typed, s
<1>10. ASSUME NEW g \in Heads, g # h PROVE Chain(r, g, ls[g])
  <2>1. ToSet(ls[g]) \subseteq Elements BY DEF Typed, ToSet
  <2>2. g \in Objects /\ g # e /\ g \notin Elements BY ObjectsAssumption DEF Objects
  <2>3. ToSet(s) \subseteq Elements BY <1>0 DEF ToSet
  <2>4. {g} \cup ToSet(ls[g]) \subseteq Objects \ ({h, e} \cup ToSet(ls[h]))
    BY <1>10, <2>1, <2>2, <2>3, ObjectsAssumption DEF Typed, Objects, s
  <2>5. ls[g] \in Seq(Elements) /\ IsInjective(ls[g]) /\ Chain(m, g, ls[g]) BY DEF Typed, Linking
  <2> QED BY <2>4, <2>5, Untouched
<1>11. Linking(r, ks) BY <1>6, <1>10 DEF Linking, t, s
<1> QED BY <1>7, <1>8, <1>9, <1>11 DEF Typed, ks, t, s

\* A list that lost an element, the others untouched.
LEMMA CutState ==
  ASSUME kind \in Kinds, NEW m, NEW ls, Typed(m, ls), Linking(m, ls), NEW h \in Heads,
         NEW i \in 1..Len(ls[h]),
         NEW r \in [Fields -> Values], Chain(r, h, RemoveAt(ls[h], i)),
         \A o \in Objects \ ({h} \cup ToSet(ls[h])) : r[F(o)] = m[F(o)] /\ r[L(o)] = m[L(o)]
  PROVE  /\ Typed(r, [ls EXCEPT ![h] = RemoveAt(@, i)])
         /\ Linking(r, [ls EXCEPT ![h] = RemoveAt(@, i)])
         /\ ls[h][i] \notin ToSet(RemoveAt(ls[h], i))
<1> DEFINE s == ls[h]
           t == RemoveAt(s, i)
           ks == [ls EXCEPT ![h] = t]
<1>0. s \in Seq(Elements) /\ IsInjective(s) BY DEF Typed
<1>3. i \in 1..Len(s) OBVIOUS
<1> HIDE DEF s
<1>1. /\ t \in Seq(Elements) /\ Len(t) = Len(s) - 1
      /\ \A j \in 1..Len(s) - 1 : t[j] = IF j < i THEN s[j] ELSE s[j + 1]
  BY <1>0, <1>3, Cut
<1>2. DOMAIN t = 1..Len(s) - 1 /\ DOMAIN s = 1..Len(s) /\ Len(s) \in Nat BY <1>0, <1>1
<1> HIDE DEF t
<1>4. \A j, k \in 1..Len(s) : s[j] = s[k] => j = k BY <1>0, <1>2 DEF IsInjective
<1>5. ToSet(t) \subseteq ToSet(s) /\ s[i] \notin ToSet(t)
  <2>1. \A j \in 1..Len(s) : s[j] \in ToSet(s) BY <1>2 DEF ToSet
  <2>2. ASSUME NEW j \in 1..Len(s) - 1 PROVE t[j] \in ToSet(s) /\ t[j] # s[i]
    <3>1. j \in 1..Len(s) /\ j + 1 \in 1..Len(s) /\ j \in Int /\ i \in Int BY <1>2, <1>3
    <3>2. CASE j < i BY <3>1, <3>2, <1>1, <1>3, <1>4, <2>1
    <3>3. CASE ~(j < i) BY <3>1, <3>3, <1>1, <1>3, <1>4, <2>1
    <3> QED BY <3>2, <3>3
  <2> QED BY <1>2, <2>2 DEF ToSet
<1>6. IsInjective(t) BY <1>1, <1>2, <1>4 DEF IsInjective
<1>7. ks[h] = t /\ \A g \in Heads \ {h} : ks[g] = ls[g] BY DEF Typed
<1>8. ks \in [Heads -> Seq(Elements)] BY <1>1 DEF Typed
<1> HIDE DEF ks
<1>9. \A g \in Heads : IsInjective(ks[g]) BY <1>6, <1>7 DEF Typed
<1>10. \A g, f \in Heads : g # f => ToSet(ks[g]) \cap ToSet(ks[f]) = {}
  BY <1>5, <1>7 DEF Typed, s
<1>11. ASSUME NEW g \in Heads, g # h PROVE Chain(r, g, ls[g])
  <2>1. ToSet(ls[g]) \subseteq Elements BY DEF Typed, ToSet
  <2>2. g \in Objects /\ g \notin Elements BY ObjectsAssumption DEF Objects
  <2>3. ToSet(s) \subseteq Elements BY <1>0 DEF ToSet
  <2>4. {g} \cup ToSet(ls[g]) \subseteq Objects \ ({h} \cup ToSet(ls[h]))
    BY <1>11, <2>1, <2>2, <2>3, ObjectsAssumption DEF Typed, Objects, s
  <2>5. ls[g] \in Seq(Elements) /\ IsInjective(ls[g]) /\ Chain(m, g, ls[g]) BY DEF Typed, Linking
  <2> QED BY <2>4, <2>5, Untouched
<1>12. Linking(r, ks) BY <1>7, <1>11 DEF Linking, t, s
<1> QED BY <1>5, <1>8, <1>9, <1>10, <1>12 DEF Typed, ks, t, s

\* TAILQ_CONCAT of a second list that is not empty.
LEMMA ConcatFields ==
  ASSUME NEW m \in [Fields -> Values], NEW h \in Heads, NEW g \in Heads, h # g,
         NEW l \in Objects, NEW n \in Elements, NEW k \in Objects,
         m[L(h)] = F(l), m[F(g)] = n, m[L(g)] = F(k), l # g, l # n
  PROVE  /\ Concat(m, h, g) \in [Fields -> Values]
         /\ \A o \in Objects : Concat(m, h, g)[F(o)] =
              IF o = g THEN Null ELSE IF o = l THEN n ELSE m[F(o)]
         /\ \A o \in Objects : Concat(m, h, g)[L(o)] =
              IF o = g THEN F(g) ELSE IF o = h THEN F(k) ELSE IF o = n THEN F(l) ELSE m[L(o)]
<1>1. h \in Objects /\ g \in Objects /\ n \in Objects /\ n # h /\ n # g
  BY ObjectsAssumption DEF Objects
<1>2. {Null} \cup Objects \subseteq Values BY DEF Values
<1> QED BY <1>1, <1>2, Addresses DEF Concat

\* The nodes of two lists on end.
LEMMA NodesConcat ==
  ASSUME kind = "tailq", NEW s \in Seq(Elements), NEW t \in Seq(Elements), NEW h, NEW g
  PROVE  /\ s \o t \in Seq(Elements)
         /\ Len(s \o t) = Len(s) + Len(t)
         /\ \A j \in 1..Len(s) + Len(t) : (s \o t)[j] = IF j <= Len(s) THEN s[j] ELSE t[j - Len(s)]
         /\ \A j \in 0..Len(s) + Len(t) + 1 : Node(h, s \o t, j) =
              IF j <= Len(s) THEN Node(h, s, j) ELSE Node(g, t, j - Len(s))
<1>1. /\ s \o t \in Seq(Elements)
      /\ Len(s \o t) = Len(s) + Len(t)
      /\ \A j \in 1..Len(s) + Len(t) : (s \o t)[j] = IF j <= Len(s) THEN s[j] ELSE t[j - Len(s)]
  BY ConcatProperties
<1>2. Len(s) \in Nat /\ Len(t) \in Nat OBVIOUS
<1>3. ASSUME NEW j \in 0..Len(s) + Len(t) + 1
      PROVE  Node(h, s \o t, j) = IF j <= Len(s) THEN Node(h, s, j) ELSE Node(g, t, j - Len(s))
  <2>1. CASE j <= Len(s) BY <1>1, <1>2, <2>1 DEF Node
  <2>2. CASE ~(j <= Len(s)) /\ j <= Len(s) + Len(t)
    <3>1. j - Len(s) # 0 /\ ~(j - Len(s) > Len(t)) BY <1>2, <2>2
    <3> QED BY <1>1, <1>2, <2>2, <3>1 DEF Node
  <2>3. CASE j > Len(s) + Len(t)
    <3>1. j - Len(s) # 0 /\ j - Len(s) > Len(t) /\ j # 0 /\ ~(j <= Len(s)) BY <1>2, <2>3
    <3>2. Node(g, t, j - Len(s)) = Null /\ Node(h, s \o t, j) = Null
      BY <1>1, <1>2, <2>3, <3>1 DEF Node, End
    <3> QED BY <3>1, <3>2
  <2> QED BY <1>2, <2>1, <2>2, <2>3
<1> QED BY <1>1, <1>3

\* TAILQ_CONCAT makes the links spell the one list and the other on end.
LEMMA ConcatChain ==
  ASSUME kind = "tailq", NEW m \in [Fields -> Values], NEW h \in Heads, NEW g \in Heads, h # g,
         NEW s \in Seq(Elements), NEW t \in Seq(Elements), IsInjective(s), IsInjective(t),
         ToSet(s) \cap ToSet(t) = {}, Chain(m, h, s), Chain(m, g, t), m[F(g)] # Null
  PROVE  LET r == Concat(m, h, g)
         IN  /\ r \in [Fields -> Values]
             /\ Chain(r, h, s \o t)
             /\ Chain(r, g, <<>>)
             /\ \A o \in Objects \ ({h, g} \cup ToSet(s) \cup ToSet(t)) :
                  r[F(o)] = m[F(o)] /\ r[L(o)] = m[L(o)]
<1> DEFINE r == Concat(m, h, g)
           u == s \o t
           l == Node(h, s, Len(s))
           n == Node(g, t, 1)
           k == Node(g, t, Len(t))
<1>1. kind \in Kinds /\ kind # "circleq" /\ Doubly /\ Tailed BY DEF Kinds, Doubly, Tailed
<1>2. /\ \A j \in 0..Len(s) : Node(h, s, j) \in Objects
      /\ \A i, j \in 0..Len(s) : Node(h, s, i) = Node(h, s, j) => i = j
      /\ \A j \in 1..Len(s) : Node(h, s, j) = s[j] /\ s[j] \in Elements /\ s[j] \in ToSet(s)
      /\ Node(h, s, 0) = h /\ Node(h, s, Len(s) + 1) = Null /\ Null \notin Objects
      /\ h \in Objects /\ h \notin Elements /\ Len(s) \in Nat
  BY <1>1, Nodes DEF ToSet
<1>3. /\ \A j \in 0..Len(t) : Node(g, t, j) \in Objects
      /\ \A i, j \in 0..Len(t) : Node(g, t, i) = Node(g, t, j) => i = j
      /\ \A j \in 1..Len(t) : Node(g, t, j) = t[j] /\ t[j] \in Elements /\ t[j] \in ToSet(t)
      /\ Node(g, t, 0) = g /\ Node(g, t, Len(t) + 1) = Null
      /\ g \in Objects /\ g \notin Elements /\ Len(t) \in Nat
  BY <1>1, Nodes DEF ToSet
<1>4. /\ \A j \in 0..Len(s) : m[F(Node(h, s, j))] = Node(h, s, j + 1)
      /\ \A j \in 1..Len(s) : m[L(s[j])] = F(Node(h, s, j - 1))
      /\ m[L(h)] = F(l)
  BY <1>1 DEF Chain, Forward, Backward, LastExact
<1>5. /\ \A j \in 0..Len(t) : m[F(Node(g, t, j))] = Node(g, t, j + 1)
      /\ \A j \in 1..Len(t) : m[L(t[j])] = F(Node(g, t, j - 1))
      /\ m[L(g)] = F(k)
  BY <1>1 DEF Chain, Forward, Backward, LastExact
<1>6. m[F(g)] = n BY <1>3, <1>5
<1>7. Len(t) > 0 BY <1>3, <1>6
<1>8. \A i \in 0..Len(s), j \in 1..Len(t) : Node(h, s, i) # Node(g, t, j)
  BY <1>2, <1>3
<1>9. \A i \in 0..Len(s) : Node(h, s, i) # g BY <1>2, <1>3
<1>10. \A j \in 1..Len(t) : Node(g, t, j) # h /\ Node(g, t, j) # g BY <1>2, <1>3
<1>11. l \in Objects /\ n \in Elements /\ k \in Objects /\ l # g /\ l # n /\ n = t[1]
  BY <1>2, <1>3, <1>7, <1>8, <1>9
<1>12. /\ Len(u) = Len(s) + Len(t)
       /\ \A j \in 1..Len(s) + Len(t) : u[j] = IF j <= Len(s) THEN s[j] ELSE t[j - Len(s)]
       /\ \A j \in 0..Len(s) + Len(t) + 1 : Node(h, u, j) =
            IF j <= Len(s) THEN Node(h, s, j) ELSE Node(g, t, j - Len(s))
  <2> HIDE DEF r, l, n, k, u
  <2>1. /\ Len(s \o t) = Len(s) + Len(t)
        /\ \A j \in 1..Len(s) + Len(t) : (s \o t)[j] = IF j <= Len(s) THEN s[j] ELSE t[j - Len(s)]
    BY NodesConcat
  <2>2. \A j \in 0..Len(s) + Len(t) + 1 : Node(h, s \o t, j) =
          IF j <= Len(s) THEN Node(h, s, j) ELSE Node(g, t, j - Len(s))
    BY NodesConcat, SMTT(60)
  <2> QED BY <2>1, <2>2 DEF u
<1> HIDE DEF l, n, k, u
<1>13. /\ r \in [Fields -> Values]
       /\ \A o \in Objects : r[F(o)] = IF o = g THEN Null ELSE IF o = l THEN n ELSE m[F(o)]
       /\ \A o \in Objects : r[L(o)] =
            IF o = g THEN F(g) ELSE IF o = h THEN F(k) ELSE IF o = n THEN F(l) ELSE m[L(o)]
  BY <1>4, <1>5, <1>6, <1>11, ConcatFields
<1> HIDE DEF r
<1>14. Forward(r, h, u)
  <2> SUFFICES ASSUME NEW j \in 0..Len(s) + Len(t) PROVE r[F(Node(h, u, j))] = Node(h, u, j + 1)
    BY <1>12 DEF Forward
  <2>1. CASE j < Len(s)
    <3>0. /\ j \in 0..Len(s) + Len(t) + 1 /\ j + 1 \in 0..Len(s) + Len(t) + 1
          /\ j <= Len(s) /\ j + 1 <= Len(s)
      BY <1>2, <1>3, <2>1
    <3>1. Node(h, u, j) = Node(h, s, j) /\ Node(h, u, j + 1) = Node(h, s, j + 1)
      BY <3>0, <1>12
    <3>2. Node(h, s, j) # l /\ Node(h, s, j) # g /\ Node(h, s, j) \in Objects
      BY <1>2, <1>9, <2>1 DEF l
    <3> QED BY <3>1, <3>2, <1>2, <1>4, <1>13, <2>1
  <2>2. CASE j = Len(s)
    <3>1. Node(h, u, j) = l BY <1>2, <1>3, <1>12, <2>2 DEF l
    <3>2. j + 1 \in 0..Len(s) + Len(t) + 1 /\ ~(j + 1 <= Len(s)) /\ (j + 1) - Len(s) = 1
      BY <1>2, <1>3, <1>7, <2>2
    <3>3. Node(h, u, j + 1) = Node(g, t, (j + 1) - Len(s)) BY <3>2, <1>12
    <3>4. Node(h, u, j + 1) = n BY <3>2, <3>3 DEF n
    <3> QED BY <3>1, <3>4, <1>11, <1>13
  <2>3. CASE j > Len(s)
    <3> DEFINE i == j - Len(s)
    <3>1. i \in 1..Len(t) /\ (j + 1) - Len(s) = i + 1 /\ ~(j <= Len(s)) /\ ~(j + 1 <= Len(s))
          /\ j + 1 \in 0..Len(s) + Len(t) + 1 /\ j \in 0..Len(s) + Len(t) + 1
      BY <1>2, <1>3, <2>3
    <3>2. Node(h, u, j) = Node(g, t, i) BY <3>1, <1>12
    <3>3. Node(h, u, j + 1) = Node(g, t, (j + 1) - Len(s)) BY <3>1, <1>12
    <3> HIDE DEF i
    <3>4. Node(h, u, j + 1) = Node(g, t, i + 1) BY <3>1, <3>3
    <3>5. Node(g, t, i) # l BY <3>1, <1>2, <1>8 DEF l
    <3>6. Node(g, t, i) \in Objects /\ Node(g, t, i) # g BY <3>1, <1>3, <1>10
    <3>7. m[F(Node(g, t, i))] = Node(g, t, i + 1) BY <3>1, <1>5
    <3> QED BY <3>2, <3>4, <3>5, <3>6, <3>7, <1>13
  <2> QED BY <1>2, <2>1, <2>2, <2>3
<1>15. Backward(r, h, u)
  <2> SUFFICES ASSUME NEW j \in 1..Len(s) + Len(t) PROVE r[L(u[j])] = F(Node(h, u, j - 1))
    BY <1>1, <1>12 DEF Backward
  <2>1. CASE j <= Len(s)
    <3>1. u[j] = s[j] /\ Node(h, u, j - 1) = Node(h, s, j - 1) /\ s[j] = Node(h, s, j)
      BY <1>2, <1>3, <1>12, <2>1
    <3>2. s[j] # n /\ s[j] # g /\ s[j] # h /\ s[j] \in Objects
      BY <3>1, <1>2, <1>3, <1>7, <1>8, <1>9, <2>1 DEF n
    <3> QED BY <3>1, <3>2, <1>4, <1>13, <2>1
  <2>2. CASE j = Len(s) + 1
    <3>1. j - Len(s) = 1 /\ ~(j <= Len(s)) /\ j - 1 = Len(s) BY <1>2, <2>2
    <3>2. u[j] = t[j - Len(s)] BY <3>1, <1>12
    <3>3. u[j] = n BY <3>1, <3>2, <1>11
    <3>4. Len(s) \in 0..Len(s) + Len(t) + 1 /\ Len(s) <= Len(s) BY <1>2, <1>3
    <3>5. Node(h, u, Len(s)) = l BY <3>4, <1>12 DEF l
    <3>6. n # g /\ n # h /\ n \in Objects BY <1>2, <1>3, <1>7, <1>11
    <3> QED BY <3>1, <3>3, <3>5, <3>6, <1>13
  <2>3. CASE j > Len(s) + 1
    <3> DEFINE i == j - Len(s)
    <3>1. i \in 1..Len(t) /\ i > 1 /\ (j - 1) - Len(s) = i - 1 /\ ~(j <= Len(s)) /\ ~(j - 1 <= Len(s))
          /\ j - 1 \in 0..Len(s) + Len(t) + 1
      BY <1>2, <1>3, <2>3
    <3>2. u[j] = t[i] BY <3>1, <1>12
    <3>3. Node(h, u, j - 1) = Node(g, t, (j - 1) - Len(s)) BY <3>1, <1>12
    <3> HIDE DEF i
    <3>4. Node(h, u, j - 1) = Node(g, t, i - 1) BY <3>1, <3>3
    <3>5. t[i] = Node(g, t, i) /\ t[i] \in Objects /\ t[i] # g /\ t[i] # h BY <3>1, <1>3, <1>10
    <3>6. t[i] # n BY <3>1, <3>5, <1>3, <1>7 DEF n
    <3>7. m[L(t[i])] = F(Node(g, t, i - 1)) BY <3>1, <1>5
    <3> QED BY <3>2, <3>4, <3>5, <3>6, <3>7, <1>13
  <2> QED BY <1>2, <2>1, <2>2, <2>3
<1>16. LastExact(r, h, u)
  <2>1. r[L(h)] = F(k) BY <1>2, <1>13
  <2>2. Len(s) + Len(t) \in 0..Len(s) + Len(t) + 1 /\ ~(Len(s) + Len(t) <= Len(s))
        /\ (Len(s) + Len(t)) - Len(s) = Len(t)
    BY <1>2, <1>3, <1>7
  <2>3. Node(h, u, Len(s) + Len(t)) = Node(g, t, (Len(s) + Len(t)) - Len(s)) BY <2>2, <1>12
  <2>4. Node(h, u, Len(s) + Len(t)) = k BY <2>2, <2>3 DEF k
  <2> QED BY <2>1, <2>4, <1>12 DEF LastExact
<1>17. Chain(r, g, <<>>)
  <2>1. r[F(g)] = Null /\ r[L(g)] = F(g) BY <1>3, <1>13
  <2>2. Node(g, <<>>, 0) = g /\ Node(g, <<>>, 1) = Null BY <1>1 DEF Node, End
  <2> QED BY <1>1, <2>1, <2>2 DEF Chain, Forward, Backward, LastExact
<1>18. ASSUME NEW o \in Objects \ ({h, g} \cup ToSet(s) \cup ToSet(t))
       PROVE  r[F(o)] = m[F(o)] /\ r[L(o)] = m[L(o)]
  <2>1. o # l BY <1>2 DEF l
  <2>2. o # n BY <1>3, <1>7 DEF n
  <2> QED BY <2>1, <2>2, <1>13
<1> QED BY <1>13, <1>14, <1>15, <1>16, <1>17, <1>18 DEF Chain, r, u

\* The two lists of a TAILQ_CONCAT, the others untouched.
LEMMA ConcatState ==
  ASSUME kind = "tailq", NEW m, NEW ls, Typed(m, ls), Linking(m, ls),
         NEW h \in Heads, NEW g \in Heads, h # g,
         NEW r, r = IF m[F(g)] # Null THEN Concat(m, h, g) ELSE m
  PROVE  /\ Typed(r, [ls EXCEPT ![h] = @ \o ls[g], ![g] = <<>>])
         /\ Linking(r, [ls EXCEPT ![h] = @ \o ls[g], ![g] = <<>>])
<1> DEFINE s == ls[h]
           t == ls[g]
           u == s \o t
           ks == [ls EXCEPT ![h] = u, ![g] = <<>>]
<1>0. kind \in Kinds BY DEF Kinds
<1>1. /\ s \in Seq(Elements) /\ IsInjective(s) /\ t \in Seq(Elements) /\ IsInjective(t)
      /\ ToSet(s) \cap ToSet(t) = {} /\ Chain(m, h, s) /\ Chain(m, g, t)
      /\ m \in [Fields -> Values]
  BY DEF Typed, Linking
<1> HIDE DEF s, t
<1>2. /\ u \in Seq(Elements) /\ Len(u) = Len(s) + Len(t)
      /\ \A j \in 1..Len(s) + Len(t) : u[j] = IF j <= Len(s) THEN s[j] ELSE t[j - Len(s)]
  BY <1>1, NodesConcat
<1>3. DOMAIN u = 1..Len(s) + Len(t) /\ DOMAIN s = 1..Len(s) /\ DOMAIN t = 1..Len(t)
      /\ Len(s) \in Nat /\ Len(t) \in Nat
  BY <1>1, <1>2
<1>4. /\ \A j \in 1..Len(s) : s[j] \in ToSet(s)
      /\ \A j \in 1..Len(t) : t[j] \in ToSet(t)
      /\ \A j, k \in 1..Len(s) : s[j] = s[k] => j = k
      /\ \A j, k \in 1..Len(t) : t[j] = t[k] => j = k
  BY <1>1, <1>3 DEF ToSet, IsInjective
<1>5. /\ r \in [Fields -> Values]
      /\ Chain(r, h, u)
      /\ Chain(r, g, <<>>)
      /\ \A o \in Objects \ ({h, g} \cup ToSet(s) \cup ToSet(t)) :
           r[F(o)] = m[F(o)] /\ r[L(o)] = m[L(o)]
  <2>1. CASE m[F(g)] # Null BY <1>1, <2>1, ConcatChain
  <2>2. CASE m[F(g)] = Null
    <3>1. m[F(g)] = Node(g, t, 1) /\ Node(g, t, 0) = g
      <4>1. m[F(Node(g, t, 0))] = Node(g, t, 0 + 1) BY <1>1, <1>3 DEF Chain, Forward
      <4> QED BY <4>1 DEF Node
    <3>2. Len(t) = 0
      <4> SUFFICES ASSUME Len(t) # 0 PROVE FALSE OBVIOUS
      <4>1. Node(g, t, 1) = t[1] /\ t[1] \in Elements BY <1>1, <1>3 DEF Node
      <4> QED BY <3>1, <4>1, <2>2, ObjectsAssumption
    <3>3. t = <<>> BY <1>1, <3>2
    <3>4. u = s BY <1>1, <3>3
    <3> HIDE DEF u
    <3> QED BY <1>1, <2>2, <3>3, <3>4
  <2> QED BY <2>1, <2>2
<1> HIDE DEF u
<1>6. ToSet(u) \subseteq ToSet(s) \cup ToSet(t)
  <2>1. ASSUME NEW j \in 1..Len(s) + Len(t) PROVE u[j] \in ToSet(s) \cup ToSet(t)
    <3>1. CASE j <= Len(s) BY <3>1, <1>2, <1>3, <1>4
    <3>2. CASE ~(j <= Len(s))
      <4>1. j - Len(s) \in 1..Len(t) BY <3>2, <1>3
      <4> QED BY <3>2, <4>1, <1>2, <1>4
    <3> QED BY <3>1, <3>2
  <2> QED BY <2>1, <1>3 DEF ToSet
<1>7. IsInjective(u)
  <2> SUFFICES ASSUME NEW a \in 1..Len(s) + Len(t), NEW b \in 1..Len(s) + Len(t), u[a] = u[b]
               PROVE  a = b
    BY <1>3 DEF IsInjective
  <2>1. ASSUME NEW j \in 1..Len(s) + Len(t)
        PROVE  /\ j <= Len(s) => j \in 1..Len(s) /\ u[j] = s[j]
               /\ ~(j <= Len(s)) => j - Len(s) \in 1..Len(t) /\ u[j] = t[j - Len(s)]
    BY <1>2, <1>3
  <2>2. CASE a <= Len(s) /\ b <= Len(s) BY <1>4, <2>1, <2>2
  <2>3. CASE ~(a <= Len(s)) /\ ~(b <= Len(s))
    <3>1. a - Len(s) = b - Len(s) BY <1>4, <2>1, <2>3
    <3> QED BY <3>1, <1>3
  <2>4. CASE ~(a <= Len(s) <=> b <= Len(s)) BY <1>1, <1>4, <2>1, <2>4
  <2> QED BY <2>2, <2>3, <2>4
<1>8. ks[h] = u /\ ks[g] = <<>> /\ \A f \in Heads \ {h, g} : ks[f] = ls[f] BY DEF Typed
<1>9. ks \in [Heads -> Seq(Elements)] BY <1>2 DEF Typed
<1> HIDE DEF ks
<1>10. ToSet(<<>>) = {} /\ IsInjective(<<>>) BY DEF ToSet, IsInjective
<1>11. \A f \in Heads : IsInjective(ks[f]) BY <1>7, <1>8, <1>10 DEF Typed
<1>12. \A f, k \in Heads : f # k => ToSet(ks[f]) \cap ToSet(ks[k]) = {}
  BY <1>6, <1>8, <1>10 DEF Typed, s, t
<1>13. ASSUME NEW f \in Heads, f \notin {h, g} PROVE Chain(r, f, ls[f])
  <2>1. ToSet(ls[f]) \subseteq Elements BY DEF Typed, ToSet
  <2>2. f \in Objects /\ f \notin Elements BY ObjectsAssumption DEF Objects
  <2>3. ToSet(s) \subseteq Elements /\ ToSet(t) \subseteq Elements BY <1>1 DEF ToSet
  <2>4. {f} \cup ToSet(ls[f]) \subseteq Objects \ ({h, g} \cup ToSet(s) \cup ToSet(t))
    BY <1>13, <2>1, <2>2, <2>3, ObjectsAssumption DEF Typed, Objects, s, t
  <2>5. ls[f] \in Seq(Elements) /\ IsInjective(ls[f]) /\ Chain(m, f, ls[f]) BY DEF Typed, Linking
  <2> QED BY <1>0, <1>5, <2>4, <2>5, Untouched
<1>14. Linking(r, ks) BY <1>5, <1>8, <1>13 DEF Linking
<1> QED BY <1>5, <1>9, <1>11, <1>12, <1>14 DEF Typed, ks, u, s, t

----------------------------------------------------------------------------
(* The operations                                                          *)

\* Insertion, whichever macro does it.
LEMMA InsertKeeps ==
  ASSUME kind \in Kinds, Typed(mem, lists), Linking(mem, lists), NEW h \in Heads,
         NEW e \in Elements \ Linked, Insert(h, e)
  PROVE  Typed(mem', lists') /\ Linking(mem', lists')
<1> DEFINE s == lists[h]
<1>1. /\ s \in Seq(Elements) /\ IsInjective(s) /\ Chain(mem, h, s) /\ mem \in [Fields -> Values]
      /\ lists \in [Heads -> Seq(Elements)]
  BY DEF Typed, Linking
<1>2. (\A g \in Heads : e \notin ToSet(lists[g])) /\ e \notin ToSet(s) /\ e \in Elements
  BY DEF Linked
<1>3. Len(s) \in Nat /\ DOMAIN s = 1..Len(s) BY <1>1
<1>4. ASSUME NEW i \in 1..Len(s) + 1, NEW r,
             \/ kind # "circleq" /\ r = After(mem, h, Node(h, s, i - 1), e)
             \/ kind = "circleq" /\ Between(mem, r, Node(h, s, i - 1), e, Node(h, s, i)),
             mem' = r, Put(h, e, i)
      PROVE  Typed(mem', lists') /\ Linking(mem', lists')
  <2>1. /\ r \in [Fields -> Values]
        /\ Chain(r, h, InsertAt(s, i, e))
        /\ \A o \in Objects \ ({h, e} \cup ToSet(s)) : r[F(o)] = mem[F(o)] /\ r[L(o)] = mem[L(o)]
    <3>1. CASE kind # "circleq"
      <4> HIDE DEF s
      <4> QED BY <1>1, <1>2, <1>4, <3>1, AfterChain
    <3>2. CASE kind = "circleq"
      <4> HIDE DEF s
      <4> QED BY <1>1, <1>2, <1>4, <3>2, BetweenChain
    <3> QED BY <3>1, <3>2
  <2>2. /\ Typed(r, [lists EXCEPT ![h] = InsertAt(@, i, e)])
        /\ Linking(r, [lists EXCEPT ![h] = InsertAt(@, i, e)])
    BY <1>2, <2>1, InsertState
  <2> QED BY <1>4, <2>2 DEF Put
<1>5. CASE InsertHead(h, e)
  <2>1. mem' = IF kind = "circleq" THEN CircleEnd(mem, h, e, "next") ELSE After(mem, h, h, e)
    BY <1>5 DEF InsertHead
  <2>2. Put(h, e, 1) /\ 1 \in 1..Len(s) + 1 BY <1>3, <1>5 DEF InsertHead
  <2>3. Node(h, s, 1 - 1) = h BY DEF Node
  <2>4. CASE kind = "circleq"
    <3> HIDE DEF s
    <3>1. Between(mem, mem', Node(h, s, 1 - 1), e, Node(h, s, 1))
      BY <1>1, <1>2, <2>1, <2>2, <2>4, CircleChain
    <3> QED BY <1>4, <2>2, <2>4, <3>1
  <2>5. CASE kind # "circleq" BY <1>4, <2>1, <2>2, <2>3, <2>5
  <2> QED BY <2>4, <2>5
<1>6. CASE InsertTail(h, e)
  <2>1. /\ mem' = IF kind = "circleq" THEN CircleEnd(mem, h, e, "prev") ELSE AtTail(mem, h, e)
        /\ kind # "circleq" => Tailed
    BY <1>6 DEF InsertTail, Tailed
  <2>2. Put(h, e, Len(s) + 1) /\ Len(s) + 1 \in 1..Len(s) + 1 /\ (Len(s) + 1) - 1 = Len(s)
    BY <1>3, <1>6 DEF InsertTail
  <2>3. CASE kind = "circleq"
    <3> HIDE DEF s
    <3>1. Between(mem, mem', Node(h, s, (Len(s) + 1) - 1), e, Node(h, s, Len(s) + 1))
      BY <1>1, <1>2, <2>1, <2>2, <2>3, CircleChain
    <3> QED BY <1>4, <2>2, <2>3, <3>1
  <2>4. CASE kind # "circleq"
    <3> HIDE DEF s
    <3>1. mem' = After(mem, h, Node(h, s, Len(s)), e) BY <1>1, <1>2, <2>1, <2>4, AtTailIsAfter
    <3>2. mem' = After(mem, h, Node(h, s, (Len(s) + 1) - 1), e) BY <2>2, <3>1
    <3> QED BY <1>4, <2>2, <2>4, <3>2
  <2> QED BY <2>3, <2>4
<1>7. ASSUME NEW i \in 1..Len(s), InsertAfter(h, i, e)
      PROVE  Typed(mem', lists') /\ Linking(mem', lists')
  <2>1. mem' = IF kind = "circleq" THEN CircleBeside(mem, h, s[i], e, "next")
               ELSE After(mem, h, s[i], e)
    BY <1>7 DEF InsertAfter
  <2>2. Put(h, e, i + 1) /\ i + 1 \in 1..Len(s) + 1 /\ (i + 1) - 1 = i /\ i + 1 > 1
    BY <1>3, <1>7 DEF InsertAfter
  <2>3. Node(h, s, (i + 1) - 1) = s[i] BY <1>3, <2>2 DEF Node
  <2>4. CASE kind = "circleq"
    <3> HIDE DEF s
    <3>1. mem' = CircleBeside(mem, h, s[(i + 1) - 1], e, "next") BY <2>1, <2>2, <2>4
    <3>2. Between(mem, mem', Node(h, s, (i + 1) - 1), e, Node(h, s, i + 1))
      BY <1>1, <1>2, <2>2, <2>4, <3>1, CircleChain
    <3> QED BY <1>4, <2>2, <2>4, <3>2
  <2>5. CASE kind # "circleq" BY <1>4, <2>1, <2>2, <2>3, <2>5
  <2> QED BY <2>4, <2>5
<1>8. ASSUME NEW i \in 1..Len(s), InsertBefore(h, i, e)
      PROVE  Typed(mem', lists') /\ Linking(mem', lists')
  <2>1. /\ mem' = IF kind = "circleq" THEN CircleBeside(mem, h, s[i], e, "prev")
                  ELSE Before(mem, s[i], e)
        /\ kind # "circleq" => Doubly
    BY <1>8 DEF InsertBefore, Doubly
  <2>2. Put(h, e, i) /\ i \in 1..Len(s) + 1 /\ i <= Len(s) BY <1>3, <1>8 DEF InsertBefore
  <2>3. CASE kind = "circleq"
    <3> HIDE DEF s
    <3>1. Between(mem, mem', Node(h, s, i - 1), e, Node(h, s, i))
      BY <1>1, <1>2, <2>1, <2>2, <2>3, CircleChain
    <3> QED BY <1>4, <2>2, <2>3, <3>1
  <2>4. CASE kind # "circleq"
    <3> HIDE DEF s
    <3>1. mem' = After(mem, h, Node(h, s, i - 1), e) BY <1>1, <1>2, <2>1, <2>4, BeforeIsAfter
    <3> QED BY <1>4, <2>2, <2>4, <3>1
  <2> QED BY <2>3, <2>4
<1> QED BY <1>3, <1>5, <1>6, <1>7, <1>8 DEF Insert

\* Removal of the element i, whichever macro does it.
LEMMA RemovedState ==
  ASSUME kind \in Kinds, Typed(mem, lists), Linking(mem, lists), NEW h \in Heads,
         NEW i \in 1..Len(lists[h])
  PROVE  LET r == Removed(mem, h, lists[h][i])
             ks == [lists EXCEPT ![h] = RemoveAt(@, i)]
         IN  Typed(r, ks) /\ Linking(r, ks) /\ lists[h][i] \notin ToSet(RemoveAt(lists[h], i))
<1> DEFINE s == lists[h]
           r == Removed(mem, h, s[i])
<1>1. /\ s \in Seq(Elements) /\ IsInjective(s) /\ Chain(mem, h, s) /\ mem \in [Fields -> Values]
      /\ i \in 1..Len(s)
  BY DEF Typed, Linking
<1>2. /\ r \in [Fields -> Values]
      /\ Chain(r, h, RemoveAt(s, i))
      /\ \A o \in Objects \ ({h} \cup ToSet(s)) : r[F(o)] = mem[F(o)] /\ r[L(o)] = mem[L(o)]
  <2>1. CASE kind = "circleq"
    <3>1. r = CircleRemove(mem, h, s[i]) BY <2>1 DEF Removed, Doubly
    <3> HIDE DEF s, r
    <3> QED BY <1>1, <2>1, <3>1, CircleCut
  <2>2. CASE kind # "circleq"
    <3>1. lists[h] = s OBVIOUS
    <3> HIDE DEF s
    <3> QED BY <1>1, <2>2, <3>1, CutChain
  <2> QED BY <2>1, <2>2
<1> HIDE DEF r
<1>3. /\ Typed(r, [lists EXCEPT ![h] = RemoveAt(@, i)])
      /\ Linking(r, [lists EXCEPT ![h] = RemoveAt(@, i)])
      /\ lists[h][i] \notin ToSet(RemoveAt(lists[h], i))
  BY <1>2, CutState
<1> QED BY <1>3 DEF r

----------------------------------------------------------------------------
(* FOREACH_SAFE                                                            *)

Elem(s, k) == IF k \in 1..Len(s) THEN s[k] ELSE Null

\* The loop is at element k of the list s: v is the loop variable, w the
\* successor read before the body, and x what is still to come.
LoopAt(s, dir, v, w, x, k) ==
  /\ v = Elem(s, k)
  /\ x \in Seq(Elements)
  /\ \/ /\ dir = "next"
        /\ k \in 1..Len(s) + 1
        /\ w = Elem(s, k + 1)
        /\ Len(x) = Len(s) - k + 1
        /\ \A j \in 1..Len(x) : x[j] = s[k + j - 1]
     \/ /\ dir = "prev"
        /\ k \in 0..Len(s)
        /\ w = Elem(s, k - 1)
        /\ Len(x) = k
        /\ \A j \in 1..Len(x) : x[j] = s[k - j + 1]

IterOK ==
  it # <<>> =>
    /\ it.head \in Heads
    /\ kind # "circleq"
    /\ it.dir = "prev" => kind = "tailq"
    /\ \E k \in Int : LoopAt(lists[it.head], it.dir, it.var, it.tvar, it.left, k)

\* What FIRST, NEXT, LAST and PREV of the linear kinds return.
LEMMA SuccessorIs ==
  ASSUME kind \in Kinds, kind # "circleq", NEW m, NEW h \in Heads, NEW s \in Seq(Elements),
         IsInjective(s), Chain(m, h, s)
  PROVE  /\ Successor(m, h, "next") = Elem(s, 1)
         /\ \A k \in 1..Len(s) : Successor(m, s[k], "next") = Elem(s, k + 1)
         /\ kind = "tailq" => Successor(m, h, "prev") = Elem(s, Len(s))
         /\ kind = "tailq" => \A k \in 1..Len(s) : Successor(m, s[k], "prev") = Elem(s, k - 1)
<1>1. /\ \A j \in 1..Len(s) : Node(h, s, j) = s[j]
      /\ Node(h, s, 0) = h /\ Node(h, s, Len(s) + 1) = Null
      /\ Len(s) \in Nat
  BY Nodes
<1>2. \A j \in 0..Len(s) : m[F(Node(h, s, j))] = Node(h, s, j + 1) BY DEF Chain, Forward
<1>3. \A j \in 1..Len(s) + 1 : Elem(s, j) = Node(h, s, j) BY <1>1 DEF Elem
<1>4. Successor(m, h, "next") = Elem(s, 1) BY <1>1, <1>2, <1>3 DEF Successor
<1>5. ASSUME NEW k \in 1..Len(s) PROVE Successor(m, s[k], "next") = Elem(s, k + 1)
  BY <1>1, <1>2, <1>3 DEF Successor
<1>6. ASSUME kind = "tailq"
      PROVE  /\ Successor(m, h, "prev") = Elem(s, Len(s))
             /\ \A k \in 1..Len(s) : Successor(m, s[k], "prev") = Elem(s, k - 1)
  <2>1. /\ m[L(h)] = F(Node(h, s, Len(s)))
        /\ \A j \in 1..Len(s) : m[L(Node(h, s, j))] = F(Node(h, s, j - 1))
    BY <1>1, <1>6 DEF Chain, Backward, LastExact, Doubly, Tailed
  <2>2. \A o : F(o)[1] = o BY DEF F
  <2>3. \A o : Successor(m, o, "prev") = m[m[L(m[L(o)][1])]] BY DEF Successor
  <2>4. m[m[L(h)]] = Null BY <1>1, <1>2, <2>1
  <2>5. \A j \in 1..Len(s) : m[m[L(Node(h, s, j))]] = Node(h, s, j)
    <3>1. \A j \in 1..Len(s) : j - 1 \in 0..Len(s) /\ (j - 1) + 1 = j BY <1>1
    <3> QED BY <1>2, <2>1, <3>1
  <2>6. Successor(m, h, "prev") = m[m[L(Node(h, s, Len(s)))]] BY <2>1, <2>2, <2>3
  <2>7. Successor(m, h, "prev") = Elem(s, Len(s))
    <3>1. CASE Len(s) = 0 BY <3>1, <1>1, <2>4, <2>6 DEF Elem
    <3>2. CASE Len(s) # 0 BY <3>2, <1>1, <2>5, <2>6 DEF Elem
    <3> QED BY <3>1, <3>2
  <2>8. ASSUME NEW k \in 1..Len(s) PROVE Successor(m, s[k], "prev") = Elem(s, k - 1)
    <3>1. Successor(m, s[k], "prev") = m[m[L(Node(h, s, k - 1))]] BY <1>1, <2>1, <2>2, <2>3
    <3>2. CASE k = 1 BY <3>1, <3>2, <1>1, <2>4 DEF Elem
    <3>3. CASE k # 1
      <4>1. k - 1 \in 1..Len(s) BY <3>3, <1>1
      <4> QED BY <3>1, <4>1, <1>1, <2>5 DEF Elem
    <3> QED BY <3>2, <3>3
  <2> QED BY <2>7, <2>8
<1> QED BY <1>4, <1>5, <1>6

\* The loop goes from one element to the next: t is the list after the body,
\* with or without the element the loop is at.
LEMMA LoopMoves ==
  ASSUME NEW s \in Seq(Elements), NEW dir, NEW v, v # Null, NEW w, NEW x, NEW k \in Int,
         LoopAt(s, dir, v, w, x, k), NEW t \in Seq(Elements), NEW z,
         \/ t = s
         \/ k \in 1..Len(s) /\ t = RemoveAt(s, k),
         \A j \in 1..Len(t) : w = t[j] =>
           z = IF dir = "next" THEN Elem(t, j + 1) ELSE Elem(t, j - 1),
         w = Null => z = Null
  PROVE  \E i \in Int : LoopAt(t, dir, w, z, Tail(x), i)
<1>1. k \in 1..Len(s) /\ Len(s) \in Nat /\ x \in Seq(Elements) BY DEF LoopAt, Elem
<1>2. x # <<>> BY <1>1 DEF LoopAt
<1>3. /\ Tail(x) \in Seq(Elements) /\ Len(Tail(x)) = Len(x) - 1
      /\ \A j \in 1..Len(x) - 1 : Tail(x)[j] = x[j + 1]
  BY <1>1, <1>2, HeadTailProperties
<1>4. t # s => /\ Len(t) = Len(s) - 1
               /\ \A j \in 1..Len(s) - 1 : t[j] = IF j < k THEN s[j] ELSE s[j + 1]
  BY <1>1, Cut
<1>5. CASE dir = "next"
  <2> DEFINE i == IF t = s THEN k + 1 ELSE k
  <2>1. i \in 1..Len(t) + 1 /\ w = Elem(t, i) BY <1>1, <1>4, <1>5 DEF LoopAt, Elem
  <2>2. z = Elem(t, i + 1)
    <3>1. CASE i \in 1..Len(t) BY <2>1, <3>1, <1>5 DEF Elem
    <3>2. CASE i = Len(t) + 1 BY <2>1, <3>2 DEF Elem
    <3> QED BY <2>1, <3>1, <3>2
  <2>3. Len(Tail(x)) = Len(t) - i + 1
    <3>1. Len(Tail(x)) = Len(s) - k BY <1>1, <1>3, <1>5 DEF LoopAt
    <3>2. CASE t = s BY <3>1, <3>2, <1>1
    <3>3. CASE t # s BY <3>1, <3>3, <1>1, <1>4
    <3> QED BY <3>2, <3>3
  <2>4. ASSUME NEW j \in 1..Len(Tail(x)) PROVE Tail(x)[j] = t[i + j - 1]
    <3>1. j \in 1..Len(x) - 1 /\ j + 1 \in 1..Len(x) /\ k + (j + 1) - 1 = k + j
      BY <1>1, <1>3, <1>5 DEF LoopAt
    <3>2. Tail(x)[j] = x[j + 1] BY <3>1, <1>3
    <3>3. x[j + 1] = s[k + (j + 1) - 1] BY <3>1, <1>5 DEF LoopAt
    <3>4. Tail(x)[j] = s[k + j] BY <3>1, <3>2, <3>3
    <3>5. CASE t = s
      <4>1. i + j - 1 = k + j BY <3>5, <3>1, <1>1
      <4> QED BY <3>4, <3>5, <4>1
    <3>6. CASE t # s
      <4>1. i + j - 1 = k + j - 1 /\ k + j - 1 \in 1..Len(s) - 1 /\ ~(k + j - 1 < k)
            /\ (k + j - 1) + 1 = k + j
        BY <3>1, <3>6, <1>1, <1>5 DEF LoopAt
      <4>2. t[k + j - 1] = s[(k + j - 1) + 1] BY <3>6, <4>1, <1>4
      <4> QED BY <3>4, <4>1, <4>2
    <3> QED BY <3>5, <3>6
  <2>5. i \in Int BY <1>1
  <2> HIDE DEF i
  <2> QED BY <1>3, <1>5, <2>1, <2>2, <2>3, <2>4, <2>5 DEF LoopAt
<1>6. CASE dir = "prev"
  <2> DEFINE i == k - 1
  <2>1. i \in 0..Len(t) /\ w = Elem(t, i) BY <1>1, <1>4, <1>6 DEF LoopAt, Elem
  <2>2. z = Elem(t, i - 1)
    <3>1. CASE i \in 1..Len(t) BY <2>1, <3>1, <1>6 DEF Elem
    <3>2. CASE i = 0 BY <2>1, <3>2 DEF Elem
    <3> QED BY <2>1, <3>1, <3>2
  <2>3. Len(Tail(x)) = i BY <1>1, <1>3, <1>6 DEF LoopAt
  <2>4. ASSUME NEW j \in 1..Len(Tail(x)) PROVE Tail(x)[j] = t[i - j + 1]
    <3>1. j \in 1..Len(x) - 1 /\ j + 1 \in 1..Len(x) /\ k - (j + 1) + 1 = k - j
          /\ i - j + 1 = k - j /\ k - j \in 1..Len(s) - 1 /\ k - j < k
      BY <1>1, <1>3, <1>6 DEF LoopAt
    <3>2. Tail(x)[j] = x[j + 1] BY <3>1, <1>3
    <3>3. x[j + 1] = s[k - (j + 1) + 1] BY <3>1, <1>6 DEF LoopAt
    <3>4. Tail(x)[j] = s[k - j] BY <3>1, <3>2, <3>3
    <3>5. t[k - j] = s[k - j] BY <3>1, <1>4
    <3> QED BY <3>1, <3>4, <3>5
  <2>5. i \in Int BY <1>1
  <2> HIDE DEF i
  <2> QED BY <1>3, <1>6, <2>1, <2>2, <2>3, <2>4, <2>5 DEF LoopAt
<1> QED BY <1>5, <1>6 DEF LoopAt

----------------------------------------------------------------------------
(* The invariant                                                           *)

QInv ==
  /\ kind \in Kinds
  /\ overlay \in BOOLEAN
  /\ Typed(mem, lists)
  /\ Linking(mem, lists)
  /\ IterOK

\* INIT makes every head the head of the empty list.
LEMMA StartQ == Init => QInv
<1> SUFFICES ASSUME Init PROVE QInv OBVIOUS
<1> USE DEF Init
<1>1. /\ \A h \in Heads : h \in Objects /\ F(h) \in Fields /\ L(h) \in Fields /\ F(h) \in Values
      /\ Objects \cup {Null} \subseteq Values
  BY Addresses DEF Objects, Values
<1>2. /\ \A o : F(o)[1] = o /\ F(o)[2] = "next" /\ Len(F(o)) = 2
      /\ \A o : L(o)[1] = o /\ L(o)[2] = "prev" /\ Len(L(o)) = 2
  BY DEF F, L
<1>3. mem \in [Fields -> Values]
  <2>1. ASSUME NEW c \in Fields
        PROVE  (CASE c[1] \in Heads /\ Len(c) = 2 /\ kind = "circleq" -> c[1]
                  [] c[1] \in Heads /\ c[2] = "prev" /\ Len(c) = 2 /\ Tailed -> F(c[1])
                  [] OTHER -> Null) \in Values
    BY <1>1 DEF Tailed
  <2> QED BY <2>1
<1>4. ASSUME NEW h \in Heads
      PROVE  /\ mem[F(h)] = End(h)
             /\ Tailed => mem[L(h)] = F(h)
             /\ kind = "circleq" => mem[L(h)] = h
  <2>1. kind = "circleq" => mem[F(h)] = h /\ mem[L(h)] = h BY <1>1, <1>2 DEF Tailed
  <2>2. kind # "circleq" => mem[F(h)] = Null BY <1>1, <1>2
  <2>3. Tailed => mem[L(h)] = F(h) BY <1>1, <1>2 DEF Tailed
  <2> QED BY <2>1, <2>2, <2>3 DEF End
<1>5. lists \in [Heads -> Seq(Elements)] /\ \A h \in Heads : lists[h] = <<>> OBVIOUS
<1>6. Typed(mem, lists) BY <1>3, <1>5 DEF Typed, IsInjective, ToSet
<1>7. ASSUME NEW h \in Heads PROVE Chain(mem, h, <<>>)
  <2>1. Node(h, <<>>, 0) = h /\ Node(h, <<>>, 1) = End(h) BY DEF Node
  <2>2. kind = "circleq" => End(h) = h BY DEF End
  <2>3. Len(<<>>) = 0 /\ 0..0 = {0} /\ 1..0 = {} /\ 1..1 = {1} /\ 0 + 1 = 1 /\ 1 - 1 = 0 OBVIOUS
  <2>4. Forward(mem, h, <<>>) BY <1>4, <2>1, <2>3 DEF Forward
  <2>5. Backward(mem, h, <<>>)
    <3>1. \A i \in 1..Len(<<>>) : mem[L(<<>>[i])] = F(Node(h, <<>>, i - 1)) BY <2>3
    <3>2. ASSUME kind = "circleq", NEW i \in 1..Len(<<>>) + 1
          PROVE  mem[L(Node(h, <<>>, i))] = Node(h, <<>>, i - 1)
      <4>1. i = 1 /\ i - 1 = 0 BY <2>3
      <4>2. mem[L(Node(h, <<>>, 1))] = Node(h, <<>>, 0) BY <1>4, <2>1, <2>2, <3>2
      <4> QED BY <4>1, <4>2
    <3> QED BY <3>1, <3>2 DEF Backward
  <2>6. LastExact(mem, h, <<>>) BY <1>4, <2>1, <2>3 DEF LastExact
  <2> QED BY <2>4, <2>5, <2>6 DEF Chain
<1> QED BY <1>5, <1>6, <1>7 DEF QInv, Linking, IterOK

\* A call of any macro, no loop being under way.
LEMMA OperationQ == QInv /\ Operation => QInv'
<1> SUFFICES ASSUME QInv, Operation PROVE QInv' OBVIOUS
<1>1. kind' = kind /\ overlay' = overlay /\ it' = it /\ it = <<>> BY DEF Operation
<1>2. \/ \E h \in Heads, e \in Elements \ Linked : Insert(h, e)
      \/ \E h \in Heads : \E i \in DOMAIN lists[h] : Delete(h, i)
      \/ \E h, g \in Heads : TailqConcat(h, g)
  BY DEF Operation
<1>3. kind \in Kinds /\ Typed(mem, lists) /\ Linking(mem, lists) BY DEF QInv
<1>4. Typed(mem', lists') /\ Linking(mem', lists')
  <2>1. ASSUME NEW h \in Heads, NEW e \in Elements \ Linked, Insert(h, e)
        PROVE  Typed(mem', lists') /\ Linking(mem', lists')
    BY <1>3, <2>1, InsertKeeps
  <2>2. ASSUME NEW h \in Heads, NEW i \in DOMAIN lists[h], Delete(h, i)
        PROVE  Typed(mem', lists') /\ Linking(mem', lists')
    <3>1. i \in 1..Len(lists[h]) BY <1>3 DEF Typed
    <3> QED BY <1>3, <2>2, <3>1, RemovedState DEF Delete
  <2>3. ASSUME NEW h \in Heads, NEW g \in Heads, TailqConcat(h, g)
        PROVE  Typed(mem', lists') /\ Linking(mem', lists')
    BY <1>3, <2>3, ConcatState DEF TailqConcat
  <2> QED BY <1>2, <2>1, <2>2, <2>3
<1>5. Typed(mem, lists)' /\ Linking(mem, lists)'
  BY <1>1, <1>4 DEF Typed, Linking, Chain, Forward, Backward, LastExact, Node, End, Doubly, Tailed
<1> QED BY <1>1, <1>3, <1>5 DEF QInv, IterOK

\* A loop starts at the first or the last element.
LEMMA StartLoopQ ==
  ASSUME QInv, NEW h \in Heads, NEW dir \in {"next", "prev"}, ForeachStart(h, dir)
  PROVE  QInv'
<1> DEFINE s == lists[h]
<1>1. /\ kind # "circleq" /\ (dir = "prev" => kind = "tailq")
      /\ UNCHANGED <<kind, overlay, mem, lists>>
      /\ it' = Loop(mem, h, Successor(mem, h, dir), dir, IF dir = "next" THEN s ELSE Reverse(s))
  BY DEF ForeachStart
<1>2. /\ kind \in Kinds /\ Typed(mem, lists) /\ Linking(mem, lists)
      /\ s \in Seq(Elements) /\ IsInjective(s) /\ Chain(mem, h, s) /\ Len(s) \in Nat
  BY DEF QInv, Typed, Linking
<1> DEFINE v == Successor(mem, h, dir)
           w == IF v = Null THEN Null ELSE Successor(mem, v, dir)
           x == IF dir = "next" THEN s ELSE Reverse(s)
<1>3. it'.head = h /\ it'.dir = dir /\ it'.var = v /\ it'.tvar = w /\ it'.left = x
  BY <1>1 DEF Loop
<1> HIDE DEF s
<1>4. /\ Successor(mem, h, "next") = Elem(s, 1)
      /\ \A k \in 1..Len(s) : Successor(mem, s[k], "next") = Elem(s, k + 1)
      /\ kind = "tailq" => Successor(mem, h, "prev") = Elem(s, Len(s))
      /\ kind = "tailq" => \A k \in 1..Len(s) : Successor(mem, s[k], "prev") = Elem(s, k - 1)
  BY <1>1, <1>2, SuccessorIs
<1>5. \A k \in 1..Len(s) : s[k] # Null BY <1>2, ObjectsAssumption
<1>6. CASE dir = "next"
  <2>1. v = Elem(s, 1) /\ x = s BY <1>4, <1>6
  <2>2. w = Elem(s, 2)
    <3>1. CASE Len(s) = 0 BY <3>1, <2>1 DEF Elem
    <3>2. CASE Len(s) # 0
      <4>1. 1 \in 1..Len(s) /\ v = s[1] BY <3>2, <1>2, <2>1 DEF Elem
      <4> QED BY <4>1, <1>4, <1>5, <1>6
    <3> QED BY <3>1, <3>2
  <2> HIDE DEF v, w, x
  <2>3. LoopAt(s, dir, v, w, x, 1) BY <1>2, <1>6, <2>1, <2>2 DEF LoopAt
  <2> QED BY <1>1, <1>2, <1>3, <2>3
          DEF QInv, IterOK, s, Typed, Linking, Chain, Forward, Backward, LastExact, Node, End,
              Doubly, Tailed
<1>7. CASE dir = "prev"
  <2>1. v = Elem(s, Len(s)) /\ x = Reverse(s) BY <1>1, <1>4, <1>7
  <2>2. w = Elem(s, Len(s) - 1)
    <3>1. CASE Len(s) = 0 BY <3>1, <2>1 DEF Elem
    <3>2. CASE Len(s) # 0
      <4>1. Len(s) \in 1..Len(s) /\ v = s[Len(s)] BY <3>2, <1>2, <2>1 DEF Elem
      <4> QED BY <4>1, <1>1, <1>4, <1>5, <1>7
    <3> QED BY <3>1, <3>2
  <2>3. x \in Seq(Elements) /\ Len(x) = Len(s) /\ \A j \in 1..Len(x) : x[j] = s[Len(s) - j + 1]
    <3>1. Reverse(s) = [j \in 1..Len(s) |-> s[Len(s) - j + 1]] BY DEF Reverse
    <3>2. \A j \in 1..Len(s) : s[Len(s) - j + 1] \in Elements BY <1>2
    <3> HIDE DEF x
    <3> QED BY <1>2, <2>1, <3>1, <3>2
  <2> HIDE DEF v, w, x
  <2>4. LoopAt(s, dir, v, w, x, Len(s)) BY <1>2, <1>7, <2>1, <2>2, <2>3 DEF LoopAt
  <2> QED BY <1>1, <1>2, <1>3, <2>4
          DEF QInv, IterOK, s, Typed, Linking, Chain, Forward, Backward, LastExact, Node, End,
              Doubly, Tailed
<1> QED BY <1>6, <1>7

\* The body leaves the element or moves it, and the loop goes on to the one it
\* had read before.
LEMMA BodyQ == QInv /\ ForeachBody => QInv'
<1> SUFFICES ASSUME QInv, ForeachBody PROVE QInv' OBVIOUS
<1> DEFINE h == it.head
           dir == it.dir
           s == lists[h]
           t == lists'[h]
           v == it.var
           w == it.tvar
           x == it.left
           z == IF w = Null THEN Null ELSE Successor(mem', w, dir)
<1>1. /\ kind' = kind /\ overlay' = overlay /\ it # <<>> /\ v # Null
      /\ it' = Loop(mem', h, w, dir, Tail(x))
  BY DEF ForeachBody
<1>2. /\ kind \in Kinds /\ kind # "circleq" /\ (dir = "prev" => kind = "tailq")
      /\ Typed(mem, lists) /\ Linking(mem, lists) /\ h \in Heads
      /\ \E k \in Int : LoopAt(s, dir, v, w, x, k)
  BY <1>1 DEF QInv, IterOK
<1>3. PICK k \in Int : LoopAt(s, dir, v, w, x, k) BY <1>2
<1>4. s \in Seq(Elements) /\ IsInjective(s) BY <1>2 DEF Typed
<1>5. it'.head = h /\ it'.dir = dir /\ it'.var = w /\ it'.tvar = z /\ it'.left = Tail(x)
  BY <1>1 DEF Loop
<1>6. /\ Typed(mem', lists') /\ Linking(mem', lists')
      /\ t = s \/ (k \in 1..Len(s) /\ t = RemoveAt(s, k))
  <2>1. CASE UNCHANGED <<mem, lists>>
    <3>1. mem' = mem /\ lists' = lists BY <2>1
    <3> QED BY <1>2, <3>1
  <2>2. ASSUME NEW g \in Heads \ {h}, NEW i \in DOMAIN lists[h], Move(h, i, g)
        PROVE  /\ Typed(mem', lists') /\ Linking(mem', lists')
               /\ k \in 1..Len(s) /\ t = RemoveAt(s, k)
    <3> DEFINE m1 == Removed(mem, h, s[i])
               ks == [lists EXCEPT ![h] = RemoveAt(@, i)]
    <3>1. /\ v = s[i] /\ mem' = After(m1, g, g, v)
          /\ lists' = [lists EXCEPT ![h] = RemoveAt(@, i), ![g] = InsertAt(@, 1, v)]
      BY <2>2 DEF Move
    <3>2. i \in 1..Len(s) /\ v \in Elements BY <1>4, <3>1
    <3>3. k = i
      <4>1. k \in 1..Len(s) /\ s[k] = s[i] BY <1>1, <1>3, <3>1 DEF LoopAt, Elem
      <4> QED BY <4>1, <1>4, <3>2 DEF IsInjective
    <3>4. Typed(m1, ks) /\ Linking(m1, ks) /\ v \notin ToSet(RemoveAt(s, i))
      BY <1>2, <3>1, <3>2, RemovedState
    <3>5. /\ ks[h] = RemoveAt(s, i) /\ ks[g] = lists[g] /\ h # g
          /\ \A f \in Heads \ {h} : ks[f] = lists[f]
      BY <1>2 DEF Typed
    <3>6. lists' = [ks EXCEPT ![g] = InsertAt(@, 1, v)] /\ lists'[h] = RemoveAt(s, i)
      BY <1>2, <3>1, <3>5 DEF Typed
    <3> HIDE DEF m1, ks
    <3>7. \A f \in Heads : v \notin ToSet(ks[f])
      <4>1. v \in ToSet(s) BY <1>4, <3>1, <3>2 DEF ToSet
      <4> QED BY <1>2, <3>4, <3>5, <4>1 DEF Typed
    <3>8. /\ ks[g] \in Seq(Elements) /\ IsInjective(ks[g]) /\ Chain(m1, g, ks[g])
          /\ m1 \in [Fields -> Values] /\ 1 \in 1..Len(ks[g]) + 1
      BY <3>4 DEF Typed, Linking
    <3>9. Node(g, ks[g], 1 - 1) = g BY DEF Node
    <3>10. /\ After(m1, g, g, v) \in [Fields -> Values]
           /\ Chain(After(m1, g, g, v), g, InsertAt(ks[g], 1, v))
           /\ \A o \in Objects \ ({g, v} \cup ToSet(ks[g])) :
                After(m1, g, g, v)[F(o)] = m1[F(o)] /\ After(m1, g, g, v)[L(o)] = m1[L(o)]
      <4> DEFINE q == ks[g]
      <4>1. v \notin ToSet(q) BY <3>7
      <4>2. q \in Seq(Elements) /\ IsInjective(q) /\ Chain(m1, g, q)
            /\ m1 \in [Fields -> Values] /\ 1 \in 1..Len(q) + 1 /\ Node(g, q, 1 - 1) = g
        BY <3>8, <3>9
      <4> HIDE DEF q, s, v
      <4>3. /\ After(m1, g, g, v) \in [Fields -> Values]
            /\ Chain(After(m1, g, g, v), g, InsertAt(q, 1, v))
            /\ \A o \in Objects \ ({g, v} \cup ToSet(q)) :
                 After(m1, g, g, v)[F(o)] = m1[F(o)] /\ After(m1, g, g, v)[L(o)] = m1[L(o)]
        BY <1>2, <3>2, <4>1, <4>2, AfterChain
      <4> QED BY <4>3 DEF q
    <3>11. Typed(mem', lists') /\ Linking(mem', lists')
      <4> HIDE DEF s, v, h
      <4>1. /\ Typed(After(m1, g, g, v), [ks EXCEPT ![g] = InsertAt(@, 1, v)])
            /\ Linking(After(m1, g, g, v), [ks EXCEPT ![g] = InsertAt(@, 1, v)])
        BY <1>2, <3>2, <3>4, <3>7, <3>8, <3>10, InsertState
      <4> QED BY <3>1, <3>6, <4>1
    <3> QED BY <3>2, <3>3, <3>6, <3>11
  <2> QED BY <2>1, <2>2 DEF ForeachBody
<1>7. t \in Seq(Elements) /\ IsInjective(t) /\ Chain(mem', h, t)
  BY <1>2, <1>6 DEF Typed, Linking
<1>8. \E i \in Int : LoopAt(t, dir, w, z, Tail(x), i)
  <2>1. /\ \A j \in 1..Len(t) : Successor(mem', t[j], "next") = Elem(t, j + 1)
        /\ kind = "tailq" => \A j \in 1..Len(t) : Successor(mem', t[j], "prev") = Elem(t, j - 1)
    <3> HIDE DEF t, h
    <3> QED BY <1>2, <1>7, SuccessorIs
  <2>2. \A j \in 1..Len(t) : t[j] # Null BY <1>7, ObjectsAssumption
  <2>3. dir \in {"next", "prev"} BY <1>3 DEF LoopAt
  <2>4. \A j \in 1..Len(t) : w = t[j] =>
          z = IF dir = "next" THEN Elem(t, j + 1) ELSE Elem(t, j - 1)
    BY <1>2, <2>1, <2>2, <2>3
  <2>5. w = Null => z = Null OBVIOUS
  <2> HIDE DEF t, s, h, dir, v, w, x, z
  <2> QED BY <1>1, <1>3, <1>4, <1>6, <1>7, <2>4, <2>5, LoopMoves
<1>9. IterOK'
  <2> HIDE DEF v, w, x, z, s
  <2> QED BY <1>1, <1>2, <1>5, <1>8 DEF IterOK
<1>10. Typed(mem, lists)' /\ Linking(mem, lists)'
  BY <1>1, <1>6 DEF Typed, Linking, Chain, Forward, Backward, LastExact, Node, End, Doubly, Tailed
<1> QED BY <1>1, <1>9, <1>10 DEF QInv

\* The lists are linked as intended, and a loop is where it should be, in every
\* state of every execution.
THEOREM ListsKept == Spec => []QInv
<1>1. QInv /\ [Next]_vars => QInv'
  <2> SUFFICES ASSUME QInv, [Next]_vars PROVE QInv' OBVIOUS
  <2>1. CASE Operation BY <2>1, OperationQ
  <2>2. CASE \E h \in Heads, dir \in {"next", "prev"} : ForeachStart(h, dir)
    BY <2>2, StartLoopQ
  <2>3. CASE ForeachBody BY <2>3, BodyQ
  <2>4. CASE ForeachEnd
    BY <2>4 DEF ForeachEnd, QInv, IterOK, Typed, Linking, Chain, Forward, Backward, LastExact,
                Node, End, Doubly, Tailed
  <2>5. CASE UNCHANGED vars
    BY <2>5 DEF vars, QInv, IterOK, Typed, Linking, Chain, Forward, Backward, LastExact,
                Node, End, Doubly, Tailed
  <2> QED BY <2>1, <2>2, <2>3, <2>4, <2>5 DEF Next
<1> QED BY <1>1, StartQ, PTL DEF Spec

\* Every operation on the lists leaves links that spell the intended sequences
\* forwards, backwards and at the tail, for any number of lists and elements.
THEOREM LinksKept == Spec => []Links
<1>1. QInv => Links BY DEF QInv, Linking, Chain, Links
<1> QED BY <1>1, ListsKept, PTL

\* A FOREACH_SAFE loop visits the elements in order, whatever its body moves
\* away from under it.
THEOREM LoopsVisitAll == Spec => []VisitsAll
<1>1. QInv => VisitsAll
  <2> SUFFICES ASSUME QInv, it # <<>>
               PROVE  it.var = IF it.left = <<>> THEN Null ELSE Head(it.left)
    BY DEF VisitsAll
  <2>1. it.head \in Heads /\ lists[it.head] \in Seq(Elements) BY DEF QInv, IterOK, Typed
  <2> DEFINE s == lists[it.head]
  <2>2. PICK k \in Int : LoopAt(s, it.dir, it.var, it.tvar, it.left, k) BY DEF QInv, IterOK
  <2>3. s \in Seq(Elements) /\ Len(s) \in Nat BY <2>1
  <2> HIDE DEF s
  <2>4. CASE it.left = <<>> BY <2>2, <2>3, <2>4 DEF LoopAt, Elem
  <2>5. CASE it.left # <<>>
    <3>1. it.left \in Seq(Elements) /\ Len(it.left) > 0 /\ Head(it.left) = it.left[1]
      BY <2>2, <2>5 DEF LoopAt
    <3>2. it.left[1] = s[k] /\ k \in 1..Len(s) BY <2>2, <2>3, <3>1 DEF LoopAt
    <3> QED BY <2>2, <2>5, <3>1, <3>2 DEF LoopAt, Elem
  <2> QED BY <2>4, <2>5
<1> QED BY <1>1, ListsKept, PTL

\* No operation writes a pointer that points at nothing it may point at, and no
\* element is in two lists or twice in one.
THEOREM QueueTypes == Spec => []TypeOK
<1>1. QInv => TypeOK
  <2> SUFFICES ASSUME QInv PROVE TypeOK OBVIOUS
  <2>1. ASSUME it # <<>> PROVE {it.var, it.tvar} \subseteq Elements \cup {Null}
    <3>1. it.head \in Heads /\ lists[it.head] \in Seq(Elements) BY <2>1 DEF QInv, IterOK, Typed
    <3> DEFINE s == lists[it.head]
    <3>2. PICK k \in Int : LoopAt(s, it.dir, it.var, it.tvar, it.left, k) BY <2>1 DEF QInv, IterOK
    <3>3. \A j : Elem(s, j) \in Elements \cup {Null} BY <3>1 DEF Elem
    <3> QED BY <3>2, <3>3 DEF LoopAt
  <2> QED BY <2>1 DEF QInv, Typed, TypeOK, Values
<1> QED BY <1>1, ListsKept, PTL
=============================================================================
