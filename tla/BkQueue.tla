------------------------------ MODULE BkQueue ------------------------------
(***************************************************************************)
(* The linked lists of incl/bible/queue.h on which the kernel keeps its     *)
(* processes, tasks, threads, activities, events and pages: singly linked   *)
(* lists and tail queues (SLIST, STAILQ), doubly linked lists and tail      *)
(* queues (LIST, TAILQ) and circular queues (CIRCLEQ).                      *)
(*                                                                         *)
(* The macros are modelled on memory.  A head and the entry of an element   *)
(* both have two fields: "next" is the first or next pointer and "prev" is  *)
(* the last or previous one.  A pointer to a pointer is the field itself,   *)
(* as <<object, field>>.  INSERT_HEAD of the first four kinds does to the   *)
(* head what INSERT_AFTER does to an element, and REMOVE_HEAD and REMOVE    *)
(* differ in the same way.                                                  *)
(***************************************************************************)
EXTENDS Integers, SequencesExt

CONSTANTS Heads, Elements, Null

ASSUME ObjectsAssumption ==
  /\ IsFiniteSet(Elements)
  /\ Null \notin Heads \cup Elements
  /\ Heads \cap Elements = {}

Kinds   == {"slist", "stailq", "list", "tailq", "circleq"}
Objects == Heads \cup Elements

VARIABLES
  kind,    \* the kind of all the lists
  overlay, \* whether the entry is the first member of the element structure
  mem,     \* what each field holds
  lists,   \* per head: the sequence the operations were asked for (history)
  it       \* the FOREACH_SAFE loop under way, if any

vars == <<kind, overlay, mem, lists, it>>

F(o) == <<o, "next">>
L(o) == <<o, "prev">>

\* The field f of the element p points at.  A CIRCLEQ pointer may be a head
\* in disguise; unless the entry comes first, the field is then not one of
\* the head's but lies beyond it.
At(p, f) == IF p \in Heads /\ ~overlay THEN <<p, f, "beyond">> ELSE <<p, f>>

Fields == (Objects \X {"next", "prev"}) \cup (Heads \X {"next", "prev"} \X {"beyond"})

Tailed == kind \in {"stailq", "tailq"}
Doubly == kind \in {"list", "tailq"}

\* The null pointer that ends a list, or the head that closes a circle.
End(h) == IF kind = "circleq" THEN h ELSE Null

----------------------------------------------------------------------------
(* Insertion and removal of the linear kinds, as functions of memory        *)

\* Faulty variant: the element behind the new one keeps its back pointer.
AfterOneWay(m, h, l, e) ==
  LET n  == m[F(l)]
      m1 == IF n = Null /\ Tailed THEN [m EXCEPT ![L(h)] = F(e)] ELSE m
      m2 == IF Doubly THEN [m1 EXCEPT ![L(e)] = F(l)] ELSE m1
  IN  [m2 EXCEPT ![F(e)] = n, ![F(l)] = e]

\* INSERT_AFTER, and INSERT_HEAD when l is the head h.
After(m, h, l, e) ==
  LET n  == m[F(l)]
      m1 == CASE n # Null /\ Doubly -> [m EXCEPT ![L(n)] = F(e)]
              [] n = Null /\ Tailed -> [m EXCEPT ![L(h)] = F(e)]
              [] OTHER -> m
      m2 == IF Doubly THEN [m1 EXCEPT ![L(e)] = F(l)] ELSE m1
  IN  [m2 EXCEPT ![F(e)] = n, ![F(l)] = e]

\* Faulty variant: the tail pointer is set to the wrong field of the element.
AtTailWrong(m, h, e) ==
  LET m1 == IF Doubly THEN [m EXCEPT ![L(e)] = m[L(h)]] ELSE m
  IN  [m1 EXCEPT ![F(e)] = Null, ![m[L(h)]] = e, ![L(h)] = L(e)]

\* INSERT_TAIL writes through the pointer to the last next field.
AtTail(m, h, e) ==
  LET m1 == IF Doubly THEN [m EXCEPT ![L(e)] = m[L(h)]] ELSE m
  IN  [m1 EXCEPT ![F(e)] = Null, ![m[L(h)]] = e, ![L(h)] = F(e)]

Before(m, l, e) ==
  [m EXCEPT ![L(e)] = m[L(l)], ![F(e)] = l, ![m[L(l)]] = e, ![L(l)] = F(e)]

\* Faulty variant: removing the last element leaves the tail pointer at it.
UnchainStale(m, h, p, e) == [m EXCEPT ![F(p)] = m[F(e)]]

\* REMOVE of a singly linked kind, p being what points at e: the head
\* (REMOVE_HEAD) or the element the loop from the first one stops at.
Unchain(m, h, p, e) ==
  LET n == m[F(e)] IN
  IF n = Null /\ Tailed
  THEN [m EXCEPT ![F(p)] = n, ![L(h)] = F(p)]
  ELSE [m EXCEPT ![F(p)] = n]

\* REMOVE of a doubly linked kind.
Unlink(m, h, e) ==
  LET n  == m[F(e)]
      m1 == CASE n # Null -> [m EXCEPT ![L(n)] = m[L(e)]]
              [] n = Null /\ Tailed -> [m EXCEPT ![L(h)] = m[L(e)]]
              [] OTHER -> m
  IN  [m1 EXCEPT ![m[L(e)]] = n]

\* Faulty variant: the second list is not emptied.
ConcatShared(m, h, g) ==
  [m EXCEPT ![m[L(h)]] = m[F(g)], ![L(m[F(g)])] = m[L(h)], ![L(h)] = m[L(g)]]

Concat(m, h, g) ==
  [m EXCEPT ![m[L(h)]] = m[F(g)], ![L(m[F(g)])] = m[L(h)], ![L(h)] = m[L(g)],
            ![F(g)] = Null, ![L(g)] = F(g)]

----------------------------------------------------------------------------
(* CIRCLEQ                                                                 *)

Other(f) == IF f = "next" THEN "prev" ELSE "next"

\* INSERT_HEAD (f is "next") and INSERT_TAIL (f is "prev").
CircleEnd(m, h, e, f) ==
  LET g  == Other(f)
      m1 == [m EXCEPT ![<<e, f>>] = m[<<h, f>>], ![<<e, g>>] = h]
      m2 == IF m[<<h, g>>] = h THEN [m1 EXCEPT ![<<h, g>>] = e]
            ELSE [m1 EXCEPT ![<<m[<<h, f>>], g>>] = e]
  IN  [m2 EXCEPT ![<<h, f>>] = e]

\* INSERT_AFTER (f is "next") and INSERT_BEFORE (f is "prev").
CircleBeside(m, h, l, e, f) ==
  LET g  == Other(f)
      m1 == [m EXCEPT ![<<e, f>>] = m[<<l, f>>], ![<<e, g>>] = l]
      m2 == [m1 EXCEPT ![At(m[<<l, f>>], g)] = e, ![<<l, f>>] = e]
  IN  IF m2[<<h, g>>] = l THEN [m2 EXCEPT ![<<h, g>>] = e] ELSE m2

CircleRemove(m, h, e) ==
  LET m1 == [m EXCEPT ![At(m[L(e)], "next")] = m[F(e)]]
      m2 == [m1 EXCEPT ![At(m[F(e)], "prev")] = m[L(e)]]
      m3 == IF m2[L(h)] = e THEN [m2 EXCEPT ![L(h)] = m2[L(e)]] ELSE m2
  IN  IF m3[F(h)] = e THEN [m3 EXCEPT ![F(h)] = m3[F(e)]] ELSE m3

----------------------------------------------------------------------------
(* The operations                                                          *)

\* INIT of every head; the fields of elements hold anything, here null.
Init ==
  /\ kind \in Kinds
  /\ overlay \in BOOLEAN
  /\ mem = [c \in Fields |->
              CASE c[1] \in Heads /\ Len(c) = 2 /\ kind = "circleq" -> c[1]
                [] c[1] \in Heads /\ c[2] = "prev" /\ Len(c) = 2 /\ Tailed -> F(c[1])
                [] OTHER -> Null]
  /\ lists = [h \in Heads |-> <<>>]
  /\ it = <<>>

Linked == UNION {ToSet(lists[h]) : h \in Heads}

Put(h, e, i) == lists' = [lists EXCEPT ![h] = InsertAt(@, i, e)]

InsertHead(h, e) ==
  /\ mem' = IF kind = "circleq" THEN CircleEnd(mem, h, e, "next") ELSE After(mem, h, h, e)
  /\ Put(h, e, 1)

InsertTail(h, e) ==
  /\ kind \in {"stailq", "tailq", "circleq"}
  /\ mem' = IF kind = "circleq" THEN CircleEnd(mem, h, e, "prev") ELSE AtTail(mem, h, e)
  /\ Put(h, e, Len(lists[h]) + 1)

InsertAfter(h, i, e) ==
  LET l == lists[h][i] IN
  /\ mem' = IF kind = "circleq" THEN CircleBeside(mem, h, l, e, "next") ELSE After(mem, h, l, e)
  /\ Put(h, e, i + 1)

InsertBefore(h, i, e) ==
  LET l == lists[h][i] IN
  /\ kind \in {"list", "tailq", "circleq"}
  /\ mem' = IF kind = "circleq" THEN CircleBeside(mem, h, l, e, "prev") ELSE Before(mem, l, e)
  /\ Put(h, e, i)

\* The object whose next field the loop of SLIST_REMOVE finds to hold e.
Pointing(m, h, e) == CHOOSE p \in {h} \cup ToSet(lists[h]) : m[F(p)] = e

Removed(m, h, e) ==
  CASE kind = "circleq" -> CircleRemove(m, h, e)
    [] Doubly -> Unlink(m, h, e)
    [] OTHER -> Unchain(m, h, Pointing(m, h, e), e)

Delete(h, i) ==
  /\ mem' = Removed(mem, h, lists[h][i])
  /\ lists' = [lists EXCEPT ![h] = RemoveAt(@, i)]

TailqConcat(h, g) ==
  /\ kind = "tailq"
  /\ h # g
  /\ mem' = IF mem[F(g)] # Null THEN Concat(mem, h, g) ELSE mem
  /\ lists' = [lists EXCEPT ![h] = @ \o lists[g], ![g] = <<>>]

----------------------------------------------------------------------------
(* FOREACH_SAFE: the loop reads the successor of an element before its body *)
(* runs, and the body may move the element to the head of another list.     *)

\* TAILQ_LAST and TAILQ_PREV read the field a pointer points at, and its
\* neighbour, as if they were a head.
Successor(m, o, dir) == IF dir = "next" THEN m[F(o)] ELSE m[m[L(m[L(o)][1])]]

\* The loop over h at element v, in memory m; left is what is still to come.
Loop(m, h, v, dir, left) ==
  [head |-> h, var |-> v, tvar |-> IF v = Null THEN Null ELSE Successor(m, v, dir),
   dir |-> dir, left |-> left]

ForeachStart(h, dir) ==
  /\ it = <<>>
  /\ kind # "circleq"
  /\ dir = "prev" => kind = "tailq"
  /\ it' = Loop(mem, h, Successor(mem, h, dir), dir,
                IF dir = "next" THEN lists[h] ELSE Reverse(lists[h]))
  /\ UNCHANGED <<kind, overlay, mem, lists>>

\* The body's move of the element the loop is at to the head of g.
Move(h, i, g) ==
  /\ it.var = lists[h][i]
  /\ mem' = After(Removed(mem, h, it.var), g, g, it.var)
  /\ lists' = [lists EXCEPT ![h] = RemoveAt(@, i), ![g] = InsertAt(@, 1, it.var)]

\* Faulty variant: FOREACH, which reads the successor after the body.
ForeachBodyUnsafe ==
  /\ it # <<>>
  /\ it.var # Null
  /\ \/ UNCHANGED <<mem, lists>>
     \/ \E g \in Heads \ {it.head}, i \in DOMAIN lists[it.head] : Move(it.head, i, g)
  /\ it' = Loop(mem', it.head, Successor(mem', it.var, it.dir), it.dir, Tail(it.left))
  /\ UNCHANGED <<kind, overlay>>

\* The body leaves the element where it is, or moves it to the head of g.
ForeachBody ==
  /\ it # <<>>
  /\ it.var # Null
  /\ \/ UNCHANGED <<mem, lists>>
     \/ \E g \in Heads \ {it.head}, i \in DOMAIN lists[it.head] : Move(it.head, i, g)
  /\ it' = Loop(mem', it.head, it.tvar, it.dir, Tail(it.left))
  /\ UNCHANGED <<kind, overlay>>

ForeachEnd ==
  /\ it # <<>>
  /\ it.var = Null
  /\ it' = <<>>
  /\ UNCHANGED <<kind, overlay, mem, lists>>

----------------------------------------------------------------------------
Insert(h, e) ==
  \/ InsertHead(h, e)
  \/ InsertTail(h, e)
  \/ \E i \in DOMAIN lists[h] : InsertAfter(h, i, e) \/ InsertBefore(h, i, e)

\* A caller inserts an element that is in no list, and not while it iterates.
Operation ==
  /\ it = <<>>
  /\ \/ \E h \in Heads, e \in Elements \ Linked : Insert(h, e)
     \/ \E h \in Heads : \E i \in DOMAIN lists[h] : Delete(h, i)
     \/ \E h, g \in Heads : TailqConcat(h, g)
  /\ UNCHANGED <<kind, overlay, it>>

Next ==
  \/ Operation
  \/ \E h \in Heads, dir \in {"next", "prev"} : ForeachStart(h, dir)
  \/ ForeachBody
  \/ ForeachEnd

Spec == Init /\ [][Next]_vars

----------------------------------------------------------------------------
(* Properties                                                              *)

\* The type invariant.
TypeOK ==
  /\ kind \in Kinds
  /\ overlay \in BOOLEAN
  /\ mem \in [Fields -> Objects \cup {Null} \cup (Objects \X {"next"})]
  /\ lists \in [Heads -> Seq(Elements)]
  /\ \A h \in Heads : IsInjective(lists[h])
  /\ \A h, g \in Heads : h # g => ToSet(lists[h]) \cap ToSet(lists[g]) = {}
  /\ it # <<>> => {it.var, it.tvar} \subseteq Elements \cup {Null}

\* The head, the elements of the list s in order, and what comes after them.
Node(h, s, i) == IF i = 0 THEN h ELSE IF i > Len(s) THEN End(h) ELSE s[i]

\* Whatever was inserted, removed, moved and concatenated in whatever order,
\* the links lead from the head through what the list should hold, in the
\* order asked for, to its end.
Forward(m, h, s) == \A i \in 0..Len(s) : m[F(Node(h, s, i))] = Node(h, s, i + 1)

\* Backwards too, where the kind has a way back: no operation updates one
\* direction and forgets the other.
Backward(m, h, s) ==
  /\ Doubly => \A i \in 1..Len(s) : m[L(s[i])] = F(Node(h, s, i - 1))
  /\ kind = "circleq" => \A i \in 1..Len(s) + 1 : m[L(Node(h, s, i))] = Node(h, s, i - 1)

\* The object whose next field the last pointer of a tail queue points at is
\* the last element, or the head itself while the list is empty.
LastExact(m, h, s) == Tailed => m[L(h)] = F(Node(h, s, Len(s)))

\* The links of every list spell the intended sequence forwards, backwards and
\* at the tail, through any sequence of insertions, removals, moves and
\* concatenations.
Links ==
  \A h \in Heads : /\ Forward(mem, h, lists[h])
                  /\ Backward(mem, h, lists[h])
                  /\ LastExact(mem, h, lists[h])

\* queue.h:55: the loop allows removal during the iteration: it visits each
\* element of the list once and in order, even when its body moves elements
\* to another list, whose links then are that list's.
VisitsAll == it # <<>> => it.var = IF it.left = <<>> THEN Null ELSE Head(it.left)
============================================================================
