----------------------------- MODULE ReadyQueue -----------------------------
(***************************************************************************)
(* What a ready queue ordered by Virtual Fire promises, with no tree: a     *)
(* sequence of nodes with their keys, kept in increasing order of the key   *)
(* and, among equal keys, in the order of arrival.  Choosing a node         *)
(* observes the head and leaves it in the queue.                            *)
(***************************************************************************)
EXTENDS Naturals, SequencesExt

CONSTANTS CPUs, Blocks, Fires, Nil

VARIABLES
  queue,   \* sequence of [n |-> a node, f |-> its key]
  chosen   \* per CPU: the node it was last given

Queued == {queue[i].n : i \in DOMAIN queue}

Init ==
  /\ queue = <<>>
  /\ chosen = [c \in CPUs |-> Nil]

\* n goes behind every node whose key is not greater than its own.
Enter(n, f) ==
  LET before == Cardinality({i \in DOMAIN queue : queue[i].f <= f}) IN
  /\ n \notin Queued
  /\ queue' = InsertAt(queue, before + 1, [n |-> n, f |-> f])
  /\ UNCHANGED chosen

Leave(n) ==
  /\ \E i \in DOMAIN queue : queue[i].n = n /\ queue' = RemoveAt(queue, i)
  /\ UNCHANGED chosen

Choose(c) ==
  /\ chosen' = [chosen EXCEPT ![c] = IF queue = <<>> THEN Nil ELSE Head(queue).n]
  /\ UNCHANGED queue

Next ==
  \/ \E n \in Blocks, f \in Fires : Enter(n, f)
  \/ \E n \in Blocks : Leave(n)
  \/ \E c \in CPUs : Choose(c)

Spec == Init /\ [][Next]_<<queue, chosen>>
=============================================================================
