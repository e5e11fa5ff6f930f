---------------------------- MODULE MCTreeSched ----------------------------
(* Instances of TreeSched for TLC. *)
EXTENDS TreeSchedProps, TLC

\* Blocks, entities and CPUs are interchangeable in the safety runs.
Symmetry == Permutations(Nodes) \cup Permutations(Entities) \cup Permutations(CPUs)

\* The links and colour of a node out of the tree are dead: insertion sets
\* them all before anything reads them.
Live == members \cup {Nil}
LiveView ==
  <<lock, root, [n \in Live |-> <<link[n], colour[n]>>], count, members, node, cpu, clock>>

\* Balance runs start with every node created and updated to a key of its
\* own (its number), which fixes the shape of the tree by its history only.
Created == InitWith([n \in Blocks |-> IF n = Base THEN 0 ELSE n],
                    [n \in Blocks |-> IF n = Base THEN None ELSE n],
                    [e \in Entities |-> e])
CreatedSpec == Created /\ [][Next]_vars
FairCreatedSpec == CreatedSpec /\ Fairness

AllCalls      == {"insert", "remove", "pick", "update", "finish", "tune"}
CallsNoFinish == {"insert", "remove", "pick", "update"}
CallsNoUpdate == {"insert", "remove", "pick"}
TreeCalls     == {"insert", "remove"}
=============================================================================
