------------------------------ MODULE Booleans ------------------------------
(***************************************************************************)
(* Truth values.  ktypes.h and regsister.h define BK_FALSE and BK_TRUE as  *)
(* 0 and 1; vm.h, which almost every header includes after them, defines   *)
(* them again as handles of two registers, neither of which is 0.  A       *)
(* function returns one of the two constants or the result of a C          *)
(* comparison, in a BK_BOOL (an enum, of 32 bits) or in a BK_BOOLEAN (a    *)
(* handle, of 64 bits); callers combine and test what they get.            *)
(*                                                                         *)
(* `truth` is, as history, what each of two variables is meant to hold.    *)
(***************************************************************************)
EXTENDS Words

VARIABLES
  boolType,   \* the type of both variables
  truth,      \* what each is meant to hold
  cell,       \* the word it holds
  constant    \* those assigned BK_TRUE or BK_FALSE, by name or by an operator

boolVars == <<boolType, truth, cell, constant>>

----------------------------------------------------------------------------
\* Faulty variant: the constant of ktypes.h.
FalseOfKtypes == {}
BK_FALSE == {48}
BK_TRUE  == {0, 48}

Variables == {"a", "b"}
WidthOf == [BK_BOOL |-> 32, BK_BOOLEAN |-> 64]

Holds(w) == w # {}                             \* if (w)
Comparison(b) == IF b THEN {0} ELSE {}
BK_BOOL_FROM(b) == IF b THEN BK_TRUE ELSE BK_FALSE
BK_BOOL_IS_TRUE(w) == w = BK_TRUE
BK_BOOL_IS_FALSE(w) == w = BK_FALSE
BK_BOOL_IS_VALID(w) == BK_BOOL_IS_TRUE(w) \/ BK_BOOL_IS_FALSE(w)

----------------------------------------------------------------------------
BoolInit ==
  /\ boolType \in DOMAIN WidthOf
  /\ truth = [v \in Variables |-> FALSE]
  /\ cell = [v \in Variables |-> {}]
  /\ constant = {}

Assign(v, t, w) ==
  /\ truth' = [truth EXCEPT ![v] = t]
  /\ cell' = [cell EXCEPT ![v] = Cast(w, WidthOf[boolType])]
  /\ UNCHANGED boolType

AssignFrom(v, t, b) == Assign(v, t, BK_BOOL_FROM(b)) /\ constant' = constant \cup {v}

\* return cond ? BK_TRUE : BK_FALSE, as in bk_sched_is_just and BK_FD_EQUAL
Constant(v, t) == AssignFrom(v, t, t)
\* return x == y, as in bk_vm_is_user_address and bk_ipc_id_valid
Compare(v, t) == Assign(v, t, Comparison(t)) /\ constant' = constant \ {v}

\* BK_BOOL_AND, BK_BOOL_OR, BK_BOOL_NOT, BK_BOOL_XOR
And(v) == AssignFrom(v, truth["a"] /\ truth["b"], Holds(cell["a"]) /\ Holds(cell["b"]))
Or(v)  == AssignFrom(v, truth["a"] \/ truth["b"], Holds(cell["a"]) \/ Holds(cell["b"]))
Invert(v, u) == AssignFrom(v, ~truth[u], ~Holds(cell[u]))
Differ(v) == AssignFrom(v, truth["a"] # truth["b"], cell["a"] # cell["b"])

BoolNext ==
  \E v \in Variables :
    \/ \E t \in BOOLEAN : Constant(v, t) \/ Compare(v, t)
    \/ And(v) \/ Or(v) \/ Differ(v)
    \/ \E u \in Variables : Invert(v, u)

BoolSpec == BoolInit /\ [][BoolNext]_boolVars

----------------------------------------------------------------------------
BoolTypeOK ==
  /\ boolType \in DOMAIN WidthOf
  /\ truth \in [Variables -> BOOLEAN]
  /\ \A v \in Variables : cell[v] \subseteq Ones(WidthOf[boolType])
  /\ constant \subseteq Variables

\* Through any sequence of operators an `if` on a BK_BOOL takes the branch that
\* is meant, because the narrow type cuts the constants to 0 and 1, but no
\* BK_BOOL is ever valid, true or false to the tests made for it; in a BK_BOOLEAN
\* every constant is valid and an `if` takes it for true, the result of NOT
\* included, while the result of a comparison is the reverse of both
\* (regsister.h:71-82, vm.h:13-20).
BooleansTold ==
  \A v \in Variables :
    IF boolType = "BK_BOOL"
    THEN (Holds(cell[v]) <=> truth[v]) /\ ~BK_BOOL_IS_VALID(cell[v])
    ELSE IF v \in constant
         THEN Holds(cell[v]) /\ BK_BOOL_IS_VALID(cell[v])
         ELSE (Holds(cell[v]) <=> truth[v]) /\ ~BK_BOOL_IS_VALID(cell[v])
=============================================================================
