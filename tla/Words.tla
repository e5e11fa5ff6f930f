------------------------------- MODULE Words -------------------------------
(***************************************************************************)
(* Unsigned machine words.  A word of w bits is the set of the positions,  *)
(* among 0 .. w - 1, that are 1: and, or, xor are the set operations, a    *)
(* shift moves the positions and drops those that leave the word.          *)
(* Arithmetic is modulo 2^w.                                               *)
(***************************************************************************)
EXTENDS Naturals, FiniteSets

\* The powers of 2 below 2^31, which the provers do not compute.
ASSUME PowersOfTwo == 2^0 = 1 /\ \A i \in 0 .. 29 : 2^i \in Nat /\ 2^(i + 1) = 2 * 2^i

Word(w) == SUBSET (0 .. w - 1)
Ones(w) == 0 .. w - 1

Not(x, w) == Ones(w) \ x
Xor(x, y) == (x \ y) \union (y \ x)
Shl(x, k, w) == {i + k : i \in x} \intersect Ones(w)
Shr(x, k) == {i - k : i \in {j \in x : j >= k}}
Cast(x, w) == x \intersect Ones(w)

(* A carry enters position i when both words have a lower position that    *)
(* starts it and one of them has each position in between.                 *)
Plus(x, y, w) ==
  LET either == x \union y
      Carry(i) == \E j \in x \intersect y : j < i /\ (j + 1) .. (i - 1) \subseteq either
  IN {i \in Ones(w) : (i \in Xor(x, y)) # Carry(i)}

Neg(x, w) == Plus(Not(x, w), {0}, w)
Minus(x, y, w) == Plus(x, Neg(y, w), w)

(* The product as the sum of x shifted by each position of m. *)
Times(x, m, w) ==
  LET sum[i \in 0 .. w] ==
        IF i = 0 THEN {}
        ELSE IF i - 1 \in m THEN Plus(sum[i - 1], Shl(x, i - 1, w), w)
        ELSE sum[i - 1]
  IN sum[w]

(* The word of a constant below 2^31, and the number a short word stands for. *)
Const(n) == {i \in 0 .. 30 : (n \div 2^i) % 2 = 1}
Number(x) ==
  LET value[i \in 0 .. 31] ==
        IF i = 0 THEN 0 ELSE value[i - 1] + IF i - 1 \in x THEN 2^(i - 1) ELSE 0
  IN value[31]

(* A byte b repeated over a word of w bits. *)
Repeat(b, w) == {i \in Ones(w) : i % 8 \in b}
============================================================================
