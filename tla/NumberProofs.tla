---------------------------- MODULE NumberProofs -----------------------------
(***************************************************************************)
(* Proofs about what is computed with numbers and words.  VirtualFire, for *)
(* words of any width, a history of any length and any parameters: what    *)
(* the lag history holds, that virtual time is always 0, and so is mercy   *)
(* while updates come in the order of their times, and how exact the       *)
(* fixed-point formulas are.  BitOps: what it counts and finds in every    *)
(* word, and its fields.  ByteOrder: how it carries every value.  FdSet:   *)
(* the arrays stand for their sets, of any size, and no walk misses a      *)
(* member.  CString: what its functions copy, whatever the overlap and the *)
(* bound, in a memory of any size.                                         *)
(***************************************************************************)
EXTENDS VirtualFire, BitOps, ByteOrder, FdSet, CString, SequenceTheorems, FiniteSetTheorems,
        WellFoundedInduction, TLAPS

----------------------------------------------------------------------------
(* Numbers                                                                 *)

\* A set of numbers that is not empty has a least one.
LEMMA LeastOf ==
  ASSUME NEW S \in SUBSET Nat, S # {}
  PROVE  \E l \in S : \A m \in S : l <= m
<1>1. PICK l \in S : \A m \in S : ~(<<m, l>> \in OpToRel(<, Nat))
  BY NatLessThanWellFounded, WFMin
<1>2. \A m \in S : ~(m < l) BY <1>1 DEF OpToRel
<1> QED BY <1>2

\* Division with remainder, and that there is one remainder only.
LEMMA Quotient ==
  ASSUME NEW m \in Nat, m > 0, NEW a \in Int
  PROVE  a = m * (a \div m) + (a % m) /\ a % m \in 0..(m - 1) /\ a \div m \in Int
OBVIOUS

LEMMA Remainder ==
  ASSUME NEW m \in Nat, m > 0, NEW q \in Int, NEW r \in 0..(m - 1), NEW a \in Int, a = m * q + r
  PROVE  a % m = r /\ a \div m = q
<1> DEFINE d == a \div m
<1>1. a = m * d + (a % m) /\ a % m \in 0..(m - 1) /\ d \in Int BY Quotient
<1> HIDE DEF d
<1>2. d = q
  <2>1. CASE d > q
    <3>1. d - q - 1 \in Nat BY <1>1, <2>1
    <3>2. PICK e \in Nat : e = d - q - 1 BY <3>1
    <3>3. d = q + 1 + e BY <1>1, <3>2
    <3>4. m * d = m * q + m + m * e /\ m * e >= 0 BY <3>2, <3>3
    <3> QED BY <1>1, <3>4
  <2>2. CASE d < q
    <3>1. PICK e \in Nat : e = q - d - 1 BY <1>1, <2>2
    <3>2. q = d + 1 + e BY <1>1, <3>1
    <3>3. m * q = m * d + m + m * e /\ m * e >= 0 BY <1>1, <3>1, <3>2
    <3> QED BY <1>1, <3>3
  <2> QED BY <1>1, <2>1, <2>2
<1>3. m * d = m * q BY <1>2
<1> QED BY <1>1, <1>2, <1>3 DEF d

\* The unit and the number of words.
LEMMA Units ==
  /\ One \in Nat /\ One >= 2
  /\ Modulus \in Nat /\ Modulus = One * One /\ Modulus > One /\ Modulus >= 4
<1>1. One \in Nat /\ One >= 2 BY ParamsAssumption
<1> DEFINE o == One
<1>2. PICK k \in Nat : o = 2 + k
  <2>1. One - 2 \in Nat /\ One = 2 + (One - 2) BY <1>1
  <2> QED BY <2>1
<1> HIDE DEF o
<1>3. o * o = 4 + 4 * k + k * k /\ k * k \in Nat BY <1>2
<1>4. o * o \in Nat /\ o * o > o /\ o * o >= 4 BY <1>2, <1>3
<1> QED BY <1>1, <1>4 DEF o, Modulus

\* Results are words.
LEMMA WordResults ==
  ASSUME NEW a \in Int, NEW b \in Int
  PROVE  /\ a % Modulus \in 0 .. Modulus - 1
         /\ Mul(a, b) \in 0 .. Modulus - 1
         /\ FromInt(a) \in Int
         /\ (b >= 0 => Div(a, b) \in 0 .. Modulus - 1)
         /\ Negate(a) \in 0 .. Modulus - 1
         /\ Abs(a) \in Int /\ ToInt(a) \in Int
<1> DEFINE m == Modulus
           o == One
<1>1. o \in Nat /\ o > 0 /\ m \in Nat /\ m > 0 BY Units
<1> HIDE DEF m, o
<1>2. a * b \in Int /\ a * o \in Int /\ 0 - a \in Int BY <1>1
<1>3. \A x \in Int : x % m \in 0 .. m - 1 /\ x \div o \in Int /\ x % o \in Int BY <1>1
<1>4. a % o \in Int BY <1>3
<1>5. (a % o) * o \in Int BY <1>1, <1>4
<1>6. b > 0 => (a * o) \div b \in Int BY <1>2
<1>7. b >= 0 => Div(a, b) \in 0 .. m - 1 BY <1>1, <1>3, <1>6 DEF Div, o, m
<1>8. Negate(a) \in 0 .. m - 1 BY <1>2, <1>3 DEF Negate, m
<1> QED BY <1>2, <1>3, <1>5, <1>7, <1>8 DEF Mul, FromInt, Abs, ToInt, o, m

\* What is multiplied by 0.
LEMMA MulZero ==
  ASSUME NEW b \in Int
  PROVE  Mul(0, b) = 0 /\ ToInt(0) = 0 /\ Abs(0) = 0
<1> DEFINE m == Modulus
           o == One
<1>1. o \in Nat /\ o > 0 /\ m \in Nat /\ m >= 4 BY Units
<1> HIDE DEF m, o
<1>2. 0 * b = 0 /\ 0 \div o = 0 /\ 0 % m = 0 BY <1>1
<1>3. m \div 2 > 0 /\ m \div 2 \in Int BY <1>1
<1>4. (0 * b) \div o = 0 BY <1>2
<1>5. ((0 * b) \div o) % m = 0 BY <1>2, <1>4
<1>6. Mul(0, b) = 0 BY <1>5 DEF Mul, o, m
<1>7. ToInt(0) = 0 BY <1>2 DEF ToInt, o
<1>8. ~(0 >= m \div 2) BY <1>3
<1>9. Abs(0) = 0 BY <1>8 DEF Abs, m
<1> QED BY <1>6, <1>7, <1>9

LEMMA ExpWord == ASSUME NEW x \in Int PROVE Exp(x) \in 0 .. Modulus - 1
<1> DEFINE x2 == Mul(x, x)
           x3 == Mul(x2, x)
           x4 == Mul(x3, x)
           d2 == Div(x2, FromInt(2))
           d3 == Div(x3, FromInt(6))
           d4 == Div(x4, FromInt(24))
<1>1. One \in Nat /\ Modulus \in Nat BY Units
<1>2. x2 \in Int /\ x3 \in Int /\ x4 \in Int BY <1>1, WordResults
<1>3. FromInt(2) \in Nat /\ FromInt(6) \in Nat /\ FromInt(24) \in Nat
  <2>1. \A n \in Nat : FromInt(n) \in Nat
    <3> TAKE n \in Nat
    <3> DEFINE o == One
    <3>1. o \in Nat /\ o > 0 BY Units
    <3> HIDE DEF o
    <3>2. n % o \in Nat BY <3>1
    <3>3. (n % o) * o \in Nat BY <3>1, <3>2
    <3> QED BY <3>3 DEF FromInt, o
  <2> QED BY <2>1
<1> HIDE DEF x2, x3, x4
<1>4. d2 \in Int /\ d3 \in Int /\ d4 \in Int
  <2>1. \A a \in Int, b \in Nat : Div(a, b) \in Int
    <3> TAKE a \in Int, b \in Nat
    <3>1. Div(a, b) \in 0 .. Modulus - 1 BY WordResults
    <3> QED BY <1>1, <3>1
  <2> QED BY <1>2, <1>3, <2>1
<1> HIDE DEF d2, d3, d4
<1>5. One + x + d2 + d3 + d4 \in Int BY <1>1, <1>4
<1>6. (One + x + d2 + d3 + d4) % Modulus \in 0 .. Modulus - 1 BY <1>5, WordResults
<1> QED BY <1>6 DEF Exp, x2, x3, x4, d2, d3, d4

\* The sum of nothing, and of one word.
LEMMA SumOne ==
  ASSUME NEW n, NEW D \in SUBSET {n}, NEW f, f = [i \in D |-> 0]
  PROVE  Sum(f) = 0
<1> DEFINE iter == CHOOSE g : g = [s \in SUBSET D |->
                     IF s = {} THEN 0
                     ELSE LET x == CHOOSE x \in s : TRUE
                          IN  (f[x] + g[s \ {x}]) % Modulus]
           zero == [s \in SUBSET D |-> 0]
<1>1. 0 % Modulus = 0 BY Units
<1>2. zero = [s \in SUBSET D |->
                     IF s = {} THEN 0
                     ELSE LET x == CHOOSE x \in s : TRUE
                          IN  (f[x] + zero[s \ {x}]) % Modulus]
  <2>1. ASSUME NEW s \in SUBSET D, s # {}
        PROVE (LET x == CHOOSE x \in s : TRUE IN (f[x] + zero[s \ {x}]) % Modulus) = 0
    <3> DEFINE x == CHOOSE x \in s : TRUE
    <3>1. x \in s BY <2>1
    <3> HIDE DEF x
    <3>2. f[x] = 0 /\ zero[s \ {x}] = 0 BY <3>1
    <3> QED BY <1>1, <3>2 DEF x
  <2> QED BY <2>1
<1>3. iter = [s \in SUBSET D |->
                     IF s = {} THEN 0
                     ELSE LET x == CHOOSE x \in s : TRUE
                          IN  (f[x] + iter[s \ {x}]) % Modulus]
  <2> HIDE DEF zero
  <2> QED BY <1>2
<1> HIDE DEF iter
<1>4. iter[{}] = 0 BY <1>3
<1>5. D # {} => iter[D] = 0
  <2> SUFFICES ASSUME D # {} PROVE iter[D] = 0 OBVIOUS
  <2> DEFINE x == CHOOSE x \in D : TRUE
  <2>1. x \in D /\ D \ {x} = {} OBVIOUS
  <2> HIDE DEF x
  <2>2. iter[D] = (f[x] + iter[D \ {x}]) % Modulus BY <1>3 DEF x
  <2>3. f[x] = 0 BY <2>1
  <2> QED BY <1>1, <1>4, <2>1, <2>2, <2>3
<1>6. iter[D] = 0 BY <1>4, <1>5
<1>7. DOMAIN f = D OBVIOUS
<1> QED BY <1>6, <1>7 DEF iter, Sum, FoldFunction, FoldFunctionOnSet, MapThenFoldSet

----------------------------------------------------------------------------
(* The walk over the history                                               *)

\* g holds the first N entries on the way from first.
Walked(g, N, first, links) == g[1] = first /\ \A i \in 2 .. N : g[i] = links[g[i - 1]]

LeadBack(C, links) == \A c \in C : links[c] \in C

\* What links lead from an entry of C to entries of C can be walked any
\* number of steps.
LEMMA WalkExists ==
  ASSUME NEW C, NEW first \in C, NEW links, LeadBack(C, links)
  PROVE  \A N \in Nat : N >= 1 => \E g \in [1 .. N -> C] : Walked(g, N, first, links)
<1> USE DEF Walked, LeadBack
<1> DEFINE P(n) == \E g \in [1 .. n -> C] : Walked(g, n, first, links)
           S == {n \in Nat : n >= 1 /\ ~P(n)}
<1>1. S = {}
  <2> SUFFICES ASSUME S # {} PROVE FALSE OBVIOUS
  <2>1. S \in SUBSET Nat OBVIOUS
  <2>2. PICK l \in S : \A m \in S : l <= m
    <3> HIDE DEF S
    <3> QED BY <2>1, LeastOf
  <2>3. l \in Nat /\ l >= 1 /\ ~P(l) BY <2>2
  <2>4. l # 1
    <3>1. P(1)
      <4> DEFINE g == [i \in 1 .. 1 |-> first]
      <4>1. g \in [1 .. 1 -> C] /\ g[1] = first /\ \A i \in 2 .. 1 : g[i] = links[g[i - 1]] OBVIOUS
      <4> QED BY <4>1
    <3> HIDE DEF P
    <3> QED BY <2>3, <3>1
  <2>5. l - 1 \in Nat /\ l - 1 >= 1 BY <2>3, <2>4
  <2>6. P(l - 1)
    <3> HIDE DEF P
    <3>1. l - 1 \notin S BY <2>2, <2>3
    <3> QED BY <2>5, <3>1
  <2>7. PICK g \in [1 .. l - 1 -> C] :
          g[1] = first /\ \A i \in 2 .. l - 1 : g[i] = links[g[i - 1]]
    BY <2>6
  <2> DEFINE z == links[g[l - 1]]
             h == [i \in 1 .. l |-> IF i < l THEN g[i] ELSE z]
  <2>8. z \in C BY <2>5, <2>7
  <2> HIDE DEF z
  <2>9. h \in [1 .. l -> C] BY <2>3, <2>8
  <2>10. h[1] = first BY <2>3, <2>4, <2>7
  <2>11. ASSUME NEW i \in 2 .. l PROVE h[i] = links[h[i - 1]]
    <3>1. i - 1 \in 1 .. l - 1 /\ i - 1 < l BY <2>3
    <3>2. h[i - 1] = g[i - 1] BY <2>3, <3>1
    <3>3. CASE i < l
      <4>1. i \in 2 .. l - 1 BY <2>3, <3>3
      <4>2. h[i] = g[i] BY <3>3
      <4> QED BY <2>7, <3>2, <4>1, <4>2
    <3>4. CASE i = l
      <4>1. h[l] = z BY <2>3
      <4> QED BY <3>2, <3>4, <4>1 DEF z
    <3> QED BY <2>3, <3>3, <3>4
  <2> HIDE DEF h
  <2>12. P(l) BY <2>9, <2>10, <2>11
  <2> QED BY <2>3, <2>12
<1> TAKE N \in Nat
<1> HAVE N >= 1
<1>2. N \notin S BY <1>1
<1> HIDE DEF P
<1>3. P(N) BY <1>2
<1> QED BY <1>3 DEF P

\* A list that ends is walked to its end.
LEMMA FollowChain ==
  ASSUME NEW n \in 0 .. HistoryMax, NEW q \in [1 .. n -> Entries], NEW first, NEW links,
         first = (IF n = 0 THEN End ELSE q[1]),
         \A i \in 1 .. n : links[q[i]] = IF i = n THEN End ELSE q[i + 1]
  PROVE  Follow(first, links) = q
<1> DEFINE K == HistoryMax + 2
           w == [i \in 1 .. K |-> IF i <= n THEN q[i] ELSE End]
           at == CHOOSE g : g = [i \in 1 .. K |->
                   IF i = 1 THEN first ELSE IF g[i - 1] = End THEN End ELSE links[g[i - 1]]]
<1>1. HistoryMax \in Nat /\ n \in Nat /\ K \in Nat /\ n < K - 1 BY FormatAssumption
<1> HIDE DEF K
<1>2. \A e \in Entries : e # End BY <1>1 DEF Entries, End
<1>3. ASSUME NEW i \in 1 .. K
      PROVE  w[i] = IF i = 1 THEN first ELSE IF w[i - 1] = End THEN End ELSE links[w[i - 1]]
  <2>1. CASE i = 1
    <3>1. w[1] = first BY <1>1
    <3> QED BY <2>1, <3>1
  <2>2. CASE i # 1 /\ i - 1 <= n
    <3>1. i - 1 \in 1 .. n /\ i - 1 \in 1 .. K BY <1>1, <2>2
    <3>2. w[i - 1] = q[i - 1] /\ w[i - 1] # End BY <1>2, <3>1
    <3>3. links[q[i - 1]] = IF i - 1 = n THEN End ELSE q[(i - 1) + 1] BY <3>1
    <3>4. i \in Int /\ (i - 1) + 1 = i OBVIOUS
    <3>5. i - 1 = n => w[i] = End BY <1>1, <3>4
    <3>6. i - 1 # n => w[i] = q[i] BY <1>1, <3>1, <3>4
    <3>7. links[q[i - 1]] = w[i] BY <3>3, <3>4, <3>5, <3>6
    <3> HIDE DEF w
    <3> QED BY <2>2, <3>2, <3>7
  <2>3. CASE i # 1 /\ ~(i - 1 <= n)
    <3>1. i - 1 \in 1 .. K /\ ~(i <= n) BY <1>1, <2>3
    <3>2. w[i - 1] = End /\ w[i] = End BY <2>3, <3>1
    <3> HIDE DEF w
    <3> QED BY <2>3, <3>2
  <2> QED BY <2>1, <2>2, <2>3
<1>4. w = [i \in 1 .. K |->
             IF i = 1 THEN first ELSE IF w[i - 1] = End THEN End ELSE links[w[i - 1]]]
  <2>1. w = [i \in 1 .. K |-> w[i]] OBVIOUS
  <2> HIDE DEF w
  <2> QED BY <1>3, <2>1
<1>5. at = [i \in 1 .. K |->
              IF i = 1 THEN first ELSE IF at[i - 1] = End THEN End ELSE links[at[i - 1]]]
  <2> HIDE DEF w
  <2> QED BY <1>4
<1> HIDE DEF at
<1>6. \A i \in 1 .. K : at[i] = w[i]
  <2> DEFINE S == {i \in 1 .. K : at[i] # w[i]}
  <2>1. S = {}
    <3> SUFFICES ASSUME S # {} PROVE FALSE OBVIOUS
    <3>1. S \in SUBSET Nat BY <1>1
    <3>2. PICK l \in S : \A m \in S : l <= m
      <4> HIDE DEF S
      <4> QED BY <3>1, LeastOf
    <3>3. l \in 1 .. K /\ at[l] # w[l] BY <3>2
    <3> HIDE DEF w
    <3>4. CASE l = 1 BY <1>3, <1>5, <3>3, <3>4
    <3>5. CASE l # 1
      <4>1. l - 1 \in 1 .. K /\ ~(l <= l - 1) BY <1>1, <3>3, <3>5
      <4>2. l - 1 \notin S
        <5> HIDE DEF S
        <5> QED BY <3>2, <4>1
      <4>3. at[l - 1] = w[l - 1] BY <4>1, <4>2
      <4>4. at[l] = IF at[l - 1] = End THEN End ELSE links[at[l - 1]] BY <1>5, <3>3, <3>5
      <4>5. w[l] = IF w[l - 1] = End THEN End ELSE links[w[l - 1]] BY <1>3, <3>3, <3>5
      <4> QED BY <3>3, <4>3, <4>4, <4>5
    <3> QED BY <3>4, <3>5
  <2> QED BY <2>1
<1>7. {i \in 1 .. K : at[i] # End} = 1 .. n
  <2>1. \A i \in 1 .. K : w[i] # End <=> i <= n
    <3> TAKE i \in 1 .. K
    <3>1. CASE i <= n
      <4>1. i \in 1 .. n BY <3>1
      <4>2. w[i] = q[i] BY <3>1
      <4> QED BY <1>2, <3>1, <4>1, <4>2
    <3>2. CASE ~(i <= n) BY <3>2
    <3> QED BY <3>1, <3>2
  <2> HIDE DEF w
  <2> QED BY <1>1, <1>6, <2>1
<1>8. Follow(first, links) = [i \in {i \in 1 .. K : at[i] # End} |-> at[i]] BY DEF Follow, at, K
<1>9. [i \in 1 .. n |-> at[i]] = q
  <2>1. \A i \in 1 .. n : at[i] = q[i] BY <1>1, <1>6
  <2> QED BY <2>1
<1> QED BY <1>7, <1>8, <1>9

\* Links that lead back are walked for ever.
LEMMA FollowLoop ==
  ASSUME NEW C \in SUBSET Entries, NEW first \in C, NEW links, LeadBack(C, links)
  PROVE  Loops(first, links)
<1> DEFINE K == HistoryMax + 2
           at == CHOOSE g : g = [i \in 1 .. K |->
                   IF i = 1 THEN first ELSE IF g[i - 1] = End THEN End ELSE links[g[i - 1]]]
<1>1. HistoryMax \in Nat /\ K \in Nat /\ K >= 1 BY FormatAssumption
<1>2. K > HistoryMax + 1 BY <1>1
<1> HIDE DEF K
<1>3. \A c \in C : c # End BY <1>1 DEF Entries, End
<1>4. PICK w \in [1 .. K -> C] : w[1] = first /\ \A i \in 2 .. K : w[i] = links[w[i - 1]]
  <2> HIDE DEF at
  <2>1. \A N \in Nat : N >= 1 => \E g \in [1 .. N -> C] : Walked(g, N, first, links)
    BY WalkExists
  <2>2. PICK g \in [1 .. K -> C] : Walked(g, K, first, links) BY <1>1, <2>1
  <2> QED BY <2>2 DEF Walked
<1>5. w = [i \in 1 .. K |->
             IF i = 1 THEN first ELSE IF w[i - 1] = End THEN End ELSE links[w[i - 1]]]
  <2>1. ASSUME NEW i \in 1 .. K
        PROVE  w[i] = IF i = 1 THEN first ELSE IF w[i - 1] = End THEN End ELSE links[w[i - 1]]
    <3>1. CASE i = 1 BY <1>4, <3>1
    <3>2. CASE i # 1
      <4>1. i \in 2 .. K /\ i - 1 \in 1 .. K BY <1>1, <3>2
      <4>2. w[i - 1] # End BY <1>3, <1>4, <4>1
      <4> QED BY <1>4, <3>2, <4>1, <4>2
    <3> QED BY <3>1, <3>2
  <2> QED BY <2>1
<1>6. at = [i \in 1 .. K |->
              IF i = 1 THEN first ELSE IF at[i - 1] = End THEN End ELSE links[at[i - 1]]]
  BY <1>5
<1> HIDE DEF at
<1>7. \A i \in 1 .. K : at[i] \in C
  <2> DEFINE S == {i \in 1 .. K : at[i] \notin C}
  <2>1. S = {}
    <3> SUFFICES ASSUME S # {} PROVE FALSE OBVIOUS
    <3>1. S \in SUBSET Nat BY <1>1
    <3>2. PICK l \in S : \A m \in S : l <= m
      <4> HIDE DEF S
      <4> QED BY <3>1, LeastOf
    <3>3. l \in 1 .. K /\ at[l] \notin C BY <3>2
    <3>4. CASE l = 1 BY <1>6, <3>3, <3>4
    <3>5. CASE l # 1
      <4>1. l - 1 \in 1 .. K /\ ~(l <= l - 1) BY <1>1, <3>3, <3>5
      <4>2. l - 1 \notin S
        <5> HIDE DEF S
        <5> QED BY <3>2, <4>1
      <4>3. at[l - 1] \in C BY <4>1, <4>2
      <4>4. at[l] = links[at[l - 1]] BY <1>3, <1>6, <3>3, <3>5, <4>3
      <4> QED BY <3>3, <4>3, <4>4 DEF LeadBack
    <3> QED BY <3>4, <3>5
  <2> QED BY <2>1
<1>8. {i \in 1 .. K : at[i] # End} = 1 .. K BY <1>3, <1>7
<1>9. Follow(first, links) = [i \in {i \in 1 .. K : at[i] # End} |-> at[i]] BY DEF Follow, at, K
<1>10. Follow(first, links) = [i \in 1 .. K |-> at[i]] BY <1>8, <1>9
<1>11. Len([i \in 1 .. K |-> at[i]]) = K BY <1>1
<1>12. Len(Follow(first, links)) = K BY <1>10, <1>11
<1> QED BY <1>2, <1>12 DEF Loops

----------------------------------------------------------------------------
(* Mercy                                                                   *)

LEMMA ParamWords ==
  /\ Params.lambda \in Nat /\ Params.eta \in Nat /\ Params.epsilon \in Nat
  /\ Params.epsilon <= Modulus \div 2
<1>1. Modulus \in Nat BY Units
<1>2. 0 .. Modulus - 1 \subseteq Nat BY <1>1
<1>3. {"lambda", "eta", "epsilon"} \subseteq DOMAIN Params BY FormatAssumption
<1>4. \A p \in DOMAIN Params : Params[p] \in Nat BY <1>2, ParamsAssumption
<1> QED BY <1>3, <1>4, ParamsAssumption

\* In a history that runs backwards in time only the last entry can span a
\* positive interval; mercy is 0 when that entry holds no lag.
LEMMA MercyNone ==
  ASSUME NEW n \in Nat, NEW h, Len(h) = n,
         \A i \in 1 .. n : h[i].time \in Int /\ h[i].value \in Int,
         \A i \in 1 .. n : i < n => h[i + 1].time <= h[i].time,
         n > 0 => h[n].value = 0,
         NEW s \in Int, NEW v \in Int, NEW t \in Int
  PROVE  Mercy(h, s, v, t) = 0
<1> DEFINE W     == {i \in 1 .. Len(h) : Span(h, i, t) > 0}
           feel  == [i \in W |-> Mul(Abs(h[i].value), FromInt(Span(h, i, t)))]
           felt  == Sum(feel)
           phi   == Exp(Mul(Negate(Params.eta), felt))
           decay == Exp(Div(Negate((s - v) % Modulus), Params.lambda))
           term  == [i \in W |-> Mul(Mul(Mul(h[i].value, decay), phi), FromInt(Span(h, i, t)))]
<1>1. \A i \in 1 .. n : Span(h, i, t) \in Int
  <2> TAKE i \in 1 .. n
  <2>1. PICK x \in Int : x = h[i].time OBVIOUS
  <2>2. CASE i < n
    <3>1. i + 1 \in 1 .. n BY <2>2
    <3>2. PICK y \in Int : y = h[i + 1].time BY <3>1
    <3>3. Span(h, i, t) = y - x BY <2>1, <2>2, <3>2 DEF Span
    <3> QED BY <3>3
  <2>3. CASE ~(i < n)
    <3>1. Span(h, i, t) = t - x BY <2>1, <2>3 DEF Span
    <3> QED BY <3>1
  <2> QED BY <2>2, <2>3
<1>2. W \in SUBSET {n}
  <2> SUFFICES ASSUME NEW i \in W PROVE i = n OBVIOUS
  <2>1. i \in 1 .. n /\ Span(h, i, t) > 0 OBVIOUS
  <2>2. ~(i < n)
    <3> SUFFICES ASSUME i < n PROVE FALSE OBVIOUS
    <3>1. i + 1 \in 1 .. n BY <2>1
    <3>2. PICK x \in Int : x = h[i].time BY <2>1
    <3>3. PICK y \in Int : y = h[i + 1].time BY <3>1
    <3>4. Span(h, i, t) = y - x BY <3>2, <3>3 DEF Span
    <3>5. y <= x BY <2>1, <3>2, <3>3
    <3> HIDE DEF W
    <3> QED BY <2>1, <3>4, <3>5
  <2> HIDE DEF W
  <2> QED BY <2>1, <2>2
<1>3. \A i \in W : i \in 1 .. n /\ h[i].value = 0 /\ FromInt(Span(h, i, t)) \in Int
  <2> TAKE i \in W
  <2>1. i \in 1 .. n /\ i = n BY <1>2
  <2>2. n > 0 BY <2>1
  <2>3. Span(h, i, t) \in Int BY <1>1, <2>1
  <2>4. FromInt(Span(h, i, t)) \in Int BY <2>3, WordResults
  <2> HIDE DEF W
  <2> QED BY <2>1, <2>2, <2>4
<1> HIDE DEF W
<1>4. felt = 0
  <2>1. \A i \in W : Mul(Abs(h[i].value), FromInt(Span(h, i, t))) = 0
    <3> TAKE i \in W
    <3>1. PICK x \in Int : x = FromInt(Span(h, i, t)) BY <1>3
    <3>2. Abs(h[i].value) = 0 BY <1>3, MulZero
    <3>3. Mul(0, x) = 0 BY MulZero
    <3> QED BY <3>1, <3>2, <3>3
  <2>2. feel = [i \in W |-> 0] BY <2>1
  <2> HIDE DEF feel
  <2> QED BY <1>2, <2>2, SumOne
<1> HIDE DEF felt
<1>5. phi \in Int /\ decay \in Int
  <2>1. Params.lambda \in Nat /\ Params.eta \in Int BY ParamWords
  <2>2. 0 .. Modulus - 1 \subseteq Int BY Units
  <2>3. Negate(Params.eta) \in Int BY <2>1, <2>2, WordResults
  <2>4. Mul(Negate(Params.eta), felt) \in Int BY <1>4, <2>2, <2>3, WordResults
  <2>5. PICK x \in Int : x = s - v OBVIOUS
  <2>6. PICK y \in Int : y = x % Modulus BY <2>2, WordResults
  <2>7. Negate(y) \in Int BY <2>2, WordResults
  <2>8. PICK z \in Int : z = Negate((s - v) % Modulus) BY <2>5, <2>6, <2>7
  <2>9. Params.lambda \in Int /\ Params.lambda >= 0 BY <2>1
  <2>10. Div(z, Params.lambda) \in 0 .. Modulus - 1 BY <2>9, WordResults
  <2>11. Div(z, Params.lambda) \in Int BY <2>2, <2>10
  <2>12. phi \in 0 .. Modulus - 1 BY <2>4, ExpWord
  <2>13. decay \in 0 .. Modulus - 1 BY <2>8, <2>11, ExpWord
  <2> HIDE DEF phi, decay
  <2> QED BY <2>2, <2>12, <2>13
<1> HIDE DEF phi, decay
<1>6. \A i \in W : Mul(Mul(Mul(h[i].value, decay), phi), FromInt(Span(h, i, t))) = 0
  <2> TAKE i \in W
  <2>1. PICK x \in Int : x = FromInt(Span(h, i, t)) BY <1>3
  <2>2. Mul(0, decay) = 0 /\ Mul(0, phi) = 0 /\ Mul(0, x) = 0 BY <1>5, MulZero
  <2> QED BY <1>3, <2>1, <2>2
<1>7. term = [i \in W |-> 0] BY <1>6
<1>8. Sum(term) = 0
  <2> HIDE DEF term
  <2> QED BY <1>2, <1>7, SumOne
<1>9. Mercy(h, s, v, t) = Sum(term) BY DEF Mercy, W, term, phi, decay, felt
<1> QED BY <1>8, <1>9

----------------------------------------------------------------------------
(* How exact the formulas are                                              *)

LEMMA Cancel ==
  ASSUME NEW o \in Nat, o > 0, NEW a \in Int, NEW b \in Int
  PROVE  (a * o <= b * o <=> a <= b) /\ (a * o < b * o <=> a < b)
<1>1. CASE a < b
  <2>1. PICK e \in Nat : b = a + 1 + e
    <3>1. b - a - 1 \in Nat /\ b = a + 1 + (b - a - 1) BY <1>1
    <3> QED BY <3>1
  <2>2. b * o = a * o + o + e * o /\ e * o \in Nat BY <2>1
  <2>3. a * o \in Int /\ b * o \in Int OBVIOUS
  <2> QED BY <1>1, <2>2, <2>3
<1>2. CASE b < a
  <2>1. PICK e \in Nat : a = b + 1 + e
    <3>1. a - b - 1 \in Nat /\ a = b + 1 + (a - b - 1) BY <1>2
    <3> QED BY <3>1
  <2>2. a * o = b * o + o + e * o /\ e * o \in Nat BY <2>1
  <2>3. a * o \in Int /\ b * o \in Int OBVIOUS
  <2> QED BY <1>2, <2>2, <2>3
<1>3. CASE a = b BY <1>3
<1> QED BY <1>1, <1>2, <1>3

LEMMA DivBounds ==
  ASSUME NEW m \in Nat, m > 0, NEW a \in Int
  PROVE  /\ a \div m \in Int
         /\ (a \div m) * m <= a /\ a < ((a \div m) + 1) * m
<1>1. a = m * (a \div m) + (a % m) /\ a % m \in 0..(m - 1) /\ a \div m \in Int BY Quotient
<1>2. PICK d \in Int : d = a \div m BY <1>1
<1>3. PICK r \in 0 .. m - 1 : a = m * d + r BY <1>1, <1>2
<1>4. d * m = m * d /\ (d + 1) * m = m * d + m /\ m * d \in Int OBVIOUS
<1>5. d * m <= a /\ a < (d + 1) * m BY <1>3, <1>4
<1> QED BY <1>2, <1>5

LEMMA ModIs ==
  ASSUME NEW m \in Nat, NEW a \in 0 .. m - 1
  PROVE  a % m = a
OBVIOUS

\* The deadline is the quotient of the request, as far as the integer bits
\* hold it, and the weight, when that quotient has no integer part.
LEMMA DeadlineIs ==
  ASSUME NEW r \in Nat, NEW w \in Nat, r % One < w
  PROVE  /\ Deadline(r, w) \in Nat
         /\ Deadline(r, w) * w <= (r % One) * One
         /\ (r % One) * One < (Deadline(r, w) + 1) * w
<1> DEFINE o == One
           m == Modulus
<1>1. o \in Nat /\ o > 0 /\ m \in Nat /\ m = o * o /\ m >= 4 BY Units
<1> HIDE DEF o, m
<1>2. PICK x \in Nat : x = r % o BY <1>1
<1>3. x < w BY <1>2 DEF o
<1>4. PICK y \in Nat : y = x * o BY <1>1
<1>5. PICK z \in Nat : z = y * o BY <1>1
<1>6. w > 0 BY <1>3
<1>7. PICK p \in Int : p = z \div w /\ p * w <= z /\ z < (p + 1) * w BY <1>6, DivBounds
<1>8. p >= 0
  <2>1. 0 * w < (p + 1) * w BY <1>5, <1>7
  <2>2. 0 < p + 1 BY <1>6, <2>1, Cancel
  <2> QED BY <2>2
<1>9. p < m
  <2>1. z = x * m
    <3>1. (x * o) * o = x * (o * o) BY <1>1
    <3> QED BY <1>1, <1>4, <1>5, <3>1
  <2>2. x * m < w * m BY <1>1, <1>3, Cancel
  <2>3. w * m = m * w BY <1>1
  <2>4. p * w \in Int /\ m * w \in Int /\ x * m \in Int BY <1>1
  <2>5. p * w < m * w BY <1>7, <2>1, <2>2, <2>3, <2>4
  <2> QED BY <1>1, <1>6, <2>5, Cancel
<1>10. p % m = p
  <2>1. p \in 0 .. m - 1 BY <1>1, <1>8, <1>9
  <2> QED BY <1>1, <2>1, ModIs
<1>11. PICK d \in Int : d = p \div o /\ d * o <= p /\ p < (d + 1) * o BY <1>1, DivBounds
<1>12. Deadline(r, w) = d
  <2>1. FromInt(r) = y BY <1>2, <1>4 DEF FromInt, o
  <2>2. Div(y, w) = (z \div w) % m BY <1>5, <1>6 DEF Div, o, m
  <2>3. Div(y, w) = p BY <1>7, <1>10, <2>2
  <2>4. ToInt(p) = d BY <1>11 DEF ToInt, o
  <2> QED BY <2>1, <2>3, <2>4 DEF Deadline
<1>13. d >= 0
  <2>1. 0 * o < (d + 1) * o BY <1>1, <1>7, <1>8, <1>11
  <2>2. 0 < d + 1 BY <1>1, <2>1, Cancel
  <2> QED BY <2>2
<1>14. d * w <= y
  <2>1. (d * o) * w <= p * w BY <1>1, <1>6, <1>11, Cancel
  <2>2. (d * o) * w = (d * w) * o BY <1>1
  <2>3. p * w \in Int /\ (d * o) * w \in Int BY <1>1
  <2>4. (d * w) * o <= y * o BY <1>5, <1>7, <2>1, <2>2, <2>3
  <2>5. d * w \in Int OBVIOUS
  <2> QED BY <1>1, <2>4, <2>5, Cancel
<1>15. y < (d + 1) * w
  <2>1. PICK c \in Int : c = d + 1 OBVIOUS
  <2>2. c * o \in Int BY <1>1
  <2>3. p + 1 <= c * o BY <1>11, <2>1, <2>2
  <2>4. (p + 1) * w <= (c * o) * w BY <1>6, <2>2, <2>3, Cancel
  <2>5. (c * o) * w = (c * w) * o BY <1>1
  <2>6. (p + 1) * w \in Int /\ (c * o) * w \in Int BY <2>2
  <2>7. y * o < (c * w) * o BY <1>5, <1>7, <2>4, <2>5, <2>6
  <2>8. c * w \in Int OBVIOUS
  <2>9. y < c * w BY <1>1, <2>7, <2>8, Cancel
  <2> QED BY <2>1, <2>9
<1>16. (r % One) * One = y BY <1>2, <1>4 DEF o
<1> QED BY <1>12, <1>13, <1>14, <1>15, <1>16

\* What an update of the system time adds.
LEMMA StepIs ==
  ASSUME NEW count \in Nat, NEW before \in 0 .. Modulus - 1, NEW after,
         after = (before + Div(One, FromInt(count))) % Modulus
  PROVE  LET step == (after - before) % Modulus
             taken == count % One
         IN  IF taken = 0 THEN step = 0
             ELSE step * taken <= One /\ (step + 1) * taken > One
<1> DEFINE o == One
           m == Modulus
<1>1. o \in Nat /\ o > 0 /\ m \in Nat /\ m = o * o /\ m >= 4 /\ o < m BY Units
<1> HIDE DEF o, m
<1>2. PICK x \in Nat : x = count % o BY <1>1
<1>3. PICK b \in 0 .. m - 1 : b = before BY DEF m
<1>4. \A s \in 0 .. m - 1 : Div(One, FromInt(count)) = s => (after - before) % Modulus = s
  <2> TAKE s \in 0 .. m - 1
  <2> HAVE Div(One, FromInt(count)) = s
  <2>1. after = (b + s) % m BY <1>3 DEF m
  <2>2. CASE b + s < m
    <3>1. b + s \in 0 .. m - 1 BY <1>1, <2>2
    <3>2. after = b + s BY <1>1, <2>1, <3>1, ModIs
    <3>3. after - before = s BY <1>1, <1>3, <3>2
    <3> QED BY <1>1, <3>3, ModIs DEF m
  <2>3. CASE b + s >= m
    <3>1. b + s - m \in 0 .. m - 1 /\ b + s = m * 1 + (b + s - m) /\ b + s \in Int BY <1>1, <2>3
    <3>2. after = b + s - m BY <1>1, <2>1, <3>1, Remainder
    <3>3. after - before = m * (-1) + s /\ after - before \in Int BY <1>1, <1>3, <3>2
    <3>4. (after - before) % m = s BY <1>1, <3>3, Remainder
    <3> QED BY <3>4 DEF m
  <2> QED BY <1>1, <2>2, <2>3
<1>5. FromInt(count) = x * o BY <1>2 DEF FromInt, o
<1>6. CASE x = 0
  <2>1. FromInt(count) = 0 BY <1>1, <1>5, <1>6
  <2>2. Div(One, FromInt(count)) = 0 BY <2>1 DEF Div
  <2>3. (after - before) % Modulus = 0 BY <1>1, <1>4, <2>2
  <2> QED BY <1>2, <1>6, <2>3 DEF o
<1>7. CASE x > 0
  <2>1. PICK z \in Nat : z = x * o BY <1>1
  <2>2. z > 0
    <3>1. 0 * o < x * o BY <1>1, <1>7, Cancel
    <3> QED BY <1>1, <2>1, <3>1
  <2>3. PICK q \in Int : q = m \div z /\ q * z <= m /\ m < (q + 1) * z
    BY <1>1, <2>2, DivBounds
  <2>4. q * x <= o
    <3>1. q * z = (q * x) * o BY <1>1, <2>1
    <3>2. q * x \in Int OBVIOUS
    <3> QED BY <1>1, <2>3, <3>1, <3>2, Cancel
  <2>5. o < (q + 1) * x
    <3>1. PICK c \in Int : c = q + 1 OBVIOUS
    <3>2. c * z = (c * x) * o BY <1>1, <2>1
    <3>3. c * x \in Int OBVIOUS
    <3>4. o < c * x BY <1>1, <2>3, <3>1, <3>2, <3>3, Cancel
    <3> QED BY <3>1, <3>4
  <2>6. q \in 0 .. m - 1
    <3>1. 0 * x < (q + 1) * x BY <1>1, <2>5
    <3>2. 0 < q + 1 BY <1>7, <3>1, Cancel
    <3>3. PICK e \in Nat : x = 1 + e
      <4>1. x - 1 \in Nat /\ x = 1 + (x - 1) BY <1>7
      <4> QED BY <4>1
    <3>4. q * x = q + q * e /\ q * e \in Int BY <3>3
    <3>5. q * e >= 0 BY <3>2, <3>3
    <3>6. q <= o BY <1>1, <2>4, <3>4, <3>5
    <3> QED BY <1>1, <3>2, <3>6
  <2>7. Div(One, FromInt(count)) = q
    <3>1. q % m = q BY <1>1, <2>6, ModIs
    <3>2. Div(One, z) = (m \div z) % m BY <1>1, <2>2 DEF Div, o, m
    <3> QED BY <1>5, <2>1, <2>3, <3>1, <3>2
  <2>8. (after - before) % Modulus = q BY <1>4, <2>6, <2>7
  <2>9. count % One = x /\ One = o BY <1>2 DEF o
  <2>10. (q + 1) * x > o BY <1>1, <2>5
  <2> QED BY <1>7, <2>4, <2>8, <2>9, <2>10
<1> QED BY <1>6, <1>7

\* A node whose virtual time is 0 is just while the system time is near 0,
\* from either side.
LEMMA JustWhen ==
  ASSUME NEW s \in 0 .. Modulus - 1
  PROVE  Abs((0 - s) % Modulus) < Params.epsilon
           <=> (s < Params.epsilon \/ s > Modulus - Params.epsilon)
<1> DEFINE m == Modulus
           f == m \div 2
<1>1. m \in Nat /\ m >= 4 /\ m = Modulus BY Units
<1>2. PICK e \in Nat : e = Params.epsilon /\ e <= f BY ParamWords
<1> HIDE DEF m
<1>3. f \in Nat /\ 2 * f <= m /\ m <= 2 * f + 1 BY <1>1
<1> HIDE DEF f
<1>4. CASE s = 0
  <2>1. (0 - s) % Modulus = 0 BY <1>1, <1>4
  <2>2. Abs(0) = 0 BY MulZero
  <2> QED BY <1>1, <1>2, <1>3, <1>4, <2>1, <2>2
<1>5. CASE s > 0
  <2>1. s \in 1 .. m - 1 /\ m - s \in 1 .. m - 1 BY <1>1, <1>5
  <2>2. PICK x \in 1 .. m - 1 : x = m - s BY <2>1
  <2>3. 0 - s = m * (-1) + x /\ 0 - s \in Int BY <1>1, <2>1, <2>2
  <2>4. (0 - s) % m = x BY <1>1, <2>2, <2>3, Remainder
  <2>5. CASE x >= f
    <3>1. 0 - x = m * (-1) + s /\ 0 - x \in Int /\ s \in 0 .. m - 1 BY <1>1, <2>1, <2>2
    <3>2. (0 - x) % m = s BY <1>1, <3>1, Remainder
    <3>3. Abs(x) = s BY <2>5, <3>2 DEF Abs, Negate, m, f
    <3>4. ~(s > m - e) BY <1>1, <1>2, <1>3, <2>2, <2>5
    <3> QED BY <1>1, <1>2, <2>4, <3>3, <3>4
  <2>6. CASE x < f
    <3>1. Abs(x) = x
      <4>1. ~(x >= f) BY <1>3, <2>6
      <4> QED BY <4>1 DEF Abs, m, f
    <3>2. x < e <=> s > m - e BY <1>1, <1>2, <2>1, <2>2
    <3>3. ~(s < e) BY <1>1, <1>2, <1>3, <2>2, <2>6
    <3> QED BY <1>1, <1>2, <2>4, <3>1, <3>2, <3>3
  <2> QED BY <1>3, <2>5, <2>6
<1> QED BY <1>1, <1>4, <1>5

----------------------------------------------------------------------------
(* The history as a list                                                   *)

Sample == [time : Int, value : Int]

\* q lists n entries, linked in that order from first, all different; one of
\* them is the entry at the kernel base if f, the number of allocations that
\* failed, is 1.  They store the first n samples offered, newest first.
Listed(q, n, f, first, links, store, offered) ==
  /\ q \in [1 .. n -> Entries]
  /\ first = IF n = 0 THEN End ELSE q[1]
  /\ \A i \in 1 .. n : links[q[i]] = IF i = n THEN End ELSE q[i + 1]
  /\ \A i, j \in 1 .. n : q[i] = q[j] => i = j
  /\ f = 0 => \A i \in 1 .. n : q[i] \in 1 .. n
  /\ f = 1 => /\ \A i \in 1 .. n : q[i] \in 0 .. n - 1
              /\ \E i \in 1 .. n : q[i] = Base
  /\ \A i \in 1 .. n : store[q[i]] = offered[n + 1 - i]

\* The walk over a history listed by q is q, and ends.
LEMMA ListedWalk ==
  ASSUME NEW n \in 0 .. HistoryMax, NEW q, NEW f, NEW first, NEW links, NEW store, NEW offered,
         Listed(q, n, f, first, links, store, offered)
  PROVE  Follow(first, links) = q /\ Len(q) = n /\ ~Loops(first, links)
<1>1. n \in Nat /\ HistoryMax \in Nat /\ n <= HistoryMax BY FormatAssumption
<1>2. q \in [1 .. n -> Entries] BY DEF Listed
<1>3. Follow(first, links) = q
  <2>1. first = (IF n = 0 THEN End ELSE q[1]) BY DEF Listed
  <2>2. \A i \in 1 .. n : links[q[i]] = IF i = n THEN End ELSE q[i + 1] BY DEF Listed
  <2> QED BY <1>2, <2>1, <2>2, FollowChain
<1>4. Len(q) = n BY <1>1, <1>2
<1> QED BY <1>1, <1>3, <1>4 DEF Loops

\* The entry e is given out for the next sample, f allocations having failed
\* before; After is how many have then.
Given(e, failed, n, f) == e = (IF failed THEN Base ELSE n + 1 - f) /\ (failed => f = 0)
After(f, failed) == IF failed THEN 1 ELSE f

Ready(e, s, failed, q, n, f, first, links, store, offered) ==
  /\ n \in Nat /\ n < HistoryMax /\ f \in {0, 1} /\ s \in Sample /\ failed \in BOOLEAN
  /\ links \in [Entries -> Entries \cup {End}] /\ store \in [Entries -> Sample]
  /\ offered \in Seq(Sample) /\ Len(offered) = n
  /\ Given(e, failed, n, f)
  /\ Listed(q, n, f, first, links, store, offered)

\* A sample recorded in a fresh entry, or for the first time in the entry at
\* the kernel base, extends the list.
LEMMA RecordKeeps ==
  ASSUME NEW e, NEW s, NEW failed, NEW q, NEW n, NEW f, NEW first, NEW links, NEW store,
         NEW offered, Ready(e, s, failed, q, n, f, first, links, store, offered)
  PROVE  /\ \E p : Listed(p, n + 1, After(f, failed), e, [links EXCEPT ![e] = first],
                          [store EXCEPT ![e] = s], Append(offered, s))
         /\ [links EXCEPT ![e] = first] \in [Entries -> Entries \cup {End}]
         /\ [store EXCEPT ![e] = s] \in [Entries -> Sample]
<1>0. /\ n \in Nat /\ n < HistoryMax /\ f \in {0, 1} /\ s \in Sample /\ failed \in BOOLEAN
      /\ links \in [Entries -> Entries \cup {End}] /\ store \in [Entries -> Sample]
      /\ offered \in Seq(Sample) /\ Len(offered) = n
      /\ Given(e, failed, n, f)
      /\ Listed(q, n, f, first, links, store, offered)
  BY DEF Ready
<1> USE <1>0
<1> USE DEF Given, After
<1> DEFINE p        == [i \in 1 .. n + 1 |-> IF i = 1 THEN e ELSE q[i - 1]]
           links2   == [links EXCEPT ![e] = first]
           store2   == [store EXCEPT ![e] = s]
           offered2 == Append(offered, s)
           g        == After(f, failed)
<1>1. HistoryMax \in Nat /\ n \in Nat BY FormatAssumption
<1>2. e \in Entries BY <1>1 DEF Entries, Base
<1>3. first \in Entries \cup {End}
  <2>1. CASE n = 0 BY <2>1 DEF Listed
  <2>2. CASE n # 0
    <3>1. 1 \in 1 .. n BY <2>2
    <3> QED BY <2>2, <3>1 DEF Listed
  <2> QED BY <2>1, <2>2
<1>4. links2 \in [Entries -> Entries \cup {End}] BY <1>3
<1>5. store2 \in [Entries -> Sample] OBVIOUS
<1>6. q \in [1 .. n -> Entries] BY DEF Listed
<1>7. \A i \in 1 .. n : q[i] # e
  <2>1. CASE failed
    <3>1. e = 0 /\ f = 0 BY <2>1 DEF Base
    <3>2. \A i \in 1 .. n : q[i] \in 1 .. n BY <3>1 DEF Listed
    <3> QED BY <3>1, <3>2
  <2>2. CASE ~failed /\ f = 0
    <3>1. e = n + 1 BY <2>2
    <3>2. \A i \in 1 .. n : q[i] \in 1 .. n BY <2>2 DEF Listed
    <3> QED BY <3>1, <3>2
  <2>3. CASE ~failed /\ f = 1
    <3>1. e = n BY <2>3
    <3>2. \A i \in 1 .. n : q[i] \in 0 .. n - 1 BY <2>3 DEF Listed
    <3> QED BY <3>1, <3>2
  <2> QED BY <2>1, <2>2, <2>3
<1>8. p \in [1 .. n + 1 -> Entries] /\ p[1] = e
  <2>1. \A i \in 1 .. n + 1 : i # 1 => i - 1 \in 1 .. n BY <1>1
  <2>2. \A i \in 1 .. n + 1 : i # 1 => q[i - 1] \in Entries BY <1>6, <2>1
  <2>3. 1 \in 1 .. n + 1 BY <1>1
  <2> QED BY <1>2, <2>2, <2>3
<1>9. \A i \in 1 .. n : i + 1 \in 1 .. n + 1 /\ p[i + 1] = q[i]
  <2> TAKE i \in 1 .. n
  <2>1. i + 1 \in 1 .. n + 1 /\ i + 1 # 1 /\ (i + 1) - 1 = i OBVIOUS
  <2> QED BY <2>1
<1>10. \A i \in 1 .. n + 1 : i = 1 \/ \E j \in 1 .. n : i = j + 1
  <2> TAKE i \in 1 .. n + 1
  <2>1. i # 1 => i - 1 \in 1 .. n /\ i = (i - 1) + 1 BY <1>1
  <2> QED BY <2>1
<1> HIDE DEF p
<1>11. e = IF n + 1 = 0 THEN End ELSE p[1] BY <1>1, <1>8
<1>12. \A i \in 1 .. n + 1 : links2[p[i]] = IF i = n + 1 THEN End ELSE p[i + 1]
  <2> TAKE i \in 1 .. n + 1
  <2>1. CASE i = 1
    <3>1. links2[e] = first BY <1>2
    <3>2. CASE n = 0
      <4>1. first = End BY <3>2 DEF Listed
      <4> QED BY <1>8, <2>1, <3>1, <3>2, <4>1
    <3>3. CASE n # 0
      <4>1. first = q[1] BY <3>3 DEF Listed
      <4>2. 1 \in 1 .. n BY <1>1, <3>3
      <4>3. p[1 + 1] = q[1] BY <1>9, <4>2
      <4>4. 1 # n + 1 BY <1>1, <3>3
      <4> QED BY <1>8, <2>1, <3>1, <4>1, <4>3, <4>4
    <3> QED BY <3>2, <3>3
  <2>2. CASE \E j \in 1 .. n : i = j + 1
    <3>1. PICK j \in 1 .. n : i = j + 1 BY <2>2
    <3>2. p[i] = q[j] /\ q[j] # e /\ q[j] \in Entries BY <1>6, <1>7, <1>9, <3>1
    <3>3. links2[q[j]] = links[q[j]] BY <3>2
    <3>4. links[q[j]] = IF j = n THEN End ELSE q[j + 1] BY DEF Listed
    <3>5. CASE j = n BY <3>1, <3>2, <3>3, <3>4, <3>5
    <3>6. CASE j # n
      <4>1. j + 1 \in 1 .. n /\ i # n + 1 BY <1>1, <3>1, <3>6
      <4>2. p[(j + 1) + 1] = q[j + 1] BY <1>9, <4>1
      <4> QED BY <3>1, <3>2, <3>3, <3>4, <3>6, <4>1, <4>2
    <3> QED BY <3>5, <3>6
  <2> QED BY <1>10, <2>1, <2>2
<1>13. \A i, j \in 1 .. n + 1 : p[i] = p[j] => i = j
  <2> TAKE i, j \in 1 .. n + 1
  <2> HAVE p[i] = p[j]
  <2>1. CASE i = 1
    <3>1. ~\E k \in 1 .. n : j = k + 1 BY <1>7, <1>8, <1>9, <2>1
    <3> QED BY <1>10, <2>1, <3>1
  <2>2. CASE \E k \in 1 .. n : i = k + 1
    <3>1. PICK k \in 1 .. n : i = k + 1 BY <2>2
    <3>2. p[i] = q[k] BY <1>9, <3>1
    <3>3. j # 1 BY <1>7, <1>8, <3>2
    <3>4. PICK l \in 1 .. n : j = l + 1 BY <1>10, <3>3
    <3>5. q[k] = q[l] BY <1>9, <3>2, <3>4
    <3>6. k = l BY <3>5 DEF Listed
    <3> QED BY <3>1, <3>4, <3>6
  <2> QED BY <1>10, <2>1, <2>2
<1>14. g = 0 => \A i \in 1 .. n + 1 : p[i] \in 1 .. n + 1
  <2> HAVE g = 0
  <2>1. ~failed /\ f = 0 OBVIOUS
  <2>2. e = n + 1 BY <2>1
  <2>3. \A i \in 1 .. n : q[i] \in 1 .. n BY <2>1 DEF Listed
  <2> TAKE i \in 1 .. n + 1
  <2>4. CASE i = 1 BY <1>1, <1>8, <2>2, <2>4
  <2>5. CASE \E j \in 1 .. n : i = j + 1
    <3>1. PICK j \in 1 .. n : i = j + 1 BY <2>5
    <3>2. p[i] = q[j] BY <1>9, <3>1
    <3> QED BY <1>1, <2>3, <3>2
  <2> QED BY <1>10, <2>4, <2>5
<1>15. g = 1 => /\ \A i \in 1 .. n + 1 : p[i] \in 0 .. (n + 1) - 1
                /\ \E i \in 1 .. n + 1 : p[i] = Base
  <2> HAVE g = 1
  <2>1. CASE failed
    <3>1. e = 0 /\ f = 0 BY <2>1 DEF Base
    <3>2. \A i \in 1 .. n : q[i] \in 1 .. n BY <3>1 DEF Listed
    <3>3. ASSUME NEW i \in 1 .. n + 1 PROVE p[i] \in 0 .. (n + 1) - 1
      <4>1. CASE i = 1 BY <1>1, <1>8, <3>1, <4>1
      <4>2. CASE \E j \in 1 .. n : i = j + 1
        <5>1. PICK j \in 1 .. n : i = j + 1 BY <4>2
        <5>2. p[i] = q[j] BY <1>9, <5>1
        <5>3. q[j] \in 1 .. n BY <3>2
        <5>4. q[j] \in 0 .. (n + 1) - 1 BY <1>1, <5>3
        <5> QED BY <5>2, <5>4
      <4> QED BY <1>10, <4>1, <4>2
    <3>4. 1 \in 1 .. n + 1 /\ p[1] = Base BY <1>1, <1>8, <3>1 DEF Base
    <3> QED BY <3>3, <3>4
  <2>2. CASE ~failed
    <3>1. f = 1 /\ e = n BY <2>2
    <3>2. \A i \in 1 .. n : q[i] \in 0 .. n - 1 BY <3>1 DEF Listed
    <3>3. PICK b \in 1 .. n : q[b] = Base BY <3>1 DEF Listed
    <3>4. b + 1 \in 1 .. n + 1 /\ p[b + 1] = Base BY <1>9, <3>3
    <3>5. ASSUME NEW i \in 1 .. n + 1 PROVE p[i] \in 0 .. (n + 1) - 1
      <4>1. CASE i = 1 BY <1>1, <1>8, <3>1, <4>1
      <4>2. CASE \E j \in 1 .. n : i = j + 1
        <5>1. PICK j \in 1 .. n : i = j + 1 BY <4>2
        <5>2. p[i] = q[j] BY <1>9, <5>1
        <5>3. q[j] \in 0 .. n - 1 BY <3>2
        <5>4. q[j] \in 0 .. (n + 1) - 1 BY <1>1, <5>3
        <5> QED BY <5>2, <5>4
      <4> QED BY <1>10, <4>1, <4>2
    <3> QED BY <3>4, <3>5
  <2> QED BY <2>1, <2>2
<1>16. \A i \in 1 .. n + 1 : store2[p[i]] = offered2[(n + 1) + 1 - i]
  <2> TAKE i \in 1 .. n + 1
  <2>1. CASE i = 1
    <3>1. store2[e] = s BY <1>2
    <3>2. offered2[n + 1] = s OBVIOUS
    <3>3. (n + 1) + 1 - i = n + 1 BY <1>1, <2>1
    <3> QED BY <1>8, <2>1, <3>1, <3>2, <3>3
  <2>2. CASE \E j \in 1 .. n : i = j + 1
    <3>1. PICK j \in 1 .. n : i = j + 1 BY <2>2
    <3>2. p[i] = q[j] /\ q[j] # e /\ q[j] \in Entries BY <1>6, <1>7, <1>9, <3>1
    <3>3. store2[q[j]] = store[q[j]] BY <3>2
    <3>4. store[q[j]] = offered[n + 1 - j] BY DEF Listed
    <3>5. n + 1 - j \in 1 .. n /\ (n + 1) + 1 - i = n + 1 - j BY <1>1, <3>1
    <3>6. offered2[n + 1 - j] = offered[n + 1 - j] BY <3>5
    <3> QED BY <3>2, <3>3, <3>4, <3>5, <3>6
  <2> QED BY <1>10, <2>1, <2>2
<1>17. Listed(p, n + 1, g, e, links2, store2, offered2)
  BY <1>8, <1>11, <1>12, <1>13, <1>14, <1>15, <1>16 DEF Listed
<1> QED BY <1>4, <1>5, <1>17

\* The entry at the kernel base recorded again leads back to itself.
LEMMA RecordLoops ==
  ASSUME NEW n \in Nat, n < HistoryMax, NEW q, NEW first,
         NEW links \in [Entries -> Entries \cup {End}], NEW store, NEW offered,
         Listed(q, n, 1, first, links, store, offered),
         NEW links2, links2 = [links EXCEPT ![Base] = first]
  PROVE  Loops(Base, links2)
<1>1. HistoryMax \in Nat BY FormatAssumption
<1>2. PICK b \in 1 .. n : q[b] = Base BY DEF Listed
<1>3. q \in [1 .. n -> Entries] BY DEF Listed
<1> DEFINE C == {q[i] : i \in 1 .. b}
<1>4. C \in SUBSET Entries BY <1>2, <1>3
<1>5. Base \in C BY <1>2
<1>6. Base \in Entries BY <1>2, <1>3
<1>7. ASSUME NEW c \in C PROVE links2[c] \in C
  <2>1. PICK i \in 1 .. b : c = q[i] OBVIOUS
  <2>2. CASE i = b
    <3>1. links2[c] = first BY <1>2, <1>6, <2>1, <2>2
    <3>2. first = q[1] /\ 1 \in 1 .. b BY <1>2 DEF Listed
    <3> QED BY <3>1, <3>2
  <2>3. CASE i # b
    <3>1. i \in 1 .. n /\ i # n /\ i + 1 \in 1 .. b BY <1>2, <2>3
    <3>2. q[i] # Base
      <4>1. q[i] = q[b] => i = b BY <1>2, <3>1 DEF Listed
      <4> QED BY <1>2, <2>3, <4>1
    <3>3. links2[c] = links[q[i]] BY <1>3, <2>1, <3>1, <3>2
    <3>4. links[q[i]] = q[i + 1] BY <3>1 DEF Listed
    <3> QED BY <3>1, <3>3, <3>4
  <2> QED BY <2>2, <2>3
<1>8. LeadBack(C, links2) BY <1>7 DEF LeadBack
<1> HIDE DEF C
<1> QED BY <1>4, <1>5, <1>8, FollowLoop

\* A sample the history has no room for changes nothing.
LEMMA ListedStays ==
  ASSUME NEW n \in Nat, NEW f, NEW q, NEW first, NEW links, NEW store,
         NEW offered \in Seq(Sample), n <= Len(offered),
         Listed(q, n, f, first, links, store, offered), NEW s \in Sample
  PROVE  Listed(q, n, f, first, links, store, Append(offered, s))
<1>1. \A i \in 1 .. n : n + 1 - i \in 1 .. Len(offered) OBVIOUS
<1>2. \A i \in 1 .. Len(offered) : Append(offered, s)[i] = offered[i] OBVIOUS
<1>3. \A i \in 1 .. n : store[q[i]] = offered[n + 1 - i] BY DEF Listed
<1>4. \A i \in 1 .. n : store[q[i]] = Append(offered, s)[n + 1 - i] BY <1>1, <1>2, <1>3
<1> QED BY <1>4, Zenon DEF Listed

----------------------------------------------------------------------------
(* The inductive invariant                                                 *)

Kept(offered) == IF Len(offered) < HistoryMax THEN Len(offered) ELSE HistoryMax

\* The samples offered, of which the first, while there is none the next, has no lag.
Begun(offered, l) ==
  /\ offered \in Seq(Sample)
  /\ IF Len(offered) = 0 THEN l = 0 ELSE offered[1].value = 0

Numbers ==
  /\ request \in Requests /\ weight \in Weights /\ nodeCount \in NodeCounts
  /\ virtualTime = 0 /\ systemTime \in 0 .. Modulus - 1 /\ now \in Nat
  /\ lag \in Int /\ vd \in Nat
  /\ held # "finish" => lastFinish = 0

Offered == Begun(samples, lag) /\ updates = Len(samples)

History ==
  /\ next \in [Entries -> Entries \cup {End}] /\ entry \in [Entries -> Sample]
  /\ held # "loop" =>
       /\ failures \in {0, 1} /\ historyCount = Kept(samples)
       /\ \E q : Listed(q, historyCount, failures, head, next, entry, samples)
  /\ held = "loop" => failures = 2

FireInv == Numbers /\ Offered /\ History /\ NoMercy

\* A lag offered last leaves the earlier ones in their order.
LEMMA OfferedMore ==
  ASSUME NEW offered, NEW t \in Int, NEW l \in Int, Begun(offered, l), NEW k \in Int,
         NEW s, s = [time |-> t, value |-> l]
  PROVE  /\ s \in Sample
         /\ Begun(Append(offered, s), k)
         /\ Len(Append(offered, s)) = Len(offered) + 1
         /\ Append(offered, s)[Len(offered) + 1].time = t
         /\ InTimeOrder(Append(offered, s)) => InTimeOrder(offered)
<1> DEFINE n == Len(offered)
           o2 == Append(offered, s)
<1>1. offered \in Seq(Sample) BY DEF Begun
<1>2. s \in Sample /\ s.time = t /\ s.value = l BY DEF Sample
<1>3. n \in Nat /\ o2 \in Seq(Sample) /\ Len(o2) = n + 1 BY <1>1, <1>2
<1>4. \A i \in 1 .. n : o2[i] = offered[i] BY <1>1
<1>5. o2[n + 1] = s BY <1>1
<1> HIDE DEF n, o2
<1>6. o2[1].value = 0
  <2>1. CASE n = 0
    <3>1. l = 0 BY <2>1 DEF Begun, n
    <3>2. o2[1] = s BY <1>5, <2>1
    <3> QED BY <1>2, <3>1, <3>2
  <2>2. CASE n # 0
    <3>1. 1 \in 1 .. n BY <1>3, <2>2
    <3>2. offered[1].value = 0 BY <2>2 DEF Begun, n
    <3> QED BY <1>4, <3>1, <3>2
  <2> QED BY <2>1, <2>2
<1>7. Begun(o2, k)
  <2>1. Len(o2) # 0 BY <1>3
  <2> QED BY <1>3, <1>6, <2>1 DEF Begun
<1>8. ASSUME InTimeOrder(o2) PROVE InTimeOrder(offered)
  <2> SUFFICES ASSUME NEW i \in 1 .. n, i < n PROVE offered[i].time <= offered[i + 1].time
    BY DEF InTimeOrder, n
  <2>1. i \in 1 .. n + 1 /\ i < n + 1 /\ i + 1 \in 1 .. n BY <1>3
  <2>2. o2[i].time <= o2[i + 1].time BY <1>3, <1>8, <2>1 DEF InTimeOrder
  <2> QED BY <1>4, <2>1, <2>2
<1> QED BY <1>2, <1>3, <1>5, <1>7, <1>8 DEF n, o2

\* A deadline is a number.
LEMMA DeadlineNat ==
  ASSUME NEW r \in Nat, NEW w \in Nat
  PROVE  Deadline(r, w) \in Nat
<1>1. One \in Nat /\ One > 0 /\ 0 .. Modulus - 1 \subseteq Nat BY Units
<1>2. PICK x \in Int : x = FromInt(r) BY WordResults
<1>3. Div(x, w) \in 0 .. Modulus - 1 BY WordResults
<1>4. PICK y \in Nat : y = Div(x, w) BY <1>1, <1>3
<1>5. ToInt(y) \in Nat BY <1>1 DEF ToInt
<1> QED BY <1>2, <1>4, <1>5 DEF Deadline

\* A lag is a number, whatever word it is computed from.
LEMMA LagWord ==
  ASSUME NEW x \in Int
  PROVE  CalcLag(x % Modulus) \in Int
<1>1. 0 .. Modulus - 1 \subseteq Int /\ Modulus \in Nat BY Units
<1>2. PICK y \in Int : y = x % Modulus BY <1>1, WordResults
<1>3. PICK a \in Int : a = Abs(y) BY WordResults
<1>4. Params.tau \in Nat
  <2>1. "tau" \in DOMAIN Params BY FormatAssumption
  <2>2. 0 .. Modulus - 1 \subseteq Nat BY <1>1
  <2> QED BY <2>1, <2>2, ParamsAssumption
<1>5. Params.tau \in Int /\ Params.tau >= 0 BY <1>4
<1>6. Div(a, Params.tau) \in 0 .. Modulus - 1 BY <1>5, WordResults
<1>7. PICK d \in Int : d = Div(a, Params.tau) BY <1>1, <1>6
<1>8. PICK z \in Int : z = Exp(d) BY <1>1, ExpWord
<1>9. Mul(y, z) \in Int BY <1>1, WordResults
<1> QED BY <1>2, <1>3, <1>7, <1>8, <1>9 DEF CalcLag

\* What an update at the time t computes from a history that ends.
LEMMA Recomputed ==
  ASSUME NEW t \in Nat, Recompute(t), NEW n \in 1 .. HistoryMax, NEW q, NEW f,
         Listed(q, n, f, head', next', entry', samples'),
         NEW k, Begun(samples', k), n <= Len(samples'),
         systemTime \in 0 .. Modulus - 1, virtualTime' = 0,
         request \in Nat, weight \in Nat
  PROVE  /\ lag' \in Int /\ vd' \in Nat
         /\ InTimeOrder(samples') => vdStar' = vd' /\ mercy' = 0 /\ realFire' = FromInt(vd')
<1> DEFINE h == [i \in DOMAIN Follow(head', next') |-> entry'[Follow(head', next')[i]]]
           d == Deadline(request, weight)
           m == Mercy(h, systemTime, virtualTime', t)
<1>1. n \in Nat /\ HistoryMax \in Nat /\ n > 0 /\ n \in 0 .. HistoryMax BY FormatAssumption
<1>2. Follow(head', next') = q BY <1>1, ListedWalk
<1>3. DOMAIN q = 1 .. n BY DEF Listed
<1>4. h = [i \in 1 .. n |-> entry'[q[i]]] BY <1>2, <1>3
<1>5. PICK g : g = h OBVIOUS
<1>6. g = [i \in 1 .. n |-> entry'[q[i]]] BY <1>4, <1>5
<1> HIDE DEF h
<1>7. \A i \in 1 .. n : g[i] = samples'[n + 1 - i] BY <1>6 DEF Listed
<1>8. Len(g) = n BY <1>1, <1>6
<1>9. PICK o : o = samples' OBVIOUS
<1>10. o \in Seq(Sample) /\ n <= Len(o) /\ Len(o) \in Nat BY <1>9 DEF Begun
<1>12. \A i \in 1 .. Len(o) : o[i].time \in Int /\ o[i].value \in Int
  <2> TAKE i \in 1 .. Len(o)
  <2>1. o[i] \in Sample BY <1>10
  <2> QED BY <2>1 DEF Sample
<1>13. \A i \in 1 .. n : n + 1 - i \in 1 .. Len(o) /\ g[i] = o[n + 1 - i]
  <2> TAKE i \in 1 .. n
  <2>1. n + 1 - i \in 1 .. Len(o) BY <1>10
  <2> QED BY <1>7, <1>9, <2>1
<1>14. \A i \in 1 .. n : g[i].time \in Int /\ g[i].value \in Int BY <1>12, <1>13
<1>16. g[n].value = 0
  <2>1. n \in 1 .. n /\ n + 1 - n = 1 /\ Len(o) # 0 BY <1>10
  <2>2. g[n] = o[1] BY <1>13, <2>1
  <2>3. o[1].value = 0 BY <1>9, <2>1 DEF Begun
  <2> QED BY <2>2, <2>3
<1>17. PICK s \in Int : s = systemTime BY Units
<1>20. d \in Nat BY DeadlineNat
<1>19. ASSUME InTimeOrder(samples') PROVE m = 0
  <2>1. ASSUME NEW i \in 1 .. n, i < n PROVE g[i + 1].time <= g[i].time
    <3>1. i + 1 \in 1 .. n /\ n + 1 - (i + 1) = n - i /\ n - i \in Nat BY <2>1
    <3>2. PICK j \in Nat : j = n - i BY <3>1
    <3>3. j \in 1 .. Len(o) /\ j < Len(o) /\ j + 1 = n + 1 - i BY <1>10, <2>1, <3>2
    <3>4. o[j].time <= o[j + 1].time BY <1>9, <1>19, <3>3 DEF InTimeOrder
    <3>5. g[i] = o[j + 1] BY <1>13, <3>3
    <3>6. g[i + 1] = o[j] BY <1>13, <3>1, <3>2
    <3> QED BY <3>4, <3>5, <3>6
  <2>2. t \in Int OBVIOUS
  <2>3. \A i \in 1 .. n : i < n => g[i + 1].time <= g[i].time BY <2>1
  <2>4. Mercy(g, s, 0, t) = 0
    BY <1>1, <1>8, <1>14, <1>16, <2>2, <2>3, MercyNone
  <2> QED BY <1>5, <1>17, <2>4
<1> HIDE DEF d, m
<1>21. lag' = CalcLag((systemTime - virtualTime') % Modulus) /\ vd' = d /\ mercy' = m
       /\ vdStar' = Larger(0, d - ToInt(m)) /\ realFire' = RealFire(d, m)
  BY DEF Recompute, h, d, m
<1>22. lag' \in Int
  <2>1. PICK x \in Int : x = s - 0 OBVIOUS
  <2> QED BY <1>17, <1>21, <2>1, LagWord
<1>23. ASSUME InTimeOrder(samples') PROVE vdStar' = d /\ mercy' = 0 /\ realFire' = FromInt(d)
  <2>1. m = 0 BY <1>19, <1>23
  <2>2. ToInt(0) = 0 BY MulZero
  <2>3. d - ToInt(m) = d BY <1>20, <2>1, <2>2
  <2>4. Larger(0, d) = d BY <1>20 DEF Larger
  <2>5. realFire' = FromInt(d) BY <1>21, <2>1 DEF RealFire
  <2> QED BY <1>21, <2>1, <2>3, <2>4, <2>5
<1> QED BY <1>20, <1>21, <1>22, <1>23

\* The invariant holds of a new node,
LEMMA FireStart == FireInit => FireInv
<1> SUFFICES ASSUME FireInit PROVE FireInv OBVIOUS
<1>1. HistoryMax \in Nat /\ HistoryMax > 0 /\ 0 \in Entries BY FormatAssumption DEF Entries
<1>2. Numbers
  <2>1. 0 \in 0 .. Modulus - 1 BY Units
  <2> QED BY <2>1, FormatAssumption DEF FireInit, Numbers
<1>3. Offered
  <2>1. samples = <<>> /\ lag = 0 /\ updates = 0 BY DEF FireInit
  <2>2. samples \in Seq(Sample) /\ Len(samples) = 0 BY <2>1
  <2> QED BY <2>1, <2>2 DEF Offered, Begun
<1>5. NoMercy BY DEF FireInit, NoMercy
<1>4. History
  <2>1. next \in [Entries -> Entries \cup {End}] BY DEF FireInit
  <2>2. [time |-> 0, value |-> 0] \in Sample BY DEF Sample
  <2>3. entry \in [Entries -> Sample] BY <2>2 DEF FireInit
  <2>4. historyCount = Kept(samples)
    <3>1. Len(samples) = 0 BY DEF FireInit
    <3> QED BY <1>1, <3>1 DEF FireInit, Kept
  <2>5. Listed(<<>>, 0, 0, End, next, entry, samples)
    <3>1. 1 .. 0 = {} /\ <<>> \in [1 .. 0 -> Entries] OBVIOUS
    <3> QED BY <3>1 DEF Listed
  <2>6. held = "no" /\ failures = 0 /\ historyCount = 0 /\ head = End BY DEF FireInit
  <2> QED BY <2>1, <2>3, <2>4, <2>5, <2>6 DEF History
<1> QED BY <1>2, <1>3, <1>4, <1>5 DEF FireInv

\* What an update leaves of the history.
LEMMA Recorded ==
  ASSUME FireInv, held = "no", NEW failed \in BOOLEAN, NEW t \in Nat, NodeUpdate(failed, t)
  PROVE  /\ next' \in [Entries -> Entries \cup {End}] /\ entry' \in [Entries -> Sample]
         /\ \/ Loops(head', next') /\ failures' = 2
            \/ /\ failures' \in {0, 1} /\ historyCount' = Kept(samples')
               /\ historyCount' \in 1 .. HistoryMax /\ historyCount' <= Len(samples')
               /\ \E q : Listed(q, historyCount', failures', head', next', entry', samples')
<1>1. HistoryMax \in Nat /\ HistoryMax > 0 BY FormatAssumption
<1>2. next \in [Entries -> Entries \cup {End}] /\ entry \in [Entries -> Sample]
      /\ failures \in {0, 1} /\ historyCount = Kept(samples)
  BY DEF FireInv, History
<1>3. PICK q : Listed(q, historyCount, failures, head, next, entry, samples)
  BY DEF FireInv, History
<1>4. Begun(samples, lag) /\ t \in Int /\ lag \in Int
  BY DEF FireInv, Offered, Numbers
<1>5. PICK s : s = [time |-> t, value |-> lag] OBVIOUS
<1>6. s \in Sample /\ Len(Append(samples, s)) = Len(samples) + 1
  BY <1>4, <1>5, OfferedMore
<1>7. samples' = Append(samples, s) BY <1>5 DEF NodeUpdate
<1>8. samples \in Seq(Sample) /\ Len(samples) \in Nat BY <1>4 DEF Begun
<1>9. Record(failed, t) BY DEF NodeUpdate
<1>10. CASE historyCount = HistoryMax
  <2>1. ~failed /\ UNCHANGED <<head, next, entry, historyCount, failures>>
    BY <1>1, <1>9, <1>10 DEF Record
  <2>2. HistoryMax <= Len(samples) BY <1>1, <1>2, <1>8, <1>10 DEF Kept
  <2>3. Listed(q, historyCount, failures, head, next, entry, Append(samples, s))
    BY <1>1, <1>3, <1>6, <1>8, <1>10, <2>2, ListedStays
  <2>4. Listed(q, historyCount', failures', head', next', entry', samples')
    BY <1>7, <2>1, <2>3
  <2>5. Len(samples') = Len(samples) + 1 BY <1>6, <1>7
  <2>6. historyCount' = Kept(samples') BY <1>1, <1>8, <1>10, <2>1, <2>2, <2>5 DEF Kept
  <2>7. historyCount' \in 1 .. HistoryMax /\ historyCount' <= Len(samples')
    BY <1>1, <1>8, <1>10, <2>1, <2>2, <2>5
  <2>8. failures' \in {0, 1} /\ next' \in [Entries -> Entries \cup {End}]
        /\ entry' \in [Entries -> Sample]
    BY <1>2, <2>1
  <2> QED BY <2>4, <2>6, <2>7, <2>8
<1>11. CASE historyCount # HistoryMax
  <2>1. historyCount = Len(samples) /\ historyCount \in Nat /\ historyCount < HistoryMax
    BY <1>1, <1>2, <1>8, <1>11 DEF Kept
  <2>2. PICK e : /\ e = IF failed THEN Base ELSE historyCount + 1 - failures
                 /\ entry' = [entry EXCEPT ![e] = s]
                 /\ next' = [next EXCEPT ![e] = head] /\ head' = e
                 /\ historyCount' = historyCount + 1
                 /\ failures' = failures + (IF failed THEN 1 ELSE 0)
    BY <1>5, <1>9, <1>11 DEF Record, Allocated, Push
  <2>3. CASE failed /\ failures = 1
    <3>1. e = Base /\ failures' = 2 /\ head' = Base BY <2>2, <2>3
    <3>2. next' = [next EXCEPT ![Base] = head] /\ entry' = [entry EXCEPT ![Base] = s]
      BY <2>2, <3>1
    <3>3. Listed(q, historyCount, 1, head, next, entry, samples) BY <1>3, <2>3
    <3>4. Loops(Base, next') BY <1>2, <2>1, <3>2, <3>3, RecordLoops
    <3>5. head \in Entries \cup {End}
      <4>1. CASE historyCount = 0 BY <1>3, <4>1 DEF Listed
      <4>2. CASE historyCount # 0
        <5>1. 1 \in 1 .. historyCount BY <2>1, <4>2
        <5>2. head = q[1] /\ q \in [1 .. historyCount -> Entries] BY <1>3, <4>2 DEF Listed
        <5> QED BY <5>1, <5>2
      <4> QED BY <4>1, <4>2
    <3>6. next' \in [Entries -> Entries \cup {End}] BY <1>2, <3>2, <3>5
    <3>7. entry' \in [Entries -> Sample] BY <1>2, <1>6, <3>2
    <3> QED BY <3>1, <3>4, <3>6, <3>7
  <2>4. CASE failed => failures = 0
    <3>1. failures' = After(failures, failed) /\ failures' \in {0, 1}
      BY <1>2, <2>2, <2>4 DEF After
    <3>2. Given(e, failed, historyCount, failures) BY <2>2, <2>4 DEF Given
    <3>3. /\ \E p : Listed(p, historyCount + 1, After(failures, failed), e,
                           [next EXCEPT ![e] = head], [entry EXCEPT ![e] = s],
                           Append(samples, s))
          /\ [next EXCEPT ![e] = head] \in [Entries -> Entries \cup {End}]
          /\ [entry EXCEPT ![e] = s] \in [Entries -> Sample]
      <4>1. historyCount \in Nat /\ historyCount < HistoryMax /\ Len(samples) = historyCount
        BY <2>1
      <4>2. samples \in Seq(Sample) /\ s \in Sample BY <1>6, <1>8
      <4>3. next \in [Entries -> Entries \cup {End}] /\ entry \in [Entries -> Sample]
            /\ failures \in {0, 1}
        BY <1>2
      <4>4. Ready(e, s, failed, q, historyCount, failures, head, next, entry, samples)
        BY <1>3, <3>2, <4>1, <4>2, <4>3 DEF Ready
      <4> QED BY <4>4, RecordKeeps, Zenon
    <3>4. \E p : Listed(p, historyCount', failures', head', next', entry', samples')
      BY <1>7, <2>2, <3>1, <3>3
    <3>5. Len(samples') = Len(samples) + 1 BY <1>6, <1>7
    <3>6. historyCount' = Kept(samples') BY <1>1, <2>1, <2>2, <3>5 DEF Kept
    <3>7. historyCount' \in 1 .. HistoryMax /\ historyCount' <= Len(samples')
      BY <1>1, <2>1, <2>2, <3>5
    <3> QED BY <2>2, <3>1, <3>3, <3>4, <3>6, <3>7
  <2> QED BY <1>2, <2>3, <2>4
<1> QED BY <1>10, <1>11

\* An update of the accounting keeps the invariant.
LEMMA UpdateKeeps ==
  ASSUME FireInv, held = "no", NEW failed \in BOOLEAN, NEW t \in Nat, NodeUpdate(failed, t)
  PROVE  FireInv'
<1>1. request \in Nat /\ weight \in Nat /\ now \in Nat /\ lag \in Int
      /\ virtualTime = 0 /\ lastFinish = 0 /\ systemTime \in 0 .. Modulus - 1 /\ vd \in Nat
  BY FormatAssumption DEF FireInv, Numbers
<1>2. virtualTime' = 0 BY <1>1 DEF NodeUpdate, Executed
<1>3. UNCHANGED <<request, weight, nodeCount, systemTime, now, lastFinish>>
  BY DEF NodeUpdate, parameters, times, system
<1>4. PICK s : s = [time |-> t, value |-> lag] OBVIOUS
<1>5. samples' = Append(samples, s) BY <1>4 DEF NodeUpdate
<1>6. Begun(samples, lag) /\ updates = Len(samples) BY DEF FireInv, Offered
<1>7. (\A k \in Int : Begun(samples', k)) /\ Len(samples') = Len(samples) + 1
      /\ (InTimeOrder(samples') => InTimeOrder(samples))
  <2>1. t \in Int OBVIOUS
  <2> QED BY <1>1, <1>4, <1>5, <1>6, <2>1, OfferedMore
<1>8. updates' = Len(samples') BY <1>1, <1>6, <1>7 DEF NodeUpdate
<1>9. /\ next' \in [Entries -> Entries \cup {End}] /\ entry' \in [Entries -> Sample]
      /\ \/ Loops(head', next') /\ failures' = 2
         \/ /\ failures' \in {0, 1} /\ historyCount' = Kept(samples')
            /\ historyCount' \in 1 .. HistoryMax /\ historyCount' <= Len(samples')
            /\ \E q : Listed(q, historyCount', failures', head', next', entry', samples')
  BY Recorded
<1>10. CASE Loops(head', next') /\ failures' = 2
  <2>1. held' = "loop" /\ UNCHANGED <<lag, vd, vdStar, mercy, realFire>>
    BY <1>10 DEF NodeUpdate
  <2>2. Numbers' BY <1>1, <1>2, <1>3, <2>1 DEF FireInv, Numbers
  <2>3. Offered'
    <3>1. Begun(samples', lag') BY <1>1, <1>7, <2>1
    <3> QED BY <1>8, <3>1 DEF Offered
  <2>4. History' BY <1>9, <1>10, <2>1 DEF History
  <2>5. NoMercy'
    <3>1. InTimeOrder(samples) => mercy = 0 /\ vdStar = vd BY DEF FireInv, NoMercy
    <3> QED BY <1>7, <2>1, <3>1 DEF NoMercy
  <2> QED BY <2>2, <2>3, <2>4, <2>5 DEF FireInv
<1>11. CASE /\ failures' \in {0, 1} /\ historyCount' = Kept(samples')
            /\ historyCount' \in 1 .. HistoryMax /\ historyCount' <= Len(samples')
            /\ \E q : Listed(q, historyCount', failures', head', next', entry', samples')
  <2>1. PICK q : Listed(q, historyCount', failures', head', next', entry', samples')
    BY <1>11
  <2>2. PICK n \in 1 .. HistoryMax : n = historyCount' BY <1>11
  <2>3. n \in 0 .. HistoryMax /\ n <= Len(samples') BY <1>11, <2>2
  <2>4. Listed(q, n, failures', head', next', entry', samples') BY <2>1, <2>2
  <2>5. ~Loops(head', next') BY <2>3, <2>4, ListedWalk
  <2>6. held' = held /\ Recompute(t) BY <2>5 DEF NodeUpdate
  <2>7. Begun(samples', 0) BY <1>7
  <2>8. /\ lag' \in Int /\ vd' \in Nat
        /\ InTimeOrder(samples') => vdStar' = vd' /\ mercy' = 0 /\ realFire' = FromInt(vd')
    BY <1>1, <1>2, <2>2, <2>3, <2>4, <2>6, <2>7, Recomputed
  <2>9. Numbers' BY <1>1, <1>2, <1>3, <2>6, <2>8 DEF FireInv, Numbers
  <2>10. Offered'
    <3>1. Begun(samples', lag') BY <1>7, <2>8
    <3> QED BY <1>8, <3>1 DEF Offered
  <2>11. History' BY <1>9, <1>11, <2>6 DEF History
  <2>12. NoMercy' BY <2>8 DEF NoMercy
  <2> QED BY <2>9, <2>10, <2>11, <2>12 DEF FireInv
<1> QED BY <1>9, <1>10, <1>11

\* and every operation keeps it.
LEMMA FireStep == FireInv /\ [FireNext]_fireVars => FireInv'
<1> SUFFICES ASSUME FireInv, [FireNext]_fireVars PROVE FireInv' OBVIOUS
<1>1. CASE UNCHANGED fireVars
  <2>1. Numbers'
    BY <1>1 DEF FireInv, Numbers, fireVars, parameters, formulas, history, times, system
  <2>2. Offered' BY <1>1 DEF FireInv, Offered, fireVars, formulas, history, times
  <2>3. History' BY <1>1 DEF FireInv, History, fireVars, history
  <2>4. NoMercy' BY <1>1 DEF FireInv, NoMercy, fireVars, formulas, history
  <2> QED BY <2>1, <2>2, <2>3, <2>4 DEF FireInv
<1>2. CASE FireNext
  <2> USE DEF FireInv
  <2>0. held = "no" BY <1>2 DEF FireNext
  <2>1. CASE FireTick
    <3>1. UNCHANGED <<parameters, formulas, history, lastFinish, system, held, updates>>
          /\ now' = now + 1
      BY <2>1 DEF FireTick
    <3>2. Numbers' BY <3>1 DEF Numbers, parameters, formulas, system
    <3>3. Offered' BY <3>1 DEF Offered, history, formulas
    <3>4. History' BY <3>1 DEF History, history
    <3>5. NoMercy' BY <3>1 DEF NoMercy, formulas, history
    <3> QED BY <3>2, <3>3, <3>4, <3>5
  <2>2. ASSUME NEW w \in Weights, SetWeight(w) PROVE FireInv'
    <3>1. UNCHANGED <<request, formulas, history, times, system, held, updates>> /\ weight' = w
      BY <2>2 DEF SetWeight
    <3>2. Numbers' BY <3>1 DEF Numbers, formulas, times, system
    <3>3. Offered' BY <3>1 DEF Offered, history, formulas, times
    <3>4. History' BY <3>1 DEF History, history
    <3>5. NoMercy' BY <3>1 DEF NoMercy, formulas, history
    <3> QED BY <3>2, <3>3, <3>4, <3>5
  <2>3. ASSUME NEW r \in Requests, SetRequest(r) PROVE FireInv'
    <3>1. UNCHANGED <<weight, formulas, history, times, system, held, updates>> /\ request' = r
      BY <2>3 DEF SetRequest
    <3>2. Numbers' BY <3>1 DEF Numbers, formulas, times, system
    <3>3. Offered' BY <3>1 DEF Offered, history, formulas, times
    <3>4. History' BY <3>1 DEF History, history
    <3>5. NoMercy' BY <3>1 DEF NoMercy, formulas, history
    <3> QED BY <3>2, <3>3, <3>4, <3>5
  <2>4. CASE Start
    <3>1. UNCHANGED <<parameters, formulas, history, lastFinish, now, system, held, updates>>
      BY <2>4 DEF Start
    <3>2. Numbers' BY <3>1 DEF Numbers, parameters, formulas, system
    <3>3. Offered' BY <3>1 DEF Offered, history, formulas
    <3>4. History' BY <3>1 DEF History, history
    <3>5. NoMercy' BY <3>1 DEF NoMercy, formulas, history
    <3> QED BY <3>2, <3>3, <3>4, <3>5
  <2>5. CASE UpdateSystemTime
    <3>1. UNCHANGED <<parameters, formulas, history, times, nodeCount, held, updates>>
      BY <2>5 DEF UpdateSystemTime
    <3>2. systemTime' \in 0 .. Modulus - 1
      <4>1. nodeCount \in Nat BY FormatAssumption DEF Numbers
      <4>2. One \in Nat /\ One > 0 /\ Modulus \in Nat BY Units
      <4>3. PICK c \in Nat : c = FromInt(nodeCount)
        <5>1. nodeCount % One \in Nat BY <4>1, <4>2
        <5>2. (nodeCount % One) * One \in Nat BY <4>2, <5>1
        <5> QED BY <5>2 DEF FromInt
      <4>4. Div(One, c) \in 0 .. Modulus - 1 BY <4>2, WordResults
      <4>5. PICK d \in Int : d = Div(One, c) BY <4>2, <4>4
      <4>6. PICK s \in Int : s = systemTime BY <4>2 DEF Numbers
      <4>7. systemTime' = (s + d) % Modulus BY <2>5, <4>3, <4>5, <4>6 DEF UpdateSystemTime
      <4>8. s + d \in Int OBVIOUS
      <4> QED BY <4>7, <4>8, WordResults
    <3>3. Numbers' BY <3>1, <3>2 DEF Numbers, parameters, formulas, times
    <3>4. Offered' BY <3>1 DEF Offered, history, formulas, times
    <3>5. History' BY <3>1 DEF History, history
    <3>6. NoMercy' BY <3>1 DEF NoMercy, formulas, history
    <3> QED BY <3>3, <3>4, <3>5, <3>6
  <2>6. CASE FinishNode
    <3>1. UNCHANGED <<parameters, formulas, history, now, system, updates>> /\ held' = "finish"
      BY <2>6 DEF FinishNode
    <3>2. Numbers' BY <3>1 DEF Numbers, parameters, formulas, system
    <3>3. Offered' BY <3>1 DEF Offered, history, formulas
    <3>4. History' BY <2>0, <3>1 DEF History, history
    <3>5. NoMercy' BY <3>1 DEF NoMercy, formulas, history
    <3> QED BY <3>2, <3>3, <3>4, <3>5
  <2>7. ASSUME NEW failed \in BOOLEAN, NEW t \in 0 .. now, NodeUpdate(failed, t) PROVE FireInv'
    <3>1. t \in Nat BY DEF Numbers
    <3> HIDE DEF FireInv
    <3> QED BY <2>0, <2>7, <3>1, UpdateKeeps
  <2> HIDE DEF FireInv
  <2> QED BY <1>2, <2>1, <2>2, <2>3, <2>4, <2>5, <2>6, <2>7 DEF FireNext
<1> QED BY <1>1, <1>2

\* Every reachable state of the accounting of a node satisfies the invariant.
THEOREM FireKept == FireSpec => []FireInv
<1>1. FireInit => FireInv BY FireStart
<1>2. FireInv /\ [FireNext]_fireVars => FireInv' BY FireStep
<1> QED BY <1>1, <1>2, PTL DEF FireSpec

\* Listed by `FireInv`, the walk gives the oldest lags, newest first.
LEMMA HistoryOldest == FireInv => HistoryIsOldest
<1> SUFFICES ASSUME FireInv PROVE HistoryIsOldest OBVIOUS
<1>1. held = "loop" <=> failures >= 2 BY DEF FireInv, History
<1>2. ASSUME failures < 2
      PROVE  LET kept == SubSeq(samples, 1, IF Len(samples) < HistoryMax THEN Len(samples) ELSE HistoryMax)
                 list == Follow(head, next)
             IN  [i \in DOMAIN list |-> entry[list[i]]] = Reversed(kept)
  <2>1. held # "loop" BY <1>2 DEF FireInv, History
  <2>2. historyCount = Kept(samples) BY <2>1 DEF FireInv, History
  <2>3. PICK q : Listed(q, historyCount, failures, head, next, entry, samples)
    BY <2>1 DEF FireInv, History
  <2>4. samples \in Seq(Sample) /\ Len(samples) \in Nat BY DEF FireInv, Offered, Begun
  <2>5. HistoryMax \in Nat BY FormatAssumption
  <2>6. PICK n \in Nat : n = historyCount /\ n <= HistoryMax /\ n <= Len(samples)
    BY <2>2, <2>4, <2>5 DEF Kept
  <2>7. n \in 0 .. HistoryMax BY <2>5, <2>6
  <2>8. Listed(q, n, failures, head, next, entry, samples) BY <2>3, <2>6
  <2>9. Follow(head, next) = q BY <2>7, <2>8, ListedWalk
  <2>10. DOMAIN q = 1 .. n BY <2>8 DEF Listed
  <2>11. [i \in DOMAIN q |-> entry[q[i]]] = [i \in 1 .. n |-> samples[n + 1 - i]]
    BY <2>8, <2>10 DEF Listed
  <2>12. PICK kept : kept = SubSeq(samples, 1, n) OBVIOUS
  <2>13. Len(kept) = n /\ kept \in Seq(Sample) /\ DOMAIN kept = 1 .. n
         /\ \A i \in 1 .. n : kept[i] = samples[i]
    <3>1. 1 \in 1 .. Len(samples) + 1 /\ n \in 0 .. Len(samples) BY <2>4, <2>6
    <3>2. kept \in Seq(Sample) /\ Len(kept) = n
          /\ \A i \in 1 .. n : kept[i] = samples[i]
      BY <2>4, <2>6, <2>12
    <3> QED BY <3>2
  <2>14. Reversed(kept) = [i \in 1 .. n |-> samples[n + 1 - i]]
    <3>1. \A i \in 1 .. n : kept[n + 1 - i] = samples[n + 1 - i] BY <2>13
    <3> QED BY <2>13, <3>1 DEF Reversed
  <2>15. (IF Len(samples) < HistoryMax THEN Len(samples) ELSE HistoryMax) = n
    BY <2>2, <2>6 DEF Kept
  <2> QED BY <2>9, <2>11, <2>12, <2>14, <2>15
<1> QED BY <1>1, <1>2 DEF HistoryIsOldest

\* With virtual time at 0, a node has caught up only within epsilon of a wrap.
LEMMA JustOnce == FireInv => NeverCaughtUp
<1> SUFFICES ASSUME FireInv PROVE NeverCaughtUp OBVIOUS
<1>1. virtualTime = 0 /\ systemTime \in 0 .. Modulus - 1 BY DEF FireInv, Numbers
<1>2. IsJust <=> Abs((0 - systemTime) % Modulus) < Params.epsilon BY <1>1 DEF IsJust
<1> QED BY <1>1, <1>2, JustWhen DEF NeverCaughtUp

\* The lag history holds the oldest lags, newest first, and walks for ever
\* from the second failed allocation on; mercy is 0 as long as the updates get
\* the lock in the order of their times; and a node is never caught up with
\* (bk_sched_node_update, sched_calc_mercy, bk_sched_is_just).
THEOREM HistoryKept == FireSpec => [](HistoryIsOldest /\ NoMercy /\ NeverCaughtUp)
<1>1. FireInv => NoMercy BY DEF FireInv
<1> QED BY <1>1, HistoryOldest, JustOnce, FireKept, PTL

\* What an update computes as the deadline is the quotient of the request and
\* the weight, rounded down (sched_calc_vd).
THEOREM DeadlineRight == FireSpec => DeadlineExact
<1>1. ASSUME FireInv, NEW failed \in BOOLEAN, NEW t, NodeUpdate(failed, t), held' = "no",
             request % One < weight
      PROVE  /\ vd' * weight <= (request % One) * One
             /\ (request % One) * One < (vd' + 1) * weight
  <2>1. request \in Nat /\ weight \in Nat BY <1>1, FormatAssumption DEF FireInv, Numbers
  <2>2. Recompute(t) BY <1>1 DEF NodeUpdate
  <2>3. vd' = Deadline(request, weight) BY <2>2 DEF Recompute
  <2> QED BY <1>1, <2>1, <2>3, DeadlineIs
<1>2. FireInv /\ [FireNext]_fireVars =>
        [\A failed \in BOOLEAN, t \in 0 .. now :
           LET taken == request % One IN
           NodeUpdate(failed, t) /\ held' = "no" /\ taken < weight =>
             vd' * weight <= taken * One /\ taken * One < (vd' + 1) * weight]_fireVars
  BY <1>1
<1> QED BY <1>2, FireKept, PTL DEF FireSpec, DeadlineExact

\* What an update of the system time adds, for any number of nodes
\* (bk_sched_update_system_time).
THEOREM SystemStepRight == FireSpec => SystemStep
<1>1. ASSUME FireInv, UpdateSystemTime
      PROVE  LET step  == (systemTime' - systemTime) % Modulus
                 taken  == nodeCount % One
             IN  IF taken = 0 THEN step = 0
                 ELSE step * taken <= One /\ (step + 1) * taken > One
  <2>1. nodeCount \in Nat /\ systemTime \in 0 .. Modulus - 1
    BY <1>1, FormatAssumption DEF FireInv, Numbers
  <2>2. systemTime' = (systemTime + Div(One, FromInt(nodeCount))) % Modulus
    BY <1>1 DEF UpdateSystemTime
  <2> QED BY <2>1, <2>2, StepIs
<1>2. FireInv /\ [FireNext]_fireVars =>
        [UpdateSystemTime =>
           LET step  == (systemTime' - systemTime) % Modulus
               taken  == nodeCount % One
           IN  IF taken = 0 THEN step = 0
               ELSE step * taken <= One /\ (step + 1) * taken > One]_fireVars
  BY <1>1
<1> QED BY <1>2, FireKept, PTL DEF FireSpec, SystemStep

\* f takes the values of a chain of n turns that begins with a.
Chained(f, a, n, turns) == f[0] = a /\ \A i \in 1 .. n : f[i] = turns[i][f[i - 1]]

\* Any number of turns makes a chain.
LEMMA ChainExists ==
  ASSUME NEW T, NEW a \in T, NEW n \in Nat, NEW turns \in [1 .. n -> [T -> T]]
  PROVE  \E f \in [0 .. n -> T] : Chained(f, a, n, turns)
<1> USE DEF Chained
<1> DEFINE P(m) == \E f \in [0 .. m -> T] : Chained(f, a, m, turns)
           S == {m \in 0 .. n : ~P(m)}
<1>1. S = {}
  <2> SUFFICES ASSUME S # {} PROVE FALSE OBVIOUS
  <2>1. S \in SUBSET Nat OBVIOUS
  <2>2. PICK l \in S : \A m \in S : l <= m
    <3> HIDE DEF S
    <3> QED BY <2>1, LeastOf
  <2>3. l \in 0 .. n /\ l \in Nat /\ ~P(l) BY <2>2
  <2>4. l # 0
    <3>1. P(0)
      <4> DEFINE f == [i \in 0 .. 0 |-> a]
      <4>1. f \in [0 .. 0 -> T] /\ Chained(f, a, 0, turns) OBVIOUS
      <4> QED BY <4>1
    <3> HIDE DEF P
    <3> QED BY <2>3, <3>1
  <2>5. P(l - 1)
    <3> HIDE DEF P
    <3>1. l - 1 \in 0 .. n /\ ~(l <= l - 1) BY <2>3, <2>4
    <3>2. l - 1 \notin S BY <2>2, <3>1
    <3> QED BY <3>1, <3>2
  <2>6. PICK f \in [0 .. l - 1 -> T] : Chained(f, a, l - 1, turns) BY <2>5
  <2> DEFINE z == turns[l][f[l - 1]]
             h == [i \in 0 .. l |-> IF i < l THEN f[i] ELSE z]
  <2>7. l - 1 \in 0 .. l - 1 /\ l \in 1 .. n BY <2>3, <2>4
  <2>8. z \in T BY <2>6, <2>7
  <2> HIDE DEF z
  <2>9. h \in [0 .. l -> T] /\ h[0] = a /\ h[l] = z BY <2>3, <2>4, <2>6, <2>8
  <2>10. \A i \in 0 .. l - 1 : h[i] = f[i] BY <2>3
  <2> HIDE DEF h
  <2>11. ASSUME NEW i \in 1 .. l PROVE h[i] = turns[i][h[i - 1]]
    <3>1. i - 1 \in 0 .. l - 1 BY <2>3
    <3>2. CASE i = l BY <2>9, <2>10, <3>1, <3>2 DEF z
    <3>3. CASE i # l
      <4>1. i \in 1 .. l - 1 /\ i \in 0 .. l - 1 BY <2>3, <3>3
      <4> QED BY <2>6, <2>10, <3>1, <4>1
    <3> QED BY <3>2, <3>3
  <2>12. P(l) BY <2>9, <2>11
  <2> QED BY <2>3, <2>12
<1>2. n \notin S BY <1>1
<1> HIDE DEF P
<1>3. P(n) BY <1>2
<1> QED BY <1>3 DEF P

----------------------------------------------------------------------------
(* Sums of words by their digits                                           *)

\* What a carry is, and where it comes from.
Carries(x, y, i) == \E j \in x \intersect y : j < i /\ (j + 1) .. (i - 1) \subseteq x \union y

\* A position of a sum: an exclusive or of the words and of the carry.
LEMMA PlusIs ==
  ASSUME NEW w, NEW x, NEW y
  PROVE  Plus(x, y, w) = {i \in Ones(w) : (i \in Xor(x, y)) # Carries(x, y, i)}
BY Zenon DEF Plus, Carries

\* The digits of a word and of the carries of a sum.
Digit(x, i) == IF i \in x THEN 1 ELSE 0
CarryIn(x, y, i) == IF Carries(x, y, i) THEN 1 ELSE 0

\* A carry enters the next position from two ones, or from a one and a carry.
LEMMA CarryNext ==
  ASSUME NEW x \in SUBSET Nat, NEW y \in SUBSET Nat
  PROVE  /\ ~Carries(x, y, 0)
         /\ \A i \in Nat : Carries(x, y, i + 1) <=>
              i \in x \cap y \/ (i \in x \cup y /\ Carries(x, y, i))
<1>1. ~Carries(x, y, 0) BY DEF Carries
<1>2. ASSUME NEW i \in Nat PROVE Carries(x, y, i + 1) => i \in x \cap y \/ (i \in x \cup y /\ Carries(x, y, i))
  <2> SUFFICES ASSUME Carries(x, y, i + 1), i \notin x \cap y
               PROVE  i \in x \cup y /\ Carries(x, y, i)
    OBVIOUS
  <2>1. PICK j \in x \cap y : j < i + 1 /\ (j + 1) .. ((i + 1) - 1) \subseteq x \cup y
    BY DEF Carries
  <2>2. j \in Nat /\ j < i /\ i \in (j + 1) .. ((i + 1) - 1) BY <2>1
  <2>3. (j + 1) .. (i - 1) \subseteq x \cup y BY <2>1, <2>2
  <2> QED BY <2>1, <2>2, <2>3 DEF Carries
<1>3. ASSUME NEW i \in Nat, i \in x \cap y PROVE Carries(x, y, i + 1)
  <2>1. i < i + 1 /\ (i + 1) .. ((i + 1) - 1) \subseteq x \cup y OBVIOUS
  <2> QED BY <1>3, <2>1 DEF Carries
<1>4. ASSUME NEW i \in Nat, i \in x \cup y, Carries(x, y, i) PROVE Carries(x, y, i + 1)
  <2>1. PICK j \in x \cap y : j < i /\ (j + 1) .. (i - 1) \subseteq x \cup y
    BY <1>4 DEF Carries
  <2>2. j < i + 1 /\ (j + 1) .. ((i + 1) - 1) \subseteq x \cup y BY <1>4, <2>1
  <2> QED BY <2>1, <2>2 DEF Carries
<1> QED BY <1>1, <1>2, <1>3, <1>4

\* A digit of a sum, and what it carries on.
LEMMA FullAdder ==
  ASSUME NEW w \in Nat, NEW x \in SUBSET Nat, NEW y \in SUBSET Nat, NEW i \in 0 .. w - 1
  PROVE  /\ Digit(Plus(x, y, w), i) + 2 * CarryIn(x, y, i + 1)
              = Digit(x, i) + Digit(y, i) + CarryIn(x, y, i)
         /\ Digit(x, i) \in {0, 1} /\ Digit(y, i) \in {0, 1} /\ Digit(Plus(x, y, w), i) \in {0, 1}
         /\ CarryIn(x, y, i) \in {0, 1} /\ CarryIn(x, y, i + 1) \in {0, 1} /\ CarryIn(x, y, 0) = 0
<1>1. i \in Plus(x, y, w) <=> ((i \in Xor(x, y)) # Carries(x, y, i)) BY PlusIs DEF Ones
<1>2. i \in Xor(x, y) <=> (i \in x /\ i \notin y) \/ (i \in y /\ i \notin x) BY DEF Xor
<1>3. Carries(x, y, i + 1) <=> i \in x \cap y \/ (i \in x \cup y /\ Carries(x, y, i))
  BY CarryNext
<1>4. ~Carries(x, y, 0) BY CarryNext
<1>5. i \in Plus(x, y, w) <=>
        \/ i \in x /\ i \in y /\ Carries(x, y, i)
        \/ i \in x /\ i \notin y /\ ~Carries(x, y, i)
        \/ i \notin x /\ i \in y /\ ~Carries(x, y, i)
        \/ i \notin x /\ i \notin y /\ Carries(x, y, i)
  <2>1. (i \in Xor(x, y)) \in BOOLEAN /\ Carries(x, y, i) \in BOOLEAN BY DEF Carries
  <2> QED BY <1>1, <1>2, <2>1, Zenon
<1>6. /\ Digit(Plus(x, y, w), i) = IF i \in Plus(x, y, w) THEN 1 ELSE 0
      /\ Digit(x, i) = IF i \in x THEN 1 ELSE 0
      /\ Digit(y, i) = IF i \in y THEN 1 ELSE 0
      /\ CarryIn(x, y, i) = IF Carries(x, y, i) THEN 1 ELSE 0
      /\ CarryIn(x, y, i + 1) = IF Carries(x, y, i + 1) THEN 1 ELSE 0
      /\ CarryIn(x, y, 0) = IF Carries(x, y, 0) THEN 1 ELSE 0
  BY Zenon DEF Digit, CarryIn
<1> QED BY <1>3, <1>4, <1>5, <1>6

\* Induction, as far as a number.
LEMMA Upwards ==
  ASSUME NEW n \in Nat, NEW S, 0 \in S, \A i \in 0 .. n - 1 : i \in S => i + 1 \in S
  PROVE  0 .. n \subseteq S
<1> DEFINE R == {i \in 0 .. n : i \notin S}
<1>1. R = {}
  <2> SUFFICES ASSUME R # {} PROVE FALSE OBVIOUS
  <2>1. R \in SUBSET Nat OBVIOUS
  <2>2. PICK l \in R : \A m \in R : l <= m
    <3> HIDE DEF R
    <3> QED BY <2>1, LeastOf
  <2>3. l \in 0 .. n /\ l \notin S BY <2>2
  <2>4. PICK i \in 0 .. n - 1 : l = i + 1
    <3>1. l # 0 BY <2>3
    <3>2. l - 1 \in 0 .. n - 1 /\ l = (l - 1) + 1 BY <2>3, <3>1
    <3> QED BY <3>2
  <2>5. i \in 0 .. n /\ ~(l <= i) BY <2>4
  <2>6. i \notin R
    <3> HIDE DEF R
    <3> QED BY <2>2, <2>5
  <2> QED BY <2>3, <2>4, <2>5, <2>6
<1> QED BY <1>1

\* A digit is 0 or 1.
LEMMA DigitIs == ASSUME NEW x, NEW i PROVE Digit(x, i) \in {0, 1}
BY Zenon DEF Digit

\* Four and eight digits of a word.
Pair(x, i) == Digit(x, i) + 2 * Digit(x, i + 1)
Nibble(x, i) == Pair(x, i) + 4 * Pair(x, i + 2)
EightBits(x, i) == Nibble(x, i) + 16 * Nibble(x, i + 4)

\* A nibble is a number below 16.
LEMMA NibbleIs ==
  ASSUME NEW x, NEW i \in Nat
  PROVE  /\ Nibble(x, i) = Digit(x, i) + 2 * Digit(x, i + 1) + 4 * Digit(x, i + 2)
                             + 8 * Digit(x, i + 3)
         /\ Nibble(x, i) \in 0 .. 15
<1>1. (i + 2) + 1 = i + 3 OBVIOUS
<1>2. /\ Digit(x, i) \in {0, 1} /\ Digit(x, i + 1) \in {0, 1}
      /\ Digit(x, i + 2) \in {0, 1} /\ Digit(x, i + 3) \in {0, 1}
  BY DigitIs
<1>3. Nibble(x, i) = (Digit(x, i) + 2 * Digit(x, i + 1))
                       + 4 * (Digit(x, i + 2) + 2 * Digit(x, i + 3))
  BY <1>1, Zenon DEF Nibble, Pair
<1> HIDE DEF Digit
<1> QED BY <1>2, <1>3

\* A byte is a number below 256.
LEMMA EightIs ==
  ASSUME NEW x, NEW i \in Nat
  PROVE  EightBits(x, i) = Nibble(x, i) + 16 * Nibble(x, i + 4) /\ EightBits(x, i) \in 0 .. 255
<1>1. Nibble(x, i) \in 0 .. 15 /\ Nibble(x, i + 4) \in 0 .. 15 BY NibbleIs
<1>2. EightBits(x, i) = Nibble(x, i) + 16 * Nibble(x, i + 4) BY Zenon DEF EightBits
<1> QED BY <1>1, <1>2

\* The sums of four and of eight digits.
LEMMA NibbleAdds ==
  ASSUME NEW w \in Nat, NEW x \in SUBSET Nat, NEW y \in SUBSET Nat, NEW i \in Nat, i + 3 < w
  PROVE  /\ Nibble(Plus(x, y, w), i) + 16 * CarryIn(x, y, i + 4)
              = Nibble(x, i) + Nibble(y, i) + CarryIn(x, y, i)
         /\ CarryIn(x, y, i) \in {0, 1} /\ CarryIn(x, y, i + 4) \in {0, 1}
<1>1. PICK s : s = Plus(x, y, w) OBVIOUS
<1>2. /\ i \in 0 .. w - 1 /\ i + 1 \in 0 .. w - 1 /\ i + 2 \in 0 .. w - 1 /\ i + 3 \in 0 .. w - 1
      /\ (i + 1) + 1 = i + 2 /\ (i + 2) + 1 = i + 3 /\ (i + 3) + 1 = i + 4
  OBVIOUS
<1>3. /\ Digit(s, i) + 2 * CarryIn(x, y, i + 1) = Digit(x, i) + Digit(y, i) + CarryIn(x, y, i)
      /\ CarryIn(x, y, i) \in {0, 1} /\ CarryIn(x, y, i + 1) \in {0, 1}
  BY <1>1, <1>2, FullAdder
<1>4. /\ Digit(s, i + 1) + 2 * CarryIn(x, y, i + 2)
           = Digit(x, i + 1) + Digit(y, i + 1) + CarryIn(x, y, i + 1)
      /\ CarryIn(x, y, i + 2) \in {0, 1}
  BY <1>1, <1>2, FullAdder
<1>5. /\ Digit(s, i + 2) + 2 * CarryIn(x, y, i + 3)
           = Digit(x, i + 2) + Digit(y, i + 2) + CarryIn(x, y, i + 2)
      /\ CarryIn(x, y, i + 3) \in {0, 1}
  BY <1>1, <1>2, FullAdder
<1>6. /\ Digit(s, i + 3) + 2 * CarryIn(x, y, i + 4)
           = Digit(x, i + 3) + Digit(y, i + 3) + CarryIn(x, y, i + 3)
      /\ CarryIn(x, y, i + 4) \in {0, 1}
  BY <1>1, <1>2, FullAdder
<1>7. \A z \in {x, y, s} : Nibble(z, i) = Digit(z, i) + 2 * Digit(z, i + 1)
                             + 4 * Digit(z, i + 2) + 8 * Digit(z, i + 3)
  BY NibbleIs
<1>8. \A z \in {x, y, s} : /\ Digit(z, i) \in Int /\ Digit(z, i + 1) \in Int
                           /\ Digit(z, i + 2) \in Int /\ Digit(z, i + 3) \in Int
  BY DigitIs
<1> QED BY <1>1, <1>3, <1>4, <1>5, <1>6, <1>7, <1>8

\* Bytes add as numbers, with the carry that enters and the one that leaves.
LEMMA EightAdd ==
  ASSUME NEW w \in Nat, NEW x \in SUBSET Nat, NEW y \in SUBSET Nat, NEW i \in Nat, i + 7 < w
  PROVE  /\ EightBits(Plus(x, y, w), i) + 256 * CarryIn(x, y, i + 8)
              = EightBits(x, i) + EightBits(y, i) + CarryIn(x, y, i)
         /\ CarryIn(x, y, i) \in {0, 1} /\ CarryIn(x, y, i + 8) \in {0, 1}
<1>1. PICK s : s = Plus(x, y, w) OBVIOUS
<1>2. /\ i + 4 \in Nat /\ i + 3 < w /\ (i + 4) + 3 < w /\ (i + 4) + 4 = i + 8 OBVIOUS
<1>3. /\ Nibble(s, i) + 16 * CarryIn(x, y, i + 4) = Nibble(x, i) + Nibble(y, i) + CarryIn(x, y, i)
      /\ CarryIn(x, y, i) \in {0, 1} /\ CarryIn(x, y, i + 4) \in {0, 1}
  BY <1>1, <1>2, NibbleAdds
<1>4. /\ Nibble(s, i + 4) + 16 * CarryIn(x, y, i + 8)
           = Nibble(x, i + 4) + Nibble(y, i + 4) + CarryIn(x, y, i + 4)
      /\ CarryIn(x, y, i + 8) \in {0, 1}
  BY <1>1, <1>2, NibbleAdds
<1>5. \A z \in {x, y, s} : /\ EightBits(z, i) = Nibble(z, i) + 16 * Nibble(z, i + 4)
                           /\ Nibble(z, i) \in Int /\ Nibble(z, i + 4) \in Int
  BY EightIs, NibbleIs
<1>6. /\ EightBits(s, i) = Nibble(s, i) + 16 * Nibble(s, i + 4)
      /\ EightBits(x, i) = Nibble(x, i) + 16 * Nibble(x, i + 4)
      /\ EightBits(y, i) = Nibble(y, i) + 16 * Nibble(y, i + 4)
      /\ Nibble(s, i) \in Int /\ Nibble(s, i + 4) \in Int /\ Nibble(x, i) \in Int
      /\ Nibble(x, i + 4) \in Int /\ Nibble(y, i) \in Int /\ Nibble(y, i + 4) \in Int
  BY <1>5
<1>7. EightBits(s, i) + 256 * CarryIn(x, y, i + 8)
              = EightBits(x, i) + EightBits(y, i) + CarryIn(x, y, i)
  <2>1. ASSUME NEW sl \in Int, NEW sh \in Int, NEW xl \in Int, NEW xh \in Int, NEW yl \in Int,
               NEW yh \in Int, NEW c \in Int, NEW d \in Int, NEW e \in Int,
               sl + 16 * d = xl + yl + c, sh + 16 * e = xh + yh + d
        PROVE  (sl + 16 * sh) + 256 * e = (xl + 16 * xh) + (yl + 16 * yh) + c
    BY <2>1
  <2>2. CarryIn(x, y, i) \in Int /\ CarryIn(x, y, i + 4) \in Int /\ CarryIn(x, y, i + 8) \in Int
    BY <1>3, <1>4
  <2>3. (Nibble(s, i) + 16 * Nibble(s, i + 4)) + 256 * CarryIn(x, y, i + 8)
          = (Nibble(x, i) + 16 * Nibble(x, i + 4)) + (Nibble(y, i) + 16 * Nibble(y, i + 4))
              + CarryIn(x, y, i)
    BY <1>3, <1>4, <1>6, <2>1, <2>2
  <2> QED BY <1>6, <2>3, Zenon
<1> QED BY <1>1, <1>3, <1>4, <1>7

\* A digit of a difference, and what it borrows.
Borrow(x, y, w, i) ==
  1 - CarryIn(Not(y, w), {0}, i) - CarryIn(x, Neg(y, w), i) - Digit({0}, i)

\* A subtraction by its digits and borrows.
LEMMA FullSubtractor ==
  ASSUME NEW w \in Nat, NEW x \in SUBSET Nat, NEW y \in SUBSET Nat, NEW i \in 0 .. w - 1
  PROVE  /\ Digit(Minus(x, y, w), i) = Digit(x, i) - Digit(y, i) - Borrow(x, y, w, i)
                                         + 2 * Borrow(x, y, w, i + 1)
         /\ Borrow(x, y, w, i) \in {0, 1} => Borrow(x, y, w, i + 1) \in {0, 1}
         /\ Borrow(x, y, w, 0) = 0
<1> DEFINE n == Not(y, w)
           g == Neg(y, w)
           m == Minus(x, y, w)
<1>1. n \in SUBSET Nat /\ g \in SUBSET Nat
  BY PlusIs DEF Not, Neg, Ones
<1>2. g = Plus(n, {0}, w) /\ m = Plus(x, g, w) BY Zenon DEF Neg, Minus
<1>3. Digit(n, i) = 1 - Digit(y, i) BY DEF Not, Ones, Digit
<1>4. Digit({0}, i + 1) = 0 /\ Digit({0}, 0) = 1 BY DEF Digit
<1>5. /\ Digit(g, i) + 2 * CarryIn(n, {0}, i + 1) = Digit(n, i) + Digit({0}, i) + CarryIn(n, {0}, i)
      /\ CarryIn(n, {0}, i) \in {0, 1} /\ CarryIn(n, {0}, i + 1) \in {0, 1} /\ CarryIn(n, {0}, 0) = 0
  BY <1>1, <1>2, FullAdder
<1>6. /\ Digit(m, i) + 2 * CarryIn(x, g, i + 1) = Digit(x, i) + Digit(g, i) + CarryIn(x, g, i)
      /\ CarryIn(x, g, i) \in {0, 1} /\ CarryIn(x, g, i + 1) \in {0, 1} /\ CarryIn(x, g, 0) = 0
  BY <1>1, <1>2, FullAdder
<1>7. /\ Borrow(x, y, w, i) = 1 - CarryIn(n, {0}, i) - CarryIn(x, g, i) - Digit({0}, i)
      /\ Borrow(x, y, w, i + 1) = 1 - CarryIn(n, {0}, i + 1) - CarryIn(x, g, i + 1) - Digit({0}, i + 1)
      /\ Borrow(x, y, w, 0) = 1 - CarryIn(n, {0}, 0) - CarryIn(x, g, 0) - Digit({0}, 0)
  BY Zenon DEF Borrow
<1>8. /\ Digit(x, i) \in {0, 1} /\ Digit(y, i) \in {0, 1} /\ Digit({0}, i) \in {0, 1}
      /\ Digit(g, i) \in {0, 1} /\ Digit(m, i) \in {0, 1} /\ Digit(n, i) \in {0, 1}
  BY DigitIs
<1> HIDE DEF n, g, m
<1> QED BY <1>3, <1>4, <1>5, <1>6, <1>7, <1>8 DEF m

\* The digits of a word shifted down.
LEMMA ShiftedDown ==
  ASSUME NEW x \in SUBSET Nat, NEW k \in Nat, NEW i \in Nat
  PROVE  i \in Shr(x, k) <=> i + k \in x
<1>1. ASSUME i \in Shr(x, k) PROVE i + k \in x
  <2>1. PICK j \in x : j >= k /\ i = j - k BY <1>1 DEF Shr
  <2>2. j \in Nat /\ i + k = j BY <2>1
  <2> QED BY <2>1, <2>2
<1>2. ASSUME i + k \in x PROVE i \in Shr(x, k)
  <2>1. i + k >= k /\ i = (i + k) - k OBVIOUS
  <2> QED BY <1>2, <2>1 DEF Shr
<1> QED BY <1>1, <1>2

\* What is shifted down is a word.
LEMMA ShiftIn ==
  ASSUME NEW w \in Nat, NEW x \in Word(w), NEW k \in Nat
  PROVE  x \in SUBSET Nat /\ Shr(x, k) \in SUBSET Nat /\ Shr(x, k) \in Word(w)
<1>1. x \in SUBSET Nat BY DEF Word
<1>2. ASSUME NEW i \in Shr(x, k) PROVE i \in Nat /\ i < w
  <2>1. PICK j \in x : j >= k /\ i = j - k BY DEF Shr
  <2>2. j \in 0 .. w - 1 BY DEF Word
  <2> QED BY <2>1, <2>2
<1>3. Shr(x, k) \subseteq 0 .. w - 1 BY <1>2
<1> QED BY <1>1, <1>3 DEF Word

\* The digits of a word under a mask repeated in each byte.
LEMMA Masked ==
  ASSUME NEW x, NEW b, NEW w \in Nat, NEW i \in 0 .. w - 1
  PROVE  Digit(x \cap Repeat(b, w), i) = IF i % 8 \in b THEN Digit(x, i) ELSE 0
BY DEF Digit, Repeat, Ones

\* The parallel sums of bk_bitcount32 and bk_bitcount64.
PairSums(x, w) == Minus(x, Shr(x, 1) \cap Repeat({0, 2, 4, 6}, w), w)
NibbleSums(x, w) ==
  Plus(PairSums(x, w) \cap Repeat({0, 1, 4, 5}, w),
       Shr(PairSums(x, w), 2) \cap Repeat({0, 1, 4, 5}, w), w)
ByteSums(x, w) ==
  Plus(NibbleSums(x, w), Shr(NibbleSums(x, w), 4), w) \cap Repeat(0 .. 3, w)

\* Each stage is a word.
LEMMA SumsAreWords ==
  ASSUME NEW w \in Nat, NEW x \in Word(w)
  PROVE  PairSums(x, w) \in Word(w) /\ NibbleSums(x, w) \in Word(w) /\ ByteSums(x, w) \in Word(w)
<1>1. \A a, b : Plus(a, b, w) \in Word(w) BY PlusIs DEF Word, Ones
<1>2. PairSums(x, w) \in Word(w) BY <1>1, Zenon DEF PairSums, Minus
<1>3. NibbleSums(x, w) \in Word(w) BY <1>1, Zenon DEF NibbleSums
<1>4. ByteSums(x, w) \subseteq Plus(NibbleSums(x, w), Shr(NibbleSums(x, w), 4), w)
  BY Zenon DEF ByteSums
<1>5. ByteSums(x, w) \in Word(w) BY <1>1, <1>4 DEF Word
<1> QED BY <1>2, <1>3, <1>5

\* Subtracting the upper digit of each pair leaves the sum of both.
LEMMA PairsAre ==
  ASSUME NEW K \in Nat, NEW w \in Nat, w = 8 * K, NEW x \in Word(w), NEW p \in 0 .. 4 * K - 1
  PROVE  Pair(PairSums(x, w), 2 * p) = Digit(x, 2 * p) + Digit(x, 2 * p + 1)
<1> DEFINE y == Shr(x, 1) \cap Repeat({0, 2, 4, 6}, w)
           m == PairSums(x, w)
           S == {q \in 0 .. 4 * K : Borrow(x, y, w, 2 * q) = 0}
<1>1. x \in SUBSET Nat /\ y \in SUBSET Nat BY ShiftIn
<1>2. m = Minus(x, y, w) BY Zenon DEF PairSums
<1>3. ASSUME NEW q \in 0 .. 4 * K - 1
      PROVE  Digit(y, 2 * q) = Digit(x, 2 * q + 1) /\ Digit(y, 2 * q + 1) = 0
  <2>1. 2 * q \in 0 .. w - 1 /\ 2 * q + 1 \in 0 .. w - 1 OBVIOUS
  <2>2. (2 * q) % 8 \in {0, 2, 4, 6} /\ (2 * q + 1) % 8 \notin {0, 2, 4, 6} OBVIOUS
  <2>3. Digit(y, 2 * q) = Digit(Shr(x, 1), 2 * q) /\ Digit(y, 2 * q + 1) = 0
    BY <2>1, <2>2, Masked
  <2>4. Digit(Shr(x, 1), 2 * q) = Digit(x, 2 * q + 1) BY <1>1, ShiftedDown DEF Digit
  <2> QED BY <2>3, <2>4
<1>4. ASSUME NEW q \in 0 .. 4 * K - 1, Borrow(x, y, w, 2 * q) = 0
      PROVE  /\ Pair(m, 2 * q) = Digit(x, 2 * q) + Digit(x, 2 * q + 1)
             /\ Borrow(x, y, w, 2 * (q + 1)) = 0
  <2>1. PICK i \in 0 .. w - 1 : i = 2 * q /\ i + 1 \in 0 .. w - 1
    <3>1. 2 * q \in 0 .. w - 1 /\ 2 * q + 1 \in 0 .. w - 1 OBVIOUS
    <3> QED BY <3>1
  <2>2. (i + 1) + 1 = 2 * (q + 1) BY <2>1
  <2>3. /\ Digit(m, i) = Digit(x, i) - Digit(y, i) - Borrow(x, y, w, i) + 2 * Borrow(x, y, w, i + 1)
        /\ Borrow(x, y, w, i) \in {0, 1} => Borrow(x, y, w, i + 1) \in {0, 1}
    BY <1>1, <1>2, <2>1, FullSubtractor
  <2>4. /\ Digit(m, i + 1) = Digit(x, i + 1) - Digit(y, i + 1) - Borrow(x, y, w, i + 1)
                               + 2 * Borrow(x, y, w, (i + 1) + 1)
        /\ Borrow(x, y, w, i + 1) \in {0, 1} => Borrow(x, y, w, (i + 1) + 1) \in {0, 1}
    BY <1>1, <1>2, <2>1, FullSubtractor
  <2>5. Digit(y, i) = Digit(x, i + 1) /\ Digit(y, i + 1) = 0 BY <1>3, <2>1
  <2>6. Borrow(x, y, w, i) = 0 BY <1>4, <2>1
  <2>7. Pair(m, i) = Digit(m, i) + 2 * Digit(m, i + 1) BY Zenon DEF Pair
  <2>8. /\ Digit(m, i) \in {0, 1} /\ Digit(m, i + 1) \in {0, 1}
        /\ Digit(x, i) \in {0, 1} /\ Digit(x, i + 1) \in {0, 1}
    BY DigitIs
  <2> HIDE DEF m, y
  <2>9. Pair(m, i) = Digit(x, i) + Digit(x, i + 1) /\ Borrow(x, y, w, (i + 1) + 1) = 0
    BY <2>3, <2>4, <2>5, <2>6, <2>7, <2>8
  <2> QED BY <2>1, <2>2, <2>9
<1>5. p \in S
  <2>1. 0 \in S
    <3>1. Borrow(x, y, w, 0) = 0
      <4>1. 0 \in 0 .. w - 1 OBVIOUS
      <4> QED BY <1>1, <4>1, FullSubtractor
    <3>2. 2 * 0 = 0 /\ 0 \in 0 .. 4 * K OBVIOUS
    <3> HIDE DEF y
    <3> QED BY <3>1, <3>2
  <2>2. \A q \in 0 .. 4 * K - 1 : q \in S => q + 1 \in S
    <3> HIDE DEF y
    <3> QED BY <1>4
  <2>3. 4 * K \in Nat /\ p \in 0 .. 4 * K OBVIOUS
  <2> HIDE DEF S
  <2> QED BY <2>1, <2>2, <2>3, Upwards
<1>6. Borrow(x, y, w, 2 * p) = 0 BY <1>5
<1> HIDE DEF y, m
<1> QED BY <1>4, <1>6 DEF m

\* A pair is 0 .. 3.
LEMMA PairSmall ==
  ASSUME NEW K \in Nat, NEW w \in Nat, w = 8 * K, NEW x \in Word(w), NEW p \in 0 .. 4 * K - 1
  PROVE  Pair(PairSums(x, w), 2 * p) \in 0 .. 2
<1>1. Pair(PairSums(x, w), 2 * p) = Digit(x, 2 * p) + Digit(x, 2 * p + 1) BY PairsAre
<1>2. Digit(x, 2 * p) \in {0, 1} /\ Digit(x, 2 * p + 1) \in {0, 1} BY DigitIs
<1> HIDE DEF Digit
<1> QED BY <1>1, <1>2

\* The sums of two pairs fit the nibble, which carries nothing on.
LEMMA NibblesAre ==
  ASSUME NEW K \in Nat, NEW w \in Nat, w = 8 * K, NEW x \in Word(w), NEW p \in 0 .. 2 * K - 1
  PROVE  /\ Nibble(NibbleSums(x, w), 4 * p)
              = Pair(PairSums(x, w), 4 * p) + Pair(PairSums(x, w), 4 * p + 2)
         /\ Nibble(NibbleSums(x, w), 4 * p) \in 0 .. 4
<1> DEFINE h == PairSums(x, w)
           mask == Repeat({0, 1, 4, 5}, w)
           a == h \cap mask
           b == Shr(h, 2) \cap mask
           n == NibbleSums(x, w)
           S == {q \in 0 .. 2 * K : CarryIn(a, b, 4 * q) = 0}
<1>1. h \in Word(w) BY SumsAreWords
<1>2. h \in SUBSET Nat /\ Shr(h, 2) \in SUBSET Nat /\ a \in SUBSET Nat /\ b \in SUBSET Nat
  <2> HIDE DEF h
  <2> QED BY <1>1, ShiftIn
<1>3. n = Plus(a, b, w) BY Zenon DEF NibbleSums
<1>4. ASSUME NEW q \in 0 .. 2 * K - 1
      PROVE  /\ Nibble(a, 4 * q) = Pair(h, 4 * q) /\ Nibble(b, 4 * q) = Pair(h, 4 * q + 2)
             /\ Pair(h, 4 * q) \in 0 .. 2 /\ Pair(h, 4 * q + 2) \in 0 .. 2
  <2>1. PICK i \in 0 .. w - 1 : i = 4 * q /\ i + 3 \in 0 .. w - 1
    <3>1. 4 * q \in 0 .. w - 1 /\ 4 * q + 3 \in 0 .. w - 1 OBVIOUS
    <3> QED BY <3>1
  <2>2. /\ i \in Nat /\ i + 1 \in 0 .. w - 1 /\ i + 2 \in 0 .. w - 1
        /\ (i + 1) + 2 = i + 3 /\ (i + 2) + 1 = i + 3
    BY <2>1
  <2>3. /\ i % 8 \in {0, 1, 4, 5} /\ (i + 1) % 8 \in {0, 1, 4, 5}
        /\ (i + 2) % 8 \notin {0, 1, 4, 5} /\ (i + 3) % 8 \notin {0, 1, 4, 5}
    BY <2>1
  <2> HIDE DEF h
  <2>4. /\ Digit(a, i) = Digit(h, i) /\ Digit(a, i + 1) = Digit(h, i + 1)
        /\ Digit(a, i + 2) = 0 /\ Digit(a, i + 3) = 0
    BY <2>1, <2>2, <2>3, Masked
  <2>5. /\ Digit(b, i) = Digit(Shr(h, 2), i) /\ Digit(b, i + 1) = Digit(Shr(h, 2), i + 1)
        /\ Digit(b, i + 2) = 0 /\ Digit(b, i + 3) = 0
    BY <2>1, <2>2, <2>3, Masked
  <2>6. /\ i \in Shr(h, 2) <=> i + 2 \in h
        /\ i + 1 \in Shr(h, 2) <=> i + 3 \in h
    BY <1>2, <2>2, ShiftedDown
  <2>7. Digit(Shr(h, 2), i) = Digit(h, i + 2) /\ Digit(Shr(h, 2), i + 1) = Digit(h, i + 3)
    BY <2>6 DEF Digit
  <2>8. \A z : Nibble(z, i) = Digit(z, i) + 2 * Digit(z, i + 1) + 4 * Digit(z, i + 2)
                                + 8 * Digit(z, i + 3)
    BY <2>2, NibbleIs
  <2>9. /\ Nibble(a, i) = Digit(a, i) + 2 * Digit(a, i + 1) + 4 * Digit(a, i + 2)
                                + 8 * Digit(a, i + 3)
        /\ Nibble(b, i) = Digit(b, i) + 2 * Digit(b, i + 1) + 4 * Digit(b, i + 2)
                                + 8 * Digit(b, i + 3)
    BY <2>8
  <2>10. /\ Pair(h, i) = Digit(h, i) + 2 * Digit(h, i + 1)
         /\ Pair(h, i + 2) = Digit(h, i + 2) + 2 * Digit(h, i + 3)
    BY <2>2, Zenon DEF Pair
  <2>11. /\ Digit(h, i) \in Int /\ Digit(h, i + 1) \in Int
         /\ Digit(h, i + 2) \in Int /\ Digit(h, i + 3) \in Int
    BY DigitIs
  <2> HIDE DEF a, b
  <2>12. Nibble(a, i) = Pair(h, i) BY <2>4, <2>9, <2>10, <2>11
  <2>13. Nibble(b, i) = Pair(h, i + 2) BY <2>5, <2>7, <2>9, <2>10, <2>11
  <2>14. Pair(h, 2 * (2 * q)) \in 0 .. 2 /\ Pair(h, 2 * (2 * q + 1)) \in 0 .. 2
    <3>1. 2 * q \in 0 .. 4 * K - 1 /\ 2 * q + 1 \in 0 .. 4 * K - 1 OBVIOUS
    <3> QED BY <3>1, PairSmall DEF h
  <2>15. 2 * (2 * q) = 4 * q /\ 2 * (2 * q + 1) = 4 * q + 2 OBVIOUS
  <2>16. Pair(h, 4 * q) \in 0 .. 2 /\ Pair(h, 4 * q + 2) \in 0 .. 2 BY <2>14, <2>15
  <2> QED BY <2>1, <2>12, <2>13, <2>16
<1>5. ASSUME NEW q \in 0 .. 2 * K - 1, CarryIn(a, b, 4 * q) = 0
      PROVE  /\ Nibble(n, 4 * q) = Pair(h, 4 * q) + Pair(h, 4 * q + 2)
             /\ Nibble(n, 4 * q) \in 0 .. 4
             /\ CarryIn(a, b, 4 * (q + 1)) = 0
  <2>1. 4 * q \in Nat /\ 4 * q + 3 < w /\ 4 * q + 4 = 4 * (q + 1) OBVIOUS
  <2> HIDE DEF a, b, n, h
  <2>2. /\ Nibble(n, 4 * q) + 16 * CarryIn(a, b, 4 * q + 4)
             = Nibble(a, 4 * q) + Nibble(b, 4 * q) + CarryIn(a, b, 4 * q)
        /\ CarryIn(a, b, 4 * q + 4) \in {0, 1}
    BY <1>2, <1>3, <2>1, NibbleAdds
  <2>3. Nibble(n, 4 * q) \in 0 .. 15 BY <2>1, NibbleIs
  <2>4. /\ Nibble(n, 4 * q) + 16 * CarryIn(a, b, 4 * q + 4) = Pair(h, 4 * q) + Pair(h, 4 * q + 2)
        /\ Pair(h, 4 * q) \in 0 .. 2 /\ Pair(h, 4 * q + 2) \in 0 .. 2
    BY <1>4, <1>5, <2>2
  <2>5. CarryIn(a, b, 4 * q + 4) = 0 BY <2>2, <2>3, <2>4
  <2> QED BY <2>1, <2>3, <2>4, <2>5
<1>6. p \in S
  <2>1. 0 \in S
    <3>1. CarryIn(a, b, 0) = 0 BY <1>2, CarryNext DEF CarryIn
    <3>2. 4 * 0 = 0 /\ 0 \in 0 .. 2 * K OBVIOUS
    <3> HIDE DEF a, b
    <3> QED BY <3>1, <3>2
  <2>2. \A q \in 0 .. 2 * K - 1 : q \in S => q + 1 \in S
    <3> HIDE DEF a, b
    <3> QED BY <1>5
  <2>3. 2 * K \in Nat /\ p \in 0 .. 2 * K OBVIOUS
  <2> HIDE DEF S
  <2> QED BY <2>1, <2>2, <2>3, Upwards
<1>7. CarryIn(a, b, 4 * p) = 0 BY <1>6
<1> HIDE DEF a, b, n, h
<1> QED BY <1>5, <1>7 DEF n, h

\* So do those of two nibbles the lower nibble of a byte, and what is in the
\* upper one is masked out.
LEMMA BytesCount ==
  ASSUME NEW K \in Nat, NEW w \in Nat, w = 8 * K, NEW x \in Word(w), NEW k \in 0 .. K - 1
  PROVE  /\ EightBits(ByteSums(x, w), 8 * k)
              = Digit(x, 8 * k) + Digit(x, 8 * k + 1) + Digit(x, 8 * k + 2) + Digit(x, 8 * k + 3)
                + Digit(x, 8 * k + 4) + Digit(x, 8 * k + 5) + Digit(x, 8 * k + 6)
                + Digit(x, 8 * k + 7)
<1> DEFINE n == NibbleSums(x, w)
           b == Shr(n, 4)
           t == Plus(n, b, w)
           z == ByteSums(x, w)
           S == {q \in 0 .. 2 * K : CarryIn(n, b, 4 * q) = 0}
<1>1. n \in Word(w) BY SumsAreWords
<1>2. n \in SUBSET Nat /\ b \in SUBSET Nat
  <2> HIDE DEF n
  <2> QED BY <1>1, ShiftIn
<1>3. z = t \cap Repeat(0 .. 3, w) BY Zenon DEF ByteSums
<1>4. ASSUME NEW q \in 0 .. 2 * K - 1
      PROVE  /\ Nibble(b, 4 * q) = Nibble(n, 4 * q + 4)
             /\ Nibble(n, 4 * q) \in 0 .. 4 /\ Nibble(n, 4 * q + 4) \in 0 .. 4
  <2>1. PICK i \in Nat : i = 4 * q OBVIOUS
  <2>2. (i + 1) + 4 = (i + 4) + 1 /\ (i + 2) + 4 = (i + 4) + 2 /\ (i + 3) + 4 = (i + 4) + 3
    OBVIOUS
  <2>3. Nibble(n, i) \in 0 .. 4 BY <2>1, NibblesAre
  <2> HIDE DEF n
  <2>4. /\ i \in b <=> i + 4 \in n
        /\ i + 1 \in b <=> (i + 4) + 1 \in n
        /\ i + 2 \in b <=> (i + 4) + 2 \in n
        /\ i + 3 \in b <=> (i + 4) + 3 \in n
    BY <1>2, <2>2, ShiftedDown
  <2>5. /\ Digit(b, i) = Digit(n, i + 4) /\ Digit(b, i + 1) = Digit(n, (i + 4) + 1)
        /\ Digit(b, i + 2) = Digit(n, (i + 4) + 2) /\ Digit(b, i + 3) = Digit(n, (i + 4) + 3)
    <3> HIDE DEF b
    <3> QED BY <2>4, Zenon DEF Digit
  <2>6. /\ Nibble(b, i) = Digit(b, i) + 2 * Digit(b, i + 1) + 4 * Digit(b, i + 2)
                                + 8 * Digit(b, i + 3)
        /\ Nibble(n, i + 4) = Digit(n, i + 4) + 2 * Digit(n, (i + 4) + 1)
                                + 4 * Digit(n, (i + 4) + 2) + 8 * Digit(n, (i + 4) + 3)
    <3>1. i + 4 \in Nat OBVIOUS
    <3> HIDE DEF b
    <3> QED BY <3>1, NibbleIs
  <2>7. Nibble(b, i) = Nibble(n, i + 4)
    <3> HIDE DEF b
    <3> QED BY <2>5, <2>6, Zenon
  <2>8. Nibble(n, i + 4) \in 0 .. 4
    <3>1. CASE q + 1 \in 0 .. 2 * K - 1
      <4>1. 4 * (q + 1) = i + 4 BY <2>1
      <4>2. Nibble(n, 4 * (q + 1)) \in 0 .. 4 BY <3>1, NibblesAre DEF n
      <4> QED BY <4>1, <4>2
    <3>2. CASE q + 1 \notin 0 .. 2 * K - 1
      <4>1. i + 4 = w BY <2>1, <3>2
      <4>2. /\ i + 4 \notin 0 .. w - 1 /\ (i + 4) + 1 \notin 0 .. w - 1
            /\ (i + 4) + 2 \notin 0 .. w - 1 /\ (i + 4) + 3 \notin 0 .. w - 1
        BY <4>1
      <4>3. /\ Digit(n, i + 4) = 0 /\ Digit(n, (i + 4) + 1) = 0
            /\ Digit(n, (i + 4) + 2) = 0 /\ Digit(n, (i + 4) + 3) = 0
        BY <1>1, <4>2 DEF Digit, Word
      <4> QED BY <2>6, <4>3
    <3> QED BY <3>1, <3>2
  <2> QED BY <2>1, <2>3, <2>7, <2>8
<1>5. ASSUME NEW q \in 0 .. 2 * K - 1, CarryIn(n, b, 4 * q) = 0
      PROVE  /\ Nibble(t, 4 * q) = Nibble(n, 4 * q) + Nibble(n, 4 * q + 4)
             /\ CarryIn(n, b, 4 * (q + 1)) = 0
  <2>1. 4 * q \in Nat /\ 4 * q + 3 < w /\ 4 * q + 4 = 4 * (q + 1) OBVIOUS
  <2> HIDE DEF n, b
  <2>2. /\ Nibble(t, 4 * q) + 16 * CarryIn(n, b, 4 * q + 4)
             = Nibble(n, 4 * q) + Nibble(b, 4 * q) + CarryIn(n, b, 4 * q)
        /\ CarryIn(n, b, 4 * q + 4) \in {0, 1}
    BY <1>2, <2>1, NibbleAdds
  <2> HIDE DEF t
  <2>3. Nibble(t, 4 * q) \in 0 .. 15 BY <2>1, NibbleIs
  <2>4. /\ Nibble(t, 4 * q) + 16 * CarryIn(n, b, 4 * q + 4) = Nibble(n, 4 * q) + Nibble(n, 4 * q + 4)
        /\ Nibble(n, 4 * q) \in 0 .. 4 /\ Nibble(n, 4 * q + 4) \in 0 .. 4
    BY <1>4, <1>5, <2>2
  <2>5. CarryIn(n, b, 4 * q + 4) = 0 BY <2>2, <2>3, <2>4
  <2> QED BY <2>1, <2>3, <2>4, <2>5
<1>6. 2 * k \in S
  <2>1. 0 \in S
    <3>1. CarryIn(n, b, 0) = 0 BY <1>2, CarryNext DEF CarryIn
    <3>2. 4 * 0 = 0 /\ 0 \in 0 .. 2 * K OBVIOUS
    <3> HIDE DEF n, b
    <3> QED BY <3>1, <3>2
  <2>2. \A q \in 0 .. 2 * K - 1 : q \in S => q + 1 \in S
    <3> HIDE DEF n, b
    <3> QED BY <1>5
  <2>3. 2 * K \in Nat /\ 2 * k \in 0 .. 2 * K OBVIOUS
  <2> HIDE DEF S
  <2> QED BY <2>1, <2>2, <2>3, Upwards
<1>7. CarryIn(n, b, 4 * (2 * k)) = 0 BY <1>6
<1>8. 2 * k \in 0 .. 2 * K - 1 /\ 4 * (2 * k) = 8 * k OBVIOUS
<1>9. Nibble(t, 8 * k) = Nibble(n, 8 * k) + Nibble(n, 8 * k + 4)
  <2> HIDE DEF t, n, b
  <2> QED BY <1>5, <1>7, <1>8
<1>10. EightBits(z, 8 * k) = Nibble(t, 8 * k)
  <2> HIDE DEF t, n, b
  <2>1. PICK i \in 0 .. w - 1 : i = 8 * k /\ i + 7 \in 0 .. w - 1
    <3>1. 8 * k \in 0 .. w - 1 /\ 8 * k + 7 \in 0 .. w - 1 OBVIOUS
    <3> QED BY <3>1
  <2>2. /\ i + 1 \in 0 .. w - 1 /\ i + 2 \in 0 .. w - 1 /\ i + 3 \in 0 .. w - 1
        /\ i + 4 \in 0 .. w - 1 /\ (i + 4) + 1 \in 0 .. w - 1 /\ (i + 4) + 2 \in 0 .. w - 1
        /\ (i + 4) + 3 \in 0 .. w - 1
    BY <2>1
  <2>3. /\ i % 8 \in 0 .. 3 /\ (i + 1) % 8 \in 0 .. 3 /\ (i + 2) % 8 \in 0 .. 3
        /\ (i + 3) % 8 \in 0 .. 3
        /\ (i + 4) % 8 \notin 0 .. 3 /\ ((i + 4) + 1) % 8 \notin 0 .. 3
        /\ ((i + 4) + 2) % 8 \notin 0 .. 3 /\ ((i + 4) + 3) % 8 \notin 0 .. 3
    BY <2>1
  <2>4. /\ Digit(z, i) = Digit(t, i) /\ Digit(z, i + 1) = Digit(t, i + 1)
        /\ Digit(z, i + 2) = Digit(t, i + 2) /\ Digit(z, i + 3) = Digit(t, i + 3)
        /\ Digit(z, i + 4) = 0 /\ Digit(z, (i + 4) + 1) = 0
        /\ Digit(z, (i + 4) + 2) = 0 /\ Digit(z, (i + 4) + 3) = 0
    BY <1>3, <2>1, <2>2, <2>3, Masked
  <2> HIDE DEF z
  <2>5. i \in Nat /\ i + 4 \in Nat OBVIOUS
  <2>6. /\ Nibble(z, i) = Digit(z, i) + 2 * Digit(z, i + 1) + 4 * Digit(z, i + 2)
                                + 8 * Digit(z, i + 3)
        /\ Nibble(t, i) = Digit(t, i) + 2 * Digit(t, i + 1) + 4 * Digit(t, i + 2)
                                + 8 * Digit(t, i + 3)
        /\ Nibble(z, i + 4) = Digit(z, i + 4) + 2 * Digit(z, (i + 4) + 1)
                                + 4 * Digit(z, (i + 4) + 2) + 8 * Digit(z, (i + 4) + 3)
        /\ Nibble(t, i) \in 0 .. 15
    BY <2>5, NibbleIs
  <2>7. Nibble(z, i) = Nibble(t, i) BY <2>4, <2>6, Zenon
  <2>8. Nibble(z, i + 4) = 0 BY <2>4, <2>6
  <2>9. EightBits(z, i) = Nibble(z, i) + 16 * Nibble(z, i + 4) BY <2>5, EightIs
  <2> QED BY <2>1, <2>6, <2>7, <2>8, <2>9
<1>11. /\ Nibble(n, 8 * k) = Pair(PairSums(x, w), 8 * k) + Pair(PairSums(x, w), 8 * k + 2)
       /\ Nibble(n, 8 * k + 4) = Pair(PairSums(x, w), 8 * k + 4) + Pair(PairSums(x, w), 8 * k + 6)
  <2>1. 2 * k \in 0 .. 2 * K - 1 /\ 2 * k + 1 \in 0 .. 2 * K - 1 OBVIOUS
  <2>2. /\ 4 * (2 * k) = 8 * k /\ 4 * (2 * k + 1) = 8 * k + 4 /\ (8 * k + 4) + 2 = 8 * k + 6
    OBVIOUS
  <2>3. /\ Nibble(n, 4 * (2 * k)) = Pair(PairSums(x, w), 4 * (2 * k)) + Pair(PairSums(x, w), 4 * (2 * k) + 2)
        /\ Nibble(n, 4 * (2 * k + 1)) = Pair(PairSums(x, w), 4 * (2 * k + 1)) + Pair(PairSums(x, w), 4 * (2 * k + 1) + 2)
    BY <2>1, NibblesAre
  <2> HIDE DEF n
  <2> QED BY <2>2, <2>3
<1>12. /\ Pair(PairSums(x, w), 8 * k) = Digit(x, 8 * k) + Digit(x, 8 * k + 1)
       /\ Pair(PairSums(x, w), 8 * k + 2) = Digit(x, 8 * k + 2) + Digit(x, 8 * k + 3)
       /\ Pair(PairSums(x, w), 8 * k + 4) = Digit(x, 8 * k + 4) + Digit(x, 8 * k + 5)
       /\ Pair(PairSums(x, w), 8 * k + 6) = Digit(x, 8 * k + 6) + Digit(x, 8 * k + 7)
  <2>1. /\ 4 * k \in 0 .. 4 * K - 1 /\ 4 * k + 1 \in 0 .. 4 * K - 1
        /\ 4 * k + 2 \in 0 .. 4 * K - 1 /\ 4 * k + 3 \in 0 .. 4 * K - 1
    OBVIOUS
  <2>2. /\ 2 * (4 * k) = 8 * k /\ 2 * (4 * k + 1) = 8 * k + 2
        /\ 2 * (4 * k + 2) = 8 * k + 4 /\ 2 * (4 * k + 3) = 8 * k + 6
        /\ (8 * k + 2) + 1 = 8 * k + 3 /\ (8 * k + 4) + 1 = 8 * k + 5 /\ (8 * k + 6) + 1 = 8 * k + 7
    OBVIOUS
  <2>3. \A p \in 0 .. 4 * K - 1 :
          Pair(PairSums(x, w), 2 * p) = Digit(x, 2 * p) + Digit(x, 2 * p + 1)
    BY PairsAre
  <2> QED BY <2>1, <2>2, <2>3
<1>13. /\ Digit(x, 8 * k) \in Int /\ Digit(x, 8 * k + 1) \in Int /\ Digit(x, 8 * k + 2) \in Int
       /\ Digit(x, 8 * k + 3) \in Int /\ Digit(x, 8 * k + 4) \in Int /\ Digit(x, 8 * k + 5) \in Int
       /\ Digit(x, 8 * k + 6) \in Int /\ Digit(x, 8 * k + 7) \in Int
  BY DigitIs
<1> HIDE DEF z, t, n, b
<1> QED BY <1>9, <1>10, <1>11, <1>12, <1>13 DEF z

\* How many ones a word has below a place.
OnesBelow(x, i) == Cardinality(x \cap 0 .. i - 1)

\* One more position adds its digit to the count of the ones below.
LEMMA OnesStep ==
  ASSUME NEW x \in SUBSET Nat, NEW i \in Nat
  PROVE  /\ OnesBelow(x, i) \in Nat
         /\ OnesBelow(x, i + 1) = OnesBelow(x, i) + Digit(x, i)
         /\ OnesBelow(x, 0) = 0
<1> DEFINE S == x \cap 0 .. i - 1
           T == x \cap 0 .. (i + 1) - 1
<1>1. IsFiniteSet(0 .. i - 1) BY FS_Interval
<1>2. IsFiniteSet(S) BY <1>1, FS_Subset
<1>3. Cardinality(S) \in Nat BY <1>2, FS_CardinalityType
<1>4. i \notin S OBVIOUS
<1>5. OnesBelow(x, i) = Cardinality(S) /\ OnesBelow(x, i + 1) = Cardinality(T)
  BY Zenon DEF OnesBelow
<1>6. OnesBelow(x, 0) = 0
  <2>1. x \cap 0 .. 0 - 1 = {} OBVIOUS
  <2> QED BY <2>1, FS_EmptySet, Zenon DEF OnesBelow
<1>7. CASE i \in x
  <2>1. T = S \cup {i} BY <1>7
  <2>2. Cardinality(T) = Cardinality(S) + 1 BY <1>2, <1>4, <2>1, FS_AddElement
  <2>3. Digit(x, i) = 1 BY <1>7 DEF Digit
  <2> HIDE DEF S, T
  <2> QED BY <1>3, <1>5, <1>6, <2>2, <2>3
<1>8. CASE i \notin x
  <2>1. T = S BY <1>8
  <2>2. Digit(x, i) = 0 BY <1>8 DEF Digit
  <2>3. Cardinality(T) = Cardinality(S) BY <2>1
  <2> HIDE DEF S, T
  <2> QED BY <1>3, <1>5, <1>6, <2>2, <2>3
<1> QED BY <1>7, <1>8

\* A byte adds its eight digits to the count of the ones below.
LEMMA OnesOfByte ==
  ASSUME NEW x \in SUBSET Nat, NEW i \in Nat
  PROVE  OnesBelow(x, i + 8) = OnesBelow(x, i) + Digit(x, i) + Digit(x, i + 1) + Digit(x, i + 2)
           + Digit(x, i + 3) + Digit(x, i + 4) + Digit(x, i + 5) + Digit(x, i + 6) + Digit(x, i + 7)
<1>1. /\ (i + 1) + 1 = i + 2 /\ (i + 2) + 1 = i + 3 /\ (i + 3) + 1 = i + 4 /\ (i + 4) + 1 = i + 5
      /\ (i + 5) + 1 = i + 6 /\ (i + 6) + 1 = i + 7 /\ (i + 7) + 1 = i + 8
      /\ i + 1 \in Nat /\ i + 2 \in Nat /\ i + 3 \in Nat /\ i + 4 \in Nat /\ i + 5 \in Nat
      /\ i + 6 \in Nat /\ i + 7 \in Nat
  OBVIOUS
<1>2. /\ OnesBelow(x, i + 1) = OnesBelow(x, i) + Digit(x, i)
      /\ OnesBelow(x, i + 2) = OnesBelow(x, i + 1) + Digit(x, i + 1)
      /\ OnesBelow(x, i + 3) = OnesBelow(x, i + 2) + Digit(x, i + 2)
      /\ OnesBelow(x, i + 4) = OnesBelow(x, i + 3) + Digit(x, i + 3)
      /\ OnesBelow(x, i + 5) = OnesBelow(x, i + 4) + Digit(x, i + 4)
      /\ OnesBelow(x, i + 6) = OnesBelow(x, i + 5) + Digit(x, i + 5)
      /\ OnesBelow(x, i + 7) = OnesBelow(x, i + 6) + Digit(x, i + 6)
      /\ OnesBelow(x, i + 8) = OnesBelow(x, i + 7) + Digit(x, i + 7)
  <2>1. \A j \in Nat : OnesBelow(x, j + 1) = OnesBelow(x, j) + Digit(x, j) BY OnesStep
  <2> HIDE DEF OnesBelow, Digit
  <2> QED BY <1>1, <2>1
<1> HIDE DEF OnesBelow, Digit
<1> QED BY <1>2, Zenon

\* The turns of a multiplication.
TimesStates(s, x, m, w) ==
  /\ s \in [0 .. w -> Word(w)] /\ s[0] = {}
  /\ \A i \in 1 .. w :
       s[i] = IF i - 1 \in m THEN Plus(s[i - 1], Shl(x, i - 1, w), w) ELSE s[i - 1]

\* The product is the last of its partial sums.
LEMMA TimesRuns ==
  ASSUME NEW w \in Nat, NEW x, NEW m
  PROVE  \E s : TimesStates(s, x, m, w) /\ Times(x, m, w) = s[w]
<1> DEFINE T == Word(w)
           One1(c, i) == IF i - 1 \in m THEN Plus(c, Shl(x, i - 1, w), w) ELSE c
           sum == CHOOSE g : g = [i \in 0 .. w |->
                    IF i = 0 THEN {}
                    ELSE IF i - 1 \in m THEN Plus(g[i - 1], Shl(x, i - 1, w), w)
                    ELSE g[i - 1]]
           turns == [i \in 1 .. w |-> [c \in T |-> One1(c, i)]]
<1>1. {} \in T BY DEF Word
<1>2. ASSUME NEW c \in T, NEW i \in 1 .. w PROVE One1(c, i) \in T BY PlusIs DEF Word, Ones
<1>3. turns \in [1 .. w -> [T -> T]]
  <2> HIDE DEF T, One1
  <2> QED BY <1>2
<1> HIDE DEF T
<1>4. PICK t \in [0 .. w -> T] : Chained(t, {}, w, turns)
  <2> HIDE DEF turns
  <2> QED BY <1>1, <1>3, ChainExists
<1>5. \A i \in 1 .. w : t[i] = One1(t[i - 1], i)
  <2> TAKE i \in 1 .. w
  <2>1. i - 1 \in 0 .. w OBVIOUS
  <2>2. t[i - 1] \in T BY <2>1
  <2>3. t[i] = turns[i][t[i - 1]] BY <1>4 DEF Chained
  <2> HIDE DEF One1
  <2> QED BY <2>2, <2>3
<1>6. t = [i \in 0 .. w |-> IF i = 0 THEN {}
                            ELSE IF i - 1 \in m THEN Plus(t[i - 1], Shl(x, i - 1, w), w)
                            ELSE t[i - 1]]
  <2>1. \A i \in 0 .. w : t[i] = IF i = 0 THEN {} ELSE One1(t[i - 1], i)
    <3> HIDE DEF One1
    <3> QED BY <1>4, <1>5 DEF Chained
  <2> QED BY <2>1
<1>7. sum = [i \in 0 .. w |-> IF i = 0 THEN {}
                              ELSE IF i - 1 \in m THEN Plus(sum[i - 1], Shl(x, i - 1, w), w)
                              ELSE sum[i - 1]]
  BY <1>6, Zenon DEF sum
<1>8. Times(x, m, w) = sum[w] BY Zenon DEF Times, sum
<1> HIDE DEF sum
<1>9. sum[0] = {} /\ \A i \in 1 .. w : sum[i] = One1(sum[i - 1], i)
  <2>1. 0 \in 0 .. w /\ \A i \in 1 .. w : i \in 0 .. w /\ i # 0 OBVIOUS
  <2> QED BY <1>7, <2>1
<1>10. \A i \in 0 .. w : sum[i] \in T
  <2> DEFINE S == {i \in 0 .. w : sum[i] \in T}
  <2>1. 0 \in S
    <3>1. 0 \in 0 .. w OBVIOUS
    <3> HIDE DEF One1
    <3> QED BY <1>1, <1>9, <3>1
  <2>2. \A i \in 0 .. w - 1 : i \in S => i + 1 \in S
    <3> TAKE i \in 0 .. w - 1
    <3>1. i + 1 \in 1 .. w /\ (i + 1) - 1 = i OBVIOUS
    <3> HIDE DEF One1
    <3>2. sum[i + 1] = One1(sum[i], i + 1) BY <1>9, <3>1
    <3> QED BY <1>2, <3>1, <3>2
  <2>3. 0 .. w \subseteq S
    <3> HIDE DEF S
    <3> QED BY <2>1, <2>2, Upwards
  <2> QED BY <2>3
<1>11. sum \in [0 .. w -> T] BY <1>7, <1>10
<1>12. TimesStates(sum, x, m, w) BY <1>9, <1>11 DEF TimesStates, T
<1> QED BY <1>8, <1>12

\* The number a byte stands for.
LEMMA SmallPowers ==
  /\ 2^0 = 1 /\ 2^1 = 2 /\ 2^2 = 4 /\ 2^3 = 8 /\ 2^4 = 16 /\ 2^5 = 32 /\ 2^6 = 64 /\ 2^7 = 128
  /\ \A i \in 0 .. 30 : 2^i \in Nat
<1> DEFINE P(i) == 2^i
<1>1. P(0) = 1 /\ \A i \in 0 .. 29 : P(i) \in Nat /\ P(i + 1) = 2 * P(i)
  BY PowersOfTwo, Zenon
<1>2. P(30) \in Nat
  <2> HIDE DEF P
  <2>1. 29 \in 0 .. 29 /\ 29 + 1 = 30 OBVIOUS
  <2> QED BY <1>1, <2>1
<1>3. P(0 + 1) = 2 * P(0) /\ P(1 + 1) = 2 * P(1) /\ P(2 + 1) = 2 * P(2) /\ P(3 + 1) = 2 * P(3)
      /\ P(4 + 1) = 2 * P(4) /\ P(5 + 1) = 2 * P(5) /\ P(6 + 1) = 2 * P(6)
  <2> HIDE DEF P
  <2> QED BY <1>1
<1>4. P(1) = 2 /\ P(2) = 4 /\ P(3) = 8 /\ P(4) = 16 /\ P(5) = 32 /\ P(6) = 64 /\ P(7) = 128
  <2> HIDE DEF P
  <2> QED BY <1>1, <1>3
<1>5. \A i \in 0 .. 30 : P(i) \in Nat
  <2> HIDE DEF P
  <2> QED BY <1>1, <1>2
<1> QED BY <1>1, <1>4, <1>5, Zenon

\* The number of a word of 8 bits is that of its digits.
LEMMA NumberOfByte ==
  ASSUME NEW x \in Word(8)
  PROVE  Number(x) = EightBits(x, 0)
<1> DEFINE add(i) == IF i - 1 \in x THEN 2^(i - 1) ELSE 0
           value == CHOOSE g : g = [i \in 0 .. 31 |->
                      IF i = 0 THEN 0
                      ELSE g[i - 1] + IF i - 1 \in x THEN 2^(i - 1) ELSE 0]
           turns == [i \in 1 .. 31 |-> [c \in Nat |-> c + add(i)]]
<1>1. ASSUME NEW i \in 1 .. 31 PROVE add(i) \in Nat
  <2>1. i - 1 \in 0 .. 30 OBVIOUS
  <2> QED BY <2>1, SmallPowers
<1>2. turns \in [1 .. 31 -> [Nat -> Nat]]
  <2> HIDE DEF add
  <2> QED BY <1>1
<1>3. PICK t \in [0 .. 31 -> Nat] : Chained(t, 0, 31, turns)
  <2> HIDE DEF turns
  <2> QED BY <1>2, ChainExists
<1>4. \A i \in 1 .. 31 : t[i] = t[i - 1] + add(i)
  <2> TAKE i \in 1 .. 31
  <2>1. i - 1 \in 0 .. 31 OBVIOUS
  <2>2. t[i - 1] \in Nat BY <2>1
  <2>3. t[i] = turns[i][t[i - 1]] BY <1>3 DEF Chained
  <2> HIDE DEF add
  <2> QED BY <2>2, <2>3
<1>5. t = [i \in 0 .. 31 |-> IF i = 0 THEN 0
                             ELSE t[i - 1] + IF i - 1 \in x THEN 2^(i - 1) ELSE 0]
  <2>1. \A i \in 0 .. 31 : t[i] = IF i = 0 THEN 0 ELSE t[i - 1] + add(i)
    <3> HIDE DEF add
    <3> QED BY <1>3, <1>4 DEF Chained
  <2> QED BY <2>1
<1>6. value = [i \in 0 .. 31 |-> IF i = 0 THEN 0
                                 ELSE value[i - 1] + IF i - 1 \in x THEN 2^(i - 1) ELSE 0]
  BY <1>5, Zenon DEF value
<1>7. Number(x) = value[31] BY Zenon DEF Number, value
<1> HIDE DEF value
<1>8. value[0] = 0 /\ \A i \in 1 .. 31 : value[i] = value[i - 1] + add(i)
  <2>1. 0 \in 0 .. 31 /\ \A i \in 1 .. 31 : i \in 0 .. 31 /\ i # 0 OBVIOUS
  <2> QED BY <1>6, <2>1
<1>9. /\ add(1) = Digit(x, 0) /\ add(2) = 2 * Digit(x, 1) /\ add(3) = 4 * Digit(x, 2)
      /\ add(4) = 8 * Digit(x, 3) /\ add(5) = 16 * Digit(x, 4) /\ add(6) = 32 * Digit(x, 5)
      /\ add(7) = 64 * Digit(x, 6) /\ add(8) = 128 * Digit(x, 7)
  BY SmallPowers DEF Digit
<1>10. \A i \in 9 .. 31 : add(i) = 0 BY DEF Word
<1> HIDE DEF add
<1>11. /\ value[1] = value[0] + add(1) /\ value[2] = value[1] + add(2)
       /\ value[3] = value[2] + add(3) /\ value[4] = value[3] + add(4)
       /\ value[5] = value[4] + add(5) /\ value[6] = value[5] + add(6)
       /\ value[7] = value[6] + add(7) /\ value[8] = value[7] + add(8)
  BY <1>8
<1>12. \A i \in 0 .. 7 : Digit(x, i) \in {0, 1} BY DigitIs
<1>13. value[8] = Digit(x, 0) + 2 * Digit(x, 1) + 4 * Digit(x, 2) + 8 * Digit(x, 3)
                    + 16 * Digit(x, 4) + 32 * Digit(x, 5) + 64 * Digit(x, 6) + 128 * Digit(x, 7)
  <2> HIDE DEF Digit
  <2> QED BY <1>8, <1>9, <1>11, <1>12
<1>14. value[8] \in Nat
  <2> HIDE DEF Digit
  <2> QED BY <1>12, <1>13
<1>15. value[31] = value[8]
  <2> DEFINE S == {i \in 0 .. 23 : value[8 + i] = value[8]}
  <2>1. 0 \in S OBVIOUS
  <2>2. \A i \in 0 .. 23 - 1 : i \in S => i + 1 \in S
    <3> TAKE i \in 0 .. 23 - 1
    <3>1. 8 + (i + 1) \in 9 .. 31 /\ 8 + (i + 1) \in 1 .. 31 /\ (8 + (i + 1)) - 1 = 8 + i OBVIOUS
    <3>2. value[8 + (i + 1)] = value[8 + i] + 0 BY <1>8, <1>10, <3>1
    <3> QED BY <1>14, <3>1, <3>2
  <2>3. 0 .. 23 \subseteq S
    <3> HIDE DEF S
    <3> QED BY <2>1, <2>2, Upwards
  <2>4. 23 \in S BY <2>3
  <2> QED BY <2>4
<1>16. /\ Nibble(x, 0) = Digit(x, 0) + 2 * Digit(x, 0 + 1) + 4 * Digit(x, 0 + 2) + 8 * Digit(x, 0 + 3)
       /\ Nibble(x, 4) = Digit(x, 4) + 2 * Digit(x, 4 + 1) + 4 * Digit(x, 4 + 2) + 8 * Digit(x, 4 + 3)
       /\ EightBits(x, 0) = Nibble(x, 0) + 16 * Nibble(x, 0 + 4)
  BY NibbleIs, EightIs
<1>17. EightBits(x, 0) = (Digit(x, 0) + 2 * Digit(x, 1) + 4 * Digit(x, 2) + 8 * Digit(x, 3))
          + 16 * (Digit(x, 4) + 2 * Digit(x, 5) + 4 * Digit(x, 6) + 8 * Digit(x, 7))
  <2> HIDE DEF Digit
  <2> QED BY <1>16
<1>18. EightBits(x, 0) = value[8]
  <2> HIDE DEF Digit
  <2> QED BY <1>12, <1>13, <1>17
<1> QED BY <1>7, <1>15, <1>18

\* The digits of a word shifted up.
LEMMA ShiftedUp ==
  ASSUME NEW w \in Nat, NEW x \in SUBSET Nat, NEW k \in Nat, NEW j \in 0 .. w - 1
  PROVE  j \in Shl(x, k, w) <=> j >= k /\ j - k \in x
<1>1. ASSUME j \in Shl(x, k, w) PROVE j >= k /\ j - k \in x
  <2>1. PICK i \in x : j = i + k BY <1>1 DEF Shl
  <2>2. i \in Nat /\ j - k = i BY <2>1
  <2> QED BY <2>1, <2>2
<1>2. ASSUME j >= k, j - k \in x PROVE j \in Shl(x, k, w)
  <2>1. j = (j - k) + k OBVIOUS
  <2> QED BY <1>2, <2>1 DEF Shl, Ones
<1> QED BY <1>1, <1>2

\* A word of w bits has at most w ones.
LEMMA OnesFit ==
  ASSUME NEW x \in SUBSET Nat, NEW i \in Nat
  PROVE  OnesBelow(x, i) <= i
<1>1. IsFiniteSet(0 .. i - 1) /\ Cardinality(0 .. i - 1) = i
  BY FS_Interval
<1>2. x \cap 0 .. i - 1 \subseteq 0 .. i - 1 OBVIOUS
<1>3. Cardinality(x \cap 0 .. i - 1) <= Cardinality(0 .. i - 1) BY <1>1, <1>2, FS_Subset
<1> QED BY <1>1, <1>3 DEF OnesBelow

\* Two words that have eight digits in common.
LEMMA SameByte ==
  ASSUME NEW x, NEW y, NEW i \in Nat, NEW j \in Nat,
         \A d \in 0 .. 7 : i + d \in x <=> j + d \in y
  PROVE  EightBits(x, i) = EightBits(y, j)
<1>1. /\ i + 0 = i /\ j + 0 = j /\ i + 4 \in Nat /\ j + 4 \in Nat
      /\ (i + 4) + 1 = i + 5 /\ (i + 4) + 2 = i + 6 /\ (i + 4) + 3 = i + 7
      /\ (j + 4) + 1 = j + 5 /\ (j + 4) + 2 = j + 6 /\ (j + 4) + 3 = j + 7
  OBVIOUS
<1>2. \A d \in 0 .. 7 : Digit(x, i + d) = Digit(y, j + d) BY Zenon DEF Digit
<1>3. /\ Digit(x, i + 0) = Digit(y, j + 0) /\ Digit(x, i + 1) = Digit(y, j + 1)
      /\ Digit(x, i + 2) = Digit(y, j + 2) /\ Digit(x, i + 3) = Digit(y, j + 3)
      /\ Digit(x, i + 4) = Digit(y, j + 4) /\ Digit(x, i + 5) = Digit(y, j + 5)
      /\ Digit(x, i + 6) = Digit(y, j + 6) /\ Digit(x, i + 7) = Digit(y, j + 7)
  <2> HIDE DEF Digit
  <2> QED BY <1>2
<1> HIDE DEF Digit
<1>4. /\ Nibble(x, i) = Digit(x, i) + 2 * Digit(x, i + 1) + 4 * Digit(x, i + 2) + 8 * Digit(x, i + 3)
      /\ Nibble(y, j) = Digit(y, j) + 2 * Digit(y, j + 1) + 4 * Digit(y, j + 2) + 8 * Digit(y, j + 3)
  BY NibbleIs
<1>5. Nibble(x, i + 4) = Digit(x, i + 4) + 2 * Digit(x, (i + 4) + 1)
                           + 4 * Digit(x, (i + 4) + 2) + 8 * Digit(x, (i + 4) + 3)
  BY <1>1, NibbleIs
<1>6. Nibble(y, j + 4) = Digit(y, j + 4) + 2 * Digit(y, (j + 4) + 1)
                           + 4 * Digit(y, (j + 4) + 2) + 8 * Digit(y, (j + 4) + 3)
  BY <1>1, NibbleIs
<1>7. Nibble(x, i) = Nibble(y, j)
  <2>1. Digit(x, i) = Digit(y, j) BY <1>1, <1>3
  <2> QED BY <1>3, <1>4, <2>1, Zenon
<1>8. Nibble(x, i + 4) = Nibble(y, j + 4)
  <2>1. /\ Digit(x, (i + 4) + 1) = Digit(y, (j + 4) + 1) /\ Digit(x, (i + 4) + 2) = Digit(y, (j + 4) + 2)
        /\ Digit(x, (i + 4) + 3) = Digit(y, (j + 4) + 3)
    BY <1>1, <1>3
  <2> QED BY <1>3, <1>5, <1>6, <2>1, Zenon
<1> QED BY <1>7, <1>8, Zenon DEF EightBits

\* The bytes of the word without ones are 0.
LEMMA EightNone ==
  ASSUME NEW x, NEW i \in Nat, \A d \in 0 .. 7 : i + d \notin x
  PROVE  EightBits(x, i) = 0
<1>1. \A d \in 0 .. 7 : i + d \in x <=> 0 + d \in {} OBVIOUS
<1>2. EightBits(x, i) = EightBits({}, 0) BY <1>1, SameByte
<1>3. Nibble({}, 0) = 0 /\ Nibble({}, 4) = 0
  <2>1. \A j : Digit({}, j) = 0 BY DEF Digit
  <2>2. /\ Nibble({}, 0) = Digit({}, 0) + 2 * Digit({}, 0 + 1) + 4 * Digit({}, 0 + 2) + 8 * Digit({}, 0 + 3)
        /\ Nibble({}, 4) = Digit({}, 4) + 2 * Digit({}, 4 + 1) + 4 * Digit({}, 4 + 2) + 8 * Digit({}, 4 + 3)
    BY NibbleIs
  <2> HIDE DEF Digit
  <2> QED BY <2>1, <2>2
<1>4. EightBits({}, 0) = Nibble({}, 0) + 16 * Nibble({}, 0 + 4) BY EightIs
<1> QED BY <1>2, <1>3, <1>4

\* Multiplied by a one in each byte, the sums of the bytes add up; the number of
\* ones of a word of 31 bytes or fewer fits a byte.
OnesIn(x, k) == OnesBelow(x, 8 * k)
Upto(x, t, k) == OnesIn(x, k + 1) - OnesIn(x, IF t <= k + 1 THEN k + 1 - t ELSE 0)

\* Multiplied by 1 in each byte, byte k becomes the sum of bytes 0 .. k: the
\* partial sums stay below 256, as all the ones of the word are 64 at most.
LEMMA MultiplyAdds ==
  ASSUME NEW K \in 1 .. 31, NEW w \in Nat, w = 8 * K, NEW x \in Word(w), NEW t \in 0 .. K - 1,
         NEW a \in Word(w),
         \A k \in 0 .. K - 1 : EightBits(a, 8 * k) = Upto(x, t, k)
  PROVE  LET s == Plus(a, Shl(ByteSums(x, w), 8 * t, w), w)
         IN  \A k \in 0 .. K - 1 : EightBits(s, 8 * k) = Upto(x, t + 1, k)
<1> DEFINE z == ByteSums(x, w)
           y == Shl(z, 8 * t, w)
           s == Plus(a, y, w)
           S == {k \in 0 .. K : CarryIn(a, y, 8 * k) = 0}
<1>1. z \in Word(w) BY SumsAreWords
<1>2. x \in SUBSET Nat /\ z \in SUBSET Nat /\ a \in SUBSET Nat BY <1>1 DEF Word
<1>3. y \in SUBSET Nat BY DEF Shl, Ones
<1>4. \A k \in Nat : OnesIn(x, k) \in Nat /\ OnesIn(x, k) <= 8 * k
  <2> TAKE k \in Nat
  <2>1. 8 * k \in Nat OBVIOUS
  <2>2. OnesBelow(x, 8 * k) \in Nat /\ OnesBelow(x, 8 * k) <= 8 * k BY <1>2, <2>1, OnesStep, OnesFit
  <2> QED BY <2>2, Zenon DEF OnesIn
<1>5. ASSUME NEW k \in 0 .. K - 1
      PROVE  EightBits(z, 8 * k) = OnesIn(x, k + 1) - OnesIn(x, k)
  <2>1. PICK i \in Nat : i = 8 * k /\ i + 8 = 8 * (k + 1)
    <3>1. 8 * k \in Nat /\ 8 * k + 8 = 8 * (k + 1) OBVIOUS
    <3> QED BY <3>1
  <2>2. EightBits(z, i) = Digit(x, i) + Digit(x, i + 1) + Digit(x, i + 2) + Digit(x, i + 3)
                + Digit(x, i + 4) + Digit(x, i + 5) + Digit(x, i + 6) + Digit(x, i + 7)
    BY <2>1, BytesCount
  <2>3. OnesBelow(x, i + 8) = OnesBelow(x, i) + Digit(x, i) + Digit(x, i + 1) + Digit(x, i + 2)
           + Digit(x, i + 3) + Digit(x, i + 4) + Digit(x, i + 5) + Digit(x, i + 6) + Digit(x, i + 7)
    BY <1>2, OnesOfByte
  <2>4. OnesBelow(x, i) \in Nat BY <1>2, OnesStep
  <2>5. /\ Digit(x, i) \in Int /\ Digit(x, i + 1) \in Int /\ Digit(x, i + 2) \in Int
        /\ Digit(x, i + 3) \in Int /\ Digit(x, i + 4) \in Int /\ Digit(x, i + 5) \in Int
        /\ Digit(x, i + 6) \in Int /\ Digit(x, i + 7) \in Int
    BY DigitIs
  <2>6. EightBits(z, i) = OnesBelow(x, i + 8) - OnesBelow(x, i)
    <3> HIDE DEF z, Digit, OnesBelow
    <3> QED BY <2>2, <2>3, <2>4, <2>5
  <2>7. OnesIn(x, k) = OnesBelow(x, 8 * k) /\ OnesIn(x, k + 1) = OnesBelow(x, 8 * (k + 1))
    BY Zenon DEF OnesIn
  <2> HIDE DEF z, OnesBelow
  <2> QED BY <2>1, <2>6, <2>7
<1>6. ASSUME NEW k \in 0 .. K - 1
      PROVE  EightBits(y, 8 * k) = IF k >= t THEN EightBits(z, 8 * (k - t)) ELSE 0
  <2> HIDE DEF z
  <2>1. \A d \in 0 .. 7 : 8 * k + d \in y <=> 8 * k + d >= 8 * t /\ (8 * k + d) - 8 * t \in z
    <3> TAKE d \in 0 .. 7
    <3>1. 8 * k + d \in 0 .. w - 1 /\ 8 * t \in Nat OBVIOUS
    <3> QED BY <1>2, <3>1, ShiftedUp
  <2> HIDE DEF y
  <2>2. CASE k >= t
    <3>1. 8 * k \in Nat /\ 8 * (k - t) \in Nat BY <2>2
    <3>2. \A d \in 0 .. 7 : 8 * k + d >= 8 * t /\ (8 * k + d) - 8 * t = 8 * (k - t) + d BY <2>2
    <3>3. \A d \in 0 .. 7 : 8 * k + d \in y <=> 8 * (k - t) + d \in z BY <2>1, <3>2
    <3>4. EightBits(y, 8 * k) = EightBits(z, 8 * (k - t)) BY <3>1, <3>3, SameByte
    <3> QED BY <2>2, <3>4
  <2>3. CASE ~(k >= t)
    <3>1. 8 * k \in Nat /\ \A d \in 0 .. 7 : ~(8 * k + d >= 8 * t) BY <2>3
    <3>2. EightBits(y, 8 * k) = 0 BY <2>1, <3>1, EightNone
    <3> QED BY <2>3, <3>2
  <2> QED BY <2>2, <2>3
<1>7. ASSUME NEW k \in 0 .. K - 1
      PROVE  /\ EightBits(a, 8 * k) + EightBits(y, 8 * k) = Upto(x, t + 1, k)
             /\ Upto(x, t + 1, k) <= 248 /\ Upto(x, t + 1, k) \in Int
  <2>1. EightBits(a, 8 * k) = Upto(x, t, k) OBVIOUS
  <2>2. OnesIn(x, k + 1) \in Nat /\ OnesIn(x, k + 1) <= 248
    <3>1. k + 1 \in Nat /\ 8 * (k + 1) <= 248 OBVIOUS
    <3>2. OnesIn(x, k + 1) \in Nat /\ OnesIn(x, k + 1) <= 8 * (k + 1) BY <1>4, <3>1
    <3> HIDE DEF OnesIn
    <3> QED BY <3>1, <3>2
  <2>3. CASE k >= t
    <3>1. /\ k - t \in 0 .. K - 1 /\ k + 1 - t = (k - t) + 1 /\ k + 1 - (t + 1) = k - t
          /\ t <= k + 1 /\ t + 1 <= k + 1 /\ (k - t) + 1 \in Nat /\ k - t \in Nat
      BY <2>3
    <3>2. EightBits(y, 8 * k) = OnesIn(x, (k - t) + 1) - OnesIn(x, k - t)
      <4>1. EightBits(y, 8 * k) = EightBits(z, 8 * (k - t)) BY <1>6, <2>3
      <4>2. EightBits(z, 8 * (k - t)) = OnesIn(x, (k - t) + 1) - OnesIn(x, k - t) BY <1>5, <3>1
      <4> QED BY <4>1, <4>2, Zenon
    <3>3. Upto(x, t, k) = OnesIn(x, k + 1) - OnesIn(x, (k - t) + 1)
      <4> HIDE DEF OnesIn
      <4> QED BY <3>1 DEF Upto
    <3>4. Upto(x, t + 1, k) = OnesIn(x, k + 1) - OnesIn(x, k - t)
      <4> HIDE DEF OnesIn
      <4> QED BY <3>1 DEF Upto
    <3>5. OnesIn(x, k - t) \in Nat /\ OnesIn(x, (k - t) + 1) \in Nat BY <1>4, <3>1
    <3> HIDE DEF OnesIn, Upto, y
    <3> QED BY <2>1, <2>2, <3>2, <3>3, <3>4, <3>5
  <2>4. CASE ~(k >= t)
    <3>1. EightBits(y, 8 * k) = 0 BY <1>6, <2>4
    <3>2. (IF t <= k + 1 THEN k + 1 - t ELSE 0) = 0 /\ (IF t + 1 <= k + 1 THEN k + 1 - (t + 1) ELSE 0) = 0
      BY <2>4
    <3>3. Upto(x, t, k) = OnesIn(x, k + 1) - OnesIn(x, 0) /\ Upto(x, t + 1, k) = OnesIn(x, k + 1) - OnesIn(x, 0)
      BY <3>2, Zenon DEF Upto
    <3>4. OnesIn(x, 0) \in Nat BY <1>4
    <3> HIDE DEF OnesIn, Upto, y
    <3> QED BY <2>1, <2>2, <3>1, <3>3, <3>4
  <2> QED BY <2>3, <2>4
<1>8. ASSUME NEW k \in 0 .. K - 1, CarryIn(a, y, 8 * k) = 0
      PROVE  EightBits(s, 8 * k) = Upto(x, t + 1, k) /\ CarryIn(a, y, 8 * (k + 1)) = 0
  <2>1. 8 * k \in Nat /\ 8 * k + 7 < w /\ 8 * k + 8 = 8 * (k + 1) OBVIOUS
  <2> HIDE DEF y, Upto
  <2>2. /\ EightBits(s, 8 * k) + 256 * CarryIn(a, y, 8 * k + 8)
             = EightBits(a, 8 * k) + EightBits(y, 8 * k) + CarryIn(a, y, 8 * k)
        /\ CarryIn(a, y, 8 * k + 8) \in {0, 1}
    BY <1>2, <1>3, <2>1, EightAdd
  <2> HIDE DEF s
  <2>3. EightBits(s, 8 * k) \in 0 .. 255 BY <2>1, EightIs
  <2>4. PICK u \in Int : u = Upto(x, t + 1, k) /\ u <= 248 BY <1>7
  <2>5. EightBits(a, 8 * k) + EightBits(y, 8 * k) + CarryIn(a, y, 8 * k) = u
    <3>1. EightBits(a, 8 * k) + EightBits(y, 8 * k) = u BY <1>7, <2>4
    <3> QED BY <1>8, <2>4, <3>1
  <2>6. EightBits(s, 8 * k) + 256 * CarryIn(a, y, 8 * k + 8) = u BY <2>2, <2>5
  <2>7. CarryIn(a, y, 8 * k + 8) = 0 BY <2>2, <2>3, <2>4, <2>6
  <2>8. EightBits(s, 8 * k) = u BY <2>3, <2>6, <2>7
  <2> QED BY <2>1, <2>4, <2>7, <2>8
<1>9. ASSUME NEW k \in 0 .. K - 1 PROVE CarryIn(a, y, 8 * k) = 0
  <2>1. 0 \in S
    <3>1. CarryIn(a, y, 0) = 0 BY <1>2, <1>3, CarryNext DEF CarryIn
    <3>2. 8 * 0 = 0 /\ 0 \in 0 .. K OBVIOUS
    <3> HIDE DEF y
    <3> QED BY <3>1, <3>2
  <2>2. \A q \in 0 .. K - 1 : q \in S => q + 1 \in S
    <3> HIDE DEF y, s
    <3> QED BY <1>8
  <2>3. K \in Nat /\ k \in 0 .. K OBVIOUS
  <2>4. k \in S
    <3> HIDE DEF S
    <3> QED BY <2>1, <2>2, <2>3, Upwards
  <2> QED BY <2>4
<1>10. \A k \in 0 .. K - 1 : EightBits(s, 8 * k) = Upto(x, t + 1, k)
  <2> HIDE DEF y, s
  <2> QED BY <1>8, <1>9
<1> QED BY <1>10, Zenon

\* The next partial sum adds the word shifted by one more byte.
LEMMA ByteTurn ==
  ASSUME NEW K \in Nat, NEW w \in Nat, w = 8 * K, NEW z, NEW s,
         TimesStates(s, z, Repeat({0}, w), w), NEW t \in 0 .. K - 1
  PROVE  s[8 * (t + 1)] = Plus(s[8 * t], Shl(z, 8 * t, w), w)
<1> DEFINE i == 8 * t
           m == Repeat({0}, w)
<1>1. \A j \in 1 .. w : s[j] = IF j - 1 \in m THEN Plus(s[j - 1], Shl(z, j - 1, w), w) ELSE s[j - 1]
  BY Zenon DEF TimesStates
<1>2. i \in m
  <2>1. i \in 0 .. w - 1 /\ i % 8 \in {0} OBVIOUS
  <2> QED BY <2>1 DEF Repeat, Ones
<1>3. \A d \in 1 .. 7 : i + d \notin m
  <2> SUFFICES ASSUME NEW d \in 1 .. 7 PROVE i + d \notin m OBVIOUS
  <2>1. (i + d) % 8 \notin {0} OBVIOUS
  <2> QED BY <2>1 DEF Repeat
<1>4. i \in Nat /\ i + 8 = 8 * (t + 1) /\ i + 8 \in 0 .. w OBVIOUS
<1> HIDE DEF i, m
<1>5. s[i + 1] = Plus(s[i], Shl(z, i, w), w)
  <2>1. i + 1 \in 1 .. w /\ (i + 1) - 1 = i BY <1>4
  <2> QED BY <1>1, <1>2, <2>1
<1>6. \A d \in 1 .. 7 : s[i + (d + 1)] = s[i + d]
  <2> TAKE d \in 1 .. 7
  <2>1. i + (d + 1) \in 1 .. w /\ (i + (d + 1)) - 1 = i + d BY <1>4
  <2> QED BY <1>1, <1>3, <2>1
<1>7. s[i + 8] = s[i + 1]
  <2>1. /\ s[i + (1 + 1)] = s[i + 1] /\ s[i + (2 + 1)] = s[i + 2] /\ s[i + (3 + 1)] = s[i + 3]
        /\ s[i + (4 + 1)] = s[i + 4] /\ s[i + (5 + 1)] = s[i + 5] /\ s[i + (6 + 1)] = s[i + 6]
        /\ s[i + (7 + 1)] = s[i + 7]
    BY <1>6
  <2>2. 1 + 1 = 2 /\ 2 + 1 = 3 /\ 3 + 1 = 4 /\ 4 + 1 = 5 /\ 5 + 1 = 6 /\ 6 + 1 = 7 /\ 7 + 1 = 8 OBVIOUS
  <2> QED BY <2>1, <2>2
<1>8. s[8 * (t + 1)] = s[i + 8] BY <1>4
<1> QED BY <1>5, <1>7, <1>8 DEF i

\* The parallel sums count the ones, of any word of up to 31 bytes.
LEMMA SwarCounts ==
  ASSUME NEW K \in 1 .. 31, NEW w \in Nat, w = 8 * K, NEW x \in Word(w)
  PROVE  Swar(x, w) = Cardinality(x)
<1> DEFINE z == ByteSums(x, w)
           m == Repeat({0}, w)
<1>1. z \in Word(w) BY SumsAreWords
<1>2. Swar(x, w) = Number(Shr(Times(z, m, w), w - 8))
  BY Zenon DEF Swar, PairSums, NibbleSums, ByteSums
<1> HIDE DEF z
<1>3. PICK s : TimesStates(s, z, m, w) /\ Times(z, m, w) = s[w] BY TimesRuns
<1>4. \A i \in 0 .. w : s[i] \in Word(w) BY <1>3 DEF TimesStates
<1>5. s[0] = {} BY <1>3, Zenon DEF TimesStates
<1> DEFINE S == {t \in 0 .. K : \A k \in 0 .. K - 1 : EightBits(s[8 * t], 8 * k) = Upto(x, t, k)}
<1>6. K \in S
  <2>1. 0 \in S
    <3>1. ASSUME NEW k \in 0 .. K - 1 PROVE EightBits(s[8 * 0], 8 * k) = Upto(x, 0, k)
      <4>1. 8 * 0 = 0 /\ 8 * k \in Nat /\ k + 1 \in Nat /\ 0 <= k + 1 /\ k + 1 - 0 = k + 1 /\ 8 * (k + 1) \in Nat
        OBVIOUS
      <4>2. EightBits({}, 8 * k) = 0 BY <4>1, EightNone
      <4>3. OnesIn(x, k + 1) \in Nat
        <5>1. x \in SUBSET Nat BY DEF Word
        <5>2. OnesBelow(x, 8 * (k + 1)) \in Nat BY <4>1, <5>1, OnesStep
        <5> QED BY <5>2, Zenon DEF OnesIn
      <4>4. Upto(x, 0, k) = OnesIn(x, k + 1) - OnesIn(x, k + 1)
        <5>1. (IF 0 <= k + 1 THEN k + 1 - 0 ELSE 0) = k + 1 BY <4>1
        <5> QED BY <5>1, Zenon DEF Upto
      <4>5. Upto(x, 0, k) = 0
        <5> HIDE DEF OnesIn
        <5> QED BY <4>3, <4>4
      <4>6. s[8 * 0] = {} BY <1>5, <4>1
      <4> QED BY <4>2, <4>5, <4>6, Zenon
    <3>2. 0 \in 0 .. K OBVIOUS
    <3> QED BY <3>1, <3>2
  <2>2. ASSUME NEW t \in 0 .. K - 1, t \in S PROVE t + 1 \in S
    <3>1. \A k \in 0 .. K - 1 : EightBits(s[8 * t], 8 * k) = Upto(x, t, k) BY <2>2
    <3>2. s[8 * (t + 1)] = Plus(s[8 * t], Shl(z, 8 * t, w), w) BY <1>3, ByteTurn
    <3>3. s[8 * t] \in Word(w)
      <4>1. 8 * t \in 0 .. w OBVIOUS
      <4> QED BY <1>4, <4>1
    <3>4. \A k \in 0 .. K - 1 : EightBits(s[8 * (t + 1)], 8 * k) = Upto(x, t + 1, k)
      <4>1. \A k \in 0 .. K - 1 : EightBits(Plus(s[8 * t], Shl(ByteSums(x, w), 8 * t, w), w), 8 * k) = Upto(x, t + 1, k)
        BY <3>1, <3>3, MultiplyAdds
      <4> QED BY <3>2, <4>1, Zenon DEF z
    <3>5. t + 1 \in 0 .. K OBVIOUS
    <3> QED BY <3>4, <3>5
  <2>3. K \in Nat /\ K \in 0 .. K OBVIOUS
  <2> HIDE DEF S
  <2> QED BY <2>1, <2>2, <2>3, Upwards
<1>7. EightBits(s[w], 8 * (K - 1)) = Cardinality(x)
  <2>1. K - 1 \in 0 .. K - 1 /\ (K - 1) + 1 = K /\ K <= (K - 1) + 1 /\ (K - 1) + 1 - K = 0 OBVIOUS
  <2>2. EightBits(s[8 * K], 8 * (K - 1)) = Upto(x, K, K - 1) BY <1>6, <2>1
  <2>3. Upto(x, K, K - 1) = OnesIn(x, K) - OnesIn(x, 0)
    <3>1. (IF K <= (K - 1) + 1 THEN (K - 1) + 1 - K ELSE 0) = 0 BY <2>1
    <3> QED BY <2>1, <3>1, Zenon DEF Upto
  <2>4. x \in SUBSET Nat /\ x \cap 0 .. w - 1 = x
    <3>1. x \subseteq 0 .. w - 1 BY DEF Word
    <3>2. 0 .. w - 1 \subseteq Nat OBVIOUS
    <3> QED BY <3>1, <3>2, Zenon
  <2>5. OnesIn(x, 0) = 0
    <3>1. 8 * 0 = 0 OBVIOUS
    <3>2. OnesBelow(x, 0) = 0 BY <2>4, OnesStep
    <3> QED BY <3>1, <3>2, Zenon DEF OnesIn
  <2>6. OnesIn(x, K) = Cardinality(x) /\ OnesBelow(x, w) = Cardinality(x)
    BY <2>4, Zenon DEF OnesIn, OnesBelow
  <2>7. Cardinality(x) \in Nat
    <3>1. OnesBelow(x, w) \in Nat BY <2>4, OnesStep
    <3> QED BY <2>6, <3>1
  <2> HIDE DEF OnesIn, OnesBelow
  <2> QED BY <2>2, <2>3, <2>5, <2>6, <2>7
<1>8. PICK q : q = Shr(s[w], w - 8) OBVIOUS
<1>9. s[w] \in Word(w) /\ s[w] \in SUBSET Nat
  <2>1. s[w] \in Word(w) BY <1>4
  <2> QED BY <2>1 DEF Word
<1>10. q \in Word(8)
  <2>1. ASSUME NEW i \in q PROVE i \in 0 .. 7
    <3>1. PICK j \in s[w] : j >= w - 8 /\ i = j - (w - 8) BY <1>8 DEF Shr
    <3>2. j \in 0 .. w - 1 BY <1>9 DEF Word
    <3> QED BY <3>1, <3>2
  <2> QED BY <2>1 DEF Word
<1>11. EightBits(q, 0) = EightBits(s[w], 8 * (K - 1))
  <2>1. w - 8 = 8 * (K - 1) /\ w - 8 \in Nat /\ 8 * (K - 1) \in Nat OBVIOUS
  <2>2. \A d \in 0 .. 7 : 0 + d \in q <=> 8 * (K - 1) + d \in s[w]
    <3> TAKE d \in 0 .. 7
    <3>1. d \in q <=> d + (w - 8) \in s[w] BY <1>8, <1>9, <2>1, ShiftedDown
    <3>2. 0 + d = d /\ d + (w - 8) = 8 * (K - 1) + d OBVIOUS
    <3> QED BY <3>1, <3>2
  <2> QED BY <2>1, <2>2, SameByte
<1>12. Number(q) = EightBits(q, 0) BY <1>10, NumberOfByte
<1> QED BY <1>2, <1>3, <1>7, <1>8, <1>11, <1>12, Zenon

\* The counts of bitcount.h are exact for every word.
LEMMA CountsAre ==
  ASSUME width \in {32, 64}, val \in Word(width)
  PROVE  CountExact
<1>1. CASE width = 32
  <2>1. 4 \in 1 .. 31 /\ 32 \in Nat /\ 32 = 8 * 4 OBVIOUS
  <2>2. val \in Word(32) BY <1>1
  <2>3. Swar(val, 32) = Cardinality(val) BY <2>1, <2>2, SwarCounts
  <2>4. Cast(val, 32) = val BY <2>2 DEF Cast, Ones, Word
  <2>5. BITCOUNT("BK_UI32", val) = bitcount32(Cast(val, 32))
    <3>1. "BK_UI32" # "BK_UL3264" OBVIOUS
    <3> QED BY <3>1, Zenon DEF BITCOUNT
  <2> QED BY <1>1, <2>3, <2>4, <2>5, Zenon DEF CountExact, bitcount32
<1>2. CASE width = 64
  <2>1. 8 \in 1 .. 31 /\ 64 \in Nat /\ 64 = 8 * 8 OBVIOUS
  <2>2. val \in Word(64) BY <1>2
  <2>3. Swar(val, 64) = Cardinality(val) BY <2>1, <2>2, SwarCounts
  <2>4. BITCOUNT("BK_UL3264", val) = bitcount64(val) BY Zenon DEF BITCOUNT
  <2>5. width # 32 BY <1>2
  <2> QED BY <2>3, <2>4, <2>5, Zenon DEF CountExact, bitcount64
<1> QED BY <1>1, <1>2

\* The powers of 2 a constant is made of.
PowerOf(i) == 2^i

\* The powers of 2 below 2^31.
LEMMA AllPowers ==
  /\ PowerOf(0) = 1 /\ PowerOf(1) = 2 /\ PowerOf(2) = 4 /\ PowerOf(3) = 8 /\ PowerOf(4) = 16
  /\ PowerOf(5) = 32 /\ PowerOf(6) = 64 /\ PowerOf(7) = 128 /\ PowerOf(8) = 256 /\ PowerOf(9) = 512
  /\ PowerOf(10) = 1024 /\ PowerOf(11) = 2048 /\ PowerOf(12) = 4096 /\ PowerOf(13) = 8192 /\ PowerOf(14) = 16384
  /\ PowerOf(15) = 32768 /\ PowerOf(16) = 65536 /\ PowerOf(17) = 131072 /\ PowerOf(18) = 262144 /\ PowerOf(19) = 524288
  /\ PowerOf(20) = 1048576 /\ PowerOf(21) = 2097152 /\ PowerOf(22) = 4194304 /\ PowerOf(23) = 8388608 /\ PowerOf(24) = 16777216
  /\ PowerOf(25) = 33554432 /\ PowerOf(26) = 67108864 /\ PowerOf(27) = 134217728 /\ PowerOf(28) = 268435456 /\ PowerOf(29) = 536870912
  /\ PowerOf(30) = 1073741824
<1>1. PowerOf(0) = 1 /\ \A i \in 0 .. 29 : PowerOf(i + 1) = 2 * PowerOf(i) BY PowersOfTwo, Zenon DEF PowerOf
<1>2. /\ PowerOf(0 + 1) = 2 * PowerOf(0) /\ PowerOf(1 + 1) = 2 * PowerOf(1) /\ PowerOf(2 + 1) = 2 * PowerOf(2)
      /\ PowerOf(3 + 1) = 2 * PowerOf(3) /\ PowerOf(4 + 1) = 2 * PowerOf(4) /\ PowerOf(5 + 1) = 2 * PowerOf(5)
      /\ PowerOf(6 + 1) = 2 * PowerOf(6) /\ PowerOf(7 + 1) = 2 * PowerOf(7) /\ PowerOf(8 + 1) = 2 * PowerOf(8)
      /\ PowerOf(9 + 1) = 2 * PowerOf(9) /\ PowerOf(10 + 1) = 2 * PowerOf(10) /\ PowerOf(11 + 1) = 2 * PowerOf(11)
      /\ PowerOf(12 + 1) = 2 * PowerOf(12) /\ PowerOf(13 + 1) = 2 * PowerOf(13) /\ PowerOf(14 + 1) = 2 * PowerOf(14)
      /\ PowerOf(15 + 1) = 2 * PowerOf(15) /\ PowerOf(16 + 1) = 2 * PowerOf(16) /\ PowerOf(17 + 1) = 2 * PowerOf(17)
      /\ PowerOf(18 + 1) = 2 * PowerOf(18) /\ PowerOf(19 + 1) = 2 * PowerOf(19) /\ PowerOf(20 + 1) = 2 * PowerOf(20)
      /\ PowerOf(21 + 1) = 2 * PowerOf(21) /\ PowerOf(22 + 1) = 2 * PowerOf(22) /\ PowerOf(23 + 1) = 2 * PowerOf(23)
      /\ PowerOf(24 + 1) = 2 * PowerOf(24) /\ PowerOf(25 + 1) = 2 * PowerOf(25) /\ PowerOf(26 + 1) = 2 * PowerOf(26)
      /\ PowerOf(27 + 1) = 2 * PowerOf(27) /\ PowerOf(28 + 1) = 2 * PowerOf(28) /\ PowerOf(29 + 1) = 2 * PowerOf(29)
  BY <1>1, SMT
<1>3. /\ PowerOf(0) = 1 /\ PowerOf(1) = 2 /\ PowerOf(2) = 4 /\ PowerOf(3) = 8
      /\ PowerOf(4) = 16 /\ PowerOf(5) = 32 /\ PowerOf(6) = 64 /\ PowerOf(7) = 128
      /\ PowerOf(8) = 256 /\ PowerOf(9) = 512 /\ PowerOf(10) = 1024 /\ PowerOf(11) = 2048
      /\ PowerOf(12) = 4096 /\ PowerOf(13) = 8192 /\ PowerOf(14) = 16384 /\ PowerOf(15) = 32768
      /\ PowerOf(16) = 65536 /\ PowerOf(17) = 131072 /\ PowerOf(18) = 262144 /\ PowerOf(19) = 524288
      /\ PowerOf(20) = 1048576 /\ PowerOf(21) = 2097152 /\ PowerOf(22) = 4194304 /\ PowerOf(23) = 8388608
      /\ PowerOf(24) = 16777216 /\ PowerOf(25) = 33554432 /\ PowerOf(26) = 67108864 /\ PowerOf(27) = 134217728
      /\ PowerOf(28) = 268435456 /\ PowerOf(29) = 536870912 /\ PowerOf(30) = 1073741824
  BY <1>1, <1>2, SMT
<1> QED BY <1>3, SMT

\* The word of a number written by its ones.
LEMMA ConstIs ==
  ASSUME NEW n \in Nat, NEW S, S \subseteq 0 .. 30,
         \A i \in 0 .. 30 : (n \div PowerOf(i)) % 2 = 1 <=> i \in S
  PROVE  Const(n) = S
<1>1. Const(n) = {i \in 0 .. 30 : (n \div PowerOf(i)) % 2 = 1} BY Zenon DEF Const, PowerOf
<1> QED BY <1>1, Zenon

\* The ones of the constants the tables are made for.
CtzOnes == {0, 4, 5, 8, 10, 12, 13, 15, 18, 19, 20, 21, 22, 24, 25, 26}
ClzOnes == {0, 3, 5, 9, 10, 13, 14, 15, 16, 17, 19, 21, 22, 24, 25, 26}

\* The two multipliers, named to keep their digits from the provers.
CtzNumber == \h077CB531
ClzNumber == \h076BE629

\* The multiplier of bk_ctz32.
LEMMA CtzConst == Const(CtzNumber) = CtzOnes
<1>1. CtzNumber = 125613361 BY SMT DEF CtzNumber
<1>2. /\ (125613361 \div PowerOf(0)) % 2 = 1 /\ (125613361 \div PowerOf(1)) % 2 = 0
      /\ (125613361 \div PowerOf(2)) % 2 = 0 /\ (125613361 \div PowerOf(3)) % 2 = 0
      /\ (125613361 \div PowerOf(4)) % 2 = 1 /\ (125613361 \div PowerOf(5)) % 2 = 1
      /\ (125613361 \div PowerOf(6)) % 2 = 0 /\ (125613361 \div PowerOf(7)) % 2 = 0
      /\ (125613361 \div PowerOf(8)) % 2 = 1 /\ (125613361 \div PowerOf(9)) % 2 = 0
      /\ (125613361 \div PowerOf(10)) % 2 = 1 /\ (125613361 \div PowerOf(11)) % 2 = 0
      /\ (125613361 \div PowerOf(12)) % 2 = 1 /\ (125613361 \div PowerOf(13)) % 2 = 1
      /\ (125613361 \div PowerOf(14)) % 2 = 0 /\ (125613361 \div PowerOf(15)) % 2 = 1
      /\ (125613361 \div PowerOf(16)) % 2 = 0 /\ (125613361 \div PowerOf(17)) % 2 = 0
      /\ (125613361 \div PowerOf(18)) % 2 = 1 /\ (125613361 \div PowerOf(19)) % 2 = 1
      /\ (125613361 \div PowerOf(20)) % 2 = 1 /\ (125613361 \div PowerOf(21)) % 2 = 1
      /\ (125613361 \div PowerOf(22)) % 2 = 1 /\ (125613361 \div PowerOf(23)) % 2 = 0
      /\ (125613361 \div PowerOf(24)) % 2 = 1 /\ (125613361 \div PowerOf(25)) % 2 = 1
      /\ (125613361 \div PowerOf(26)) % 2 = 1 /\ (125613361 \div PowerOf(27)) % 2 = 0
      /\ (125613361 \div PowerOf(28)) % 2 = 0 /\ (125613361 \div PowerOf(29)) % 2 = 0
      /\ (125613361 \div PowerOf(30)) % 2 = 0
  BY AllPowers, SMT
<1>3. \A i \in 0 .. 30 : (CtzNumber \div PowerOf(i)) % 2 = 1 <=> i \in CtzOnes
  <2> TAKE i \in 0 .. 30
  <2>1. \/ i = 0 \/ i = 1 \/ i = 2 \/ i = 3 \/ i = 4 \/ i = 5 \/ i = 6 \/ i = 7 \/ i = 8 \/ i = 9 \/ i = 10
        \/ i = 11 \/ i = 12 \/ i = 13 \/ i = 14 \/ i = 15 \/ i = 16 \/ i = 17 \/ i = 18 \/ i = 19 \/ i = 20
        \/ i = 21 \/ i = 22 \/ i = 23 \/ i = 24 \/ i = 25 \/ i = 26 \/ i = 27 \/ i = 28 \/ i = 29 \/ i = 30
    BY SMT
  <2> QED BY <1>1, <1>2, <2>1, SMT DEF CtzOnes
<1>4. CtzOnes \subseteq 0 .. 30 /\ CtzNumber \in Nat BY <1>1, SMT DEF CtzOnes
<1> QED BY <1>3, <1>4, ConstIs, Zenon

\* The multiplier of bk_clz32.
LEMMA ClzConst == Const(ClzNumber) = ClzOnes
<1>1. ClzNumber = 124511785 BY SMT DEF ClzNumber
<1>2. /\ (124511785 \div PowerOf(0)) % 2 = 1 /\ (124511785 \div PowerOf(1)) % 2 = 0
      /\ (124511785 \div PowerOf(2)) % 2 = 0 /\ (124511785 \div PowerOf(3)) % 2 = 1
      /\ (124511785 \div PowerOf(4)) % 2 = 0 /\ (124511785 \div PowerOf(5)) % 2 = 1
      /\ (124511785 \div PowerOf(6)) % 2 = 0 /\ (124511785 \div PowerOf(7)) % 2 = 0
      /\ (124511785 \div PowerOf(8)) % 2 = 0 /\ (124511785 \div PowerOf(9)) % 2 = 1
      /\ (124511785 \div PowerOf(10)) % 2 = 1 /\ (124511785 \div PowerOf(11)) % 2 = 0
      /\ (124511785 \div PowerOf(12)) % 2 = 0 /\ (124511785 \div PowerOf(13)) % 2 = 1
      /\ (124511785 \div PowerOf(14)) % 2 = 1 /\ (124511785 \div PowerOf(15)) % 2 = 1
      /\ (124511785 \div PowerOf(16)) % 2 = 1 /\ (124511785 \div PowerOf(17)) % 2 = 1
      /\ (124511785 \div PowerOf(18)) % 2 = 0 /\ (124511785 \div PowerOf(19)) % 2 = 1
      /\ (124511785 \div PowerOf(20)) % 2 = 0 /\ (124511785 \div PowerOf(21)) % 2 = 1
      /\ (124511785 \div PowerOf(22)) % 2 = 1 /\ (124511785 \div PowerOf(23)) % 2 = 0
      /\ (124511785 \div PowerOf(24)) % 2 = 1 /\ (124511785 \div PowerOf(25)) % 2 = 1
      /\ (124511785 \div PowerOf(26)) % 2 = 1 /\ (124511785 \div PowerOf(27)) % 2 = 0
      /\ (124511785 \div PowerOf(28)) % 2 = 0 /\ (124511785 \div PowerOf(29)) % 2 = 0
      /\ (124511785 \div PowerOf(30)) % 2 = 0
  BY AllPowers, SMT
<1>3. \A i \in 0 .. 30 : (ClzNumber \div PowerOf(i)) % 2 = 1 <=> i \in ClzOnes
  <2> TAKE i \in 0 .. 30
  <2>1. \/ i = 0 \/ i = 1 \/ i = 2 \/ i = 3 \/ i = 4 \/ i = 5 \/ i = 6 \/ i = 7 \/ i = 8 \/ i = 9 \/ i = 10
        \/ i = 11 \/ i = 12 \/ i = 13 \/ i = 14 \/ i = 15 \/ i = 16 \/ i = 17 \/ i = 18 \/ i = 19 \/ i = 20
        \/ i = 21 \/ i = 22 \/ i = 23 \/ i = 24 \/ i = 25 \/ i = 26 \/ i = 27 \/ i = 28 \/ i = 29 \/ i = 30
    BY SMT
  <2> QED BY <1>1, <1>2, <2>1, SMT DEF ClzOnes
<1>4. ClzOnes \subseteq 0 .. 30 /\ ClzNumber \in Nat BY <1>1, SMT DEF ClzOnes
<1> QED BY <1>3, <1>4, ConstIs, Zenon

----------------------------------------------------------------------------
(* Searches for the lowest and the highest one                             *)

\* Words without a common one are added without a carry.
LEMMA PlusApart ==
  ASSUME NEW w \in Nat, NEW x \in Word(w), NEW y \in Word(w), x \cap y = {}
  PROVE  Plus(x, y, w) = x \cup y
<1>1. \A i : ~Carries(x, y, i) BY DEF Carries
<1>2. \A i : Carries(x, y, i) \in BOOLEAN /\ (i \in Xor(x, y)) \in BOOLEAN BY DEF Carries
<1>3. Plus(x, y, w) = {i \in Ones(w) : i \in Xor(x, y)}
  <2>1. \A i : ((i \in Xor(x, y)) # Carries(x, y, i)) <=> i \in Xor(x, y) BY <1>1, <1>2, Zenon
  <2>2. Plus(x, y, w) = {i \in Ones(w) : (i \in Xor(x, y)) # Carries(x, y, i)} BY PlusIs
  <2> QED BY <2>1, <2>2, Zenon
<1>4. Xor(x, y) = x \cup y BY DEF Xor
<1>5. x \cup y \subseteq Ones(w) BY DEF Word, Ones
<1> QED BY <1>3, <1>4, <1>5, Zenon

\* The product of a word with one position is a shift.
LEMMA TimesOne ==
  ASSUME NEW w \in Nat, NEW m \in SUBSET Nat, NEW l \in 0 .. w - 1
  PROVE  Times({l}, m, w) = {j \in 0 .. w - 1 : j >= l /\ j - l \in m}
<1> DEFINE Placed(i) == {j \in 0 .. w - 1 : j >= l /\ j - l \in m /\ j - l < i}
<1>1. PICK s : TimesStates(s, {l}, m, w) /\ Times({l}, m, w) = s[w] BY TimesRuns
<1> DEFINE S == {i \in 0 .. w : s[i] = Placed(i)}
<1>2. 0 \in S
  <2>1. Placed(0) = {} OBVIOUS
  <2>2. s[0] = {} BY <1>1 DEF TimesStates
  <2>3. 0 \in 0 .. w OBVIOUS
  <2> HIDE DEF Placed
  <2> QED BY <2>1, <2>2, <2>3, Zenon
<1>3. ASSUME NEW i \in 0 .. w - 1, s[i] = Placed(i) PROVE s[i + 1] = Placed(i + 1)
  <2>1. i + 1 \in 1 .. w /\ (i + 1) - 1 = i OBVIOUS
  <2>2. s[i + 1] = IF i \in m THEN Plus(s[i], Shl({l}, i, w), w) ELSE s[i]
    <3>1. s[i + 1] = IF (i + 1) - 1 \in m THEN Plus(s[(i + 1) - 1], Shl({l}, (i + 1) - 1, w), w)
                     ELSE s[(i + 1) - 1]
      BY <1>1, <2>1 DEF TimesStates
    <3> QED BY <2>1, <3>1, Zenon
  <2>3. CASE i \notin m
    <3>1. Placed(i + 1) = Placed(i)
      <4>1. \A j \in 0 .. w - 1 : j >= l /\ j - l \in m => (j - l < i + 1 <=> j - l < i) BY <2>3
      <4> QED BY <4>1
    <3> HIDE DEF Placed
    <3> QED BY <1>3, <2>2, <2>3, <3>1
  <2>4. CASE i \in m
    <3>1. PICK y : y = Shl({l}, i, w) OBVIOUS
    <3>2. y = {l + i} \cap (0 .. w - 1)
      <4>1. {k + i : k \in {l}} = {l + i} OBVIOUS
      <4> QED BY <3>1, <4>1, Zenon DEF Shl, Ones
    <3>3. y \in Word(w) /\ Placed(i) \in Word(w) BY <3>2 DEF Word
    <3>4. Placed(i) \cap y = {} BY <3>2
    <3>5. Placed(i + 1) = Placed(i) \cup y
      <4>1. \A j \in 0 .. w - 1 : (j >= l /\ j - l \in m /\ j - l < i + 1)
              <=> ((j >= l /\ j - l \in m /\ j - l < i) \/ j = l + i)
        BY <2>4
      <4> QED BY <3>2, <4>1
    <3> HIDE DEF Placed
    <3>6. Plus(Placed(i), y, w) = Placed(i) \cup y BY <3>3, <3>4, PlusApart
    <3> QED BY <1>3, <2>2, <2>4, <3>1, <3>5, <3>6
  <2> QED BY <2>3, <2>4
<1>4. w \in S
  <2>1. \A i \in 0 .. w - 1 : i \in S => i + 1 \in S
    <3> TAKE i \in 0 .. w - 1
    <3>1. i + 1 \in 0 .. w OBVIOUS
    <3> HIDE DEF Placed
    <3> QED BY <1>3, <3>1
  <2> HIDE DEF S
  <2> QED BY <1>2, <2>1, Upwards
<1>5. Placed(w) = {j \in 0 .. w - 1 : j >= l /\ j - l \in m} OBVIOUS
<1> HIDE DEF Placed
<1> QED BY <1>1, <1>4, <1>5

\* The five bits above bit 26 of that product.
LEMMA WindowIs ==
  ASSUME NEW m \in SUBSET Nat, NEW l \in 0 .. 31
  PROVE  LET One1(d) == IF d + 27 >= l /\ d + 27 - l \in m THEN 1 ELSE 0
         IN Number(Shr(Times({l}, m, 32), 27))
              = One1(0) + 2 * One1(1) + 4 * One1(2) + 8 * One1(3) + 16 * One1(4)
<1> DEFINE One1(d) == IF d + 27 >= l /\ d + 27 - l \in m THEN 1 ELSE 0
<1>1. PICK t : t = Times({l}, m, 32) OBVIOUS
<1>2. t = {j \in 0 .. 31 : j >= l /\ j - l \in m}
  <2>1. PICK w \in Nat : w = 32 OBVIOUS
  <2>2. l \in 0 .. w - 1 /\ 0 .. w - 1 = 0 .. 31 BY <2>1
  <2>3. t = Times({l}, m, w) BY <1>1, <2>1, Zenon
  <2>4. Times({l}, m, w) = {j \in 0 .. w - 1 : j >= l /\ j - l \in m} BY <2>2, TimesOne
  <2> QED BY <2>2, <2>3, <2>4, Zenon
<1>3. PICK q : q = Shr(t, 27) OBVIOUS
<1>4. \A d \in Nat : d \in q <=> d + 27 \in t
  <2>1. t \in SUBSET Nat BY <1>2
  <2> QED BY <1>3, <2>1, ShiftedDown
<1>5. q \in Word(8)
  <2>1. ASSUME NEW i \in q PROVE i \in 0 .. 7
    <3>1. PICK j \in t : j >= 27 /\ i = j - 27 BY <1>3 DEF Shr
    <3>2. j \in 0 .. 31 BY <1>2
    <3> QED BY <3>1, <3>2
  <2> QED BY <2>1 DEF Word
<1>6. \A d \in 0 .. 4 : Digit(q, d) = One1(d)
  <2> TAKE d \in 0 .. 4
  <2>1. d + 27 \in 0 .. 31 OBVIOUS
  <2>2. d \in q <=> d + 27 >= l /\ d + 27 - l \in m BY <1>2, <1>4, <2>1
  <2> QED BY <2>2 DEF Digit
<1>7. Digit(q, 5) = 0 /\ Digit(q, 6) = 0 /\ Digit(q, 7) = 0
  <2>1. 5 + 27 \notin t /\ 6 + 27 \notin t /\ 7 + 27 \notin t BY <1>2
  <2> QED BY <1>4, <2>1 DEF Digit
<1>8. Number(q) = EightBits(q, 0) BY <1>5, NumberOfByte
<1>9. /\ EightBits(q, 0) = Nibble(q, 0) + 16 * Nibble(q, 4)
      /\ Nibble(q, 0) = Digit(q, 0) + 2 * Digit(q, 1) + 4 * Digit(q, 2) + 8 * Digit(q, 3)
      /\ Nibble(q, 4) = Digit(q, 4) + 2 * Digit(q, 5) + 4 * Digit(q, 6) + 8 * Digit(q, 7)
  <2>1. /\ 0 + 4 = 4 /\ 0 + 1 = 1 /\ 0 + 2 = 2 /\ 0 + 3 = 3 /\ 4 + 1 = 5 /\ 4 + 2 = 6 /\ 4 + 3 = 7
        /\ 0 \in Nat /\ 4 \in Nat
    OBVIOUS
  <2>2. EightBits(q, 0) = Nibble(q, 0) + 16 * Nibble(q, 4) BY <2>1, EightIs, Zenon
  <2>3. Nibble(q, 0) = Digit(q, 0) + 2 * Digit(q, 1) + 4 * Digit(q, 2) + 8 * Digit(q, 3)
    BY <2>1, NibbleIs, Zenon
  <2>4. Nibble(q, 4) = Digit(q, 4) + 2 * Digit(q, 5) + 4 * Digit(q, 6) + 8 * Digit(q, 7)
    BY <2>1, NibbleIs, Zenon
  <2> QED BY <2>2, <2>3, <2>4
<1>10. \A d \in 0 .. 4 : One1(d) \in {0, 1} OBVIOUS
<1> HIDE DEF One1
<1>11. Number(q) = One1(0) + 2 * One1(1) + 4 * One1(2) + 8 * One1(3) + 16 * One1(4)
  BY <1>6, <1>7, <1>8, <1>9, <1>10
<1> QED BY <1>1, <1>3, <1>11, Zenon DEF One1

\* The tables at the place a position leads to.
LEMMA CtzEntry ==
  ASSUME NEW l \in 0 .. 31
  PROVE  CtzTable[1 + Number(Shr(Times({l}, Const(CtzNumber), 32), 27))] = l
<1> DEFINE One1(d) == IF d + 27 >= l /\ d + 27 - l \in CtzOnes THEN 1 ELSE 0
<1>1. CtzOnes \in SUBSET Nat BY DEF CtzOnes
<1>2. Number(Shr(Times({l}, Const(CtzNumber), 32), 27))
        = One1(0) + 2 * One1(1) + 4 * One1(2) + 8 * One1(3) + 16 * One1(4)
  BY <1>1, WindowIs, CtzConst, Zenon
<1>3. PICK n \in Nat : n = One1(0) + 2 * One1(1) + 4 * One1(2) + 8 * One1(3) + 16 * One1(4)
  BY DEF CtzOnes
<1>4. /\ (l = 0 => n = 0) /\ (l = 1 => n = 1) /\ (l = 2 => n = 3) /\ (l = 3 => n = 7)
      /\ (l = 4 => n = 14) /\ (l = 5 => n = 29) /\ (l = 6 => n = 27) /\ (l = 7 => n = 23)
      /\ (l = 8 => n = 15) /\ (l = 9 => n = 31) /\ (l = 10 => n = 30) /\ (l = 11 => n = 28)
      /\ (l = 12 => n = 25) /\ (l = 13 => n = 18) /\ (l = 14 => n = 5) /\ (l = 15 => n = 11)
      /\ (l = 16 => n = 22) /\ (l = 17 => n = 13) /\ (l = 18 => n = 26) /\ (l = 19 => n = 21)
      /\ (l = 20 => n = 10) /\ (l = 21 => n = 20) /\ (l = 22 => n = 9) /\ (l = 23 => n = 19)
      /\ (l = 24 => n = 6) /\ (l = 25 => n = 12) /\ (l = 26 => n = 24) /\ (l = 27 => n = 17)
      /\ (l = 28 => n = 2) /\ (l = 29 => n = 4) /\ (l = 30 => n = 8) /\ (l = 31 => n = 16)
  BY <1>3 DEF CtzOnes
<1>5. \/ l = 0 \/ l = 1 \/ l = 2 \/ l = 3 \/ l = 4 \/ l = 5 \/ l = 6 \/ l = 7
      \/ l = 8 \/ l = 9 \/ l = 10 \/ l = 11 \/ l = 12 \/ l = 13 \/ l = 14 \/ l = 15
      \/ l = 16 \/ l = 17 \/ l = 18 \/ l = 19 \/ l = 20 \/ l = 21 \/ l = 22 \/ l = 23
      \/ l = 24 \/ l = 25 \/ l = 26 \/ l = 27 \/ l = 28 \/ l = 29 \/ l = 30 \/ l = 31
  OBVIOUS
<1>6. CtzTable[1 + n] = l BY <1>4, <1>5 DEF CtzTable
<1> HIDE DEF One1
<1> QED BY <1>2, <1>3, <1>6, Zenon

\* x & -x is the lowest one of x.
LEMMA LowestAlone ==
  ASSUME NEW w \in Nat, NEW x \in Word(w), NEW l \in x, \A j \in x : l <= j
  PROVE  x \cap Neg(x, w) = {l}
<1>1. PICK n : n = Not(x, w) OBVIOUS
<1>2. x \subseteq 0 .. w - 1 /\ n = (0 .. w - 1) \ x BY <1>1 DEF Word, Not, Ones
<1>3. Neg(x, w) = {i \in Ones(w) : (i \in Xor(n, {0})) # Carries(n, {0}, i)}
  BY <1>1, PlusIs, Zenon DEF Neg
<1>4. \A i \in x : i \in Xor(n, {0}) <=> i = 0 BY <1>2 DEF Xor
<1>5. \A i \in x : Carries(n, {0}, i) <=> 0 < i /\ \A j \in x : i <= j
  <2> TAKE i \in x
  <2>1. ASSUME Carries(n, {0}, i) PROVE 0 < i /\ \A j \in x : i <= j
    <3>1. 0 \in n /\ 0 < i /\ 1 .. i - 1 \subseteq n \cup {0} BY <2>1 DEF Carries
    <3>2. ASSUME NEW j \in x, j < i PROVE FALSE
      <4>1. j # 0 /\ j \in 0 .. w - 1 BY <1>2, <3>1
      <4>2. j \in 1 .. i - 1 BY <1>2, <3>2, <4>1
      <4> QED BY <1>2, <3>1, <4>1, <4>2
    <3>3. \A j \in x : j \in Int /\ i \in Int BY <1>2
    <3> QED BY <3>1, <3>2, <3>3
  <2>2. ASSUME 0 < i, \A j \in x : i <= j PROVE Carries(n, {0}, i)
    <3>1. \A k \in 0 .. i - 1 : k \in n BY <1>2, <2>2
    <3>2. 0 \in n \cap {0} /\ (0 + 1) .. (i - 1) \subseteq n \cup {0} BY <1>2, <2>2, <3>1
    <3> QED BY <2>2, <3>2 DEF Carries
  <2> QED BY <2>1, <2>2
<1>6. \A i \in x : i \in Neg(x, w) <=> \A j \in x : i <= j
  <2> TAKE i \in x
  <2>1. i \in Neg(x, w) <=> ((i \in Xor(n, {0})) # Carries(n, {0}, i)) BY <1>2, <1>3 DEF Ones
  <2>2. Carries(n, {0}, i) \in BOOLEAN /\ (i \in Xor(n, {0})) \in BOOLEAN BY DEF Carries
  <2>3. i \in Neg(x, w) <=> ((i = 0) # (0 < i /\ \A j \in x : i <= j))
    BY <1>4, <1>5, <2>1, <2>2, Zenon
  <2>4. i = 0 => ~(0 < i) /\ \A j \in x : i <= j BY <1>2
  <2>5. i # 0 => 0 < i BY <1>2
  <2>6. (\A j \in x : i <= j) \in BOOLEAN /\ (0 < i) \in BOOLEAN BY <1>2
  <2> QED BY <2>3, <2>4, <2>5, Zenon
<1>7. \A i \in x : (\A j \in x : i <= j) <=> i = l BY <1>2
<1> QED BY <1>6, <1>7

\* bk_ctz32 with its multiplier named.
LEMMA Ctz32Reads ==
  ASSUME NEW x
  PROVE  ctz32(x) = IF x = {} THEN 32
           ELSE CtzTable[1 + Number(Shr(Times(x \cap Neg(x, 32), Const(CtzNumber), 32), 27))]
BY SMT DEF ctz32, CtzNumber

\* bk_ctz32 is the lowest one.
LEMMA Ctz32Is ==
  ASSUME NEW x \in Word(32), NEW l \in x, \A j \in x : l <= j
  PROVE  ctz32(x) = l
<1>1. PICK w \in Nat : w = 32 OBVIOUS
<1>2. x \cap Neg(x, 32) = {l}
  <2>1. x \cap Neg(x, w) = {l} BY <1>1, LowestAlone
  <2> QED BY <1>1, <2>1, Zenon
<1>3. l \in 0 .. 31 BY DEF Word
<1>4. CtzTable[1 + Number(Shr(Times({l}, Const(CtzNumber), 32), 27))] = l BY <1>3, CtzEntry
<1>5. x # {} OBVIOUS
<1> QED BY <1>2, <1>4, <1>5, Ctz32Reads, Zenon

\* bk_ctz64 is the lowest one, in either half.
LEMMA Ctz64Is ==
  ASSUME NEW x \in Word(64), NEW l \in x, \A j \in x : l <= j
  PROVE  ctz64(x) = l
<1> DEFINE lo == Cast(x, 32)
           hi == Shr(x, 32)
<1>1. x \subseteq 0 .. 63 BY DEF Word
<1>2. lo = {i \in x : i < 32} /\ lo \in Word(32)
  <2>1. Ones(32) = 0 .. 31 BY DEF Ones
  <2>2. lo = x \cap (0 .. 31) BY <2>1, Zenon DEF Cast
  <2>3. Word(32) = SUBSET (0 .. 31) BY <2>1, Zenon DEF Word, Ones
  <2> HIDE DEF lo
  <2>4. lo = {i \in x : i < 32}
    <3>1. \A i \in x : i < 32 <=> i \in 0 .. 31 BY <1>1
    <3> QED BY <2>2, <3>1, Zenon
  <2>5. lo \subseteq 0 .. 31 BY <2>2
  <2> QED BY <2>3, <2>4, <2>5, Zenon
<1>3. x # {} OBVIOUS
<1>4. ctz64(x) = IF lo # {} THEN ctz32(lo) ELSE 32 + ctz32(hi) BY <1>3, Zenon DEF ctz64
<1>5. CASE lo # {}
  <2>1. PICK k \in lo : TRUE BY <1>5
  <2>2. k \in x /\ k < 32 /\ l <= k BY <1>2, <2>1
  <2>3. l \in lo /\ \A j \in lo : l <= j BY <1>1, <1>2, <2>2
  <2> HIDE DEF lo, hi
  <2>4. ctz32(lo) = l BY <1>2, <2>3, Ctz32Is
  <2> QED BY <1>4, <1>5, <2>4
<1>6. CASE lo = {}
  <2>1. \A j \in x : j >= 32 /\ j \in Nat /\ j <= 63 BY <1>1, <1>2, <1>6
  <2>2. hi = {i - 32 : i \in x}
    <3>1. {j \in x : j >= 32} = x BY <2>1
    <3> QED BY <3>1, Zenon DEF Shr
  <2>3. hi \in Word(32) BY <2>1, <2>2 DEF Word
  <2>4. l - 32 \in hi /\ \A j \in hi : l - 32 <= j BY <2>1, <2>2
  <2>5. ctz32(hi) = l - 32
    <3> HIDE DEF hi
    <3> QED BY <2>3, <2>4, Ctz32Is
  <2>6. 32 + (l - 32) = l BY <2>1
  <2> HIDE DEF lo, hi
  <2> QED BY <1>4, <1>6, <2>5, <2>6, Zenon
<1> QED BY <1>5, <1>6

\* The searches of bitcount.h for the lowest one are exact for every word.
LEMMA LowestIs ==
  ASSUME width \in {32, 64}, val \in Word(width)
  PROVE  LowestFound
<1>1. CASE val = {}
  <2>1. ctz32(val) = 32 /\ ffs32(val) = 0 BY <1>1, Ctz32Reads, Zenon DEF ffs32
  <2>2. ctz64(val) = 64 /\ ffs64(val) = 0 BY <1>1, Zenon DEF ctz64, ffs64
  <2>3. width = 32 \/ (width = 64 /\ width # 32) OBVIOUS
  <2> QED BY <1>1, <2>1, <2>2, <2>3, Zenon DEF LowestFound
<1>2. CASE val # {}
  <2>1. val \in SUBSET Nat BY DEF Word
  <2>2. \E i \in val : \A j \in val : i <= j BY <1>2, <2>1, LeastOf
  <2>3. PICK l : l = CHOOSE i \in val : \A j \in val : i <= j OBVIOUS
  <2>4. l \in val /\ \A j \in val : l <= j BY <2>2, <2>3, Zenon
  <2>5. CASE width = 32
    <3>1. ctz32(val) = l BY <2>4, <2>5, Ctz32Is
    <3>2. ffs32(val) = l + 1 BY <1>2, <3>1, Zenon DEF ffs32
    <3> QED BY <1>2, <2>3, <2>5, <3>1, <3>2, Zenon DEF LowestFound
  <2>6. CASE width = 64
    <3>1. ctz64(val) = l BY <2>4, <2>6, Ctz64Is
    <3>2. ffs64(val) = l + 1 BY <1>2, <3>1, Zenon DEF ffs64
    <3>3. width # 32 BY <2>6
    <3> QED BY <1>2, <2>3, <3>1, <3>2, <3>3, Zenon DEF LowestFound
  <2> QED BY <2>5, <2>6
<1> QED BY <1>1, <1>2

\* Smearing the highest position down fills every position below it.
Within(x, n) == {i \in Nat : \E j \in x : i <= j /\ j < i + n}

\* A smeared word smeared again by as many places reaches twice as far.
LEMMA Smeared ==
  ASSUME NEW x \in SUBSET Nat, NEW n \in Nat, NEW m \in Nat, n = m + m
  PROVE  Within(x, m) \cup Shr(Within(x, m), m) = Within(x, n)
<1> DEFINE y == Within(x, m)
<1>1. y \in SUBSET Nat BY DEF Within
<1>2. \A i \in Nat : i \in Shr(y, m) <=> i + m \in y
  <2> HIDE DEF y
  <2> QED BY <1>1, ShiftedDown
<1>3. Shr(y, m) \subseteq Nat BY <1>1 DEF Shr
<1>4. \A i \in Nat : i \in y <=> \E j \in x : i <= j /\ j < i + m BY DEF Within
<1>5. \A i \in Nat : i + m \in y <=> \E j \in x : i + m <= j /\ j < i + n
  <2> TAKE i \in Nat
  <2>1. i + m \in Nat /\ (i + m) + m = i + n OBVIOUS
  <2>2. i + m \in y <=> \E j \in x : i + m <= j /\ j < (i + m) + m BY <2>1 DEF Within
  <2> QED BY <2>1, <2>2
<1>6. \A i \in Nat : (\E j \in x : i <= j /\ j < i + n)
        <=> \/ \E j \in x : i <= j /\ j < i + m
            \/ \E j \in x : i + m <= j /\ j < i + n
  OBVIOUS
<1>7. \A i \in Nat : i \in y \cup Shr(y, m) <=> i \in Within(x, n)
  <2> TAKE i \in Nat
  <2>1. i \in Within(x, n) <=> \E j \in x : i <= j /\ j < i + n BY DEF Within
  <2> HIDE DEF y
  <2> QED BY <1>2, <1>4, <1>5, <1>6, <2>1
<1>8. Within(x, n) \subseteq Nat BY DEF Within
<1> HIDE DEF y
<1>9. y \cup Shr(y, m) = Within(x, n) BY <1>1, <1>3, <1>7, <1>8
<1> QED BY <1>9 DEF y

\* One more than the word of the positions up to the highest.
LEMMA NextPower ==
  ASSUME NEW w \in Nat, NEW t \in 0 .. w - 1
  PROVE  Plus(0 .. t, {0}, w) = IF t = w - 1 THEN {} ELSE {t + 1}
<1>1. \A i \in 0 .. w - 1 : i \in Xor(0 .. t, {0}) <=> 1 <= i /\ i <= t BY DEF Xor
<1>2. \A i \in 0 .. w - 1 : Carries(0 .. t, {0}, i) <=> 1 <= i /\ i <= t + 1
  <2> TAKE i \in 0 .. w - 1
  <2>1. ASSUME Carries(0 .. t, {0}, i) PROVE 1 <= i /\ i <= t + 1
    <3>1. 0 < i /\ (0 + 1) .. (i - 1) \subseteq (0 .. t) \cup {0} BY <2>1 DEF Carries
    <3>2. i - 1 = 0 \/ i - 1 \in (0 + 1) .. (i - 1) BY <3>1
    <3> QED BY <3>1, <3>2
  <2>2. ASSUME 1 <= i, i <= t + 1 PROVE Carries(0 .. t, {0}, i)
    <3>1. 0 \in (0 .. t) \cap {0} /\ 0 < i BY <2>2
    <3>2. (0 + 1) .. (i - 1) \subseteq (0 .. t) \cup {0} BY <2>2
    <3> QED BY <3>1, <3>2 DEF Carries
  <2> QED BY <2>1, <2>2
<1>3. \A i \in 0 .. w - 1 : i \in Plus(0 .. t, {0}, w) <=> i = t + 1
  <2> TAKE i \in 0 .. w - 1
  <2>1. i \in Plus(0 .. t, {0}, w) <=> ((i \in Xor(0 .. t, {0})) # Carries(0 .. t, {0}, i))
    <3>1. i \in Ones(w) BY DEF Ones
    <3> QED BY <3>1, PlusIs, Zenon
  <2>2. (i \in Xor(0 .. t, {0})) \in BOOLEAN /\ Carries(0 .. t, {0}, i) \in BOOLEAN BY DEF Carries
  <2>3. \/ (1 <= i /\ i <= t) /\ (1 <= i /\ i <= t + 1) /\ i # t + 1
        \/ ~(1 <= i /\ i <= t) /\ (1 <= i /\ i <= t + 1) /\ i = t + 1
        \/ ~(1 <= i /\ i <= t) /\ ~(1 <= i /\ i <= t + 1) /\ i # t + 1
    OBVIOUS
  <2> QED BY <1>1, <1>2, <2>1, <2>2, <2>3, Zenon
<1>4. PICK p : p = Plus(0 .. t, {0}, w) OBVIOUS
<1>5. p \subseteq 0 .. w - 1 BY <1>4, PlusIs DEF Ones
<1>6. \A i \in 0 .. w - 1 : i \in p <=> i = t + 1 BY <1>3, <1>4
<1>7. CASE t = w - 1
  <2>1. \A i \in 0 .. w - 1 : i # t + 1 BY <1>7
  <2>2. p = {} BY <1>5, <1>6, <2>1
  <2> QED BY <1>4, <1>7, <2>2
<1>8. CASE t # w - 1
  <2>1. t + 1 \in 0 .. w - 1 BY <1>8
  <2>2. p = {t + 1} BY <1>5, <1>6, <2>1
  <2> QED BY <1>4, <1>8, <2>2
<1> QED BY <1>7, <1>8

\* bk_clz32 with its multiplier named.
LEMMA Clz32Reads ==
  ASSUME NEW x
  PROVE  LET smear(y, k) == y \union Shr(y, k)
             all == smear(smear(smear(smear(smear(x, 1), 2), 4), 8), 16)
         IN clz32(x) = IF x = {} THEN 32
              ELSE ClzTable[1 + Number(Shr(Times(Plus(all, {0}, 32), Const(ClzNumber), 32), 27))]
BY SMT DEF clz32, ClzNumber

\* All positions up to the highest.
LEMMA SmearedDown ==
  ASSUME NEW x \in Word(32), NEW t \in x, \A j \in x : j <= t
  PROVE  LET smear(y, k) == y \union Shr(y, k)
         IN smear(smear(smear(smear(smear(x, 1), 2), 4), 8), 16) = 0 .. t
<1> DEFINE smear(y, k) == y \union Shr(y, k)
<1>1. x \subseteq 0 .. 31
  <2>1. Word(32) = SUBSET (0 .. 32 - 1) BY Zenon DEF Word
  <2> QED BY <2>1
<1>2. x \in SUBSET Nat BY <1>1
<1>3. x = Within(x, 1)
  <2>1. \A i \in Nat : (\E j \in x : i <= j /\ j < i + 1) <=> i \in x BY <1>2
  <2> QED BY <1>2, <2>1 DEF Within
<1>4. /\ smear(Within(x, 1), 1) = Within(x, 2) /\ smear(Within(x, 2), 2) = Within(x, 4)
      /\ smear(Within(x, 4), 4) = Within(x, 8) /\ smear(Within(x, 8), 8) = Within(x, 16)
      /\ smear(Within(x, 16), 16) = Within(x, 32)
  <2>1. 2 = 1 + 1 /\ 4 = 2 + 2 /\ 8 = 4 + 4 /\ 16 = 8 + 8 /\ 32 = 16 + 16 OBVIOUS
  <2> QED BY <1>2, <2>1, Smeared
<1>5. Within(x, 32) = 0 .. t
  <2>1. \A i \in Nat : (\E j \in x : i <= j /\ j < i + 32) <=> i <= t BY <1>1
  <2>2. t \in Nat BY <1>2
  <2>3. \A i \in Nat : i <= t <=> i \in 0 .. t BY <2>2
  <2> QED BY <2>1, <2>2, <2>3 DEF Within
<1> HIDE DEF smear
<1>6. smear(smear(smear(smear(smear(x, 1), 2), 4), 8), 16) = 0 .. t
  BY <1>3, <1>4, <1>5, Zenon
<1> QED BY <1>6, Zenon DEF smear

\* Nothing times a word is nothing.
LEMMA TimesNone ==
  ASSUME NEW m
  PROVE  Number(Shr(Times({}, m, 32), 27)) = 0
<1>1. PICK w \in Nat : w = 32 OBVIOUS
<1>2. PICK s : TimesStates(s, {}, m, w) /\ Times({}, m, w) = s[w] BY TimesRuns
<1> DEFINE S == {i \in 0 .. w : s[i] = {}}
<1>3. 0 \in S BY <1>2 DEF TimesStates
<1>4. \A i \in 0 .. w - 1 : i \in S => i + 1 \in S
  <2> TAKE i \in 0 .. w - 1
  <2>1. i + 1 \in 1 .. w /\ (i + 1) - 1 = i /\ i + 1 \in 0 .. w OBVIOUS
  <2>2. s[i + 1] = IF i \in m THEN Plus(s[i], Shl({}, i, w), w) ELSE s[i]
    <3>1. s[i + 1] = IF (i + 1) - 1 \in m THEN Plus(s[(i + 1) - 1], Shl({}, (i + 1) - 1, w), w)
                     ELSE s[(i + 1) - 1]
      BY <1>2, <2>1 DEF TimesStates
    <3> QED BY <2>1, <3>1, Zenon
  <2>3. Shl({}, i, w) = {} BY DEF Shl
  <2>4. Plus({}, {}, w) = {}
    <3>1. {} \in Word(w) /\ {} \cap {} = {} /\ {} \cup {} = {} BY DEF Word
    <3> QED BY <3>1, PlusApart, Zenon
  <2> QED BY <2>1, <2>2, <2>3, <2>4
<1>5. s[w] = {}
  <2>1. w \in S
    <3> HIDE DEF S
    <3> QED BY <1>3, <1>4, Upwards
  <2> QED BY <2>1
<1>6. Times({}, m, 32) = {} BY <1>1, <1>2, <1>5, Zenon
<1>7. PICK q : q = Shr({}, 27) OBVIOUS
<1>8. q = {} BY <1>7 DEF Shr
<1>9. Number(q) = EightBits(q, 0)
  <2>1. q \in Word(8) BY <1>8 DEF Word
  <2> QED BY <2>1, NumberOfByte
<1>10. EightBits(q, 0) = 0 BY <1>8 DEF EightBits, Nibble, Pair, Digit
<1> QED BY <1>6, <1>7, <1>9, <1>10, Zenon

\* The table of bk_clz32, read for the bit above the highest one.
LEMMA ClzEntry ==
  ASSUME NEW l \in 1 .. 31
  PROVE  ClzTable[1 + Number(Shr(Times({l}, Const(ClzNumber), 32), 27))] = 32 - l <=> l = 4
<1> DEFINE One1(d) == IF d + 27 >= l /\ d + 27 - l \in ClzOnes THEN 1 ELSE 0
<1>1. ClzOnes \in SUBSET Nat /\ l \in 0 .. 31 BY DEF ClzOnes
<1>2. Number(Shr(Times({l}, Const(ClzNumber), 32), 27))
        = One1(0) + 2 * One1(1) + 4 * One1(2) + 8 * One1(3) + 16 * One1(4)
  BY <1>1, WindowIs, ClzConst, Zenon
<1>3. PICK n \in Nat : n = One1(0) + 2 * One1(1) + 4 * One1(2) + 8 * One1(3) + 16 * One1(4)
  BY DEF ClzOnes
<1>4. /\ (l = 0 => n = 0) /\ (l = 1 => n = 1) /\ (l = 2 => n = 3) /\ (l = 3 => n = 7)
      /\ (l = 4 => n = 14) /\ (l = 5 => n = 29) /\ (l = 6 => n = 27) /\ (l = 7 => n = 22)
      /\ (l = 8 => n = 13) /\ (l = 9 => n = 26) /\ (l = 10 => n = 21) /\ (l = 11 => n = 11)
      /\ (l = 12 => n = 23) /\ (l = 13 => n = 15) /\ (l = 14 => n = 31) /\ (l = 15 => n = 30)
      /\ (l = 16 => n = 28) /\ (l = 17 => n = 25) /\ (l = 18 => n = 19) /\ (l = 19 => n = 6)
      /\ (l = 20 => n = 12) /\ (l = 21 => n = 24) /\ (l = 22 => n = 17) /\ (l = 23 => n = 2)
      /\ (l = 24 => n = 5) /\ (l = 25 => n = 10) /\ (l = 26 => n = 20) /\ (l = 27 => n = 9)
      /\ (l = 28 => n = 18) /\ (l = 29 => n = 4) /\ (l = 30 => n = 8) /\ (l = 31 => n = 16)
  BY <1>3 DEF ClzOnes
<1>5. \/ l = 0 \/ l = 1 \/ l = 2 \/ l = 3 \/ l = 4 \/ l = 5 \/ l = 6 \/ l = 7
      \/ l = 8 \/ l = 9 \/ l = 10 \/ l = 11 \/ l = 12 \/ l = 13 \/ l = 14 \/ l = 15
      \/ l = 16 \/ l = 17 \/ l = 18 \/ l = 19 \/ l = 20 \/ l = 21 \/ l = 22 \/ l = 23
      \/ l = 24 \/ l = 25 \/ l = 26 \/ l = 27 \/ l = 28 \/ l = 29 \/ l = 30 \/ l = 31
  BY <1>1
<1>6. ClzTable[1 + n] = 32 - l <=> l = 4 BY <1>4, <1>5 DEF ClzTable
<1> HIDE DEF One1
<1> QED BY <1>2, <1>3, <1>6, Zenon

\* The count of leading zeros is right for one position of the highest one alone.
LEMMA LeadingOff ==
  ASSUME val \in Word(width)
  PROVE  LeadingZerosOff
<1> SUFFICES ASSUME width = 32, val # {} PROVE LeadingZerosOff BY Zenon DEF LeadingZerosOff
<1>1. val \subseteq 0 .. 31
  <2>1. Word(32) = SUBSET (0 .. 32 - 1) BY Zenon DEF Word
  <2> QED BY <2>1
<1>2. PICK t : t = CHOOSE i \in val : \A j \in val : j <= i OBVIOUS
<1>3. t \in val /\ \A j \in val : j <= t
  <2> DEFINE down == {31 - i : i \in val}
  <2>1. down \in SUBSET Nat /\ down # {}
    <3>1. \A i \in val : 31 - i \in Nat BY <1>1
    <3>2. PICK k \in val : TRUE OBVIOUS
    <3>3. 31 - k \in down OBVIOUS
    <3>4. down \subseteq Nat BY <3>1
    <3> QED BY <3>3, <3>4
  <2>2. PICK d \in down : \A e \in down : d <= e
    <3> HIDE DEF down
    <3> QED BY <2>1, LeastOf
  <2>3. PICK i \in val : d = 31 - i BY <2>2
  <2>4. \A j \in val : 31 - i <= 31 - j BY <2>2, <2>3
  <2>5. \A j \in val : j <= i BY <1>1, <2>4
  <2> QED BY <1>2, <2>5, Zenon
<1>4. t \in 0 .. 31 BY <1>1, <1>3
<1> DEFINE smear(y, k) == y \union Shr(y, k)
           all == smear(smear(smear(smear(smear(val, 1), 2), 4), 8), 16)
<1>5. all = 0 .. t BY <1>3, SmearedDown
<1>6. clz32(val) = ClzTable[1 + Number(Shr(Times(Plus(all, {0}, 32), Const(ClzNumber), 32), 27))]
  BY Clz32Reads, Zenon
<1> HIDE DEF all
<1>7. CASE t = 31
  <2>1. Plus(0 .. t, {0}, 32) = {}
    <3>1. PICK w \in Nat : w = 32 OBVIOUS
    <3>2. t \in 0 .. w - 1 /\ t = w - 1 BY <1>4, <1>7, <3>1
    <3>3. Plus(0 .. t, {0}, w) = {} BY <3>2, NextPower, Zenon
    <3> QED BY <3>1, <3>3, Zenon
  <2>2. Number(Shr(Times({}, Const(ClzNumber), 32), 27)) = 0 BY TimesNone
  <2>3. clz32(val) = ClzTable[1 + 0] BY <1>5, <1>6, <2>1, <2>2, Zenon
  <2>4. ClzTable[1 + 0] = 31 BY DEF ClzTable
  <2>5. ~(clz32(val) = 31 - t) /\ t # 3 BY <1>7, <2>3, <2>4
  <2> QED BY <1>2, <2>5, Zenon DEF LeadingZerosOff
<1>8. CASE t # 31
  <2>1. Plus(0 .. t, {0}, 32) = {t + 1}
    <3>1. PICK w \in Nat : w = 32 OBVIOUS
    <3>2. t \in 0 .. w - 1 /\ t # w - 1 BY <1>4, <1>8, <3>1
    <3>3. Plus(0 .. t, {0}, w) = {t + 1} BY <3>2, NextPower, Zenon
    <3> QED BY <3>1, <3>3, Zenon
  <2>2. PICK l \in 1 .. 31 : l = t + 1
    <3>1. t + 1 \in 1 .. 31 BY <1>4, <1>8
    <3> QED BY <3>1
  <2>3. clz32(val) = ClzTable[1 + Number(Shr(Times({l}, Const(ClzNumber), 32), 27))]
    BY <1>5, <1>6, <2>1, <2>2, Zenon
  <2>4. clz32(val) = 32 - l <=> l = 4 BY <2>3, ClzEntry, Zenon
  <2>5. 32 - l = 31 - t /\ (l = 4 <=> t = 3) BY <1>4, <2>2
  <2>6. clz32(val) = 31 - t <=> t = 3 BY <2>4, <2>5, Zenon
  <2> QED BY <1>2, <2>6, Zenon DEF LeadingZerosOff
<1> QED BY <1>7, <1>8

----------------------------------------------------------------------------
(* Byte order                                                              *)

\* A position is a byte and a bit.
LEMMA InEights ==
  ASSUME NEW i \in Nat
  PROVE  \E q \in Nat, r \in 0 .. 7 : i = 8 * q + r
<1>1. PICK q \in Nat : q = i \div 8 OBVIOUS
<1>2. PICK r \in 0 .. 7 : r = i % 8 OBVIOUS
<1> QED BY <1>1, <1>2

\* A position of a word of b bytes is one of its bytes and a bit.
LEMMA ByteAndBit ==
  ASSUME NEW b \in Nat, NEW i \in 0 .. 8 * b - 1
  PROVE  \E q \in 0 .. b - 1, r \in 0 .. 7 : i = 8 * q + r
<1>1. PICK q \in Nat, r \in 0 .. 7 : i = 8 * q + r
  <2>1. i \in Nat OBVIOUS
  <2> QED BY <2>1, InEights
<1>2. q \in 0 .. b - 1 BY <1>1
<1> QED BY <1>1, <1>2

\* The positions of a word of b bytes.
LEMMA WordBits ==
  ASSUME NEW b \in Nat, NEW x \in Word(8 * b)
  PROVE  x \in SUBSET Nat /\ x \subseteq 0 .. 8 * b - 1
BY DEF Word

\* The bits of a byte of a word.
LEMMA InByte ==
  ASSUME NEW x \in SUBSET Nat, NEW n \in Nat
  PROVE  Byte(x, n) \subseteq 0 .. 7 /\ \A k \in 0 .. 7 : k \in Byte(x, n) <=> k + 8 * n \in x
<1>1. PICK s : s = Shr(x, 8 * n) OBVIOUS
<1>2. \A k \in Nat : k \in s <=> k + 8 * n \in x
  <2>1. 8 * n \in Nat OBVIOUS
  <2> QED BY <1>1, <2>1, ShiftedDown
<1>3. Byte(x, n) = s \cap (0 .. 7) BY <1>1, Zenon DEF Byte
<1> QED BY <1>2, <1>3

\* Bytes put together from the lowest.
LEMMA Joined ==
  ASSUME NEW b \in 1 .. 8, NEW m \in [0 .. b - 1 -> SUBSET (0 .. 7)]
  PROVE  /\ letoh(b, m) \subseteq 0 .. 8 * b - 1
         /\ \A q \in 0 .. b - 1, r \in 0 .. 7 : 8 * q + r \in letoh(b, m) <=> r \in m[q]
<1> DEFINE part(n) == Shl(m[n], 8 * n, 64)
<1>1. letoh(b, m) = UNION {part(n) : n \in 0 .. b - 1} BY Zenon DEF letoh
<1>2. ASSUME NEW n \in 0 .. b - 1, NEW i
      PROVE  i \in part(n) <=> i \in 0 .. 63 /\ i >= 8 * n /\ i - 8 * n \in m[n]
  <2>1. PICK w \in Nat : w = 64 OBVIOUS
  <2>2. part(n) \subseteq 0 .. 63
    <3>1. Ones(64) = 0 .. 63 BY DEF Ones
    <3> QED BY <3>1, Zenon DEF Shl
  <2>3. m[n] \in SUBSET Nat /\ 8 * n \in Nat OBVIOUS
  <2>4. ASSUME i \in 0 .. 63 PROVE i \in part(n) <=> i >= 8 * n /\ i - 8 * n \in m[n]
    <3>1. i \in 0 .. w - 1 BY <2>1, <2>4
    <3>2. i \in Shl(m[n], 8 * n, w) <=> i >= 8 * n /\ i - 8 * n \in m[n]
      BY <2>1, <2>3, <3>1, ShiftedUp
    <3> QED BY <2>1, <3>2, Zenon
  <2> HIDE DEF part
  <2> QED BY <2>2, <2>4
<1>3. ASSUME NEW n \in 0 .. b - 1, NEW i \in part(n)
      PROVE  i \in 0 .. 63 /\ i - 8 * n \in m[n] /\ i - 8 * n \in 0 .. 7 /\ i \in 0 .. 8 * b - 1
  <2>1. i \in 0 .. 63 /\ i >= 8 * n /\ i - 8 * n \in m[n] BY <1>2
  <2>2. i - 8 * n \in 0 .. 7 BY <2>1
  <2> QED BY <2>1, <2>2
<1>4. ASSUME NEW q \in 0 .. b - 1, NEW r \in 0 .. 7
      PROVE  (8 * q + r \in UNION {part(n) : n \in 0 .. b - 1}) <=> r \in m[q]
  <2>1. 8 * q + r \in 0 .. 63 /\ 8 * q + r >= 8 * q /\ (8 * q + r) - 8 * q = r OBVIOUS
  <2>2. 8 * q + r \in part(q) <=> r \in m[q] BY <1>2, <2>1
  <2>3. ASSUME NEW n \in 0 .. b - 1, 8 * q + r \in part(n) PROVE n = q
    <3>1. (8 * q + r) - 8 * n \in 0 .. 7 BY <1>3, <2>3
    <3> QED BY <3>1
  <2> HIDE DEF part
  <2> QED BY <2>2, <2>3
<1> HIDE DEF part
<1> QED BY <1>1, <1>3, <1>4

\* The bytes of a word, lowest first, and put together again.
LEMMA LittleBack ==
  ASSUME NEW b \in 1 .. 8, NEW x \in Word(8 * b)
  PROVE  htole(b, x) \in [0 .. b - 1 -> SUBSET (0 .. 7)] /\ letoh(b, htole(b, x)) = x
<1> DEFINE m == htole(b, x)
<1>1. x \in SUBSET Nat /\ x \subseteq 0 .. 8 * b - 1 BY WordBits
<1>2. m = [n \in 0 .. b - 1 |-> Byte(x, n)] BY Zenon DEF htole
<1>3. \A n \in 0 .. b - 1 : Byte(x, n) \in SUBSET (0 .. 7) BY <1>1, InByte
<1> HIDE DEF m
<1>4. m \in [0 .. b - 1 -> SUBSET (0 .. 7)] /\ \A n \in 0 .. b - 1 : m[n] = Byte(x, n)
  BY <1>2, <1>3
<1>5. PICK l : l = letoh(b, m) OBVIOUS
<1>6. l \subseteq 0 .. 8 * b - 1 /\ \A q \in 0 .. b - 1, r \in 0 .. 7 : 8 * q + r \in l <=> r \in m[q]
  BY <1>4, <1>5, Joined
<1>7. ASSUME NEW i \in 0 .. 8 * b - 1 PROVE i \in l <=> i \in x
  <2>1. PICK q \in 0 .. b - 1, r \in 0 .. 7 : i = 8 * q + r
    BY ByteAndBit
  <2>2. i \in l <=> r \in Byte(x, q) BY <1>4, <1>6, <2>1
  <2>3. r \in Byte(x, q) <=> r + 8 * q \in x BY <1>1, InByte
  <2> QED BY <2>1, <2>2, <2>3
<1>8. l = x BY <1>1, <1>6, <1>7
<1> QED BY <1>4, <1>5, <1>8 DEF m

\* Most significant byte first is the other way round.
LEMMA BigBack ==
  ASSUME NEW b \in 1 .. 8, NEW x \in Word(8 * b)
  PROVE  betoh(b, htobe(b, x)) = x
<1> DEFINE m == htobe(b, x)
<1>1. m = [n \in 0 .. b - 1 |-> Byte(x, b - 1 - n)] BY Zenon DEF htobe
<1>2. \A n \in 0 .. b - 1 : b - 1 - n \in 0 .. b - 1 /\ b - 1 - (b - 1 - n) = n OBVIOUS
<1>3. PICK f : f = [n \in 0 .. b - 1 |-> Shl(Byte(x, n), 8 * n, 64)] OBVIOUS
<1>4. \A n \in 0 .. b - 1 : Shl(m[n], 8 * (b - 1 - n), 64) = f[b - 1 - n]
  BY <1>1, <1>2, <1>3
<1>5. betoh(b, m) = UNION {f[b - 1 - n] : n \in 0 .. b - 1}
  <2>1. betoh(b, m) = UNION {Shl(m[n], 8 * (b - 1 - n), 64) : n \in 0 .. b - 1}
    BY Zenon DEF betoh
  <2> HIDE DEF m
  <2> QED BY <1>4, <2>1, Zenon
<1>6. {f[b - 1 - n] : n \in 0 .. b - 1} = {f[n] : n \in 0 .. b - 1}
  <2>1. ASSUME NEW n \in 0 .. b - 1 PROVE f[n] \in {f[b - 1 - k] : k \in 0 .. b - 1}
    <3>1. PICK k \in 0 .. b - 1 : b - 1 - k = n BY <1>2
    <3> QED BY <3>1
  <2>2. \A n \in 0 .. b - 1 : f[b - 1 - n] \in {f[k] : k \in 0 .. b - 1} BY <1>2
  <2> QED BY <2>1, <2>2, Zenon
<1>7. letoh(b, htole(b, x)) = UNION {f[n] : n \in 0 .. b - 1}
  <2>1. PICK h : h = htole(b, x) OBVIOUS
  <2>2. h = [n \in 0 .. b - 1 |-> Byte(x, n)] BY <2>1, Zenon DEF htole
  <2>3. \A n \in 0 .. b - 1 : f[n] = Shl(h[n], 8 * n, 64) BY <1>3, <2>2
  <2>4. letoh(b, h) = UNION {Shl(h[n], 8 * n, 64) : n \in 0 .. b - 1} BY Zenon DEF letoh
  <2>5. {Shl(h[n], 8 * n, 64) : n \in 0 .. b - 1} = {f[n] : n \in 0 .. b - 1} BY <2>3, Zenon
  <2> QED BY <2>1, <2>4, <2>5, Zenon
<1>8. letoh(b, htole(b, x)) = x BY LittleBack
<1> HIDE DEF m
<1> QED BY <1>5, <1>6, <1>7, <1>8, Zenon DEF m

\* The word with its b bytes the other way round.
Mirrors(s, x, b) ==
  /\ s \subseteq 0 .. 8 * b - 1
  /\ \A q \in 0 .. b - 1, r \in 0 .. 7 : 8 * q + r \in s <=> 8 * (b - 1 - q) + r \in x

\* A word has one mirror.
LEMMA OneMirror ==
  ASSUME NEW b \in Nat, NEW x, NEW s, NEW t, Mirrors(s, x, b), Mirrors(t, x, b)
  PROVE  s = t
<1>1. \A i \in 0 .. 8 * b - 1 : i \in s <=> i \in t
  <2> TAKE i \in 0 .. 8 * b - 1
  <2>1. PICK q \in 0 .. b - 1, r \in 0 .. 7 : i = 8 * q + r BY ByteAndBit
  <2> QED BY <2>1 DEF Mirrors
<1> QED BY <1>1 DEF Mirrors

\* Mirroring twice gives the word back.
LEMMA MirroredBack ==
  ASSUME NEW b \in Nat, NEW x \in Word(8 * b), NEW s, Mirrors(s, x, b)
  PROVE  Mirrors(x, s, b) /\ s \in Word(8 * b)
<1>1. s \in Word(8 * b) /\ x \subseteq 0 .. 8 * b - 1 BY DEF Mirrors, Word
<1>2. ASSUME NEW q \in 0 .. b - 1, NEW r \in 0 .. 7
      PROVE  8 * q + r \in x <=> 8 * (b - 1 - q) + r \in s
  <2>1. PICK p \in 0 .. b - 1 : p = b - 1 - q /\ b - 1 - p = q
    <3>1. b - 1 - q \in 0 .. b - 1 /\ b - 1 - (b - 1 - q) = q OBVIOUS
    <3> QED BY <3>1
  <2>2. 8 * p + r \in s <=> 8 * (b - 1 - p) + r \in x BY DEF Mirrors
  <2> QED BY <2>1, <2>2
<1> QED BY <1>1, <1>2 DEF Mirrors

\* A byte cut out and moved down, or up.
LEMMA Down ==
  ASSUME NEW x \in SUBSET Nat, NEW k \in Nat, NEW a \in Nat
  PROVE  /\ Shr(x \cap (a .. a + 7), k) \subseteq Nat
         /\ \A i \in Nat : i \in Shr(x \cap (a .. a + 7), k) <=> i + k \in x /\ a <= i + k /\ i + k <= a + 7
<1>1. PICK y : y = x \cap (a .. a + 7) OBVIOUS
<1>2. y \in SUBSET Nat BY <1>1
<1>3. \A i \in Nat : i \in Shr(y, k) <=> i + k \in y BY <1>2, ShiftedDown
<1>4. Shr(y, k) \subseteq Nat BY <1>2 DEF Shr
<1>5. \A i \in Nat : i + k \in y <=> i + k \in x /\ a <= i + k /\ i + k <= a + 7 BY <1>1
<1> QED BY <1>1, <1>3, <1>4, <1>5

\* A byte that moves up.
LEMMA Up ==
  ASSUME NEW w \in Nat, NEW x \in SUBSET Nat, NEW k \in Nat, NEW a \in Nat
  PROVE  /\ Shl(x \cap (a .. a + 7), k, w) \subseteq 0 .. w - 1
         /\ \A i \in 0 .. w - 1 : i \in Shl(x \cap (a .. a + 7), k, w)
              <=> i - k \in x /\ a <= i - k /\ i - k <= a + 7
<1>1. PICK y : y = x \cap (a .. a + 7) OBVIOUS
<1>2. y \in SUBSET Nat BY <1>1
<1>3. \A i \in 0 .. w - 1 : i \in Shl(y, k, w) <=> i >= k /\ i - k \in y BY <1>2, ShiftedUp
<1>4. Shl(y, k, w) \subseteq 0 .. w - 1 BY Zenon DEF Shl, Ones
<1>5. \A i \in 0 .. w - 1 : (i >= k /\ i - k \in y) <=> i - k \in x /\ a <= i - k /\ i - k <= a + 7
  BY <1>1
<1> QED BY <1>1, <1>3, <1>4, <1>5

\* Two bytes are swapped.
LEMMA SwapWordIs ==
  ASSUME NEW x \in Word(16)
  PROVE  Mirrors(swap_word(x), x, 2)
<1>1. PICK w \in Nat : w = 16 OBVIOUS
<1>2. x \subseteq 0 .. 15 /\ x \in SUBSET Nat
  <2>1. Word(16) = SUBSET (0 .. 16 - 1) BY Zenon DEF Word
  <2> QED BY <2>1
<1>3. PICK u : u = Shl(x, 8, 16) OBVIOUS
<1>4. PICK d : d = Shr(x, 8) OBVIOUS
<1>5. u \subseteq 0 .. 15 /\ \A i \in 0 .. 15 : i \in u <=> i >= 8 /\ i - 8 \in x
  <2>1. 0 .. w - 1 = 0 .. 15 BY <1>1
  <2>2. u = Shl(x, 8, w) BY <1>1, <1>3, Zenon
  <2>3. u \subseteq 0 .. w - 1 BY <2>2, Zenon DEF Shl, Ones
  <2>4. \A i \in 0 .. w - 1 : i \in u <=> i >= 8 /\ i - 8 \in x BY <1>2, <2>2, ShiftedUp
  <2> QED BY <2>1, <2>3, <2>4
<1>6. d \subseteq 0 .. 15 /\ \A i \in Nat : i \in d <=> i + 8 \in x
  <2>1. \A i \in Nat : i \in d <=> i + 8 \in x BY <1>2, <1>4, ShiftedDown
  <2>2. d \subseteq 0 .. 15 BY <1>2, <1>4 DEF Shr
  <2> QED BY <2>1, <2>2
<1>7. swap_word(x) = u \cup d BY <1>3, <1>4, Zenon DEF swap_word
<1>8. ASSUME NEW q \in 0 .. 1, NEW r \in 0 .. 7
      PROVE  8 * q + r \in u \cup d <=> 8 * (1 - q) + r \in x
  <2>1. CASE q = 0
    <3>1. 8 * q + r \in 0 .. 15 /\ ~(8 * q + r >= 8) /\ (8 * q + r) + 8 = 8 * (1 - q) + r BY <2>1
    <3> QED BY <1>5, <1>6, <3>1
  <2>2. CASE q = 1
    <3>1. 8 * q + r \in 0 .. 15 /\ 8 * q + r >= 8 /\ (8 * q + r) - 8 = 8 * (1 - q) + r BY <2>2
    <3>2. (8 * q + r) + 8 \notin x BY <1>2, <2>2
    <3> QED BY <1>5, <1>6, <3>1, <3>2
  <2> QED BY <2>1, <2>2
<1>9. u \cup d \subseteq 0 .. 8 * 2 - 1 BY <1>5, <1>6
<1>10. 2 - 1 = 1 OBVIOUS
<1>11. Mirrors(u \cup d, x, 2) BY <1>8, <1>9, <1>10 DEF Mirrors
<1> QED BY <1>7, <1>11

\* Four bytes are swapped.
LEMMA SwapLongIs ==
  ASSUME NEW x \in Word(32)
  PROVE  Mirrors(swap_long(x), x, 4)
<1> DEFINE mask(n) == x \cap (8 * n .. 8 * n + 7)
<1>1. PICK w \in Nat : w = 32 OBVIOUS
<1>2. x \subseteq 0 .. 31 /\ x \in SUBSET Nat
  <2>1. Word(32) = SUBSET (0 .. 32 - 1) BY Zenon DEF Word
  <2> QED BY <2>1
<1>3. 8 * 3 = 24 /\ 8 * 2 = 16 /\ 8 * 1 = 8 /\ 8 * 0 = 0 OBVIOUS
<1>4. PICK a, b, c, d :
        /\ a = Shr(x \cap (24 .. 24 + 7), 24) /\ b = Shr(x \cap (16 .. 16 + 7), 8)
        /\ c = Shl(x \cap (8 .. 8 + 7), 8, w) /\ d = Shl(x \cap (0 .. 0 + 7), 24, w)
  OBVIOUS
<1>5. swap_long(x) = a \cup b \cup c \cup d
  <2>1. swap_long(x) = Shr(mask(3), 24) \cup Shr(mask(2), 8) \cup Shl(mask(1), 8, 32)
                         \cup Shl(mask(0), 24, 32)
    BY Zenon DEF swap_long
  <2> QED BY <1>1, <1>3, <1>4, <2>1, Zenon
<1>6. a \subseteq Nat /\ \A i \in Nat : i \in a <=> i + 24 \in x /\ 24 <= i + 24 /\ i + 24 <= 24 + 7
  BY <1>2, <1>4, Down
<1>7. b \subseteq Nat /\ \A i \in Nat : i \in b <=> i + 8 \in x /\ 16 <= i + 8 /\ i + 8 <= 16 + 7
  BY <1>2, <1>4, Down
<1>8. c \subseteq 0 .. w - 1
      /\ \A i \in 0 .. w - 1 : i \in c <=> i - 8 \in x /\ 8 <= i - 8 /\ i - 8 <= 8 + 7
  BY <1>2, <1>4, Up
<1>9. d \subseteq 0 .. w - 1
      /\ \A i \in 0 .. w - 1 : i \in d <=> i - 24 \in x /\ 0 <= i - 24 /\ i - 24 <= 0 + 7
  BY <1>2, <1>4, Up
<1>10. PICK s : s = a \cup b \cup c \cup d OBVIOUS
<1>11. s \subseteq 0 .. 31
  <2>1. a \subseteq 0 .. 31 /\ b \subseteq 0 .. 31 BY <1>6, <1>7
  <2>2. c \subseteq 0 .. 31 /\ d \subseteq 0 .. 31 BY <1>1, <1>8, <1>9
  <2> QED BY <1>10, <2>1, <2>2
<1>12. \A i \in 0 .. 31 : i \in s <=>
         \/ i + 24 \in x /\ i <= 7
         \/ i + 8 \in x /\ 8 <= i /\ i <= 15
         \/ i - 8 \in x /\ 16 <= i /\ i <= 23
         \/ i - 24 \in x /\ 24 <= i
  <2> TAKE i \in 0 .. 31
  <2>1. i \in Nat /\ i \in 0 .. w - 1 BY <1>1
  <2>2. i \in a <=> i + 24 \in x /\ i <= 7 BY <1>6, <2>1
  <2>3. i \in b <=> i + 8 \in x /\ 8 <= i /\ i <= 15 BY <1>7, <2>1
  <2>4. i \in c <=> i - 8 \in x /\ 16 <= i /\ i <= 23 BY <1>8, <2>1
  <2>5. i \in d <=> i - 24 \in x /\ 24 <= i BY <1>9, <2>1
  <2> QED BY <1>10, <2>2, <2>3, <2>4, <2>5
<1>13. ASSUME NEW q \in 0 .. 3, NEW r \in 0 .. 7
       PROVE  8 * q + r \in s <=> 8 * (3 - q) + r \in x
  <2>1. PICK i \in 0 .. 31 : i = 8 * q + r
    <3>1. 8 * q + r \in 0 .. 31 OBVIOUS
    <3> QED BY <3>1
  <2>2. CASE q = 0
    <3>1. i <= 7 /\ i + 24 = 8 * (3 - q) + r BY <2>1, <2>2
    <3> QED BY <1>12, <2>1, <3>1
  <2>3. CASE q = 1
    <3>1. 8 <= i /\ i <= 15 /\ i + 8 = 8 * (3 - q) + r BY <2>1, <2>3
    <3> QED BY <1>12, <2>1, <3>1
  <2>4. CASE q = 2
    <3>1. 16 <= i /\ i <= 23 /\ i - 8 = 8 * (3 - q) + r BY <2>1, <2>4
    <3> QED BY <1>12, <2>1, <3>1
  <2>5. CASE q = 3
    <3>1. 24 <= i /\ i - 24 = 8 * (3 - q) + r BY <2>1, <2>5
    <3> QED BY <1>12, <2>1, <3>1
  <2> QED BY <2>2, <2>3, <2>4, <2>5
<1>14. 4 - 1 = 3 /\ 8 * 4 - 1 = 31 OBVIOUS
<1>15. Mirrors(s, x, 4) BY <1>11, <1>13, <1>14 DEF Mirrors
<1> QED BY <1>5, <1>10, <1>15

\* Eight bytes are swapped.
LEMMA SwapQuadIs ==
  ASSUME NEW x \in Word(64)
  PROVE  Mirrors(swap_quad(x), x, 8)
<1> DEFINE mask(n) == x \cap (8 * n .. 8 * n + 7)
           down(n) == Shr(mask(4 + n), 16 * n + 8)
           up(n) == Shl(mask(3 - n), 16 * n + 8, 64)
<1>1. PICK w \in Nat : w = 64 OBVIOUS
<1>2. x \subseteq 0 .. 63 /\ x \in SUBSET Nat
  <2>1. Word(64) = SUBSET (0 .. 64 - 1) BY Zenon DEF Word
  <2> QED BY <2>1
<1>3. swap_quad(x) = UNION ({down(n) : n \in 0 .. 3} \cup {up(n) : n \in 0 .. 3})
  BY Zenon DEF swap_quad
<1>4. ASSUME NEW n \in 0 .. 3
      PROVE  /\ down(n) \subseteq Nat
             /\ \A i \in Nat : i \in down(n)
                  <=> i + (16 * n + 8) \in x /\ 24 - 8 * n <= i /\ i <= 31 - 8 * n
  <2>1. PICK a \in Nat, k \in Nat : a = 8 * (4 + n) /\ k = 16 * n + 8
    <3>1. 8 * (4 + n) \in Nat /\ 16 * n + 8 \in Nat OBVIOUS
    <3> QED BY <3>1
  <2>2. down(n) = Shr(x \cap (a .. a + 7), k) BY <2>1, Zenon
  <2> HIDE DEF down
  <2>3. /\ down(n) \subseteq Nat
        /\ \A i \in Nat : i \in down(n) <=> i + k \in x /\ a <= i + k /\ i + k <= a + 7
    <3>1. /\ Shr(x \cap (a .. a + 7), k) \subseteq Nat
          /\ \A i \in Nat : i \in Shr(x \cap (a .. a + 7), k)
               <=> i + k \in x /\ a <= i + k /\ i + k <= a + 7
      BY <1>2, Down
    <3> QED BY <2>2, <3>1, Zenon
  <2>4. \A i \in Nat : (a <= i + k /\ i + k <= a + 7) <=> (24 - 8 * n <= i /\ i <= 31 - 8 * n)
    BY <2>1
  <2> QED BY <2>1, <2>3, <2>4
<1>5. ASSUME NEW n \in 0 .. 3
      PROVE  /\ up(n) \subseteq 0 .. 63
             /\ \A i \in 0 .. 63 : i \in up(n)
                  <=> i - (16 * n + 8) \in x /\ 32 + 8 * n <= i /\ i <= 39 + 8 * n
  <2>1. PICK a \in Nat, k \in Nat : a = 8 * (3 - n) /\ k = 16 * n + 8
    <3>1. 8 * (3 - n) \in Nat /\ 16 * n + 8 \in Nat OBVIOUS
    <3> QED BY <3>1
  <2>2. up(n) = Shl(x \cap (a .. a + 7), k, w) BY <1>1, <2>1, Zenon
  <2> HIDE DEF up
  <2>3. /\ up(n) \subseteq 0 .. w - 1
        /\ \A i \in 0 .. w - 1 : i \in up(n) <=> i - k \in x /\ a <= i - k /\ i - k <= a + 7
    <3>1. /\ Shl(x \cap (a .. a + 7), k, w) \subseteq 0 .. w - 1
          /\ \A i \in 0 .. w - 1 : i \in Shl(x \cap (a .. a + 7), k, w)
               <=> i - k \in x /\ a <= i - k /\ i - k <= a + 7
      BY <1>2, Up
    <3> QED BY <2>2, <3>1, Zenon
  <2>4. \A i \in 0 .. 63 : (a <= i - k /\ i - k <= a + 7) <=> (32 + 8 * n <= i /\ i <= 39 + 8 * n)
    BY <2>1
  <2>5. 0 .. w - 1 = 0 .. 63 BY <1>1
  <2> QED BY <2>1, <2>3, <2>4, <2>5
<1> HIDE DEF down, up
<1>6. PICK s : s = swap_quad(x) OBVIOUS
<1>7. \A i : i \in s <=> (\E n \in 0 .. 3 : i \in down(n)) \/ (\E n \in 0 .. 3 : i \in up(n))
  BY <1>3, <1>6
<1>8. s \subseteq 0 .. 63
  <2>1. ASSUME NEW n \in 0 .. 3 PROVE down(n) \subseteq 0 .. 63 BY <1>4
  <2> QED BY <1>5, <1>7, <2>1
<1>9. ASSUME NEW q \in 0 .. 7, NEW r \in 0 .. 7
      PROVE  8 * q + r \in s <=> 8 * (7 - q) + r \in x
  <2>1. PICK i \in 0 .. 63 : i = 8 * q + r
    <3>1. 8 * q + r \in 0 .. 63 OBVIOUS
    <3> QED BY <3>1
  <2>2. CASE q <= 3
    <3>1. PICK n \in 0 .. 3 : n = 3 - q
      <4>1. 3 - q \in 0 .. 3 BY <2>2
      <4> QED BY <4>1
    <3>2. 24 - 8 * n <= i /\ i <= 31 - 8 * n /\ i + (16 * n + 8) = 8 * (7 - q) + r
      BY <2>1, <3>1
    <3>3. i \in down(n) <=> 8 * (7 - q) + r \in x BY <1>4, <3>2
    <3>4. \A k \in 0 .. 3 : i \in down(k) => k = n
      <4>1. \A k \in 0 .. 3 : i \in down(k) => 24 - 8 * k <= i /\ i <= 31 - 8 * k BY <1>4
      <4> QED BY <3>2, <4>1
    <3>5. \A k \in 0 .. 3 : i \notin up(k) BY <1>5, <2>1, <2>2
    <3> QED BY <1>7, <2>1, <3>3, <3>4, <3>5
  <2>3. CASE q > 3
    <3>1. PICK n \in 0 .. 3 : n = q - 4
      <4>1. q - 4 \in 0 .. 3 BY <2>3
      <4> QED BY <4>1
    <3>2. 32 + 8 * n <= i /\ i <= 39 + 8 * n /\ i - (16 * n + 8) = 8 * (7 - q) + r
      BY <2>1, <3>1
    <3>3. i \in up(n) <=> 8 * (7 - q) + r \in x BY <1>5, <3>2
    <3>4. \A k \in 0 .. 3 : i \in up(k) => k = n
      <4>1. \A k \in 0 .. 3 : i \in up(k) => 32 + 8 * k <= i /\ i <= 39 + 8 * k BY <1>5
      <4> QED BY <3>2, <4>1
    <3>5. \A k \in 0 .. 3 : i \notin down(k)
      <4>1. \A k \in 0 .. 3 : i \in down(k) => i <= 31 - 8 * k BY <1>4
      <4>2. i >= 32 BY <2>1, <2>3
      <4> QED BY <4>1, <4>2
    <3> QED BY <1>7, <2>1, <3>3, <3>4, <3>5
  <2> QED BY <2>2, <2>3
<1>10. 8 - 1 = 7 /\ 8 * 8 - 1 = 63 OBVIOUS
<1>11. Mirrors(s, x, 8) BY <1>8, <1>9, <1>10 DEF Mirrors
<1> QED BY <1>6, <1>11

\* Without the assembly.
LEMMA SwapIs ==
  ASSUME NEW b \in {2, 4, 8}, NEW x \in Word(8 * b)
  PROVE  Mirrors(Swap(FALSE, x, b), x, b) /\ (b # 8 => Swap(TRUE, x, b) = Swap(FALSE, x, b))
<1>1. CASE b = 2
  <2>1. x \in Word(16) BY <1>1
  <2>2. Swap(FALSE, x, b) = swap_word(x) /\ Swap(TRUE, x, b) = swap_word(x) BY <1>1 DEF Swap
  <2> QED BY <1>1, <2>1, <2>2, SwapWordIs, Zenon
<1>2. CASE b = 4
  <2>1. x \in Word(32) BY <1>2
  <2>2. Swap(FALSE, x, b) = swap_long(x) /\ Swap(TRUE, x, b) = swap_long(x) BY <1>2 DEF Swap
  <2> QED BY <1>2, <2>1, <2>2, SwapLongIs, Zenon
<1>3. CASE b = 8
  <2>1. x \in Word(64) BY <1>3
  <2>2. Swap(FALSE, x, b) = swap_quad(x) BY <1>3 DEF Swap
  <2> QED BY <1>3, <2>1, <2>2, SwapQuadIs, Zenon
<1> QED BY <1>1, <1>2, <1>3

\* A swap undoes itself.
LEMMA SwapBack ==
  ASSUME NEW b \in {2, 4, 8}, NEW x \in Word(8 * b)
  PROVE  Swap(FALSE, x, b) \in Word(8 * b) /\ Swap(FALSE, Swap(FALSE, x, b), b) = x
<1>1. PICK s : s = Swap(FALSE, x, b) OBVIOUS
<1>2. Mirrors(s, x, b) BY <1>1, SwapIs
<1>3. Mirrors(x, s, b) /\ s \in Word(8 * b)
  <2>1. b \in Nat OBVIOUS
  <2> QED BY <1>2, <2>1, MirroredBack
<1>4. Mirrors(Swap(FALSE, s, b), s, b) BY <1>3, SwapIs
<1>5. Swap(FALSE, s, b) = x
  <2>1. b \in Nat OBVIOUS
  <2> QED BY <1>3, <1>4, <2>1, OneMirror
<1> QED BY <1>1, <1>3, <1>5, Zenon

\* The bytes of a swapped word are those of the word in the other order.
LEMMA SwappedBytes ==
  ASSUME NEW b \in {2, 4, 8}, NEW x \in Word(8 * b)
  PROVE  htole(b, Swap(FALSE, x, b)) = htobe(b, x)
<1>1. PICK s : s = Swap(FALSE, x, b) OBVIOUS
<1>2. Mirrors(s, x, b) /\ s \in Word(8 * b) BY <1>1, SwapIs, SwapBack
<1>3. b \in Nat /\ x \in SUBSET Nat /\ s \in SUBSET Nat
  <2>1. b \in Nat OBVIOUS
  <2> QED BY <1>2, <2>1, WordBits
<1>4. ASSUME NEW n \in 0 .. b - 1 PROVE Byte(s, n) = Byte(x, b - 1 - n)
  <2>1. PICK p \in 0 .. b - 1 : p = b - 1 - n
    <3>1. b - 1 - n \in 0 .. b - 1 OBVIOUS
    <3> QED BY <3>1
  <2>2. n \in Nat /\ p \in Nat OBVIOUS
  <2>3. Byte(s, n) \subseteq 0 .. 7 /\ \A k \in 0 .. 7 : k \in Byte(s, n) <=> k + 8 * n \in s
    BY <1>3, <2>2, InByte
  <2>4. Byte(x, p) \subseteq 0 .. 7 /\ \A k \in 0 .. 7 : k \in Byte(x, p) <=> k + 8 * p \in x
    BY <1>3, <2>2, InByte
  <2>5. \A k \in 0 .. 7 : k + 8 * n \in s <=> k + 8 * p \in x
    <3> TAKE k \in 0 .. 7
    <3>1. k + 8 * n = 8 * n + k /\ k + 8 * p = 8 * (b - 1 - n) + k BY <2>1
    <3>2. 8 * n + k \in s <=> 8 * (b - 1 - n) + k \in x BY <1>2 DEF Mirrors
    <3> QED BY <3>1, <3>2
  <2>6. Byte(s, n) = Byte(x, p) BY <2>3, <2>4, <2>5
  <2> QED BY <2>1, <2>6
<1>5. htole(b, s) = htobe(b, x)
  <2>1. htole(b, s) = [n \in 0 .. b - 1 |-> Byte(s, n)] BY Zenon DEF htole
  <2>2. htobe(b, x) = [n \in 0 .. b - 1 |-> Byte(x, b - 1 - n)] BY Zenon DEF htobe
  <2> QED BY <1>4, <2>1, <2>2
<1> QED BY <1>1, <1>5

\* The big-endian bytes are the bytes of the swapped word.
LEMMA BigIsSwapped ==
  ASSUME NEW b \in {2, 4, 8}, NEW x \in Word(8 * b)
  PROVE  letoh(b, htobe(b, x)) = Swap(FALSE, x, b)
<1>1. PICK s : s = Swap(FALSE, x, b) OBVIOUS
<1>2. s \in Word(8 * b) /\ b \in 1 .. 8
  <2>1. s \in Word(8 * b) BY <1>1, SwapBack, Zenon
  <2>2. b \in 1 .. 8 OBVIOUS
  <2> QED BY <2>1, <2>2
<1>3. letoh(b, htole(b, s)) = s BY <1>2, LittleBack
<1>4. htole(b, s) = htobe(b, x) BY <1>1, SwappedBytes
<1> QED BY <1>1, <1>3, <1>4, Zenon

\* The halves of a word of 64 bits change places.
LEMMA HalvesAre ==
  ASSUME NEW x \in Word(64)
  PROVE  /\ Halves(x) \in Word(64)
         /\ \A i \in 0 .. 31 : i \in Halves(x) <=> i + 32 \in x
         /\ \A i \in 0 .. 31 : i + 32 \in Halves(x) <=> i \in x
<1>1. PICK w \in Nat : w = 64 OBVIOUS
<1>2. x \subseteq 0 .. 63 /\ x \in SUBSET Nat
  <2>1. Word(64) = SUBSET (0 .. 64 - 1) BY Zenon DEF Word
  <2> QED BY <2>1
<1>3. PICK u : u = Shl(x, 32, w) OBVIOUS
<1>4. PICK d : d = Shr(x, 32) OBVIOUS
<1>5. u \subseteq 0 .. w - 1 /\ \A i \in 0 .. w - 1 : i \in u <=> i >= 32 /\ i - 32 \in x
  <2>1. u \subseteq 0 .. w - 1 BY <1>3, Zenon DEF Shl, Ones
  <2> QED BY <1>2, <1>3, <2>1, ShiftedUp
<1>6. d \subseteq Nat /\ \A i \in Nat : i \in d <=> i + 32 \in x
  <2>1. d \subseteq Nat BY <1>2, <1>4 DEF Shr
  <2> QED BY <1>2, <1>4, <2>1, ShiftedDown
<1>7. PICK h : h = u \cup d OBVIOUS
<1>8. Halves(x) = h BY <1>1, <1>3, <1>4, <1>7, Zenon DEF Halves
<1>9. h \subseteq 0 .. 63
  <2>1. d \subseteq 0 .. 63 BY <1>2, <1>6
  <2>2. u \subseteq 0 .. 63 BY <1>1, <1>5
  <2> QED BY <1>7, <2>1, <2>2
<1>10. Word(64) = SUBSET (0 .. 63)
  <2>1. Word(64) = SUBSET (0 .. 64 - 1) BY Zenon DEF Word
  <2> QED BY <2>1
<1>11. \A i \in 0 .. 31 : i \in h <=> i + 32 \in x
  <2> TAKE i \in 0 .. 31
  <2>1. i \in 0 .. w - 1 /\ ~(i >= 32) /\ i \in Nat BY <1>1
  <2> QED BY <1>5, <1>6, <1>7, <2>1
<1>12. \A i \in 0 .. 31 : i + 32 \in h <=> i \in x
  <2> TAKE i \in 0 .. 31
  <2>1. i + 32 \in 0 .. w - 1 /\ i + 32 >= 32 /\ (i + 32) - 32 = i /\ i + 32 \in Nat BY <1>1
  <2>2. (i + 32) + 32 \notin x BY <1>2
  <2> QED BY <1>5, <1>6, <1>7, <2>1, <2>2
<1> QED BY <1>8, <1>9, <1>10, <1>11, <1>12

\* Changing places twice gives the word back.
LEMMA HalvesBack ==
  ASSUME NEW x \in Word(64)
  PROVE  /\ Halves(Halves(x)) = x
         /\ Swap(FALSE, Halves(x), 8) = Halves(Swap(FALSE, x, 8))
<1>1. Word(64) = SUBSET (0 .. 63)
  <2>1. Word(64) = SUBSET (0 .. 64 - 1) BY Zenon DEF Word
  <2> QED BY <2>1
<1>2. PICK h \in Word(64) : h = Halves(x) BY HalvesAre
<1>3. PICK s \in Word(64) : s = Swap(FALSE, x, 8)
  <2>1. 8 * 8 = 64 OBVIOUS
  <2>2. Swap(FALSE, x, 8) \in Word(8 * 8) BY <2>1, SwapBack
  <2> QED BY <2>1, <2>2
<1>4. PICK g \in Word(64) : g = Halves(h) BY HalvesAre
<1>5. PICK t \in Word(64) : t = Halves(s) BY HalvesAre
<1>6. \A i \in 0 .. 31 : (i \in h <=> i + 32 \in x) /\ (i + 32 \in h <=> i \in x)
  BY <1>2, HalvesAre
<1>7. \A i \in 0 .. 31 : (i \in g <=> i + 32 \in h) /\ (i + 32 \in g <=> i \in h)
  BY <1>4, HalvesAre
<1>8. \A i \in 0 .. 31 : (i \in t <=> i + 32 \in s) /\ (i + 32 \in t <=> i \in s)
  BY <1>5, HalvesAre
<1>9. g = x
  <2>1. ASSUME NEW i \in 0 .. 63 PROVE i \in g <=> i \in x
    <3>1. CASE i <= 31 BY <1>6, <1>7, <3>1
    <3>2. CASE i > 31
      <4>1. PICK k \in 0 .. 31 : i = k + 32
        <5>1. i - 32 \in 0 .. 31 /\ i = (i - 32) + 32 BY <3>2
        <5> QED BY <5>1
      <4> QED BY <1>6, <1>7, <4>1
    <3> QED BY <3>1, <3>2
  <2> QED BY <1>1, <2>1
<1>10. \A q \in 0 .. 7, r \in 0 .. 7 : 8 * q + r \in s <=> 8 * (8 - 1 - q) + r \in x
  <2>1. 8 * 8 = 64 /\ 8 \in {2, 4, 8} /\ 0 .. 8 - 1 = 0 .. 7 OBVIOUS
  <2>2. Mirrors(Swap(FALSE, x, 8), x, 8) BY <2>1, SwapIs
  <2>3. Mirrors(s, x, 8) BY <1>3, <2>2, Zenon
  <2> QED BY <2>1, <2>3, Zenon DEF Mirrors
<1>11. Mirrors(t, h, 8)
  <2>1. ASSUME NEW q \in 0 .. 7, NEW r \in 0 .. 7
        PROVE  8 * q + r \in t <=> 8 * (7 - q) + r \in h
    <3>1. CASE q <= 3
      <4>1. PICK i \in 0 .. 31 : i = 8 * q + r
        <5>1. 8 * q + r \in 0 .. 31 BY <3>1
        <5> QED BY <5>1
      <4>2. PICK k \in 0 .. 31 : k + 32 = 8 * (7 - q) + r /\ k = 8 * (3 - q) + r
        <5>1. 8 * (3 - q) + r \in 0 .. 31 /\ (8 * (3 - q) + r) + 32 = 8 * (7 - q) + r BY <3>1
        <5> QED BY <5>1
      <4>3. q + 4 \in 0 .. 7 /\ i + 32 = 8 * (q + 4) + r /\ 8 * (8 - 1 - (q + 4)) + r = k
        BY <3>1, <4>1, <4>2
      <4>4. i + 32 \in s <=> k \in x BY <1>10, <4>3
      <4>5. i \in t <=> i + 32 \in s BY <1>8
      <4>6. k + 32 \in h <=> k \in x BY <1>6
      <4> QED BY <4>1, <4>2, <4>4, <4>5, <4>6
    <3>2. CASE q > 3
      <4>1. PICK i \in 0 .. 31 : i + 32 = 8 * q + r /\ i = 8 * (q - 4) + r
        <5>1. 8 * (q - 4) + r \in 0 .. 31 /\ (8 * (q - 4) + r) + 32 = 8 * q + r BY <3>2
        <5> QED BY <5>1
      <4>2. PICK k \in 0 .. 31 : k = 8 * (7 - q) + r
        <5>1. 8 * (7 - q) + r \in 0 .. 31 BY <3>2
        <5> QED BY <5>1
      <4>3. q - 4 \in 0 .. 7 /\ 8 * (8 - 1 - (q - 4)) + r = k + 32 BY <3>2, <4>2
      <4>4. i \in s <=> k + 32 \in x BY <1>10, <4>1, <4>3
      <4>5. i + 32 \in t <=> i \in s BY <1>8
      <4>6. k \in h <=> k + 32 \in x BY <1>6
      <4> QED BY <4>1, <4>2, <4>4, <4>5, <4>6
    <3> QED BY <3>1, <3>2
  <2>2. t \subseteq 0 .. 63 BY <1>1
  <2>3. 0 .. 8 - 1 = 0 .. 7 /\ 8 * 8 - 1 = 63 /\ 8 - 1 = 7 OBVIOUS
  <2> QED BY <2>1, <2>2, <2>3 DEF Mirrors
<1>12. Swap(FALSE, h, 8) = t
  <2>1. 8 * 8 = 64 /\ 8 \in {2, 4, 8} /\ 8 \in Nat OBVIOUS
  <2>2. Mirrors(Swap(FALSE, h, 8), h, 8) BY <2>1, SwapIs
  <2> QED BY <1>11, <2>1, <2>2, OneMirror
<1> QED BY <1>2, <1>3, <1>4, <1>5, <1>9, <1>12, Zenon

\* What hton and ntoh make of a value: the halves of 64 bits are exchanged by
\* the side with the assembly.
Turned(asm, x, b) == IF b = 8 /\ asm THEN Halves(x) ELSE x

\* It is a word.
LEMMA TurnedWord ==
  ASSUME NEW b \in {2, 4, 8}, NEW asm \in BOOLEAN, NEW x \in Word(8 * b)
  PROVE  /\ Turned(asm, x, b) \in Word(8 * b)
         /\ Swap(asm, x, b) = Swap(FALSE, Turned(asm, x, b), b)
         /\ Swap(asm, x, b) = Turned(asm, Swap(FALSE, x, b), b)
<1>1. CASE b = 8 /\ asm
  <2>1. x \in Word(64) /\ 8 * b = 64 BY <1>1
  <2>2. Turned(asm, x, b) = Halves(x) /\ Turned(asm, Swap(FALSE, x, b), b) = Halves(Swap(FALSE, x, b))
    BY <1>1, Zenon DEF Turned
  <2>3. Halves(x) \in Word(64) BY <2>1, HalvesAre
  <2>4. Swap(asm, x, b) = Halves(swap_quad(x)) /\ Swap(FALSE, x, b) = swap_quad(x)
    BY <1>1 DEF Swap, swap_quad_asm
  <2>5. Swap(FALSE, Halves(x), b) = Halves(Swap(FALSE, x, b)) BY <1>1, <2>1, HalvesBack, Zenon
  <2> QED BY <2>1, <2>2, <2>3, <2>4, <2>5, Zenon
<1>2. CASE ~(b = 8 /\ asm)
  <2>1. Turned(asm, x, b) = x /\ Turned(asm, Swap(FALSE, x, b), b) = Swap(FALSE, x, b)
    BY <1>2, Zenon DEF Turned
  <2>2. Swap(asm, x, b) = Swap(FALSE, x, b)
    <3>1. CASE asm = FALSE BY <3>1
    <3>2. CASE asm = TRUE
      <4>1. b # 8 BY <1>2, <3>2
      <4>2. Swap(TRUE, x, b) = Swap(FALSE, x, b) BY <4>1, SwapIs
      <4> QED BY <3>2, <4>2
    <3> QED BY <3>1, <3>2
  <2> QED BY <2>1, <2>2
<1> QED BY <1>1, <1>2

\* What the host writes after hton is the big-endian bytes of that word.
LEMMA Stored ==
  ASSUME NEW host \in Orders, NEW asm \in BOOLEAN, asm => host = "little",
         NEW b \in {2, 4, 8}, NEW x \in Word(8 * b)
  PROVE  NativeStore(host, b, hton(host, asm, x, b)) = htobe(b, Turned(asm, x, b))
<1>1. CASE host = "big"
  <2>1. asm = FALSE
    <3>1. "big" # "little" OBVIOUS
    <3> QED BY <1>1, <3>1
  <2>2. hton(host, asm, x, b) = x BY <1>1, Zenon DEF hton
  <2>3. Turned(asm, x, b) = x BY <2>1, Zenon DEF Turned
  <2>4. NativeStore(host, b, x) = htobe(b, x)
    <3>1. NativeStore(host, b, x) = [n \in 0 .. b - 1 |-> Byte(x, b - 1 - n)]
      BY <1>1, Zenon DEF NativeStore
    <3> QED BY <3>1, Zenon DEF htobe
  <2> QED BY <2>2, <2>3, <2>4, Zenon
<1>2. CASE host = "little"
  <2>1. host # "big" BY <1>2
  <2>2. hton(host, asm, x, b) = Swap(asm, x, b) BY <2>1, Zenon DEF hton
  <2>3. PICK y \in Word(8 * b) : y = Turned(asm, x, b) BY TurnedWord
  <2>4. Swap(asm, x, b) = Swap(FALSE, y, b) BY <2>3, TurnedWord, Zenon
  <2>5. NativeStore(host, b, Swap(FALSE, y, b)) = htole(b, Swap(FALSE, y, b))
    BY <2>1, Zenon DEF NativeStore, htole
  <2>6. htole(b, Swap(FALSE, y, b)) = htobe(b, y) BY SwappedBytes
  <2> QED BY <2>2, <2>3, <2>4, <2>5, <2>6, Zenon
<1> QED BY <1>1, <1>2 DEF Orders

\* What the receiver has after ntoh is that word, turned by its own build.
LEMMA Loaded ==
  ASSUME NEW host \in Orders, NEW asm \in BOOLEAN, asm => host = "little",
         NEW b \in {2, 4, 8}, NEW y \in Word(8 * b)
  PROVE  ntoh(host, asm, NativeLoad(host, b, htobe(b, y)), b) = Turned(asm, y, b)
<1>1. b \in 1 .. 8 OBVIOUS
<1>2. CASE host = "big"
  <2>1. asm = FALSE
    <3>1. "big" # "little" OBVIOUS
    <3> QED BY <1>2, <3>1
  <2>2. \A v : ntoh(host, asm, v, b) = v BY <1>2, Zenon DEF ntoh
  <2>3. Turned(asm, y, b) = y BY <2>1, Zenon DEF Turned
  <2>4. NativeLoad(host, b, htobe(b, y)) = betoh(b, htobe(b, y))
    BY <1>2, Zenon DEF NativeLoad, betoh
  <2>5. betoh(b, htobe(b, y)) = y BY <1>1, BigBack
  <2> QED BY <2>2, <2>3, <2>4, <2>5, Zenon
<1>3. CASE host = "little"
  <2>1. host # "big" BY <1>3
  <2>2. PICK s \in Word(8 * b) : s = Swap(FALSE, y, b) /\ Swap(FALSE, s, b) = y BY SwapBack
  <2>3. NativeLoad(host, b, htobe(b, y)) = letoh(b, htobe(b, y))
    BY <2>1, Zenon DEF NativeLoad, letoh
  <2>4. letoh(b, htobe(b, y)) = s BY <2>2, BigIsSwapped, Zenon
  <2>5. ntoh(host, asm, s, b) = Swap(asm, s, b) BY <2>1, Zenon DEF ntoh
  <2>6. Swap(asm, s, b) = Turned(asm, Swap(FALSE, s, b), b) BY TurnedWord, Zenon
  <2> QED BY <2>2, <2>3, <2>4, <2>5, <2>6, Zenon
<1> QED BY <1>2, <1>3 DEF Orders

\* The two hosts, and what is under way between them.
OrderInv ==
  /\ from \in Orders /\ to \in Orders
  /\ assembly \in SUBSET {"from", "to"}
  /\ ("from" \in assembly => from = "little") /\ ("to" \in assembly => to = "little")
  /\ size \in Sizes /\ how \in Ways(size)
  /\ sent \in Word(8 * size)
  /\ phase = "receive" =>
       wire = IF how = "le" THEN htole(size, sent)
              ELSE htobe(size, Turned("from" \in assembly, sent, size))
  /\ WireValue

\* 64 bits go through hton and ntoh only.
LEMMA OneWay == ASSUME NEW b \in Sizes, NEW h \in Ways(b) PROVE
  /\ h \in {"hton", "be", "le", "hton to be", "be to ntoh"}
  /\ h # "hton" => b # 8
BY DEF Ways, Sizes

\* A value not sent yet.
LEMMA OrderStarts == OrderInit => OrderInv
<1> SUFFICES ASSUME OrderInit PROVE OrderInv OBVIOUS
<1>1. phase = "send" /\ "send" # "receive" /\ "send" # "done" BY DEF OrderInit
<1>2. sent \in Word(8 * size)
  <2>1. PICK v \in Values : sent = Cast(v, 8 * size) BY Zenon DEF OrderInit
  <2>2. Cast(v, 8 * size) \subseteq Ones(8 * size) BY Zenon DEF Cast
  <2> QED BY <2>1, <2>2, Zenon DEF Word, Ones
<1>3. WireValue BY <1>1, Zenon DEF WireValue
<1> QED BY <1>1, <1>2, <1>3, Zenon DEF OrderInit, OrderInv

\* The sender writes the bytes in the order agreed.
LEMMA OrderSends == ASSUME OrderInv, Send PROVE OrderInv'
<1>1. /\ from \in Orders /\ to \in Orders /\ size \in Sizes /\ how \in Ways(size)
      /\ sent \in Word(8 * size) /\ ("from" \in assembly => from = "little")
  BY Zenon DEF OrderInv
<1>2. size \in {2, 4, 8} BY <1>1 DEF Sizes
<1>3. /\ phase' = "receive" /\ from' = from /\ to' = to /\ assembly' = assembly /\ size' = size
      /\ how' = how /\ sent' = sent
  BY Zenon DEF Send
<1>4. WireValue'
  <2>1. phase' # "done" BY <1>3
  <2> QED BY <2>1, Zenon DEF WireValue
<1>5. wire' = IF how = "le" THEN htole(size, sent)
              ELSE htobe(size, Turned("from" \in assembly, sent, size))
  <2>1. CASE how \in {"hton", "hton to be"}
    <3>1. how # "le" BY <2>1
    <3>2. wire' = NativeStore(from, size, hton(from, "from" \in assembly, sent, size))
      BY <2>1, Zenon DEF Send
    <3>3. ("from" \in assembly) \in BOOLEAN OBVIOUS
    <3>4. PICK asm \in BOOLEAN : asm = ("from" \in assembly) BY <3>3
    <3>5. NativeStore(from, size, hton(from, asm, sent, size)) = htobe(size, Turned(asm, sent, size))
      BY <1>1, <1>2, <3>4, Stored
    <3> QED BY <3>1, <3>2, <3>4, <3>5, Zenon
  <2>2. CASE how \in {"be", "be to ntoh"}
    <3>1. how \notin {"hton", "hton to be"} /\ how # "le" /\ how # "hton" BY <2>2
    <3>2. wire' = htobe(size, sent) BY <2>2, <3>1 DEF Send
    <3>3. size # 8 BY <1>1, <3>1, OneWay
    <3>4. Turned("from" \in assembly, sent, size) = sent BY <3>3, Zenon DEF Turned
    <3> QED BY <3>1, <3>2, <3>4, Zenon
  <2>3. CASE how = "le"
    <3>1. wire' = htole(size, sent) BY <2>3 DEF Send
    <3> QED BY <2>3, <3>1, Zenon
  <2> QED BY <1>1, <2>1, <2>2, <2>3, OneWay
<1> QED BY <1>3, <1>4, <1>5, Zenon DEF OrderInv

\* The receiver reads them back.
LEMMA OrderReceives == ASSUME OrderInv, Receive PROVE OrderInv'
<1>1. /\ from \in Orders /\ to \in Orders /\ size \in Sizes /\ how \in Ways(size)
      /\ sent \in Word(8 * size) /\ ("to" \in assembly => to = "little")
      /\ assembly \in SUBSET {"from", "to"}
  BY Zenon DEF OrderInv
<1>2. size \in {2, 4, 8} /\ size \in 1 .. 8 BY <1>1 DEF Sizes
<1>3. /\ phase' = "done" /\ from' = from /\ to' = to /\ assembly' = assembly /\ size' = size
      /\ how' = how /\ sent' = sent
  BY Zenon DEF Receive
<1>4. wire = IF how = "le" THEN htole(size, sent)
             ELSE htobe(size, Turned("from" \in assembly, sent, size))
  BY Zenon DEF OrderInv, Receive
<1>5. PICK f \in BOOLEAN, t \in BOOLEAN : f = ("from" \in assembly) /\ t = ("to" \in assembly)
  <2>1. ("from" \in assembly) \in BOOLEAN /\ ("to" \in assembly) \in BOOLEAN OBVIOUS
  <2> QED BY <2>1
<1>6. PICK y \in Word(8 * size) : y = Turned(f, sent, size) BY <1>1, <1>2, TurnedWord
<1>7. got' = IF size = 8 /\ assembly \in {{"from"}, {"to"}} THEN Halves(sent) ELSE sent
  <2>1. CASE how \in {"hton", "be to ntoh"}
    <3>1. how # "le" BY <2>1
    <3>2. wire = htobe(size, y) BY <1>4, <1>5, <1>6, <3>1, Zenon
    <3>3. got' = ntoh(to, t, NativeLoad(to, size, wire), size)
      BY <1>5, <2>1, Zenon DEF Receive
    <3>4. ntoh(to, t, NativeLoad(to, size, htobe(size, y)), size) = Turned(t, y, size)
      BY <1>1, <1>2, <1>5, Loaded
    <3>5. got' = Turned(t, Turned(f, sent, size), size) BY <1>6, <3>2, <3>3, <3>4, Zenon
    <3>6. CASE size = 8
      <4>1. sent \in Word(64) BY <1>1, <3>6
      <4>2. Halves(Halves(sent)) = sent BY <4>1, HalvesBack
      <4>3. got' = IF t THEN (IF f THEN sent ELSE Halves(sent))
                   ELSE (IF f THEN Halves(sent) ELSE sent)
        BY <3>5, <3>6, <4>2, Zenon DEF Turned
      <4>4. assembly \in {{"from"}, {"to"}} <=> (t # f) BY <1>1, <1>5
      <4> QED BY <3>6, <4>3, <4>4, Zenon
    <3>7. CASE size # 8 BY <3>5, <3>7, Zenon DEF Turned
    <3> QED BY <3>6, <3>7
  <2>2. CASE how \in {"be", "hton to be"}
    <3>1. how \notin {"hton", "be to ntoh"} /\ how # "le" /\ how # "hton" BY <2>2
    <3>2. size # 8 BY <1>1, <3>1, OneWay
    <3>3. Turned("from" \in assembly, sent, size) = sent BY <3>2, Zenon DEF Turned
    <3>4. got' = betoh(size, wire) BY <2>2, <3>1 DEF Receive
    <3>5. betoh(size, htobe(size, sent)) = sent BY <1>1, <1>2, BigBack
    <3> QED BY <1>4, <3>1, <3>2, <3>3, <3>4, <3>5, Zenon
  <2>3. CASE how = "le"
    <3>1. how # "hton" BY <2>3
    <3>2. size # 8 BY <1>1, <3>1, OneWay
    <3>3. got' = letoh(size, wire) BY <2>3 DEF Receive
    <3>4. letoh(size, htole(size, sent)) = sent BY <1>1, <1>2, LittleBack
    <3> QED BY <1>4, <2>3, <3>2, <3>3, <3>4, Zenon
  <2> QED BY <1>1, <2>1, <2>2, <2>3, OneWay
<1>8. WireValue' BY <1>3, <1>7, Zenon DEF WireValue
<1>9. phase' # "receive" BY <1>3
<1> QED BY <1>3, <1>8, <1>9, Zenon DEF OrderInv

\* The value sent reaches the receiver, for every value, host and build.
THEOREM OrderKept == OrderSpec => []WireValue
<1>1. OrderInv /\ UNCHANGED orderVars => OrderInv'
  <2> SUFFICES ASSUME OrderInv, UNCHANGED orderVars PROVE OrderInv'
    OBVIOUS
  <2> QED BY Zenon DEF OrderInv, orderVars, WireValue
<1>2. OrderInv /\ [OrderNext]_orderVars => OrderInv'
  BY <1>1, OrderSends, OrderReceives, Zenon DEF OrderNext
<1>3. OrderInv => WireValue BY DEF OrderInv
<1> QED BY <1>2, <1>3, OrderStarts, PTL DEF OrderSpec

\* What the machine of bitcount.h holds is a word of its width.
BitWord == width \in {32, 64} /\ val \in Word(width)

\* Every change cuts its result to the width.
LEMMA BitWordKept == BitSpec => []BitWord
<1>1. BitInit => BitWord BY DEF BitInit, BitWord, Word, Ones
<1>2. ASSUME BitWord, NEW new, NEW what, Change(new, what) PROVE BitWord'
  <2>1. width \in {32, 64} /\ width' = width /\ val' = Cast(new, width)
    BY <1>2, Zenon DEF BitWord, Change
  <2>2. Cast(new, width) \in SUBSET (0 .. width - 1) BY Zenon DEF Cast, Ones
  <2> QED BY <2>1, <2>2, Zenon DEF BitWord, Word
<1>3. ASSUME BitWord, BitNext PROVE BitWord'
  <2>1. CASE \E n \in Positions : SETBIT(n) \/ CLEARBIT(n) \/ TOGGLEBIT(n)
    BY <1>2, <1>3, <2>1, Zenon DEF SETBIT, CLEARBIT, TOGGLEBIT
  <2>2. CASE \E k \in Shifts : RotateLeft(k) \/ RotateRight(k)
    BY <1>2, <1>3, <2>2, Zenon DEF RotateLeft, RotateRight
  <2>3. CASE \E start, length \in Shifts, ones \in {{0}, {0, 2, 7}, Ones(32)} :
               INSERTBITS(ones, start, length)
    BY <1>2, <1>3, <2>3, Zenon DEF INSERTBITS
  <2> QED BY <1>3, <2>1, <2>2, <2>3, Zenon DEF BitNext
<1>4. BitWord /\ UNCHANGED bitVars => BitWord' BY DEF BitWord, bitVars
<1> QED BY <1>1, <1>3, <1>4, PTL DEF BitSpec

\* The counts and searches of bitcount.h are exact on every word the machine
\* holds, and the count of leading zeros is off as stated.
THEOREM WordsCounted == BitSpec => [](CountExact /\ LowestFound /\ LeadingZerosOff)
<1>1. BitWord => CountExact /\ LowestFound /\ LeadingZerosOff
  BY CountsAre, LowestIs, LeadingOff, Zenon DEF BitWord
<1> QED BY <1>1, BitWordKept, PTL

\* The bits of x, k places to the left around a word of w, and back.
RolledUp(x, k, w) == {i \in 0 .. w - 1 : (IF i >= k THEN i - k ELSE i - k + w) \in x}
RolledDown(x, k, w) == {i \in 0 .. w - 1 : (IF i + k < w THEN i + k ELSE i + k - w) \in x}

\* The word a shift leaves, position by position.
LEMMA ShiftsAt ==
  ASSUME NEW w \in Nat, NEW x \in SUBSET (0 .. w - 1), NEW k \in Nat
  PROVE  /\ \A i : i \in Shl(x, k, w) <=> i \in 0 .. w - 1 /\ i - k \in x
         /\ \A i : i \in Shr(x, k) <=> i \in 0 .. w - 1 /\ i + k \in x
<1>1. \A j \in x : j \in Nat /\ j < w OBVIOUS
<1>2. ASSUME NEW i PROVE i \in Shl(x, k, w) <=> i \in 0 .. w - 1 /\ i - k \in x
  <2>1. CASE i \in Shl(x, k, w)
    <3>1. i \in 0 .. w - 1 /\ \E j \in x : i = j + k BY <2>1 DEF Shl, Ones
    <3>2. PICK j \in x : i = j + k BY <3>1
    <3>3. j \in Nat BY <1>1
    <3>4. i - k = j BY <3>2, <3>3
    <3> QED BY <2>1, <3>1, <3>4
  <2>2. CASE i \in 0 .. w - 1 /\ i - k \in x
    <3>1. i = (i - k) + k BY <2>2
    <3> QED BY <2>2, <3>1 DEF Shl, Ones
  <2> QED BY <2>1, <2>2
<1>3. ASSUME NEW i PROVE i \in Shr(x, k) <=> i \in 0 .. w - 1 /\ i + k \in x
  <2>1. CASE i \in Shr(x, k)
    <3>1. PICK j \in x : j >= k /\ i = j - k BY <2>1 DEF Shr
    <3>2. j \in Nat /\ j < w BY <1>1
    <3>3. i + k = j /\ i \in 0 .. w - 1 BY <3>1, <3>2
    <3> QED BY <2>1, <3>3
  <2>2. CASE i \in 0 .. w - 1 /\ i + k \in x
    <3>1. PICK j : j = i + k OBVIOUS
    <3>2. j \in x /\ j >= k /\ i = j - k BY <2>2, <3>1
    <3> QED BY <2>2, <3>2 DEF Shr
  <2> QED BY <2>1, <2>2
<1> QED BY <1>2, <1>3

LEMMA RolledAt ==
  ASSUME NEW w \in Nat, NEW x \in SUBSET (0 .. w - 1), NEW k \in 0 .. w - 1
  PROVE  /\ \A i : i \in RolledUp(x, k, w)
                   <=> i \in 0 .. w - 1 /\ (i - k \in x \/ i - k + w \in x)
         /\ \A i : i \in RolledDown(x, k, w)
                   <=> i \in 0 .. w - 1 /\ (i + k \in x \/ i + k - w \in x)
<1>1. \A j : j \in x => j \in Nat /\ j < w OBVIOUS
<1>2. ASSUME NEW i \in 0 .. w - 1
      PROVE  /\ (IF i >= k THEN i - k ELSE i - k + w) \in x <=> i - k \in x \/ i - k + w \in x
             /\ (IF i + k < w THEN i + k ELSE i + k - w) \in x <=> i + k \in x \/ i + k - w \in x
  <2>1. i >= k => ~(i - k + w < w) BY <1>2
  <2>2. ~(i >= k) => i - k \notin Nat BY <1>2
  <2>3. i + k < w => i + k - w \notin Nat BY <1>2
  <2> QED BY <1>1, <2>1, <2>2, <2>3
<1> QED BY <1>2 DEF RolledUp, RolledDown

\* A shift by the width, which is undefined, is joined to the word it came from.
LEMMA RotlIs ==
  ASSUME NEW w \in Nat, NEW x \in SUBSET (0 .. w - 1), NEW s \in Nat, w > 0
  PROVE  s % w \in 0 .. w - 1 /\ rotl(x, s, w) = {RolledUp(x, s % w, w)}
<1>1. PICK k : k = s % w OBVIOUS
<1>2. k \in 0 .. w - 1 /\ w - k \in Nat BY <1>1
<1>3. \A j \in x : j \in Nat /\ j < w OBVIOUS
<1>4. rotl(x, s, w) = {Shl(x, k, w) \union y : y \in ShrAny(x, w - k, w)} BY <1>1, Zenon DEF rotl
<1>5. PICK m \in Nat : m = w - k BY <1>2
<1>14. k \in Nat BY <1>2
<1>10. \A i : i \in Shl(x, k, w) <=> i \in 0 .. w - 1 /\ i - k \in x
  BY <1>14, ShiftsAt
<1>11. \A i : i \in Shr(x, m) <=> i \in 0 .. w - 1 /\ i + m \in x
  BY <1>5, ShiftsAt
<1>12. \A i : i \in RolledUp(x, k, w)
               <=> i \in 0 .. w - 1 /\ (i - k \in x \/ i - k + w \in x)
  BY <1>2, RolledAt
<1>13. rotl(x, s, w) = {Shl(x, k, w) \union y : y \in ShrAny(x, m, w)} BY <1>4, <1>5, Zenon
<1>6. ASSUME NEW i PROVE i \in RolledUp(x, k, w) <=> i \in Shl(x, k, w) \/ i \in Shr(x, m)
  <2>1. i \in 0 .. w - 1 => i - k + w = i + m BY <1>2, <1>5
  <2> QED BY <2>1, <1>10, <1>11, <1>12
<1>7. RolledUp(x, k, w) = Shl(x, k, w) \union Shr(x, m) BY <1>6, Zenon
<1>8. CASE k = 0
  <2>1. ~(m < w) BY <1>5, <1>8
  <2>2. ShrAny(x, m, w) = {x, {}} BY <2>1, Zenon DEF ShrAny
  <2>3. ASSUME NEW i PROVE i \in Shl(x, k, w) <=> i \in x
    <3>1. i \in 0 .. w - 1 => i - k = i BY <1>8
    <3> QED BY <3>1, <1>3, <1>10
  <2>4. ASSUME NEW i PROVE i \notin Shr(x, m)
    <3>1. i \in 0 .. w - 1 => ~(i + m < w) BY <1>5, <1>8
    <3> QED BY <1>3, <3>1, <1>11
  <2>5. Shl(x, k, w) = x /\ RolledUp(x, k, w) = x BY <1>6, <2>3, <2>4, Zenon
  <2>6. {x \union y : y \in {x, {}}} = {x} OBVIOUS
  <2>7. rotl(x, s, w) = {x \union y : y \in {x, {}}} BY <1>13, <2>2, <2>5, Zenon
  <2> QED BY <1>1, <1>2, <2>5, <2>6, <2>7, Zenon
<1>9. CASE k # 0
  <2>1. m < w BY <1>2, <1>5, <1>9
  <2>2. ShrAny(x, m, w) = {Shr(x, m)} BY <2>1, Zenon DEF ShrAny
  <2>3. \A a, b : {a \union y : y \in {b}} = {a \union b} BY Zenon
  <2>4. rotl(x, s, w) = {Shl(x, k, w) \union y : y \in {Shr(x, m)}} BY <1>13, <2>2, Zenon
  <2>5. rotl(x, s, w) = {Shl(x, k, w) \union Shr(x, m)} BY <2>3, <2>4, Zenon
  <2> QED BY <1>1, <1>2, <1>7, <2>5, Zenon
<1> QED BY <1>8, <1>9

LEMMA RotrIs ==
  ASSUME NEW w \in Nat, NEW x \in SUBSET (0 .. w - 1), NEW s \in Nat, w > 0
  PROVE  s % w \in 0 .. w - 1 /\ rotr(x, s, w) = {RolledDown(x, s % w, w)}
<1>1. PICK k : k = s % w OBVIOUS
<1>2. k \in 0 .. w - 1 /\ w - k \in Nat BY <1>1
<1>3. \A j \in x : j \in Nat /\ j < w OBVIOUS
<1>4. rotr(x, s, w) = {Shr(x, k) \union y : y \in ShlAny(x, w - k, w)} BY <1>1, Zenon DEF rotr
<1>5. PICK m \in Nat : m = w - k BY <1>2
<1>14. k \in Nat BY <1>2
<1>10. \A i : i \in Shr(x, k) <=> i \in 0 .. w - 1 /\ i + k \in x
  BY <1>14, ShiftsAt
<1>11. \A i : i \in Shl(x, m, w) <=> i \in 0 .. w - 1 /\ i - m \in x
  BY <1>5, ShiftsAt
<1>12. \A i : i \in RolledDown(x, k, w)
               <=> i \in 0 .. w - 1 /\ (i + k \in x \/ i + k - w \in x)
  BY <1>2, RolledAt
<1>13. rotr(x, s, w) = {Shr(x, k) \union y : y \in ShlAny(x, m, w)} BY <1>4, <1>5, Zenon
<1>6. ASSUME NEW i PROVE i \in RolledDown(x, k, w) <=> i \in Shr(x, k) \/ i \in Shl(x, m, w)
  <2>1. i \in 0 .. w - 1 => i + k - w = i - m BY <1>2, <1>5
  <2> QED BY <2>1, <1>10, <1>11, <1>12
<1>7. RolledDown(x, k, w) = Shr(x, k) \union Shl(x, m, w) BY <1>6, Zenon
<1>8. CASE k = 0
  <2>1. ~(m < w) BY <1>5, <1>8
  <2>2. ShlAny(x, m, w) = {x, {}} BY <2>1, Zenon DEF ShlAny
  <2>3. ASSUME NEW i PROVE i \in Shr(x, k) <=> i \in x
    <3>1. i \in 0 .. w - 1 => i + k = i BY <1>8
    <3> QED BY <3>1, <1>3, <1>10
  <2>4. ASSUME NEW i PROVE i \notin Shl(x, m, w)
    <3>1. i \in 0 .. w - 1 => i - m \notin Nat BY <1>5, <1>8
    <3> QED BY <1>3, <3>1, <1>11
  <2>5. Shr(x, k) = x /\ RolledDown(x, k, w) = x BY <1>6, <2>3, <2>4, Zenon
  <2>6. {x \union y : y \in {x, {}}} = {x} OBVIOUS
  <2>7. rotr(x, s, w) = {x \union y : y \in {x, {}}} BY <1>13, <2>2, <2>5, Zenon
  <2> QED BY <1>1, <1>2, <2>5, <2>6, <2>7, Zenon
<1>9. CASE k # 0
  <2>1. m < w BY <1>2, <1>5, <1>9
  <2>2. ShlAny(x, m, w) = {Shl(x, m, w)} BY <2>1, Zenon DEF ShlAny
  <2>3. \A a, b : {a \union y : y \in {b}} = {a \union b} BY Zenon
  <2>4. rotr(x, s, w) = {Shr(x, k) \union y : y \in {Shl(x, m, w)}} BY <1>13, <2>2, Zenon
  <2>5. rotr(x, s, w) = {Shr(x, k) \union Shl(x, m, w)} BY <2>3, <2>4, Zenon
  <2> QED BY <1>1, <1>2, <1>7, <2>5, Zenon
<1> QED BY <1>8, <1>9

\* Each undoes the other and loses no bit.
LEMMA RollsBack ==
  ASSUME NEW w \in Nat, NEW x \in SUBSET (0 .. w - 1), NEW k \in 0 .. w - 1
  PROVE  /\ RolledUp(x, k, w) \in SUBSET (0 .. w - 1) /\ RolledDown(x, k, w) \in SUBSET (0 .. w - 1)
         /\ RolledDown(RolledUp(x, k, w), k, w) = x /\ RolledUp(RolledDown(x, k, w), k, w) = x
         /\ Cardinality(RolledUp(x, k, w)) = Cardinality(x)
         /\ Cardinality(RolledDown(x, k, w)) = Cardinality(x)
<1>1. \A j : j \in x => j \in 0 .. w - 1 OBVIOUS
<1>2. RolledUp(x, k, w) \in SUBSET (0 .. w - 1) /\ RolledDown(x, k, w) \in SUBSET (0 .. w - 1)
  BY DEF RolledUp, RolledDown
<1>3. ASSUME NEW i PROVE i \in RolledDown(RolledUp(x, k, w), k, w) <=> i \in x
  <2>1. CASE i \in 0 .. w - 1
    <3> DEFINE c == IF i + k < w THEN i + k ELSE i + k - w
    <3>4. c \in 0 .. w - 1 BY <2>1
    <3>1. PICK j \in 0 .. w - 1 : j = c BY <3>4, Zenon
    <3>2. i = IF j >= k THEN j - k ELSE j - k + w BY <2>1, <3>1
    <3>3. i \in RolledDown(RolledUp(x, k, w), k, w) <=> j \in RolledUp(x, k, w)
      BY <2>1, <3>1, Zenon DEF RolledDown
    <3>5. j \in RolledUp(x, k, w) <=> i \in x BY <3>1, <3>2, Zenon DEF RolledUp
    <3> QED BY <3>3, <3>5
  <2> QED BY <1>1, <2>1, Zenon DEF RolledDown
<1>4. ASSUME NEW i PROVE i \in RolledUp(RolledDown(x, k, w), k, w) <=> i \in x
  <2>1. CASE i \in 0 .. w - 1
    <3> DEFINE c == IF i >= k THEN i - k ELSE i - k + w
    <3>4. c \in 0 .. w - 1 BY <2>1
    <3>1. PICK j \in 0 .. w - 1 : j = c BY <3>4, Zenon
    <3>2. i = IF j + k < w THEN j + k ELSE j + k - w BY <2>1, <3>1
    <3>3. i \in RolledUp(RolledDown(x, k, w), k, w) <=> j \in RolledDown(x, k, w)
      BY <2>1, <3>1, Zenon DEF RolledUp
    <3>5. j \in RolledDown(x, k, w) <=> i \in x BY <3>1, <3>2, Zenon DEF RolledDown
    <3> QED BY <3>3, <3>5
  <2> QED BY <1>1, <2>1, Zenon DEF RolledUp
<1>5. ASSUME NEW y \in SUBSET (0 .. w - 1) PROVE Cardinality(RolledUp(y, k, w)) = Cardinality(y)
  <2> DEFINE T == RolledUp(y, k, w)
             f == [j \in y |-> IF j + k < w THEN j + k ELSE j + k - w]
  <2>1. \A j \in y : j \in 0 .. w - 1 OBVIOUS
  <2>2. \A j \in y : f[j] \in T BY <2>1 DEF RolledUp
  <2>3. \A i \in T : \E j \in y : f[j] = i
    <3> TAKE i \in T
    <3>1. PICK j : j = IF i >= k THEN i - k ELSE i - k + w OBVIOUS
    <3>2. j \in y /\ i \in 0 .. w - 1 BY <3>1 DEF RolledUp
    <3>3. i = IF j + k < w THEN j + k ELSE j + k - w BY <3>1, <3>2
    <3> QED BY <3>2, <3>3
  <2>4. \A a, b \in y : f[a] = f[b] => a = b BY <2>1
  <2>5. f \in [y -> T] BY <2>2
  <2>6. f \in Bijection(y, T)
    BY <2>3, <2>4, <2>5, Zenon DEF Bijection, Injection, Surjection, IsInjective
  <2>7. ExistsBijection(y, T) BY <2>6, Zenon DEF ExistsBijection
  <2>8. IsFiniteSet(y)
    <3>1. 0 \in Int /\ w - 1 \in Int OBVIOUS
    <3>2. IsFiniteSet(0 .. w - 1) BY <3>1, FS_Interval
    <3> QED BY <3>2, FS_Subset
  <2> QED BY <2>7, <2>8, FS_Bijection
<1>6. RolledUp(RolledDown(x, k, w), k, w) = x BY <1>4, Zenon
<1>7. Cardinality(RolledDown(x, k, w)) = Cardinality(x) BY <1>2, <1>5, <1>6, Zenon
<1>8. RolledDown(RolledUp(x, k, w), k, w) = x BY <1>3, Zenon
<1> QED BY <1>2, <1>5, <1>6, <1>7, <1>8, Zenon

\* BITMASK borrows through all the lower bits.
LEMMA MaskIs ==
  ASSUME NEW l \in 0 .. 63
  PROVE  BITMASK(l) = 0 .. l - 1
<1>1. {0} \in Word(64) /\ Not({0}, 64) \in Word(64) /\ Not({0}, 64) \cap {0} = {}
      /\ Not({0}, 64) \cup {0} = 0 .. 63 BY DEF Word, Not, Ones
<1>2. Neg({0}, 64) = 0 .. 63
  <2>1. Plus(Not({0}, 64), {0}, 64) = Not({0}, 64) \cup {0} BY <1>1, PlusApart
  <2> QED BY <1>1, <2>1, Zenon DEF Neg
<1>3. PICK a : a = 0 .. 63 OBVIOUS
<1>4. \A i \in 0 .. 63 : Carries({l}, a, i) <=> l < i
  <2> TAKE i \in 0 .. 63
  <2>1. {l} \cap a = {l} /\ {l} \cup a = a BY <1>3
  <2>2. (l + 1) .. (i - 1) \subseteq a BY <1>3
  <2> QED BY <2>1, <2>2 DEF Carries
<1>5. \A i \in 0 .. 63 : i \in Xor({l}, a) <=> i # l BY <1>3 DEF Xor
<1>6. \A i : i \in Plus({l}, a, 64) <=> i \in 0 .. 63 /\ (i \in Xor({l}, a)) # Carries({l}, a, i)
  <2> DEFINE S == {i \in Ones(64) : (i \in Xor({l}, a)) # Carries({l}, a, i)}
  <2>1. Plus({l}, a, 64) = S BY PlusIs
  <2>2. \A i : i \in S <=> i \in Ones(64) /\ (i \in Xor({l}, a)) # Carries({l}, a, i) BY Zenon
  <2>3. Ones(64) = 0 .. 63 BY DEF Ones
  <2> HIDE DEF S
  <2> QED BY <2>1, <2>2, <2>3, Zenon
<1>7. \A i \in 0 .. 63 : ((i \in Xor({l}, a)) # Carries({l}, a, i)) <=> i < l
  <2> TAKE i \in 0 .. 63
  <2>1. (i \in Xor({l}, a)) \in BOOLEAN /\ Carries({l}, a, i) \in BOOLEAN BY DEF Carries
  <2>2. (i \in Xor({l}, a) <=> ~Carries({l}, a, i)) <=> i < l BY <1>4, <1>5
  <2> QED BY <2>1, <2>2, Zenon
<1>8. \A i : i \in Plus({l}, a, 64) <=> i \in 0 .. l - 1 BY <1>6, <1>7
<1>9. BITMASK(l) = Plus({l}, a, 64) BY <1>2, <1>3, Zenon DEF BITMASK, Minus, BIT
<1> QED BY <1>8, <1>9, Zenon

\* What INSERTBITS leaves of x in y, position by position: the l bits at s are b's.
Inserted(x, y, b, s, l, w) ==
  \A i : i \in y <=> /\ i \in 0 .. w - 1
                     /\ \/ i \in x /\ i \notin s .. s + l - 1
                        \/ i \in s .. s + l - 1 /\ i - s \in b

LEMMA FieldAt ==
  ASSUME NEW w \in Nat, w <= 64, NEW x \in SUBSET (0 .. w - 1), NEW b,
         NEW s \in Nat, NEW l \in 0 .. 63, s + l <= w,
         NEW y, y = Cast((x \cap Not(Shl(BITMASK(l), s, 64), 64))
                           \union Shl(b \cap BITMASK(l), s, 64), w)
  PROVE  Inserted(x, y, b, s, l, w)
<1>1. PICK m : m = BITMASK(l) OBVIOUS
<1>2. PICK v \in Nat : v = 64 OBVIOUS
<1>3. m = 0 .. l - 1 BY <1>1, MaskIs, Zenon
<1>4. m \in SUBSET (0 .. v - 1) /\ b \cap m \in SUBSET (0 .. v - 1)
  <2>1. \A i \in 0 .. l - 1 : i \in 0 .. v - 1 BY <1>2
  <2> QED BY <1>3, <2>1, Zenon
<1>5. \A i : i \in Shl(m, s, v) <=> i \in 0 .. v - 1 /\ i - s \in m BY <1>4, ShiftsAt
<1>6. \A i : i \in Shl(b \cap m, s, v) <=> i \in 0 .. v - 1 /\ i - s \in b \cap m BY <1>4, ShiftsAt
<1>7. y = Cast((x \cap Not(Shl(m, s, v), v)) \union Shl(b \cap m, s, v), w) BY <1>1, <1>2, Zenon
<1>8. \A i : i \in y <=> /\ i \in Ones(w)
                         /\ \/ i \in x /\ i \in Ones(v) /\ i \notin Shl(m, s, v)
                            \/ i \in Shl(b \cap m, s, v)
  BY <1>7, Zenon DEF Cast, Not
<1>9. ASSUME NEW i \in 0 .. w - 1 PROVE i \in 0 .. v - 1 /\ (i - s \in m <=> i \in s .. s + l - 1)
  BY <1>2, <1>3
<1>10. ASSUME NEW i
       PROVE  i \in y <=> /\ i \in 0 .. w - 1
                         /\ \/ i \in x /\ i \notin s .. s + l - 1
                            \/ i \in s .. s + l - 1 /\ i - s \in b
  <2>1. CASE i \in 0 .. w - 1 BY <1>5, <1>6, <1>8, <1>9, <2>1, Zenon DEF Ones
  <2>2. CASE i \notin 0 .. w - 1 BY <1>8, <2>2, Zenon DEF Ones
  <2> QED BY <2>1, <2>2, Zenon
<1> QED BY <1>10, Zenon DEF Inserted

\* The field is read back and nothing around it has changed.
LEMMA InsertTold ==
  ASSUME NEW w \in Nat, w <= 64, NEW x \in SUBSET (0 .. w - 1), NEW b \in SUBSET Nat,
         NEW s \in Nat, NEW l \in 0 .. 63, s + l <= w,
         NEW y, Inserted(x, y, b, s, l, w)
  PROVE  EXTRACTBITS(y, s, l) = {i \in b : i < l} /\ Xor(x, y) \subseteq s .. s + l - 1
<1>1. \A i : i \in y <=> /\ i \in 0 .. w - 1
                         /\ \/ i \in x /\ i \notin s .. s + l - 1
                            \/ i \in s .. s + l - 1 /\ i - s \in b
  BY Zenon DEF Inserted
<1>2. y \in SUBSET (0 .. w - 1) BY <1>1
<1>3. \A i : i \in Shr(y, s) <=> i \in 0 .. w - 1 /\ i + s \in y BY <1>2, ShiftsAt
<1>4. \A i : i \in EXTRACTBITS(y, s, l) <=> i \in Shr(y, s) /\ i \in 0 .. l - 1
  BY MaskIs, Zenon DEF EXTRACTBITS
<1>5. ASSUME NEW i PROVE i \in EXTRACTBITS(y, s, l) <=> i \in b /\ i < l
  <2>1. CASE i \in 0 .. l - 1
    <3>1. PICK j \in Nat : j = i + s BY <2>1
    <3>2. j \in s .. s + l - 1 /\ j \in 0 .. w - 1 /\ j - s = i /\ i \in 0 .. w - 1 /\ i < l
      BY <2>1, <3>1
    <3>3. j \in y <=> i \in b BY <1>1, <3>2, Zenon
    <3> QED BY <1>3, <1>4, <2>1, <3>1, <3>2, <3>3, Zenon
  <2>2. CASE i \notin 0 .. l - 1
    <3>1. ~(i \in Nat /\ i < l) BY <2>2
    <3>2. i \in b => i \in Nat OBVIOUS
    <3> QED BY <1>4, <2>2, <3>1, <3>2, Zenon
  <2> QED BY <2>1, <2>2
<1>6. EXTRACTBITS(y, s, l) = {i \in b : i < l} BY <1>5, Zenon
<1>7. Xor(x, y) \subseteq s .. s + l - 1 BY <1>1, Zenon DEF Xor
<1> QED BY <1>6, <1>7

LEMMA BitTested ==
  ASSUME NEW w \in Nat, w > 0, NEW x \in SUBSET (0 .. w - 1), NEW n \in Nat
  PROVE  TESTBIT(x, n) <=> n \in x
<1>1. \A i : i \in Shr(x, n) <=> i \in 0 .. w - 1 /\ i + n \in x BY ShiftsAt
<1>2. 0 \in 0 .. w - 1 /\ 0 + n = n OBVIOUS
<1> QED BY <1>1, <1>2, Zenon DEF TESTBIT

LEMMA BitsSet ==
  ASSUME NEW w \in Nat, w <= 64, NEW x \in SUBSET (0 .. w - 1), NEW n \in 0 .. w - 1
  PROVE  /\ TESTBIT(Cast(x \union BIT(n), w), n)
         /\ ~TESTBIT(Cast(x \cap Not(BIT(n), 64), w), n)
         /\ TESTBIT(Cast(Xor(x, BIT(n)), w), n) <=> ~TESTBIT(x, n)
<1>1. w > 0 /\ n \in Nat OBVIOUS
<1>2. ASSUME NEW y PROVE Cast(y, w) \in SUBSET (0 .. w - 1) /\ (n \in Cast(y, w) <=> n \in y)
  BY DEF Cast, Ones
<1>3. ASSUME NEW y PROVE TESTBIT(Cast(y, w), n) <=> n \in y
  <2>1. Cast(y, w) \in SUBSET (0 .. w - 1) /\ (n \in Cast(y, w) <=> n \in y) BY <1>2
  <2> QED BY <1>1, <2>1, BitTested
<1>4. TESTBIT(x, n) <=> n \in x BY <1>1, BitTested
<1>5. n \in x \union BIT(n) /\ n \notin x \cap Not(BIT(n), 64)
      /\ (n \in Xor(x, BIT(n)) <=> n \notin x)
  BY Zenon DEF Not, Xor, BIT
<1> QED BY <1>3, <1>4, <1>5, Zenon

\* A rotation and the opposite one.
LEMMA RotationsUndone ==
  ASSUME NEW w \in Nat, w > 0, NEW x \in SUBSET (0 .. w - 1), NEW k \in Nat, NEW y
  PROVE  /\ y \in rotl(x, k, w) => Cast(y, w) = y /\ Cardinality(y) = Cardinality(x)
                                   /\ rotr(y, k, w) = {x}
         /\ y \in rotr(x, k, w) => Cast(y, w) = y /\ Cardinality(y) = Cardinality(x)
                                   /\ rotl(y, k, w) = {x}
<1>1. PICK m \in 0 .. w - 1 : m = k % w OBVIOUS
<1>2. ASSUME NEW z \in SUBSET (0 .. w - 1)
      PROVE  rotl(z, k, w) = {RolledUp(z, m, w)} /\ rotr(z, k, w) = {RolledDown(z, m, w)}
  BY <1>1, RotlIs, RotrIs
<1>3. \A z \in SUBSET (0 .. w - 1) : Cast(z, w) = z BY DEF Cast, Ones
<1>4. /\ RolledUp(x, m, w) \in SUBSET (0 .. w - 1) /\ RolledDown(x, m, w) \in SUBSET (0 .. w - 1)
      /\ RolledDown(RolledUp(x, m, w), m, w) = x /\ RolledUp(RolledDown(x, m, w), m, w) = x
      /\ Cardinality(RolledUp(x, m, w)) = Cardinality(x)
      /\ Cardinality(RolledDown(x, m, w)) = Cardinality(x)
  BY RollsBack
<1>5. ASSUME y \in rotl(x, k, w)
      PROVE  Cast(y, w) = y /\ Cardinality(y) = Cardinality(x) /\ rotr(y, k, w) = {x}
  <2>1. y = RolledUp(x, m, w) BY <1>2, <1>5, Zenon
  <2> QED BY <1>2, <1>3, <1>4, <2>1, Zenon
<1>6. ASSUME y \in rotr(x, k, w)
      PROVE  Cast(y, w) = y /\ Cardinality(y) = Cardinality(x) /\ rotl(y, k, w) = {x}
  <2>1. y = RolledDown(x, m, w) BY <1>2, <1>6, Zenon
  <2> QED BY <1>2, <1>3, <1>4, <2>1, Zenon
<1> QED BY <1>5, <1>6

LEMMA RotateMoves ==
  ASSUME BitWord, NEW k \in Nat, RotateLeft(k) \/ RotateRight(k)
  PROVE  FieldMoved
<1>1. width \in Nat /\ width > 0 /\ val \in SUBSET (0 .. width - 1) BY DEF BitWord, Word
<1>2. CASE RotateLeft(k)
  <2>1. PICK y \in rotl(val, k, width) : Change(y, <<"left", k>>) BY <1>2, Zenon DEF RotateLeft
  <2>2. val' = Cast(y, width) /\ last' = <<"left", k>> BY <2>1, Zenon DEF Change
  <2>3. last'[1] = "left" /\ last'[2] = k BY <2>2
  <2>4. Cast(y, width) = y /\ Cardinality(y) = Cardinality(val) /\ rotr(y, k, width) = {val}
    BY <1>1, RotationsUndone
  <2>5. last'[1] # "insert" /\ last'[1] \notin {"set", "clear", "toggle"} BY <2>3
  <2> QED BY <2>2, <2>3, <2>4, <2>5, Zenon DEF FieldMoved
<1>3. CASE RotateRight(k)
  <2>1. PICK y \in rotr(val, k, width) : Change(y, <<"right", k>>) BY <1>3, Zenon DEF RotateRight
  <2>2. val' = Cast(y, width) /\ last' = <<"right", k>> BY <2>1, Zenon DEF Change
  <2>3. last'[1] = "right" /\ last'[2] = k BY <2>2
  <2>4. Cast(y, width) = y /\ Cardinality(y) = Cardinality(val) /\ rotl(y, k, width) = {val}
    BY <1>1, RotationsUndone
  <2>5. last'[1] # "left" /\ last'[1] # "insert" /\ last'[1] \notin {"set", "clear", "toggle"}
    BY <2>3
  <2> QED BY <2>2, <2>3, <2>4, <2>5, Zenon DEF FieldMoved
<1> QED BY <1>2, <1>3

LEMMA InsertMoves ==
  ASSUME BitWord, NEW s \in Nat, NEW l \in Nat, NEW b \in SUBSET Nat, INSERTBITS(b, s, l)
  PROVE  FieldMoved
<1>1. width \in Nat /\ width <= 64 /\ val \in SUBSET (0 .. width - 1) BY DEF BitWord, Word
<1>2. s + l <= width /\ l < 64 BY DEF INSERTBITS
<1>3. PICK y : y = Cast((val \cap Not(Shl(BITMASK(l), s, 64), 64))
                          \union Shl(b \cap BITMASK(l), s, 64), width)
  OBVIOUS
<1>4. val' = y /\ last' = <<"insert", b, s, l>> BY <1>3, Zenon DEF INSERTBITS, Change
<1>5. last'[1] = "insert" /\ last'[2] = b /\ last'[3] = s /\ last'[4] = l BY <1>4
<1>6. l \in 0 .. 63 BY <1>2
<1>7. Inserted(val, y, b, s, l, width) BY <1>1, <1>2, <1>3, <1>6, FieldAt
<1>8. EXTRACTBITS(y, s, l) = {i \in b : i < l} /\ Xor(val, y) \subseteq s .. s + l - 1
  BY <1>1, <1>2, <1>6, <1>7, InsertTold
<1>9. last'[1] \notin {"left", "right"} /\ last'[1] \notin {"set", "clear", "toggle"} BY <1>5
<1> QED BY <1>4, <1>5, <1>8, <1>9, Zenon DEF FieldMoved

LEMMA SetMoves ==
  ASSUME BitWord, NEW n \in Nat, SETBIT(n) \/ CLEARBIT(n) \/ TOGGLEBIT(n)
  PROVE  FieldMoved
<1>1. width \in Nat /\ width <= 64 /\ val \in SUBSET (0 .. width - 1) BY DEF BitWord, Word
<1>2. n < width BY DEF SETBIT, CLEARBIT, TOGGLEBIT
<1>3. n \in 0 .. width - 1 BY <1>1, <1>2
<1>4. /\ TESTBIT(Cast(val \union BIT(n), width), n)
      /\ ~TESTBIT(Cast(val \cap Not(BIT(n), 64), width), n)
      /\ TESTBIT(Cast(Xor(val, BIT(n)), width), n) <=> ~TESTBIT(val, n)
  BY <1>1, <1>3, BitsSet
<1>5. \A x : TESTBIT(x, n) \in BOOLEAN BY DEF TESTBIT
<1>6. CASE SETBIT(n)
  <2>1. val' = Cast(val \union BIT(n), width) /\ last' = <<"set", n>>
    BY <1>6, Zenon DEF SETBIT, Change
  <2>2. last'[1] = "set" /\ last'[2] = n BY <2>1
  <2>3. last'[1] \notin {"left", "right"} /\ last'[1] # "insert" BY <2>2
  <2>4. TESTBIT(val', n) = TRUE BY <1>4, <1>5, <2>1, Zenon
  <2>5. (CASE last'[1] = "set" -> TRUE [] last'[1] = "clear" -> FALSE
           [] OTHER -> ~TESTBIT(val, last'[2])) = TRUE BY <2>2
  <2> QED BY <2>2, <2>3, <2>4, <2>5, Zenon DEF FieldMoved
<1>7. CASE CLEARBIT(n)
  <2>1. val' = Cast(val \cap Not(BIT(n), 64), width) /\ last' = <<"clear", n>>
    BY <1>7, Zenon DEF CLEARBIT, Change
  <2>2. last'[1] = "clear" /\ last'[2] = n BY <2>1
  <2>3. last'[1] \notin {"left", "right"} /\ last'[1] # "insert" BY <2>2
  <2>4. TESTBIT(val', n) = FALSE BY <1>4, <1>5, <2>1, Zenon
  <2>5. (CASE last'[1] = "set" -> TRUE [] last'[1] = "clear" -> FALSE
           [] OTHER -> ~TESTBIT(val, last'[2])) = FALSE BY <2>2
  <2> QED BY <2>2, <2>3, <2>4, <2>5, Zenon DEF FieldMoved
<1>8. CASE TOGGLEBIT(n)
  <2>1. val' = Cast(Xor(val, BIT(n)), width) /\ last' = <<"toggle", n>>
    BY <1>8, Zenon DEF TOGGLEBIT, Change
  <2>2. last'[1] = "toggle" /\ last'[2] = n BY <2>1
  <2>3. last'[1] \notin {"left", "right"} /\ last'[1] # "insert" BY <2>2
  <2>4. TESTBIT(val', n) = ~TESTBIT(val, n) BY <1>4, <1>5, <2>1, Zenon
  <2>5. (CASE last'[1] = "set" -> TRUE [] last'[1] = "clear" -> FALSE
           [] OTHER -> ~TESTBIT(val, last'[2])) = ~TESTBIT(val, n) BY <2>2
  <2> QED BY <2>2, <2>3, <2>4, <2>5, Zenon DEF FieldMoved
<1> QED BY <1>6, <1>7, <1>8

\* A rotation is undone by the opposite one, a field inserted is read back, a
\* bit reads as it was set, cleared or toggled.
THEOREM FieldsKept == BitSpec => FieldsMove
<1>1. BitWord /\ [BitNext]_bitVars => [FieldMoved]_bitVars
  <2> SUFFICES ASSUME BitWord, BitNext PROVE FieldMoved BY Zenon
  <2>1. CASE \E n \in Positions : SETBIT(n) \/ CLEARBIT(n) \/ TOGGLEBIT(n)
    BY <2>1, SetMoves, BitAssumption
  <2>2. CASE \E k \in Shifts : RotateLeft(k) \/ RotateRight(k)
    BY <2>2, RotateMoves, BitAssumption
  <2>3. CASE \E start, length \in Shifts, b \in {{0}, {0, 2, 7}, Ones(32)} :
               INSERTBITS(b, start, length)
    <3>1. PICK start \in Shifts, length \in Shifts, b \in {{0}, {0, 2, 7}, Ones(32)} :
            INSERTBITS(b, start, length) BY <2>3
    <3>2. b \in SUBSET Nat BY DEF Ones
    <3>3. start \in Nat /\ length \in Nat BY BitAssumption
    <3> QED BY <3>1, <3>2, <3>3, InsertMoves
  <2> QED BY <2>1, <2>2, <2>3, Zenon DEF BitNext
<1> QED BY <1>1, BitWordKept, PTL DEF BitSpec, FieldsMove

----------------------------------------------------------------------------
(* Descriptor sets                                                         *)

\* The words of FdSet are those of BitOps.
LEMMA BitWords ==
  ASSUME NEW x, NEW y, NEW w, NEW k
  PROVE  /\ Bit!Ones(w) = Ones(w) /\ Bit!Not(x, w) = Not(x, w) /\ Bit!Xor(x, y) = Xor(x, y)
         /\ Bit!Shl(x, k, w) = Shl(x, k, w) /\ Bit!Shr(x, k) = Shr(x, k)
         /\ Bit!Cast(x, w) = Cast(x, w) /\ Bit!Repeat(y, w) = Repeat(y, w)
         /\ Bit!Plus(x, y, w) = Plus(x, y, w)
BY Zenon DEF Bit!Ones, Ones, Bit!Not, Not, Bit!Xor, Xor, Bit!Shl, Shl, Bit!Shr, Shr,
   Bit!Cast, Cast, Bit!Repeat, Repeat, Bit!Plus, Plus

\* The folded sums of bitcount64 are those of BitOps.
LEMMA BitSums ==
  ASSUME NEW x, NEW y, NEW w
  PROVE  /\ Bit!Neg(x, w) = Neg(x, w) /\ Bit!Minus(x, y, w) = Minus(x, y, w)
         /\ Bit!Times(x, y, w) = Times(x, y, w)
         /\ Bit!Number(x) = Number(x) /\ Bit!Const(x) = Const(x)
<1>1. Bit!Neg(x, w) = Neg(x, w) BY BitWords, Zenon DEF Bit!Neg, Neg
<1>2. Bit!Minus(x, y, w) = Minus(x, y, w)
  BY Zenon DEF Bit!Minus, Minus, Bit!Neg, Neg, Bit!Ones, Ones, Bit!Not, Not, Bit!Xor, Xor, Bit!Plus, Plus
<1>3. Bit!Times(x, y, w) = Times(x, y, w)
  BY Zenon DEF Bit!Times, Times, Bit!Plus, Plus, Bit!Shl, Shl, Bit!Ones, Ones, Bit!Xor, Xor
<1>4. Bit!Number(x) = Number(x) BY Zenon DEF Bit!Number, Number
<1>5. Bit!Const(x) = Const(x) BY Zenon DEF Bit!Const, Const
<1> QED BY <1>1, <1>2, <1>3, <1>4, <1>5

\* bitcount64 is that of BitOps.
LEMMA BitCounts == ASSUME NEW x PROVE Bit!bitcount64(x) = bitcount64(x)
<1>1. ASSUME NEW w PROVE Bit!Swar(x, w) = Swar(x, w)
  BY Zenon
  DEF Bit!Swar, Swar, Bit!Minus, Minus, Bit!Neg, Neg, Bit!Not, Not, Bit!Ones, Ones, Bit!Xor, Xor,
      Bit!Plus, Plus, Bit!Times, Times, Bit!Shl, Shl, Bit!Shr, Shr, Bit!Repeat, Repeat, Bit!Number, Number
<1> QED BY <1>1, Zenon DEF Bit!bitcount64, bitcount64

\* ctz64 is that of BitOps.
LEMMA BitFinds == ASSUME NEW x PROVE Bit!ctz64(x) = ctz64(x)
<1>1. Bit!CtzTable = CtzTable BY DEF Bit!CtzTable, CtzTable
<1>2. ASSUME NEW y PROVE Bit!ctz32(y) = ctz32(y)
  BY <1>1, BitWords, BitSums, SMT DEF Bit!ctz32, ctz32
<1> QED BY <1>2, BitWords, Zenon DEF Bit!ctz64, ctz64

Descriptors == 0 .. FDSETWORDS * 64 - 1

\* The words of the array m have a bit for each member of S.
Stands(m, S) ==
  /\ m \in [WordNumbers -> Word(64)] /\ S \in SUBSET Descriptors
  /\ \A w \in WordNumbers, b \in 0 .. 63 : b \in m[w] <=> 64 * w + b \in S

\* A descriptor has a word and a bit, and no other has both.
LEMMA FdPlace ==
  ASSUME NEW f \in Descriptors
  PROVE  \E q \in WordNumbers, r \in 0 .. 63 :
           /\ q = f \div 64 /\ r = f % 64 /\ f = 64 * q + r
           /\ \A w \in WordNumbers, b \in 0 .. 63 : 64 * w + b = f <=> w = q /\ b = r
<1>1. FDSETWORDS \in Nat BY FdAssumption
<1>2. f \in Nat /\ f < FDSETWORDS * 64 BY <1>1 DEF Descriptors
<1>3. PICK q : q = f \div 64 OBVIOUS
<1>4. PICK r : r = f % 64 OBVIOUS
<1>5. q \in Nat /\ r \in 0 .. 63 /\ f = 64 * q + r BY <1>2, <1>3, <1>4
<1>6. q <= FDSETWORDS - 1 BY <1>1, <1>2, <1>5
<1>7. q \in WordNumbers BY <1>1, <1>5, <1>6 DEF WordNumbers
<1>8. \A w \in WordNumbers, b \in 0 .. 63 : 64 * w + b = f <=> w = q /\ b = r
  BY <1>1, <1>5 DEF WordNumbers
<1> QED BY <1>3, <1>4, <1>5, <1>7, <1>8, Zenon

\* The two sets have different names.
LEMMA FdNames ==
  /\ FDSETWORDS \in Nat /\ WordNumbers \in SUBSET Nat /\ Fds \subseteq Descriptors /\ Descriptors \in SUBSET Nat
  /\ \A w \in WordNumbers, b \in 0 .. 63 : 64 * w + b \in Descriptors
BY FdAssumption DEF Descriptors, WordNumbers, NFDBITS

\* BK_FD_ZERO: no word has a bit.
LEMMA FdEmpty == Stands([i \in WordNumbers |-> {}], {})
<1>1. {} \in Word(64) BY DEF Word
<1> QED BY <1>1 DEF Stands

\* BK_FD_SET: the words with one bit more stand for the set with it.
LEMMA FdAdd ==
  ASSUME NEW m, NEW S, Stands(m, S), NEW fd \in Fds
  PROVE  Stands([m EXCEPT ![WordOf(fd)] = @ \union BitOf(fd)], S \union {fd})
<1>1. fd \in Descriptors BY FdNames
<1>2. PICK q \in WordNumbers, r \in 0 .. 63 :
        /\ q = fd \div 64 /\ r = fd % 64 /\ fd = 64 * q + r
        /\ \A w \in WordNumbers, b \in 0 .. 63 : 64 * w + b = fd <=> w = q /\ b = r
  BY <1>1, FdPlace, Zenon
<1>3. WordOf(fd) = q /\ BitOf(fd) = {r} BY <1>2, Zenon DEF WordOf, BitOf, NFDBITS
<1> DEFINE m2 == [m EXCEPT ![q] = @ \union {r}]
<1>4. /\ m \in [WordNumbers -> Word(64)] /\ S \in SUBSET Descriptors
      /\ \A w \in WordNumbers, b \in 0 .. 63 : b \in m[w] <=> 64 * w + b \in S
  BY DEF Stands
<1>5. m[q] \union {r} \in Word(64) BY <1>4 DEF Word
<1>6. m2 \in [WordNumbers -> Word(64)] BY <1>4, <1>5
<1>7. \A w \in WordNumbers : m2[w] = IF w = q THEN m[q] \union {r} ELSE m[w] BY <1>4
<1>8. ASSUME NEW w \in WordNumbers, NEW b \in 0 .. 63
      PROVE  b \in m2[w] <=> b \in m[w] \/ (w = q /\ b = r)
  <2>1. CASE w = q
    <3>1. m2[w] = m[w] \union {r} BY <1>7, <2>1, Zenon
    <3> QED BY <2>1, <3>1, Zenon
  <2>2. CASE w # q
    <3>1. m2[w] = m[w] BY <1>7, <2>2, Zenon
    <3> QED BY <2>2, <3>1, Zenon
  <2> QED BY <2>1, <2>2
<1> HIDE DEF m2
<1>9. \A w \in WordNumbers, b \in 0 .. 63 : b \in m2[w] <=> 64 * w + b \in S \union {fd}
  BY <1>2, <1>4, <1>8, Zenon
<1>10. S \union {fd} \in SUBSET Descriptors BY <1>1, <1>4
<1>11. Stands(m2, S \union {fd}) BY <1>6, <1>9, <1>10, Zenon DEF Stands
<1> QED BY <1>3, <1>11, Zenon DEF m2

\* BK_FD_CLR: the words with one bit less stand for the set without it.
LEMMA FdTakeOut ==
  ASSUME NEW m, NEW S, Stands(m, S), NEW fd \in Fds
  PROVE  Stands([m EXCEPT ![WordOf(fd)] = @ \ BitOf(fd)], S \ {fd})
<1>1. fd \in Descriptors BY FdNames
<1>2. PICK q \in WordNumbers, r \in 0 .. 63 :
        /\ q = fd \div 64 /\ r = fd % 64 /\ fd = 64 * q + r
        /\ \A w \in WordNumbers, b \in 0 .. 63 : 64 * w + b = fd <=> w = q /\ b = r
  BY <1>1, FdPlace, Zenon
<1>3. WordOf(fd) = q /\ BitOf(fd) = {r} BY <1>2, Zenon DEF WordOf, BitOf, NFDBITS
<1> DEFINE m2 == [m EXCEPT ![q] = @ \ {r}]
<1>4. /\ m \in [WordNumbers -> Word(64)] /\ S \in SUBSET Descriptors
      /\ \A w \in WordNumbers, b \in 0 .. 63 : b \in m[w] <=> 64 * w + b \in S
  BY DEF Stands
<1>5. m[q] \ {r} \in Word(64) BY <1>4 DEF Word
<1>6. m2 \in [WordNumbers -> Word(64)] BY <1>4, <1>5
<1>7. \A w \in WordNumbers : m2[w] = IF w = q THEN m[q] \ {r} ELSE m[w] BY <1>4
<1>8. ASSUME NEW w \in WordNumbers, NEW b \in 0 .. 63
      PROVE  b \in m2[w] <=> b \in m[w] /\ ~(w = q /\ b = r)
  <2>1. CASE w = q
    <3>1. m2[w] = m[w] \ {r} BY <1>7, <2>1, Zenon
    <3> QED BY <2>1, <3>1, Zenon
  <2>2. CASE w # q
    <3>1. m2[w] = m[w] BY <1>7, <2>2, Zenon
    <3> QED BY <2>2, <3>1, Zenon
  <2> QED BY <2>1, <2>2
<1> HIDE DEF m2
<1>9. \A w \in WordNumbers, b \in 0 .. 63 : b \in m2[w] <=> 64 * w + b \in S \ {fd}
  BY <1>2, <1>4, <1>8, Zenon
<1>10. S \ {fd} \in SUBSET Descriptors BY <1>4
<1>11. Stands(m2, S \ {fd}) BY <1>6, <1>9, <1>10, Zenon DEF Stands
<1> QED BY <1>3, <1>11, Zenon DEF m2

\* BK_FD_OR, BK_FD_AND and BK_FD_XOR, word by word.
LEMMA FdCombine ==
  ASSUME NEW m, NEW S, NEW n, NEW T, Stands(m, S), Stands(n, T)
  PROVE  /\ Stands([i \in WordNumbers |-> m[i] \union n[i]], S \union T)
         /\ Stands([i \in WordNumbers |-> m[i] \intersect n[i]], S \intersect T)
         /\ Stands([i \in WordNumbers |-> Bit!Xor(m[i], n[i])], (S \ T) \union (T \ S))
<1>1. \A i \in WordNumbers : /\ m[i] \union n[i] \in Word(64) /\ m[i] \intersect n[i] \in Word(64)
                             /\ Bit!Xor(m[i], n[i]) = (m[i] \ n[i]) \union (n[i] \ m[i])
                             /\ Bit!Xor(m[i], n[i]) \in Word(64)
  BY DEF Stands, Word, Bit!Xor
<1>2. /\ S \in SUBSET Descriptors /\ T \in SUBSET Descriptors
      /\ \A w \in WordNumbers, b \in 0 .. 63 : b \in m[w] <=> 64 * w + b \in S
      /\ \A w \in WordNumbers, b \in 0 .. 63 : b \in n[w] <=> 64 * w + b \in T
  BY DEF Stands
<1>3. Stands([i \in WordNumbers |-> m[i] \union n[i]], S \union T)
  <2> DEFINE u == [i \in WordNumbers |-> m[i] \union n[i]]
  <2>1. u \in [WordNumbers -> Word(64)] /\ S \union T \in SUBSET Descriptors
    BY <1>1, <1>2
  <2>2. \A w \in WordNumbers : u[w] = m[w] \union n[w] OBVIOUS
  <2> HIDE DEF u
  <2>3. \A w \in WordNumbers, b \in 0 .. 63 : b \in u[w] <=> b \in m[w] \/ b \in n[w]
    BY <2>2
  <2>4. \A w \in WordNumbers, b \in 0 .. 63 : b \in u[w] <=> 64 * w + b \in S \union T
    BY <1>2, <2>3, Zenon
  <2>5. Stands(u, S \union T) BY <2>1, <2>4 DEF Stands
  <2> QED BY <2>5 DEF u
<1>4. Stands([i \in WordNumbers |-> m[i] \intersect n[i]], S \intersect T)
  BY <1>1, <1>2, Zenon DEF Stands
<1>5. Stands([i \in WordNumbers |-> Bit!Xor(m[i], n[i])], (S \ T) \union (T \ S))
  <2> DEFINE u == [i \in WordNumbers |-> Bit!Xor(m[i], n[i])]
  <2>1. u \in [WordNumbers -> Word(64)] /\ (S \ T) \union (T \ S) \in SUBSET Descriptors
    BY <1>1, <1>2
  <2>2. \A w \in WordNumbers : u[w] = (m[w] \ n[w]) \union (n[w] \ m[w]) BY <1>1
  <2> HIDE DEF u
  <2>3. ASSUME NEW w \in WordNumbers, NEW b \in 0 .. 63
        PROVE  b \in u[w] <=> (b \in m[w] /\ ~(b \in n[w])) \/ (b \in n[w] /\ ~(b \in m[w]))
    BY <2>2, Zenon
  <2>4. \A w \in WordNumbers, b \in 0 .. 63 :
          b \in u[w] <=> 64 * w + b \in (S \ T) \union (T \ S)
    BY <1>2, <2>3, Zenon
  <2>5. Stands(u, (S \ T) \union (T \ S)) BY <2>1, <2>4 DEF Stands
  <2> QED BY <2>5 DEF u
<1> QED BY <1>3, <1>4, <1>5

\* ctz64 gives the lowest bit of a word that has one.
LEMMA CtzLeast ==
  ASSUME NEW y \in Word(64), y # {}
  PROVE  \E l \in y : Bit!ctz64(y) = l /\ \A j \in y : l <= j
<1>1. y \in SUBSET Nat BY DEF Word
<1>2. PICK l \in y : \A j \in y : l <= j BY <1>1, LeastOf
<1>3. ctz64(y) = l BY <1>2, Ctz64Is
<1>4. Bit!ctz64(y) = l BY <1>3, BitFinds, Zenon
<1> QED BY <1>2, <1>4

\* BK_FD_NEXT from bit g of word w.
NextFrom(m, w, g) ==
  LET here == m[w] \ (0 .. g - 1)
      later == {i \in WordNumbers : i > w /\ m[i] # {}}
      first == CHOOSE i \in later : \A j \in later : i <= j
  IN IF w >= FDSETWORDS THEN -1
     ELSE IF here # {} THEN w * 64 + Bit!ctz64(here)
     ELSE IF later # {} THEN first * 64 + Bit!ctz64(m[first])
     ELSE -1

\* BK_FD_NEXT gives the least member from start, or -1 if there is none.
LEMMA NextMember ==
  ASSUME NEW s, NEW S, Stands(bits[s], S), NEW start \in Nat
  PROVE  \/ NEXT(s, start) = -1 /\ \A f \in S : f < start
         \/ /\ NEXT(s, start) \in S /\ NEXT(s, start) >= start
            /\ \A f \in S : f >= start => NEXT(s, start) <= f
<1> DEFINE m == bits[s]
<1>1. PICK w \in Nat : w = start \div 64 OBVIOUS
<1>2. PICK g \in 0 .. 63 : g = start % 64 OBVIOUS
<1>3. start = 64 * w + g BY <1>1, <1>2
<1>4. /\ S \in SUBSET Descriptors
      /\ \A i \in WordNumbers : m[i] \in Word(64) /\ m[i] \subseteq 0 .. 63
      /\ \A i \in WordNumbers, b \in 0 .. 63 : b \in m[i] <=> 64 * i + b \in S
  <2>1. /\ m \in [WordNumbers -> Word(64)] /\ S \in SUBSET Descriptors
        /\ \A i \in WordNumbers, b \in 0 .. 63 : b \in m[i] <=> 64 * i + b \in S
    BY DEF Stands
  <2>2. \A i \in WordNumbers : m[i] \in Word(64) BY <2>1, Zenon
  <2>3. \A i \in WordNumbers : m[i] \subseteq 0 .. 63 BY <2>2 DEF Word
  <2> QED BY <2>1, <2>2, <2>3, Zenon
<1> HIDE DEF m
<1> DEFINE here == m[w] \ (0 .. g - 1)
           later == {i \in WordNumbers : i > w /\ m[i] # {}}
           first == CHOOSE i \in later : \A j \in later : i <= j
           n == NEXT(s, start)
<1>5. n = IF w >= FDSETWORDS THEN -1
          ELSE IF here # {} THEN w * 64 + Bit!ctz64(here)
          ELSE IF later # {} THEN first * 64 + Bit!ctz64(m[first])
          ELSE -1
  <2>1. NEXT(s, start) = NextFrom(bits[s], start \div 64, start % 64)
    BY Zenon DEF NEXT, NextFrom, NFDBITS
  <2>2. n = NextFrom(m, w, g) BY <1>1, <1>2, <2>1, Zenon DEF m
  <2> QED BY <2>2, Zenon DEF NextFrom
<1>6. FDSETWORDS \in Nat /\ WordNumbers = 0 .. FDSETWORDS - 1 /\ WordNumbers \in SUBSET Nat
  BY FdNames DEF WordNumbers
\* Every member is a bit of a word.
<1>7. ASSUME NEW f \in S
      PROVE  \E q \in WordNumbers, r \in 0 .. 63 : f = 64 * q + r /\ r \in m[q]
  <2>1. f \in Descriptors BY <1>4
  <2>2. PICK q \in WordNumbers, r \in 0 .. 63 : f = 64 * q + r BY <2>1, FdPlace
  <2>3. r \in m[q] BY <1>4, <2>2, Zenon
  <2> QED BY <2>2, <2>3
<1> HIDE DEF n
<1> SUFFICES (n = -1 /\ \A f \in S : f < start)
             \/ (n \in S /\ n >= start /\ \A f \in S : f >= start => n <= f)
  BY Zenon DEF n
<1>8. CASE w >= FDSETWORDS
  <2>1. n = -1 BY <1>5, <1>8
  <2>2. ASSUME NEW f \in S PROVE f < start
    <3>1. PICK q \in WordNumbers, r \in 0 .. 63 : f = 64 * q + r BY <1>7, Zenon
    <3>2. q < w /\ q \in Nat BY <1>6, <1>8
    <3> QED BY <1>3, <3>1, <3>2
  <2> QED BY <2>1, <2>2
<1>9. CASE w < FDSETWORDS /\ here # {}
  <2>1. w \in WordNumbers /\ ~(w >= FDSETWORDS) BY <1>6, <1>9
  <2>2. here \in Word(64)
    <3>1. m[w] \in SUBSET (0 .. 64 - 1) BY <1>4, <2>1, Zenon DEF Word
    <3> QED BY <3>1, Zenon DEF Word
  <2>3. PICK l \in here : Bit!ctz64(here) = l /\ \A j \in here : l <= j
    <3> HIDE DEF here
    <3> QED BY <1>9, <2>2, CtzLeast
  <2>4. l \in m[w] /\ l \in 0 .. 63 /\ l >= g
    <3>1. l \in m[w] /\ l \notin 0 .. g - 1 BY <2>3
    <3>2. l \in 0 .. 63 BY <1>4, <2>1, <3>1
    <3> QED BY <3>1, <3>2
  <2>5. n = 64 * w + l
    <3>1. n = w * 64 + Bit!ctz64(here) BY <1>5, <1>9, <2>1, Zenon
    <3>2. n = w * 64 + l BY <2>3, <3>1, Zenon
    <3> QED BY <2>4, <3>2
  <2>6. n \in S BY <1>4, <2>1, <2>4, <2>5, Zenon
  <2>7. ASSUME NEW f \in S, f >= start PROVE n <= f
    <3>1. PICK q \in WordNumbers, r \in 0 .. 63 : f = 64 * q + r /\ r \in m[q] BY <1>7, Zenon
    <3>2. q \in Nat BY <1>6
    <3>3. CASE q = w
      <4>1. r >= g BY <1>3, <2>7, <3>1, <3>3
      <4>2. r \notin 0 .. g - 1 BY <4>1
      <4>3. r \in here BY <3>1, <3>3, <4>2, Zenon
      <4>4. l <= r BY <2>3, <4>3, Zenon
      <4> QED BY <2>4, <2>5, <3>1, <3>3, <4>4
    <3>4. CASE q # w
      <4>1. q > w BY <1>3, <2>7, <3>1, <3>2, <3>4
      <4> QED BY <2>4, <2>5, <3>1, <3>2, <4>1
    <3> QED BY <3>3, <3>4
  <2>8. n >= start BY <1>3, <2>4, <2>5
  <2> QED BY <2>6, <2>7, <2>8
<1>10. CASE w < FDSETWORDS /\ here = {}
  <2>1. w \in WordNumbers /\ ~(w >= FDSETWORDS) BY <1>6, <1>10
  \* No member of the first word is that high.
  <2>2. ASSUME NEW f \in S, f >= start
        PROVE  \E q \in later, r \in 0 .. 63 : f = 64 * q + r /\ r \in m[q]
    <3>1. PICK q \in WordNumbers, r \in 0 .. 63 : f = 64 * q + r /\ r \in m[q] BY <1>7, Zenon
    <3>2. q \in Nat BY <1>6
    <3>3. q # w
      <4> SUFFICES ASSUME q = w PROVE FALSE OBVIOUS
      <4>1. r >= g BY <1>3, <2>2, <3>1
      <4>2. r \notin 0 .. g - 1 BY <4>1
      <4>3. r \in here BY <3>1, <4>2, Zenon
      <4> QED BY <1>10, <4>3
    <3>4. q > w BY <1>3, <2>2, <3>1, <3>2, <3>3
    <3>5. m[q] # {} BY <3>1
    <3> QED BY <3>1, <3>4, <3>5
  <2>3. CASE later = {}
    <3>1. n = -1
      <4> HIDE DEF later, here
      <4> QED BY <1>5, <1>10, <2>1, <2>3, Zenon
    <3>2. \A f \in S : ~(f >= start)
      <4> HIDE DEF later
      <4> QED BY <2>2, <2>3
    <3>3. \A f \in S : f \in Nat BY <1>4, FdNames
    <3> QED BY <3>1, <3>2, <3>3
  <2>4. CASE later # {}
    <3>1. later \in SUBSET Nat BY <1>6
    <3>2. first \in later /\ \A j \in later : first <= j
      <4> HIDE DEF later
      <4>1. \E i \in later : \A j \in later : i <= j BY <2>4, <3>1, LeastOf
      <4> QED BY <4>1, Zenon
    <3> HIDE DEF first
    <3>3. first \in WordNumbers /\ first \in Nat /\ first > w /\ m[first] # {}
      BY <1>6, <3>2
    <3>4. PICK l \in m[first] : Bit!ctz64(m[first]) = l /\ \A j \in m[first] : l <= j
      BY <1>4, <3>3, CtzLeast
    <3>5. l \in 0 .. 63 BY <1>4, <3>3, <3>4
    <3>6. n = 64 * first + l
      <4>1. n = first * 64 + Bit!ctz64(m[first])
        <5> HIDE DEF later, here
        <5> QED BY <1>5, <1>10, <2>1, <2>4, Zenon
      <4>2. n = first * 64 + l BY <3>4, <4>1, Zenon
      <4> QED BY <3>3, <3>5, <4>2
    <3>7. n \in S BY <1>4, <3>3, <3>4, <3>5, <3>6, Zenon
    <3>8. n >= start BY <1>3, <3>3, <3>5, <3>6
    <3>9. ASSUME NEW f \in S, f >= start PROVE n <= f
      <4>1. PICK q \in later, r \in 0 .. 63 : f = 64 * q + r /\ r \in m[q]
        <5> HIDE DEF later
        <5> QED BY <2>2, <3>9
      <4>2. q \in Nat /\ first <= q BY <3>1, <3>2, <4>1
      <4>3. q = first => l <= r BY <3>4, <4>1
      <4> QED BY <3>3, <3>5, <3>6, <4>1, <4>2, <4>3
    <3> QED BY <3>7, <3>8, <3>9
  <2> QED BY <2>3, <2>4
<1> QED BY <1>6, <1>8, <1>9, <1>10

\* The count of a word is the number of its bits.
LEMMA WordCounts ==
  ASSUME NEW y \in Word(64)
  PROVE  Bit!bitcount64(y) = OnesBelow(y, 64)
<1>1. PICK w \in Nat : w = 64 OBVIOUS
<1>2. 8 \in 1 .. 31 /\ w = 8 * 8 /\ y \in Word(w) BY <1>1
<1>3. Swar(y, w) = Cardinality(y) BY <1>2, SwarCounts
<1>4. Bit!bitcount64(y) = Swar(y, w) BY <1>1, BitCounts, Zenon DEF bitcount64
<1>5. y \cap 0 .. 64 - 1 = y BY DEF Word
<1> QED BY <1>3, <1>4, <1>5, Zenon DEF OnesBelow

\* BK_FD_COUNT gives the number of members.
LEMMA CountIs ==
  ASSUME NEW s, NEW S, Stands(bits[s], S)
  PROVE  COUNT(s) = Cardinality(S)
<1> DEFINE m == bits[s]
           N == FDSETWORDS
<1>1. N \in Nat /\ WordNumbers = 0 .. N - 1 BY FdNames DEF WordNumbers
<1>2. /\ S \in SUBSET Descriptors /\ S \in SUBSET Nat
      /\ \A i \in WordNumbers : m[i] \in Word(64) /\ m[i] \in SUBSET Nat
      /\ \A i \in WordNumbers, b \in 0 .. 63 : b \in m[i] <=> 64 * i + b \in S
  <2>1. /\ m \in [WordNumbers -> Word(64)] /\ S \in SUBSET Descriptors
        /\ \A i \in WordNumbers, b \in 0 .. 63 : b \in m[i] <=> 64 * i + b \in S
    BY DEF Stands
  <2>2. \A i \in WordNumbers : m[i] \in Word(64) BY <2>1, Zenon
  <2>3. \A i \in WordNumbers : m[i] \in SUBSET Nat BY <2>2 DEF Word
  <2>4. S \in SUBSET Nat BY <2>1, FdNames
  <2> QED BY <2>1, <2>2, <2>3, <2>4, Zenon
<1> HIDE DEF m
\* The members below a word and its ones make the members below the next one.
<1>3. ASSUME NEW i \in 0 .. N - 1
      PROVE  OnesBelow(S, 64 * (i + 1)) = OnesBelow(S, 64 * i) + Bit!bitcount64(m[i])
  <2>0. i \in Nat /\ 64 * i \in Nat BY <1>1
  <2>1. PICK y : y = m[i] OBVIOUS
  <2>2. y \in Word(64) /\ y \in SUBSET Nat /\ \A b \in 0 .. 63 : b \in y <=> 64 * i + b \in S
    BY <1>1, <1>2, <2>1, Zenon
  <2> DEFINE R == {b \in 0 .. 64 : OnesBelow(S, 64 * i + b) = OnesBelow(S, 64 * i) + OnesBelow(y, b)}
  <2>3. 0 \in R
    <3>1. OnesBelow(S, 64 * i) \in Nat BY <1>2, <2>0, OnesStep
    <3>2. OnesBelow(y, 0) = 0 BY <2>2, OnesStep
    <3>3. 64 * i + 0 = 64 * i OBVIOUS
    <3>4. OnesBelow(S, 64 * i + 0) = OnesBelow(S, 64 * i) BY <3>3, Zenon
    <3> QED BY <3>1, <3>2, <3>4
  <2>4. ASSUME NEW b \in 0 .. 63, b \in R PROVE b + 1 \in R
    <3>1. PICK c \in Nat : c = 64 * i + b OBVIOUS
    <3>2. OnesBelow(S, c + 1) = OnesBelow(S, c) + Digit(S, c) BY <1>2, <3>1, OnesStep
    <3>3. OnesBelow(y, b + 1) = OnesBelow(y, b) + Digit(y, b) /\ OnesBelow(y, b) \in Nat
      <4>1. b \in Nat /\ y \in SUBSET Nat BY <2>2
      <4> QED BY <4>1, OnesStep
    <3>4. Digit(S, c) = Digit(y, b) /\ Digit(y, b) \in {0, 1}
      BY <2>2, <3>1, Zenon, DigitIs DEF Digit
    <3>5. OnesBelow(S, 64 * i) \in Nat BY <1>2, <2>0, OnesStep
    <3>6. OnesBelow(S, c) = OnesBelow(S, 64 * i) + OnesBelow(y, b) BY <2>4, <3>1, Zenon
    <3>7. OnesBelow(S, c + 1) = OnesBelow(S, 64 * i) + OnesBelow(y, b + 1)
      BY <3>2, <3>3, <3>4, <3>5, <3>6
    <3>8. c + 1 = 64 * i + (b + 1) /\ b + 1 \in 0 .. 64 BY <3>1
    <3> QED BY <3>7, <3>8, Zenon
  <2>5. 0 .. 64 \subseteq R
    <3>1. \A b \in 0 .. 64 - 1 : b \in R => b + 1 \in R BY <2>4
    <3> HIDE DEF R
    <3> QED BY <2>3, <3>1, Upwards
  <2>6. OnesBelow(S, 64 * i + 64) = OnesBelow(S, 64 * i) + OnesBelow(y, 64) BY <2>5
  <2>7. 64 * i + 64 = 64 * (i + 1) OBVIOUS
  <2>8. Bit!bitcount64(y) = OnesBelow(y, 64) BY <2>2, WordCounts
  <2>9. OnesBelow(S, 64 * (i + 1)) = OnesBelow(S, 64 * i) + OnesBelow(y, 64)
    BY <2>6, <2>7, Zenon
  <2> QED BY <2>1, <2>8, <2>9, Zenon
<1> DEFINE Is(g) == g = [i \in 0 .. N |-> IF i = 0 THEN 0 ELSE g[i - 1] + Bit!bitcount64(m[i - 1])]
           h == [i \in 0 .. N |-> OnesBelow(S, 64 * i)]
           upTo == CHOOSE g : Is(g)
<1>4. OnesBelow(S, 0) = 0 BY <1>2, OnesStep
<1>5. Is(h)
  <2> DEFINE k == [i \in 0 .. N |-> IF i = 0 THEN 0 ELSE h[i - 1] + Bit!bitcount64(m[i - 1])]
  <2>1. ASSUME NEW i \in 0 .. N
        PROVE  OnesBelow(S, 64 * i) = IF i = 0 THEN 0 ELSE h[i - 1] + Bit!bitcount64(m[i - 1])
    <3>1. CASE i = 0
      <4>1. 64 * i = 0 BY <3>1
      <4> QED BY <1>4, <3>1, <4>1, Zenon
    <3>2. CASE i # 0
      <4>1. PICK j \in 0 .. N - 1 : j = i - 1 /\ j + 1 = i BY <1>1, <3>2
      <4>2. h[j] = OnesBelow(S, 64 * j) BY <1>1, <4>1
      <4>3. OnesBelow(S, 64 * (j + 1)) = OnesBelow(S, 64 * j) + Bit!bitcount64(m[j]) BY <1>3
      <4> HIDE DEF h
      <4> QED BY <3>2, <4>1, <4>2, <4>3, Zenon
    <3> QED BY <3>1, <3>2, Zenon
  <2>2. h = k BY <2>1, Zenon
  <2> QED BY <2>2, Zenon
<1>6. Is(upTo)
  <2> HIDE DEF Is, h
  <2> QED BY <1>5, Zenon
<1>7. COUNT(s) = upTo[N] BY Zenon DEF COUNT, m
<1> HIDE DEF upTo
<1>8. 0 .. N \subseteq {i \in 0 .. N : upTo[i] = OnesBelow(S, 64 * i)}
  <2> DEFINE R == {i \in 0 .. N : upTo[i] = OnesBelow(S, 64 * i)}
  <2>0. \A i \in 0 .. N : upTo[i] = IF i = 0 THEN 0 ELSE upTo[i - 1] + Bit!bitcount64(m[i - 1])
    BY <1>6, Zenon
  <2>1. 0 \in R
    <3>1. 0 \in 0 .. N /\ 64 * 0 = 0 BY <1>1
    <3> QED BY <1>4, <2>0, <3>1, Zenon
  <2>2. ASSUME NEW i \in 0 .. N - 1, i \in R PROVE i + 1 \in R
    <3>1. PICK j \in 0 .. N : j = i + 1 /\ j # 0 /\ j - 1 = i BY <1>1
    <3>2. upTo[j] = upTo[i] + Bit!bitcount64(m[i]) BY <2>0, <3>1, Zenon
    <3>3. upTo[i] = OnesBelow(S, 64 * i) BY <2>2, Zenon
    <3>4. upTo[j] = OnesBelow(S, 64 * (i + 1)) BY <1>3, <3>2, <3>3, Zenon
    <3> QED BY <3>1, <3>4, Zenon
  <2> HIDE DEF R
  <2>3. 0 .. N \subseteq R BY <1>1, <2>1, <2>2, Upwards
  <2> QED BY <2>3 DEF R
<1>9. upTo[N] = OnesBelow(S, 64 * N) BY <1>1, <1>8
<1>10. S \cap 0 .. 64 * N - 1 = S
  <2>1. Descriptors = 0 .. 64 * N - 1
    <3>1. N * 64 = 64 * N BY <1>1
    <3> QED BY <3>1, Zenon DEF Descriptors
  <2> QED BY <1>2, <2>1, Zenon
<1> QED BY <1>7, <1>9, <1>10, Zenon DEF OnesBelow

\* BK_FD_EQUAL compares the sets.
LEMMA EqualIs ==
  ASSUME NEW s, NEW t, NEW S, NEW T, Stands(bits[s], S), Stands(bits[t], T)
  PROVE  /\ Told!BK_BOOL_IS_TRUE(EQUAL(s, t)) <=> S = T
         /\ Told!Holds(EQUAL(s, t))
<1>1. (\A i \in WordNumbers : bits[s][i] = bits[t][i]) <=> S = T
  <2>1. /\ S \in SUBSET Descriptors /\ T \in SUBSET Descriptors
        /\ bits[s] \in [WordNumbers -> Word(64)] /\ bits[t] \in [WordNumbers -> Word(64)]
        /\ \A i \in WordNumbers, b \in 0 .. 63 : b \in bits[s][i] <=> 64 * i + b \in S
        /\ \A i \in WordNumbers, b \in 0 .. 63 : b \in bits[t][i] <=> 64 * i + b \in T
    BY DEF Stands
  <2>2. \A f \in Descriptors : \E q \in WordNumbers, r \in 0 .. 63 : f = 64 * q + r
    BY FdPlace, Zenon
  <2>3. ASSUME \A i \in WordNumbers : bits[s][i] = bits[t][i] PROVE S = T
    <3>1. ASSUME NEW f \in Descriptors PROVE f \in S <=> f \in T
      <4>1. PICK q \in WordNumbers, r \in 0 .. 63 : f = 64 * q + r BY <2>2, Zenon
      <4>2. r \in bits[s][q] <=> r \in bits[t][q] BY <2>3, Zenon
      <4> QED BY <2>1, <4>1, <4>2, Zenon
    <3> QED BY <2>1, <3>1
  <2>4. ASSUME S = T, NEW i \in WordNumbers PROVE bits[s][i] = bits[t][i]
    <3>1. bits[s][i] \subseteq 0 .. 63 /\ bits[t][i] \subseteq 0 .. 63
      <4>1. bits[s][i] \in Word(64) /\ bits[t][i] \in Word(64) BY <2>1, Zenon
      <4> QED BY <4>1 DEF Word
    <3>2. \A b \in 0 .. 63 : b \in bits[s][i] <=> b \in bits[t][i] BY <2>1, <2>4, Zenon
    <3> QED BY <3>1, <3>2, Zenon
  <2> QED BY <2>3, <2>4
<1>2. Told!BK_TRUE # Told!BK_FALSE /\ Told!BK_TRUE # {} /\ Told!BK_FALSE # {}
  <2>1. 0 \in {0, 48} /\ 0 \notin {48} /\ 48 \in {48} OBVIOUS
  <2>2. 0 \in Told!BK_TRUE /\ 0 \notin Told!BK_FALSE /\ 48 \in Told!BK_FALSE
    BY <2>1, Zenon DEF Told!BK_TRUE, Told!BK_FALSE
  <2> QED BY <2>2, Zenon
<1> QED BY <1>1, <1>2, Zenon DEF EQUAL, Told!BK_BOOL_FROM, Told!BK_BOOL_IS_TRUE, Told!Holds

\* Each array stands for its set; of the members a has had since the walk began,
\* those up to the cursor were met.
FdInv ==
  /\ bits \in [Names -> [WordNumbers -> Word(64)]] /\ fds \in [Names -> SUBSET Descriptors]
  /\ \A s \in Names : Stands(bits[s], fds[s])
  /\ cursor \in {-1} \union Descriptors
  /\ present \subseteq fds["a"]
  /\ \A f \in present : f <= cursor => f \in seen

\* A change of one set that keeps its words right keeps the invariant.
LEMMA FdUpdate ==
  ASSUME FdInv, NEW s \in Names, NEW new, NEW set, Stands(new, set), Update(s, new, set)
  PROVE  FdInv'
<1>1. /\ bits \in [Names -> [WordNumbers -> Word(64)]] /\ fds \in [Names -> SUBSET Descriptors]
      /\ \A t \in Names : Stands(bits[t], fds[t])
      /\ present \subseteq fds["a"]
      /\ cursor \in {-1} \union Descriptors
      /\ \A f \in present : f <= cursor => f \in seen
  BY Zenon DEF FdInv
<1>2. /\ bits' = [bits EXCEPT ![s] = new] /\ fds' = [fds EXCEPT ![s] = set]
      /\ present' = IF s = "a" THEN present \intersect set ELSE present
      /\ cursor' = cursor /\ seen' = seen
  BY Zenon DEF Update
<1>3. new \in [WordNumbers -> Word(64)] /\ set \in SUBSET Descriptors BY Zenon DEF Stands
<1>4. bits' \in [Names -> [WordNumbers -> Word(64)]] /\ fds' \in [Names -> SUBSET Descriptors]
  BY <1>1, <1>2, <1>3
<1>5. \A t \in Names : /\ bits'[t] = IF t = s THEN new ELSE bits[t]
                       /\ fds'[t] = IF t = s THEN set ELSE fds[t]
  BY <1>1, <1>2
<1>6. ASSUME NEW t \in Names PROVE Stands(bits'[t], fds'[t])
  BY <1>1, <1>5, Zenon
<1>7. present' \subseteq fds'["a"]
  <2>1. "a" \in Names BY DEF Names
  <2>2. CASE s = "a"
    <3>1. fds'["a"] = set /\ present' = present \intersect set BY <1>2, <1>5, <2>1, <2>2, Zenon
    <3> QED BY <3>1
  <2>3. CASE s # "a"
    <3>1. fds'["a"] = fds["a"] /\ present' = present BY <1>2, <1>5, <2>1, <2>3, Zenon
    <3> QED BY <1>1, <3>1
  <2> QED BY <2>2, <2>3
<1>8. present' \subseteq present BY <1>2
<1>9. \A f \in present' : f <= cursor' => f \in seen' BY <1>1, <1>2, <1>8, Zenon
<1>10. cursor' \in {-1} \union Descriptors BY <1>1, <1>2, Zenon
<1>11. \A t \in Names : Stands(bits'[t], fds'[t]) BY <1>6
<1> QED BY <1>4, <1>7, <1>9, <1>10, <1>11, Zenon DEF FdInv, Stands, WordNumbers, Descriptors

\* Adding and taking out keep the invariant.
LEMMA FdChanges ==
  ASSUME FdInv, NEW s \in Names, NEW fd \in Fds, SET(fd, s) \/ CLR(fd, s)
  PROVE  FdInv'
<1>1. Stands(bits[s], fds[s]) BY Zenon DEF FdInv
<1>2. CASE SET(fd, s) BY <1>1, <1>2, FdAdd, FdUpdate, Zenon DEF SET
<1>3. CASE CLR(fd, s) BY <1>1, <1>3, FdTakeOut, FdUpdate, Zenon DEF CLR
<1> QED BY <1>2, <1>3

\* Copying and combining keep the invariant.
LEMMA FdMixes ==
  ASSUME FdInv, NEW s \in Names, NEW t \in Names,
         COPY(t, s) \/ OR(s, t) \/ AND(s, t) \/ XOR(s, t)
  PROVE  FdInv'
<1>1. Stands(bits[s], fds[s]) /\ Stands(bits[t], fds[t]) BY Zenon DEF FdInv
<1>2. CASE COPY(t, s) BY <1>1, <1>2, FdUpdate, Zenon DEF COPY
<1> DEFINE m == bits[s]
           k == bits[t]
           S == fds[s]
           T == fds[t]
<1>6. /\ Stands([i \in WordNumbers |-> m[i] \union k[i]], S \union T)
      /\ Stands([i \in WordNumbers |-> m[i] \intersect k[i]], S \intersect T)
      /\ Stands([i \in WordNumbers |-> Bit!Xor(m[i], k[i])], (S \ T) \union (T \ S))
  <2>1. Stands(m, S) /\ Stands(k, T) BY <1>1
  <2> HIDE DEF m, k, S, T
  <2> QED BY <2>1, FdCombine
<1>3. CASE OR(s, t) BY <1>3, <1>6, FdUpdate, Zenon DEF OR
<1>4. CASE AND(s, t) BY <1>4, <1>6, FdUpdate, Zenon DEF AND
<1>5. CASE XOR(s, t) BY <1>5, <1>6, FdUpdate, Zenon DEF XOR
<1> QED BY <1>2, <1>3, <1>4, <1>5

\* The cursor is a descriptor or -1.
LEMMA FdCursor ==
  ASSUME FdInv
  PROVE  /\ cursor \in Int /\ cursor + 1 \in Nat /\ Stands(bits["a"], fds["a"])
         /\ fds["a"] \in SUBSET Descriptors /\ Descriptors \in SUBSET Nat
         /\ present \subseteq fds["a"] /\ \A f \in present : f <= cursor => f \in seen
<1>1. "a" \in Names BY DEF Names
<1>2. cursor \in {-1} \union Descriptors /\ Stands(bits["a"], fds["a"])
      /\ present \subseteq fds["a"] /\ \A f \in present : f <= cursor => f \in seen
  BY <1>1, Zenon DEF FdInv
<1>3. Descriptors \in SUBSET Nat BY FdNames
<1>4. cursor \in Int /\ cursor + 1 \in Nat BY <1>2, <1>3
<1>5. fds["a"] \in SUBSET Descriptors BY <1>2, Zenon DEF Stands
<1> QED BY <1>2, <1>3, <1>4, <1>5

\* What the invariant says of the next turn of a walk.
LEMMA FdWalks == ASSUME FdInv PROVE WalkComplete
<1> DEFINE S == fds["a"]
           n == NEXT("a", cursor + 1)
<1>1. /\ cursor \in Int /\ cursor + 1 \in Nat /\ Stands(bits["a"], S) /\ S \in SUBSET Nat
      /\ present \subseteq S /\ \A f \in present : f <= cursor => f \in seen
  BY FdCursor
<1>2. \/ n = -1 /\ \A f \in S : f < cursor + 1
      \/ n \in S /\ n >= cursor + 1 /\ \A f \in S : f >= cursor + 1 => n <= f
  BY <1>1, NextMember
<1> HIDE DEF n, S
<1>3. n # -1 => n \in S /\ n > cursor
  <2> SUFFICES ASSUME n # -1 PROVE n \in S /\ n > cursor OBVIOUS
  <2>1. n \in S /\ n >= cursor + 1 BY <1>2
  <2>2. n \in Nat BY <1>1, <2>1
  <2> QED BY <1>1, <2>1, <2>2
<1>4. n = -1 => present \subseteq seen
  <2> SUFFICES ASSUME n = -1, NEW f \in present PROVE f \in seen OBVIOUS
  <2>1. f \in S /\ f \in Nat BY <1>1
  <2>2. f < cursor + 1 BY <1>1, <1>2, <2>1
  <2>3. f <= cursor BY <1>1, <2>1, <2>2
  <2> QED BY <1>1, <2>3
<1> QED BY <1>3, <1>4, Zenon DEF WalkComplete, n, S

\* A turn of the walk keeps the invariant.
LEMMA FdScans == ASSUME FdInv, Scan \/ ScanEnd PROVE FdInv'
<1> DEFINE S == fds["a"]
           n == NEXT("a", cursor + 1)
<1>1. /\ cursor \in Int /\ cursor + 1 \in Nat /\ Stands(bits["a"], S)
      /\ S \in SUBSET Descriptors /\ S \in SUBSET Nat
      /\ present \subseteq S /\ \A f \in present : f <= cursor => f \in seen
  BY FdCursor
<1>2. \/ n = -1 /\ \A f \in S : f < cursor + 1
      \/ n \in S /\ n >= cursor + 1 /\ \A f \in S : f >= cursor + 1 => n <= f
  BY <1>1, NextMember
<1>3. bits' = bits /\ fds' = fds BY Zenon DEF Scan, ScanEnd
<1>4. /\ bits \in [Names -> [WordNumbers -> Word(64)]] /\ fds \in [Names -> SUBSET Descriptors]
      /\ \A s \in Names : Stands(bits[s], fds[s])
  BY Zenon DEF FdInv
<1>5. /\ bits' \in [Names -> [WordNumbers -> Word(64)]] /\ fds' \in [Names -> SUBSET Descriptors]
      /\ \A s \in Names : Stands(bits'[s], fds'[s])
  BY <1>3, <1>4, Zenon
<1>6. CASE Scan
  <2>1. n >= 0 /\ cursor' = n /\ seen' = seen \union {n} /\ present' = present
    BY <1>6, Zenon DEF Scan
  <2> HIDE DEF n, S
  <2>2. n \in S /\ n >= cursor + 1 /\ \A f \in S : f >= cursor + 1 => n <= f BY <1>2, <2>1
  <2>3. ASSUME NEW f \in present, f <= n PROVE f \in seen \union {n}
    <3>1. f \in S /\ f \in Nat /\ n \in Nat BY <1>1, <2>2
    <3>2. CASE f <= cursor BY <1>1, <3>2
    <3>3. CASE ~(f <= cursor)
      <4>1. f >= cursor + 1 BY <1>1, <3>1, <3>3
      <4>2. n <= f BY <2>2, <3>1, <4>1
      <4>3. f = n BY <2>3, <3>1, <4>2
      <4> QED BY <4>3
    <3> QED BY <3>2, <3>3
  <2>4. cursor' \in {-1} \union Descriptors BY <1>1, <2>1, <2>2
  <2>5. present' \subseteq fds'["a"] BY <1>1, <1>3, <2>1, Zenon DEF S
  <2>6. \A f \in present' : f <= cursor' => f \in seen' BY <2>1, <2>3, Zenon
  <2> QED BY <1>5, <2>4, <2>5, <2>6, Zenon DEF FdInv, Stands, WordNumbers, Descriptors
<1>7. CASE ScanEnd
  <2>1. cursor' = -1 /\ seen' = {} /\ present' = fds["a"] BY <1>7, Zenon DEF ScanEnd
  <2>2. \A f \in present' : ~(f <= cursor')
    <3>1. \A f \in S : f \in Nat BY <1>1
    <3> HIDE DEF S, n
    <3>2. \A f \in S : ~(f <= -1) BY <3>1
    <3> QED BY <2>1, <3>2, Zenon DEF S
  <2>3. present' \subseteq fds'["a"] BY <1>3, <2>1, Zenon
  <2>4. cursor' \in {-1} \union Descriptors BY <2>1
  <2> QED BY <1>5, <2>2, <2>3, <2>4, Zenon DEF FdInv, Stands, WordNumbers, Descriptors
<1> QED BY <1>6, <1>7

\* Empty sets, and no walk under way.
LEMMA FdStarts == FdInit => FdInv
<1> SUFFICES ASSUME FdInit PROVE FdInv OBVIOUS
<1>1. /\ bits = [s \in Names |-> [i \in WordNumbers |-> {}]] /\ fds = [s \in Names |-> {}]
      /\ cursor = -1 /\ present = {}
  BY DEF FdInit
<1>2. Stands([i \in WordNumbers |-> {}], {}) BY FdEmpty
<1>3. [i \in WordNumbers |-> {}] \in [WordNumbers -> Word(64)] BY <1>2, Zenon DEF Stands
<1>4. bits \in [Names -> [WordNumbers -> Word(64)]] /\ fds \in [Names -> SUBSET Descriptors]
  BY <1>1, <1>3
<1>5. \A s \in Names : Stands(bits[s], fds[s]) BY <1>1, <1>2, Zenon
<1> QED BY <1>1, <1>4, <1>5 DEF FdInv

\* Members, counts and equality come out right.
LEMMA FdExacts == ASSUME FdInv PROVE FdExact
<1>1. \A s \in Names : Stands(bits[s], fds[s]) BY Zenon DEF FdInv
<1>2. ASSUME NEW s \in Names, NEW fd \in 0 .. FDSETWORDS * NFDBITS - 1
      PROVE  ISSET(fd, s) <=> fd \in fds[s]
  <2>1. fd \in Descriptors BY Zenon DEF Descriptors, NFDBITS
  <2>2. PICK q \in WordNumbers, r \in 0 .. 63 : q = fd \div 64 /\ r = fd % 64 /\ fd = 64 * q + r
    BY <2>1, FdPlace, Zenon
  <2>3. WordOf(fd) = q /\ BitOf(fd) = {r} BY <2>2, Zenon DEF WordOf, BitOf, NFDBITS
  <2>4. r \in bits[s][q] <=> fd \in fds[s] BY <1>1, <2>2, Zenon DEF Stands
  <2>5. ISSET(fd, s) <=> (bits[s][q] \intersect {r}) # {} BY <2>3, Zenon DEF ISSET
  <2> QED BY <2>4, <2>5, Zenon
<1>3. \A s \in Names : COUNT(s) = Cardinality(fds[s]) BY <1>1, CountIs, Zenon
<1>4. "a" \in Names /\ "b" \in Names BY DEF Names
<1>5. /\ Told!BK_BOOL_IS_TRUE(EQUAL("a", "b")) <=> fds["a"] = fds["b"]
      /\ Told!Holds(EQUAL("a", "b"))
  BY <1>1, <1>4, EqualIs, Zenon
<1> QED BY <1>2, <1>3, <1>5, Zenon DEF FdExact

\* The arrays stand for their sets, and the walk is complete (select.h).
THEOREM FdKept == FdSpec => []FdInv
<1>1. FdInv /\ UNCHANGED fdVars => FdInv'
  BY Zenon DEF FdInv, fdVars, Stands, WordNumbers, Descriptors
<1>2. ASSUME FdInv, FdNext PROVE FdInv'
  <2>1. CASE \E s \in Names : ZERO(s)
    BY <1>2, <2>1, FdEmpty, FdUpdate, Zenon DEF ZERO
  <2>2. CASE \E s \in Names, fd \in Fds : SET(fd, s) \/ CLR(fd, s)
    BY <1>2, <2>2, FdChanges, Zenon
  <2>3. CASE \E dst, src \in Names : COPY(src, dst) \/ OR(dst, src) \/ AND(dst, src)
                                       \/ XOR(dst, src)
    BY <1>2, <2>3, FdMixes, Zenon
  <2>4. CASE Scan \/ ScanEnd BY <1>2, <2>4, FdScans
  <2> QED BY <1>2, <2>1, <2>2, <2>3, <2>4, Zenon DEF FdNext
<1> QED BY <1>1, <1>2, FdStarts, PTL DEF FdSpec

\* Descriptors are found where they were put, and no walk misses one.
THEOREM FdWalked == FdSpec => [](FdExact /\ WalkComplete)
<1> QED BY FdKept, FdExacts, FdWalks, PTL

----------------------------------------------------------------------------
(* Memory and strings                                                      *)

\* The cells d .. d + n - 1 hold what the cells from s on held, the others what they held.
Copy(m, d, s, n) == [a \in DOMAIN m |-> IF a \in d .. d + n - 1 THEN m[s + a - d] ELSE m[a]]

\* A cell written.
LEMMA CellWritten ==
  ASSUME NEW D, NEW m, m = [a \in D |-> m[a]], NEW x, NEW v
  PROVE  [m EXCEPT ![x] = v] = [a \in D |-> IF a = x THEN v ELSE m[a]]
<1>1. DOMAIN m = D BY Zenon
<1> QED BY <1>1

\* One cell at a time upwards, nothing is read that was written.
LEMMA CopiesUp ==
  ASSUME NEW D \in SUBSET Nat, NEW m, m = [a \in D |-> m[a]], NEW n \in Nat, NEW d \in Nat, NEW s \in Nat,
         d .. d + n - 1 \subseteq D, s .. s + n - 1 \subseteq D, d <= s \/ s + n <= d
  PROVE  memcpy(m, d, s, n) = Copy(m, d, s, n)
<1> DEFINE Is(g) == g = [k \in 0 .. n |-> IF k = 0 THEN m
                           ELSE [g[k - 1] EXCEPT ![d + k - 1] = g[k - 1][s + k - 1]]]
           h == [k \in 0 .. n |-> Copy(m, d, s, k)]
           copied == CHOOSE g : Is(g)
<1>1. Copy(m, d, s, 0) = m
  <2>1. \A a \in D : a \notin d .. d + 0 - 1 OBVIOUS
  <2> QED BY <2>1 DEF Copy
<1>2. ASSUME NEW k \in 0 .. n - 1
      PROVE  Copy(m, d, s, k + 1) = [Copy(m, d, s, k) EXCEPT ![d + k] = Copy(m, d, s, k)[s + k]]
  <2> DEFINE c == Copy(m, d, s, k)
             z == Copy(m, d, s, k + 1)
  <2>1. d + k \in D /\ s + k \in D OBVIOUS
  <2>2. c = [a \in D |-> IF a \in d .. d + k - 1 THEN m[s + a - d] ELSE m[a]] BY DEF Copy
  <2>3. z = [a \in D |-> IF a \in d .. d + (k + 1) - 1 THEN m[s + a - d] ELSE m[a]] BY DEF Copy
  <2> HIDE DEF c, z
  <2>4. c[s + k] = m[s + k]
    <3>1. s + k \notin d .. d + k - 1 OBVIOUS
    <3> QED BY <2>1, <2>2, <3>1, Zenon
  <2>5. ASSUME NEW a \in D PROVE z[a] = IF a = d + k THEN c[s + k] ELSE c[a]
    <3>1. CASE a = d + k
      <4>1. a \in d .. d + (k + 1) - 1 /\ s + a - d = s + k BY <3>1
      <4>2. z[a] = m[s + a - d] BY <2>3, <4>1, Zenon
      <4> QED BY <2>4, <3>1, <4>1, <4>2, Zenon
    <3>2. CASE a # d + k
      <4>1. a \in d .. d + (k + 1) - 1 <=> a \in d .. d + k - 1 BY <3>2
      <4> QED BY <2>2, <2>3, <3>2, <4>1, Zenon
    <3> QED BY <3>1, <3>2
  <2>6. [c EXCEPT ![d + k] = c[s + k]] = [a \in D |-> IF a = d + k THEN c[s + k] ELSE c[a]]
    <3>1. c = [a \in D |-> c[a]] BY <2>2
    <3> QED BY <3>1, CellWritten, Zenon
  <2>7. z = [a \in D |-> z[a]] BY <2>3
  <2>8. z = [a \in D |-> IF a = d + k THEN c[s + k] ELSE c[a]] BY <2>5, <2>7, Zenon
  <2> QED BY <2>6, <2>8, Zenon DEF c, z
<1>3. Is(h)
  <2> DEFINE j == [k \in 0 .. n |-> IF k = 0 THEN m
                     ELSE [h[k - 1] EXCEPT ![d + k - 1] = h[k - 1][s + k - 1]]]
  <2>1. ASSUME NEW k \in 0 .. n
        PROVE  Copy(m, d, s, k) = IF k = 0 THEN m
                 ELSE [h[k - 1] EXCEPT ![d + k - 1] = h[k - 1][s + k - 1]]
    <3>1. CASE k = 0 BY <1>1, <3>1, Zenon
    <3>2. CASE k # 0
      <4>1. PICK l \in 0 .. n - 1 : l = k - 1 /\ l + 1 = k BY <3>2
      <4>2. d + k - 1 = d + l /\ s + k - 1 = s + l BY <4>1
      <4>3. h[l] = Copy(m, d, s, l) BY <4>1
      <4> HIDE DEF h
      <4> QED BY <1>2, <3>2, <4>1, <4>2, <4>3, Zenon
    <3> QED BY <3>1, <3>2, Zenon
  <2>2. h = j BY <2>1, Zenon
  <2> QED BY <2>2, Zenon
<1>4. Is(copied)
  <2> HIDE DEF Is, h
  <2> QED BY <1>3, Zenon
<1>5. memcpy(m, d, s, n) = copied[n] BY Zenon DEF memcpy
<1> HIDE DEF copied
<1> DEFINE R == {k \in 0 .. n : copied[k] = Copy(m, d, s, k)}
<1>6. \A k \in 0 .. n : copied[k] = IF k = 0 THEN m
                           ELSE [copied[k - 1] EXCEPT ![d + k - 1] = copied[k - 1][s + k - 1]]
  BY <1>4, Zenon
<1>7. 0 \in R
  <2>1. 0 \in 0 .. n OBVIOUS
  <2> QED BY <1>1, <1>6, <2>1, Zenon
<1>8. ASSUME NEW k \in 0 .. n - 1, k \in R PROVE k + 1 \in R
  <2>1. PICK l \in 0 .. n : l = k + 1 /\ l # 0 /\ l - 1 = k OBVIOUS
  <2>2. d + l - 1 = d + k /\ s + l - 1 = s + k BY <2>1
  <2>3. copied[k] = Copy(m, d, s, k) BY <1>8, Zenon
  <2>4. copied[l] = [copied[k] EXCEPT ![d + k] = copied[k][s + k]] BY <1>6, <2>1, <2>2, Zenon
  <2>5. copied[l] = Copy(m, d, s, k + 1) BY <1>2, <2>3, <2>4, Zenon
  <2> QED BY <2>1, <2>5, Zenon
<1> HIDE DEF R
<1>9. 0 .. n \subseteq R BY <1>7, <1>8, Upwards
<1>10. n \in R BY <1>9
<1> QED BY <1>5, <1>10, Zenon DEF R

\* One cell at a time downwards, nothing is read that was written either.
LEMMA CopiesDown ==
  ASSUME NEW D \in SUBSET Nat, NEW m, m = [a \in D |-> m[a]], NEW n \in Nat, NEW d \in Nat, NEW s \in Nat,
         d .. d + n - 1 \subseteq D, s .. s + n - 1 \subseteq D, d > s
  PROVE  memmove(m, d, s, n) = Copy(m, d, s, n)
<1> DEFINE Is(g) == g = [k \in 0 .. n |-> IF k = 0 THEN m
                           ELSE [g[k - 1] EXCEPT ![d + n - k] = g[k - 1][s + n - k]]]
           Top(k) == Copy(m, d + n - k, s + n - k, k)
           h == [k \in 0 .. n |-> Top(k)]
           down == CHOOSE g : Is(g)
<1>1. Top(0) = m
  <2>1. \A a \in D : a \notin d + n - 0 .. d + n - 0 + 0 - 1 OBVIOUS
  <2> QED BY <2>1 DEF Copy
<1>2. ASSUME NEW k \in 0 .. n - 1
      PROVE  Top(k + 1) = [Top(k) EXCEPT ![d + n - (k + 1)] = Top(k)[s + n - (k + 1)]]
  <2> DEFINE c == Top(k)
             z == Top(k + 1)
  <2>0. PICK x \in Nat, y \in Nat : x = d + n - (k + 1) /\ y = s + n - (k + 1) OBVIOUS
  <2>1. x \in D /\ y \in D BY <2>0
  <2>2. c = [a \in D |-> IF a \in d + n - k .. d + n - k + k - 1 THEN m[s + n - k + a - (d + n - k)] ELSE m[a]]
    BY DEF Copy
  <2>3. z = [a \in D |-> IF a \in d + n - (k + 1) .. d + n - (k + 1) + (k + 1) - 1
                          THEN m[s + n - (k + 1) + a - (d + n - (k + 1))] ELSE m[a]] BY DEF Copy
  <2> HIDE DEF c, z
  <2>4. c[y] = m[y]
    <3>1. y \notin d + n - k .. d + n - k + k - 1 BY <2>0
    <3> QED BY <2>1, <2>2, <3>1, Zenon
  <2>5. ASSUME NEW a \in D PROVE z[a] = IF a = x THEN c[y] ELSE c[a]
    <3>1. CASE a = x
      <4>1. a \in d + n - (k + 1) .. d + n - (k + 1) + (k + 1) - 1
            /\ s + n - (k + 1) + a - (d + n - (k + 1)) = y BY <2>0, <3>1
      <4>2. z[a] = m[s + n - (k + 1) + a - (d + n - (k + 1))] BY <2>3, <4>1, Zenon
      <4> QED BY <2>4, <3>1, <4>1, <4>2, Zenon
    <3>2. CASE a # x
      <4>1. /\ a \in d + n - (k + 1) .. d + n - (k + 1) + (k + 1) - 1 <=> a \in d + n - k .. d + n - k + k - 1
            /\ s + n - (k + 1) + a - (d + n - (k + 1)) = s + n - k + a - (d + n - k)
        BY <2>0, <3>2
      <4> QED BY <2>2, <2>3, <3>2, <4>1, Zenon
    <3> QED BY <3>1, <3>2
  <2>6. [c EXCEPT ![x] = c[y]] = [a \in D |-> IF a = x THEN c[y] ELSE c[a]]
    <3>1. c = [a \in D |-> c[a]] BY <2>2
    <3> QED BY <3>1, CellWritten, Zenon
  <2>7. z = [a \in D |-> z[a]] BY <2>3
  <2>8. z = [a \in D |-> IF a = x THEN c[y] ELSE c[a]] BY <2>5, <2>7, Zenon
  <2> QED BY <2>0, <2>6, <2>8, Zenon DEF c, z
<1>3. Is(h)
  <2> DEFINE j == [k \in 0 .. n |-> IF k = 0 THEN m
                     ELSE [h[k - 1] EXCEPT ![d + n - k] = h[k - 1][s + n - k]]]
  <2>1. ASSUME NEW k \in 0 .. n
        PROVE  Top(k) = IF k = 0 THEN m
                 ELSE [h[k - 1] EXCEPT ![d + n - k] = h[k - 1][s + n - k]]
    <3> HIDE DEF Top
    <3>1. CASE k = 0 BY <1>1, <3>1, Zenon
    <3>2. CASE k # 0
      <4>1. PICK l \in 0 .. n - 1 : l = k - 1 /\ l + 1 = k BY <3>2
      <4>3. h[l] = Top(l) BY <4>1
      <4> HIDE DEF h
      <4> QED BY <1>2, <3>2, <4>1, <4>3, Zenon
    <3> QED BY <3>1, <3>2, Zenon
  <2> HIDE DEF Top
  <2>2. h = j BY <2>1, Zenon
  <2> QED BY <2>2, Zenon
<1> HIDE DEF Top
<1>4. Is(down)
  <2> HIDE DEF Is, h
  <2> QED BY <1>3, Zenon
<1>5. memmove(m, d, s, n) = down[n]
  <2>1. ~(d < s) OBVIOUS
  <2> QED BY <2>1, Zenon DEF memmove
<1> HIDE DEF down
<1> DEFINE R == {k \in 0 .. n : down[k] = Top(k)}
<1>6. \A k \in 0 .. n : down[k] = IF k = 0 THEN m
                           ELSE [down[k - 1] EXCEPT ![d + n - k] = down[k - 1][s + n - k]]
  BY <1>4, Zenon
<1>7. 0 \in R
  <2>1. 0 \in 0 .. n OBVIOUS
  <2> QED BY <1>1, <1>6, <2>1, Zenon
<1>8. ASSUME NEW k \in 0 .. n - 1, k \in R PROVE k + 1 \in R
  <2>1. PICK l \in 0 .. n : l = k + 1 /\ l # 0 /\ l - 1 = k OBVIOUS
  <2>3. down[k] = Top(k) BY <1>8, Zenon
  <2>4. down[l] = [down[k] EXCEPT ![d + n - l] = down[k][s + n - l]] BY <1>6, <2>1, Zenon
  <2>5. down[l] = Top(l) BY <1>2, <2>1, <2>3, <2>4, Zenon
  <2> QED BY <2>1, <2>5, Zenon
<1> HIDE DEF R
<1>9. 0 .. n \subseteq R BY <1>7, <1>8, Upwards
<1>10. n \in R BY <1>9
<1>11. down[n] = Top(n) BY <1>10, Zenon DEF R
<1>12. d + n - n = d /\ s + n - n = s OBVIOUS
<1> QED BY <1>5, <1>11, <1>12, Zenon DEF Top

\* Onto itself, nothing changes.
LEMMA Moves ==
  ASSUME NEW D \in SUBSET Nat, NEW m, m = [a \in D |-> m[a]], NEW n \in Nat, NEW d \in Nat, NEW s \in Nat,
         d .. d + n - 1 \subseteq D, s .. s + n - 1 \subseteq D
  PROVE  memmove(m, d, s, n) = Copy(m, d, s, n)
<1>1. CASE d < s
  <2>1. d <= s \/ s + n <= d BY <1>1
  <2>2. memcpy(m, d, s, n) = Copy(m, d, s, n) BY <2>1, CopiesUp
  <2> QED BY <1>1, <2>2, Zenon DEF memmove
<1>2. CASE d > s BY <1>2, CopiesDown
<1>3. CASE d = s
  <2>1. ~(d < s) /\ ~(d > s) BY <1>3
  <2>2. memmove(m, d, s, n) = m BY <2>1, Zenon DEF memmove
  <2>3. ASSUME NEW a \in D PROVE (IF a \in d .. d + n - 1 THEN m[s + a - d] ELSE m[a]) = m[a]
    <3>1. s + a - d = a BY <1>3
    <3> QED BY <3>1, Zenon
  <2>4. Copy(m, d, s, n) = [a \in D |-> m[a]] BY <2>3, Zenon DEF Copy
  <2> QED BY <2>2, <2>4
<1> QED BY <1>1, <1>2, <1>3

\* Where memory begins and ends.
LEMMA Cells ==
  /\ BufferSize \in Nat /\ BufferSize > 0 /\ SourceSize \in Nat /\ SourceSize > 0
  /\ Addr \in SUBSET Nat /\ Src = BufferSize /\ 0 \in Addr /\ Src \in Addr
  /\ \A a : a \in Addr <=> a \in Nat /\ a < BufferSize + SourceSize
  /\ 0 \in Chars
BY CStringAssumption DEF Addr, Src

\* Least, where there is one.
LEMMA LeastIs ==
  ASSUME NEW S \in SUBSET Int, NEW l \in S, \A j \in S : l <= j
  PROVE  Least(S) = l
<1> DEFINE P(i) == i \in S /\ \A j \in S : i <= j
<1>1. \A i, j : P(i) /\ P(j) => i = j OBVIOUS
<1>2. Least(S) = CHOOSE i \in S : \A j \in S : i <= j BY DEF Least
<1> QED BY <1>1, <1>2

\* A cell of the character 0 with none before it, from s on.
Ends(m, s, e) == e \in Addr /\ e >= s /\ m[e] = 0 /\ \A a \in Addr : s <= a /\ a < e => m[a] # 0

\* It is the end of the string.
LEMMA EndIs ==
  ASSUME NEW m \in [Addr -> Chars], NEW s \in Nat, NEW e, Ends(m, s, e)
  PROVE  IsString(m, s) /\ EndOf(m, s) = e /\ strlen(m, s) = e - s
<1>1. DOMAIN m = Addr OBVIOUS
<1> DEFINE S == {a \in Addr : a >= s /\ m[a] = 0}
<1>2. S \in SUBSET Int /\ e \in S BY Cells DEF Ends
<1>3. \A j \in S : e <= j BY Cells DEF Ends
<1>4. Least(S) = e BY <1>2, <1>3, LeastIs
<1>5. EndOf(m, s) = e BY <1>1, <1>4, Zenon DEF EndOf
<1>6. IsString(m, s) BY <1>1, <1>2, Zenon DEF IsString
<1> QED BY <1>5, <1>6, Zenon DEF strlen

\* Every string has one.
LEMMA EndFound ==
  ASSUME NEW m \in [Addr -> Chars], NEW s \in Nat, IsString(m, s)
  PROVE  \E e \in Addr : /\ Ends(m, s, e) /\ EndOf(m, s) = e /\ strlen(m, s) = e - s
<1>1. DOMAIN m = Addr OBVIOUS
<1> DEFINE S == {a \in Addr : a >= s /\ m[a] = 0}
<1>2. S \in SUBSET Nat BY Cells
<1>3. S # {} BY <1>1, Zenon DEF IsString
<1> HIDE DEF S
<1>4. PICK e \in S : \A j \in S : e <= j BY <1>2, <1>3, LeastOf
<1>5. Ends(m, s, e)
  <2>1. e \in Addr /\ e >= s /\ m[e] = 0 BY <1>4 DEF S
  <2>2. ASSUME NEW a \in Addr, s <= a, a < e PROVE m[a] # 0
    <3> SUFFICES ASSUME m[a] = 0 PROVE FALSE OBVIOUS
    <3>1. a >= s /\ a \in Nat /\ e \in Nat BY <2>1, <2>2, Cells
    <3>2. a \in S BY <3>1, Zenon DEF S
    <3> QED BY <1>4, <2>2, <3>1, <3>2
  <2> QED BY <2>1, <2>2, Zenon DEF Ends
<1>6. IsString(m, s) /\ EndOf(m, s) = e /\ strlen(m, s) = e - s BY <1>5, EndIs
<1> QED BY <1>5, <1>6 DEF Ends

\* bk_strnlen stops at the bound or at the end.
LEMMA StrnlenIs ==
  ASSUME NEW m \in [Addr -> Chars], NEW s \in Nat, NEW e, Ends(m, s, e), NEW n \in Nat
  PROVE  strnlen(m, s, n) = Smaller(n, e - s) /\ Smaller(n, e - s) \in Nat
<1>1. DOMAIN m = Addr OBVIOUS
<1> DEFINE S == {i \in 0 .. n : i = n \/ (s + i \in Addr /\ m[s + i] = 0)}
           l == Smaller(n, e - s)
<1>2. e \in Nat /\ e >= s BY Cells DEF Ends
<1>3. l = (IF n < e - s THEN n ELSE e - s) BY DEF Smaller
<1>4. l \in 0 .. n /\ l <= e - s /\ (l = n \/ l = e - s) BY <1>2, <1>3
<1> HIDE DEF l
<1>5. l \in S
  <2>1. l # n => s + l = e BY <1>2, <1>4
  <2>2. e \in Addr /\ m[e] = 0 BY DEF Ends
  <2> QED BY <1>4, <2>1, <2>2, Zenon
<1>6. \A j \in S : l <= j
  <2> SUFFICES ASSUME NEW j \in 0 .. n, ~(l <= j) PROVE j # n /\ ~(s + j \in Addr /\ m[s + j] = 0)
    BY Zenon
  <2>1. j # n /\ s <= s + j /\ s + j < e BY <1>2, <1>4
  <2> QED BY <2>1, Zenon DEF Ends
<1>7. S \in SUBSET Int OBVIOUS
<1> HIDE DEF S
<1>8. Least(S) = l BY <1>5, <1>6, <1>7, LeastIs
<1>9. strnlen(m, s, n) = Least({i \in 0 .. n : i = n \/ (s + i \in DOMAIN m /\ m[s + i] = 0)}) BY Zenon DEF strnlen
<1>10. strnlen(m, s, n) = l BY <1>1, <1>8, <1>9, Zenon DEF S
<1> QED BY <1>4, <1>10 DEF l

\* A copy of the first k characters of the source to the cells from o on.
LEMMA SourceCopied ==
  ASSUME NEW m \in [Addr -> Chars], NEW o \in Nat, NEW k \in Nat,
         o + k <= BufferSize, k <= SourceSize
  PROVE  memcpy(m, o, Src, k) = [a \in Addr |-> IF a \in o .. o + k - 1 THEN m[Src + a - o] ELSE m[a]]
<1>1. o .. o + k - 1 \subseteq Addr /\ Src .. Src + k - 1 \subseteq Addr /\ (o <= Src \/ Src + k <= o)
      /\ Src \in Nat /\ Addr \in SUBSET Nat BY Cells
<1>4. m = [a \in Addr |-> m[a]] OBVIOUS
<1>2. memcpy(m, o, Src, k) = Copy(m, o, Src, k) BY <1>1, <1>4, CopiesUp
<1>3. DOMAIN m = Addr OBVIOUS
<1> QED BY <1>2, <1>3, Zenon DEF Copy

\* The same, and a 0 behind them.
Ended(m, o, k) == [memcpy(m, o, Src, k) EXCEPT ![o + k] = 0]

\* Cell by cell.
LEMMA EndedIs ==
  ASSUME NEW m \in [Addr -> Chars], NEW o \in Nat, NEW k \in Nat,
         o + k < BufferSize, k <= SourceSize
  PROVE  Ended(m, o, k) = [a \in Addr |-> IF a = o + k THEN 0
                             ELSE IF a \in o .. o + k - 1 THEN m[Src + a - o] ELSE m[a]]
<1> DEFINE c == memcpy(m, o, Src, k)
<1>0. o + k <= BufferSize BY Cells
<1>1. c = [a \in Addr |-> IF a \in o .. o + k - 1 THEN m[Src + a - o] ELSE m[a]]
  BY <1>0, SourceCopied
<1> HIDE DEF c
<1>2. c = [a \in Addr |-> c[a]] BY <1>1
<1>3. [c EXCEPT ![o + k] = 0] = [a \in Addr |-> IF a = o + k THEN 0 ELSE c[a]]
  BY <1>2, CellWritten, Zenon
<1>4. \A a \in Addr : c[a] = IF a \in o .. o + k - 1 THEN m[Src + a - o] ELSE m[a] BY <1>1, Zenon
<1> QED BY <1>3, <1>4, Zenon DEF Ended, c

\* Copying the terminator too is the same.
LEMMA WithTerminator ==
  ASSUME NEW m \in [Addr -> Chars], NEW o \in Nat, NEW k \in Nat,
         o + k < BufferSize, k < SourceSize, m[Src + k] = 0
  PROVE  memcpy(m, o, Src, k + 1) = Ended(m, o, k)
<1>0. o + (k + 1) <= BufferSize /\ k + 1 <= SourceSize /\ k + 1 \in Nat /\ k <= SourceSize BY Cells
<1>1. memcpy(m, o, Src, k + 1) =
        [a \in Addr |-> IF a \in o .. o + (k + 1) - 1 THEN m[Src + a - o] ELSE m[a]]
  BY <1>0, SourceCopied
<1>2. Ended(m, o, k) = [a \in Addr |-> IF a = o + k THEN 0
                          ELSE IF a \in o .. o + k - 1 THEN m[Src + a - o] ELSE m[a]]
  BY <1>0, EndedIs
<1>3. ASSUME NEW a \in Addr
      PROVE  (IF a \in o .. o + (k + 1) - 1 THEN m[Src + a - o] ELSE m[a])
             = IF a = o + k THEN 0 ELSE IF a \in o .. o + k - 1 THEN m[Src + a - o] ELSE m[a]
  <2>1. CASE a = o + k
    <3>1. a \in o .. o + (k + 1) - 1 /\ Src + a - o = Src + k BY <2>1, Cells
    <3> QED BY <2>1, <3>1, Zenon
  <2>2. CASE a # o + k
    <3>1. a \in o .. o + (k + 1) - 1 <=> a \in o .. o + k - 1 BY <2>2, Cells
    <3> QED BY <2>2, <3>1, Zenon
  <2> QED BY <2>1, <2>2
<1> QED BY <1>1, <1>2, <1>3, Zenon

\* A sequence as a function.
LEMMA AsSequence ==
  ASSUME NEW k \in Nat, NEW V, NEW t \in [1 .. k -> V]
  PROVE  t \in Seq(V) /\ Len(t) = k
<1>1. t \in Seq(V) OBVIOUS
<1> QED BY <1>1, LenProperties

\* The text at s, where it ends at e.
LEMMA TextAt ==
  ASSUME NEW m \in [Addr -> Chars], NEW s \in Addr, NEW e, Ends(m, s, e)
  PROVE  /\ IsString(m, s) /\ Text(m, s) \in Seq(Chars) /\ Len(Text(m, s)) = e - s
         /\ \A i \in 1 .. e - s : Text(m, s)[i] = m[s + i - 1]
<1>1. s \in Nat /\ e \in Nat /\ e >= s BY Cells DEF Ends
<1>2. IsString(m, s) /\ strlen(m, s) = e - s BY <1>1, EndIs
<1>3. PICK k \in Nat : k = e - s BY <1>1
<1>4. Text(m, s) = [i \in 1 .. k |-> m[s + i - 1]] BY <1>2, <1>3, Zenon DEF Text
<1>5. ASSUME NEW i \in 1 .. k PROVE m[s + i - 1] \in Chars
  <2>1. s + i - 1 \in Nat /\ s + i - 1 < e BY <1>1, <1>3
  <2>2. s + i - 1 \in Addr BY <2>1, Cells DEF Ends
  <2> QED BY <2>2
<1>6. Text(m, s) \in [1 .. k -> Chars] BY <1>4, <1>5, Zenon
<1>7. Text(m, s) \in Seq(Chars) /\ Len(Text(m, s)) = k BY <1>6, AsSequence
<1>8. \A i \in 1 .. k : Text(m, s)[i] = m[s + i - 1] BY <1>4, Zenon
<1> QED BY <1>2, <1>3, <1>7, <1>8, Zenon

\* Two strings: at Src of length l, at 0 of length e.
Laid(m, l, e) ==
  /\ l \in Nat /\ e \in Nat /\ l < SourceSize
  /\ Ends(m, Src, Src + l) /\ strlen(m, Src) = l /\ m[Src + l] = 0
  /\ \A i \in 1 .. l : m[Src + i - 1] # 0
  /\ Ends(m, 0, e) /\ EndOf(m, 0) = e /\ IsString(m, 0)
  /\ \A i \in 1 .. e : m[i - 1] # 0
  /\ Text(m, Src) \in Seq(Chars) /\ Len(Text(m, Src)) = l
  /\ \A i \in 1 .. l : Text(m, Src)[i] = m[Src + i - 1]
  /\ Text(m, 0) \in Seq(Chars) /\ Len(Text(m, 0)) = e
  /\ \A i \in 1 .. e : Text(m, 0)[i] = m[i - 1]

\* A source that ends ends the buffer's string too.
LEMMA LaidOut ==
  ASSUME NEW m \in [Addr -> Chars], IsString(m, Src)
  PROVE  \E l, e \in Nat : Laid(m, l, e)
<1>1. Src \in Nat /\ Src \in Addr /\ 0 \in Addr /\ 0 \in Nat /\ DOMAIN m = Addr BY Cells
<1>2. PICK x \in Addr : Ends(m, Src, x) /\ EndOf(m, Src) = x /\ strlen(m, Src) = x - Src
  BY <1>1, EndFound
<1>3. x \in Nat /\ x >= Src /\ x < BufferSize + SourceSize /\ m[x] = 0 BY <1>2, Cells DEF Ends
<1>4. PICK l \in Nat : l = x - Src /\ x = Src + l /\ l < SourceSize BY <1>1, <1>3, Cells
<1>5. IsString(m, 0)
  <2>1. x >= 0 BY <1>3
  <2> QED BY <1>1, <1>3, <2>1, Zenon DEF IsString
<1>6. PICK e \in Addr : Ends(m, 0, e) /\ EndOf(m, 0) = e /\ strlen(m, 0) = e - 0
  BY <1>1, <1>5, EndFound
<1>7. e \in Nat /\ e - 0 = e BY <1>6, Cells
<1>8. \A i \in 1 .. l : m[Src + i - 1] # 0
  <2> TAKE i \in 1 .. l
  <2>1. Src + i - 1 \in Addr /\ Src <= Src + i - 1 /\ Src + i - 1 < x BY <1>1, <1>3, <1>4, Cells
  <2> QED BY <1>2, <2>1, Zenon DEF Ends
<1>9. \A i \in 1 .. e : m[i - 1] # 0
  <2> TAKE i \in 1 .. e
  <2>1. i - 1 \in Addr /\ 0 <= i - 1 /\ i - 1 < e BY <1>6, <1>7, Cells
  <2> QED BY <1>6, <2>1, Zenon DEF Ends
<1>10. /\ Text(m, Src) \in Seq(Chars) /\ Len(Text(m, Src)) = l
       /\ \A i \in 1 .. l : Text(m, Src)[i] = m[Src + i - 1]
  <2>1. /\ Text(m, Src) \in Seq(Chars) /\ Len(Text(m, Src)) = x - Src
        /\ \A i \in 1 .. x - Src : Text(m, Src)[i] = m[Src + i - 1] BY <1>1, <1>2, TextAt
  <2> QED BY <1>4, <2>1, Zenon
<1>11. /\ Text(m, 0) \in Seq(Chars) /\ Len(Text(m, 0)) = e
       /\ \A i \in 1 .. e : Text(m, 0)[i] = m[i - 1]
  <2>1. /\ Text(m, 0) \in Seq(Chars) /\ Len(Text(m, 0)) = e - 0
        /\ \A i \in 1 .. e - 0 : Text(m, 0)[i] = m[0 + i - 1] BY <1>1, <1>6, TextAt
  <2>2. \A i \in 1 .. e : 0 + i - 1 = i - 1 OBVIOUS
  <2> QED BY <1>7, <2>1, <2>2, Zenon
<1>12. Laid(m, l, e)
  BY <1>2, <1>3, <1>4, <1>5, <1>6, <1>7, <1>8, <1>9, <1>10, <1>11, Zenon DEF Laid
<1> QED BY <1>7, <1>12

\* The first o characters of the buffer and k of the source.
Spliced(m, o, k) == [i \in 1 .. o + k |-> IF i <= o THEN m[i - 1] ELSE m[Src + (i - o) - 1]]

\* It is a text.
LEMMA SplicedText ==
  ASSUME NEW m \in [Addr -> Chars], NEW o \in Nat, NEW k \in Nat, o + k < BufferSize, k <= SourceSize
  PROVE  /\ Spliced(m, o, k) \in Seq(Chars) /\ Len(Spliced(m, o, k)) = o + k
         /\ \A i \in 1 .. o + k : Spliced(m, o, k)[i] =
              IF i <= o THEN m[i - 1] ELSE m[Src + (i - o) - 1]
<1>1. PICK n \in Nat : n = o + k OBVIOUS
<1>2. ASSUME NEW i \in 1 .. n PROVE (IF i <= o THEN m[i - 1] ELSE m[Src + (i - o) - 1]) \in Chars
  <2>1. i <= o => i - 1 \in Addr BY <1>1, Cells
  <2>2. ~(i <= o) => Src + (i - o) - 1 \in Addr BY <1>1, Cells
  <2> QED BY <2>1, <2>2
<1>3. Spliced(m, o, k) \in [1 .. n -> Chars] BY <1>1, <1>2, Zenon DEF Spliced
<1>4. Spliced(m, o, k) \in Seq(Chars) /\ Len(Spliced(m, o, k)) = n BY <1>3, AsSequence
<1> QED BY <1>1, <1>4, Zenon DEF Spliced

\* What Ended leaves is that text, and the cells behind it as they were.
LEMMA EndedText ==
  ASSUME NEW m \in [Addr -> Chars], NEW o \in Nat, NEW k \in Nat, o + k < BufferSize, k <= SourceSize,
         \A i \in 1 .. o : m[i - 1] # 0, \A i \in 1 .. k : m[Src + i - 1] # 0,
         NEW w, w = Ended(m, o, k)
  PROVE  /\ IsString(w, 0) /\ Text(w, 0) = Spliced(m, o, k)
         /\ \A a \in Addr : a > o + k => w[a] = m[a]
<1>1. w = [a \in Addr |-> IF a = o + k THEN 0
                          ELSE IF a \in o .. o + k - 1 THEN m[Src + a - o] ELSE m[a]]
  BY EndedIs
<1>2. w \in [Addr -> Chars]
  <2>1. ASSUME NEW a \in Addr
        PROVE (IF a = o + k THEN 0 ELSE IF a \in o .. o + k - 1 THEN m[Src + a - o] ELSE m[a]) \in Chars
    <3>1. a \in o .. o + k - 1 => Src + a - o \in Addr BY Cells
    <3>2. 0 \in Chars BY Cells
    <3> QED BY <3>1, <3>2
  <2> QED BY <1>1, <2>1, Zenon
<1>3. PICK e \in Addr : e = o + k /\ e \in Nat BY Cells
<1>4. \A i \in 1 .. e : w[i - 1] = Spliced(m, o, k)[i] /\ w[i - 1] # 0
  <2> TAKE i \in 1 .. e
  <2>1. /\ i - 1 \in Addr /\ i - 1 # o + k /\ (i - 1 \in o .. o + k - 1 <=> ~(i <= o))
        /\ Src + (i - 1) - o = Src + (i - o) - 1 /\ i \in 1 .. o + k BY <1>3, Cells
  <2>2. w[i - 1] = IF i - 1 \in o .. o + k - 1 THEN m[Src + (i - 1) - o] ELSE m[i - 1]
    BY <1>1, <2>1, Zenon
  <2>3. w[i - 1] = IF i <= o THEN m[i - 1] ELSE m[Src + (i - o) - 1] BY <2>1, <2>2, Zenon
  <2>4. Spliced(m, o, k)[i] = IF i <= o THEN m[i - 1] ELSE m[Src + (i - o) - 1]
    BY <2>1, SplicedText
  <2>5. CASE i <= o
    <3>1. i \in 1 .. o BY <2>5
    <3> QED BY <2>3, <2>4, <2>5, <3>1, Zenon
  <2>6. CASE ~(i <= o)
    <3>1. i - o \in 1 .. k BY <2>6, <1>3
    <3>2. m[Src + (i - o) - 1] # 0 BY <3>1, Zenon
    <3> QED BY <2>3, <2>4, <2>6, <3>2, Zenon
  <2> QED BY <2>5, <2>6
<1>5. Ends(w, 0, e)
  <2>1. w[e] = 0 BY <1>1, <1>3, Zenon
  <2>2. ASSUME NEW a \in Addr, 0 <= a, a < e PROVE w[a] # 0
    <3>1. a + 1 \in 1 .. e /\ (a + 1) - 1 = a BY <1>3, <2>2, Cells
    <3> QED BY <1>4, <3>1, Zenon
  <2>3. e >= 0 BY <1>3
  <2> QED BY <2>1, <2>2, <2>3, Zenon DEF Ends
<1>6. 0 \in Addr /\ e - 0 = e /\ \A i \in 1 .. e : 0 + i - 1 = i - 1 BY <1>3, Cells
<1>7. /\ IsString(w, 0) /\ Text(w, 0) \in Seq(Chars) /\ Len(Text(w, 0)) = e - 0
      /\ \A i \in 1 .. e - 0 : Text(w, 0)[i] = w[0 + i - 1] BY <1>2, <1>5, <1>6, TextAt
<1>8. \A i \in 1 .. e : Text(w, 0)[i] = Spliced(m, o, k)[i] BY <1>4, <1>6, <1>7, Zenon
<1>9. Spliced(m, o, k) \in Seq(Chars) /\ Len(Spliced(m, o, k)) = e BY <1>3, SplicedText
<1>10. Text(w, 0) = Spliced(m, o, k)
  <2>1. Text(w, 0) \in Seq(Chars) /\ Len(Text(w, 0)) = e BY <1>6, <1>7, Zenon
  <2> QED BY <1>8, <1>9, <2>1, SeqEqual
<1>11. \A a \in Addr : a > o + k => w[a] = m[a]
  <2> TAKE a \in Addr
  <2>1. a > o + k => a # o + k /\ a \notin o .. o + k - 1 BY Cells
  <2> QED BY <1>1, <2>1, Zenon
<1> QED BY <1>7, <1>10, <1>11

\* The beginning of a text.
LEMMA PrefixIs ==
  ASSUME NEW t \in Seq(Chars), NEW n \in Nat
  PROVE  /\ Smaller(n, Len(t)) \in Nat /\ Prefix(t, n) \in Seq(Chars)
         /\ Len(Prefix(t, n)) = Smaller(n, Len(t))
         /\ \A i \in 1 .. Smaller(n, Len(t)) : Prefix(t, n)[i] = t[i]
<1>1. Len(t) \in Nat /\ t \in [1 .. Len(t) -> Chars] BY LenProperties
<1>2. PICK k \in Nat : k = Smaller(n, Len(t)) /\ k <= Len(t)
  <2>1. PICK l \in Nat : l = Len(t) BY <1>1
  <2>2. Smaller(n, l) = IF n < l THEN n ELSE l BY Zenon DEF Smaller
  <2> QED BY <2>1, <2>2
<1>3. \A i \in 1 .. k : t[i] \in Chars
  <2>1. 1 .. k \subseteq 1 .. Len(t) BY <1>1, <1>2
  <2> QED BY <1>1, <2>1
<1>4. SubSeq(t, 1, k) \in Seq(Chars) /\ Len(SubSeq(t, 1, k)) = k
      /\ \A i \in 1 .. k : SubSeq(t, 1, k)[i] = t[i] BY <1>1, <1>2, <1>3
<1> QED BY <1>2, <1>4, Zenon DEF Prefix

\* The end of a copy from the source, in terms of the two strings.
LEMMA Lays ==
  ASSUME NEW m \in [Addr -> Chars], NEW l \in Nat, NEW e \in Nat, Laid(m, l, e),
         NEW o \in {0, e}, NEW k \in Nat, k <= l, o + k < BufferSize, NEW w, w = Ended(m, o, k)
  PROVE  /\ IsString(w, 0) /\ Text(w, 0) = Spliced(m, o, k)
         /\ \A a \in Addr : a > o + k => w[a] = m[a]
<1>1. l < SourceSize /\ (\A i \in 1 .. l : m[Src + i - 1] # 0) /\ (\A i \in 1 .. e : m[i - 1] # 0)
  BY Zenon DEF Laid
<1>2. k <= SourceSize /\ 1 .. k \subseteq 1 .. l /\ 1 .. o \subseteq 1 .. e /\ o \in Nat BY <1>1, Cells
<1>3. (\A i \in 1 .. o : m[i - 1] # 0) /\ (\A i \in 1 .. k : m[Src + i - 1] # 0) BY <1>1, <1>2, Zenon
<1> QED BY <1>2, <1>3, EndedText

\* The text that is left, from the texts there were: of the source, its first n characters,
LEMMA FromSource ==
  ASSUME NEW m \in [Addr -> Chars], NEW l \in Nat, NEW e \in Nat, Laid(m, l, e),
         NEW n \in Nat, NEW k \in Nat, k = Smaller(n, l), k < BufferSize
  PROVE  Spliced(m, 0, k) = Prefix(Text(m, Src), n)
<1> DEFINE t == Text(m, Src)
           p == Spliced(m, 0, k)
           q == Prefix(t, n)
<1>1. l < SourceSize /\ t \in Seq(Chars) /\ Len(t) = l /\ \A i \in 1 .. l : t[i] = m[Src + i - 1]
  BY Zenon DEF Laid
<1>2. k <= l BY DEF Smaller
<1>3. 0 + k = k /\ 0 + k < BufferSize /\ k <= SourceSize /\ 1 .. k \subseteq 1 .. l BY <1>1, <1>2, Cells
<1>4. /\ p \in Seq(Chars) /\ Len(p) = 0 + k
      /\ \A i \in 1 .. 0 + k : p[i] = IF i <= 0 THEN m[i - 1] ELSE m[Src + (i - 0) - 1] BY <1>3, SplicedText
<1>5. q \in Seq(Chars) /\ Len(q) = Smaller(n, Len(t)) /\ \A i \in 1 .. Smaller(n, Len(t)) : q[i] = t[i]
  BY <1>1, PrefixIs, Zenon
<1>6. Len(q) = k /\ \A i \in 1 .. k : q[i] = t[i] BY <1>1, <1>5, Zenon
<1> HIDE DEF p, q, t
<1>7. \A i \in 1 .. k : p[i] = q[i]
  <2> TAKE i \in 1 .. k
  <2>1. ~(i <= 0) /\ Src + (i - 0) - 1 = Src + i - 1 BY Cells
  <2>2. p[i] = m[Src + i - 1] BY <1>3, <1>4, <2>1, Zenon
  <2>3. t[i] = m[Src + i - 1] BY <1>1, <1>3, Zenon
  <2> QED BY <1>6, <2>2, <2>3, Zenon
<1>8. p = q BY <1>3, <1>4, <1>5, <1>6, <1>7, SeqEqual
<1> QED BY <1>8, Zenon DEF p, q, t

\* The first k characters of the source.
StartsWith(m, k, u) == u \in Seq(Chars) /\ Len(u) = k /\ \A i \in 1 .. k : u[i] = m[Src + i - 1]

\* joined to the buffer's string,
LEMMA Concatenated ==
  ASSUME NEW m \in [Addr -> Chars], NEW l \in Nat, NEW e \in Nat, Laid(m, l, e),
         NEW k \in Nat, k <= l, e + k < BufferSize, NEW u, StartsWith(m, k, u)
  PROVE  Spliced(m, e, k) = Text(m, 0) \o u
<1>0. u \in Seq(Chars) /\ Len(u) = k /\ \A i \in 1 .. k : u[i] = m[Src + i - 1] BY Zenon DEF StartsWith
<1> DEFINE b == Text(m, 0)
           p == Spliced(m, e, k)
           q == b \o u
<1>1. l < SourceSize /\ b \in Seq(Chars) /\ Len(b) = e /\ \A i \in 1 .. e : b[i] = m[i - 1]
  BY Zenon DEF Laid
<1>2. k <= SourceSize BY <1>1, Cells
<1>3. /\ p \in Seq(Chars) /\ Len(p) = e + k
      /\ \A i \in 1 .. e + k : p[i] = IF i <= e THEN m[i - 1] ELSE m[Src + (i - e) - 1] BY <1>2, SplicedText
<1>4. /\ q \in Seq(Chars) /\ Len(q) = Len(b) + Len(u)
      /\ \A i \in 1 .. Len(b) + Len(u) : q[i] = IF i <= Len(b) THEN b[i] ELSE u[i - Len(b)]
  BY <1>0, <1>1, ConcatProperties
<1>5. Len(q) = e + k /\ \A i \in 1 .. e + k : q[i] = IF i <= e THEN b[i] ELSE u[i - e] BY <1>0, <1>1, <1>4, Zenon
<1> HIDE DEF p, q, b
<1>6. \A i \in 1 .. e + k : p[i] = q[i]
  <2> TAKE i \in 1 .. e + k
  <2>1. CASE i <= e
    <3>1. i \in 1 .. e BY <2>1
    <3> QED BY <1>1, <1>3, <1>5, <2>1, <3>1, Zenon
  <2>2. CASE ~(i <= e)
    <3>1. i - e \in 1 .. k BY <2>2
    <3>2. u[i - e] = m[Src + (i - e) - 1] BY <1>0, <3>1, Zenon
    <3> QED BY <1>3, <1>5, <2>2, <3>2, Zenon
  <2> QED BY <2>1, <2>2
<1>7. p = q BY <1>3, <1>4, <1>5, <1>6, SeqEqual
<1> QED BY <1>7, Zenon DEF p, q, b

\* with all of the source, with its first n characters,
LEMMA WithSource ==
  ASSUME NEW m \in [Addr -> Chars], NEW l \in Nat, NEW e \in Nat, Laid(m, l, e)
  PROVE  /\ e + l < BufferSize => Spliced(m, e, l) = Text(m, 0) \o Text(m, Src)
         /\ \A n \in Nat : e + Smaller(n, l) < BufferSize =>
              Spliced(m, e, Smaller(n, l)) = Text(m, 0) \o Prefix(Text(m, Src), n)
<1> DEFINE t == Text(m, Src)
<1>1. t \in Seq(Chars) /\ Len(t) = l /\ \A i \in 1 .. l : t[i] = m[Src + i - 1] BY Zenon DEF Laid
<1>2. l <= l OBVIOUS
<1> HIDE DEF t
<1>3. ASSUME NEW k \in Nat, k <= l, e + k < BufferSize, NEW v, StartsWith(m, k, v)
      PROVE  Spliced(m, e, k) = Text(m, 0) \o v
  BY <1>3, Concatenated
<1>5. e + l < BufferSize => Spliced(m, e, l) = Text(m, 0) \o t
  <2>1. StartsWith(m, l, t) BY <1>1, Zenon DEF StartsWith
  <2> QED BY <1>2, <1>3, <2>1, Zenon
<1>4. ASSUME NEW n \in Nat, NEW k, k = Smaller(n, l), e + k < BufferSize
      PROVE  Spliced(m, e, k) = Text(m, 0) \o Prefix(t, n)
  <2> DEFINE u == Prefix(t, n)
  <2>1. k \in Nat /\ k <= l BY <1>4 DEF Smaller
  <2>2. u \in Seq(Chars) /\ Len(u) = Smaller(n, Len(t)) /\ \A i \in 1 .. Smaller(n, Len(t)) : u[i] = t[i]
    BY <1>1, PrefixIs, Zenon
  <2>3. u \in Seq(Chars) /\ Len(u) = k /\ \A i \in 1 .. k : u[i] = t[i] BY <1>1, <1>4, <2>2, Zenon
  <2>4. 1 .. k \subseteq 1 .. l BY <2>1
  <2>5. \A i \in 1 .. k : u[i] = m[Src + i - 1] BY <1>1, <2>3, <2>4, Zenon
  <2> HIDE DEF u
  <2>6. StartsWith(m, k, u) BY <2>3, <2>5, Zenon DEF StartsWith
  <2>7. Spliced(m, e, k) = Text(m, 0) \o u BY <1>3, <1>4, <2>1, <2>6, Zenon
  <2> QED BY <2>7, Zenon DEF u
<1> QED BY <1>4, <1>5, Zenon DEF t

\* and cut as a whole.
LEMMA CutWhole ==
  ASSUME NEW m \in [Addr -> Chars], NEW l \in Nat, NEW e \in Nat, Laid(m, l, e),
         NEW n \in Nat, e < n, NEW k \in Nat, e + k < BufferSize,
         k <= l, k <= n - e - 1, k = l \/ k = n - e - 1
  PROVE  /\ Spliced(m, e, k) = Prefix(Text(m, 0) \o Text(m, Src), n - 1)
         /\ Len(Text(m, 0) \o Text(m, Src)) = e + l
<1> DEFINE b == Text(m, 0)
           t == Text(m, Src)
           p == Spliced(m, e, k)
           j == b \o t
           q == Prefix(j, n - 1)
<1>1. /\ l < SourceSize /\ b \in Seq(Chars) /\ Len(b) = e /\ \A i \in 1 .. e : b[i] = m[i - 1]
      /\ t \in Seq(Chars) /\ Len(t) = l /\ \A i \in 1 .. l : t[i] = m[Src + i - 1]
  BY Zenon DEF Laid
<1>2. k <= l /\ k <= n - e - 1 /\ (k = l \/ k = n - e - 1) OBVIOUS
<1>3. k <= SourceSize /\ n - 1 \in Nat BY <1>1, <1>2, Cells
<1>4. /\ p \in Seq(Chars) /\ Len(p) = e + k
      /\ \A i \in 1 .. e + k : p[i] = IF i <= e THEN m[i - 1] ELSE m[Src + (i - e) - 1] BY <1>3, SplicedText
<1>5. /\ j \in Seq(Chars) /\ Len(j) = Len(b) + Len(t)
      /\ \A i \in 1 .. Len(b) + Len(t) : j[i] = IF i <= Len(b) THEN b[i] ELSE t[i - Len(b)]
  BY <1>1, ConcatProperties
<1>6. Len(j) = e + l /\ \A i \in 1 .. e + l : j[i] = IF i <= e THEN b[i] ELSE t[i - e] BY <1>1, <1>5, Zenon
<1>7. Smaller(n - 1, e + l) = e + k
  <2>1. Smaller(n - 1, e + l) = (IF n - 1 < e + l THEN n - 1 ELSE e + l) BY DEF Smaller
  <2> QED BY <1>2, <2>1
<1> HIDE DEF p, j, b, t
<1>8. q \in Seq(Chars) /\ Len(q) = Smaller(n - 1, Len(j)) /\ \A i \in 1 .. Smaller(n - 1, Len(j)) : q[i] = j[i]
  BY <1>3, <1>5, PrefixIs, Zenon
<1>9. Len(q) = e + k /\ \A i \in 1 .. e + k : q[i] = j[i] BY <1>6, <1>7, <1>8, Zenon
<1> HIDE DEF q
<1>10. \A i \in 1 .. e + k : p[i] = q[i]
  <2> TAKE i \in 1 .. e + k
  <2>0. i \in 1 .. e + l BY <1>2
  <2>1. CASE i <= e
    <3>1. i \in 1 .. e BY <2>1
    <3> QED BY <1>1, <1>4, <1>6, <1>9, <2>0, <2>1, <3>1, Zenon
  <2>2. CASE ~(i <= e)
    <3>1. i - e \in 1 .. l BY <1>2, <2>2
    <3>2. t[i - e] = m[Src + (i - e) - 1] BY <1>1, <3>1, Zenon
    <3> QED BY <1>4, <1>6, <1>9, <2>0, <2>2, <3>2, Zenon
  <2> QED BY <2>1, <2>2
<1>11. p = q BY <1>4, <1>8, <1>9, <1>10, SeqEqual
<1> QED BY <1>6, <1>11, Zenon DEF p, q, j, b, t

\* What CopyKept asks of one function, where both strings end.
LEMMA Asked ==
  ASSUME NEW m \in [Addr -> Chars], NEW l \in Nat, NEW e \in Nat, Laid(m, l, e)
  PROVE  /\ IsString(m, 0) /\ strlen(m, Src) = l /\ EndOf(m, 0) = e
         /\ (IF IsString(m, 0) THEN Text(m, 0) ELSE <<>>) = Text(m, 0)
         /\ Len(Text(m, Src)) = l /\ Len(Text(m, 0)) = e
         /\ \A n \in Nat : /\ strnlen(m, Src, n) = Smaller(n, l) /\ Smaller(n, l) \in Nat
                           /\ strnlen(m, 0, n) = Smaller(n, e)
<1>1. /\ IsString(m, 0) /\ strlen(m, Src) = l /\ EndOf(m, 0) = e
      /\ Len(Text(m, Src)) = l /\ Len(Text(m, 0)) = e
      /\ Ends(m, Src, Src + l) /\ Ends(m, 0, e)
  BY Zenon DEF Laid
<1>2. ASSUME NEW n \in Nat
      PROVE /\ strnlen(m, Src, n) = Smaller(n, l) /\ Smaller(n, l) \in Nat
            /\ strnlen(m, 0, n) = Smaller(n, e)
  <2>1. (Src + l) - Src = l /\ Src \in Nat /\ e - 0 = e BY Cells
  <2>2. strnlen(m, Src, n) = Smaller(n, (Src + l) - Src) /\ Smaller(n, (Src + l) - Src) \in Nat
    BY <1>1, <2>1, StrnlenIs
  <2>3. strnlen(m, 0, n) = Smaller(n, e - 0) BY <1>1, StrnlenIs
  <2> QED BY <2>1, <2>2, <2>3, Zenon
<1> QED BY <1>1, <1>2, Zenon

\* bk_strcpy and bk_strdup.
LEMMA StrcpyKept ==
  ASSUME NEW m \in [Addr -> Chars], NEW l \in Nat, NEW e \in Nat, Laid(m, l, e), l < BufferSize
  PROVE  /\ CopyKept(m, strcpy(m, 0, Src), "strcpy", 0, 0)
         /\ \A new \in {NULL, 0} : CopyKept(m, strdup(m, new, Src), "strdup", 0, new)
<1> DEFINE w == Ended(m, 0, l)
           t == Text(m, Src)
<1>1. /\ l <= l /\ 0 \in {0, e} /\ 0 + l < BufferSize /\ l < SourceSize /\ m[Src + l] = 0 /\ 0 \in Nat
  <2>1. l < SourceSize /\ m[Src + l] = 0 BY Zenon DEF Laid
  <2> QED BY <2>1
<1>2. IsString(w, 0) /\ Text(w, 0) = Spliced(m, 0, l) /\ \A a \in Addr : a > 0 + l => w[a] = m[a]
  BY <1>1, Lays
<1>3. memcpy(m, 0, Src, l + 1) = w BY <1>1, WithTerminator
<1>4. Spliced(m, 0, l) = t
  <2>1. t \in Seq(Chars) /\ Len(t) = l /\ \A i \in 1 .. l : t[i] = m[Src + i - 1] BY Zenon DEF Laid
  <2>6. l <= SourceSize BY <1>1, Cells
  <2>2. /\ Spliced(m, 0, l) \in Seq(Chars) /\ Len(Spliced(m, 0, l)) = 0 + l
        /\ \A i \in 1 .. 0 + l : Spliced(m, 0, l)[i] = IF i <= 0 THEN m[i - 1] ELSE m[Src + (i - 0) - 1]
    BY <1>1, <2>6, SplicedText
  <2>3. \A i \in 1 .. l : ~(i <= 0) /\ Src + (i - 0) - 1 = Src + i - 1 /\ 0 + l = l BY Cells
  <2>4. \A i \in 1 .. l : Spliced(m, 0, l)[i] = t[i] BY <2>1, <2>2, <2>3, Zenon
  <2>5. Len(Spliced(m, 0, l)) = l BY <2>2
  <2> HIDE DEF t
  <2> QED BY <2>1, <2>2, <2>4, <2>5, SeqEqual
<1>5. strlen(m, Src) = l BY Asked
<1>6. strcpy(m, 0, Src) = w BY <1>3, <1>5, Zenon DEF strcpy
<1>7. \A a \in Addr : a >= BufferSize => w[a] = m[a]
  <2> TAKE a \in Addr
  <2>1. a >= BufferSize => a > 0 + l BY Cells
  <2> QED BY <1>2, <2>1, Zenon
<1> HIDE DEF w, t
<1>8. CopyKept(m, w, "strcpy", 0, 0) BY <1>2, <1>4, <1>7 DEF CopyKept, t
<1>9. ASSUME NEW new \in {NULL, 0} PROVE CopyKept(m, strdup(m, new, Src), "strdup", 0, new)
  <2>1. CASE new = NULL
    <3>1. strdup(m, new, Src) = m BY <2>1, Zenon DEF strdup
    <3>2. CopyKept(m, m, "strdup", 0, NULL) BY DEF CopyKept
    <3> QED BY <2>1, <3>1, <3>2, Zenon
  <2>2. CASE new # NULL
    <3>1. new = 0 BY <2>2
    <3>2. strdup(m, new, Src) = w BY <1>3, <1>5, <2>2, <3>1, Zenon DEF strdup
    <3>3. CopyKept(m, w, "strdup", 0, 0) BY <1>2, <1>4, <1>7 DEF CopyKept, t
    <3> QED BY <3>1, <3>2, <3>3, Zenon
  <2> QED BY <2>1, <2>2
<1> QED BY <1>6, <1>8, <1>9, Zenon

\* bk_strcat and bk_strncat.
LEMMA StrcatKept ==
  ASSUME NEW m \in [Addr -> Chars], NEW l \in Nat, NEW e \in Nat, Laid(m, l, e)
  PROVE  /\ e + l < BufferSize => CopyKept(m, strcat(m, 0, Src), "strcat", 0, 0)
         /\ \A n \in Nat : e + Smaller(n, l) < BufferSize =>
              CopyKept(m, strncat(m, 0, Src, n), "strncat", n, 0)
<1>1. /\ l < SourceSize /\ m[Src + l] = 0 BY Zenon DEF Laid
<1>2. ASSUME e + l < BufferSize PROVE CopyKept(m, strcat(m, 0, Src), "strcat", 0, 0)
  <2> DEFINE w == Ended(m, e, l)
  <2>1. l <= l /\ e \in {0, e} OBVIOUS
  <2>2. IsString(w, 0) /\ Text(w, 0) = Spliced(m, e, l) /\ \A a \in Addr : a > e + l => w[a] = m[a]
    BY <1>2, <2>1, Lays
  <2>3. memcpy(m, e, Src, l + 1) = w BY <1>1, <1>2, WithTerminator
  <2>4. strcat(m, 0, Src) = w
    <3>1. EndOf(m, 0) = e /\ strlen(m, Src) = l BY Asked
    <3> QED BY <2>3, <3>1, Zenon DEF strcat
  <2>5. \A a \in Addr : a >= BufferSize => w[a] = m[a]
    <3> TAKE a \in Addr
    <3>1. a >= BufferSize => a > e + l BY <1>2, Cells
    <3> QED BY <2>2, <3>1, Zenon
  <2>6. Spliced(m, e, l) = Text(m, 0) \o Text(m, Src) BY <1>2, WithSource
  <2>7. IsString(m, 0) BY Asked
  <2> HIDE DEF w
  <2>8. CopyKept(m, w, "strcat", 0, 0) BY <2>2, <2>5, <2>6, <2>7 DEF CopyKept
  <2> QED BY <2>4, <2>8, Zenon
<1>3. ASSUME NEW n \in Nat, NEW k, k = Smaller(n, l), e + k < BufferSize
      PROVE  CopyKept(m, strncat(m, 0, Src, n), "strncat", n, 0)
  <2> DEFINE w == Ended(m, e, k)
  <2>1. k \in Nat /\ k <= l /\ e \in {0, e} BY <1>3 DEF Smaller
  <2>2. IsString(w, 0) /\ Text(w, 0) = Spliced(m, e, k) /\ \A a \in Addr : a > e + k => w[a] = m[a]
    BY <1>3, <2>1, Lays
  <2>4. strncat(m, 0, Src, n) = w
    <3>1. EndOf(m, 0) = e /\ strnlen(m, Src, n) = k BY <1>3, Asked, Zenon
    <3> QED BY <3>1, Zenon DEF strncat, Ended
  <2>5. \A a \in Addr : a >= BufferSize => w[a] = m[a]
    <3> TAKE a \in Addr
    <3>1. a >= BufferSize => a > e + k BY <1>3, <2>1, Cells
    <3> QED BY <2>2, <3>1, Zenon
  <2>6. Spliced(m, e, k) = Text(m, 0) \o Prefix(Text(m, Src), n) BY <1>3, WithSource, Zenon
  <2>7. IsString(m, 0) BY Asked
  <2> HIDE DEF w
  <2>8. CopyKept(m, w, "strncat", n, 0) BY <2>2, <2>5, <2>6, <2>7 DEF CopyKept
  <2> QED BY <2>4, <2>8, Zenon
<1> QED BY <1>2, <1>3, Zenon

\* bk_strlcpy and bk_strndup.
LEMMA StrlcpyKept ==
  ASSUME NEW m \in [Addr -> Chars], NEW l \in Nat, NEW e \in Nat, Laid(m, l, e), NEW n \in Nat
  PROVE  /\ n <= BufferSize => CopyKept(m, strlcpy(m, 0, Src, n), "strlcpy", n, l)
         /\ n < BufferSize => \A new \in {NULL, 0} :
              CopyKept(m, strndup(m, new, Src, n), "strndup", n, new)
<1> DEFINE w(k) == Ended(m, 0, k)
<1>1. ASSUME NEW k \in Nat, k <= l, k < BufferSize
      PROVE  /\ IsString(w(k), 0) /\ Text(w(k), 0) = Spliced(m, 0, k)
             /\ \A a \in Addr : a > k => w(k)[a] = m[a]
  <2>1. 0 \in {0, e} /\ 0 + k < BufferSize /\ 0 + k = k BY <1>1
  <2>2. /\ IsString(w(k), 0) /\ Text(w(k), 0) = Spliced(m, 0, k)
        /\ \A a \in Addr : a > 0 + k => w(k)[a] = m[a]
    BY <1>1, <2>1, Lays
  <2> QED BY <2>1, <2>2, Zenon
<1> HIDE DEF w
<1>2. strlen(m, Src) = l /\ Len(Text(m, Src)) = l BY Asked
<1>3. ASSUME n <= BufferSize PROVE CopyKept(m, strlcpy(m, 0, Src, n), "strlcpy", n, l)
  <2>1. CASE n = 0
    <3>1. ~(n > 0) BY <2>1
    <3>2. strlcpy(m, 0, Src, n) = m BY <3>1, Zenon DEF strlcpy
    <3>3. CopyKept(m, m, "strlcpy", n, l) BY <3>1 DEF CopyKept
    <3> QED BY <3>2, <3>3, Zenon
  <2>2. CASE n # 0
    <3>1. n > 0 /\ n - 1 \in Nat BY <2>2
    <3>2. PICK k \in Nat : k = Smaller(n - 1, l) BY <3>1 DEF Smaller
    <3>3. k = Smaller(l, n - 1) /\ k <= l /\ k <= n - 1
      <4>1. Smaller(n - 1, l) = (IF n - 1 < l THEN n - 1 ELSE l)
            /\ Smaller(l, n - 1) = (IF l < n - 1 THEN l ELSE n - 1) BY Zenon DEF Smaller
      <4> QED BY <3>1, <3>2, <4>1
    <3>4. k < BufferSize BY <1>3, <3>1, <3>3, Cells
    <3>5. /\ IsString(w(k), 0) /\ Text(w(k), 0) = Spliced(m, 0, k)
          /\ \A a \in Addr : a > k => w(k)[a] = m[a] BY <1>1, <3>3, <3>4, Zenon
    <3>6. Spliced(m, 0, k) = Prefix(Text(m, Src), n - 1) BY <3>1, <3>2, <3>4, FromSource, Zenon
    <3>7. \A a \in Addr : a >= BufferSize \/ a >= n => w(k)[a] = m[a]
      <4> TAKE a \in Addr
      <4>1. a >= BufferSize \/ a >= n => a > k BY <3>1, <3>3, <3>4, Cells
      <4> QED BY <3>5, <4>1, Zenon
    <3>8. strlcpy(m, 0, Src, n) = w(k) BY <1>2, <3>1, <3>3, Zenon DEF strlcpy, w, Ended
    <3>9. CopyKept(m, w(k), "strlcpy", n, l) BY <1>2, <3>1, <3>5, <3>6, <3>7 DEF CopyKept
    <3> QED BY <3>8, <3>9, Zenon
  <2> QED BY <2>1, <2>2
<1>4. ASSUME n < BufferSize, NEW new \in {NULL, 0}
      PROVE  CopyKept(m, strndup(m, new, Src, n), "strndup", n, new)
  <2>1. CASE new = NULL
    <3>1. strndup(m, new, Src, n) = m BY <2>1, Zenon DEF strndup
    <3>2. CopyKept(m, m, "strndup", n, NULL) BY DEF CopyKept
    <3> QED BY <2>1, <3>1, <3>2, Zenon
  <2>2. CASE new # NULL
    <3>1. new = 0 BY <1>4, <2>2
    <3>2. PICK k \in Nat : k = Smaller(n, l) BY DEF Smaller
    <3>3. k <= l /\ k <= n
      <4>1. Smaller(n, l) = (IF n < l THEN n ELSE l) BY Zenon DEF Smaller
      <4> QED BY <3>2, <4>1
    <3>4. k < BufferSize BY <1>4, <3>3, Cells
    <3>5. /\ IsString(w(k), 0) /\ Text(w(k), 0) = Spliced(m, 0, k)
          /\ \A a \in Addr : a > k => w(k)[a] = m[a] BY <1>1, <3>3, <3>4, Zenon
    <3>6. Spliced(m, 0, k) = Prefix(Text(m, Src), n) BY <3>2, <3>4, FromSource, Zenon
    <3>7. \A a \in Addr : a >= BufferSize => w(k)[a] = m[a]
      <4> TAKE a \in Addr
      <4>1. a >= BufferSize => a > k BY <3>3, <3>4, Cells
      <4> QED BY <3>5, <4>1, Zenon
    <3>8. strnlen(m, Src, n) = k BY <3>2, Asked, Zenon
    <3>9. strndup(m, new, Src, n) = w(k) BY <2>2, <3>1, <3>8, Zenon DEF strndup, w, Ended
    <3>10. CopyKept(m, w(k), "strndup", n, 0) BY <3>5, <3>6, <3>7 DEF CopyKept
    <3> QED BY <3>1, <3>9, <3>10, Zenon
  <2> QED BY <2>1, <2>2
<1> QED BY <1>3, <1>4, Zenon

\* bk_strlcat.
LEMMA StrlcatKept ==
  ASSUME NEW m \in [Addr -> Chars], NEW l \in Nat, NEW e \in Nat, Laid(m, l, e),
         NEW n \in Nat, n <= BufferSize
  PROVE  CopyKept(m, strlcat(m, 0, Src, n), "strlcat", n, strlcatLen(m, 0, Src, n))
<1>1. /\ IsString(m, 0) /\ strlen(m, Src) = l /\ strnlen(m, 0, n) = Smaller(n, e)
      /\ (IF IsString(m, 0) THEN Text(m, 0) ELSE <<>>) = Text(m, 0) /\ Len(Text(m, 0)) = e
  BY Asked
<1>2. CASE e < n
  <2>1. strnlen(m, 0, n) = e
    <3>1. Smaller(n, e) = e BY <1>2 DEF Smaller
    <3> QED BY <1>1, <3>1, Zenon
  <2>2. PICK k \in Nat : k = Smaller(l, n - e - 1)
    <3>1. Smaller(l, n - e - 1) = (IF l < n - e - 1 THEN l ELSE n - e - 1) BY Zenon DEF Smaller
    <3> QED BY <1>2, <3>1
  <2>3. k <= l /\ k <= n - e - 1 /\ (k = l \/ k = n - e - 1)
    <3>1. Smaller(l, n - e - 1) = (IF l < n - e - 1 THEN l ELSE n - e - 1) BY Zenon DEF Smaller
    <3> QED BY <2>2, <3>1
  <2>4. e + k < BufferSize /\ e + k < n /\ e \in {0, e} BY <1>2, <2>3, Cells
  <2>5. PICK w : w = Ended(m, e, k) OBVIOUS
  <2>6. IsString(w, 0) /\ Text(w, 0) = Spliced(m, e, k) /\ \A a \in Addr : a > e + k => w[a] = m[a]
    BY <2>3, <2>4, <2>5, Lays
  <2>7. Spliced(m, e, k) = Prefix(Text(m, 0) \o Text(m, Src), n - 1)
        /\ Len(Text(m, 0) \o Text(m, Src)) = e + l
    BY <1>2, <2>3, <2>4, CutWhole
  <2>8. \A a \in Addr : a >= BufferSize \/ a >= n => w[a] = m[a]
    <3> TAKE a \in Addr
    <3>1. a >= BufferSize \/ a >= n => a > e + k BY <2>4, Cells
    <3> QED BY <2>6, <3>1, Zenon
  <2>9. ~(e >= n) BY <1>2
  <2>10. strlcat(m, 0, Src, n) = w
    <3>1. 0 + e = e BY <1>2
    <3>2. strlcat(m, 0, Src, n) = [memcpy(m, 0 + e, Src, k) EXCEPT ![0 + e + k] = 0]
      BY <1>1, <2>1, <2>2, <2>9, Zenon DEF strlcat
    <3> QED BY <2>5, <3>1, <3>2, Zenon DEF Ended
  <2>11. strlcatLen(m, 0, Src, n) = e + l BY <1>1, <2>1, <2>9, Zenon DEF strlcatLen
  <2>12. PICK r : r = e + l OBVIOUS
  <2>13. r = Len(Text(m, 0) \o Text(m, Src)) BY <2>7, <2>12, Zenon
  <2>14. Len(Text(m, 0)) < n BY <1>1, <1>2
  <2>15. CopyKept(m, w, "strlcat", n, r) BY <1>1, <2>6, <2>7, <2>8, <2>13, <2>14 DEF CopyKept
  <2> QED BY <2>10, <2>11, <2>12, <2>15, Zenon
<1>3. CASE ~(e < n)
  <2>1. strnlen(m, 0, n) = n
    <3>1. Smaller(n, e) = n BY <1>3 DEF Smaller
    <3> QED BY <1>1, <3>1, Zenon
  <2>2. n >= n /\ n + l >= n OBVIOUS
  <2>3. strlcat(m, 0, Src, n) = m BY <2>1, <2>2, Zenon DEF strlcat
  <2>4. strlcatLen(m, 0, Src, n) = n + l BY <1>1, <2>1, <2>2, Zenon DEF strlcatLen
  <2>5. CopyKept(m, m, "strlcat", n, n + l) BY <1>1, <1>3, <2>2 DEF CopyKept
  <2> QED BY <2>3, <2>4, <2>5, Zenon
<1> QED BY <1>2, <1>3

\* bk_strncpy.
LEMMA StrncpyKept ==
  ASSUME NEW m \in [Addr -> Chars], NEW l \in Nat, NEW e \in Nat, Laid(m, l, e),
         NEW n \in Nat, n <= BufferSize
  PROVE  CopyKept(m, strncpy(m, 0, Src, n), "strncpy", n, 0)
<1>1. /\ l < SourceSize /\ Len(Text(m, Src)) = l /\ \A i \in 1 .. l : Text(m, Src)[i] = m[Src + i - 1]
  BY Zenon DEF Laid
<1>2. PICK k \in Nat : k = Smaller(n, l) BY DEF Smaller
<1>3. k <= l /\ k <= n /\ (k = n \/ k = l)
  <2>1. Smaller(n, l) = (IF n < l THEN n ELSE l) BY Zenon DEF Smaller
  <2> QED BY <1>2, <2>1
<1>4. 0 + k <= BufferSize /\ k <= SourceSize /\ 0 \in Nat BY <1>1, <1>3, Cells
<1>5. PICK c : c = memcpy(m, 0, Src, k) OBVIOUS
<1>6. c = [a \in Addr |-> IF a \in 0 .. 0 + k - 1 THEN m[Src + a - 0] ELSE m[a]]
  BY <1>4, <1>5, SourceCopied
<1>7. PICK w : w = memset(c, 0 + k, 0, n - k) OBVIOUS
<1>8. w = [a \in Addr |-> IF a \in 0 + k .. 0 + k + (n - k) - 1 THEN 0 ELSE c[a]]
  <2>1. DOMAIN c = Addr BY <1>6, Zenon
  <2> QED BY <1>7, <2>1, Zenon DEF memset
<1>9. strncpy(m, 0, Src, n) = w
  <2>1. strnlen(m, Src, n) = k BY <1>2, Asked, Zenon
  <2> QED BY <1>5, <1>7, <2>1, Zenon DEF strncpy
<1>10. \A a \in Addr : a >= BufferSize \/ a >= n => w[a] = m[a]
  <2> TAKE a \in Addr
  <2>1. a >= BufferSize \/ a >= n => a \notin 0 + k .. 0 + k + (n - k) - 1 /\ a \notin 0 .. 0 + k - 1
    BY <1>3, Cells
  <2> QED BY <1>6, <1>8, <2>1, Zenon
<1>11. \A a \in 0 .. n - 1 : w[a] = IF a < l THEN Text(m, Src)[a + 1] ELSE 0
  <2> TAKE a \in 0 .. n - 1
  <2>1. a \in Addr BY Cells
  <2>2. CASE a < l
    <3>1. a \notin 0 + k .. 0 + k + (n - k) - 1 /\ a \in 0 .. 0 + k - 1 BY <1>3, <2>2
    <3>2. a + 1 \in 1 .. l /\ Src + (a + 1) - 1 = Src + a - 0 BY <2>2, Cells
    <3>3. w[a] = m[Src + a - 0] BY <1>6, <1>8, <2>1, <3>1, Zenon
    <3> QED BY <1>1, <2>2, <3>2, <3>3, Zenon
  <2>3. CASE ~(a < l)
    <3>1. a \in 0 + k .. 0 + k + (n - k) - 1 BY <1>3, <2>3
    <3> QED BY <1>8, <2>1, <2>3, <3>1, Zenon
  <2> QED BY <2>2, <2>3
<1>12. CopyKept(m, w, "strncpy", n, 0) BY <1>1, <1>10, <1>11 DEF CopyKept
<1> QED BY <1>9, <1>12, Zenon

\* Memory holds characters until the one call is made, and none is made beside the tokens.
CallInv ==
  /\ call = NoCall => mem \in [Addr -> Chars]
  /\ subject = "tokens" => call = NoCall

\* What MoveExact says of a step.
MoveKept ==
  call'.f \in {"memmove", "memcpy"} =>
    \A a \in Addr :
      mem'[a] = IF a \in call'.d .. call'.d + call'.n - 1
                THEN mem[call'.s + a - call'.d] ELSE mem[a]

\* What CopiesText says of a step.
TextKept == CopyKept(mem, mem', call'.f, call'.n, call'.ret)

\* What a call leaves.
LEMMA CallMade ==
  ASSUME NEW f, NEW d, NEW s, NEW n, NEW new, NEW ret, Call(f, d, s, n, new, ret)
  PROVE  /\ mem' = new /\ call'.f = f /\ call'.d = d /\ call'.s = s /\ call'.n = n /\ call'.ret = ret
         /\ subject = "memory" /\ call = NoCall /\ subject' = subject
<1>1. /\ mem' = new /\ call' = [f |-> f, d |-> d, s |-> s, n |-> n, ret |-> ret]
      /\ subject = "memory" /\ call = NoCall /\ subject' = subject BY Zenon DEF Call
<1> QED BY <1>1

\* Calls and tokens keep the invariant.
LEMMA CallStep ==
  ASSUME CallInv, NEW f, NEW d, NEW s, NEW n, NEW new, NEW ret, Call(f, d, s, n, new, ret), f # "none"
  PROVE  CallInv'
<1>1. call'.f = f /\ subject = "memory" /\ subject' = subject BY CallMade
<1>2. NoCall.f = "none" BY DEF NoCall
<1>3. call' # NoCall BY <1>1, <1>2, Zenon
<1>4. subject' # "tokens" BY <1>1
<1>5. NoCall' = NoCall BY DEF NoCall
<1> QED BY <1>3, <1>4, <1>5, Zenon DEF CallInv

\* bk_memmove, bk_memcpy and bk_memset.
LEMMA MemoryStep ==
  ASSUME CallInv, Memory
  PROVE  CallInv' /\ MoveKept /\ TextKept
<1>1. PICK d \in Addr, s \in Addr, n \in 0 .. Cardinality(Addr) :
        /\ Fits(d, n) /\ Fits(s, n)
        /\ \/ Call("memmove", d, s, n, memmove(mem, d, s, n), d)
           \/ /\ d + n <= s \/ s + n <= d
              /\ Call("memcpy", d, s, n, memcpy(mem, d, s, n), d)
           \/ s = d /\ \E c \in Chars : Call("memset", d, c, n, memset(mem, d, c, n), d)
  BY Zenon DEF Memory
<1>2. n \in Nat /\ d \in Nat /\ s \in Nat /\ Addr \in SUBSET Nat BY <1>1, Cells
<1>3. d .. d + n - 1 \subseteq Addr /\ s .. s + n - 1 \subseteq Addr
  <2>1. d + n <= BufferSize + SourceSize /\ s + n <= BufferSize + SourceSize BY <1>1 DEF Fits
  <2> QED BY <1>2, <2>1, Cells
<1>4. call = NoCall BY <1>1, CallMade, Zenon
<1>5. mem \in [Addr -> Chars] /\ DOMAIN mem = Addr BY <1>4 DEF CallInv
<1>6. mem = [a \in Addr |-> mem[a]] BY <1>5
<1>7. ASSUME mem' = Copy(mem, d, s, n), call'.d = d, call'.s = s, call'.n = n PROVE MoveKept
  <2>1. \A a \in Addr : mem'[a] = IF a \in d .. d + n - 1 THEN mem[s + a - d] ELSE mem[a]
    BY <1>5, <1>7, Zenon DEF Copy
  <2> QED BY <1>7, <2>1, Zenon DEF MoveKept
<1>8. CASE Call("memmove", d, s, n, memmove(mem, d, s, n), d)
  <2>1. CallInv' BY <1>8, CallStep
  <2>2. memmove(mem, d, s, n) = Copy(mem, d, s, n) BY <1>2, <1>3, <1>6, Moves
  <2>3. /\ mem' = memmove(mem, d, s, n) /\ call'.d = d /\ call'.s = s /\ call'.n = n
        /\ call'.f = "memmove" BY <1>8, CallMade, Zenon
  <2>4. TextKept BY <2>3 DEF TextKept, CopyKept
  <2> QED BY <1>7, <2>1, <2>2, <2>3, <2>4, Zenon
<1>9. CASE (d + n <= s \/ s + n <= d) /\ Call("memcpy", d, s, n, memcpy(mem, d, s, n), d)
  <2>1. CallInv' BY <1>9, CallStep
  <2>2. d <= s \/ s + n <= d BY <1>2, <1>9
  <2>3. memcpy(mem, d, s, n) = Copy(mem, d, s, n) BY <1>2, <1>3, <1>6, <2>2, CopiesUp
  <2>4. /\ mem' = memcpy(mem, d, s, n) /\ call'.d = d /\ call'.s = s /\ call'.n = n
        /\ call'.f = "memcpy" BY <1>9, CallMade, Zenon
  <2>5. TextKept BY <2>4 DEF TextKept, CopyKept
  <2> QED BY <1>7, <2>1, <2>3, <2>4, <2>5, Zenon
<1>10. CASE \E c \in Chars : Call("memset", d, c, n, memset(mem, d, c, n), d)
  <2>1. PICK c \in Chars : Call("memset", d, c, n, memset(mem, d, c, n), d) BY <1>10
  <2>2. CallInv' BY <2>1, CallStep
  <2>3. call'.f = "memset" BY <2>1, CallMade, Zenon
  <2> QED BY <2>2, <2>3 DEF MoveKept, TextKept, CopyKept
<1> QED BY <1>1, <1>8, <1>9, <1>10, Zenon

\* One call of a string function.
LEMMA StringCall ==
  ASSUME CallInv, NEW f, NEW n, NEW new, NEW ret, Call(f, 0, Src, n, new, ret),
         f \notin {"none", "memmove", "memcpy"}, CopyKept(mem, new, f, n, ret)
  PROVE  CallInv' /\ MoveKept /\ TextKept
<1>1. mem' = new /\ call'.f = f /\ call'.n = n /\ call'.ret = ret BY CallMade, Zenon
<1>2. CallInv' BY CallStep
<1>3. MoveKept BY <1>1, Zenon DEF MoveKept
<1>4. TextKept BY <1>1, Zenon DEF TextKept
<1> QED BY <1>2, <1>3, <1>4

\* The string functions.
LEMMA StringsStep ==
  ASSUME CallInv, Strings
  PROVE  CallInv' /\ MoveKept /\ TextKept
<1> DEFINE len == strlen(mem, Src)
           room == IF \E a \in 0 .. BufferSize - 1 : mem[a] = 0
                   THEN BufferSize - 1 - EndOf(mem, 0) ELSE -1
<1>1. /\ IsString(mem, Src)
      /\ \/ len < BufferSize /\ Call("strcpy", 0, Src, 0, strcpy(mem, 0, Src), 0)
         \/ len <= room /\ Call("strcat", 0, Src, 0, strcat(mem, 0, Src), 0)
         \/ \E n \in 0 .. BufferSize :
              \/ Call("strncpy", 0, Src, n, strncpy(mem, 0, Src, n), 0)
              \/ Call("strlcpy", 0, Src, n, strlcpy(mem, 0, Src, n), len)
              \/ Call("strlcat", 0, Src, n, strlcat(mem, 0, Src, n),
                      strlcatLen(mem, 0, Src, n))
              \/ strnlen(mem, Src, n) <= room
                 /\ Call("strncat", 0, Src, n, strncat(mem, 0, Src, n), 0)
         \/ \E new \in {NULL, 0} :
              \/ len < BufferSize /\ Call("strdup", 0, Src, 0, strdup(mem, new, Src), new)
              \/ \E n \in 0 .. BufferSize - 1 :
                   Call("strndup", 0, Src, n, strndup(mem, new, Src, n), new)
  BY Zenon DEF Strings
<1>2. call = NoCall BY <1>1, CallMade, Zenon
<1>3. mem \in [Addr -> Chars] BY <1>2, Zenon DEF CallInv
<1>4. PICK l \in Nat, e \in Nat : Laid(mem, l, e) BY <1>1, <1>3, LaidOut
<1>5. len = l /\ EndOf(mem, 0) = e BY <1>3, <1>4, Asked
<1>6. ASSUME NEW k \in Nat, k <= room PROVE e + k < BufferSize
  <2>1. room = BufferSize - 1 - e \/ room = -1 BY <1>5, Zenon
  <2> HIDE DEF room
  <2> QED BY <1>6, <2>1, Cells
<1>7. BufferSize \in Nat BY Cells
<1> HIDE DEF len, room
<1>8. CASE len < BufferSize /\ Call("strcpy", 0, Src, 0, strcpy(mem, 0, Src), 0)
  <2>1. l < BufferSize BY <1>5, <1>8, Zenon
  <2>2. CopyKept(mem, strcpy(mem, 0, Src), "strcpy", 0, 0) BY <1>3, <1>4, <2>1, StrcpyKept
  <2> QED BY <1>8, <2>2, StringCall
<1>9. CASE len <= room /\ Call("strcat", 0, Src, 0, strcat(mem, 0, Src), 0)
  <2>1. e + l < BufferSize BY <1>5, <1>6, <1>9, Zenon
  <2>2. CopyKept(mem, strcat(mem, 0, Src), "strcat", 0, 0) BY <1>3, <1>4, <2>1, StrcatKept
  <2> QED BY <1>9, <2>2, StringCall
<1>10. ASSUME NEW n \in 0 .. BufferSize, Call("strncpy", 0, Src, n, strncpy(mem, 0, Src, n), 0)
       PROVE  CallInv' /\ MoveKept /\ TextKept
  <2>1. n \in Nat /\ n <= BufferSize BY <1>7
  <2>2. CopyKept(mem, strncpy(mem, 0, Src, n), "strncpy", n, 0) BY <1>3, <1>4, <2>1, StrncpyKept
  <2> QED BY <1>10, <2>2, StringCall
<1>11. ASSUME NEW n \in 0 .. BufferSize, Call("strlcpy", 0, Src, n, strlcpy(mem, 0, Src, n), len)
       PROVE  CallInv' /\ MoveKept /\ TextKept
  <2>1. n \in Nat /\ n <= BufferSize BY <1>7
  <2>2. CopyKept(mem, strlcpy(mem, 0, Src, n), "strlcpy", n, l) BY <1>3, <1>4, <2>1, StrlcpyKept
  <2>3. CopyKept(mem, strlcpy(mem, 0, Src, n), "strlcpy", n, len) BY <1>5, <2>2, Zenon
  <2> QED BY <1>11, <2>3, StringCall
<1>12. ASSUME NEW n \in 0 .. BufferSize,
              Call("strlcat", 0, Src, n, strlcat(mem, 0, Src, n), strlcatLen(mem, 0, Src, n))
       PROVE  CallInv' /\ MoveKept /\ TextKept
  <2>1. n \in Nat /\ n <= BufferSize BY <1>7
  <2>2. CopyKept(mem, strlcat(mem, 0, Src, n), "strlcat", n, strlcatLen(mem, 0, Src, n))
    BY <1>3, <1>4, <2>1, StrlcatKept
  <2> QED BY <1>12, <2>2, StringCall
<1>13. ASSUME NEW n \in 0 .. BufferSize, strnlen(mem, Src, n) <= room,
              Call("strncat", 0, Src, n, strncat(mem, 0, Src, n), 0)
       PROVE  CallInv' /\ MoveKept /\ TextKept
  <2>1. n \in Nat BY <1>7
  <2>2. strnlen(mem, Src, n) = Smaller(n, l) /\ Smaller(n, l) \in Nat BY <1>3, <1>4, <2>1, Asked
  <2>3. e + Smaller(n, l) < BufferSize BY <1>6, <1>13, <2>2, Zenon
  <2>4. CopyKept(mem, strncat(mem, 0, Src, n), "strncat", n, 0) BY <1>3, <1>4, <2>1, <2>3, StrcatKept
  <2> QED BY <1>13, <2>4, StringCall
<1>14. ASSUME NEW new \in {NULL, 0}, len < BufferSize,
              Call("strdup", 0, Src, 0, strdup(mem, new, Src), new)
       PROVE  CallInv' /\ MoveKept /\ TextKept
  <2>1. l < BufferSize BY <1>5, <1>14, Zenon
  <2>2. CopyKept(mem, strdup(mem, new, Src), "strdup", 0, new) BY <1>3, <1>4, <2>1, StrcpyKept
  <2> QED BY <1>14, <2>2, StringCall
<1>15. ASSUME NEW new \in {NULL, 0}, NEW n \in 0 .. BufferSize - 1,
              Call("strndup", 0, Src, n, strndup(mem, new, Src, n), new)
       PROVE  CallInv' /\ MoveKept /\ TextKept
  <2>1. n \in Nat /\ n < BufferSize BY <1>7
  <2>2. CopyKept(mem, strndup(mem, new, Src, n), "strndup", n, new) BY <1>3, <1>4, <2>1, StrlcpyKept
  <2> QED BY <1>15, <2>2, StringCall
<1> QED BY <1>1, <1>8, <1>9, <1>10, <1>11, <1>12, <1>13, <1>14, <1>15, Zenon

\* The tokens are cut without a call.
LEMMA StrtokStep ==
  ASSUME CallInv, NEW u \in Users, Strtok(u)
  PROVE  CallInv' /\ MoveKept /\ TextKept
<1>1. subject = "tokens" /\ call' = call /\ mem' = mem /\ subject' = subject BY Zenon DEF Strtok
<1>2. call' = NoCall BY <1>1, Zenon DEF CallInv
<1>3. call'.f = "none" BY <1>2 DEF NoCall
<1>4. CallInv'
  <2>1. NoCall' = NoCall /\ Addr' = Addr BY DEF NoCall, Addr
  <2> QED BY <1>1, <2>1 DEF CallInv
<1>5. MoveKept BY <1>3 DEF MoveKept
<1>6. TextKept BY <1>3 DEF TextKept, CopyKept
<1> QED BY <1>4, <1>5, <1>6

\* The functions that copy leave what they promise and nothing else (string.h).
THEOREM CopiesKept == CSpec => MoveExact /\ CopiesText
<1>1. CInit => CallInv
  <2> SUFFICES ASSUME CInit PROVE CallInv OBVIOUS
  <2>1. /\ subject \in Subjects /\ call = NoCall
        /\ mem \in IF subject = "memory" THEN [Addr -> Chars] ELSE {[a \in Addr |-> 0]}
    BY Zenon DEF CInit
  <2>2. [a \in Addr |-> 0] \in [Addr -> Chars] BY Cells
  <2>3. mem \in [Addr -> Chars] BY <2>1, <2>2
  <2> QED BY <2>1, <2>3, Zenon DEF CallInv
<1>2. CallInv /\ [CNext]_cvars => CallInv' /\ [MoveKept]_cvars /\ [TextKept]_cvars
  <2>1. CASE CNext
    <3>1. Memory \/ Strings \/ \E u \in Users : Strtok(u) BY <2>1, Zenon DEF CNext
    <3> QED BY <3>1, MemoryStep, StringsStep, StrtokStep, Zenon
  <2>2. CASE UNCHANGED cvars
    <3>1. CallInv => CallInv' BY <2>2, Zenon DEF CallInv, cvars, NoCall, Addr
    <3> QED BY <2>2, <3>1
  <2> QED BY <2>1, <2>2
<1> QED BY <1>1, <1>2, PTL DEF CSpec, MoveExact, CopiesText, MoveKept, TextKept

=============================================================================
