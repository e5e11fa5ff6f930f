------------------------- MODULE BitmapSchedProofs -------------------------
(***************************************************************************)
(* Proofs about BitmapSched for any number of entities and levels: until    *)
(* aging raises a priority, bitmap, counters and queues agree level by      *)
(* level; bs_running_entities and the sum of the counters are exact whether *)
(* it does or not; and what has run together never exceeds the clock.       *)
(***************************************************************************)
EXTENDS BitmapSchedProps, FiniteSetTheorems, WellFoundedInduction, TLAPS

\* The typing the proof needs.  What was not created is as it was at first.
Core ==
  /\ bitmap \subseteq Levels
  /\ queue \in [Levels -> SUBSET created]
  /\ count \in [Levels -> 0..(CountMod - 1)]
  /\ prio \in [Entities -> Levels]
  /\ onRq \in [Entities -> BOOLEAN]
  /\ aged \in [Entities -> BOOLEAN]
  /\ created \subseteq Entities
  /\ Ready \subseteq created
  /\ \A e \in Entities \ created : prio[e] = PrioDefault

\* The inductive invariant.
BInv == Core /\ LevelsExact /\ RunningExact

----------------------------------------------------------------------------
(* Counting modulo CountMod                                                *)

\* A counter below its modulus is the number it counts.
LEMMA ModSmall ==
  ASSUME NEW m \in Nat, NEW a \in Nat, a < m
  PROVE  a % m = a
  OBVIOUS

\* Whatever is counted, a counter stays below its modulus.
LEMMA ModRange ==
  ASSUME NEW m \in Nat, m > 0, NEW a \in Int
  PROVE  a % m \in 0..(m - 1)
  OBVIOUS

\* Division with remainder, and that there is one remainder only.
LEMMA Quotient ==
  ASSUME NEW m \in Nat, m > 0, NEW a \in Int
  PROVE  a = m * (a \div m) + (a % m) /\ a % m \in 0..(m - 1) /\ a \div m \in Int
  OBVIOUS

LEMMA Multiple ==
  ASSUME NEW m \in Nat, m > 0, NEW q \in Int, q # 0
  PROVE  m * q >= m \/ m * q <= -m
<1>1. CASE q >= 1 BY <1>1
<1>2. CASE q <= -1 BY <1>2
<1> QED BY <1>1, <1>2

LEMMA Remainder ==
  ASSUME NEW m \in Nat, m > 0, NEW q \in Int, NEW r \in 0..(m - 1),
         NEW a \in Int, a = m * q + r
  PROVE  a % m = r
<1>1. a = m * (a \div m) + (a % m) /\ a % m \in 0..(m - 1) /\ a \div m \in Int
  BY Quotient
<1> DEFINE d == q - (a \div m)
<1>2. d \in Int BY <1>1
<1>3. m * d = (a % m) - r BY <1>1
<1>4. d = 0
  <2> HIDE DEF d
  <2> QED BY <1>1, <1>2, <1>3, Multiple
<1> HIDE DEF d
<1>5. m * d = 0 BY <1>4
<1> QED BY <1>1, <1>3, <1>5

LEMMA ModPlus ==
  ASSUME NEW m \in Nat, m > 0, NEW a \in Int, NEW b \in Int
  PROVE  ((a % m) + b) % m = (a + b) % m
<1> DEFINE r == (a + b) % m
           q == ((a + b) \div m) - (a \div m)
           x == (a % m) + b
<1>1. a = m * (a \div m) + (a % m) /\ a % m \in 0..(m - 1) /\ a \div m \in Int
  BY Quotient
<1>2. a + b = m * ((a + b) \div m) + r /\ r \in 0..(m - 1) /\ (a + b) \div m \in Int
  BY Quotient
<1>3. x = m * q + r /\ x \in Int /\ q \in Int BY <1>1, <1>2
<1> HIDE DEF r, q, x
<1>4. x % m = r BY <1>2, <1>3, Remainder
<1> QED BY <1>4 DEF r, x

\* One term c of a sum t becomes (c + b) % m: modulo m the sum moves by b.
LEMMA ModChange ==
  ASSUME NEW m \in Nat, m > 0, NEW t \in Int, NEW c \in Int, NEW b \in Int
  PROVE  (t - c + ((c + b) % m)) % m = ((t % m) + b) % m
<1> DEFINE d == t - c
           e == c + b
<1>1. d \in Int /\ e \in Int /\ e % m \in Int BY Quotient
<1>2. ((e % m) + d) % m = (e + d) % m
  <2> HIDE DEF d, e
  <2> QED BY <1>1, ModPlus
<1>3. (e % m) + d = t - c + ((c + b) % m) /\ e + d = t + b BY <1>1
<1>4. ((t % m) + b) % m = (t + b) % m BY ModPlus
<1> QED BY <1>2, <1>3, <1>4

\* One more entity in a set of them: the counter follows.
LEMMA CountUp ==
  ASSUME NEW S \in SUBSET Entities, NEW e \in Entities, e \notin S
  PROVE  (Cardinality(S) + 1) % CountMod = Cardinality(S \cup {e})
PROOF
<1>1. IsFiniteSet(S) /\ IsFiniteSet(S \cup {e})
  BY FS_Subset, EntitiesAssumption
<1>2. Cardinality(S \cup {e}) = Cardinality(S) + 1 /\ Cardinality(S) \in Nat
  BY <1>1, FS_AddElement, FS_CardinalityType
<1>3. Cardinality(S \cup {e}) <= Cardinality(Entities) /\ Cardinality(Entities) \in Nat
  BY FS_Subset, FS_CardinalityType, EntitiesAssumption
<1> QED BY <1>2, <1>3, ModSmall, EntitiesAssumption

\* One entity fewer.
LEMMA CountDown ==
  ASSUME NEW S \in SUBSET Entities, NEW e \in S
  PROVE  (Cardinality(S) - 1) % CountMod = Cardinality(S \ {e})
PROOF
<1>1. IsFiniteSet(S) /\ IsFiniteSet(S \ {e})
  BY FS_Subset, EntitiesAssumption
<1>2. Cardinality(S \ {e}) = Cardinality(S) - 1 /\ Cardinality(S \ {e}) \in Nat
  BY <1>1, FS_RemoveElement, FS_CardinalityType
<1>3. Cardinality(S) \in Nat /\ Cardinality(S) <= Cardinality(Entities)
      /\ Cardinality(Entities) \in Nat
  BY FS_Subset, FS_CardinalityType, EntitiesAssumption
<1> QED BY <1>2, <1>3, ModSmall, EntitiesAssumption

\* A set of entities is empty exactly when it has no elements, and a first
\* element makes it one.
LEMMA CountEmpty ==
  ASSUME NEW S \in SUBSET Entities
  PROVE  /\ Cardinality(S) \in Nat
         /\ Cardinality(S) = 0 <=> S = {}
         /\ IsFiniteSet(S)
  BY FS_Subset, FS_EmptySet, FS_CardinalityType, EntitiesAssumption

----------------------------------------------------------------------------
(* Sums.  Total is a recursive function on the subsets of its domain; that  *)
(* there is one, and what it computes, is proved by induction over a set of *)
(* subsets, since the provers take no induction over predicates.            *)

\* A set of numbers that is not empty has a least element.
LEMMA LeastExists ==
  ASSUME NEW S \in SUBSET Nat, S # {}
  PROVE  \E l \in S : \A m \in S : l <= m
PROOF
<1>1. PICK l \in S : \A m \in S : ~(<<m, l>> \in OpToRel(<, Nat))
  BY NatLessThanWellFounded, WFMin
<1>2. \A m \in S : ~(m < l)
  BY <1>1 DEF OpToRel
<1> QED BY <1>2

\* The element that is summed last.
First(s) == CHOOSE x \in s : TRUE

\* What g[s] is, when g gives the sums of f over sets.
SumStep(f, g, s) == IF s = {} THEN 0 ELSE f[First(s)] + g[s \ {First(s)}]

IsSums(f, g) == g = [s \in SUBSET DOMAIN f |-> SumStep(f, g, s)]

Sums(f) == CHOOSE g : IsSums(f, g)

LEMMA TotalIsSum ==
  ASSUME NEW f PROVE Total(f) = Sums(f)[DOMAIN f]
BY DEF Total, FoldFunction, FoldFunctionOnSet, MapThenFoldSet, Sums, IsSums, SumStep, First

\* Taking an element off a finite set.
LEMMA Smaller ==
  ASSUME NEW s, IsFiniteSet(s), s # {}
  PROVE  /\ First(s) \in s
         /\ IsFiniteSet(s \ {First(s)})
         /\ Cardinality(s) \in Nat
         /\ Cardinality(s \ {First(s)}) = Cardinality(s) - 1
<1>1. First(s) \in s BY DEF First
<1> QED BY <1>1, FS_RemoveElement, FS_CardinalityType

\* Induction over the subsets of a finite set: T is the set of those it holds of.
LEMMA SubsetInduction ==
  ASSUME NEW S, IsFiniteSet(S), NEW T \in SUBSET SUBSET S, {} \in T,
         \A s \in SUBSET S : s # {} /\ s \ {First(s)} \in T => s \in T
  PROVE  T = SUBSET S
<1> DEFINE Off == {n \in Nat : \E s \in SUBSET S : Cardinality(s) = n /\ s \notin T}
<1>1. \A s \in SUBSET S : IsFiniteSet(s) /\ Cardinality(s) \in Nat
  BY FS_Subset, FS_CardinalityType
<1>2. Off = {}
  <2> SUFFICES ASSUME Off # {} PROVE FALSE OBVIOUS
  <2>1. PICK n \in Off : \A m \in Off : n <= m BY LeastExists
  <2>2. PICK s \in SUBSET S : Cardinality(s) = n /\ s \notin T BY <2>1
  <2> DEFINE t == s \ {First(s)}
  <2>3. t \in SUBSET S OBVIOUS
  <2>4. s # {} BY <2>2
  <2>5. Cardinality(t) = n - 1 BY <1>1, <2>2, <2>4, Smaller
  <2>6. n - 1 \in Nat BY <1>1, <2>3, <2>5
  <2>7. t \in T BY <2>1, <2>3, <2>5, <2>6
  <2> QED BY <2>2, <2>4, <2>7
<1> QED BY <1>1, <1>2

\* The sums exist: over the sets of at most n elements, by the least n for
\* which they would not; and no other function is the same sums.
LEMMA SumsExist ==
  ASSUME NEW S, IsFiniteSet(S), NEW f \in [S -> Int]
  PROVE  /\ IsSums(f, Sums(f))
         /\ Sums(f) \in [SUBSET S -> Int]
<1> DEFINE UpTo(n) == {s \in SUBSET S : Cardinality(s) <= n}
           Fits(n) == \E g \in [UpTo(n) -> Int] : \A s \in UpTo(n) : g[s] = SumStep(f, g, s)
           Bad == {n \in Nat : ~Fits(n)}
<1>1. \A s \in SUBSET S : /\ IsFiniteSet(s)
                          /\ Cardinality(s) \in Nat
                          /\ Cardinality(s) <= Cardinality(S)
                          /\ (Cardinality(s) = 0 <=> s = {})
  BY FS_Subset, FS_CardinalityType, FS_EmptySet
<1>2. Fits(0)
  <2>1. UpTo(0) = {{}} BY <1>1, FS_EmptySet
  <2> DEFINE g == [s \in UpTo(0) |-> 0]
  <2>2. \A s \in UpTo(0) : g[s] = SumStep(f, g, s) BY <2>1 DEF SumStep
  <2>3. g \in [UpTo(0) -> Int] OBVIOUS
  <2> QED BY <2>2, <2>3
<1>3. ASSUME NEW n \in Nat, Fits(n) PROVE Fits(n + 1)
  <2>1. PICK g \in [UpTo(n) -> Int] : \A s \in UpTo(n) : g[s] = SumStep(f, g, s)
    BY <1>3
  <2> DEFINE h == [s \in UpTo(n + 1) |-> SumStep(f, g, s)]
  <2>2. \A s \in UpTo(n + 1) : s # {} => First(s) \in S /\ s \ {First(s)} \in UpTo(n)
    BY <1>1, Smaller
  <2>3. UpTo(n) \subseteq UpTo(n + 1) BY <1>1
  <2>4. h \in [UpTo(n + 1) -> Int] BY <2>2 DEF SumStep
  <2>5. \A s \in UpTo(n) : h[s] = g[s] BY <2>1, <2>3
  <2>6. \A s \in UpTo(n + 1) : h[s] = SumStep(f, h, s) BY <2>2, <2>5 DEF SumStep
  <2> QED BY <2>4, <2>6
<1>4. Bad = {}
  <2> SUFFICES ASSUME Bad # {} PROVE FALSE OBVIOUS
  <2> HIDE DEF Fits
  <2>1. PICK n \in Bad : \A m \in Bad : n <= m BY LeastExists
  <2>2. n # 0 BY <1>2
  <2>3. n - 1 \in Nat /\ Fits(n - 1) BY <2>1, <2>2
  <2> QED BY <1>3, <2>3
<1>5. Cardinality(S) \in Nat BY FS_CardinalityType
<1>6. UpTo(Cardinality(S)) = SUBSET S BY <1>1
<1>7. PICK g \in [SUBSET S -> Int] : \A s \in SUBSET S : g[s] = SumStep(f, g, s)
  <2>1. Fits(Cardinality(S)) BY <1>4, <1>5
  <2> QED BY <2>1, <1>6
<1>8. IsSums(f, g) BY <1>7 DEF IsSums
<1>9. IsSums(f, Sums(f)) BY <1>8 DEF Sums
<1> DEFINE G == Sums(f)
           T == {s \in SUBSET S : G[s] = g[s]}
<1>10. \A s \in SUBSET S : G[s] = SumStep(f, G, s) /\ G = [t \in SUBSET S |-> G[t]]
  BY <1>9 DEF IsSums
<1>11. {} \in T BY <1>7, <1>10 DEF SumStep
<1>12. \A s \in SUBSET S : s # {} /\ s \ {First(s)} \in T => s \in T
  BY <1>7, <1>10 DEF SumStep
<1>13. T = SUBSET S
  <2> HIDE DEF T
  <2>1. T \in SUBSET SUBSET S BY DEF T
  <2> QED BY <1>11, <1>12, <2>1, SubsetInduction
<1> QED BY <1>7, <1>9, <1>10, <1>13

LEMMA SumsValue ==
  ASSUME NEW S, IsFiniteSet(S), NEW f \in [S -> Int], NEW s \in SUBSET S
  PROVE  /\ Sums(f)[s] = SumStep(f, Sums(f), s)
         /\ Sums(f)[s] \in Int
<1> DEFINE G == Sums(f)
<1>1. G \in [SUBSET S -> Int] /\ G = [t \in SUBSET S |-> SumStep(f, G, t)]
  BY SumsExist DEF IsSums
<1> HIDE DEF G
<1>2. G[s] = SumStep(f, G, s) /\ G[s] \in Int BY <1>1
<1> QED BY <1>2 DEF G

\* Changing f at one place changes its sum by as much.
LEMMA SumsChange ==
  ASSUME NEW S, IsFiniteSet(S), NEW f \in [S -> Int], NEW h \in [S -> Int],
         NEW e \in S, \A x \in S \ {e} : h[x] = f[x]
  PROVE  Sums(h)[S] = Sums(f)[S] - f[e] + h[e]
<1> DEFINE F == Sums(f)
           H == Sums(h)
           D(s) == IF e \in s THEN h[e] - f[e] ELSE 0
           T == {s \in SUBSET S : H[s] = F[s] + D(s)}
<1>1. \A s \in SUBSET S : F[s] = SumStep(f, F, s) /\ F[s] \in Int BY SumsValue
<1>2. \A s \in SUBSET S : H[s] = SumStep(h, H, s) /\ H[s] \in Int BY SumsValue
<1> HIDE DEF F, H
<1>3. F[{}] = 0 /\ H[{}] = 0 BY <1>1, <1>2 DEF SumStep
<1>4. {} \in T BY <1>3
<1>5. ASSUME NEW s \in SUBSET S, s # {}, s \ {First(s)} \in T PROVE s \in T
  <2> DEFINE x == First(s)
             t == s \ {x}
  <2>1. IsFiniteSet(s) BY FS_Subset
  <2>2. x \in s BY <1>5, <2>1, Smaller
  <2>3. F[s] = f[x] + F[t] /\ H[s] = h[x] + H[t] BY <1>1, <1>2, <1>5 DEF SumStep
  <2>4. F[t] \in Int /\ H[t] = F[t] + D(t) BY <1>1, <1>5
  <2> HIDE DEF x
  <2>5. h[x] + D(t) = f[x] + D(s) /\ f[x] \in Int
    <3>1. CASE x = e BY <3>1, <2>2
    <3>2. CASE x # e BY <3>2, <2>2
    <3> QED BY <3>1, <3>2
  <2>6. D(t) \in Int /\ D(s) \in Int /\ h[x] \in Int BY <2>2
  <2>7. H[s] = F[s] + D(s) BY <2>3, <2>4, <2>5, <2>6
  <2> QED BY <2>7
<1>6. T = SUBSET S
  <2> HIDE DEF T
  <2>1. T \in SUBSET SUBSET S BY DEF T
  <2> QED BY <1>4, <1>5, <2>1, SubsetInduction
<1>7. H[S] = F[S] + D(S) BY <1>6
<1> QED BY <1>1, <1>2, <1>7 DEF F, H

\* Nothing but zeros sums up to 0.
LEMMA SumsZero ==
  ASSUME NEW S, IsFiniteSet(S), NEW f \in [S -> {0}]
  PROVE  Sums(f)[S] = 0
<1> DEFINE F == Sums(f)
           T == {s \in SUBSET S : F[s] = 0}
<1>1. \A s \in SUBSET S : F[s] = SumStep(f, F, s) BY SumsValue
<1> HIDE DEF F
<1>2. {} \in T BY <1>1 DEF SumStep
<1>3. ASSUME NEW s \in SUBSET S, s # {}, s \ {First(s)} \in T PROVE s \in T
  <2>1. IsFiniteSet(s) BY FS_Subset
  <2>2. First(s) \in s BY <1>3, <2>1, Smaller
  <2> QED BY <1>1, <1>3, <2>2 DEF SumStep
<1>4. T = SUBSET S
  <2> HIDE DEF T
  <2>1. T \in SUBSET SUBSET S BY DEF T
  <2> QED BY <1>2, <1>3, <2>1, SubsetInduction
<1> QED BY <1>4 DEF F

\* The same of Total.
LEMMA TotalChange ==
  ASSUME NEW S, IsFiniteSet(S), NEW f \in [S -> Int], NEW h \in [S -> Int],
         NEW e \in S, \A x \in S \ {e} : h[x] = f[x]
  PROVE  /\ Total(h) = Total(f) - f[e] + h[e]
         /\ Total(f) \in Int
<1>1. DOMAIN f = S /\ DOMAIN h = S OBVIOUS
<1>2. Total(f) = Sums(f)[S] /\ Total(h) = Sums(h)[S] BY <1>1, TotalIsSum
<1>3. Sums(f)[S] \in Int BY SumsValue
<1>4. Sums(h)[S] = Sums(f)[S] - f[e] + h[e] BY SumsChange
<1> QED BY <1>2, <1>3, <1>4

LEMMA TotalZero ==
  ASSUME NEW S, IsFiniteSet(S)
  PROVE  Total([e \in S |-> 0]) = 0
<1> DEFINE f == [e \in S |-> 0]
<1>1. f \in [S -> {0}] /\ DOMAIN f = S OBVIOUS
<1> HIDE DEF f
<1>2. Total(f) = 0 BY <1>1, SumsZero, TotalIsSum
<1> QED BY <1>2 DEF f

----------------------------------------------------------------------------
(* The invariant                                                           *)

LEMMA InitBInv == Init => BInv
PROOF
<1> SUFFICES ASSUME Init PROVE BInv
  OBVIOUS
<1>1. CountMod \in Nat /\ CountMod > 0
  BY CountEmpty, EntitiesAssumption
<1>2. Core
  BY <1>1, LevelsAssumption DEF Init, InitLevels, InitEntities, Core, Ready, Levels
<1>3. Ready = {}
  BY DEF Init, InitEntities, Ready
<1>4. Cardinality({}) = 0
  BY FS_EmptySet
<1>5. RunningExact
  BY <1>3, <1>4 DEF Init, RunningExact
<1>6. LevelsExact
  BY <1>3, <1>4 DEF Init, InitLevels, InitEntities, LevelsExact
<1> QED BY <1>2, <1>5, <1>6 DEF BInv

\* Linking e into the queue of level l, which becomes its priority.
LEMMA LinkStep ==
  ASSUME BInv, NEW e \in Entities, NEW l \in Levels, ~onRq[e],
         prio' = [prio EXCEPT ![e] = l], MlfqEnqueue(e, l), aged' = aged,
         running' = (running + 1) % CountMod, created' = created \cup {e}
  PROVE  BInv'
PROOF
<1> USE DEF BInv
<1>0. Core
  OBVIOUS
<1>1. Ready' = Ready \cup {e} /\ e \notin Ready /\ Ready \subseteq Entities
  BY <1>0 DEF Ready, MlfqEnqueue, Core
<1>2. RunningExact'
  BY <1>1, CountUp DEF RunningExact
<1>3. CountMod \in Nat /\ CountMod > 0
  BY CountEmpty, EntitiesAssumption
<1>4. (count[l] + 1) % CountMod \in 0..(CountMod - 1)
  BY <1>0, <1>3, ModRange DEF Core
<1>5. Core'
  <2>1. bitmap' \subseteq Levels /\ count' \in [Levels -> 0..(CountMod - 1)]
    BY <1>0, <1>4 DEF Core, MlfqEnqueue
  <2>2. queue' \in [Levels -> SUBSET (created')]
    BY <1>0 DEF Core, MlfqEnqueue
  <2>3. prio' \in [Entities -> Levels] /\ onRq' \in [Entities -> BOOLEAN]
        /\ aged' \in [Entities -> BOOLEAN] /\ created' \subseteq Entities
    BY <1>0 DEF Core, MlfqEnqueue
  <2>4. Ready' \subseteq created'
    BY <1>0, <1>1 DEF Core
  <2>5. \A x \in Entities \ created' : prio'[x] = PrioDefault
    BY <1>0 DEF Core
  <2> QED BY <2>1, <2>2, <2>3, <2>4, <2>5 DEF Core
<1>6. LevelsExact'
  <2> SUFFICES ASSUME \A x \in Entities : ~aged'[x], NEW m \in Levels
               PROVE  /\ queue'[m] = {x \in Ready' : prio'[x] = m}
                      /\ count'[m] = Cardinality(queue'[m])
                      /\ m \in bitmap' <=> queue'[m] # {}
    BY DEF LevelsExact
  <2>1. /\ queue[m] = {x \in Ready : prio[x] = m}
        /\ count[m] = Cardinality(queue[m])
        /\ m \in bitmap <=> queue[m] # {}
    BY DEF LevelsExact
  <2>2. CASE m = l
    <3>1. queue'[l] = queue[l] \cup {e} /\ e \notin queue[l] /\ queue[l] \in SUBSET Entities
      BY <2>1, <2>2, <1>0, <1>1 DEF MlfqEnqueue, Core
    <3>2. queue'[l] = {x \in Ready' : prio'[x] = l}
      BY <3>1, <2>1, <2>2, <1>0, <1>1 DEF Core
    <3>3. (count[l] + 1) % CountMod = Cardinality(queue'[l])
      BY <3>1, <2>1, <2>2, CountUp
    <3>4. count'[l] = Cardinality(queue'[l])
      BY <3>3, <1>0 DEF MlfqEnqueue, Core
    <3>5. l \in bitmap'
      <4>1. CASE (count[l] + 1) % CountMod = 1
        BY <4>1 DEF MlfqEnqueue
      <4>2. CASE (count[l] + 1) % CountMod # 1
        <5>1. ASSUME queue[l] = {} PROVE Cardinality(queue'[l]) = 1
          BY <5>1, <3>1, FS_Singleton
        <5>2. queue[l] # {}
          BY <5>1, <3>3, <4>2
        <5> QED BY <5>2, <2>1, <2>2, <4>2 DEF MlfqEnqueue
      <4> QED BY <4>1, <4>2
    <3> QED BY <2>2, <3>1, <3>2, <3>4, <3>5
  <2>3. CASE m # l
    <3>1. queue'[m] = queue[m] /\ count'[m] = count[m] /\ (m \in bitmap' <=> m \in bitmap)
      BY <2>3, <1>0 DEF MlfqEnqueue, Core
    <3>2. {x \in Ready' : prio'[x] = m} = {x \in Ready : prio[x] = m}
      BY <2>3, <1>0, <1>1 DEF Core
    <3> QED BY <3>1, <3>2, <2>1
  <2> QED BY <2>2, <2>3
<1> QED BY <1>2, <1>5, <1>6

\* Unlinking e, found through its priority.
LEMMA UnlinkStep ==
  ASSUME BInv, NEW e \in Entities, Dequeue(e)
  PROVE  BInv'
PROOF
<1> USE DEF BInv
<1>0. Core /\ prio[e] \in Levels /\ onRq[e] /\ MlfqDequeue(e) /\ prio' = prio /\ aged' = aged
      /\ created' = created /\ running' = (running - 1) % CountMod
  BY DEF Dequeue, Core
<1>1. Ready' = Ready \ {e} /\ e \in Ready /\ Ready \in SUBSET Entities
  BY <1>0 DEF Ready, MlfqDequeue, Core
<1>2. RunningExact'
  BY <1>0, <1>1, CountDown DEF RunningExact
<1>3. CountMod \in Nat /\ CountMod > 0
  BY CountEmpty, EntitiesAssumption
<1>4. (count[prio[e]] - 1) % CountMod \in 0..(CountMod - 1)
  <2>1. count[prio[e]] \in 0..(CountMod - 1)
    BY <1>0 DEF Core
  <2>2. count[prio[e]] - 1 \in Int
    BY <2>1, <1>3
  <2> QED BY <2>2, <1>3, ModRange
<1>5. Core'
  <2>1. bitmap' \subseteq Levels /\ count' \in [Levels -> 0..(CountMod - 1)]
    BY <1>0, <1>4 DEF Core, MlfqDequeue
  <2>2. queue' \in [Levels -> SUBSET (created')]
    BY <1>0 DEF Core, MlfqDequeue, Without
  <2>3. onRq' \in [Entities -> BOOLEAN]
    BY <1>0 DEF Core, MlfqDequeue
  <2> QED BY <2>1, <2>2, <2>3, <1>0, <1>1 DEF Core
<1>6. LevelsExact'
  <2> DEFINE l == prio[e]
  <2> SUFFICES ASSUME \A x \in Entities : ~aged'[x], NEW m \in Levels
               PROVE  /\ queue'[m] = {x \in Ready' : prio'[x] = m}
                      /\ count'[m] = Cardinality(queue'[m])
                      /\ m \in bitmap' <=> queue'[m] # {}
    BY DEF LevelsExact
  <2>1. \A k \in Levels : /\ queue[k] = {x \in Ready : prio[x] = k}
                          /\ count[k] = Cardinality(queue[k])
                          /\ k \in bitmap <=> queue[k] # {}
    BY <1>0 DEF LevelsExact
  \* e is in no other queue, so it leaves its own and nothing else happens.
  <2>2. queue' = [queue EXCEPT ![l] = @ \ {e}]
    <3>1. \A k \in Levels : k # l => queue[k] \ {e} = queue[k]
      BY <2>1
    <3>2. [k \in Levels |-> queue[k] \ {e}] = [queue EXCEPT ![l] = @ \ {e}]
      BY <3>1, <1>0 DEF Core
    <3> QED BY <3>2, <1>0 DEF MlfqDequeue, Without
  <2>3. CASE m = l
    <3>1. queue'[l] = queue[l] \ {e} /\ e \in queue[l] /\ queue[l] \in SUBSET Entities
      BY <2>1, <2>2, <1>0, <1>1 DEF Core
    <3>2. queue'[l] = {x \in Ready' : prio'[x] = l}
      BY <3>1, <2>1, <1>0, <1>1
    <3>3. (count[l] - 1) % CountMod = Cardinality(queue'[l])
      BY <3>1, <2>1, <1>0, CountDown
    <3>4. count'[l] = Cardinality(queue'[l])
      BY <3>3, <1>0 DEF MlfqDequeue, Core
    <3>5. l \in bitmap /\ queue'[l] \in SUBSET Entities
      BY <3>1, <2>1, <1>0
    <3>6. l \in bitmap' <=> Cardinality(queue'[l]) # 0
      BY <3>3, <3>5, <1>0 DEF MlfqDequeue
    <3>7. l \in bitmap' <=> queue'[l] # {}
      BY <3>5, <3>6, CountEmpty
    <3> QED BY <2>3, <3>2, <3>4, <3>7
  <2>4. CASE m # l
    <3>1. queue'[m] = queue[m] /\ count'[m] = count[m] /\ (m \in bitmap' <=> m \in bitmap)
      BY <2>2, <2>4, <1>0 DEF MlfqDequeue, Core
    <3>2. {x \in Ready' : prio'[x] = m} = {x \in Ready : prio[x] = m}
      BY <2>4, <1>0, <1>1
    <3> QED BY <3>1, <3>2, <2>1
  <2> QED BY <2>3, <2>4
<1> QED BY <1>2, <1>5, <1>6

\* A tick changes priorities only by aging, which leaves its mark.
LEMMA TickStep ==
  ASSUME BInv, Tick
  PROVE  BInv'
PROOF
<1> USE DEF BInv
<1>0. Core /\ UNCHANGED <<bitmap, queue, count, onRq, running, created>>
  BY DEF Tick, levels
<1>1. Ready' = Ready
  BY <1>0 DEF Ready
<1>2. CASE UNCHANGED <<prio, aged>>
  BY <1>0, <1>1, <1>2 DEF Core, LevelsExact, RunningExact
<1>3. CASE Age(clock + Granularity)
  <2>1. PICK v \in [AgingLevels -> SUBSET Entities] :
          LET up == Aged(UNION {v[l] : l \in AgingLevels}, clock + Granularity) IN
          /\ \A l \in AgingLevels : v[l] \in Visits(l)
          /\ prio' = [e \in Entities |-> IF e \in up THEN prio[e] - AgingFactor ELSE prio[e]]
          /\ aged' = [e \in Entities |-> aged[e] \/ e \in up]
    BY <1>3 DEF Age
  <2> DEFINE up == Aged(UNION {v[l] : l \in AgingLevels}, clock + Granularity)
  <2>2. \A e \in up : e \in created /\ e \in Entities /\ prio[e] \in Levels /\ prio[e] > 1
    <3>1. \A l \in AgingLevels : v[l] \subseteq created
      BY <2>1, <1>0 DEF Visits, AgingLevels, Core
    <3> QED BY <3>1, <1>0 DEF Aged, Core, PrioMax, AgingFactor
  <2>3. \A e \in up : prio[e] - AgingFactor \in Levels
    BY <2>2, LevelsAssumption DEF Levels, AgingFactor
  <2>4. prio' \in [Entities -> Levels] /\ aged' \in [Entities -> BOOLEAN]
    <3>1. \A e \in Entities : (aged[e] \/ e \in up) \in BOOLEAN
      OBVIOUS
    <3>2. aged' \in [Entities -> BOOLEAN]
      BY <2>1, <3>1
    <3>3. prio' \in [Entities -> Levels]
      BY <2>1, <2>3, <1>0 DEF Core
    <3> QED BY <3>2, <3>3
  <2>5. Core'
    <3>1. \A e \in Entities \ created' : prio'[e] = PrioDefault
      BY <2>1, <2>2, <1>0 DEF Core
    <3> QED BY <2>4, <3>1, <1>0, <1>1 DEF Core
  <2>6. LevelsExact'
    <3>1. CASE up = {}
      <4>1. prio' = prio
        BY <2>1, <3>1, <1>0 DEF Core
      <4>2. \A e \in Entities : aged'[e] <=> aged[e]
        BY <2>1, <3>1, <1>0 DEF Core
      <4> QED BY <4>1, <4>2, <1>0, <1>1 DEF LevelsExact
    <3>2. CASE up # {}
      <4>1. \E e \in Entities : aged'[e]
        BY <2>1, <2>2, <3>2
      <4> QED BY <4>1 DEF LevelsExact
    <3> QED BY <3>1, <3>2
  <2> QED BY <2>5, <2>6, <1>0, <1>1 DEF RunningExact
<1> QED BY <1>2, <1>3 DEF Tick

\* The invariant is inductive.
THEOREM Accounting == Spec => []BInv
PROOF
<1>1. BInv /\ [Next]_vars => BInv'
  <2> SUFFICES ASSUME BInv, [Next]_vars PROVE BInv'
    OBVIOUS
  <2>0. Core
    BY DEF BInv
  <2>1. ASSUME NEW e \in Entities, Register(e) PROVE BInv'
    <3>1. ~onRq[e] /\ prio[e] = PrioDefault /\ PrioDefault \in Levels
      BY <2>0, <2>1, LevelsAssumption DEF Register, Core, Ready, Levels
    <3>2. prio' = [prio EXCEPT ![e] = PrioDefault]
      BY <2>0, <2>1, <3>1 DEF Register, Core
    <3> QED BY <2>1, <3>1, <3>2, LinkStep DEF Register
  <2>2. ASSUME NEW e \in Entities, Enqueue(e) PROVE BInv'
    <3>1. Feedback(e) \in Levels
      BY <2>0, LevelsAssumption DEF Core, Feedback, Levels, PrioMax
    <3>2. created' = created \cup {e} /\ ~onRq[e]
      BY <2>2 DEF Enqueue
    <3> QED BY <2>2, <3>1, <3>2, LinkStep DEF Enqueue
  <2>3. ASSUME NEW e \in Entities, Dequeue(e) PROVE BInv'
    BY <2>3, UnlinkStep
  <2>4. CASE Tick
    BY <2>4, TickStep
  <2>5. CASE PickSwitch \/ PickSame \/ PickIdle \/ UNCHANGED vars
    <3>1. UNCHANGED <<bitmap, queue, count, prio, onRq, aged, running, created>>
      BY <2>5 DEF PickSwitch, Switch, SwitchTo, PickSame, PickIdle, vars, levels, flags
    <3> QED BY <3>1 DEF BInv, Core, Ready, LevelsExact, RunningExact
  <2> QED BY <2>1, <2>2, <2>3, <2>4, <2>5 DEF Next
<1> QED BY InitBInv, <1>1, PTL DEF Spec

\* Bitmap, ml_count and queues agree on every level while nothing is aged.
THEOREM LevelsAgree == Spec => []LevelsExact
BY Accounting, PTL DEF BInv

\* bs_running_entities is the number of entities flagged ON_RQ.
THEOREM RunningCounted == Spec => []RunningExact
BY Accounting, PTL DEF BInv
----------------------------------------------------------------------------
(* The choice                                                              *)

\* The level a pick looks into is the best one with a ready entity.
LEMMA HighestIsBest ==
  ASSUME BInv, \A e \in Entities : ~aged[e], bitmap # {}
  PROVE  /\ Highest \in Levels
         /\ queue[Highest] # {}
         /\ \A e \in queue[Highest] : e \in Ready /\ prio[e] = Highest
         /\ \A e \in Ready : Highest <= prio[e]
PROOF
<1>1. bitmap \in SUBSET Nat /\ bitmap \subseteq Levels /\ prio \in [Entities -> Levels]
  BY LevelsAssumption DEF BInv, Core, Levels
<1>2. Highest \in bitmap /\ \A m \in bitmap : Highest <= m
  BY <1>1, LeastExists DEF Highest
<1>3. \A l \in Levels : queue[l] = {e \in Ready : prio[e] = l} /\ (l \in bitmap <=> queue[l] # {})
  BY DEF BInv, LevelsExact
<1>4. \A e \in Ready : prio[e] \in bitmap
  BY <1>1, <1>3 DEF Ready
<1> QED BY <1>1, <1>2, <1>3, <1>4

\* While nothing is aged a pick returns a ready entity of the best priority,
\* and nothing only if nothing is ready.
THEOREM BestIsPicked == Spec => PickHighest
PROOF
<1>1. BInv /\ [Next]_vars => [PickStep]_vars
  <2> SUFFICES ASSUME BInv, Next, returned' # returned \/ current' # current,
                      \A e \in Entities : ~aged[e]
               PROVE  IF returned' = None
                      THEN Ready = {}
                      ELSE returned' \in Ready /\ \A e \in Ready : prio[returned'] <= prio[e]
    BY DEF PickStep
  <2>1. None \notin Ready
    BY EntitiesAssumption DEF Ready
  <2>2. bitmap # {} => \A e \in Candidates(Highest) :
          e \in Ready /\ \A d \in Ready : prio[e] <= prio[d]
    BY HighestIsBest DEF Candidates
  <2>3. CASE PickSwitch
    <3>1. PICK e \in Candidates(Highest) : returned' = e /\ bitmap # {}
      BY <2>3 DEF PickSwitch, Switch, SwitchTo
    <3> QED BY <2>1, <2>2, <3>1
  <2>4. CASE PickSame
    BY <2>1, <2>2, <2>4 DEF PickSame
  <2>5. CASE PickIdle
    <3>1. bitmap = {}
      BY <2>5, HighestIsBest DEF PickIdle
    <3>2. Ready = {}
      BY <3>1 DEF BInv, Core, LevelsExact, Ready
    <3> QED BY <2>5, <3>2 DEF PickIdle
  <2>6. CASE Tick \/ \E e \in Entities : Register(e) \/ Enqueue(e) \/ Dequeue(e)
    BY <2>6 DEF Tick, Register, Enqueue, Dequeue
  <2> QED BY <2>3, <2>4, <2>5, <2>6 DEF Next
<1> QED BY <1>1, Accounting, PTL DEF Spec, PickHighest

----------------------------------------------------------------------------
(* The levels together                                                     *)

\* A counter that goes up or down by b, modulo its width, takes the sum along.
LEMMA CountMoves ==
  ASSUME BInv, CountsAddUp, NEW l \in Levels, NEW b \in {1, -1},
         count' = [count EXCEPT ![l] = (count[l] + b) % CountMod],
         running' = (running + b) % CountMod
  PROVE  CountsAddUp'
<1>1. CountMod \in Nat /\ CountMod > 0 BY CountEmpty, EntitiesAssumption
<1>2. IsFiniteSet(Levels) BY FS_Interval, LevelsAssumption DEF Levels
<1>3. count \in [Levels -> Int] BY <1>1 DEF BInv, Core
<1>4. count[l] \in Int /\ b \in Int BY <1>3
<1>5. (count[l] + b) % CountMod \in Int BY <1>1, <1>4, ModRange
<1> DEFINE n == (count[l] + b) % CountMod
<1> HIDE DEF n
<1>6. /\ count' \in [Levels -> Int]
      /\ \A m \in Levels \ {l} : count'[m] = count[m]
      /\ count'[l] = n
  BY <1>3, <1>5 DEF n
<1>7. Total(count') = Total(count) - count[l] + n /\ Total(count) \in Int
  <2>1. PICK h : h = count' OBVIOUS
  <2>2. h \in [Levels -> Int] /\ \A m \in Levels \ {l} : h[m] = count[m]
    BY <1>6, <2>1
  <2>3. Total(h) = Total(count) - count[l] + h[l] /\ Total(count) \in Int
    BY <1>2, <1>3, <2>2, TotalChange
  <2> QED BY <1>6, <2>1, <2>3
<1>8. (Total(count) - count[l] + n) % CountMod = ((Total(count) % CountMod) + b) % CountMod
  BY <1>1, <1>4, <1>7, ModChange DEF n
<1>9. running = Total(count) % CountMod BY DEF CountsAddUp
<1>10. running' = Total(count') % CountMod BY <1>7, <1>8, <1>9
<1> QED BY <1>10 DEF CountsAddUp

\* Modulo the width of the counters, the levels count every ready entity once.
THEOREM SumCounted == Spec => []CountsAddUp
<1>1. Init => CountsAddUp
  <2> SUFFICES ASSUME Init PROVE CountsAddUp OBVIOUS
  <2>1. IsFiniteSet(Levels) BY FS_Interval, LevelsAssumption DEF Levels
  <2>2. Total(count) = 0 BY <2>1, TotalZero DEF Init, InitLevels
  <2>3. CountMod \in Nat /\ CountMod > 0 BY CountEmpty, EntitiesAssumption
  <2> QED BY <2>2, <2>3, ModSmall DEF Init, CountsAddUp
<1>2. BInv /\ CountsAddUp /\ [Next]_vars => CountsAddUp'
  <2> SUFFICES ASSUME BInv, CountsAddUp, [Next]_vars PROVE CountsAddUp' OBVIOUS
  <2>1. prio \in [Entities -> Levels] /\ PrioDefault \in Levels
    BY LevelsAssumption DEF BInv, Core, Levels
  <2>2. ASSUME NEW e \in Entities, Register(e) PROVE CountsAddUp'
    BY <2>1, <2>2, CountMoves DEF Register, MlfqEnqueue
  <2>3. ASSUME NEW e \in Entities, Enqueue(e) PROVE CountsAddUp'
    <3>1. Feedback(e) \in Levels
      BY <2>1, LevelsAssumption DEF Feedback, Levels, PrioMax
    <3> QED BY <2>3, <3>1, CountMoves DEF Enqueue, MlfqEnqueue
  <2>4. ASSUME NEW e \in Entities, Dequeue(e) PROVE CountsAddUp'
    <3>1. prio[e] \in Levels BY <2>1
    <3>2. running' = (running - 1) % CountMod
          /\ count' = [count EXCEPT ![prio[e]] = (count[prio[e]] - 1) % CountMod]
      BY <2>4 DEF Dequeue, MlfqDequeue
    <3>3. count[prio[e]] \in Int /\ running \in Int
      <4>1. count \in [Levels -> 0..(CountMod - 1)] BY DEF BInv, Core
      <4>2. CountMod \in Nat BY EntitiesAssumption
      <4>3. Ready \in SUBSET Entities BY DEF Ready
      <4> QED BY <3>1, <4>1, <4>2, <4>3, CountEmpty DEF BInv, RunningExact
    <3>4. running - 1 = running + (-1) /\ count[prio[e]] - 1 = count[prio[e]] + (-1)
      BY <3>3
    <3> QED BY <3>1, <3>2, <3>4, CountMoves
  <2>5. CASE PickSwitch \/ PickSame \/ PickIdle \/ Tick \/ UNCHANGED vars
    <3>1. UNCHANGED <<count, running>>
      BY <2>5 DEF PickSwitch, Switch, SwitchTo, PickSame, PickIdle, Tick, vars, levels
    <3> QED BY <3>1 DEF CountsAddUp
  <2> QED BY <2>2, <2>3, <2>4, <2>5 DEF Next
<1> QED BY <1>1, <1>2, Accounting, PTL DEF Spec
----------------------------------------------------------------------------
(* Time                                                                    *)

\* What the current entity was started at bounds every charge.
Started == IF current = None THEN 0 ELSE execStart[current]

\* The inductive invariant.  Both charges are one; no single one and not all
\* together go beyond the last switch.
TimeInv ==
  /\ clock \in 0..MaxClock
  /\ {current, returned} \subseteq created \cup {None}
  /\ execStart \in [Entities -> 0..clock]
  /\ lastRan \in [Entities -> 0..clock]
  /\ lastEnqueued \in [Entities -> 0..clock]
  /\ execCount \in [Entities -> 0..1]
  /\ preempt \in [Entities -> BOOLEAN]
  /\ execTotal \in [Entities -> 0..Started]
  /\ vruntime = execTotal
  /\ TimeConserved

LEMMA TimeStart == Init => TimeInv
<1> SUFFICES ASSUME Init PROVE TimeInv OBVIOUS
<1>1. Total(execTotal) = 0 BY TotalZero, EntitiesAssumption DEF Init, InitEntities
<1> QED BY <1>1, TimesAssumption DEF Init, InitEntities, TimeInv, Started, TimeConserved

LEMMA TimeSwitch ==
  ASSUME BInv, TimeInv, PickSwitch PROVE TimeInv'
<1>1. PICK e \in Candidates(Highest) : e # current /\ Switch(e)
  BY DEF PickSwitch
<1>2. e \in created /\ e \in Entities
  <2>1. bitmap \in SUBSET Nat /\ bitmap # {} /\ bitmap \subseteq Levels
    BY LevelsAssumption DEF BInv, Core, Levels, PickSwitch
  <2>2. Highest \in Levels BY <2>1, LeastExists DEF Highest
  <2>3. e \in queue[Highest] BY <1>1 DEF Candidates
  <2> QED BY <2>2, <2>3 DEF BInv, Core
<1>3. clock \in Nat /\ clock \in 0..MaxClock /\ MaxClock \in Nat
  BY TimesAssumption DEF TimeInv
<1>4. /\ current' = e /\ returned' = e /\ clock' = clock /\ created' = created
      /\ execStart' = [execStart EXCEPT ![e] = clock]
      /\ preempt' = [preempt EXCEPT ![e] = FALSE]
      /\ lastEnqueued' = lastEnqueued
  BY <1>1 DEF Switch, SwitchTo
<1>5. /\ execStart' \in [Entities -> 0..clock] /\ preempt' \in [Entities -> BOOLEAN]
      /\ execStart'[e] = clock
      /\ lastEnqueued' \in [Entities -> 0..clock]
  BY <1>2, <1>3, <1>4 DEF TimeInv
<1>6. e # None BY <1>2, EntitiesAssumption
<1>7. CASE current = None
  <2>1. UNCHANGED <<execTotal, execCount, vruntime, lastRan>>
    BY <1>1, <1>7 DEF Switch, SwitchTo
  <2>2. execTotal \in [Entities -> 0..clock]
    BY <1>3, <1>7 DEF TimeInv, Started
  <2>3. Total(execTotal) = 0 BY <1>7 DEF TimeInv, TimeConserved
  <2> QED BY <1>2, <1>3, <1>4, <1>5, <1>6, <2>1, <2>2, <2>3 DEF TimeInv, Started, TimeConserved
<1>8. CASE current # None
  <2> DEFINE c == current
             d == clock - execStart[c]
  <2>1. c \in Entities /\ execStart[c] \in 0..clock /\ d \in Nat
    BY <1>3, <1>8 DEF TimeInv, BInv, Core
  <2>2. execTotal \in [Entities -> 0..execStart[c]] /\ vruntime = execTotal
    BY <1>8 DEF TimeInv, Started
  <2>3. /\ execTotal' = [execTotal EXCEPT ![c] = @ + d]
        /\ vruntime' = [vruntime EXCEPT ![c] = @ + d]
        /\ lastRan' = [lastRan EXCEPT ![c] = clock]
        /\ execCount' = [execCount EXCEPT ![c] = @ + (IF execCount[c] = 0 THEN 1 ELSE 0)]
    BY <1>1, <1>8 DEF Switch, SwitchTo
  <2>4. execTotal' \in [Entities -> 0..clock] /\ vruntime' = execTotal'
    BY <1>3, <2>1, <2>2, <2>3
  <2>5. lastRan' \in [Entities -> 0..clock] /\ execCount' \in [Entities -> 0..1]
    BY <1>3, <2>1, <2>3 DEF TimeInv
  <2>6. Total(execTotal') <= clock
    <3>1. execTotal \in [Entities -> Int] /\ execTotal' \in [Entities -> Int]
      BY <1>3, <2>1, <2>2, <2>4
    <3>2. \A x \in Entities \ {c} : execTotal'[x] = execTotal[x]
      BY <2>2, <2>3
    <3>3. execTotal'[c] = execTotal[c] + d BY <2>1, <2>2, <2>3
    <3>4. Total(execTotal') = Total(execTotal) - execTotal[c] + execTotal'[c]
          /\ Total(execTotal) \in Int
      BY <2>1, <3>1, <3>2, TotalChange, EntitiesAssumption
    <3>5. Total(execTotal) <= execStart[c] BY <1>8 DEF TimeInv, TimeConserved
    <3>6. execTotal[c] \in Int BY <2>1, <3>1
    <3> QED BY <1>3, <2>1, <3>3, <3>4, <3>5, <3>6
  <2> QED BY <1>2, <1>3, <1>4, <1>5, <1>6, <2>4, <2>5, <2>6 DEF TimeInv, Started, TimeConserved
<1> QED BY <1>7, <1>8

LEMMA TimeStep ==
  ASSUME BInv, TimeInv, [Next]_vars PROVE TimeInv'
<1>0. clock \in Nat /\ clock <= MaxClock /\ MaxClock \in Nat
  BY TimesAssumption DEF TimeInv
<1>1. ASSUME NEW e \in Entities, Register(e) \/ Enqueue(e) PROVE TimeInv'
  <2>1. /\ UNCHANGED <<clock, execStart, lastRan, execCount, preempt, execTotal, vruntime,
                       current, returned>>
        /\ lastEnqueued' = [lastEnqueued EXCEPT ![e] = clock]
        /\ created \subseteq created'
    BY <1>1 DEF Register, Enqueue, MlfqEnqueue
  <2>2. lastEnqueued' \in [Entities -> 0..clock'] BY <1>0, <2>1 DEF TimeInv
  <2> QED BY <2>1, <2>2 DEF TimeInv, Started, TimeConserved
<1>2. CASE PickSwitch BY <1>2, TimeSwitch
<1>3. CASE PickSame \/ PickIdle \/ UNCHANGED vars \/ \E e \in Entities : Dequeue(e)
  <2>1. UNCHANGED <<clock, execStart, lastRan, lastEnqueued, execCount, preempt, execTotal,
                    vruntime, current, created>>
        /\ returned' \in {returned, current, None}
    BY <1>3 DEF PickSame, PickIdle, vars, Dequeue, times, flags
  <2> QED BY <2>1 DEF TimeInv, Started, TimeConserved
<1>4. CASE Tick
  <2>1. /\ UNCHANGED <<times, current, created, returned>>
        /\ clock' = clock + Granularity
        /\ clock' <= MaxClock
        /\ preempt' \in {preempt, [preempt EXCEPT ![current] = TRUE]}
    BY <1>4 DEF Tick, Preempt
  <2>2. clock' \in 0..MaxClock /\ 0..clock \subseteq 0..clock'
    BY <1>0, <2>1, TimesAssumption
  <2>3. preempt' \in [Entities -> BOOLEAN] BY <2>1 DEF TimeInv
  <2>4. UNCHANGED <<execStart, lastRan, lastEnqueued, execCount, execTotal, vruntime>>
    BY <2>1 DEF times
  <2>5. Started' = Started /\ (TimeConserved <=> TimeConserved')
    BY <2>1, <2>4 DEF Started, TimeConserved
  <2>6. /\ execStart' \in [Entities -> 0..clock']
        /\ lastRan' \in [Entities -> 0..clock']
        /\ lastEnqueued' \in [Entities -> 0..clock']
    BY <2>2, <2>4 DEF TimeInv
  <2> QED BY <2>1, <2>2, <2>3, <2>4, <2>5, <2>6 DEF TimeInv
<1> QED BY <1>1, <1>2, <1>3, <1>4 DEF Next

\* No stamp lies ahead of the clock, and no entity was charged for anything after
\* the start of the running one's interval.
THEOREM TimeKept == Spec => []TimeInv
BY TimeStart, TimeStep, Accounting, PTL DEF Spec

\* The switches charge no time twice: what all entities were charged together is
\* never more than the start of the running one's interval.
THEOREM ChargedOnce == Spec => []TimeConserved
BY TimeKept, PTL DEF TimeInv

\* Counters never leave the width of their fields, queues hold created entities
\* only, and no stamp or total is beyond the clock.
THEOREM Types == Spec => []TypeOK
<1>1. BInv /\ TimeInv => TypeOK
  <2> SUFFICES ASSUME BInv, TimeInv PROVE TypeOK OBVIOUS
  <2>1. clock \in Nat BY TimesAssumption DEF TimeInv
  <2>2. execTotal \in [Entities -> 0..clock]
    <3>1. Started \in 0..clock BY <2>1, EntitiesAssumption DEF Started, TimeInv, BInv, Core
    <3>2. 0..Started \subseteq 0..clock BY <2>1, <3>1
    <3> QED BY <3>2 DEF TimeInv
  <2>3. running \in 0..(CountMod - 1)
    <3>1. Ready \in SUBSET Entities BY DEF Ready
    <3>2. Cardinality(Ready) <= Cardinality(Entities) /\ Cardinality(Ready) \in Nat
          /\ Cardinality(Entities) \in Nat
      BY <3>1, FS_Subset, FS_CardinalityType, EntitiesAssumption
    <3> QED BY <3>2, EntitiesAssumption DEF BInv, RunningExact
  <2>4. queue \in [Levels -> SUBSET Entities] BY DEF BInv, Core
  <2> QED BY <2>2, <2>3, <2>4 DEF BInv, Core, TimeInv, TypeOK
<1> QED BY <1>1, Accounting, TimeKept, PTL
============================================================================
