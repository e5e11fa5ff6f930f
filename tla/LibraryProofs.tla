--------------------------- MODULE LibraryProofs ----------------------------
(***************************************************************************)
(* Proofs about components of MCLibrary: what the atomic counters and bits *)
(* of AtomicOps are for, for any number of contexts and any widths of the  *)
(* counters, how the frames of Frames nest, to any depth, what the         *)
(* checksums of Records tell, of data of any size, why the clamped trees   *)
(* of EdgeGroups stay in order, in trees of any height, what the operators *)
(* of Booleans make of the two constants, what the tables of Codes say,    *)
(* and what Addresses cover and cut, in words of any width.                *)
(***************************************************************************)
EXTENDS MCLibrary, NumberProofs

----------------------------------------------------------------------------
(* Arithmetic                                                              *)

LEMMA ModSmall ==
  ASSUME NEW m \in Nat, NEW a \in Nat, a < m
  PROVE  a % m = a
OBVIOUS

\* A sum may be wrapped at every addition or at the end.
LEMMA ModPlus ==
  ASSUME NEW m \in Nat, m > 0, NEW a \in Int, NEW b \in Int
  PROVE  ((a % m) + b) % m = (a + b) % m
<1> DEFINE r == (a + b) % m
           q == ((a + b) \div m) - (a \div m)
           x == (a % m) + b
<1>1. a = m * (a \div m) + (a % m) /\ a % m \in 0..(m - 1) /\ a \div m \in Int
  BY Quotient
<1>2. a + b = m * ((a + b) \div m) + r /\ r \in 0..(m - 1) /\ (a + b) \div m \in Int
  BY Quotient
<1>3. x = m * q + r /\ x \in Int /\ q \in Int BY <1>1, <1>2
<1> HIDE DEF r, q, x
<1>4. x % m = r BY <1>2, <1>3, Remainder
<1> QED BY <1>4 DEF r, x

----------------------------------------------------------------------------
(* The atomic words                                                        *)

\* A counter has a range, and half of it is below 0 where it is signed.
LEMMA Ranges ==
  ASSUME family \in Kinds
  PROVE  /\ W \in Nat \ {0} /\ Cardinality(Procs) <= W
         /\ HalfRange \in Nat \ {0}
         /\ CounterRange = 2 * HalfRange
         /\ CounterRange \in Nat /\ CounterRange > 0
         /\ Cardinality(Procs) * MaxRefs < CounterRange
<1>1. W \in Nat \ {0} /\ Cardinality(Procs) <= W BY AtomicAssumption DEF W
<1>2. Cardinality(Procs) * MaxRefs < CounterRange BY AtomicAssumption, Zenon DEF W, CounterRange
<1>3. 2^(W - 1) \in Nat \ {0} /\ 2^W = 2 * 2^(W - 1) BY PowerAssumption, Zenon DEF W
<1>4. HalfRange \in Nat \ {0} /\ CounterRange = 2 * HalfRange BY <1>3, Zenon DEF HalfRange, CounterRange
<1> QED BY <1>1, <1>2, <1>4

\* Two values of the counter are never told by the same signed number.
LEMMA SignedApart ==
  ASSUME family \in Kinds, NEW v \in 0 .. CounterRange - 1, NEW u \in 0 .. CounterRange - 1,
         Signed(v) = Signed(u)
  PROVE  v = u
BY Ranges DEF Signed

\* Signed gives an integer that differs from the counter by a round, or not.
LEMMA SignedIs ==
  ASSUME family \in Kinds, NEW v \in 0 .. CounterRange - 1
  PROVE  /\ Signed(v) \in Int
         /\ Signed(v) = v \/ Signed(v) = v - CounterRange
BY Ranges DEF Signed

\* A wrapped number is a value of the counter.
LEMMA WrapsWithin ==
  ASSUME family \in Kinds, NEW n \in Int
  PROVE  Wrap(n) \in 0 .. CounterRange - 1
<1> DEFINE m == CounterRange
<1>1. m \in Nat /\ m > 0 BY Ranges
<1> HIDE DEF m
<1>2. n % m \in 0 .. m - 1 BY <1>1, Quotient
<1> QED BY <1>2 DEF Wrap, m

\* Steps of AtomicOps outside the role under consideration leave its variables.
LEMMA RoleStays ==
  ASSUME [AtomicNext]_atomicVars
  PROVE  role' = role /\ family' = family
BY DEF AtomicNext, atomicVars, Only, FetchAdd, AddReturn, CasRead, CasTry, CasTryBool, Drain, AddAny,
       Get, Put, PutReturn, PutFetch, MaskStep, FetchOr, FetchAnd, FetchXor, TestAndSetBit, Look,
       GiveBack, TestAndClearBit, TestAndChangeBit

\* What depends on the family only does not change.
LEMMA SameFamily ==
  ASSUME family' = family
  PROVE  /\ W' = W /\ CounterRange' = CounterRange /\ HalfRange' = HalfRange
         /\ BitNumbers' = BitNumbers /\ BitsOf' = BitsOf
         /\ \A v : Signed(v)' = Signed(v) /\ Wrap(v)' = Wrap(v)
<1>1. W' = W BY DEF W
<1>2. CounterRange' = CounterRange /\ HalfRange' = HalfRange BY <1>1, Zenon DEF CounterRange, HalfRange
<1> QED BY <1>1, <1>2 DEF BitNumbers, BitsOf, Signed, Wrap

----------------------------------------------------------------------------
(* Tickets                                                                 *)

\* The i-th value drawn is i - 1, as the family tells it.
Drawn ==
  IF role = "tickets"
  THEN /\ local \in [Procs -> Int]
       /\ issued \in Seq(Int) /\ Len(issued) <= CounterRange
       /\ counter = Wrap(Len(issued))
       /\ \A i \in 1 .. Len(issued) : issued[i] = Signed(i - 1)
  ELSE issued = <<>>

FamilyOK == family \in Kinds /\ role \in Roles

\* A draw hands out the number of draws before it.
LEMMA DrawNext ==
  ASSUME FamilyOK, Drawn, MoreTickets, role = "tickets", UNCHANGED <<family, role>>,
         local' \in [Procs -> Int],
         counter' = Add(counter, 1), issued' = Append(issued, Signed(counter))
  PROVE  Drawn'
<1>1. PICK n \in Nat : n = Len(issued) BY DEF Drawn
<1>2. PICK m \in Nat : m = CounterRange /\ m > 0 BY Ranges DEF FamilyOK
<1>3. n < m BY <1>1, <1>2 DEF MoreTickets
<1>4. counter = n BY <1>1, <1>2, <1>3, ModSmall DEF Drawn, Wrap
<1>5. counter' = Wrap(n + 1) BY <1>4 DEF Add
<1>6. Signed(counter) \in Int BY <1>2, <1>3, <1>4, SignedIs DEF FamilyOK
<1>7. PICK s \in Seq(Int) : s = issued BY DEF Drawn
<1>8. PICK t \in Int : t = Signed(counter) BY <1>6
<1>9. /\ issued' = Append(s, t) /\ Append(s, t) \in Seq(Int) /\ Len(Append(s, t)) = n + 1
      /\ \A i \in 1 .. n + 1 : Append(s, t)[i] = IF i = n + 1 THEN t ELSE s[i]
  BY <1>1, <1>7, <1>8, AppendProperties
<1>10. ASSUME NEW i \in 1 .. n + 1 PROVE issued'[i] = Signed(i - 1)
  <2>1. CASE i = n + 1 BY <1>4, <1>8, <1>9, <2>1
  <2>2. CASE i # n + 1
    <3>1. i \in 1 .. n BY <2>2
    <3>2. s[i] = Signed(i - 1) BY <1>1, <1>7, <3>1 DEF Drawn
    <3> QED BY <1>9, <2>2, <3>2
  <2> QED BY <2>1, <2>2
<1> QED BY <1>2, <1>3, <1>5, <1>9, <1>10, SameFamily DEF Drawn

\* The counter while tickets are drawn.
LEMMA DrawnCounter ==
  ASSUME FamilyOK, Drawn, role = "tickets"
  PROVE  counter \in 0 .. CounterRange - 1
<1>1. Len(issued) \in Int BY DEF Drawn
<1> QED BY <1>1, WrapsWithin DEF Drawn, FamilyOK

\* A draw of bk_atomic_add_return, taken back by one, is that of bk_atomic_add.
LEMMA ReturnedNext ==
  ASSUME FamilyOK, Drawn, role = "tickets"
  PROVE  Wrap(Add(counter, 1) - 1) = counter
<1> DEFINE m == CounterRange
           c == counter
<1>1. m \in Nat /\ m > 0 /\ c \in 0 .. m - 1 BY Ranges, DrawnCounter DEF FamilyOK
<1> HIDE DEF m, c
<1>2. (((c + 1) % m) - 1) % m = c
  <2>1. (c + 1) % m \in Int BY <1>1, Quotient
  <2>2. (((c + 1) % m) + (-1)) % m = ((c + 1) + (-1)) % m BY <1>1, ModPlus
  <2>3. c % m = c BY <1>1, ModSmall
  <2>4. ((c + 1) % m) + (-1) = ((c + 1) % m) - 1 /\ (c + 1) + (-1) = c BY <1>1, <2>1
  <2> QED BY <2>2, <2>3, <2>4
<1> QED BY <1>2 DEF Wrap, Add, m, c

\* Every step draws the next number or none.
LEMMA DrawnStep ==
  ASSUME FamilyOK, Drawn, [AtomicNext]_atomicVars
  PROVE  Drawn'
<1>0. role' = role /\ family' = family BY RoleStays
<1>1. ASSUME NEW p \in Procs, FetchAdd(p) \/ AddReturn(p) PROVE Drawn'
  <2>1. role = "tickets" BY <1>1 DEF FetchAdd, AddReturn, Only
  <2>2. Signed(Wrap(Add(counter, 1) - 1)) = Signed(counter) BY <2>1, ReturnedNext
  <2>3. /\ MoreTickets /\ local' = local
        /\ counter' = Add(counter, 1) /\ issued' = Append(issued, Signed(counter))
    BY <1>1, <2>2 DEF FetchAdd, AddReturn, Draw
  <2>4. local' \in [Procs -> Int] BY <2>1, <2>3 DEF Drawn
  <2> QED BY <1>0, <2>1, <2>3, <2>4, DrawNext
<1>2. ASSUME NEW p \in Procs, CasTry(p) \/ CasTryBool(p) PROVE Drawn'
  <2>1. role = "tickets" /\ MoreTickets BY <1>2 DEF CasTry, CasTryBool, Only
  <2>2. local' \in [Procs -> Int]
    <3>1. counter \in Int BY <2>1, Ranges, DrawnCounter DEF FamilyOK
    <3> QED BY <1>2, <2>1, <3>1 DEF CasTry, CasTryBool, Idle, Drawn
  <2>3. CASE counter = local[p]
    <3>1. counter' = Add(counter, 1) /\ issued' = Append(issued, Signed(counter))
      BY <1>2, <2>3 DEF CasTry, CasTryBool, CmpXchg
    <3> QED BY <1>0, <2>1, <2>2, <3>1, DrawNext
  <2>4. CASE counter # local[p]
    <3>1. counter' = counter /\ issued' = issued
      BY <1>2, <2>4 DEF CasTry, CasTryBool, CmpXchg
    <3> QED BY <1>0, <2>1, <2>2, <3>1, SameFamily DEF Drawn
  <2> QED BY <2>3, <2>4
<1>3. ASSUME NEW p \in Procs, CasRead(p) PROVE Drawn'
  <2>1. role = "tickets" BY <1>3 DEF CasRead, Only
  <2>2. counter \in Int BY <2>1, Ranges, DrawnCounter DEF FamilyOK
  <2>3. local' \in [Procs -> Int] /\ counter' = counter /\ issued' = issued
    BY <1>3, <2>1, <2>2 DEF CasRead, Drawn
  <2> QED BY <1>0, <2>1, <2>3, SameFamily DEF Drawn
<1>4. CASE role # "tickets"
  <2>1. issued' = issued
    BY <1>4 DEF AtomicNext, atomicVars, Only, FetchAdd, AddReturn, CasRead, CasTry, CasTryBool,
       Drain, AddAny, Get, Put, PutReturn, PutFetch, MaskStep, FetchOr, FetchAnd, FetchXor,
       TestAndSetBit, Look, GiveBack, TestAndClearBit, TestAndChangeBit
  <2> QED BY <1>0, <1>4, <2>1 DEF Drawn
<1>5. CASE /\ role = "tickets"
           /\ \A p \in Procs : ~(FetchAdd(p) \/ AddReturn(p) \/ CasRead(p) \/ CasTry(p) \/ CasTryBool(p))
  <2>1. UNCHANGED atomicVars
    BY <1>5 DEF AtomicNext, Only, Drain, AddAny, Get, Put, PutReturn, PutFetch, MaskStep, FetchOr,
       FetchAnd, FetchXor, TestAndSetBit, Look, GiveBack, TestAndClearBit, TestAndChangeBit
  <2> QED BY <1>0, <2>1, SameFamily DEF Drawn, atomicVars
<1> QED BY <1>1, <1>2, <1>3, <1>4, <1>5

\* The values drawn differ.
LEMMA DrawnApart ==
  ASSUME FamilyOK, Drawn
  PROVE  Tickets
<1>1. CASE role = "tickets"
  <2>1. ASSUME NEW i \in DOMAIN issued, NEW j \in DOMAIN issued, issued[i] = issued[j] PROVE i = j
    <3>1. i \in 1 .. Len(issued) /\ j \in 1 .. Len(issued) /\ Len(issued) \in Nat
      BY <1>1, LenProperties DEF Drawn
    <3>2. Signed(i - 1) = Signed(j - 1) BY <1>1, <2>1, <3>1 DEF Drawn
    <3>3. i - 1 \in 0 .. CounterRange - 1 /\ j - 1 \in 0 .. CounterRange - 1
      <4>1. Len(issued) <= CounterRange BY <1>1 DEF Drawn
      <4>2. PICK n \in Nat : n = Len(issued) BY <3>1
      <4>3. PICK m \in Nat : m = CounterRange BY Ranges DEF FamilyOK
      <4> QED BY <3>1, <4>1, <4>2, <4>3
    <3>4. i - 1 = j - 1 BY <3>2, <3>3, SignedApart DEF FamilyOK
    <3> QED BY <3>1, <3>4
  <2> QED BY <1>1, <2>1 DEF Tickets, Drawn
<1>2. CASE role # "tickets"
  <2>1. DOMAIN issued = {} BY <1>2 DEF Drawn
  <2> QED BY <1>2, <2>1 DEF Tickets
<1> QED BY <1>1, <1>2

----------------------------------------------------------------------------
(* The drained counter                                                     *)

\* The counter is what was added and not taken out, up to its width.
Drained == role = "drain" => due \in Int /\ counter = Wrap(due)

LEMMA DrainedStep ==
  ASSUME FamilyOK, Drained, [AtomicNext]_atomicVars
  PROVE  Drained'
<1>0. role' = role /\ family' = family BY RoleStays
<1> SUFFICES ASSUME role = "drain" PROVE due' \in Int /\ counter' = Wrap(due')
  BY <1>0, SameFamily DEF Drained
<1> DEFINE m == CounterRange
           c == counter
           d == due
<1>1. m \in Nat /\ m > 0 /\ d \in Int /\ c = d % m BY Ranges DEF FamilyOK, Drained, Wrap
<1>2. ASSUME NEW p \in Procs, NEW i \in {-1, 1, 2}, AddAny(p, i)
      PROVE  due' \in Int /\ counter' = Wrap(due')
  <2>1. due' = d + i /\ counter' = (c + i) % m BY <1>2 DEF AddAny, Add, Wrap
  <2> HIDE DEF m, c, d
  <2>2. i \in Int OBVIOUS
  <2>3. ((d % m) + i) % m = (d + i) % m BY <1>1, <2>2, ModPlus
  <2>4. (c + i) % m = (d + i) % m BY <1>1, <2>3
  <2>5. d + i \in Int BY <1>1, <2>2
  <2> QED BY <2>1, <2>4, <2>5 DEF Wrap, m
<1>3. ASSUME NEW p \in Procs, Drain(p) PROVE due' \in Int /\ counter' = Wrap(due')
  <2>1. PICK e : e = Signed(c) /\ due' = d - e /\ counter' = 0 BY <1>3 DEF Drain
  <2>2. c \in 0 .. m - 1 BY <1>1, Quotient
  <2>3. e \in Int /\ (e = c \/ e = c - m) BY <2>1, <2>2, SignedIs DEF FamilyOK
  <2> HIDE DEF m, c, d
  <2>4. PICK q \in Int : d = m * q + c BY <1>1, Quotient
  <2>5. PICK r \in {q, q + 1} : d - e = m * r
    <3>1. CASE e = c BY <1>1, <2>2, <2>4, <3>1
    <3>2. CASE e = c - m
      <4>1. d - e = m * q + m /\ m * (q + 1) = m * q + m BY <1>1, <2>2, <2>4, <3>2
      <4> QED BY <4>1
    <3> QED BY <2>3, <3>1, <3>2
  <2>6. d - e \in Int /\ r \in Int /\ d - e = m * r + 0 /\ 0 \in 0 .. m - 1
    BY <1>1, <2>3, <2>5
  <2>7. (d - e) % m = 0 BY <1>1, <2>6, Remainder
  <2> QED BY <2>1, <2>6, <2>7 DEF Wrap, m
<1>4. CASE UNCHANGED <<counter, due>> BY <1>0, <1>4, SameFamily DEF Drained
<1>5. ASSUME ~UNCHANGED <<counter, due>>
      PROVE  \E p \in Procs : Drain(p) \/ \E i \in {-1, 1, 2} : AddAny(p, i)
  BY <1>5 DEF AtomicNext, atomicVars, Only, FetchAdd, AddReturn, CasRead, CasTry, CasTryBool,
     Get, Put, PutReturn, PutFetch, MaskStep, FetchOr, FetchAnd, FetchXor,
     TestAndSetBit, Look, GiveBack, TestAndClearBit, TestAndChangeBit
<1> QED BY <1>2, <1>3, <1>4, <1>5

\* Then an exchange takes out all of it, and a signed family its sign too.
LEMMA DrainedAll ==
  ASSUME FamilyOK, Drained
  PROVE  DrainsAll
<1> SUFFICES ASSUME role = "drain", due \in -HalfRange .. HalfRange - 1,
                    family \in {"atomic", "atomic_long"}
             PROVE  Signed(counter) = due
  BY DEF DrainsAll, Drained
<1> DEFINE m == CounterRange
           h == HalfRange
           c == counter
           d == due
<1>1. /\ m \in Nat /\ m > 0 /\ h \in Nat /\ m = 2 * h /\ d \in Int /\ c = d % m
      /\ d >= -h /\ d < h
  BY Ranges DEF FamilyOK, Drained, Wrap
<1>2. c = IF d >= 0 THEN d ELSE d + m
  <2> HIDE DEF m, c, d, h
  <2>1. CASE d >= 0 BY <1>1, <2>1, ModSmall
  <2>2. CASE d < 0
    <3>1. d + m \in 0 .. m - 1 /\ -1 \in Int /\ d = m * (-1) + (d + m) BY <1>1, <2>2
    <3>2. d % m = d + m BY <1>1, <3>1, Remainder
    <3> QED BY <1>1, <2>2, <3>2
  <2> QED BY <1>1, <2>1, <2>2
<1>3. (IF c >= h THEN c - m ELSE c) = d
  <2> HIDE DEF m, c, d, h
  <2> QED BY <1>1, <1>2
<1> QED BY <1>3 DEF Signed

----------------------------------------------------------------------------
(* The reference count                                                     *)

\* The references that contexts hold, numbered for each.
Tokens(r) == {t \in Procs \X (1 .. MaxRefs) : t[2] <= r[t[1]]}

\* The counter counts them, and the object is freed when there are none.
Referred ==
  role = "refs" => /\ refs \in [Procs -> 0 .. MaxRefs]
                   /\ counter = Cardinality(Tokens(refs))
                   /\ freed = IF Tokens(refs) = {} THEN 1 ELSE 0

\* No counter is too small for all references there can be.
LEMMA TokensFit ==
  ASSUME FamilyOK, NEW r
  PROVE  /\ IsFiniteSet(Tokens(r)) /\ Cardinality(Tokens(r)) \in Nat
         /\ Cardinality(Tokens(r)) < CounterRange
<1> DEFINE S == Procs \X (1 .. MaxRefs)
           T == Tokens(r)
<1>1. IsFiniteSet(1 .. MaxRefs) /\ Cardinality(1 .. MaxRefs) = MaxRefs
  BY AtomicAssumption, FS_Interval
<1>2. IsFiniteSet(S) /\ Cardinality(S) = Cardinality(Procs) * MaxRefs
  BY <1>1, AtomicAssumption, FS_Product
<1>3. Cardinality(S) \in Nat BY <1>2, FS_CardinalityType
<1>4. T \subseteq S BY DEF Tokens
<1> HIDE DEF S, T
<1>5. IsFiniteSet(T) /\ Cardinality(T) <= Cardinality(S) BY <1>2, <1>4, FS_Subset
<1>6. Cardinality(T) \in Nat BY <1>5, FS_CardinalityType
<1>7. Cardinality(T) < CounterRange BY <1>2, <1>3, <1>5, <1>6, Ranges DEF FamilyOK
<1> QED BY <1>5, <1>6, <1>7 DEF T

\* One reference more.
LEMMA GetToken ==
  ASSUME FamilyOK, Referred, NEW p \in Procs, Get(p)
  PROVE  Referred'
<1> DEFINE t == <<p, refs[p] + 1>>
           S == Tokens(refs)
           T == Tokens(refs')
           m == CounterRange
<1>0. role = "refs" BY DEF Get, Only
<1>1. /\ refs \in [Procs -> 0 .. MaxRefs] /\ MaxRefs \in Nat
      /\ refs[p] \in 1 .. MaxRefs - 1 /\ refs' = [refs EXCEPT ![p] = @ + 1]
  BY <1>0, AtomicAssumption DEF Referred, Get
<1>2. refs' \in [Procs -> 0 .. MaxRefs] BY <1>1
<1>3. t \notin S /\ T = S \cup {t} BY <1>1 DEF Tokens
<1>4. S # {} /\ T # {}
  <2>1. <<p, 1>> \in S BY <1>1 DEF Tokens
  <2> QED BY <2>1, <1>3
<1>5. /\ IsFiniteSet(S) /\ Cardinality(S) \in Nat /\ Cardinality(T) < m
      /\ m \in Nat
  BY TokensFit, Ranges DEF FamilyOK
<1>6. counter = Cardinality(S) /\ counter' = (counter + 1) % m /\ freed = 0 /\ freed' = 0
  BY <1>0, <1>4 DEF Get, Add, Wrap, Referred
<1> HIDE DEF t, S, T, m
<1>7. Cardinality(T) = Cardinality(S) + 1 BY <1>3, <1>5, FS_AddElement
<1>8. (Cardinality(S) + 1) % m = Cardinality(S) + 1 BY <1>5, <1>7, ModSmall
<1>9. counter' = Cardinality(T) BY <1>6, <1>7, <1>8
<1> QED BY <1>2, <1>4, <1>6, <1>9 DEF Referred, T

\* One reference less, and the object with the last.
LEMMA PutToken ==
  ASSUME FamilyOK, Referred, NEW p \in Procs, NEW final, Put(p, final),
         final <=> (counter = 1)
  PROVE  Referred'
<1> DEFINE t == <<p, refs[p]>>
           S == Tokens(refs)
           T == Tokens(refs')
           m == CounterRange
<1>0. role = "refs" BY DEF Put, Only
<1>1. /\ refs \in [Procs -> 0 .. MaxRefs] /\ MaxRefs \in Nat
      /\ refs[p] \in 1 .. MaxRefs /\ refs' = [refs EXCEPT ![p] = @ - 1]
  BY <1>0, AtomicAssumption DEF Referred, Put
<1>2. refs' \in [Procs -> 0 .. MaxRefs] BY <1>1
<1>3. t \in S /\ T = S \ {t} BY <1>1 DEF Tokens
<1>4. /\ IsFiniteSet(S) /\ Cardinality(S) \in Nat /\ Cardinality(S) < m
      /\ IsFiniteSet(T) /\ Cardinality(T) \in Nat
      /\ m \in Nat
  BY TokensFit, Ranges DEF FamilyOK
<1>5. /\ counter = Cardinality(S) /\ counter' = (counter + (-1)) % m
      /\ freed = (IF S = {} THEN 1 ELSE 0) /\ freed' = (IF final THEN freed + 1 ELSE freed)
  BY <1>0 DEF Put, Add, Wrap, Referred
<1> HIDE DEF t, S, T, m
<1>6. Cardinality(T) = Cardinality(S) - 1 BY <1>3, <1>4, FS_RemoveElement
<1>7. Cardinality(T) % m = Cardinality(T) BY <1>4, <1>6, ModSmall
<1>8. counter' = Cardinality(T) BY <1>4, <1>5, <1>6, <1>7
<1>9. T = {} <=> Cardinality(T) = 0 BY <1>4, FS_EmptySet
<1>10. freed' = IF T = {} THEN 1 ELSE 0 BY <1>3, <1>4, <1>5, <1>6, <1>9
<1> QED BY <1>2, <1>8, <1>10 DEF Referred, T

\* bk_atomic_dec_return answers 0 when bk_atomic_dec answers 1.
LEMMA LastAnswer ==
  ASSUME FamilyOK, Referred, NEW p \in Procs, role = "refs", refs[p] > 0
  PROVE  Add(counter, -1) = 0 <=> counter = 1
<1> DEFINE S == Tokens(refs)
           m == CounterRange
<1>1. <<p, 1>> \in S BY AtomicAssumption DEF Referred, Tokens
<1>2. IsFiniteSet(S) /\ Cardinality(S) \in Nat /\ Cardinality(S) < m /\ m \in Nat
  BY TokensFit, Ranges DEF FamilyOK
<1>3. counter = Cardinality(S) /\ Add(counter, -1) = (counter + (-1)) % m
  BY DEF Add, Wrap, Referred
<1> HIDE DEF S, m
<1>4. Cardinality(S) # 0 BY <1>1, <1>2, FS_EmptySet
<1>5. (Cardinality(S) - 1) % m = Cardinality(S) - 1 BY <1>2, <1>4, ModSmall
<1>6. Add(counter, -1) = Cardinality(S) - 1 BY <1>2, <1>3, <1>5
<1> QED BY <1>2, <1>3, <1>6

LEMMA ReferredStep ==
  ASSUME FamilyOK, Referred, [AtomicNext]_atomicVars
  PROVE  Referred'
<1>0. role' = role BY RoleStays
<1>1. ASSUME NEW p \in Procs, Get(p) PROVE Referred' BY <1>1, GetToken
<1>2. ASSUME NEW p \in Procs, PutReturn(p) \/ PutFetch(p) PROVE Referred'
  <2>1. role = "refs" /\ refs[p] > 0 BY <1>2 DEF PutReturn, PutFetch, Put, Only
  <2>2. Add(counter, -1) = 0 <=> counter = 1 BY <2>1, LastAnswer
  <2>3. CASE PutReturn(p) BY <2>2, <2>3, PutToken DEF PutReturn
  <2>4. CASE PutFetch(p) BY <2>4, PutToken DEF PutFetch
  <2> QED BY <1>2, <2>3, <2>4
<1>3. CASE UNCHANGED <<counter, refs, freed>> BY <1>0, <1>3 DEF Referred
<1>4. ASSUME role = "refs", ~UNCHANGED <<counter, refs, freed>>
      PROVE  \E p \in Procs : Get(p) \/ PutReturn(p) \/ PutFetch(p)
  BY <1>4 DEF AtomicNext, atomicVars, Only, FetchAdd, AddReturn, CasRead, CasTry, CasTryBool,
     Drain, AddAny, MaskStep, FetchOr, FetchAnd, FetchXor,
     TestAndSetBit, Look, GiveBack, TestAndClearBit, TestAndChangeBit
<1>5. CASE role # "refs" BY <1>0, <1>5 DEF Referred
<1> QED BY <1>1, <1>2, <1>3, <1>4, <1>5

\* No reference is left when no context holds one.
LEMMA ReferredLast ==
  ASSUME Referred
  PROVE  FreedByLast
<1> SUFFICES ASSUME role = "refs"
             PROVE  Tokens(refs) = {} <=> \A p \in Procs : refs[p] = 0
  BY DEF FreedByLast, Referred
<1>1. refs \in [Procs -> 0 .. MaxRefs] /\ MaxRefs \in Nat BY AtomicAssumption DEF Referred
<1>2. ASSUME NEW p \in Procs, refs[p] # 0 PROVE <<p, 1>> \in Tokens(refs)
  BY <1>1, <1>2 DEF Tokens
<1>3. ASSUME NEW t \in Tokens(refs), \A p \in Procs : refs[p] = 0 PROVE FALSE
  BY <1>3 DEF Tokens
<1> QED BY <1>2, <1>3

----------------------------------------------------------------------------
(* Flags                                                                   *)

\* Context p is recorded as the one that set bit p while the bit is 1.
Flagged ==
  role = "flags" =>
    /\ owner \in [BitNumbers -> SUBSET Procs]
    /\ \A p \in Procs : owner[p] = IF p \in word THEN {p} ELSE {}

\* Every context has a bit in the word.
LEMMA ProcsAreBits ==
  ASSUME FamilyOK
  PROVE  Procs \subseteq BitsOf /\ Procs \subseteq BitNumbers
<1> DEFINE w == W
           n == Cardinality(Procs)
           k == Words
<1>1. w \in Nat /\ n <= w /\ k \in Nat /\ k >= 1 /\ n \in Nat /\ Procs = 0 .. n - 1
  BY Ranges, AtomicAssumption, FS_CardinalityType DEF FamilyOK
<1> HIDE DEF w, n, k
<1>2. k * w >= w
  <2>1. PICK j \in Nat : k = j + 1 BY <1>1
  <2>2. k * w = j * w + w /\ j * w >= 0 BY <1>1, <2>1
  <2> QED BY <1>1, <2>2
<1>3. k * w \in Nat BY <1>1
<1>4. Procs \subseteq 0 .. w - 1 /\ Procs \subseteq 0 .. k * w - 1 BY <1>1, <1>2, <1>3
<1> QED BY <1>4 DEF w, k, BitsOf, BitNumbers

LEMMA FlaggedStep ==
  ASSUME FamilyOK, Flagged, [AtomicNext]_atomicVars
  PROVE  Flagged'
<1>0. role' = role /\ BitNumbers' = BitNumbers BY RoleStays, SameFamily
<1>1. Procs \subseteq BitsOf /\ Procs \subseteq BitNumbers BY ProcsAreBits
<1>2. ASSUME NEW p \in Procs, role = "flags", FetchOr(p) \/ FetchAnd(p) \/ FetchXor(p) PROVE Flagged'
  <2>1. PICK mine \in BOOLEAN :
          /\ owner' = [owner EXCEPT ![p] = IF mine THEN {p} ELSE {}]
          /\ p \in word' <=> mine
          /\ \A q \in Procs : q # p => (q \in word' <=> q \in word)
    <3>1. CASE FetchOr(p) BY <3>1 DEF FetchOr, MaskStep
    <3>2. CASE FetchAnd(p) BY <1>1, <3>2 DEF FetchAnd, MaskStep
    <3>3. CASE FetchXor(p) BY <1>2, <3>3 DEF FetchXor, MaskStep, Flagged
    <3> QED BY <1>2, <3>1, <3>2, <3>3
  <2>2. owner \in [BitNumbers -> SUBSET Procs] BY <1>2 DEF Flagged
  <2>3. owner' \in [BitNumbers -> SUBSET Procs] BY <2>1, <2>2
  <2>4. ASSUME NEW q \in Procs PROVE owner'[q] = IF q \in word' THEN {q} ELSE {}
    <3>1. q \in BitNumbers BY <1>1
    <3> QED BY <1>2, <2>1, <2>2, <3>1 DEF Flagged
  <2> QED BY <1>0, <2>3, <2>4 DEF Flagged
<1>3. CASE UNCHANGED <<word, owner>> BY <1>0, <1>3 DEF Flagged
<1>4. ASSUME role = "flags", ~UNCHANGED <<word, owner>>
      PROVE  \E p \in Procs : FetchOr(p) \/ FetchAnd(p) \/ FetchXor(p)
  BY <1>4 DEF AtomicNext, atomicVars, Only, FetchAdd, AddReturn, CasRead, CasTry, CasTryBool, Draw,
     Drain, AddAny, Get, Put, PutReturn, PutFetch, TestAndSetBit, Look, GiveBack,
     TestAndClearBit, TestAndChangeBit
<1>5. CASE role # "flags" BY <1>0, <1>5 DEF Flagged
<1> QED BY <1>2, <1>3, <1>4, <1>5

----------------------------------------------------------------------------
(* Claimed bits                                                            *)

\* A bit that is 1 has one owner, a bit that is 0 none.
Claimed ==
  role = "bits" =>
    /\ array \in [0 .. Words - 1 -> SUBSET BitsOf]
    /\ owner \in [BitNumbers -> SUBSET Procs]
    /\ pc \in [Procs -> {"idle", "cas", "claim"}]
    /\ local \in [Procs -> Int]
    /\ \A p \in Procs : pc[p] = "claim" => local[p] \in BitNumbers
    /\ \A nr \in BitNumbers :
         IF TestBit(nr) THEN \E p \in Procs : owner[nr] = {p} ELSE owner[nr] = {}

\* A number stands for one bit of one word.
LEMMA BitPlace ==
  ASSUME FamilyOK, NEW m \in BitNumbers, NEW n \in BitNumbers
  PROVE  /\ Index(m) \in 0 .. Words - 1 /\ m % W \in BitsOf
         /\ Index(m) = Index(n) /\ m % W = n % W => m = n
<1> DEFINE w == W
           k == Words
<1>1. w \in Nat /\ w > 0 /\ k \in Nat /\ m \in 0 .. k * w - 1 /\ n \in 0 .. k * w - 1
  BY Ranges, AtomicAssumption DEF FamilyOK, BitNumbers
<1> HIDE DEF w, k
<1>2. m \in Int /\ n \in Int /\ k * w \in Int /\ m >= 0 /\ m < k * w BY <1>1
<1>3. m = w * (m \div w) + (m % w) /\ m % w \in 0 .. w - 1 /\ m \div w \in Int
  BY <1>1, <1>2, Quotient
<1>4. n = w * (n \div w) + (n % w) BY <1>1, <1>2, Quotient
<1>5. m \div w \in 0 .. k - 1
  <2> DEFINE d == m \div w
             r == m % w
  <2>1. d \in Int /\ r \in 0 .. w - 1 /\ m = w * d + r BY <1>3
  <2> HIDE DEF d, r
  <2>2. d >= 0
    <3> SUFFICES ASSUME d < 0 PROVE FALSE BY <2>1
    <3>1. PICK e \in Nat : e = -1 - d BY <2>1
    <3>2. d = -1 - e BY <2>1, <3>1
    <3>3. w * d = -w - w * e /\ w * e >= 0 BY <1>1, <3>2
    <3> QED BY <1>1, <1>2, <2>1, <3>3
  <2>3. d < k
    <3> SUFFICES ASSUME d >= k PROVE FALSE BY <1>1, <2>1
    <3>1. PICK e \in Nat : e = d - k BY <1>1, <2>1
    <3>2. d = k + e BY <1>1, <2>1, <3>1
    <3>3. w * d = k * w + w * e /\ w * e >= 0 BY <1>1, <3>2
    <3> QED BY <1>1, <1>2, <2>1, <3>3
  <2>4. d \in 0 .. k - 1 BY <1>1, <2>1, <2>2, <2>3
  <2> QED BY <2>4 DEF d
<1>6. m \div w = n \div w /\ m % w = n % w => m = n
  <2> SUFFICES ASSUME m \div w = n \div w, m % w = n % w PROVE m = n OBVIOUS
  <2>1. w * (m \div w) + (m % w) = w * (n \div w) + (n % w) OBVIOUS
  <2> QED BY <1>3, <1>4, <2>1
<1> QED BY <1>3, <1>5, <1>6 DEF w, k, Index, BitsOf

\* Writing one bit of its word changes that bit only.
LEMMA BitWritten ==
  ASSUME FamilyOK, family' = family, array \in [0 .. Words - 1 -> SUBSET BitsOf],
         NEW nr \in BitNumbers, NEW new \in SUBSET BitsOf,
         array' = [array EXCEPT ![Index(nr)] = new],
         \A b \in BitsOf : b # nr % W => (b \in new <=> b \in array[Index(nr)])
  PROVE  /\ array' \in [0 .. Words - 1 -> SUBSET BitsOf]
         /\ TestBit(nr)' <=> nr % W \in new
         /\ \A m \in BitNumbers : m # nr => (TestBit(m)' <=> TestBit(m))
<1>1. Index(nr) \in 0 .. Words - 1 /\ nr % W \in BitsOf BY BitPlace
<1>2. W' = W /\ \A m : Index(m)' = Index(m) BY SameFamily DEF Index
<1>3. array' \in [0 .. Words - 1 -> SUBSET BitsOf] /\ array'[Index(nr)] = new BY <1>1
<1>4. TestBit(nr)' <=> nr % W \in new BY <1>2, <1>3 DEF TestBit
<1>5. ASSUME NEW m \in BitNumbers, m # nr PROVE TestBit(m)' <=> TestBit(m)
  <2>1. /\ Index(m) \in 0 .. Words - 1 /\ m % W \in BitsOf
        /\ ~(Index(m) = Index(nr) /\ m % W = nr % W)
    BY <1>5, BitPlace
  <2>2. m % W \in array'[Index(m)] <=> m % W \in array[Index(m)]
    <3>1. CASE Index(m) = Index(nr)
      <4>1. array'[Index(m)] = new /\ m % W # nr % W BY <1>3, <2>1, <3>1
      <4> QED BY <2>1, <3>1, <4>1
    <3>2. CASE Index(m) # Index(nr) BY <2>1, <3>2
    <3> QED BY <3>1, <3>2
  <2> QED BY <1>2, <2>2 DEF TestBit
<1> QED BY <1>3, <1>4, <1>5

\* A bit that was seen free is claimed by the context that finds it still 0.
LEMMA ClaimKeeps ==
  ASSUME FamilyOK, Claimed, NEW p \in Procs, TestAndSetBit(p)
  PROVE  Claimed'
<1>0. role = "bits" /\ role' = role /\ family' = family BY DEF TestAndSetBit, Only
<1>1. PICK nr \in BitNumbers : nr = local[p] BY <1>0 DEF TestAndSetBit, Claimed
<1>2. /\ array \in [0 .. Words - 1 -> SUBSET BitsOf] /\ owner \in [BitNumbers -> SUBSET Procs]
      /\ pc \in [Procs -> {"idle", "cas", "claim"}] /\ local \in [Procs -> Int]
  BY <1>0 DEF Claimed
<1>3. Index(nr) \in 0 .. Words - 1 /\ nr % W \in BitsOf BY BitPlace
<1>4. PICK new \in SUBSET BitsOf : new = array[Index(nr)] \cup {nr % W} BY <1>2, <1>3
<1>5. array' = [array EXCEPT ![Index(nr)] = new]
  BY <1>1, <1>2, <1>3, <1>4 DEF TestAndSetBit, Mask
<1>6. /\ array' \in [0 .. Words - 1 -> SUBSET BitsOf]
      /\ TestBit(nr)'
      /\ \A m \in BitNumbers : m # nr => (TestBit(m)' <=> TestBit(m))
  BY <1>0, <1>2, <1>4, <1>5, BitWritten
<1>7. owner' = IF TestBit(nr) THEN owner ELSE [owner EXCEPT ![nr] = @ \cup {p}]
  BY <1>1 DEF TestAndSetBit
<1>8. owner' \in [BitNumbers -> SUBSET Procs] BY <1>2, <1>7
<1>9. \E q \in Procs : owner'[nr] = {q} BY <1>0, <1>2, <1>7 DEF Claimed
<1>10. \A m \in BitNumbers : m # nr => owner'[m] = owner[m] BY <1>2, <1>7
<1>11. /\ pc' \in [Procs -> {"idle", "cas", "claim"}] /\ local' \in [Procs -> Int]
       /\ \A q \in Procs : pc'[q] = "claim" => local'[q] \in BitNumbers
  BY <1>0, <1>2 DEF TestAndSetBit, Idle, Claimed
<1>12. ASSUME NEW m \in BitNumbers
       PROVE  IF TestBit(m)' THEN \E q \in Procs : owner'[m] = {q} ELSE owner'[m] = {}
  BY <1>0, <1>6, <1>9, <1>10 DEF Claimed
<1> QED BY <1>0, <1>6, <1>8, <1>11, <1>12, SameFamily DEF Claimed

\* A bit that is given back is 0 and nobody's.
LEMMA GiveBackKeeps ==
  ASSUME FamilyOK, Claimed, NEW p \in Procs, NEW nr \in BitNumbers,
         TestAndClearBit(p, nr) \/ TestAndChangeBit(p, nr)
  PROVE  Claimed'
<1> DEFINE new == array[Index(nr)] \ {nr % W}
<1>0. role = "bits" /\ role' = role /\ family' = family
  BY DEF TestAndClearBit, TestAndChangeBit, GiveBack, Only
<1>1. /\ array \in [0 .. Words - 1 -> SUBSET BitsOf] /\ owner \in [BitNumbers -> SUBSET Procs]
      /\ pc \in [Procs -> {"idle", "cas", "claim"}] /\ local \in [Procs -> Int]
  BY <1>0 DEF Claimed
<1>2. Index(nr) \in 0 .. Words - 1 /\ nr % W \in BitsOf BY BitPlace
<1>3. new \in SUBSET BitsOf BY <1>1, <1>2
<1>4. p \in owner[nr] BY DEF TestAndClearBit, TestAndChangeBit, GiveBack
<1>5. TestBit(nr) /\ owner[nr] = {p} BY <1>0, <1>4 DEF Claimed
<1>6. GiveBack(p, nr, new)
  <2>1. CASE TestAndClearBit(p, nr) BY <2>1 DEF TestAndClearBit, Mask
  <2>2. CASE TestAndChangeBit(p, nr)
    <3>1. nr % W \in array[Index(nr)] BY <1>5 DEF TestBit
    <3>2. (array[Index(nr)] \cup {nr % W}) \ (array[Index(nr)] \cap {nr % W}) = new BY <3>1
    <3> QED BY <2>2, <3>2, Zenon DEF TestAndChangeBit, Mask
  <2> QED BY <2>1, <2>2
<1>7. array' = [array EXCEPT ![Index(nr)] = new] BY <1>6 DEF GiveBack
<1>8. owner' = [owner EXCEPT ![nr] = @ \ {p}] /\ pc' = pc /\ local' = local BY <1>6 DEF GiveBack
<1>9. nr % W \notin new /\ \A b \in BitsOf : b # nr % W => (b \in new <=> b \in array[Index(nr)])
  OBVIOUS
<1> HIDE DEF new
<1>10. /\ array' \in [0 .. Words - 1 -> SUBSET BitsOf]
       /\ ~TestBit(nr)'
       /\ \A m \in BitNumbers : m # nr => (TestBit(m)' <=> TestBit(m))
  BY <1>0, <1>1, <1>3, <1>7, <1>9, BitWritten
<1>11. /\ owner' \in [BitNumbers -> SUBSET Procs] /\ owner'[nr] = {}
       /\ \A m \in BitNumbers : m # nr => owner'[m] = owner[m]
  BY <1>1, <1>5, <1>8
<1>12. ASSUME NEW m \in BitNumbers
       PROVE  IF TestBit(m)' THEN \E q \in Procs : owner'[m] = {q} ELSE owner'[m] = {}
  BY <1>0, <1>10, <1>11 DEF Claimed
<1> QED BY <1>0, <1>1, <1>8, <1>10, <1>11, <1>12, SameFamily DEF Claimed

LEMMA ClaimedStep ==
  ASSUME FamilyOK, Claimed, [AtomicNext]_atomicVars
  PROVE  Claimed'
<1>0. role' = role /\ family' = family BY RoleStays
<1>1. ASSUME NEW p \in Procs, NEW nr \in BitNumbers, Look(p, nr) PROVE Claimed'
  <2>1. /\ role = "bits" /\ UNCHANGED <<array, owner>>
        /\ local' = [local EXCEPT ![p] = nr] /\ pc' = [pc EXCEPT ![p] = "claim"]
    BY <1>1 DEF Look, Only
  <2>2. nr \in Int BY DEF BitNumbers
  <2>3. /\ pc \in [Procs -> {"idle", "cas", "claim"}] /\ local \in [Procs -> Int]
        /\ \A q \in Procs : pc[q] = "claim" => local[q] \in BitNumbers
    BY <2>1 DEF Claimed
  <2>4. /\ pc' \in [Procs -> {"idle", "cas", "claim"}] /\ local' \in [Procs -> Int]
        /\ \A q \in Procs : pc'[q] = "claim" => local'[q] \in BitNumbers
    BY <2>1, <2>2, <2>3
  <2>5. \A m : TestBit(m)' <=> TestBit(m) BY <1>0, <2>1, SameFamily DEF TestBit, Index
  <2> QED BY <1>0, <2>1, <2>4, <2>5, SameFamily DEF Claimed
<1>2. CASE UNCHANGED <<array, owner, pc, local>>
  <2>1. \A m : TestBit(m)' <=> TestBit(m) BY <1>0, <1>2, SameFamily DEF TestBit, Index
  <2> QED BY <1>0, <1>2, <2>1, SameFamily DEF Claimed
<1>3. ASSUME role = "bits", ~UNCHANGED <<array, owner, pc, local>>
      PROVE  \E p \in Procs :
               \/ TestAndSetBit(p)
               \/ \E nr \in BitNumbers : Look(p, nr) \/ TestAndClearBit(p, nr) \/ TestAndChangeBit(p, nr)
  BY <1>3 DEF AtomicNext, atomicVars, Only, FetchAdd, AddReturn, CasRead, CasTry, CasTryBool,
     Drain, AddAny, Get, Put, PutReturn, PutFetch, MaskStep, FetchOr, FetchAnd, FetchXor
<1>4. CASE role # "bits" BY <1>0, <1>4 DEF Claimed
<1> QED BY <1>1, <1>2, <1>3, <1>4, ClaimKeeps, GiveBackKeeps

\* Bits and flags are held as the words say.
LEMMA BitsHeld ==
  ASSUME FamilyOK, Flagged, Claimed
  PROVE  BitsExact
<1>1. ASSUME role = "bits", NEW nr \in BitNumbers
      PROVE  Cardinality(owner[nr]) = IF TestBit(nr) THEN 1 ELSE 0
  <2>1. CASE TestBit(nr)
    <3>1. PICK p \in Procs : owner[nr] = {p} BY <1>1, <2>1 DEF Claimed
    <3>2. Cardinality({p}) = 1 BY FS_Singleton
    <3> QED BY <2>1, <3>1, <3>2
  <2>2. CASE ~TestBit(nr)
    <3>1. owner[nr] = {} BY <1>1, <2>2 DEF Claimed
    <3>2. Cardinality({}) = 0 BY FS_EmptySet
    <3> QED BY <2>2, <3>1, <3>2
  <2> QED BY <2>1, <2>2
<1>2. ASSUME role = "flags", NEW p \in Procs PROVE p \in word <=> owner[p] = {p}
  <2>1. owner[p] = IF p \in word THEN {p} ELSE {} BY <1>2 DEF Flagged
  <2> QED BY <2>1
<1> QED BY <1>1, <1>2 DEF BitsExact

----------------------------------------------------------------------------
(* All uses of the atomic words                                            *)

AtomicInv == FamilyOK /\ Drawn /\ Drained /\ Referred /\ Flagged /\ Claimed

LEMMA AtomicStart == AtomicInit => AtomicInv
<1> SUFFICES ASSUME AtomicInit PROVE AtomicInv OBVIOUS
<1>1. FamilyOK BY DEF AtomicInit, FamilyOK
<1>2. CounterRange \in Nat /\ CounterRange > 0 BY <1>1, Ranges DEF FamilyOK
<1>3. role # "refs" => counter = Wrap(0)
  <2> DEFINE m == CounterRange
  <2>1. m \in Nat /\ m > 0 BY <1>2
  <2> HIDE DEF m
  <2>2. 0 % m = 0 BY <2>1, ModSmall
  <2> QED BY <2>2 DEF AtomicInit, Wrap, m
<1>4. Drawn
  <2>1. issued = <<>> /\ issued \in Seq(Int) /\ Len(issued) = 0 BY EmptySeq DEF AtomicInit
  <2>2. local \in [Procs -> Int] BY DEF AtomicInit
  <2> QED BY <1>2, <1>3, <2>1, <2>2 DEF Drawn
<1>5. Drained BY <1>3 DEF AtomicInit, Drained
<1>6. Referred
  <2> SUFFICES ASSUME role = "refs" PROVE Referred BY DEF Referred
  <2>1. refs = [p \in Procs |-> 1] /\ counter = Cardinality(Procs) /\ freed = 0 BY DEF AtomicInit
  <2>2. MaxRefs \in Nat \ {0} /\ IsFiniteSet(Procs) /\ Procs # {} BY AtomicAssumption
  <2>3. Tokens(refs) = {<<p, 1>> : p \in Procs} BY <2>1, <2>2 DEF Tokens
  <2> DEFINE T == {<<p, 1>> : p \in Procs}
             f == [p \in Procs |-> <<p, 1>>]
  <2>4. f \in Bijection(Procs, T) BY DEF Bijection, Injection, Surjection, IsInjective
  <2>5. ExistsBijection(Procs, T) BY <2>4 DEF ExistsBijection
  <2>6. Cardinality(T) = Cardinality(Procs) BY <2>2, <2>5, FS_Bijection
  <2>7. T # {} BY <2>2
  <2> QED BY <2>1, <2>2, <2>3, <2>6, <2>7 DEF Referred
<1>7. Flagged
  <2> SUFFICES ASSUME role = "flags" PROVE Flagged BY DEF Flagged
  <2> QED BY <1>1, ProcsAreBits DEF AtomicInit, Flagged
<1>8. Claimed
  <2> SUFFICES ASSUME role = "bits" PROVE Claimed BY DEF Claimed
  <2>1. ASSUME NEW nr \in BitNumbers PROVE ~TestBit(nr)
    <3>1. Index(nr) \in 0 .. Words - 1 BY <1>1, BitPlace
    <3> QED BY <3>1 DEF AtomicInit, TestBit
  <2> QED BY <2>1 DEF AtomicInit, Claimed
<1> QED BY <1>1, <1>4, <1>5, <1>6, <1>7, <1>8 DEF AtomicInv

LEMMA AtomicStep == AtomicInv /\ [AtomicNext]_atomicVars => AtomicInv'
<1> SUFFICES ASSUME AtomicInv, [AtomicNext]_atomicVars PROVE AtomicInv' OBVIOUS
<1>1. FamilyOK /\ Drawn /\ Drained /\ Referred /\ Flagged /\ Claimed BY DEF AtomicInv
<1>2. FamilyOK' BY <1>1, RoleStays DEF FamilyOK
<1> QED BY <1>1, <1>2, DrawnStep, DrainedStep, ReferredStep, FlaggedStep, ClaimedStep DEF AtomicInv

\* The inductive invariant of the atomic words: the i-th ticket is i - 1, the
\* counter is what was added modulo its range or counts the references that are
\* held, and every bit that is 1 is one context's (atomic_common.h).
THEOREM AtomicKept == AtomicSpec => []AtomicInv
<1> QED BY AtomicStart, AtomicStep, PTL DEF AtomicSpec

\* The four families, whatever their width, neither lose nor duplicate what any
\* number of contexts put in: tickets differ, an exchange with 0 takes out all,
\* the last reference frees, a bit is claimed once (atomic_common.h:117-743).
THEOREM AtomicsExact == AtomicSpec => [](Tickets /\ DrainsAll /\ FreedByLast /\ BitsExact)
<1>1. AtomicInv => Tickets /\ DrainsAll /\ FreedByLast /\ BitsExact
  BY DrawnApart, DrainedAll, ReferredLast, BitsHeld DEF AtomicInv
<1> QED BY <1>1, AtomicKept, PTL

----------------------------------------------------------------------------
(* Exception frames                                                        *)

Thrown == [class : Classes, from : Nat]
FrameRecords == [block : Nat, exception : Thrown \cup {NoException}]
Stages == {"body", "clauses", "handler", "finally"}
BlockRecords == [frame : Nat \cup {NoFrame}, stage : Stages, handled : Nat]

\* A block with a frame has the one of its own number; without a failed push
\* the frames are those of the blocks, one for one.
Stacked(q, b) ==
  /\ \A i \in 1 .. Len(b) : b[i].frame = i \/ b[i].frame = NoFrame
  /\ \A i \in 1 .. Len(q) : q[i].block \in 1 .. Len(b) /\ b[q[i].block].frame # NoFrame
  /\ \A i, j \in 1 .. Len(q) : i < j => q[i].block < q[j].block

Owned(q, b) ==
  /\ Len(q) = Len(b)
  /\ \A i \in 1 .. Len(q) :
       /\ q[i].block = i
       /\ q[i].exception # NoException => q[i].exception.from = i
       /\ b[i].handled > 0 => q[i].exception # NoException

FrameInv ==
  /\ frames \in Seq(FrameRecords)
  /\ blocks \in Seq(BlockRecords)
  /\ pushFailures \in 0 .. MaxFailures
  /\ Stacked(frames, blocks)
  /\ pushFailures = 0 => Owned(frames, blocks)

\* Both stacks by their elements.
LEMMA Elements ==
  ASSUME NEW S, NEW s \in Seq(S)
  PROVE  /\ Len(s) \in Nat /\ DOMAIN s = 1 .. Len(s)
         /\ \A i \in 1 .. Len(s) : s[i] \in S
         /\ s = <<>> <=> Len(s) = 0
BY LenProperties, ElementOfSeq, EmptySeq

LEMMA ExceptionSet ==
  ASSUME NEW r \in FrameRecords, NEW e \in Thrown
  PROVE  [r EXCEPT !.exception = e] = [block |-> r.block, exception |-> e]
BY DEF FrameRecords

\* A block moved to another stage, and one that handles an exception once more.
LEMMA StageSet ==
  ASSUME NEW s \in Seq(BlockRecords), NEW k \in 1 .. Len(s), NEW moved \in Stages
  PROVE  [s EXCEPT ![k].stage = moved]
           = [s EXCEPT ![k] = [frame |-> s[k].frame, stage |-> moved, handled |-> s[k].handled]]
<1>1. PICK r \in BlockRecords : r = s[k] BY Elements
<1>2. [r EXCEPT !.stage = moved] = [frame |-> r.frame, stage |-> moved, handled |-> r.handled]
  BY DEF BlockRecords
<1>3. [s[k] EXCEPT !.stage = moved] = [frame |-> s[k].frame, stage |-> moved, handled |-> s[k].handled]
  BY <1>1, <1>2, Zenon
<1> QED BY <1>3, Zenon

LEMMA HandledSet ==
  ASSUME NEW s \in Seq(BlockRecords), NEW k \in 1 .. Len(s), NEW moved \in Stages
  PROVE  [s EXCEPT ![k].stage = moved, ![k].handled = IF @ < 2 THEN @ + 1 ELSE @]
           = [s EXCEPT ![k] = [frame |-> s[k].frame, stage |-> moved,
                               handled |-> IF s[k].handled < 2 THEN s[k].handled + 1 ELSE s[k].handled]]
<1> DEFINE a == [frame |-> s[k].frame, stage |-> moved, handled |-> s[k].handled]
           b == [frame |-> s[k].frame, stage |-> moved,
                 handled |-> IF s[k].handled < 2 THEN s[k].handled + 1 ELSE s[k].handled]
           t == [s EXCEPT ![k] = a]
<1>1. s[k] \in BlockRecords BY Elements
<1>2. a \in BlockRecords /\ b \in BlockRecords /\ a.handled = s[k].handled BY <1>1 DEF BlockRecords
<1>3. [s EXCEPT ![k].stage = moved] = t BY StageSet
<1>4. t[k] = a /\ k \in DOMAIN t BY <1>2, Elements
<1>5. [a EXCEPT !.handled = IF @ < 2 THEN @ + 1 ELSE @] = b BY <1>1 DEF BlockRecords
<1>6. [t EXCEPT ![k].handled = IF @ < 2 THEN @ + 1 ELSE @] = [t EXCEPT ![k] = b]
  <2> HIDE DEF a, b, t
  <2>1. [t[k] EXCEPT !.handled = IF @ < 2 THEN @ + 1 ELSE @] = b BY <1>4, <1>5, Zenon
  <2> QED BY <2>1, Zenon
<1>7. [t EXCEPT ![k] = b] = [s EXCEPT ![k] = b]
  <2> HIDE DEF a, b
  <2> QED OBVIOUS
<1>8. [s EXCEPT ![k].stage = moved, ![k].handled = IF @ < 2 THEN @ + 1 ELSE @]
        = [[s EXCEPT ![k].stage = moved] EXCEPT ![k].handled = IF @ < 2 THEN @ + 1 ELSE @]
  OBVIOUS
<1>9. [s EXCEPT ![k].stage = moved, ![k].handled = IF @ < 2 THEN @ + 1 ELSE @]
        = [t EXCEPT ![k].handled = IF @ < 2 THEN @ + 1 ELSE @]
  BY <1>3, <1>8, Zenon
<1> QED BY <1>6, <1>7, <1>9, Zenon

LEMMA Replaced ==
  ASSUME NEW S, NEW s \in Seq(S), NEW i \in 1 .. Len(s), NEW e \in S
  PROVE  /\ [s EXCEPT ![i] = e] \in Seq(S) /\ Len([s EXCEPT ![i] = e]) = Len(s)
         /\ \A j \in 1 .. Len(s) : [s EXCEPT ![i] = e][j] = IF j = i THEN e ELSE s[j]
BY ExceptSeq

LEMMA Pushed ==
  ASSUME NEW S, NEW s \in Seq(S), NEW e \in S
  PROVE  /\ Append(s, e) \in Seq(S) /\ Len(Append(s, e)) = Len(s) + 1
         /\ \A i \in 1 .. Len(s) : Append(s, e)[i] = s[i]
         /\ Append(s, e)[Len(s) + 1] = e
BY AppendProperties, LenProperties

\* Entering a block with a frame.
LEMMA TryPushes ==
  ASSUME FrameInv, NEW f \in FrameRecords, NEW b \in BlockRecords,
         f.block = Len(blocks) + 1, f.exception = NoException,
         b.frame = Len(blocks) + 1, b.handled = 0,
         frames' = Append(frames, f), blocks' = Append(blocks, b), pushFailures' = pushFailures
  PROVE  FrameInv'
<1>1. PICK q \in Seq(FrameRecords) : q = frames BY DEF FrameInv
<1>2. PICK s \in Seq(BlockRecords) : s = blocks BY DEF FrameInv
<1>3. PICK n \in Nat : n = Len(q) BY Elements
<1>4. PICK k \in Nat : k = Len(s) BY Elements
<1>5. PICK r \in Seq(FrameRecords) :
        /\ r = Append(q, f) /\ Len(r) = n + 1
        /\ \A i \in 1 .. n : r[i] = q[i]
        /\ r[n + 1] = f
  <2>1. /\ Append(q, f) \in Seq(FrameRecords) /\ Len(Append(q, f)) = Len(q) + 1
        /\ \A i \in 1 .. Len(q) : Append(q, f)[i] = q[i]
        /\ Append(q, f)[Len(q) + 1] = f
    BY Pushed, Zenon
  <2> QED BY <1>3, <2>1, Zenon
<1>6. PICK t \in Seq(BlockRecords) :
        /\ t = Append(s, b) /\ Len(t) = k + 1
        /\ \A i \in 1 .. k : t[i] = s[i]
        /\ t[k + 1] = b
  <2>1. /\ Append(s, b) \in Seq(BlockRecords) /\ Len(Append(s, b)) = Len(s) + 1
        /\ \A i \in 1 .. Len(s) : Append(s, b)[i] = s[i]
        /\ Append(s, b)[Len(s) + 1] = b
    BY Pushed, Zenon
  <2> QED BY <1>4, <2>1, Zenon
<1>7. Stacked(q, s) /\ (pushFailures = 0 => Owned(q, s)) BY <1>1, <1>2 DEF FrameInv
<1>8. f.block = k + 1 /\ b.frame = k + 1 /\ k + 1 # NoFrame BY <1>2, <1>4, FrameAssumption
<1>9. Stacked(r, t)
  <2>1. ASSUME NEW i \in 1 .. k + 1 PROVE t[i].frame = i \/ t[i].frame = NoFrame
    BY <1>4, <1>6, <1>7, <1>8 DEF Stacked
  <2>2. ASSUME NEW i \in 1 .. n + 1 PROVE r[i].block \in 1 .. k + 1 /\ t[r[i].block].frame # NoFrame
    <3>1. CASE i = n + 1 BY <1>5, <1>6, <1>8, <3>1
    <3>2. CASE i # n + 1
      <4>1. i \in 1 .. n /\ r[i] = q[i] BY <1>5, <3>2
      <4>2. q[i].block \in 1 .. k /\ s[q[i].block].frame # NoFrame BY <1>3, <1>4, <1>7, <4>1 DEF Stacked
      <4>3. t[q[i].block] = s[q[i].block] BY <1>6, <4>2
      <4> QED BY <4>1, <4>2, <4>3
    <3> QED BY <3>1, <3>2
  <2>3. ASSUME NEW i \in 1 .. n + 1, NEW j \in 1 .. n + 1, i < j PROVE r[i].block < r[j].block
    <3>1. i \in 1 .. n /\ r[i] = q[i] /\ q[i].block \in 1 .. k
      BY <1>3, <1>4, <1>5, <1>7, <2>3 DEF Stacked
    <3>2. CASE j = n + 1 BY <1>5, <1>8, <3>1, <3>2
    <3>3. CASE j # n + 1
      <4>1. j \in 1 .. n /\ r[j] = q[j] BY <1>5, <3>3
      <4> QED BY <1>3, <1>7, <2>3, <3>1, <4>1 DEF Stacked
    <3> QED BY <3>2, <3>3
  <2> QED BY <1>5, <1>6, <2>1, <2>2, <2>3 DEF Stacked
<1>10. pushFailures = 0 => Owned(r, t)
  <2> SUFFICES ASSUME pushFailures = 0 PROVE Owned(r, t) OBVIOUS
  <2>1. n = k BY <1>3, <1>4, <1>7 DEF Owned
  <2>2. ASSUME NEW i \in 1 .. n + 1
        PROVE  /\ r[i].block = i
               /\ r[i].exception # NoException => r[i].exception.from = i
               /\ t[i].handled > 0 => r[i].exception # NoException
    <3>1. CASE i = n + 1 BY <1>5, <1>6, <1>8, <2>1, <3>1
    <3>2. CASE i # n + 1
      <4>1. i \in 1 .. n /\ r[i] = q[i] /\ t[i] = s[i] BY <1>5, <1>6, <2>1, <3>2
      <4> QED BY <1>3, <1>7, <4>1 DEF Owned
    <3> QED BY <3>1, <3>2
  <2> QED BY <1>5, <1>6, <2>1, <2>2 DEF Owned
<1> QED BY <1>1, <1>2, <1>5, <1>6, <1>9, <1>10 DEF FrameInv

\* Entering a block whose frame cannot be pushed.
LEMMA TryFails ==
  ASSUME FrameInv, NEW b \in BlockRecords, b.frame = NoFrame, pushFailures < MaxFailures,
         frames' = frames, blocks' = Append(blocks, b), pushFailures' = pushFailures + 1
  PROVE  FrameInv'
<1>1. PICK q \in Seq(FrameRecords) : q = frames BY DEF FrameInv
<1>2. PICK s \in Seq(BlockRecords) : s = blocks BY DEF FrameInv
<1>3. Len(q) \in Nat BY Elements
<1>4. PICK k \in Nat : k = Len(s) BY Elements
<1>5. PICK t \in Seq(BlockRecords) :
        /\ t = Append(s, b) /\ Len(t) = k + 1
        /\ \A i \in 1 .. k : t[i] = s[i]
        /\ t[k + 1] = b
  BY <1>4, Pushed
<1>6. Stacked(q, s) BY <1>1, <1>2 DEF FrameInv
<1>7. \A i \in 1 .. k + 1 : t[i].frame = i \/ t[i].frame = NoFrame
  BY <1>4, <1>5, <1>6 DEF Stacked
<1>8. ASSUME NEW i \in 1 .. Len(q) PROVE q[i].block \in 1 .. k + 1 /\ t[q[i].block].frame # NoFrame
  <2>1. q[i].block \in 1 .. k /\ s[q[i].block].frame # NoFrame BY <1>4, <1>6 DEF Stacked
  <2>2. t[q[i].block] = s[q[i].block] BY <1>5, <2>1
  <2> QED BY <2>1, <2>2
<1>9. Stacked(q, t) BY <1>5, <1>6, <1>7, <1>8 DEF Stacked
<1>10. pushFailures' \in 0 .. MaxFailures /\ pushFailures' # 0 BY FrameAssumption DEF FrameInv
<1> QED BY <1>1, <1>2, <1>5, <1>9, <1>10 DEF FrameInv

\* Leaving a block pops the innermost frame, if there is one.
LEMMA EndPops ==
  ASSUME FrameInv, Len(blocks) > 0,
         frames' = IF frames = <<>> THEN frames ELSE Front(frames),
         blocks' = Front(blocks), pushFailures' = pushFailures
  PROVE  FrameInv'
<1>1. PICK q \in Seq(FrameRecords) : q = frames BY DEF FrameInv
<1>2. PICK s \in Seq(BlockRecords) : s = blocks BY DEF FrameInv
<1>3. PICK n \in Nat : n = Len(q) BY Elements
<1>4. PICK k \in Nat : k = Len(s) /\ k > 0 BY <1>2, Elements
<1>5. PICK m \in Nat : m = (IF n = 0 THEN 0 ELSE n - 1) OBVIOUS
<1>6. PICK r \in Seq(FrameRecords) :
        /\ r = (IF q = <<>> THEN q ELSE SubSeq(q, 1, Len(q) - 1)) /\ Len(r) = m
        /\ \A i \in 1 .. m : r[i] = q[i]
  <2>1. CASE n = 0 BY <1>3, <1>5, <2>1, Elements
  <2>2. CASE n # 0
    <3> DEFINE r == SubSeq(q, 1, Len(q) - 1)
    <3>1. q # <<>> /\ m = Len(q) - 1 BY <1>3, <1>5, <2>2, Elements
    <3>2. r \in Seq(FrameRecords) /\ Len(r) = m /\ \A i \in 1 .. m : r[i] = q[i]
      BY <1>3, <1>5, <2>2, Elements
    <3> QED BY <3>1, <3>2
  <2> QED BY <2>1, <2>2
<1>7. PICK t \in Seq(BlockRecords) :
        /\ t = SubSeq(s, 1, Len(s) - 1) /\ Len(t) = k - 1
        /\ \A i \in 1 .. k - 1 : t[i] = s[i]
  <2> DEFINE t == SubSeq(s, 1, Len(s) - 1)
  <2>1. t \in Seq(BlockRecords) /\ Len(t) = k - 1 /\ \A i \in 1 .. k - 1 : t[i] = s[i]
    BY <1>4, Elements
  <2> QED BY <2>1
<1>8. Stacked(q, s) /\ (pushFailures = 0 => Owned(q, s)) BY <1>1, <1>2 DEF FrameInv
<1>9. Stacked(r, t)
  <2>1. ASSUME NEW i \in 1 .. m
        PROVE  r[i] = q[i] /\ q[i].block \in 1 .. k - 1 /\ s[q[i].block].frame # NoFrame
    <3>1. i \in 1 .. n /\ n \in 1 .. n /\ i < n BY <1>5
    <3>2. q[i].block < q[n].block /\ q[i].block \in 1 .. k /\ q[n].block \in 1 .. k
          /\ s[q[i].block].frame # NoFrame
      BY <1>3, <1>4, <1>8, <3>1 DEF Stacked
    <3>3. PICK x \in 1 .. k : x = q[i].block BY <3>2
    <3>4. x \in 1 .. k - 1
      <4>1. PICK y \in 1 .. k : y = q[n].block BY <3>2
      <4>2. x < y BY <3>2, <3>3, <4>1
      <4> QED BY <1>4, <4>2
    <3>5. r[i] = q[i] BY <1>6
    <3> QED BY <3>2, <3>3, <3>4, <3>5
  <2>2. ASSUME NEW i \in 1 .. m PROVE r[i].block \in 1 .. k - 1 /\ t[r[i].block].frame # NoFrame
    BY <1>7, <2>1
  <2>3. ASSUME NEW i \in 1 .. m, NEW j \in 1 .. m, i < j PROVE r[i].block < r[j].block
    <3>1. i \in 1 .. n /\ j \in 1 .. n BY <1>5
    <3> QED BY <1>3, <1>8, <2>1, <2>3, <3>1 DEF Stacked
  <2>4. ASSUME NEW i \in 1 .. k - 1 PROVE t[i].frame = i \/ t[i].frame = NoFrame
    <3>1. i \in 1 .. k BY <1>4
    <3> QED BY <1>4, <1>7, <1>8, <3>1 DEF Stacked
  <2> QED BY <1>6, <1>7, <2>2, <2>3, <2>4 DEF Stacked
<1>10. pushFailures = 0 => Owned(r, t)
  <2> SUFFICES ASSUME pushFailures = 0 PROVE Owned(r, t) OBVIOUS
  <2>1. n = k /\ m = k - 1 BY <1>3, <1>4, <1>5, <1>8 DEF Owned
  <2>2. ASSUME NEW i \in 1 .. m
        PROVE  /\ r[i].block = i
               /\ r[i].exception # NoException => r[i].exception.from = i
               /\ t[i].handled > 0 => r[i].exception # NoException
    <3>1. i \in 1 .. n /\ r[i] = q[i] /\ t[i] = s[i] BY <1>5, <1>6, <1>7, <2>1
    <3> QED BY <1>3, <1>8, <3>1 DEF Owned
  <2> QED BY <1>6, <1>7, <2>1, <2>2 DEF Owned
<1>11. frames' = r /\ blocks' = t BY <1>1, <1>2, <1>6, <1>7 DEF Front
<1> QED BY <1>6, <1>7, <1>9, <1>10, <1>11 DEF FrameInv

\* A throw gives the innermost frame an exception of the innermost block.
LEMMA ThrowKeeps ==
  ASSUME FrameInv, frames # <<>>, NEW f \in FrameRecords,
         f.block = frames[Len(frames)].block,
         f.exception # NoException, f.exception.from = Len(blocks),
         frames' = [frames EXCEPT ![Len(frames)] = f], UNCHANGED <<blocks, pushFailures>>
  PROVE  FrameInv'
<1>1. PICK q \in Seq(FrameRecords) : q = frames BY DEF FrameInv
<1>2. PICK s \in Seq(BlockRecords) : s = blocks BY DEF FrameInv
<1>3. PICK n \in Nat : n = Len(q) BY Elements
<1>4. n \in 1 .. n BY <1>1, <1>3, Elements
<1>5. PICK r \in Seq(FrameRecords) :
        /\ r = [q EXCEPT ![n] = f] /\ Len(r) = n
        /\ \A i \in 1 .. n : r[i] = IF i = n THEN f ELSE q[i]
  <2>1. n \in 1 .. Len(q) BY <1>3, <1>4
  <2>2. /\ [q EXCEPT ![n] = f] \in Seq(FrameRecords) /\ Len([q EXCEPT ![n] = f]) = Len(q)
        /\ \A i \in 1 .. Len(q) : [q EXCEPT ![n] = f][i] = IF i = n THEN f ELSE q[i]
    BY <2>1, Replaced
  <2> QED BY <1>3, <2>2
<1>6. frames' = r BY <1>1, <1>3, <1>5
<1>7. Stacked(q, s) /\ (pushFailures = 0 => Owned(q, s)) BY <1>1, <1>2 DEF FrameInv
<1>8. \A i \in 1 .. n : r[i].block = q[i].block BY <1>1, <1>3, <1>5
<1>9. Stacked(r, s) BY <1>3, <1>5, <1>7, <1>8 DEF Stacked
<1>10. pushFailures = 0 => Owned(r, s)
  <2> SUFFICES ASSUME pushFailures = 0 PROVE Owned(r, s) OBVIOUS
  <2>1. n = Len(s) /\ Owned(q, s) BY <1>3, <1>7 DEF Owned
  <2>2. r[n].exception # NoException /\ r[n].exception.from = n BY <1>2, <1>4, <1>5, <2>1
  <2>3. ASSUME NEW i \in 1 .. n
        PROVE  /\ r[i].block = i
               /\ r[i].exception # NoException => r[i].exception.from = i
               /\ s[i].handled > 0 => r[i].exception # NoException
    <3>1. r[i].block = i BY <1>3, <1>8, <2>1 DEF Owned
    <3>2. CASE i = n BY <2>2, <3>1, <3>2
    <3>3. CASE i # n
      <4>1. r[i] = q[i] BY <1>5, <3>3
      <4> QED BY <1>3, <2>1, <4>1 DEF Owned
    <3> QED BY <3>2, <3>3
  <2> QED BY <1>5, <2>1, <2>3 DEF Owned
<1> QED BY <1>2, <1>5, <1>6, <1>9, <1>10 DEF FrameInv

\* Going on in the innermost block; it has handled an exception only if its
\* frame has one.
LEMMA GoesOn ==
  ASSUME FrameInv, Len(blocks) > 0, NEW b \in BlockRecords, b.frame = blocks[Len(blocks)].frame,
         b.handled = blocks[Len(blocks)].handled
           \/ (pushFailures = 0 => frames[Len(blocks)].exception # NoException),
         blocks' = [blocks EXCEPT ![Len(blocks)] = b],
         UNCHANGED <<frames, pushFailures>>
  PROVE  FrameInv'
<1>1. PICK q \in Seq(FrameRecords) : q = frames BY DEF FrameInv
<1>2. PICK s \in Seq(BlockRecords) : s = blocks BY DEF FrameInv
<1>3. PICK k \in Nat : k = Len(s) /\ k > 0 BY <1>2, Elements
<1>4. k \in 1 .. k BY <1>3
<1>5. PICK t \in Seq(BlockRecords) :
        /\ t = [s EXCEPT ![k] = b] /\ Len(t) = k
        /\ \A i \in 1 .. k : t[i] = IF i = k THEN b ELSE s[i]
  <2>1. k \in 1 .. Len(s) BY <1>3, <1>4
  <2>2. /\ [s EXCEPT ![k] = b] \in Seq(BlockRecords) /\ Len([s EXCEPT ![k] = b]) = Len(s)
        /\ \A i \in 1 .. Len(s) : [s EXCEPT ![k] = b][i] = IF i = k THEN b ELSE s[i]
    BY <2>1, Replaced
  <2> QED BY <1>3, <2>2
<1>6. blocks' = t BY <1>2, <1>3, <1>5
<1>7. Stacked(q, s) /\ (pushFailures = 0 => Owned(q, s)) BY <1>1, <1>2 DEF FrameInv
<1>8. \A i \in 1 .. k : t[i].frame = s[i].frame BY <1>2, <1>3, <1>5
<1>9. Stacked(q, t) BY <1>3, <1>5, <1>7, <1>8 DEF Stacked
<1>10. pushFailures = 0 => Owned(q, t)
  <2> SUFFICES ASSUME pushFailures = 0 PROVE Owned(q, t) OBVIOUS
  <2>1. Owned(q, s) /\ Len(q) = k BY <1>3, <1>7 DEF Owned
  <2>2. t[k].handled > 0 => q[k].exception # NoException
    <3>1. s[k].handled > 0 => q[k].exception # NoException BY <1>4, <2>1 DEF Owned
    <3>2. t[k] = b BY <1>4, <1>5
    <3> QED BY <1>1, <1>2, <1>3, <3>1, <3>2
  <2>3. \A i \in 1 .. k : t[i].handled > 0 => q[i].exception # NoException
    BY <1>5, <2>1, <2>2 DEF Owned
  <2> QED BY <1>5, <2>1, <2>3 DEF Owned
<1> QED BY <1>1, <1>5, <1>6, <1>9, <1>10 DEF FrameInv

\* A throw gives the innermost frame, if there is one, an exception of one class.
LEMMA RaiseKeeps ==
  ASSUME FrameInv, NEW class \in Classes, Raise(class), UNCHANGED <<blocks, pushFailures>>
  PROVE  FrameInv'
<1>1. PICK q \in Seq(FrameRecords) : q = frames BY DEF FrameInv
<1>2. PICK k \in Nat : k = Len(blocks) BY Elements DEF FrameInv
<1>3. CASE frames = <<>>
  <2>1. frames' = frames BY <1>3, Zenon DEF Raise
  <2> QED BY <2>1 DEF FrameInv
<1>4. CASE frames # <<>>
  <2>1. PICK n \in 1 .. Len(q) : n = Len(q) BY <1>1, <1>4, Elements
  <2>2. PICK e \in Thrown : e = [class |-> class, from |-> k] /\ e.from = k
    <3>1. [class |-> class, from |-> k] \in Thrown BY DEF Thrown
    <3> QED BY <3>1, Zenon
  <2>3. e # NoException BY FrameAssumption DEF Thrown
  <2>4. q[n] \in FrameRecords BY Elements
  <2>5. PICK f \in FrameRecords :
          /\ f.block = q[n].block /\ f.exception = e
          /\ f = [block |-> q[n].block, exception |-> e]
    BY <2>4 DEF FrameRecords
  <2>6. [q EXCEPT ![n].exception = e] = [q EXCEPT ![n] = f]
    <3>1. PICK r \in FrameRecords : r = q[n] BY <2>4
    <3>2. [r EXCEPT !.exception = e] = [block |-> r.block, exception |-> e] BY ExceptionSet
    <3>3. [q[n] EXCEPT !.exception = e] = f BY <2>5, <3>1, <3>2, Zenon
    <3> QED BY <3>3, Zenon
  <2>7. frames' = [frames EXCEPT ![Len(frames)].exception = [class |-> class, from |-> Len(blocks)]]
    BY <1>4, Zenon DEF Raise, Here
  <2>8. frames' = [q EXCEPT ![n].exception = e] BY <1>1, <1>2, <2>1, <2>2, <2>7, Zenon
  <2>9. frames' = [frames EXCEPT ![Len(frames)] = f] BY <1>1, <2>1, <2>6, <2>8, Zenon
  <2>10. f.block = frames[Len(frames)].block BY <1>1, <2>1, <2>5, Zenon
  <2>11. f.exception # NoException /\ f.exception.from = Len(blocks)
    BY <1>2, <2>2, <2>3, <2>5, Zenon
  <2> QED BY <1>4, <2>5, <2>9, <2>10, <2>11, ThrowKeeps, Zenon
<1> QED BY <1>3, <1>4

\* A clause that throws again throws an exception of one of the classes.
LEMMA HeldClasses ==
  ASSUME FrameInv
  PROVE  Held \subseteq Classes
<1> DEFINE own == {i \in DOMAIN frames : frames[i].block = Block.frame}
<1>1. CASE own = {} BY <1>1 DEF Held
<1>2. CASE own # {}
  <2>1. Held = {f.class : f \in {frames[i].exception : i \in own} \ {NoException}}
    BY <1>2 DEF Held
  <2>2. ASSUME NEW i \in own, frames[i].exception # NoException
        PROVE  frames[i].exception.class \in Classes
    <3>1. frames[i] \in FrameRecords BY Elements DEF FrameInv
    <3> QED BY <2>2, <3>1 DEF FrameRecords, Thrown
  <2> QED BY <2>1, <2>2
<1> QED BY <1>1, <1>2

LEMMA StageKeeps ==
  ASSUME FrameInv, Here > 0, NEW moved \in Stages, ToStage(moved),
         UNCHANGED <<frames, pushFailures>>
  PROVE  FrameInv'
<1>1. PICK s \in Seq(BlockRecords) : s = blocks BY DEF FrameInv
<1> DEFINE k == Len(s)
           b == [frame |-> s[k].frame, stage |-> moved, handled |-> s[k].handled]
<1>2. k > 0 /\ k \in 1 .. Len(s) BY <1>1, Elements DEF Here
<1>3. s[k] \in BlockRecords BY <1>2, Elements
<1>4. b \in BlockRecords /\ b.frame = s[k].frame /\ b.handled = s[k].handled
  BY <1>3 DEF BlockRecords
<1>5. [s EXCEPT ![k].stage = moved] = [s EXCEPT ![k] = b] BY <1>2, StageSet
<1>6. blocks' = [s EXCEPT ![k].stage = moved] BY <1>1, Zenon DEF ToStage, Here
<1>7. blocks' = [blocks EXCEPT ![Len(blocks)] = b] BY <1>1, <1>5, <1>6, Zenon
<1> HIDE DEF b
<1>8. b.frame = blocks[Len(blocks)].frame /\ b.handled = blocks[Len(blocks)].handled
  BY <1>1, <1>4, Zenon
<1>9. Len(blocks) > 0 BY <1>1, <1>2
<1> QED BY <1>4, <1>7, <1>8, <1>9, GoesOn, Zenon

\* A clause that fits was given something to handle.
LEMMA CatchKeeps ==
  ASSUME FrameInv, NEW classes, Catch(classes)
  PROVE  FrameInv'
<1>1. PICK s \in Seq(BlockRecords) : s = blocks BY DEF FrameInv
<1> DEFINE k == Len(s)
           h == IF s[k].handled < 2 THEN s[k].handled + 1 ELSE s[k].handled
           b == [frame |-> s[k].frame, stage |-> "handler", handled |-> h]
<1>2. k > 0 /\ k \in 1 .. Len(s) BY <1>1, Elements DEF Catch, Here
<1>3. UNCHANGED <<frames, pushFailures>> BY Zenon DEF Catch
<1>4. CASE UNCHANGED blocks BY <1>3, <1>4 DEF FrameInv
<1>5. CASE /\ Block.frame # NoFrame
           /\ Held \cap classes # {}
           /\ blocks' = [blocks EXCEPT ![Here].stage = "handler",
                                       ![Here].handled = IF @ < 2 THEN @ + 1 ELSE @]
  <2>1. PICK r \in BlockRecords : r = s[k] BY <1>2, Elements
  <2>2. b \in BlockRecords /\ b.frame = s[k].frame
    <3>1. r.handled \in Nat /\ r.frame \in Nat \cup {NoFrame} BY DEF BlockRecords
    <3>2. h \in Nat BY <2>1, <3>1
    <3>3. s[k].frame \in Nat \cup {NoFrame} BY <2>1, <3>1, Zenon
    <3> HIDE DEF h
    <3> QED BY <3>2, <3>3 DEF BlockRecords, Stages
  <2>3. [s EXCEPT ![k].stage = "handler", ![k].handled = IF @ < 2 THEN @ + 1 ELSE @]
          = [s EXCEPT ![k] = b]
    BY <1>2, HandledSet DEF Stages
  <2>4. blocks' = [s EXCEPT ![k].stage = "handler", ![k].handled = IF @ < 2 THEN @ + 1 ELSE @]
    BY <1>1, <1>5, Zenon DEF Here
  <2>5. blocks' = [blocks EXCEPT ![Len(blocks)] = b] BY <1>1, <2>3, <2>4, Zenon
  <2>6. ASSUME pushFailures = 0 PROVE frames[k].exception # NoException
    <3>1. PICK q \in Seq(FrameRecords) : q = frames BY DEF FrameInv
    <3>2. Stacked(q, s) /\ Owned(q, s) BY <1>1, <2>6, <3>1 DEF FrameInv
    <3>3. Block.frame = k
      <4>1. s[k].frame = k BY <1>1, <1>2, <1>5, <3>2 DEF Stacked, Block, Here
      <4> QED BY <1>1, <4>1, Zenon DEF Block, Here
    <3>4. Len(q) = k /\ DOMAIN q = 1 .. k /\ \A i \in 1 .. k : q[i].block = i
      BY <3>2, Elements DEF Owned
    <3>5. {i \in DOMAIN frames : frames[i].block = Block.frame} = {k}
      BY <1>2, <3>1, <3>3, <3>4
    <3>6. Held = {f.class : f \in {frames[i].exception : i \in {k}} \ {NoException}}
      BY <3>5, Zenon DEF Held
    <3> QED BY <1>5, <3>6
  <2> HIDE DEF b
  <2>7. b.frame = blocks[Len(blocks)].frame BY <1>1, <2>2, Zenon
  <2>8. pushFailures = 0 => frames[Len(blocks)].exception # NoException BY <1>1, <2>6, Zenon
  <2>9. Len(blocks) > 0 BY <1>1, <1>2
  <2> QED BY <1>3, <2>2, <2>5, <2>7, <2>8, <2>9, GoesOn, Zenon
<1> QED BY <1>4, <1>5, Zenon DEF Catch

LEMMA TryKeeps == FrameInv /\ Try => FrameInv'
<1> SUFFICES ASSUME FrameInv, Try PROVE FrameInv' OBVIOUS
<1>1. PICK k \in Nat : k = Len(blocks) BY Elements DEF FrameInv
<1> DEFINE f == [block |-> k + 1, exception |-> NoException]
           b == [frame |-> k + 1, stage |-> "body", handled |-> 0]
           c == [frame |-> NoFrame, stage |-> "clauses", handled |-> 0]
<1>2. /\ f \in FrameRecords /\ f.block = k + 1 /\ f.exception = NoException
      /\ b \in BlockRecords /\ b.frame = k + 1 /\ b.handled = 0
      /\ c \in BlockRecords /\ c.frame = NoFrame
  BY DEF FrameRecords, BlockRecords, Stages
<1>3. \/ frames' = Append(frames, f) /\ blocks' = Append(blocks, b) /\ pushFailures' = pushFailures
      \/ /\ pushFailures < MaxFailures /\ pushFailures' = pushFailures + 1
         /\ blocks' = Append(blocks, c) /\ frames' = frames
  BY <1>1, Zenon DEF Try, Here
<1> HIDE DEF f, b, c
<1>4. f.block = Len(blocks) + 1 /\ b.frame = Len(blocks) + 1 BY <1>1, <1>2
<1>5. CASE frames' = Append(frames, f) /\ blocks' = Append(blocks, b) /\ pushFailures' = pushFailures
  BY <1>2, <1>4, <1>5, TryPushes, Zenon
<1>6. CASE /\ pushFailures < MaxFailures /\ pushFailures' = pushFailures + 1
           /\ blocks' = Append(blocks, c) /\ frames' = frames
  BY <1>2, <1>6, TryFails, Zenon
<1> QED BY <1>3, <1>5, <1>6

LEMMA FrameStart == FrameInit => FrameInv
<1> SUFFICES ASSUME FrameInit PROVE FrameInv OBVIOUS
<1>1. frames = <<>> /\ blocks = <<>> /\ pushFailures = 0 BY DEF FrameInit
<1>2. frames \in Seq(FrameRecords) /\ blocks \in Seq(BlockRecords) /\ Len(frames) = 0 /\ Len(blocks) = 0
  BY <1>1, EmptySeq
<1> QED BY <1>1, <1>2, FrameAssumption DEF FrameInv, Stacked, Owned

LEMMA FrameStep == FrameInv /\ [FrameNext]_frameVars => FrameInv'
<1> SUFFICES ASSUME FrameInv, [FrameNext]_frameVars PROVE FrameInv' OBVIOUS
<1>1. CASE Try BY <1>1, TryKeeps
<1>2. CASE Throw
  <2>1. PICK class \in Classes : Raise(class) BY <1>2 DEF Throw
  <2> QED BY <1>2, <2>1, RaiseKeeps, Zenon DEF Throw
<1>3. CASE Rethrow
  <2>1. PICK class \in Classes : Raise(class) BY <1>3, HeldClasses DEF Rethrow
  <2> QED BY <1>3, <2>1, RaiseKeeps, Zenon DEF Rethrow
<1>4. CASE EndBody \/ EndClause \/ Finally
  <2>1. PICK moved \in Stages : ToStage(moved) BY <1>4 DEF EndBody, EndClause, Finally, Stages
  <2>2. Here > 0 /\ UNCHANGED <<frames, pushFailures>>
    BY <1>4, Zenon DEF EndBody, EndClause, Finally
  <2> QED BY <2>1, <2>2, StageKeeps, Zenon
<1>5. CASE EndTry
  <2>1. /\ Len(blocks) > 0 /\ frames' = (IF frames = <<>> THEN frames ELSE Front(frames))
        /\ blocks' = Front(blocks) /\ pushFailures' = pushFailures
    BY <1>5, Zenon DEF EndTry, Here
  <2> QED BY <2>1, EndPops, Zenon
<1>6. ASSUME NEW classes, Catch(classes) PROVE FrameInv' BY <1>6, CatchKeeps
<1>7. CASE UNCHANGED frameVars BY <1>7 DEF FrameInv, frameVars
<1> QED BY <1>1, <1>2, <1>3, <1>4, <1>5, <1>6, <1>7 DEF FrameNext

\* The inductive invariant of the frames: a block with a frame has the one of
\* its own number, and without a failed push the frames are those of the
\* blocks, one for one, with an exception where one was handled (exception.h).
THEOREM FramesKept == FrameSpec => []FrameInv
<1> QED BY FrameStart, FrameStep, PTL DEF FrameSpec

LEMMA FramesNest == FrameInv => FramesUnwound
<1> SUFFICES ASSUME FrameInv PROVE FramesUnwound OBVIOUS
<1>1. PICK q \in Seq(FrameRecords) : q = frames BY DEF FrameInv
<1>2. PICK s \in Seq(BlockRecords) : s = blocks BY DEF FrameInv
<1>3. Stacked(q, s) /\ (pushFailures = 0 => Owned(q, s)) BY <1>1, <1>2 DEF FrameInv
<1>4. DOMAIN q = 1 .. Len(q) /\ Len(q) \in Nat /\ Len(s) \in Nat BY Elements
<1>5. \A i, j \in DOMAIN q : i < j => q[i].block < q[j].block BY <1>3, <1>4 DEF Stacked
<1>6. \A i \in DOMAIN q : q[i].block <= Len(s) /\ s[q[i].block].frame # NoFrame
  BY <1>3, <1>4 DEF Stacked
<1>7. pushFailures = 0 =>
        /\ Len(q) = Len(s)
        /\ \A i \in DOMAIN q :
             /\ q[i].exception # NoException => q[i].exception.from = i
             /\ s[i].handled > 0 => q[i].exception # NoException
  BY <1>3, <1>4 DEF Owned
<1> QED BY <1>1, <1>2, <1>5, <1>6, <1>7 DEF FramesUnwound, Here

\* However deep the blocks, no frame outlives its block, and while every frame
\* could be pushed each open block has its own, with an exception only of its
\* own (exception.h:406-443).
THEOREM FramesUnwind == FrameSpec => []FramesUnwound
<1> QED BY FramesKept, FramesNest, PTL

----------------------------------------------------------------------------
(* Records                                                                 *)

LEMMA RecordSizes ==
  /\ CrcBits \in Nat /\ CrcBits >= 8 /\ CrcBits % 8 = 0 /\ CrcBits - 1 \in Poly
  /\ Poly \subseteq Ones(CrcBits)
  /\ SumBits \in Nat /\ SumBits >= 8 /\ SumBits % 8 = 0
  /\ DataSize \in Nat /\ \A b \in ByteValues : b \in Word(8)
<1>1. CrcBits \in Nat /\ SumBits \in Nat \ {0} /\ DataSize \in Nat
      /\ CrcBits % 8 = 0 /\ SumBits % 8 = 0
      /\ Poly \subseteq Ones(CrcBits) /\ CrcBits - 1 \in Poly
      /\ \A b \in ByteValues : b \subseteq Ones(8)
  BY RecordAssumption
<1>2. CrcBits >= 8 BY <1>1 DEF Ones
<1>3. SumBits >= 8 BY <1>1
<1>4. \A b \in ByteValues : b \in Word(8) BY <1>1 DEF Ones, Word
<1> QED BY <1>1, <1>2, <1>3, <1>4

Turn(c) == Xor(Shr(c, 1), IF 0 \in c THEN Poly ELSE {})

LEMMA TurnWord == ASSUME NEW c \in Word(CrcBits) PROVE Turn(c) \in Word(CrcBits)
<1>1. CrcBits \in Nat /\ Poly \subseteq 0 .. CrcBits - 1 BY RecordSizes DEF Ones
<1>2. Shr(c, 1) \subseteq 0 .. CrcBits - 1 BY <1>1 DEF Shr, Word
<1> QED BY <1>1, <1>2 DEF Turn, Xor, Word

\* Of a difference that does not reach the top bit a turn is undone by a shift.
LEMMA TurnBack ==
  ASSUME NEW c \in Word(CrcBits), NEW e \in Word(CrcBits), NEW k \in Int, k < CrcBits - 1,
         Xor(Turn(c), Turn(e)) \subseteq 0 .. k
  PROVE  Xor(c, e) = {i + 1 : i \in Xor(Turn(c), Turn(e))}
<1> DEFINE w == CrcBits
<1>1. w \in Nat /\ w >= 8 /\ w - 1 \in Poly /\ Poly \subseteq 0 .. w - 1
  BY RecordSizes DEF Ones
<1> HIDE DEF w
<1>2. c \subseteq 0 .. w - 1 /\ e \subseteq 0 .. w - 1 BY DEF Word, w
<1>3. \A i \in Int : i \in Shr(c, 1) <=> i >= 0 /\ i + 1 \in c
  <2>1. ASSUME NEW i \in Int, i >= 0, i + 1 \in c PROVE i \in Shr(c, 1)
    <3>1. i + 1 >= 1 /\ (i + 1) - 1 = i BY <2>1
    <3> QED BY <2>1, <3>1 DEF Shr
  <2>2. ASSUME NEW i \in Int, i \in Shr(c, 1) PROVE i >= 0 /\ i + 1 \in c
    <3>1. PICK j \in c : j >= 1 /\ i = j - 1 BY <2>2 DEF Shr
    <3>2. j \in Int BY <1>1, <1>2
    <3>3. i + 1 = j BY <3>1, <3>2
    <3> QED BY <3>1, <3>2, <3>3
  <2> QED BY <2>1, <2>2
<1>4. \A i \in Int : i \in Shr(e, 1) <=> i >= 0 /\ i + 1 \in e
  <2>1. ASSUME NEW i \in Int, i >= 0, i + 1 \in e PROVE i \in Shr(e, 1)
    <3>1. i + 1 >= 1 /\ (i + 1) - 1 = i BY <2>1
    <3> QED BY <2>1, <3>1 DEF Shr
  <2>2. ASSUME NEW i \in Int, i \in Shr(e, 1) PROVE i >= 0 /\ i + 1 \in e
    <3>1. PICK j \in e : j >= 1 /\ i = j - 1 BY <2>2 DEF Shr
    <3>2. j \in Int BY <1>1, <1>2
    <3>3. i + 1 = j BY <3>1, <3>2
    <3> QED BY <3>1, <3>2, <3>3
  <2> QED BY <2>1, <2>2
<1>5. w - 1 \notin Shr(c, 1) /\ w - 1 \notin Shr(e, 1) BY <1>1, <1>2, <1>3, <1>4
<1>6. w - 1 \notin Xor(Turn(c), Turn(e)) BY <1>1 DEF w
<1>7. 0 \in c <=> 0 \in e BY <1>1, <1>5, <1>6 DEF Turn, Xor
<1>8. Xor(Turn(c), Turn(e)) = Xor(Shr(c, 1), Shr(e, 1)) BY <1>7 DEF Turn, Xor
<1>9. \A i \in Int : i \in Xor(Shr(c, 1), Shr(e, 1)) <=> i >= 0 /\ i + 1 \in Xor(c, e)
  BY <1>3, <1>4 DEF Xor
<1>10. ASSUME NEW j \in Xor(c, e) PROVE j \in {i + 1 : i \in Xor(Turn(c), Turn(e))}
  <2>1. j \in 0 .. w - 1 BY <1>2 DEF Xor
  <2>2. j # 0 BY <1>7 DEF Xor
  <2>3. j - 1 \in Int /\ j - 1 >= 0 /\ (j - 1) + 1 = j BY <1>1, <2>1, <2>2
  <2>4. j - 1 \in Xor(Turn(c), Turn(e)) BY <1>8, <1>9, <2>3
  <2> QED BY <2>3, <2>4
<1>11. ASSUME NEW i \in Xor(Turn(c), Turn(e)) PROVE i + 1 \in Xor(c, e)
  <2>1. i \in Int OBVIOUS
  <2> QED BY <1>8, <1>9, <2>1
<1> QED BY <1>10, <1>11

\* The eight turns for a byte.
LEMMA ByteTurns ==
  ASSUME NEW crc \in Word(CrcBits), NEW b \in Word(8)
  PROVE  \E t \in [0 .. 8 -> Word(CrcBits)] :
           /\ t[0] = Xor(crc, b) /\ CrcByte(crc, b) = t[8]
           /\ \A j \in 1 .. 8 : t[j] = Turn(t[j - 1])
<1> DEFINE T == Word(CrcBits)
           a == Xor(crc, b)
           chain == CHOOSE g : g = [j \in 0 .. 8 |->
                     IF j = 0 THEN Xor(crc, b)
                     ELSE LET c == g[j - 1] IN Xor(Shr(c, 1), IF 0 \in c THEN Poly ELSE {})]
           turns == [j \in 1 .. 8 |-> [c \in T |-> Turn(c)]]
<1>1. a \in T
  <2>1. CrcBits \in Nat /\ CrcBits >= 8 BY RecordSizes
  <2>2. b \subseteq 0 .. CrcBits - 1 BY <2>1 DEF Word
  <2> QED BY <2>2 DEF Xor, Word
<1>2. turns \in [1 .. 8 -> [T -> T]] BY TurnWord
<1> HIDE DEF T, chain
<1>3. PICK t \in [0 .. 8 -> T] : Chained(t, a, 8, turns)
  <2> HIDE DEF a, turns
  <2> QED BY <1>1, <1>2, ChainExists
<1>4. \A j \in 1 .. 8 : t[j] = Turn(t[j - 1])
  <2> TAKE j \in 1 .. 8
  <2>1. j - 1 \in 0 .. 8 BY DEF T
  <2>2. t[j - 1] \in T BY <2>1
  <2>3. t[j] = turns[j][t[j - 1]] BY <1>3 DEF Chained
  <2> QED BY <2>2, <2>3
<1>5. t = [j \in 0 .. 8 |-> IF j = 0 THEN a ELSE Turn(t[j - 1])]
  <2>1. \A j \in 0 .. 8 : t[j] = IF j = 0 THEN a ELSE Turn(t[j - 1])
    <3> HIDE DEF a
    <3> QED BY <1>3, <1>4 DEF Chained
  <2> HIDE DEF a
  <2> QED BY <2>1
<1>6. t = [j \in 0 .. 8 |->
             IF j = 0 THEN Xor(crc, b)
             ELSE LET c == t[j - 1] IN Xor(Shr(c, 1), IF 0 \in c THEN Poly ELSE {})]
  BY <1>5, Zenon DEF Turn, a
<1>7. chain = [j \in 0 .. 8 |->
             IF j = 0 THEN Xor(crc, b)
             ELSE LET c == chain[j - 1] IN Xor(Shr(c, 1), IF 0 \in c THEN Poly ELSE {})]
  BY <1>6, Zenon DEF chain
<1>8. chain = [j \in 0 .. 8 |-> IF j = 0 THEN a ELSE Turn(chain[j - 1])]
  BY <1>7, Zenon DEF Turn, a
<1> HIDE DEF a
<1>9. chain[0] = a /\ \A j \in 1 .. 8 : chain[j] = Turn(chain[j - 1])
  <2>1. 0 \in 0 .. 8 /\ \A j \in 1 .. 8 : j \in 0 .. 8 /\ j # 0 OBVIOUS
  <2> QED BY <1>8, <2>1
<1>10. \A j \in 0 .. 8 : chain[j] \in T
  <2> DEFINE S == {j \in 0 .. 8 : chain[j] \notin T}
  <2>1. S = {}
    <3> SUFFICES ASSUME S # {} PROVE FALSE OBVIOUS
    <3>1. S \in SUBSET Nat OBVIOUS
    <3>2. PICK l \in S : \A m \in S : l <= m
      <4> HIDE DEF S
      <4> QED BY <3>1, LeastOf
    <3>3. l \in 0 .. 8 /\ chain[l] \notin T BY <3>2
    <3>4. l # 0 BY <1>1, <1>9, <3>3
    <3>5. l \in 1 .. 8 /\ l - 1 \in 0 .. 8 /\ ~(l <= l - 1) BY <3>3, <3>4
    <3>6. l - 1 \notin S
      <4> HIDE DEF S
      <4> QED BY <3>2, <3>5
    <3>7. chain[l - 1] \in T BY <3>5, <3>6
    <3>8. Turn(chain[l - 1]) \in T BY <3>7, TurnWord DEF T
    <3> QED BY <1>9, <3>3, <3>5, <3>8
  <2> QED BY <2>1
<1>11. chain \in [0 .. 8 -> T] BY <1>8, <1>10
<1>12. CrcByte(crc, b) = chain[8] BY DEF CrcByte, chain
<1> QED BY <1>9, <1>11, <1>12 DEF T, a

LEMMA CrcByteWord ==
  ASSUME NEW crc \in Word(CrcBits), NEW b \in Word(8)
  PROVE  CrcByte(crc, b) \in Word(CrcBits)
<1>1. PICK t \in [0 .. 8 -> Word(CrcBits)] : CrcByte(crc, b) = t[8] BY ByteTurns
<1> QED BY <1>1

\* The same for the eight turns of a byte.
LEMMA ByteBack ==
  ASSUME NEW crc \in Word(CrcBits), NEW b \in Word(8),
         NEW crc2 \in Word(CrcBits), NEW b2 \in Word(8),
         NEW k \in Int, k + 8 < CrcBits,
         Xor(CrcByte(crc, b), CrcByte(crc2, b2)) \subseteq 0 .. k
  PROVE  Xor(Xor(crc, b), Xor(crc2, b2)) = {i + 8 : i \in Xor(CrcByte(crc, b), CrcByte(crc2, b2))}
<1>1. PICK t \in [0 .. 8 -> Word(CrcBits)] :
           /\ t[0] = Xor(crc, b) /\ CrcByte(crc, b) = t[8]
           /\ \A j \in 1 .. 8 : t[j] = Turn(t[j - 1])
  BY ByteTurns
<1>2. PICK u \in [0 .. 8 -> Word(CrcBits)] :
           /\ u[0] = Xor(crc2, b2) /\ CrcByte(crc2, b2) = u[8]
           /\ \A j \in 1 .. 8 : u[j] = Turn(u[j - 1])
  BY ByteTurns
<1> DEFINE Y == Xor(CrcByte(crc, b), CrcByte(crc2, b2))
<1>3. Y \subseteq 0 .. k OBVIOUS
<1>4. Xor(t[8], u[8]) = Y BY <1>1, <1>2
<1> HIDE DEF Y
<1>5. \A m \in 0 .. 8 : Xor(t[8 - m], u[8 - m]) = {i + m : i \in Y}
  <2> DEFINE Bad == {m \in 0 .. 8 : ~(Xor(t[8 - m], u[8 - m]) = {i + m : i \in Y})}
  <2>1. Bad = {}
    <3> SUFFICES ASSUME Bad # {} PROVE FALSE OBVIOUS
    <3>1. Bad \in SUBSET Nat OBVIOUS
    <3>2. PICK l \in Bad : \A m \in Bad : l <= m
      <4> HIDE DEF Bad
      <4> QED BY <3>1, LeastOf
    <3>3. l \in 0 .. 8 /\ ~(Xor(t[8 - l], u[8 - l]) = {i + l : i \in Y}) BY <3>2
    <3>4. l # 0
      <4>1. {i + 0 : i \in Y} = Y
        <5>1. \A i \in Y : i + 0 = i BY <1>3
        <5> QED BY <5>1
      <4>2. 8 - 0 = 8 OBVIOUS
      <4> QED BY <1>4, <3>3, <4>1, <4>2
    <3>5. PICK m \in 0 .. 7 : l = m + 1
      <4>1. l - 1 \in 0 .. 7 /\ l = (l - 1) + 1 BY <3>3, <3>4
      <4> QED BY <4>1
    <3>6. m \notin Bad
      <4>1. ~(l <= m) BY <3>5
      <4> HIDE DEF Bad
      <4> QED BY <3>2, <4>1
    <3>7. Xor(t[8 - m], u[8 - m]) = {i + m : i \in Y} BY <3>5, <3>6
    <3>8. PICK j \in 0 .. 7 : j = 8 - l /\ j + 1 = 8 - m
      <4>1. 8 - l \in 0 .. 7 /\ (8 - l) + 1 = 8 - m BY <3>5
      <4> QED BY <4>1
    <3>9. PICK c \in Word(CrcBits) : c = t[j] BY <1>1
    <3>10. PICK e \in Word(CrcBits) : e = u[j] BY <1>2
    <3>11. t[j + 1] = Turn(c) /\ u[j + 1] = Turn(e)
      <4>1. j + 1 \in 1 .. 8 /\ (j + 1) - 1 = j OBVIOUS
      <4> QED BY <1>1, <1>2, <3>9, <3>10, <4>1
    <3>12. Xor(Turn(c), Turn(e)) = {i + m : i \in Y} BY <3>7, <3>8, <3>11
    <3>13. Xor(Turn(c), Turn(e)) \subseteq 0 .. k + m /\ k + m \in Int /\ k + m < CrcBits - 1
      <4>1. \A i \in Y : i + m \in 0 .. k + m BY <1>3, <3>5
      <4>2. CrcBits \in Nat BY RecordSizes
      <4> QED BY <3>5, <3>12, <4>1, <4>2
    <3>14. Xor(c, e) = {x + 1 : x \in Xor(Turn(c), Turn(e))} BY <3>13, TurnBack
    <3>15. {x + 1 : x \in {i + m : i \in Y}} = {i + l : i \in Y}
      <4>1. \A i \in Y : (i + m) + 1 = i + l BY <1>3, <3>5
      <4> QED BY <4>1
    <3>16. Xor(c, e) = {i + l : i \in Y} BY <3>12, <3>14, <3>15
    <3> QED BY <3>3, <3>8, <3>9, <3>10, <3>16
  <2> QED BY <2>1
<1>6. 8 \in 0 .. 8 /\ 8 - 8 = 0 OBVIOUS
<1>7. Xor(t[0], u[0]) = {i + 8 : i \in Y} BY <1>5, <1>6
<1> QED BY <1>1, <1>2, <1>7 DEF Y

LEMMA XorNone ==
  ASSUME NEW x, NEW y
  PROVE  (Xor(x, y) = {} <=> x = y)
<1>1. Xor(x, y) = {} => x = y BY Zenon DEF Xor
<1>2. x = y => Xor(x, y) = {} BY DEF Xor
<1> QED BY <1>1, <1>2

\* From the same state a byte leads to the same state as no other, and with the
\* same byte a state to the same as no other.
LEMMA ByteTells ==
  ASSUME NEW crc \in Word(CrcBits), NEW b \in Word(8),
         NEW crc2 \in Word(CrcBits), NEW b2 \in Word(8),
         CrcByte(crc, b) = CrcByte(crc2, b2)
  PROVE  crc = crc2 <=> b = b2
<1> DEFINE Y == Xor(CrcByte(crc, b), CrcByte(crc2, b2))
<1>1. Y = {} BY XorNone
<1>2. CrcBits \in Nat /\ CrcBits >= 8 BY RecordSizes
<1>3. Y \subseteq 0 .. (-1) /\ -1 \in Int /\ (-1) + 8 < CrcBits BY <1>1, <1>2
<1> HIDE DEF Y
<1>4. Xor(Xor(crc, b), Xor(crc2, b2)) = {i + 8 : i \in Y} BY <1>3, ByteBack DEF Y
<1>5. {i + 8 : i \in Y} = {} BY <1>1
<1>6. Xor(crc, b) = Xor(crc2, b2) BY <1>4, <1>5, XorNone
<1>7. crc = crc2 => b = b2
  <2> SUFFICES ASSUME crc = crc2 PROVE b = b2 OBVIOUS
  <2>1. Xor(crc, b) = Xor(crc, b2) BY <1>6
  <2>2. \A i : i \in b <=> i \in b2 BY <2>1 DEF Xor
  <2> QED BY <2>2
<1>8. b = b2 => crc = crc2
  <2> SUFFICES ASSUME b = b2 PROVE crc = crc2 OBVIOUS
  <2>1. Xor(crc, b) = Xor(crc2, b) BY <1>6
  <2>2. \A i : i \in crc <=> i \in crc2 BY <2>1 DEF Xor
  <2> QED BY <2>2
<1> QED BY <1>7, <1>8

\* The states the checksum of a message goes through.
CrcStates(g, n, bytes) ==
  /\ g \in [0 .. n -> Word(CrcBits)] /\ g[0] = Ones(CrcBits)
  /\ \A i \in 1 .. n : g[i] = CrcByte(g[i - 1], bytes[i])

LEMMA CrcRuns ==
  ASSUME NEW n \in Nat, NEW bytes \in [1 .. n -> Word(8)]
  PROVE  \E g : CrcStates(g, n, bytes) /\ Crc32(bytes) = Not(g[n], CrcBits)
<1> DEFINE T == Word(CrcBits)
           a == Ones(CrcBits)
           crc == CHOOSE g : g = [i \in 0 .. Len(bytes) |->
                    IF i = 0 THEN Ones(CrcBits) ELSE CrcTurns(bytes[i])[g[i - 1]]]
           turns == [i \in 1 .. n |-> CrcTurns(bytes[i])]
<1>1. Len(bytes) = n OBVIOUS
<1>2. a \in T BY DEF Ones, Word
<1>3. turns \in [1 .. n -> [T -> T]] BY CrcByteWord DEF CrcTurns
<1> HIDE DEF T, crc
<1>4. PICK t \in [0 .. n -> T] : Chained(t, a, n, turns)
  <2> HIDE DEF a, turns
  <2> QED BY <1>2, <1>3, ChainExists
<1>5. \A i \in 1 .. n : t[i] = CrcTurns(bytes[i])[t[i - 1]]
  <2> TAKE i \in 1 .. n
  <2>1. i - 1 \in 0 .. n OBVIOUS
  <2>2. t[i - 1] \in T BY <2>1
  <2>3. t[i] = turns[i][t[i - 1]] BY <1>4 DEF Chained
  <2> QED BY <2>2, <2>3
<1>6. t = [i \in 0 .. n |-> IF i = 0 THEN a ELSE CrcTurns(bytes[i])[t[i - 1]]]
  <2>1. \A i \in 0 .. n : t[i] = IF i = 0 THEN a ELSE CrcTurns(bytes[i])[t[i - 1]]
    <3> HIDE DEF a
    <3> QED BY <1>4, <1>5 DEF Chained
  <2> HIDE DEF a
  <2> QED BY <2>1
<1>7. crc = [i \in 0 .. Len(bytes) |->
               IF i = 0 THEN Ones(CrcBits) ELSE CrcTurns(bytes[i])[crc[i - 1]]]
  BY <1>1, <1>6, Zenon DEF crc, a
<1>8. crc = [i \in 0 .. n |-> IF i = 0 THEN a ELSE CrcTurns(bytes[i])[crc[i - 1]]]
  BY <1>1, <1>7
<1> HIDE DEF a
<1>9. crc[0] = a /\ \A i \in 1 .. n : crc[i] = CrcTurns(bytes[i])[crc[i - 1]]
  <2>1. 0 \in 0 .. n /\ \A i \in 1 .. n : i \in 0 .. n /\ i # 0 OBVIOUS
  <2> QED BY <1>8, <2>1
<1>10. \A i \in 0 .. n : crc[i] \in T
  <2> DEFINE S == {i \in 0 .. n : crc[i] \notin T}
  <2>1. S = {}
    <3> SUFFICES ASSUME S # {} PROVE FALSE OBVIOUS
    <3>1. S \in SUBSET Nat OBVIOUS
    <3>2. PICK l \in S : \A m \in S : l <= m
      <4> HIDE DEF S
      <4> QED BY <3>1, LeastOf
    <3>3. l \in 0 .. n /\ crc[l] \notin T BY <3>2
    <3>4. l # 0 BY <1>2, <1>9, <3>3
    <3>5. l \in 1 .. n /\ l - 1 \in 0 .. n /\ ~(l <= l - 1) BY <3>3, <3>4
    <3>6. l - 1 \notin S
      <4> HIDE DEF S
      <4> QED BY <3>2, <3>5
    <3>7. crc[l - 1] \in T BY <3>5, <3>6
    <3>8. bytes[l] \in Word(8) BY <3>5
    <3>9. CrcTurns(bytes[l])[crc[l - 1]] \in T BY <3>7, <3>8, CrcByteWord DEF CrcTurns, T
    <3> QED BY <1>9, <3>3, <3>5, <3>9
  <2> QED BY <2>1
<1>11. crc \in [0 .. n -> T] BY <1>8, <1>10
<1>12. Crc32(bytes) = Not(crc[n], CrcBits) BY <1>1 DEF Crc32, crc
<1>13. \A i \in 1 .. n : crc[i] = CrcByte(crc[i - 1], bytes[i])
  <2> TAKE i \in 1 .. n
  <2>1. i - 1 \in 0 .. n OBVIOUS
  <2>2. crc[i - 1] \in T BY <1>10, <2>1
  <2> QED BY <1>9, <2>2 DEF CrcTurns, T
<1>14. CrcStates(crc, n, bytes) BY <1>9, <1>11, <1>13 DEF CrcStates, T, a
<1> QED BY <1>12, <1>14

\* A checksum tells the states two messages end in.
LEMMA CrcLast ==
  ASSUME NEW x \in Word(CrcBits), NEW y \in Word(CrcBits), Not(x, CrcBits) = Not(y, CrcBits)
  PROVE  x = y
<1>1. x \subseteq Ones(CrcBits) /\ y \subseteq Ones(CrcBits) BY DEF Word, Ones
<1>2. \A i \in Ones(CrcBits) : i \in x <=> i \in y BY Zenon DEF Not
<1> QED BY <1>1, <1>2

\* Two messages with the same bytes up to m, and from m on in the same state,
\* were in the same state at m and before.
LEMMA CrcMeets ==
  ASSUME NEW n \in Nat, NEW x \in [1 .. n -> Word(8)], NEW y \in [1 .. n -> Word(8)],
         NEW g, CrcStates(g, n, x), NEW f, CrcStates(f, n, y), g[n] = f[n],
         NEW m \in 0 .. n, \A i \in 1 .. n : i > m => x[i] = y[i]
  PROVE  g[m] = f[m]
<1> DEFINE S == {k \in 0 .. n - m : g[n - k] # f[n - k]}
<1>1. S = {}
  <2> SUFFICES ASSUME S # {} PROVE FALSE OBVIOUS
  <2>1. S \in SUBSET Nat OBVIOUS
  <2>2. PICK l \in S : \A k \in S : l <= k
    <3> HIDE DEF S
    <3> QED BY <2>1, LeastOf
  <2>3. l \in 0 .. n - m /\ l \in Nat /\ g[n - l] # f[n - l] BY <2>2
  <2>4. l # 0
    <3>1. n - 0 = n OBVIOUS
    <3> QED BY <2>3, <3>1
  <2>5. l - 1 \in 0 .. n - m /\ ~(l <= l - 1) BY <2>3, <2>4
  <2>6. l - 1 \notin S
    <3> HIDE DEF S
    <3> QED BY <2>2, <2>5
  <2>7. PICK i \in 1 .. n : i = n - (l - 1) /\ i - 1 = n - l /\ i > m
    <3>1. n - (l - 1) \in 1 .. n /\ (n - (l - 1)) - 1 = n - l /\ n - (l - 1) > m BY <2>3, <2>4
    <3> QED BY <3>1
  <2>8. g[i] = f[i] BY <2>5, <2>6, <2>7
  <2>9. g[i] = CrcByte(g[i - 1], x[i]) /\ f[i] = CrcByte(f[i - 1], y[i]) BY DEF CrcStates
  <2>10. i - 1 \in 0 .. n OBVIOUS
  <2>11. g[i - 1] \in Word(CrcBits) /\ f[i - 1] \in Word(CrcBits) BY <2>10 DEF CrcStates
  <2>12. x[i] = y[i] /\ x[i] \in Word(8) BY <2>7
  <2>13. g[i - 1] = f[i - 1]
    <3>1. PICK u \in Word(CrcBits) : u = g[i - 1] BY <2>11
    <3>2. PICK v \in Word(CrcBits) : v = f[i - 1] BY <2>11
    <3>3. PICK b \in Word(8) : b = x[i] /\ b = y[i] BY <2>12
    <3>4. CrcByte(u, b) = CrcByte(v, b) BY <2>8, <2>9, <3>1, <3>2, <3>3
    <3>5. u = v BY <3>4, ByteTells
    <3> QED BY <3>1, <3>2, <3>5
  <2> QED BY <2>3, <2>7, <2>13
<1>2. n - m \in 0 .. n - m /\ n - (n - m) = m OBVIOUS
<1> QED BY <1>1, <1>2

\* Two messages with the same bytes up to m are in the same state there.
LEMMA CrcStarts ==
  ASSUME NEW n \in Nat, NEW x, NEW y,
         NEW g, CrcStates(g, n, x), NEW f, CrcStates(f, n, y),
         NEW m \in 0 .. n, \A i \in 1 .. m : x[i] = y[i]
  PROVE  g[m] = f[m]
<1> DEFINE S == {k \in 0 .. m : g[k] # f[k]}
<1>1. S = {}
  <2> SUFFICES ASSUME S # {} PROVE FALSE OBVIOUS
  <2>1. S \in SUBSET Nat OBVIOUS
  <2>2. PICK l \in S : \A k \in S : l <= k
    <3> HIDE DEF S
    <3> QED BY <2>1, LeastOf
  <2>3. l \in 0 .. m /\ l \in Nat /\ g[l] # f[l] BY <2>2
  <2>4. l # 0 BY <2>3 DEF CrcStates
  <2>5. l - 1 \in 0 .. m /\ l \in 1 .. m /\ l \in 1 .. n /\ ~(l <= l - 1) BY <2>3, <2>4
  <2>6. l - 1 \notin S
    <3> HIDE DEF S
    <3> QED BY <2>2, <2>5
  <2>7. g[l - 1] = f[l - 1] BY <2>5, <2>6
  <2>8. g[l] = CrcByte(g[l - 1], x[l]) /\ f[l] = CrcByte(f[l - 1], y[l]) BY <2>5 DEF CrcStates
  <2> QED BY <2>3, <2>5, <2>7, <2>8
<1>2. m \in 0 .. m OBVIOUS
<1> QED BY <1>1, <1>2

\* A message of which one byte was changed has another checksum.
LEMMA CrcChanges ==
  ASSUME NEW n \in Nat, NEW x \in [1 .. n -> Word(8)], NEW y \in [1 .. n -> Word(8)],
         NEW m \in 1 .. n, x[m] # y[m], \A i \in 1 .. n : i # m => x[i] = y[i]
  PROVE  Crc32(x) # Crc32(y)
<1> SUFFICES ASSUME Crc32(x) = Crc32(y) PROVE FALSE OBVIOUS
<1>1. PICK g : CrcStates(g, n, x) /\ Crc32(x) = Not(g[n], CrcBits) BY CrcRuns
<1>2. PICK f : CrcStates(f, n, y) /\ Crc32(y) = Not(f[n], CrcBits) BY CrcRuns
<1>3. n \in 0 .. n /\ m \in 0 .. n /\ m - 1 \in 0 .. n OBVIOUS
<1>4. /\ g[n] \in Word(CrcBits) /\ f[n] \in Word(CrcBits)
      /\ g[m - 1] \in Word(CrcBits) /\ f[m - 1] \in Word(CrcBits)
  BY <1>1, <1>2, <1>3 DEF CrcStates
<1>5. g[n] = f[n] BY <1>1, <1>2, <1>4, CrcLast
<1>6. g[m] = f[m]
  <2>1. \A i \in 1 .. n : i > m => x[i] = y[i] OBVIOUS
  <2> QED BY <1>1, <1>2, <1>3, <1>5, <2>1, CrcMeets
<1>7. g[m - 1] = f[m - 1]
  <2>1. \A i \in 1 .. m - 1 : x[i] = y[i] OBVIOUS
  <2> QED BY <1>1, <1>2, <1>3, <2>1, CrcStarts
<1>8. CrcByte(g[m - 1], x[m]) = CrcByte(f[m - 1], y[m]) BY <1>1, <1>2, <1>6 DEF CrcStates
<1>9. x[m] \in Word(8) /\ y[m] \in Word(8) OBVIOUS
<1>10. x[m] = y[m] BY <1>4, <1>7, <1>8, <1>9, ByteTells
<1> QED BY <1>10

\* What a byte turns in two states that are near each other in the low bits.
LEMMA ByteSpreads ==
  ASSUME NEW u \in Word(CrcBits), NEW b \in Word(8), NEW v \in Word(CrcBits), NEW c \in Word(8),
         NEW k \in Int, k >= -1, k + 8 < CrcBits,
         Xor(CrcByte(u, b), CrcByte(v, c)) \subseteq 0 .. k
  PROVE  /\ Xor(u, v) \subseteq 0 .. k + 8
         /\ u = v => CrcByte(u, b) = CrcByte(v, c)
<1> DEFINE Y == Xor(CrcByte(u, b), CrcByte(v, c))
<1>1. Y \subseteq 0 .. k OBVIOUS
<1>2. Xor(Xor(u, b), Xor(v, c)) = {i + 8 : i \in Y} BY ByteBack
<1>3. Y = {} => CrcByte(u, b) = CrcByte(v, c) BY XorNone
<1> HIDE DEF Y
<1>4. b \subseteq 0 .. 7 /\ c \subseteq 0 .. 7 BY DEF Word
<1>5. \A j : j \in Xor(u, v) => j \in b \/ j \in c \/ j \in Xor(Xor(u, b), Xor(v, c))
  BY DEF Xor
<1>6. ASSUME NEW j \in Xor(u, v) PROVE j \in 0 .. k + 8
  <2>3. CASE j \in b \/ j \in c
    <3>1. j \in 0 .. 7 BY <1>4, <2>3
    <3> QED BY <3>1
  <2>4. CASE j \in Xor(Xor(u, b), Xor(v, c))
    <3>1. PICK i \in Y : j = i + 8 BY <1>2, <2>4
    <3> QED BY <1>1, <3>1
  <2> QED BY <1>5, <2>3, <2>4
<1>7. ASSUME u = v PROVE Y = {}
  <2>1. \A j : j \in Xor(Xor(u, b), Xor(v, c)) => j \in b \/ j \in c BY <1>7 DEF Xor
  <2> SUFFICES ASSUME NEW i \in Y PROVE FALSE OBVIOUS
  <2>2. i + 8 \in b \/ i + 8 \in c BY <1>2, <2>1
  <2> QED BY <1>1, <1>4, <2>2
<1> QED BY <1>3, <1>6, <1>7

\* Of two messages that differ in a field of the width of the checksum only, no
\* more, the checksums differ.
LEMMA CrcFieldTells ==
  ASSUME NEW n \in Nat, NEW x \in [1 .. n -> Word(8)], NEW y \in [1 .. n -> Word(8)],
         NEW m \in Nat, NEW p \in Nat, m + p <= n, 8 * p = CrcBits,
         \A i \in 1 .. n : i <= m \/ i > m + p => x[i] = y[i],
         Crc32(x) = Crc32(y)
  PROVE  x = y
<1> DEFINE e == m + p
<1>0. e \in Nat /\ e = m + p /\ e <= n /\ m <= e OBVIOUS
<1> HIDE DEF e
<1>1. PICK g : CrcStates(g, n, x) /\ Crc32(x) = Not(g[n], CrcBits) BY CrcRuns
<1>2. PICK f : CrcStates(f, n, y) /\ Crc32(y) = Not(f[n], CrcBits) BY CrcRuns
<1>3. \A i \in 0 .. n : g[i] \in Word(CrcBits) /\ f[i] \in Word(CrcBits)
  BY <1>1, <1>2 DEF CrcStates
<1>4. \A i \in 1 .. n : /\ g[i] = CrcByte(g[i - 1], x[i]) /\ f[i] = CrcByte(f[i - 1], y[i])
                        /\ x[i] \in Word(8) /\ y[i] \in Word(8)
  BY <1>1, <1>2 DEF CrcStates
<1>5. g[n] = f[n]
  <2>1. g[n] \in Word(CrcBits) /\ f[n] \in Word(CrcBits) BY <1>3
  <2> QED BY <1>1, <1>2, <2>1, CrcLast
<1>6. g[e] = f[e]
  <2>1. \A i \in 1 .. n : i > e => x[i] = y[i] BY <1>0
  <2>2. e \in 0 .. n BY <1>0
  <2> QED BY <1>1, <1>2, <1>5, <2>1, <2>2, CrcMeets
<1>7. g[m] = f[m]
  <2>1. \A i \in 1 .. m : x[i] = y[i] BY <1>0
  <2>2. m \in 0 .. n BY <1>0
  <2> QED BY <1>1, <1>2, <2>1, <2>2, CrcStarts
<1>8. \A k \in 0 .. p : Xor(g[e - k], f[e - k]) \subseteq 0 .. 8 * k - 1
  <2> DEFINE S == {k \in 0 .. p : ~(Xor(g[e - k], f[e - k]) \subseteq 0 .. 8 * k - 1)}
  <2>1. S = {}
    <3> SUFFICES ASSUME S # {} PROVE FALSE OBVIOUS
    <3>1. S \in SUBSET Nat OBVIOUS
    <3>2. PICK l \in S : \A k \in S : l <= k
      <4> HIDE DEF S
      <4> QED BY <3>1, LeastOf
    <3>3. l \in 0 .. p /\ l \in Nat /\ ~(Xor(g[e - l], f[e - l]) \subseteq 0 .. 8 * l - 1)
      BY <3>2
    <3>4. l # 0
      <4>1. e - 0 = e BY <1>0
      <4>2. Xor(g[e], f[e]) = {} BY <1>6, XorNone
      <4> QED BY <3>3, <4>1, <4>2
    <3>5. PICK k \in 0 .. p : l = k + 1
      <4>1. l - 1 \in 0 .. p /\ l = (l - 1) + 1 BY <3>3, <3>4
      <4> QED BY <4>1
    <3>6. Xor(g[e - k], f[e - k]) \subseteq 0 .. 8 * k - 1
      <4>1. ~(l <= k) BY <3>5
      <4>2. k \notin S
        <5> HIDE DEF S
        <5> QED BY <3>2, <4>1
      <4> QED BY <4>2
    <3>7. PICK i \in 1 .. n : i = e - k /\ i - 1 = e - l /\ i - 1 \in 0 .. n
      <4>1. e - k \in 1 .. n /\ (e - k) - 1 = e - l /\ (e - k) - 1 \in 0 .. n
        BY <1>0, <3>3, <3>5
      <4> QED BY <4>1
    <3>8. PICK u \in Word(CrcBits) : u = g[i - 1] BY <1>3, <3>7
    <3>9. PICK v \in Word(CrcBits) : v = f[i - 1] BY <1>3, <3>7
    <3>10. PICK b \in Word(8) : b = x[i] BY <1>4
    <3>11. PICK c \in Word(8) : c = y[i] BY <1>4
    <3>12. g[i] = CrcByte(u, b) /\ f[i] = CrcByte(v, c) BY <1>4, <3>8, <3>9, <3>10, <3>11
    <3>13. PICK h \in Int : h = 8 * k - 1 /\ h + 8 = 8 * l - 1 /\ h >= -1 /\ h + 8 < CrcBits
      <4>1. 8 * k - 1 \in Int /\ (8 * k - 1) + 8 = 8 * l - 1
            /\ 8 * k - 1 >= -1 /\ (8 * k - 1) + 8 < 8 * p
        BY <3>3, <3>5
      <4> QED BY <4>1
    <3>14. Xor(CrcByte(u, b), CrcByte(v, c)) \subseteq 0 .. h BY <3>6, <3>7, <3>12, <3>13
    <3>15. Xor(u, v) \subseteq 0 .. h + 8 BY <3>13, <3>14, ByteSpreads
    <3> QED BY <3>3, <3>7, <3>8, <3>9, <3>13, <3>15
  <2> QED BY <2>1
<1>9. \A j \in 0 .. p : g[m + j] = f[m + j]
  <2> DEFINE S == {j \in 0 .. p : g[m + j] # f[m + j]}
  <2>1. S = {}
    <3> SUFFICES ASSUME S # {} PROVE FALSE OBVIOUS
    <3>1. S \in SUBSET Nat OBVIOUS
    <3>2. PICK l \in S : \A k \in S : l <= k
      <4> HIDE DEF S
      <4> QED BY <3>1, LeastOf
    <3>3. l \in 0 .. p /\ l \in Nat /\ g[m + l] # f[m + l] BY <3>2
    <3>4. l # 0
      <4>1. m + 0 = m OBVIOUS
      <4> QED BY <1>7, <3>3, <4>1
    <3>5. PICK k \in 0 .. p : l = k + 1
      <4>1. l - 1 \in 0 .. p /\ l = (l - 1) + 1 BY <3>3, <3>4
      <4> QED BY <4>1
    <3>6. g[m + k] = f[m + k]
      <4>1. ~(l <= k) BY <3>5
      <4>2. k \notin S
        <5> HIDE DEF S
        <5> QED BY <3>2, <4>1
      <4> QED BY <4>2
    <3>7. PICK i \in 1 .. n : i = m + l /\ i - 1 = m + k /\ i - 1 \in 0 .. n
      <4>1. m + l \in 1 .. n /\ (m + l) - 1 = m + k /\ (m + l) - 1 \in 0 .. n
        BY <1>0, <3>3, <3>5
      <4> QED BY <4>1
    <3>8. PICK u \in Word(CrcBits) : u = g[i - 1] /\ u = f[i - 1] BY <1>3, <3>6, <3>7
    <3>9. PICK b \in Word(8) : b = x[i] BY <1>4
    <3>10. PICK c \in Word(8) : c = y[i] BY <1>4
    <3>11. g[i] = CrcByte(u, b) /\ f[i] = CrcByte(u, c) BY <1>4, <3>8, <3>9, <3>10
    <3>12. PICK q \in 0 .. p : q = p - l /\ e - q = i
      <4>1. p - l \in 0 .. p /\ e - (p - l) = m + l BY <1>0, <3>3
      <4> QED BY <3>7, <4>1
    <3>13. Xor(g[i], f[i]) \subseteq 0 .. 8 * q - 1 BY <1>8, <3>12
    <3>14. PICK h \in Int : h = 8 * q - 1 /\ h >= -1 /\ h + 8 < CrcBits
      <4>1. 8 * q - 1 \in Int /\ 8 * q - 1 >= -1 /\ (8 * q - 1) + 8 < 8 * p BY <3>3, <3>4, <3>12
      <4> QED BY <4>1
    <3>15. Xor(CrcByte(u, b), CrcByte(u, c)) \subseteq 0 .. h BY <3>11, <3>13, <3>14
    <3>16. CrcByte(u, b) = CrcByte(u, c) BY <3>14, <3>15, ByteSpreads
    <3> QED BY <3>3, <3>7, <3>11, <3>16
  <2> QED BY <2>1
<1>10. ASSUME NEW i \in 1 .. n, i > m, i <= e PROVE x[i] = y[i]
  <2>1. i - m \in 0 .. p /\ m + (i - m) = i /\ (i - 1) - m \in 0 .. p
        /\ m + ((i - 1) - m) = i - 1 /\ i - 1 \in 0 .. n
    BY <1>0, <1>10
  <2>2. g[i] = f[i] /\ g[i - 1] = f[i - 1] BY <1>9, <2>1
  <2>3. PICK u \in Word(CrcBits) : u = g[i - 1] /\ u = f[i - 1] BY <1>3, <2>1, <2>2
  <2>4. PICK b \in Word(8) : b = x[i] BY <1>4
  <2>5. PICK c \in Word(8) : c = y[i] BY <1>4
  <2>6. CrcByte(u, b) = CrcByte(u, c) BY <1>4, <2>2, <2>3, <2>4, <2>5
  <2>7. b = c BY <2>6, ByteTells
  <2> QED BY <2>4, <2>5, <2>7
<1>11. \A i \in 1 .. n : x[i] = y[i]
  <2> TAKE i \in 1 .. n
  <2>1. i <= m \/ i > m + p \/ (i > m /\ i <= e) BY <1>0
  <2> QED BY <1>10, <2>1
<1> QED BY <1>11

\* The bytes of a word.
LEMMA BytesAre ==
  ASSUME NEW w \in Nat, NEW x \in SUBSET Nat
  PROVE  /\ w \div 8 \in Nat
         /\ BytesOf(x, w) \in [1 .. w \div 8 -> Word(8)]
         /\ \A k \in 1 .. w \div 8, i \in 0 .. 7 : i \in BytesOf(x, w)[k] <=> 8 * (k - 1) + i \in x
<1> DEFINE n == w \div 8
<1>1. n \in Nat OBVIOUS
<1> HIDE DEF n
<1>2. BytesOf(x, w) = [k \in 1 .. n |-> Cast(Shr(x, 8 * (k - 1)), 8)] BY DEF BytesOf, n
<1>3. ASSUME NEW k \in 1 .. n
      PROVE  /\ BytesOf(x, w)[k] \in Word(8)
             /\ \A i \in 0 .. 7 : i \in BytesOf(x, w)[k] <=> 8 * (k - 1) + i \in x
  <2>1. PICK s \in Nat : s = 8 * (k - 1) BY <1>1
  <2>2. BytesOf(x, w)[k] = Cast(Shr(x, s), 8) BY <1>2, <2>1
  <2>3. Cast(Shr(x, s), 8) \in Word(8) BY DEF Cast, Ones, Word
  <2>4. ASSUME NEW i \in 0 .. 7 PROVE i \in Cast(Shr(x, s), 8) <=> s + i \in x
    <3>1. ASSUME s + i \in x PROVE i \in Shr(x, s)
      <4>1. s + i >= s /\ (s + i) - s = i OBVIOUS
      <4> QED BY <3>1, <4>1 DEF Shr
    <3>2. ASSUME i \in Shr(x, s) PROVE s + i \in x
      <4>1. PICK j \in x : j >= s /\ i = j - s BY <3>2 DEF Shr
      <4>2. j \in Nat /\ s + i = j BY <4>1
      <4> QED BY <4>2
    <3>3. i \in Ones(8) BY DEF Ones
    <3> QED BY <3>1, <3>2, <3>3 DEF Cast
  <2> QED BY <2>1, <2>2, <2>3, <2>4
<1>4. BytesOf(x, w) \in [1 .. n -> Word(8)] BY <1>2, <1>3
<1> QED BY <1>1, <1>3, <1>4 DEF n

\* A word is told by its bytes.
LEMMA BytesTell ==
  ASSUME NEW w \in Nat, w % 8 = 0, NEW x \in Word(w), NEW y \in Word(w),
         BytesOf(x, w) = BytesOf(y, w)
  PROVE  x = y
<1> DEFINE n == w \div 8
<1>1. n \in Nat /\ w = 8 * n OBVIOUS
<1> HIDE DEF n
<1>2. x \in SUBSET Nat /\ y \in SUBSET Nat BY DEF Word
<1>3. \A k \in 1 .. n, i \in 0 .. 7 : i \in BytesOf(x, w)[k] <=> 8 * (k - 1) + i \in x
  BY <1>2, BytesAre DEF n
<1>4. \A k \in 1 .. n, i \in 0 .. 7 : i \in BytesOf(y, w)[k] <=> 8 * (k - 1) + i \in y
  BY <1>2, BytesAre DEF n
<1>5. ASSUME NEW j \in 0 .. w - 1 PROVE j \in x <=> j \in y
  <2>1. PICK k \in 1 .. n, i \in 0 .. 7 : j = 8 * (k - 1) + i
    <3>1. j \div 8 + 1 \in 1 .. n /\ j % 8 \in 0 .. 7 /\ j = 8 * ((j \div 8 + 1) - 1) + (j % 8)
      BY <1>1
    <3> QED BY <3>1
  <2> QED BY <1>3, <1>4, <2>1
<1> QED BY <1>5 DEF Word

\* A sequence of three parts, a of l, b of m and c of n elements.
Parts(u, T, a, l, b, m, c, n) ==
  /\ u \in [1 .. l + m + n -> T]
  /\ \A i \in 1 .. l : u[i] = a[i]
  /\ \A i \in 1 .. m : u[l + i] = b[i]
  /\ \A i \in 1 .. n : u[l + m + i] = c[i]
  /\ \A i \in 1 .. l + m + n : i <= l \/ i - l \in 1 .. m \/ i - (l + m) \in 1 .. n

LEMMA ThreeParts ==
  ASSUME NEW T, NEW a \in Seq(T), NEW b \in Seq(T), NEW c \in Seq(T)
  PROVE  Parts(a \o b \o c, T, a, Len(a), b, Len(b), c, Len(c))
<1> DEFINE l == Len(a)
           m == Len(b)
           n == Len(c)
<1>a. l \in Nat /\ m \in Nat /\ n \in Nat /\ l = Len(a) /\ m = Len(b) /\ n = Len(c) OBVIOUS
<1> HIDE DEF l, m, n
<1> USE <1>a
<1>1. PICK t : t = a \o b OBVIOUS
<1>2. t \in Seq(T) /\ Len(t) = l + m BY <1>1
<1>3. \A i \in 1 .. l : t[i] = a[i] BY <1>1
<1>4. \A i \in 1 .. m : t[l + i] = b[i] BY <1>1
<1>5. PICK u : u = t \o c OBVIOUS
<1> DEFINE r == l + m
<1>0. r \in Nat /\ r = Len(t) BY <1>2
<1> HIDE DEF r
<1>6. u \in Seq(T) /\ Len(u) = l + m + n
  <2>1. u \in Seq(T) /\ Len(u) = r + n BY <1>0, <1>2, <1>5, ConcatProperties
  <2> QED BY <2>1 DEF r
<1>7. \A i \in 1 .. l + m : u[i] = t[i]
  <2>1. \A i \in 1 .. r : u[i] = t[i] BY <1>0, <1>2, <1>5
  <2> QED BY <2>1 DEF r
<1>8. \A i \in 1 .. n : u[l + m + i] = c[i]
  <2>1. \A i \in 1 .. n : u[r + i] = c[i] BY <1>0, <1>2, <1>5
  <2> QED BY <2>1 DEF r
<1>9. \A i \in 1 .. l : u[i] = a[i] BY <1>3, <1>7
<1>10. \A i \in 1 .. m : u[l + i] = b[i]
  <2>1. \A i \in 1 .. m : l + i \in 1 .. l + m OBVIOUS
  <2> QED BY <1>4, <1>7, <2>1
<1>11. u \in [1 .. l + m + n -> T] BY <1>6
<1>12. u = a \o b \o c BY <1>1, <1>5
<1>13. \A i \in 1 .. l + m + n : i <= l \/ i - l \in 1 .. m \/ i - (l + m) \in 1 .. n OBVIOUS
<1>14. Parts(u, T, a, l, b, m, c, n) BY <1>8, <1>9, <1>10, <1>11, <1>13 DEF Parts
<1> QED BY <1>12, <1>14 DEF l, m, n

\* The checksum of an accounting record tells what its field held.
LEMMA AccountingTells ==
  ASSUME NEW d \in [1 .. DataSize -> ByteValues], NEW x \in Word(CrcBits), NEW y \in Word(CrcBits),
         Crc32(AccountingBytes(d, x)) = Crc32(AccountingBytes(d, y))
  PROVE  x = y
<1> DEFINE p == CrcBits \div 8
           m == DataSize
           z == BytesOf({}, CrcBits)
           bx == BytesOf(x, CrcBits)
           by == BytesOf(y, CrcBits)
<1>1. CrcBits \in Nat /\ p \in Nat /\ 8 * p = CrcBits /\ m \in Nat BY RecordSizes
<1>2. d \in [1 .. m -> Word(8)] BY RecordSizes
<1>3. x \in SUBSET Nat /\ y \in SUBSET Nat /\ {} \in SUBSET Nat BY DEF Word
<1>4. z \in [1 .. p -> Word(8)] /\ bx \in [1 .. p -> Word(8)] /\ by \in [1 .. p -> Word(8)]
  <2> HIDE DEF p, z, bx, by
  <2> QED BY <1>1, <1>3, BytesAre DEF p, z, bx, by
<1> HIDE DEF p, z, bx, by, m
<1>5. PICK n \in Nat : n = m + p + p BY <1>1
<1> DEFINE mx == d \o bx \o z
           my == d \o by \o z
<1>6. d \in Seq(Word(8)) /\ bx \in Seq(Word(8)) /\ by \in Seq(Word(8)) /\ z \in Seq(Word(8))
      /\ Len(d) = m /\ Len(bx) = p /\ Len(by) = p /\ Len(z) = p
  BY <1>1, <1>2, <1>4
<1>7. Parts(mx, Word(8), d, m, bx, p, z, p)
  <2>1. Parts(mx, Word(8), d, Len(d), bx, Len(bx), z, Len(z)) BY <1>6, ThreeParts
  <2> HIDE DEF mx
  <2> QED BY <1>6, <2>1
<1>8. Parts(my, Word(8), d, m, by, p, z, p)
  <2>1. Parts(my, Word(8), d, Len(d), by, Len(by), z, Len(z)) BY <1>6, ThreeParts
  <2> HIDE DEF my
  <2> QED BY <1>6, <2>1
<1>10. Crc32(mx) = Crc32(my) BY DEF AccountingBytes, bx, by, z
<1> HIDE DEF mx, my
<1>9. ASSUME NEW i \in 1 .. n, i <= m \/ i > m + p PROVE mx[i] = my[i]
  <2>1. CASE i <= m
    <3>1. i \in 1 .. m BY <2>1
    <3> QED BY <1>7, <1>8, <3>1 DEF Parts
  <2>2. CASE i > m + p
    <3>1. PICK k \in 1 .. p : k = i - (m + p) /\ i = m + p + k
      <4>1. i - (m + p) \in 1 .. p /\ i = m + p + (i - (m + p)) BY <1>1, <1>5, <2>2
      <4> QED BY <4>1
    <3> QED BY <1>7, <1>8, <3>1 DEF Parts
  <2> QED BY <1>9, <2>1, <2>2
<1>11. m + p <= n BY <1>1, <1>5
<1>12. mx = my
  <2>1. mx \in [1 .. n -> Word(8)] /\ my \in [1 .. n -> Word(8)] BY <1>5, <1>7, <1>8 DEF Parts
  <2>2. \A i \in 1 .. n : i <= m \/ i > m + p => mx[i] = my[i] BY <1>9
  <2> QED BY <1>1, <1>10, <1>11, <2>1, <2>2, CrcFieldTells
<1>13. bx = by
  <2>1. \A k \in 1 .. p : bx[k] = by[k] BY <1>7, <1>8, <1>12 DEF Parts
  <2>2. bx = [k \in 1 .. p |-> bx[k]] /\ by = [k \in 1 .. p |-> by[k]] BY <1>4
  <2> QED BY <2>1, <2>2
<1>14. CrcBits % 8 = 0 BY RecordSizes
<1> QED BY <1>1, <1>13, <1>14, BytesTell DEF bx, by

\* A sum with the same word tells the other one.
LEMMA PlusTells ==
  ASSUME NEW w \in Nat, NEW x \in Word(w), NEW y \in Word(w), NEW b \in SUBSET Nat,
         Plus(x, b, w) = Plus(y, b, w)
  PROVE  x = y
<1>1. x \subseteq 0 .. w - 1 /\ y \subseteq 0 .. w - 1 BY DEF Word
<1> DEFINE S == {i \in 0 .. w - 1 : ~(i \in x <=> i \in y)}
<1>2. S = {}
  <2> SUFFICES ASSUME S # {} PROVE FALSE OBVIOUS
  <2>1. S \in SUBSET Nat OBVIOUS
  <2>2. PICK l \in S : \A k \in S : l <= k
    <3> HIDE DEF S
    <3> QED BY <2>1, LeastOf
  <2>3. l \in 0 .. w - 1 /\ l \in Nat /\ ~(l \in x <=> l \in y) BY <2>2
  <2>4. \A j \in 0 .. l - 1 : j \in x <=> j \in y
    <3> TAKE j \in 0 .. l - 1
    <3>1. j \in 0 .. w - 1 /\ ~(l <= j) BY <2>3
    <3>2. j \notin S
      <4> HIDE DEF S
      <4> QED BY <2>2, <3>1
    <3> QED BY <3>1, <3>2
  <2> HIDE DEF S
  <2>5. ASSUME NEW u \in SUBSET Nat, NEW v \in SUBSET Nat,
               \A j \in 0 .. l - 1 : j \in u <=> j \in v, Carries(u, b, l)
        PROVE  Carries(v, b, l)
    <3>1. PICK j \in u \intersect b : j < l /\ (j + 1) .. (l - 1) \subseteq u \union b
      BY <2>5 DEF Carries
    <3>2. j \in 0 .. l - 1 /\ j \in v BY <2>3, <2>5, <3>1
    <3>3. (j + 1) .. (l - 1) \subseteq v \union b
      <4> SUFFICES ASSUME NEW i \in (j + 1) .. (l - 1), i \notin b PROVE i \in v OBVIOUS
      <4>1. i \in u /\ i \in 0 .. l - 1 BY <2>3, <3>1, <3>2
      <4> QED BY <2>5, <4>1
    <3> QED BY <3>1, <3>2, <3>3 DEF Carries
  <2>6. x \in SUBSET Nat /\ y \in SUBSET Nat BY <1>1
  <2>7. Carries(x, b, l) <=> Carries(y, b, l) BY <2>4, <2>5, <2>6
  <2>8. l \in Ones(w) BY <2>3 DEF Ones
  <2>9. (l \in Xor(x, b)) # Carries(x, b, l) <=> (l \in Xor(y, b)) # Carries(y, b, l)
    BY <2>8, PlusIs, Zenon
  <2>10. Carries(x, b, l) \in BOOLEAN /\ Carries(y, b, l) \in BOOLEAN BY DEF Carries
  <2>11. l \in Xor(x, b) <=> l \in Xor(y, b) BY <2>7, <2>9, <2>10
  <2>12. l \in x <=> l \in y BY <2>11 DEF Xor
  <2> QED BY <2>3, <2>12
<1> QED BY <1>1, <1>2

\* A sum of words with room for the carry is not 0 unless both are, and one
\* bit longer at most.
LEMMA PlusGrows ==
  ASSUME NEW w \in Nat, NEW m \in Nat, NEW x \in SUBSET (0 .. m), NEW y \in SUBSET (0 .. m)
  PROVE  /\ Plus(x, y, w) \subseteq 0 .. m + 1
         /\ m + 1 < w /\ Plus(x, y, w) = {} => x = {} /\ y = {}
<1>1. ASSUME NEW i \in Plus(x, y, w) PROVE i \in 0 .. m + 1
  <2>1. i \in 0 .. w - 1 /\ (i \in Xor(x, y)) # Carries(x, y, i) BY PlusIs DEF Ones
  <2>2. i \in x \/ i \in y \/ Carries(x, y, i)
    <3>1. Carries(x, y, i) \in BOOLEAN BY DEF Carries
    <3> QED BY <2>1, <3>1 DEF Xor
  <2>3. ASSUME Carries(x, y, i), i > m + 1 PROVE FALSE
    <3>1. PICK j \in x \intersect y : j < i /\ (j + 1) .. (i - 1) \subseteq x \union y
      BY <2>3 DEF Carries
    <3>2. j \in 0 .. m /\ i - 1 \in (j + 1) .. (i - 1) BY <2>1, <2>3, <3>1
    <3>3. i - 1 \in 0 .. m BY <3>1, <3>2
    <3> QED BY <2>1, <2>3, <3>3
  <2> QED BY <2>1, <2>2, <2>3
<1>2. ASSUME m + 1 < w, x \union y # {} PROVE Plus(x, y, w) # {}
  <2>1. x \union y \in SUBSET Nat OBVIOUS
  <2>2. PICK l \in x \union y : \A k \in x \union y : l <= k BY <1>2, <2>1, LeastOf
  <2>3. l \in 0 .. m /\ l \in Ones(w) BY <1>2 DEF Ones
  <2>4. CASE l \in Xor(x, y)
    <3>1. ~Carries(x, y, l)
      <4> SUFFICES ASSUME NEW j \in x \intersect y, j < l PROVE FALSE BY DEF Carries
      <4>1. l <= j /\ j \in 0 .. m BY <2>2
      <4> QED BY <2>3, <4>1
    <3>2. l \in Plus(x, y, w) BY <2>3, <2>4, <3>1, PlusIs
    <3> QED BY <3>2
  <2>5. CASE l \notin Xor(x, y)
    <3>1. l \in x \intersect y BY <2>2, <2>5 DEF Xor
    <3> DEFINE G == {k \in 0 .. m + 1 : k > l /\ k \notin x \union y}
    <3>2. G \in SUBSET Nat /\ m + 1 \in G BY <2>3
    <3>3. G # {} BY <3>2
    <3>4. PICK k \in G : \A g \in G : k <= g
      <4> HIDE DEF G
      <4> QED BY <3>2, <3>3, LeastOf
    <3>5. k \in 0 .. m + 1 /\ k > l /\ k \notin x \union y BY <3>4
    <3>6. (l + 1) .. (k - 1) \subseteq x \union y
      <4> SUFFICES ASSUME NEW i \in (l + 1) .. (k - 1), i \notin x \union y PROVE FALSE OBVIOUS
      <4>1. i \in 0 .. m + 1 /\ i > l /\ ~(k <= i) BY <2>3, <3>5
      <4>2. i \in G BY <4>1
      <4> HIDE DEF G
      <4> QED BY <3>4, <4>1, <4>2
    <3>7. Carries(x, y, k) BY <3>1, <3>5, <3>6 DEF Carries
    <3>8. k \notin Xor(x, y) /\ k \in Ones(w) BY <1>2, <3>5 DEF Xor, Ones
    <3>9. k \in Plus(x, y, w) BY <3>7, <3>8, PlusIs
    <3> QED BY <3>9
  <2> QED BY <2>4, <2>5
<1> QED BY <1>1, <1>2

LEMMA PlusNone ==
  ASSUME NEW w \in Nat, NEW b \in Word(w)
  PROVE  Plus({}, b, w) = b
<1>1. \A i : ~Carries({}, b, i) BY DEF Carries
<1>2. \A i : i \in Xor({}, b) <=> i \in b BY DEF Xor
<1>3. ASSUME NEW i \in Ones(w) PROVE ((i \in Xor({}, b)) # Carries({}, b, i)) <=> i \in b
  <2>1. ~Carries({}, b, i) BY <1>1
  <2>2. i \in Xor({}, b) <=> i \in b BY <1>2
  <2>3. Carries({}, b, i) \in BOOLEAN BY DEF Carries
  <2> QED BY <2>1, <2>2, <2>3
<1>4. b \subseteq Ones(w) BY DEF Word, Ones
<1> QED BY <1>3, <1>4, PlusIs

\* One turn of the rotating sum.
LEMMA SumByteIs ==
  ASSUME NEW s \in Word(SumBits), NEW b \in Word(8)
  PROVE  /\ Plus(s, b, SumBits) \in Word(SumBits)
         /\ SumByte(s, b) \in Word(SumBits)
         /\ \A i \in 0 .. SumBits - 1 :
              i \in SumByte(s, b) <=>
                IF i = 0 THEN SumBits - 1 \in Plus(s, b, SumBits) ELSE i - 1 \in Plus(s, b, SumBits)
<1> DEFINE p == Plus(s, b, SumBits)
           w == SumBits
<1>1. w \in Nat /\ w >= 8 BY RecordSizes
<1>2. p \subseteq 0 .. w - 1 BY PlusIs DEF Ones
<1>3. SumByte(s, b) = Shl(p, 1, w) \cup Shr(p, w - 1) BY DEF SumByte
<1> HIDE DEF p, w
<1>4. ASSUME NEW i \in 0 .. w - 1
      PROVE  i \in Shl(p, 1, w) <=> i - 1 \in p
  <2>1. ASSUME i - 1 \in p PROVE i \in Shl(p, 1, w)
    <3>1. (i - 1) + 1 = i OBVIOUS
    <3> QED BY <2>1, <3>1 DEF Shl, Ones
  <2>2. ASSUME i \in Shl(p, 1, w) PROVE i - 1 \in p
    <3>1. PICK j \in p : i = j + 1 BY <2>2 DEF Shl
    <3>2. i - 1 = j BY <1>1, <1>2, <3>1
    <3> QED BY <3>2
  <2> QED BY <2>1, <2>2
<1>5. ASSUME NEW i
      PROVE  i \in Shr(p, w - 1) <=> i = 0 /\ w - 1 \in p
  <2>1. ASSUME i = 0, w - 1 \in p PROVE i \in Shr(p, w - 1)
    <3>1. w - 1 >= w - 1 /\ (w - 1) - (w - 1) = 0 BY <1>1
    <3> QED BY <2>1, <3>1 DEF Shr
  <2>2. ASSUME i \in Shr(p, w - 1) PROVE i = 0 /\ w - 1 \in p
    <3>1. PICK j \in p : j >= w - 1 /\ i = j - (w - 1) BY <2>2 DEF Shr
    <3>2. j = w - 1 BY <1>1, <1>2, <3>1
    <3>3. i = 0 BY <1>1, <3>1, <3>2
    <3> QED BY <3>2, <3>3
  <2> QED BY <2>1, <2>2
<1>6. Shl(p, 1, w) \subseteq 0 .. w - 1 BY DEF Shl, Ones
<1>7. SumByte(s, b) \subseteq 0 .. w - 1
  <2>1. Shr(p, w - 1) \subseteq 0 .. w - 1 BY <1>1, <1>5
  <2> QED BY <1>3, <1>6, <2>1
<1>8. ASSUME NEW i \in 0 .. w - 1
      PROVE  i \in SumByte(s, b) <=> IF i = 0 THEN w - 1 \in p ELSE i - 1 \in p
  <2>1. 0 - 1 \notin p BY <1>1, <1>2
  <2> QED BY <1>3, <1>4, <1>5, <2>1
<1> QED BY <1>2, <1>7, <1>8 DEF Word, p, w

LEMMA SumByteTells ==
  ASSUME NEW u \in Word(SumBits), NEW v \in Word(SumBits), NEW b \in Word(8),
         SumByte(u, b) = SumByte(v, b)
  PROVE  u = v
<1> DEFINE w == SumBits
           p == Plus(u, b, SumBits)
           q == Plus(v, b, SumBits)
<1>1. w \in Nat /\ w >= 8 BY RecordSizes
<1>2. p \in Word(w) /\ q \in Word(w) BY SumByteIs
<1>3. \A i \in 0 .. w - 1 :
         /\ i \in SumByte(u, b) <=> IF i = 0 THEN w - 1 \in p ELSE i - 1 \in p
         /\ i \in SumByte(v, b) <=> IF i = 0 THEN w - 1 \in q ELSE i - 1 \in q
  BY SumByteIs
<1> HIDE DEF p, q, w
<1>4. p \subseteq 0 .. w - 1 /\ q \subseteq 0 .. w - 1 BY <1>2 DEF Word
<1>5. ASSUME NEW i \in 0 .. w - 1 PROVE i \in p <=> i \in q
  <2>1. CASE i = w - 1
    <3>1. 0 \in 0 .. w - 1 BY <1>1
    <3>2. w - 1 \in p <=> w - 1 \in q BY <1>3, <3>1
    <3> QED BY <2>1, <3>2
  <2>2. CASE i # w - 1
    <3>1. i + 1 \in 0 .. w - 1 /\ i + 1 # 0 /\ (i + 1) - 1 = i BY <1>1, <2>2
    <3>2. (i + 1) - 1 \in p <=> (i + 1) - 1 \in q BY <1>3, <3>1
    <3> QED BY <3>1, <3>2
  <2> QED BY <2>1, <2>2
<1>6. p = q BY <1>4, <1>5
<1>7. b \in SUBSET Nat BY DEF Word
<1> QED BY <1>1, <1>6, <1>7, PlusTells DEF p, q, w

\* The states the sum of a message goes through.
SumStates(g, n, bytes) ==
  /\ g \in [0 .. n -> Word(SumBits)] /\ g[0] = {}
  /\ \A i \in 1 .. n : g[i] = SumByte(g[i - 1], bytes[i])

LEMMA SumRuns ==
  ASSUME NEW n \in Nat, NEW bytes \in [1 .. n -> Word(8)]
  PROVE  \E g : SumStates(g, n, bytes) /\ RotatingSum(bytes) = g[n]
<1> DEFINE T == Word(SumBits)
           sum == CHOOSE g : g = [i \in 0 .. Len(bytes) |->
                    IF i = 0 THEN {} ELSE SumByte(g[i - 1], bytes[i])]
           turns == [i \in 1 .. n |-> [c \in T |-> SumByte(c, bytes[i])]]
<1>1. Len(bytes) = n OBVIOUS
<1>2. {} \in T BY DEF Word
<1>3. turns \in [1 .. n -> [T -> T]] BY SumByteIs
<1> HIDE DEF T, sum
<1>4. PICK t \in [0 .. n -> T] : Chained(t, {}, n, turns)
  <2> HIDE DEF turns
  <2> QED BY <1>2, <1>3, ChainExists
<1>5. \A i \in 1 .. n : t[i] = SumByte(t[i - 1], bytes[i])
  <2> TAKE i \in 1 .. n
  <2>1. i - 1 \in 0 .. n OBVIOUS
  <2>2. t[i - 1] \in T BY <2>1
  <2>3. t[i] = turns[i][t[i - 1]] BY <1>4 DEF Chained
  <2> QED BY <2>2, <2>3
<1>6. t = [i \in 0 .. n |-> IF i = 0 THEN {} ELSE SumByte(t[i - 1], bytes[i])]
  <2>1. \A i \in 0 .. n : t[i] = IF i = 0 THEN {} ELSE SumByte(t[i - 1], bytes[i])
    BY <1>4, <1>5 DEF Chained
  <2> QED BY <2>1
<1>7. sum = [i \in 0 .. Len(bytes) |-> IF i = 0 THEN {} ELSE SumByte(sum[i - 1], bytes[i])]
  BY <1>1, <1>6, Zenon DEF sum
<1>8. sum = [i \in 0 .. n |-> IF i = 0 THEN {} ELSE SumByte(sum[i - 1], bytes[i])]
  BY <1>1, <1>7
<1>9. sum[0] = {} /\ \A i \in 1 .. n : sum[i] = SumByte(sum[i - 1], bytes[i])
  <2>1. 0 \in 0 .. n /\ \A i \in 1 .. n : i \in 0 .. n /\ i # 0 OBVIOUS
  <2> QED BY <1>8, <2>1
<1>10. \A i \in 0 .. n : sum[i] \in T
  <2> DEFINE S == {i \in 0 .. n : sum[i] \notin T}
  <2>1. S = {}
    <3> SUFFICES ASSUME S # {} PROVE FALSE OBVIOUS
    <3>1. S \in SUBSET Nat OBVIOUS
    <3>2. PICK l \in S : \A m \in S : l <= m
      <4> HIDE DEF S
      <4> QED BY <3>1, LeastOf
    <3>3. l \in 0 .. n /\ sum[l] \notin T BY <3>2
    <3>4. l # 0 BY <1>2, <1>9, <3>3
    <3>5. l \in 1 .. n /\ l - 1 \in 0 .. n /\ ~(l <= l - 1) BY <3>3, <3>4
    <3>6. l - 1 \notin S
      <4> HIDE DEF S
      <4> QED BY <3>2, <3>5
    <3>7. sum[l - 1] \in T BY <3>5, <3>6
    <3>8. bytes[l] \in Word(8) BY <3>5
    <3>9. SumByte(sum[l - 1], bytes[l]) \in T BY <3>7, <3>8, SumByteIs DEF T
    <3> QED BY <1>9, <3>3, <3>5, <3>9
  <2> QED BY <2>1
<1>11. sum \in [0 .. n -> T] BY <1>8, <1>10
<1>12. RotatingSum(bytes) = sum[n] BY <1>1 DEF RotatingSum, sum
<1>13. SumStates(sum, n, bytes) BY <1>9, <1>11 DEF SumStates, T
<1> QED BY <1>12, <1>13

\* Two messages with the same bytes from m on, and in the end the same sum,
\* had the same sum at m.
LEMMA SumMeets ==
  ASSUME NEW n \in Nat, NEW x \in [1 .. n -> Word(8)], NEW y \in [1 .. n -> Word(8)],
         NEW g, SumStates(g, n, x), NEW f, SumStates(f, n, y), g[n] = f[n],
         NEW m \in 0 .. n, \A i \in 1 .. n : i > m => x[i] = y[i]
  PROVE  g[m] = f[m]
<1> DEFINE S == {k \in 0 .. n - m : g[n - k] # f[n - k]}
<1>1. S = {}
  <2> SUFFICES ASSUME S # {} PROVE FALSE OBVIOUS
  <2>1. S \in SUBSET Nat OBVIOUS
  <2>2. PICK l \in S : \A k \in S : l <= k
    <3> HIDE DEF S
    <3> QED BY <2>1, LeastOf
  <2>3. l \in 0 .. n - m /\ l \in Nat /\ g[n - l] # f[n - l] BY <2>2
  <2>4. l # 0
    <3>1. n - 0 = n OBVIOUS
    <3> QED BY <2>3, <3>1
  <2>5. l - 1 \in 0 .. n - m /\ ~(l <= l - 1) BY <2>3, <2>4
  <2>6. l - 1 \notin S
    <3> HIDE DEF S
    <3> QED BY <2>2, <2>5
  <2>7. PICK i \in 1 .. n : i = n - (l - 1) /\ i - 1 = n - l /\ i > m
    <3>1. n - (l - 1) \in 1 .. n /\ (n - (l - 1)) - 1 = n - l /\ n - (l - 1) > m BY <2>3, <2>4
    <3> QED BY <3>1
  <2>8. g[i] = f[i] BY <2>5, <2>6, <2>7
  <2>9. g[i] = SumByte(g[i - 1], x[i]) /\ f[i] = SumByte(f[i - 1], y[i]) BY DEF SumStates
  <2>10. i - 1 \in 0 .. n OBVIOUS
  <2>11. g[i - 1] \in Word(SumBits) /\ f[i - 1] \in Word(SumBits) BY <2>10 DEF SumStates
  <2>12. x[i] = y[i] /\ x[i] \in Word(8) BY <2>7
  <2>13. PICK u \in Word(SumBits) : u = g[i - 1] BY <2>11
  <2>14. PICK v \in Word(SumBits) : v = f[i - 1] BY <2>11
  <2>15. PICK b \in Word(8) : b = x[i] /\ b = y[i] BY <2>12
  <2>16. SumByte(u, b) = SumByte(v, b) BY <2>8, <2>9, <2>13, <2>14, <2>15
  <2>17. u = v BY <2>16, SumByteTells
  <2> QED BY <2>3, <2>7, <2>13, <2>14, <2>17
<1>2. n - m \in 0 .. n - m /\ n - (n - m) = m OBVIOUS
<1> QED BY <1>1, <1>2

\* The sum of as many bytes as the sum has, from 0 on, is 0 only if they are.
LEMMA SumFieldTells ==
  ASSUME NEW n \in Nat, NEW x \in [1 .. n -> Word(8)], NEW g, SumStates(g, n, x),
         NEW p \in Nat, p <= n, 8 * p = SumBits, g[p] = {}
  PROVE  \A i \in 1 .. p : x[i] = {}
<1> DEFINE Q(k) == g[k] \subseteq 0 .. 7 + 2 * k /\ (g[k] = {} => \A i \in 1 .. k : x[i] = {})
           S == {k \in 0 .. p : ~Q(k)}
<1>1. S = {}
  <2> SUFFICES ASSUME S # {} PROVE FALSE OBVIOUS
  <2>1. S \in SUBSET Nat OBVIOUS
  <2>2. PICK l \in S : \A k \in S : l <= k
    <3> HIDE DEF S
    <3> QED BY <2>1, LeastOf
  <2>3. l \in 0 .. p /\ l \in Nat /\ ~Q(l) BY <2>2
  <2>4. l # 0
    <3>1. g[0] = {} BY DEF SumStates
    <3>2. Q(0) BY <3>1
    <3> HIDE DEF Q
    <3> QED BY <2>3, <3>2
  <2>5. PICK k \in 0 .. p : l = k + 1 /\ k = l - 1
    <3>1. l - 1 \in 0 .. p /\ l = (l - 1) + 1 BY <2>3, <2>4
    <3> QED BY <3>1
  <2>6. Q(k)
    <3> HIDE DEF Q
    <3>1. ~(l <= k) BY <2>5
    <3>2. k \notin S BY <2>2, <3>1
    <3> QED BY <3>2
  <2>7. l \in 1 .. n /\ k \in 0 .. n BY <2>3, <2>4, <2>5
  <2>8. PICK s \in Word(SumBits) : s = g[k] BY <2>7 DEF SumStates
  <2>9. PICK b \in Word(8) : b = x[l] BY <2>7
  <2>10. g[l] = SumByte(s, b) BY <2>5, <2>7, <2>8, <2>9 DEF SumStates
  <2>11. PICK q : q = Plus(s, b, SumBits) OBVIOUS
  <2>12. PICK w \in Nat : w = SumBits /\ w >= 8 BY RecordSizes
  <2>13. /\ q \in Word(w) /\ SumByte(s, b) \in Word(w)
         /\ \A i \in 0 .. w - 1 :
              i \in SumByte(s, b) <=> IF i = 0 THEN w - 1 \in q ELSE i - 1 \in q
    BY <2>11, <2>12, SumByteIs
  <2>14. q \subseteq 0 .. w - 1 /\ SumByte(s, b) \subseteq 0 .. w - 1 /\ b \subseteq 0 .. 7
    BY <2>13 DEF Word
  <2>15. PICK m \in Nat : m = 7 + 2 * k OBVIOUS
  <2>16. s \in SUBSET (0 .. m) /\ b \in SUBSET (0 .. m)
    <3>1. g[k] \subseteq 0 .. 7 + 2 * k BY <2>6
    <3>2. 0 .. 7 \subseteq 0 .. m BY <2>15
    <3> QED BY <2>8, <2>14, <2>15, <3>1, <3>2
  <2>17. q \subseteq 0 .. m + 1 BY <2>11, <2>12, <2>16, PlusGrows
  <2>18. g[l] \subseteq 0 .. 7 + 2 * l
    <3>1. ASSUME NEW i \in SumByte(s, b) PROVE i \in 0 .. m + 2
      <4>1. i \in 0 .. w - 1 BY <2>14
      <4>2. i = 0 \/ i - 1 \in q BY <2>13, <4>1
      <4> QED BY <2>17, <4>1, <4>2
    <3>2. 7 + 2 * l = m + 2 BY <2>5, <2>15
    <3> QED BY <2>10, <3>1, <3>2
  <2>19. g[l] = {} => q = {}
    <3> SUFFICES ASSUME g[l] = {}, NEW j \in q PROVE FALSE OBVIOUS
    <3>1. j \in 0 .. w - 1 BY <2>14
    <3>2. CASE j = w - 1
      <4>1. 0 \in 0 .. w - 1 BY <2>12
      <4>2. 0 \in SumByte(s, b) BY <2>13, <3>2, <4>1
      <4> QED BY <2>10, <4>2
    <3>3. CASE j # w - 1
      <4>1. j + 1 \in 0 .. w - 1 /\ j + 1 # 0 /\ (j + 1) - 1 = j BY <3>1, <3>3
      <4>2. j + 1 \in SumByte(s, b) BY <2>13, <4>1
      <4> QED BY <2>10, <4>2
    <3> QED BY <3>2, <3>3
  <2>20. q = {} => s = {} /\ b = {}
    <3>1. CASE k = 0
      <4>1. s = {} BY <2>8, <3>1 DEF SumStates
      <4>2. b \in Word(w)
        <5>1. 0 .. 7 \subseteq 0 .. w - 1 BY <2>12
        <5> QED BY <2>14, <5>1 DEF Word
      <4>3. q = b BY <2>11, <2>12, <4>1, <4>2, PlusNone
      <4> QED BY <4>1, <4>3
    <3>2. CASE k # 0
      <4>1. m + 1 < w BY <2>3, <2>5, <2>12, <2>15, <3>2
      <4> QED BY <2>11, <2>12, <2>16, <4>1, PlusGrows
    <3> QED BY <3>1, <3>2
  <2>21. ASSUME g[l] = {}, NEW i \in 1 .. l PROVE x[i] = {}
    <3>1. g[k] = {} /\ x[l] = {} BY <2>8, <2>9, <2>19, <2>20, <2>21
    <3>2. \A j \in 1 .. k : x[j] = {} BY <2>6, <3>1
    <3>3. i = l \/ i \in 1 .. k BY <2>5
    <3> QED BY <3>1, <3>2, <3>3
  <2>22. Q(l) BY <2>18, <2>21
  <2> QED BY <2>3, <2>22
<1>2. p \in 0 .. p /\ p \notin S BY <1>1
<1> HIDE DEF Q
<1>3. Q(p) BY <1>2
<1> QED BY <1>3 DEF Q

LEMMA SumOfNone ==
  ASSUME NEW n \in Nat, NEW x, NEW g, SumStates(g, n, x),
         NEW p \in 0 .. n, \A i \in 1 .. p : x[i] = {}
  PROVE  g[p] = {}
<1>1. SumByte({}, {}) = {}
  <2>1. SumBits \in Nat BY RecordSizes
  <2>2. {} \in Word(SumBits) BY DEF Word
  <2>3. Plus({}, {}, SumBits) = {} BY <2>1, <2>2, PlusNone
  <2> QED BY <2>3, Zenon DEF SumByte, Shl, Shr
<1> DEFINE S == {k \in 0 .. p : g[k] # {}}
<1>2. S = {}
  <2> SUFFICES ASSUME S # {} PROVE FALSE OBVIOUS
  <2>1. S \in SUBSET Nat OBVIOUS
  <2>2. PICK l \in S : \A k \in S : l <= k
    <3> HIDE DEF S
    <3> QED BY <2>1, LeastOf
  <2>3. l \in 0 .. p /\ g[l] # {} BY <2>2
  <2>4. l # 0 BY <2>3 DEF SumStates
  <2>5. PICK k \in 0 .. p : k = l - 1 /\ ~(l <= k)
    <3>1. l - 1 \in 0 .. p /\ ~(l <= l - 1) BY <2>3, <2>4
    <3> QED BY <3>1
  <2>6. k \notin S
    <3> HIDE DEF S
    <3> QED BY <2>2, <2>5
  <2>7. g[k] = {} BY <2>6
  <2>8. l \in 1 .. n /\ l \in 1 .. p BY <2>3, <2>4
  <2>9. g[l] = SumByte(g[k], x[l]) BY <2>5, <2>8 DEF SumStates
  <2>10. x[l] = {} BY <2>8
  <2> QED BY <1>1, <2>3, <2>7, <2>9, <2>10, Zenon
<1>3. p \in 0 .. p OBVIOUS
<1> QED BY <1>2, <1>3

\* The sum of a driver message stamped over a field of 0 tells that its field
\* is 0 still.
LEMMA DriverTells ==
  ASSUME NEW d \in [1 .. DataSize -> ByteValues], NEW x \in Word(SumBits),
         RotatingSum(DriverBytes(d, x)) = RotatingSum(DriverBytes(d, {}))
  PROVE  x = {}
<1> DEFINE p == SumBits \div 8
           q == (3 * SumBits) \div 8
           m == DataSize
           z == BytesOf({}, 3 * SumBits)
           bx == BytesOf(x, SumBits)
           by == BytesOf({}, SumBits)
<1>1. SumBits \in Nat /\ p \in Nat /\ 8 * p = SumBits /\ m \in Nat /\ q \in Nat
  BY RecordSizes
<1>2. d \in [1 .. m -> Word(8)] BY RecordSizes
<1>3. x \in SUBSET Nat /\ {} \in SUBSET Nat /\ 3 * SumBits \in Nat BY <1>1 DEF Word
<1>4. z \in [1 .. q -> Word(8)] /\ bx \in [1 .. p -> Word(8)] /\ by \in [1 .. p -> Word(8)]
  <2> HIDE DEF p, q, z, bx, by
  <2> QED BY <1>1, <1>3, BytesAre DEF p, q, z, bx, by
<1>0. \A i \in 1 .. p : by[i] = {}
  <2> TAKE i \in 1 .. p
  <2>1. by[i] \in Word(8) /\ \A k \in 0 .. 7 : k \in by[i] <=> 8 * (i - 1) + k \in {}
    BY <1>1, <1>3, BytesAre
  <2>2. by[i] \subseteq 0 .. 7 BY <2>1 DEF Word
  <2> HIDE DEF by
  <2> QED BY <2>1, <2>2
<1> HIDE DEF p, q, z, bx, by, m
<1>5. PICK n \in Nat : n = p + q + m BY <1>1
<1> DEFINE mx == bx \o z \o d
           my == by \o z \o d
<1>6. d \in Seq(Word(8)) /\ bx \in Seq(Word(8)) /\ by \in Seq(Word(8)) /\ z \in Seq(Word(8))
      /\ Len(d) = m /\ Len(bx) = p /\ Len(by) = p /\ Len(z) = q
  BY <1>1, <1>2, <1>4
<1>7. Parts(mx, Word(8), bx, p, z, q, d, m)
  <2>1. Parts(mx, Word(8), bx, Len(bx), z, Len(z), d, Len(d)) BY <1>6, ThreeParts
  <2> HIDE DEF mx
  <2> QED BY <1>6, <2>1
<1>8. Parts(my, Word(8), by, p, z, q, d, m)
  <2>1. Parts(my, Word(8), by, Len(by), z, Len(z), d, Len(d)) BY <1>6, ThreeParts
  <2> HIDE DEF my
  <2> QED BY <1>6, <2>1
<1>9. RotatingSum(mx) = RotatingSum(my) BY DEF DriverBytes, bx, by, z
<1> HIDE DEF mx, my
<1>10. mx \in [1 .. n -> Word(8)] /\ my \in [1 .. n -> Word(8)] BY <1>5, <1>7, <1>8 DEF Parts
<1>11. ASSUME NEW i \in 1 .. n, i > p PROVE mx[i] = my[i]
  <2>1. CASE i <= p + q
    <3>1. PICK k \in 1 .. q : i = p + k
      <4>1. i - p \in 1 .. q /\ i = p + (i - p) BY <1>1, <1>11, <2>1
      <4> QED BY <4>1
    <3> QED BY <1>7, <1>8, <3>1 DEF Parts
  <2>2. CASE i > p + q
    <3>1. PICK k \in 1 .. m : i = p + q + k
      <4>1. i - (p + q) \in 1 .. m /\ i = p + q + (i - (p + q)) BY <1>1, <1>5, <2>2
      <4> QED BY <4>1
    <3> QED BY <1>7, <1>8, <3>1 DEF Parts
  <2>3. i <= p + q \/ i > p + q BY <1>1
  <2> QED BY <2>1, <2>2, <2>3
<1>12. PICK g : SumStates(g, n, mx) /\ RotatingSum(mx) = g[n] BY <1>10, SumRuns
<1>13. PICK f : SumStates(f, n, my) /\ RotatingSum(my) = f[n] BY <1>10, SumRuns
<1>14. p \in 0 .. n /\ p <= n BY <1>1, <1>5
<1>15. g[p] = f[p]
  <2>1. \A i \in 1 .. n : i > p => mx[i] = my[i] BY <1>11
  <2>2. g[n] = f[n] BY <1>9, <1>12, <1>13
  <2> QED BY <1>10, <1>12, <1>13, <1>14, <2>1, <2>2, SumMeets
<1>16. \A i \in 1 .. p : my[i] = {} BY <1>0, <1>8 DEF Parts
<1>17. f[p] = {} BY <1>13, <1>14, <1>16, SumOfNone
<1>18. \A i \in 1 .. p : mx[i] = {}
  <2>1. g[p] = {} BY <1>15, <1>17
  <2> QED BY <1>1, <1>10, <1>12, <1>14, <2>1, SumFieldTells
<1>19. \A i \in 1 .. p : bx[i] = by[i] BY <1>0, <1>7, <1>18 DEF Parts
<1>20. bx = by
  <2>1. bx = [i \in 1 .. p |-> bx[i]] /\ by = [i \in 1 .. p |-> by[i]] BY <1>4
  <2> QED BY <1>19, <2>1, Zenon
<1>21. {} \in Word(SumBits) BY DEF Word
<1>22. SumBits % 8 = 0 BY RecordSizes
<1>23. BytesOf(x, SumBits) = BytesOf({}, SumBits) BY <1>20 DEF bx, by
<1> QED BY <1>1, <1>21, <1>22, <1>23, BytesTell

LEMMA CrcWord == ASSUME NEW bytes PROVE Crc32(bytes) \in Word(CrcBits)
BY Zenon DEF Crc32, Not, Word, Ones

LEMMA DriverWord ==
  ASSUME NEW d \in [1 .. DataSize -> ByteValues], NEW x \in SUBSET Nat
  PROVE  RotatingSum(DriverBytes(d, x)) \in Word(SumBits)
<1> DEFINE p == SumBits \div 8
           q == (3 * SumBits) \div 8
           m == DataSize
           z == BytesOf({}, 3 * SumBits)
           bx == BytesOf(x, SumBits)
<1>1. SumBits \in Nat /\ p \in Nat /\ m \in Nat /\ q \in Nat BY RecordSizes
<1>2. d \in [1 .. m -> Word(8)] BY RecordSizes
<1>3. {} \in SUBSET Nat /\ 3 * SumBits \in Nat BY <1>1
<1>4. z \in [1 .. q -> Word(8)] /\ bx \in [1 .. p -> Word(8)]
  <2> HIDE DEF p, q, z, bx
  <2> QED BY <1>1, <1>3, BytesAre DEF p, q, z, bx
<1> HIDE DEF p, q, z, bx, m
<1>5. PICK n \in Nat : n = p + q + m BY <1>1
<1> DEFINE mx == bx \o z \o d
<1>6. d \in Seq(Word(8)) /\ bx \in Seq(Word(8)) /\ z \in Seq(Word(8))
      /\ Len(d) = m /\ Len(bx) = p /\ Len(z) = q
  BY <1>1, <1>2, <1>4
<1>7. Parts(mx, Word(8), bx, p, z, q, d, m)
  <2>1. Parts(mx, Word(8), bx, Len(bx), z, Len(z), d, Len(d)) BY <1>6, ThreeParts
  <2> HIDE DEF mx
  <2> QED BY <1>6, <2>1
<1>8. RotatingSum(DriverBytes(d, x)) = RotatingSum(mx) BY DEF DriverBytes, bx, z
<1> HIDE DEF mx
<1>9. mx \in [1 .. n -> Word(8)] BY <1>5, <1>7 DEF Parts
<1>10. PICK g : SumStates(g, n, mx) /\ RotatingSum(mx) = g[n] BY <1>9, SumRuns
<1>11. n \in 0 .. n OBVIOUS
<1>12. g[n] \in Word(SumBits) BY <1>10, <1>11 DEF SumStates
<1> QED BY <1>8, <1>10, <1>12

\* The words a checksum field of a record holds.
ChecksumWords == IF kind = "driver" THEN Word(SumBits) ELSE Word(CrcBits)

\* `sealed` is what was stamped, and `data` is that but for one byte at most.
StampedOver(sealed) ==
  /\ sealed \in [1 .. DataSize -> ByteValues]
  /\ stored = Checksum(kind, sealed, before)
  /\ damaged => \E i \in 1 .. DataSize :
                  sealed[i] # data[i] /\ \A j \in 1 .. DataSize : j # i => sealed[j] = data[j]
  /\ ~damaged => data = sealed

\* What Verify answers.
Answered ==
  IF kind = "accounting" THEN ValidateRecord
  ELSE Answer!Comparison(Checksum(kind, data, stored) = stored)

\* The invariant that is inductive: past Stamp, the field is the checksum of
\* what was stamped, and the data differ from that in one byte if damaged.
RecordInv ==
  /\ kind \in {"message", "accounting", "driver"} /\ header \in BOOLEAN /\ damaged \in BOOLEAN
  /\ data \in [1 .. DataSize -> ByteValues] /\ before \in ByteValues
  /\ stored \in ChecksumWords
  /\ stage \in {"written", "stamped", "damaged", "verified"}
  /\ stage = "written" => stored = before /\ ~damaged
  /\ stage = "stamped" => ~damaged
  /\ stage # "written" => \E sealed : StampedOver(sealed)
  /\ verdict \subseteq Ones(64)
  /\ stage = "verified" => verdict = Answered

LEMMA ByteFits == ASSUME NEW b \in ByteValues PROVE b \in ChecksumWords /\ b \in SUBSET Nat
<1>1. b \in Word(8) /\ SumBits \in Nat /\ SumBits >= 8 /\ CrcBits \in Nat /\ CrcBits >= 8
  BY RecordSizes
<1>2. 0 .. 7 \subseteq 0 .. SumBits - 1 /\ 0 .. 7 \subseteq 0 .. CrcBits - 1 BY <1>1
<1> QED BY <1>1, <1>2 DEF Word, ChecksumWords

LEMMA ChecksumFits ==
  ASSUME NEW k \in {"message", "accounting", "driver"},
         NEW d \in [1 .. DataSize -> ByteValues], NEW b \in ByteValues
  PROVE  Checksum(k, d, b) \in IF k = "driver" THEN Word(SumBits) ELSE Word(CrcBits)
<1>1. CASE k = "driver"
  <2>1. Checksum(k, d, b) = RotatingSum(DriverBytes(d, b)) BY <1>1 DEF Checksum
  <2> QED BY <1>1, <2>1, ByteFits, DriverWord
<1>2. CASE k = "message"
  <2>1. Checksum(k, d, b) = Crc32(d) BY <1>2 DEF Checksum
  <2> QED BY <1>2, <2>1, CrcWord
<1>3. CASE k = "accounting"
  <2>1. Checksum(k, d, b) = Crc32(AccountingBytes(d, b)) BY <1>3 DEF Checksum
  <2> QED BY <1>3, <2>1, CrcWord
<1> QED BY <1>1, <1>2, <1>3

LEMMA AnswerFits == Answered \subseteq Ones(64)
<1>1. \A b \in BOOLEAN : Answer!Comparison(b) \subseteq Ones(64) BY DEF Answer!Comparison, Ones
<1>2. Answer!BK_FALSE \subseteq Ones(64) BY DEF Answer!BK_FALSE, Ones
<1>3. ValidateRecord \subseteq Ones(64) BY <1>1, <1>2 DEF ValidateRecord
<1> QED BY <1>1, <1>3 DEF Answered

LEMMA RecordFirst == RecordInit => RecordInv
<1> SUFFICES ASSUME RecordInit PROVE RecordInv OBVIOUS
<1>1. stored \in ChecksumWords BY ByteFits DEF RecordInit
<1> QED BY <1>1, Zenon DEF RecordInit, RecordInv

LEMMA RecordStep == RecordInv /\ [RecordNext]_recordVars => RecordInv'
<1> SUFFICES ASSUME RecordInv, [RecordNext]_recordVars PROVE RecordInv' OBVIOUS
<1>1. CASE Stamp
  <2>1. /\ stage = "written" /\ stage' = "stamped" /\ stored = before /\ ~damaged
        /\ stored' = Checksum(kind, data, before) /\ before' = before
        /\ UNCHANGED <<kind, header, data, damaged, verdict>>
    BY <1>1 DEF Stamp, RecordInv
  <2>2. StampedOver(data)' BY <2>1 DEF StampedOver, RecordInv
  <2>3. stored' \in ChecksumWords'
    <3>1. stored' \in IF kind = "driver" THEN Word(SumBits) ELSE Word(CrcBits)
      BY <2>1, ChecksumFits DEF RecordInv
    <3> QED BY <2>1, <3>1 DEF ChecksumWords
  <2> QED BY <2>1, <2>2, <2>3 DEF RecordInv
<1>2. CASE Damage
  <2>1. PICK i \in 1 .. DataSize, b \in ByteValues :
          b # data[i] /\ data' = [data EXCEPT ![i] = b]
    BY <1>2 DEF Damage
  <2>2. /\ stage = "stamped" /\ stage' = "damaged" /\ ~damaged /\ damaged' = TRUE
        /\ UNCHANGED <<kind, header, stored, before, verdict>>
    BY <1>2 DEF Damage, RecordInv
  <2>3. PICK sealed : StampedOver(sealed) BY <2>2 DEF RecordInv
  <2>4. data = sealed /\ data \in [1 .. DataSize -> ByteValues]
    BY <2>2, <2>3 DEF StampedOver, RecordInv
  <2>5. data'[i] # data[i] /\ \A j \in 1 .. DataSize : j # i => data'[j] = data[j]
    BY <2>1, <2>4
  <2>6. StampedOver(sealed)' BY <2>2, <2>3, <2>4, <2>5 DEF StampedOver
  <2>7. data' \in [1 .. DataSize -> ByteValues] BY <2>1, <2>4
  <2>8. stored' \in ChecksumWords' BY <2>2 DEF ChecksumWords, RecordInv
  <2> QED BY <2>2, <2>6, <2>7, <2>8 DEF RecordInv
<1>3. CASE Verify
  <2>1. /\ stage # "written" /\ stage' = "verified" /\ verdict' = Answered
        /\ UNCHANGED <<kind, header, data, stored, before, damaged>>
    BY <1>3 DEF Verify, Answered
  <2>2. PICK sealed : StampedOver(sealed) BY <2>1 DEF RecordInv
  <2>3. StampedOver(sealed)' BY <2>1, <2>2 DEF StampedOver
  <2>4. Answered' = Answered BY <2>1 DEF Answered, ValidateRecord
  <2>5. stored' \in ChecksumWords' BY <2>1 DEF ChecksumWords, RecordInv
  <2>6. verdict' \subseteq Ones(64) BY <2>1, AnswerFits
  <2> QED BY <2>1, <2>3, <2>4, <2>5, <2>6 DEF RecordInv
<1>4. CASE UNCHANGED recordVars
  BY <1>4 DEF recordVars, RecordInv, StampedOver, Answered, ValidateRecord, ChecksumWords
<1> QED BY <1>1, <1>2, <1>3, <1>4 DEF RecordNext

\* What the fields of a record hold at each stage.
THEOREM RecordsKept == RecordSpec => []RecordInv
<1> QED BY RecordFirst, RecordStep, PTL DEF RecordSpec

LEMMA VerdictsAre == RecordInv => VerdictsRight
<1> SUFFICES ASSUME RecordInv, stage = "verified"
             PROVE  /\ kind = "message" => (Answer!Holds(verdict) <=> ~damaged)
                    /\ kind # "message" /\ header /\ ~damaged /\ (kind = "driver" => before = {})
                         => (Answer!Holds(verdict) <=> stored = before)
                    /\ kind = "accounting" /\ ~header => Answer!Holds(verdict)
  BY DEF VerdictsRight
<1>1. verdict = Answered BY DEF RecordInv
<1>2. PICK sealed : StampedOver(sealed) BY DEF RecordInv
<1>3. \A b \in BOOLEAN : Answer!Holds(Answer!Comparison(b)) <=> b
  BY DEF Answer!Holds, Answer!Comparison
<1>4. ASSUME kind = "message" PROVE Answer!Holds(verdict) <=> ~damaged
  <2>1. Answer!Holds(verdict) <=> Crc32(data) = stored BY <1>1, <1>3, <1>4 DEF Answered, Checksum
  <2>2. stored = Crc32(sealed) BY <1>2, <1>4 DEF StampedOver, Checksum
  <2>3. CASE damaged
    <3>1. PICK i \in 1 .. DataSize :
            sealed[i] # data[i] /\ \A j \in 1 .. DataSize : j # i => sealed[j] = data[j]
      BY <1>2, <2>3 DEF StampedOver
    <3>2. sealed \in [1 .. DataSize -> Word(8)] /\ data \in [1 .. DataSize -> Word(8)]
          /\ DataSize \in Nat
      BY <1>2, RecordSizes DEF StampedOver, RecordInv
    <3>3. Crc32(sealed) # Crc32(data) BY <3>1, <3>2, CrcChanges
    <3> QED BY <2>1, <2>2, <2>3, <3>3
  <2>4. CASE ~damaged
    <3>1. data = sealed BY <1>2, <2>4 DEF StampedOver
    <3> QED BY <2>1, <2>2, <2>4, <3>1
  <2> QED BY <2>3, <2>4
<1>5. ASSUME kind = "accounting", header, ~damaged PROVE Answer!Holds(verdict) <=> stored = before
  <2>1. Answer!Holds(verdict) <=> Crc32(AccountingBytes(data, stored)) = stored
    BY <1>1, <1>3, <1>5 DEF Answered, ValidateRecord, Checksum
  <2>2. data = sealed /\ stored = Crc32(AccountingBytes(sealed, before))
    BY <1>2, <1>5 DEF StampedOver, Checksum
  <2>3. stored \in Word(CrcBits) /\ before \in Word(CrcBits)
    BY <1>5, ByteFits DEF RecordInv, ChecksumWords
  <2>4. data \in [1 .. DataSize -> ByteValues] BY DEF RecordInv
  <2>5. Crc32(AccountingBytes(data, stored)) = Crc32(AccountingBytes(data, before)) => stored = before
    BY <2>3, <2>4, AccountingTells
  <2> QED BY <2>1, <2>2, <2>5
<1>6. ASSUME kind = "driver", ~damaged, before = {} PROVE Answer!Holds(verdict) <=> stored = before
  <2>1. Answer!Holds(verdict) <=> RotatingSum(DriverBytes(data, stored)) = stored
    BY <1>1, <1>3, <1>6 DEF Answered, Checksum
  <2>2. data = sealed /\ stored = RotatingSum(DriverBytes(sealed, {}))
    BY <1>2, <1>6 DEF StampedOver, Checksum
  <2>3. stored \in Word(SumBits) BY <1>6 DEF RecordInv, ChecksumWords
  <2>4. data \in [1 .. DataSize -> ByteValues] BY DEF RecordInv
  <2>5. RotatingSum(DriverBytes(data, stored)) = RotatingSum(DriverBytes(data, {})) => stored = {}
    BY <2>3, <2>4, DriverTells
  <2> QED BY <1>6, <2>1, <2>2, <2>5
<1>7. ASSUME kind = "accounting", ~header PROVE Answer!Holds(verdict)
  BY <1>1, <1>7 DEF Answered, ValidateRecord, Answer!Holds, Answer!BK_FALSE
<1>8. kind # "message" => kind = "accounting" \/ kind = "driver" BY DEF RecordInv
<1> QED BY <1>4, <1>5, <1>6, <1>7, <1>8

\* A reader passes and refuses the records VerdictsRight says it does.
THEOREM VerdictsKept == RecordSpec => []VerdictsRight
<1> QED BY RecordsKept, VerdictsAre, PTL

----------------------------------------------------------------------------
(* The trees of the EDGE levels                                            *)

Power(d) == 2^d
HeapPlaces == 1 .. Power(Height) - 1

\* How far from the place n, in the order of the tree, those below it reach.
Reach(n) == Power(Height - 1 - Depth(n))
Under(m, c) == Rank(m) - Rank(c) < Reach(c) /\ Rank(c) - Rank(m) < Reach(c)

LEMMA Powers ==
  /\ Height \in Nat /\ Height > 0 /\ Power(0) = 1
  /\ \A d \in 0 .. Height : Power(d) \in Nat /\ Power(d) > 0 /\ Power(d + 1) = 2 * Power(d)
<1>1. \A d \in 0 .. Height : Power(d) \in Nat \ {0} /\ Power(d + 1) = 2 * Power(d)
  BY HeightAssumption, Zenon DEF Power
<1>2. Height \in Nat \ {0} /\ Power(0) = 1 BY HeightAssumption, Zenon DEF Power
<1> QED BY <1>1, <1>2

LEMMA PowersGrow ==
  ASSUME NEW i \in 0 .. Height, NEW j \in 0 .. Height, i <= j
  PROVE  Power(i) <= Power(j)
<1> DEFINE S == {k \in 0 .. Height : i <= k /\ ~(Power(i) <= Power(k))}
<1>1. S = {}
  <2> SUFFICES ASSUME S # {} PROVE FALSE OBVIOUS
  <2>0. Height \in Nat BY Powers
  <2>1. S \in SUBSET Nat OBVIOUS
  <2>2. PICK l \in S : \A k \in S : l <= k
    <3> HIDE DEF S
    <3> QED BY <2>1, LeastOf
  <2>3. l \in 0 .. Height /\ i <= l /\ ~(Power(i) <= Power(l)) BY <2>2
  <2>4. Power(i) \in Nat /\ Power(l) \in Nat BY <2>3, Powers
  <2>5. l # i BY <2>3, <2>4
  <2>6. PICK k \in 0 .. Height : l = k + 1 /\ i <= k /\ ~(l <= k)
    <3>1. l - 1 \in 0 .. Height /\ l = (l - 1) + 1 /\ i <= l - 1 /\ ~(l <= l - 1)
      BY <2>0, <2>3, <2>5
    <3> QED BY <3>1
  <2>7. k \notin S
    <3> HIDE DEF S
    <3> QED BY <2>2, <2>6
  <2>8. Power(i) <= Power(k) BY <2>6, <2>7
  <2>9. Power(k) \in Nat /\ Power(l) = 2 * Power(k) BY <2>6, Powers
  <2> QED BY <2>3, <2>4, <2>8, <2>9
<1>2. j \notin S BY <1>1
<1> QED BY <1>2

LEMMA DepthOnly ==
  ASSUME NEW n \in Nat, NEW d \in 0 .. Height - 1, NEW e \in 0 .. Height - 1,
         Power(d) <= n, n < Power(d + 1), Power(e) <= n, n < Power(e + 1)
  PROVE  d = e
<1>0. Height \in Nat BY Powers
<1>1. /\ d \in 0 .. Height /\ e \in 0 .. Height /\ d + 1 \in 0 .. Height /\ e + 1 \in 0 .. Height
  BY <1>0
<1>2. Power(d) \in Nat /\ Power(e) \in Nat /\ Power(d + 1) \in Nat /\ Power(e + 1) \in Nat
  BY <1>1, Powers
<1>3. ~(d < e)
  <2> SUFFICES ASSUME d < e PROVE FALSE OBVIOUS
  <2>1. d + 1 <= e BY <1>0
  <2>2. Power(d + 1) <= Power(e) BY <1>1, <2>1, PowersGrow
  <2> QED BY <1>2, <2>2
<1>4. ~(e < d)
  <2> SUFFICES ASSUME e < d PROVE FALSE OBVIOUS
  <2>1. e + 1 <= d BY <1>0
  <2>2. Power(e + 1) <= Power(d) BY <1>1, <2>1, PowersGrow
  <2> QED BY <1>2, <2>2
<1> QED BY <1>0, <1>3, <1>4

LEMMA DepthIs ==
  ASSUME NEW n \in HeapPlaces
  PROVE  /\ n \in Nat /\ n > 0
         /\ Depth(n) \in 0 .. Height - 1
         /\ Power(Depth(n)) <= n /\ n < Power(Depth(n) + 1)
<1>0. Height \in Nat /\ Height > 0 /\ Power(0) = 1 /\ Power(Height) \in Nat
  <2>1. Height \in Nat /\ Height > 0 BY Powers
  <2>2. Height \in 0 .. Height BY <2>1
  <2> QED BY <2>1, <2>2, Powers
<1>1. n \in Nat /\ n > 0 /\ n < Power(Height) BY <1>0 DEF HeapPlaces
<1> DEFINE S == {d \in 0 .. Height : n < Power(d)}
<1>2. PICK l \in S : \A k \in S : l <= k
  <2>1. S \in SUBSET Nat OBVIOUS
  <2>2. Height \in S BY <1>0, <1>1
  <2> HIDE DEF S
  <2> QED BY <2>1, <2>2, LeastOf
<1>3. l \in 0 .. Height /\ n < Power(l) BY <1>2
<1>4. l # 0 BY <1>0, <1>1, <1>3
<1>5. PICK d \in 0 .. Height - 1 : l = d + 1 /\ ~(l <= d) /\ d \in 0 .. Height
  <2>1. l - 1 \in 0 .. Height - 1 /\ l = (l - 1) + 1 /\ ~(l <= l - 1) /\ l - 1 \in 0 .. Height
    BY <1>0, <1>3, <1>4
  <2> QED BY <2>1
<1>6. d \notin S
  <2> HIDE DEF S
  <2> QED BY <1>2, <1>5
<1>7. Power(d) \in Nat /\ Power(d + 1) \in Nat BY <1>3, <1>5, Powers
<1>8. n \in Power(d) .. Power(d + 1) - 1
  <2>1. ~(n < Power(d)) BY <1>5, <1>6
  <2> QED BY <1>1, <1>3, <1>5, <1>7, <2>1
<1>9. Depth(n) \in 0 .. Height - 1 /\ n \in Power(Depth(n)) .. Power(Depth(n) + 1) - 1
  <2>1. \E c \in 0 .. Height - 1 : n \in 2^c .. 2^(c + 1) - 1 BY <1>8, Zenon DEF Power
  <2>2. Depth(n) \in 0 .. Height - 1 /\ n \in 2^Depth(n) .. 2^(Depth(n) + 1) - 1
    BY <2>1, Zenon DEF Depth
  <2> QED BY <2>2, Zenon DEF Power
<1>10. PICK c \in 0 .. Height - 1 : c = Depth(n) /\ n \in Power(c) .. Power(c + 1) - 1 BY <1>9
<1>11. Power(c) \in Nat /\ Power(c + 1) \in Nat
  <2>1. c \in 0 .. Height /\ c + 1 \in 0 .. Height BY <1>0
  <2> QED BY <2>1, Powers
<1>12. Power(c) <= n /\ n < Power(c + 1) BY <1>1, <1>10, <1>11
<1> QED BY <1>1, <1>10, <1>12

LEMMA RankIs ==
  ASSUME NEW n \in HeapPlaces
  PROVE  /\ Reach(n) \in Nat /\ Reach(n) > 0
         /\ Rank(n) \in Nat
         /\ Rank(n) = (2 * (n - Power(Depth(n))) + 1) * Reach(n)
<1>1. PICK d \in 0 .. Height - 1 : d = Depth(n) BY DepthIs
<1>2. n \in Nat /\ Power(d) <= n BY <1>1, DepthIs
<1>3. d \in 0 .. Height /\ Height - 1 - d \in 0 .. Height BY Powers
<1>4. Power(d) \in Nat /\ Power(Height - 1 - d) \in Nat /\ Power(Height - 1 - d) > 0 BY <1>3, Powers
<1>5. Reach(n) = Power(Height - 1 - d) BY <1>1 DEF Reach
<1>6. Rank(n) = (2 * (n - Power(Depth(n))) + 1) * Reach(n) BY Zenon DEF Rank, Reach, Power
<1>7. PICK r \in Nat : r = Reach(n) /\ r > 0 BY <1>4, <1>5
<1>8. PICK k \in Nat : k = 2 * (n - Power(d)) + 1
  <2>1. 2 * (n - Power(d)) + 1 \in Nat BY <1>2, <1>4
  <2> QED BY <2>1
<1>9. k * r \in Nat OBVIOUS
<1>10. Rank(n) = k * r BY <1>1, <1>6, <1>7, <1>8
<1> QED BY <1>6, <1>7, <1>9, <1>10

\* A child is half as far from the ends of what is below its parent.
LEMMA ChildIs ==
  ASSUME NEW n \in HeapPlaces, NEW c \in HeapPlaces, c = 2 * n \/ c = 2 * n + 1
  PROVE  /\ Depth(c) = Depth(n) + 1 /\ Reach(n) = 2 * Reach(c)
         /\ Rank(c) = IF c = 2 * n THEN Rank(n) - Reach(c) ELSE Rank(n) + Reach(c)
<1>0. Height \in Nat /\ Height > 0 BY Powers
<1>1. PICK d \in 0 .. Height - 1 : d = Depth(n) BY DepthIs
<1>2. n \in Nat /\ Power(d) <= n /\ n < Power(d + 1) BY <1>1, DepthIs
<1>3. PICK e \in 0 .. Height - 1 : e = Depth(c) BY DepthIs
<1>4. c \in Nat /\ Power(e) <= c /\ c < Power(e + 1) BY <1>3, DepthIs
<1>5. d \in 0 .. Height /\ d + 1 \in 0 .. Height /\ Height \in 0 .. Height BY <1>0
<1>6. /\ Power(d) \in Nat /\ Power(d + 1) = 2 * Power(d)
      /\ Power(d + 1) \in Nat /\ Power(d + 1 + 1) = 2 * Power(d + 1) /\ Power(Height) \in Nat
  BY <1>5, Powers
<1>7. Power(d + 1) <= c /\ c < Power(d + 1 + 1) BY <1>2, <1>4, <1>6
<1>8. d + 1 \in 0 .. Height - 1
  <2> SUFFICES ASSUME d + 1 = Height PROVE FALSE BY <1>0
  <2>1. c < Power(Height) BY <1>6 DEF HeapPlaces
  <2> QED BY <1>4, <1>6, <1>7, <2>1
<1>9. e = d + 1 BY <1>4, <1>7, <1>8, DepthOnly
<1>10. PICK i \in 0 .. Height : i = Height - 1 - e /\ Height - 1 - d = i + 1
  <2>1. Height - 1 - e \in 0 .. Height /\ Height - 1 - d = (Height - 1 - e) + 1 BY <1>0, <1>9
  <2> QED BY <2>1
<1>11. Reach(c) = Power(i) /\ Reach(n) = Power(i + 1) BY <1>1, <1>3, <1>10 DEF Reach
<1>12. Reach(n) = 2 * Reach(c) BY <1>11, Powers
<1>13. PICK r \in Nat : r = Reach(c) BY RankIs
<1>14. PICK p \in Nat : p = Power(d) /\ Power(e) = 2 * p BY <1>6, <1>9
<1>15. Rank(c) = (2 * (c - 2 * p) + 1) * r BY <1>3, <1>13, <1>14, RankIs
<1>16. Rank(n) = (2 * (n - p) + 1) * (2 * r) BY <1>1, <1>12, <1>13, <1>14, RankIs
<1>17. CASE c = 2 * n
  <2>1. Rank(c) = Rank(n) - r BY <1>2, <1>15, <1>16, <1>17
  <2> QED BY <1>1, <1>3, <1>9, <1>12, <1>13, <1>17, <2>1
<1>18. CASE c = 2 * n + 1
  <2>1. Rank(c) = Rank(n) + r BY <1>2, <1>15, <1>16, <1>18
  <2>2. c # 2 * n BY <1>2, <1>18
  <2> QED BY <1>1, <1>3, <1>9, <1>12, <1>13, <2>1, <2>2
<1> QED BY <1>17, <1>18

\* Places of one depth are two reaches apart.
LEMMA ApartAtDepth ==
  ASSUME NEW m \in HeapPlaces, NEW c \in HeapPlaces, Depth(m) = Depth(c), Under(m, c)
  PROVE  m = c
<1>1. PICK d \in 0 .. Height - 1 : d = Depth(m) /\ d = Depth(c) BY DepthIs
<1>2. m \in Nat /\ c \in Nat BY DepthIs
<1>3. d \in 0 .. Height BY Powers
<1>4. PICK p \in Nat : p = Power(d) BY <1>3, Powers
<1>5. PICK r \in Nat : r = Reach(c) /\ r > 0 BY RankIs
<1>6. Reach(m) = r BY <1>1, <1>5 DEF Reach
<1>7. Rank(m) = (2 * (m - p) + 1) * r /\ Rank(c) = (2 * (c - p) + 1) * r
  BY <1>1, <1>4, <1>5, <1>6, RankIs
<1>8. PICK k \in Int : k = m - c BY <1>2
<1>9. Rank(m) - Rank(c) = 2 * (k * r) BY <1>2, <1>7, <1>8
<1>10. 2 * (k * r) < r /\ -(2 * (k * r)) < r
  <2>1. Rank(m) \in Nat /\ Rank(c) \in Nat BY RankIs
  <2>2. Rank(m) - Rank(c) < r /\ Rank(c) - Rank(m) < r BY <1>5 DEF Under
  <2> QED BY <1>9, <2>1, <2>2
<1>11. ~(k >= 1)
  <2> SUFFICES ASSUME k >= 1 PROVE FALSE OBVIOUS
  <2>1. k * r >= r OBVIOUS
  <2> QED BY <1>5, <1>10, <2>1
<1>12. ~(k <= -1)
  <2> SUFFICES ASSUME k <= -1 PROVE FALSE OBVIOUS
  <2>1. k * r <= -r OBVIOUS
  <2> QED BY <1>5, <1>10, <2>1
<1>13. k = 0 BY <1>11, <1>12
<1> QED BY <1>2, <1>8, <1>13

\* Whatever ranks below and above c alike is c or deeper.
LEMMA UnderDeeper ==
  ASSUME NEW m \in HeapPlaces, NEW c \in HeapPlaces, Under(m, c)
  PROVE  m = c \/ Depth(m) > Depth(c)
<1> DEFINE Fine(b) == \A x \in HeapPlaces : Under(x, b) => x = b \/ Depth(x) > Depth(b)
           S == {b \in HeapPlaces : ~Fine(b)}
<1>1. S = {}
  <2> SUFFICES ASSUME S # {} PROVE FALSE OBVIOUS
  <2>0. HeapPlaces \subseteq Nat BY DepthIs
  <2>1. S \in SUBSET Nat BY <2>0
  <2>2. PICK b \in S : \A k \in S : b <= k
    <3> HIDE DEF S
    <3> QED BY <2>1, LeastOf
  <2>3. PICK x \in HeapPlaces : b \in HeapPlaces /\ Under(x, b) /\ x # b /\ ~(Depth(x) > Depth(b))
    BY <2>2
  <2>4. PICK d \in 0 .. Height - 1 : d = Depth(b) BY <2>3, DepthIs
  <2>5. PICK e \in 0 .. Height - 1 : e = Depth(x) BY DepthIs
  <2>6. b \in Nat /\ b > 0 /\ x \in Nat BY <2>3, DepthIs
  <2>7. e < d
    <3>1. e # d BY <2>3, <2>4, <2>5, ApartAtDepth
    <3> QED BY <2>3, <2>4, <2>5, <3>1
  <2>8. b > 1
    <3> SUFFICES ASSUME b = 1 PROVE FALSE BY <2>6
    <3>1. Power(d) <= 1 BY <2>3, <2>4, DepthIs
    <3>2. d - 1 \in 0 .. Height /\ d = (d - 1) + 1 BY <2>7, Powers
    <3>3. Power(d) = 2 * Power(d - 1) /\ Power(d - 1) \in Nat /\ Power(d - 1) > 0
      BY <3>2, Powers
    <3> QED BY <3>1, <3>3
  <2>9. PICK p \in Nat : p = b \div 2 BY <2>6
  <2>10. p >= 1 /\ p < b /\ (b = 2 * p \/ b = 2 * p + 1) BY <2>6, <2>8, <2>9
  <2>11. p \in HeapPlaces
    <3>1. Height \in 0 .. Height BY Powers
    <3>2. Power(Height) \in Nat BY <3>1, Powers
    <3> QED BY <2>3, <2>6, <2>10, <3>2 DEF HeapPlaces
  <2>12. Fine(p)
    <3> HIDE DEF Fine
    <3>1. ~(b <= p) BY <2>6, <2>10
    <3>2. p \notin S BY <2>2, <3>1
    <3> QED BY <2>11, <3>2
  <2>13. d = Depth(p) + 1 /\ Reach(p) = 2 * Reach(b)
         /\ Rank(b) = IF b = 2 * p THEN Rank(p) - Reach(b) ELSE Rank(p) + Reach(b)
    BY <2>3, <2>4, <2>10, <2>11, ChildIs
  <2>14. PICK r \in Nat : r = Reach(b) /\ r > 0 BY <2>3, RankIs
  <2>15. Rank(b) \in Nat /\ Rank(p) \in Nat /\ Rank(x) \in Nat BY <2>3, <2>11, RankIs
  <2>16. Rank(x) - Rank(b) < r /\ Rank(b) - Rank(x) < r BY <2>3, <2>14 DEF Under
  <2>17. Under(x, p) /\ Rank(x) # Rank(p) BY <2>13, <2>14, <2>15, <2>16 DEF Under
  <2>18. x # p BY <2>17
  <2>19. Depth(x) > Depth(p) BY <2>12, <2>17, <2>18
  <2>20. Depth(p) \in 0 .. Height - 1 BY <2>11, DepthIs
  <2> QED BY <2>5, <2>7, <2>13, <2>19, <2>20
<1>2. Fine(c)
  <2> HIDE DEF Fine
  <2> QED BY <1>1
<1> QED BY <1>2

LEMMA RanksApart ==
  ASSUME NEW m \in HeapPlaces, NEW c \in HeapPlaces, Rank(m) = Rank(c)
  PROVE  m = c
<1>1. Reach(m) \in Nat /\ Reach(c) \in Nat /\ Reach(m) > 0 /\ Reach(c) > 0 /\ Rank(m) \in Nat
      /\ Rank(c) \in Nat
  BY RankIs
<1>2. Under(m, c) /\ Under(c, m) BY <1>1 DEF Under
<1>3. Depth(m) \in Int /\ Depth(c) \in Int BY DepthIs
<1>4. m = c \/ Depth(m) > Depth(c) BY <1>2, UnderDeeper
<1>5. m = c \/ Depth(c) > Depth(m) BY <1>2, UnderDeeper
<1> QED BY <1>3, <1>4, <1>5

\* The places of a tree: with a place its parent, and the root.
TreeOf(s) == s \subseteq HeapPlaces /\ 1 \in s /\ \A n \in s : n > 1 => n \div 2 \in s

LEMMA ShapesAreTrees == \A s \in Shapes : TreeOf(s)
<1>1. HeapPlaces = 1 .. 2^Height - 1 BY Zenon DEF HeapPlaces, Power
<1> QED BY <1>1, EdgeAssumption, Zenon DEF TreeOf

LEMMA AncestorAt ==
  ASSUME NEW s, TreeOf(s), NEW m \in s, NEW e \in 0 .. Depth(m)
  PROVE  \E a \in s : Depth(a) = e /\ Under(m, a)
<1>0. m \in HeapPlaces BY DEF TreeOf
<1>1. PICK d \in 0 .. Height - 1 : d = Depth(m) BY <1>0, DepthIs
<1> DEFINE Met(g) == \E a \in s : Depth(a) = d - g /\ Under(m, a)
           S == {g \in 0 .. d : ~Met(g)}
<1>2. S = {}
  <2> SUFFICES ASSUME S # {} PROVE FALSE OBVIOUS
  <2>1. S \in SUBSET Nat OBVIOUS
  <2>2. PICK l \in S : \A k \in S : l <= k
    <3> HIDE DEF S
    <3> QED BY <2>1, LeastOf
  <2>3. l \in 0 .. d /\ ~Met(l) BY <2>2
  <2>4. l # 0
    <3>1. Reach(m) \in Nat /\ Reach(m) > 0 /\ Rank(m) \in Nat BY <1>0, RankIs
    <3>2. Under(m, m) BY <3>1 DEF Under
    <3>3. d - 0 = d OBVIOUS
    <3>4. Met(0) BY <1>1, <3>2, <3>3
    <3> QED BY <2>3, <3>4
  <2>5. PICK k \in 0 .. d : l = k + 1 /\ ~(l <= k)
    <3>1. l - 1 \in 0 .. d /\ l = (l - 1) + 1 /\ ~(l <= l - 1) BY <2>3, <2>4
    <3> QED BY <3>1
  <2>6. k \notin S
    <3> HIDE DEF S
    <3> QED BY <2>2, <2>5
  <2>7. PICK b \in s : Depth(b) = d - k /\ Under(m, b) BY <2>6
  <2>8. b \in HeapPlaces BY DEF TreeOf
  <2>9. b \in Nat /\ b > 0 BY <2>8, DepthIs
  <2>10. b > 1
    <3> SUFFICES ASSUME b = 1 PROVE FALSE BY <2>9
    <3>1. PICK j \in 0 .. Height - 1 : j = Depth(b) BY <2>8, DepthIs
    <3>2. j > 0 BY <2>3, <2>5, <2>7, <3>1
    <3>3. Power(j) <= 1 BY <2>8, <3>1, DepthIs
    <3>4. j - 1 \in 0 .. Height /\ j = (j - 1) + 1 BY <3>2, Powers
    <3>5. Power(j) = 2 * Power(j - 1) /\ Power(j - 1) \in Nat /\ Power(j - 1) > 0
      BY <3>4, Powers
    <3> QED BY <3>3, <3>5
  <2>11. PICK p \in Nat : p = b \div 2 BY <2>9
  <2>12. p \in s BY <2>10, <2>11 DEF TreeOf
  <2>13. p \in HeapPlaces BY <2>12 DEF TreeOf
  <2>14. b = 2 * p \/ b = 2 * p + 1 BY <2>9, <2>11
  <2>15. Depth(b) = Depth(p) + 1 /\ Reach(p) = 2 * Reach(b)
         /\ Rank(b) = IF b = 2 * p THEN Rank(p) - Reach(b) ELSE Rank(p) + Reach(b)
    BY <2>8, <2>13, <2>14, ChildIs
  <2>16. PICK r \in Nat : r = Reach(b) /\ r > 0 BY <2>8, RankIs
  <2>17. Rank(b) \in Nat /\ Rank(p) \in Nat /\ Rank(m) \in Nat BY <1>0, <2>8, <2>13, RankIs
  <2>18. Under(m, p) BY <2>7, <2>15, <2>16, <2>17 DEF Under
  <2>19. Depth(p) = d - l
    <3>1. Depth(p) \in Int BY <2>13, DepthIs
    <3> QED BY <2>5, <2>7, <2>15, <3>1
  <2> QED BY <2>3, <2>12, <2>18, <2>19
<1>3. d - e \in 0 .. d /\ d - (d - e) = e BY <1>1
<1>4. Met(d - e)
  <2> HIDE DEF Met
  <2> QED BY <1>2, <1>3
<1> QED BY <1>3, <1>4

LEMMA UnderIn ==
  ASSUME NEW s, TreeOf(s), NEW m \in s, NEW c \in HeapPlaces, Under(m, c)
  PROVE  c \in s
<1>0. m \in HeapPlaces BY DEF TreeOf
<1>1. Depth(m) \in 0 .. Height - 1 /\ Depth(c) \in 0 .. Height - 1 BY <1>0, DepthIs
<1>2. m = c \/ Depth(m) > Depth(c) BY <1>0, UnderDeeper
<1>3. Depth(c) \in 0 .. Depth(m) BY <1>1, <1>2
<1>4. PICK a \in s : Depth(a) = Depth(c) /\ Under(m, a) BY <1>3, AncestorAt
<1>5. a \in HeapPlaces BY DEF TreeOf
<1>6. Under(a, c)
  <2>1. Reach(a) = Reach(c) BY <1>4 DEF Reach
  <2>2. PICK r \in Nat : r = Reach(c) /\ r > 0 BY RankIs
  <2>3. Rank(a) = (2 * (a - Power(Depth(c))) + 1) * r /\ Rank(c) = (2 * (c - Power(Depth(c))) + 1) * r
    BY <1>4, <1>5, <2>1, <2>2, RankIs
  <2>4. a \in Nat /\ c \in Nat BY <1>5, DepthIs
  <2>5. PICK p \in Nat : p = Power(Depth(c))
    <3>1. Depth(c) \in 0 .. Height BY <1>1, Powers
    <3> QED BY <3>1, Powers
  <2>6. PICK k \in Int : k = a - c BY <2>4
  <2>7. Rank(a) - Rank(c) = 2 * (k * r) BY <2>3, <2>4, <2>5, <2>6
  <2>8. Rank(a) \in Nat /\ Rank(c) \in Nat /\ Rank(m) \in Nat BY <1>0, <1>5, RankIs
  <2>9. Rank(m) - Rank(c) < r /\ Rank(c) - Rank(m) < r BY <2>2 DEF Under
  <2>10. Rank(m) - Rank(a) < r /\ Rank(a) - Rank(m) < r BY <1>4, <2>1, <2>2 DEF Under
  <2>11. k * r < r /\ -(k * r) < r
    <3>1. Rank(a) - Rank(c) < 2 * r /\ Rank(c) - Rank(a) < 2 * r BY <2>8, <2>9, <2>10
    <3>2. k * r \in Int OBVIOUS
    <3> QED BY <2>7, <2>8, <3>1, <3>2
  <2>12. ~(k >= 1)
    <3> SUFFICES ASSUME k >= 1 PROVE FALSE OBVIOUS
    <3>1. k * r >= r OBVIOUS
    <3> QED BY <2>11, <3>1
  <2>13. ~(k <= -1)
    <3> SUFFICES ASSUME k <= -1 PROVE FALSE OBVIOUS
    <3>1. k * r <= -r OBVIOUS
    <3> QED BY <2>11, <3>1
  <2>14. Rank(a) = Rank(c) BY <2>6, <2>4, <2>12, <2>13
  <2> QED BY <2>2, <2>8, <2>14 DEF Under
<1>7. a = c BY <1>4, <1>5, <1>6, ApartAtDepth
<1> QED BY <1>7

\* Down to the left from n: places of the tree that all begin where n begins.
LEMMA DownLeft ==
  ASSUME NEW s, TreeOf(s), NEW n \in s, NEW k \in 0 .. Height - 1, n * Power(k) \in s
  PROVE  LET m == n * Power(k) IN
         Rank(m) <= Rank(n) /\ Rank(m) - Reach(m) = Rank(n) - Reach(n)
<1> DEFINE Begins(m) == Rank(m) <= Rank(n) /\ Rank(m) - Reach(m) = Rank(n) - Reach(n)
           S == {i \in 0 .. Height - 1 : n * Power(i) \in s /\ ~Begins(n * Power(i))}
<1>0. n \in HeapPlaces /\ n \in Nat /\ n > 0
  <2>1. n \in HeapPlaces BY DEF TreeOf
  <2> QED BY <2>1, DepthIs
<1>1. S = {}
  <2> SUFFICES ASSUME S # {} PROVE FALSE OBVIOUS
  <2>1. S \in SUBSET Nat OBVIOUS
  <2>2. PICK l \in S : \A i \in S : l <= i
    <3> HIDE DEF S
    <3> QED BY <2>1, LeastOf
  <2>3. l \in 0 .. Height - 1 /\ n * Power(l) \in s /\ ~Begins(n * Power(l)) BY <2>2
  <2>4. l # 0
    <3>1. Power(0) = 1 BY Powers
    <3>2. Reach(n) \in Nat /\ Rank(n) \in Nat BY <1>0, RankIs
    <3>3. n * 1 = n BY <1>0
    <3>4. Begins(n) BY <3>2
    <3> HIDE DEF Begins
    <3>5. Begins(n * Power(0)) BY <3>1, <3>3, <3>4
    <3> QED BY <2>3, <3>5
  <2>5. PICK i \in 0 .. Height - 1 : l = i + 1 /\ ~(l <= i) /\ i \in 0 .. Height
    <3>1. l - 1 \in 0 .. Height - 1 /\ l = (l - 1) + 1 /\ ~(l <= l - 1) /\ l - 1 \in 0 .. Height
      BY <2>3, <2>4, Powers
    <3> QED BY <3>1
  <2>6. PICK q \in Nat : q = Power(i) /\ q > 0 /\ Power(l) = 2 * q BY <2>5, Powers
  <2>7. PICK m \in Nat : m = n * q /\ m > 0
    <3>1. n * q \in Nat /\ n * q > 0 BY <1>0, <2>6
    <3> QED BY <3>1
  <2>8. n * Power(l) = 2 * m BY <1>0, <2>6, <2>7
  <2>9. 2 * m \in s /\ (2 * m) \div 2 = m /\ 2 * m > 1 BY <2>3, <2>7, <2>8
  <2>10. m \in s BY <2>9 DEF TreeOf
  <2>11. m \in HeapPlaces /\ 2 * m \in HeapPlaces BY <2>9, <2>10 DEF TreeOf
  <2>12. i \notin S
    <3> HIDE DEF S
    <3> QED BY <2>2, <2>5
  <2>13. Begins(m)
    <3> HIDE DEF Begins
    <3> QED BY <2>6, <2>7, <2>10, <2>12
  <2>14. Reach(m) = 2 * Reach(2 * m) /\ Rank(2 * m) = Rank(m) - Reach(2 * m)
    BY <2>11, ChildIs
  <2>15. Rank(m) \in Nat /\ Rank(2 * m) \in Nat /\ Reach(2 * m) \in Nat /\ Reach(n) \in Nat
         /\ Rank(n) \in Nat
    BY <1>0, <2>11, RankIs
  <2>16. Begins(2 * m) BY <2>13, <2>14, <2>15
  <2> HIDE DEF Begins
  <2> QED BY <2>3, <2>8, <2>16
<1>2. k \notin S BY <1>1
<1>3. Begins(n * Power(k))
  <2> HIDE DEF Begins
  <2> QED BY <1>2
<1> QED BY <1>3

\* Leftmost is the first of what is below n.
LEMMA LeftmostIs ==
  ASSUME NEW s, TreeOf(s), NEW n \in s
  PROVE  /\ Leftmost(s, n) \in s
         /\ Rank(Leftmost(s, n)) <= Rank(n)
         /\ Rank(Leftmost(s, n)) > Rank(n) - Reach(n)
         /\ \A x \in s : Under(x, n) => Rank(Leftmost(s, n)) <= Rank(x)
<1>0. n \in HeapPlaces /\ n \in Nat /\ n > 0
  <2>1. n \in HeapPlaces BY DEF TreeOf
  <2> QED BY <2>1, DepthIs
<1>h. Height \in Nat /\ Height > 0 BY Powers
<1> DEFINE S == {k \in 0 .. Height - 1 : n * Power(k + 1) \notin s}
<1>1. PICK l \in S : \A i \in S : l <= i
  <2>1. S \in SUBSET Nat OBVIOUS
  <2>2. Height - 1 \in S
    <3>1. Height \in 0 .. Height /\ (Height - 1) + 1 = Height /\ Height - 1 \in 0 .. Height - 1
      BY <1>h
    <3>2. PICK q \in Nat : q = Power(Height) BY <3>1, Powers
    <3>3. n * q >= q BY <1>0
    <3>4. n * q \notin 1 .. q - 1 BY <1>0, <3>3
    <3>5. n * Power(Height) \notin s BY <3>2, <3>4 DEF TreeOf, HeapPlaces
    <3> QED BY <3>1, <3>5
  <2> HIDE DEF S
  <2> QED BY <2>1, <2>2, LeastOf
<1>2. l \in 0 .. Height - 1 /\ n * Power(l + 1) \notin s BY <1>1
<1>3. n * Power(l) \in s
  <2>1. CASE l = 0
    <3>1. Power(l) = 1 /\ n * 1 = n BY <1>0, <2>1, Powers
    <3> QED BY <3>1
  <2>2. CASE l # 0
    <3>1. PICK i \in 0 .. Height - 1 : l = i + 1 /\ ~(l <= i)
      <4>1. l - 1 \in 0 .. Height - 1 /\ l = (l - 1) + 1 /\ ~(l <= l - 1) BY <1>2, <1>h, <2>2
      <4> QED BY <4>1
    <3>2. i \notin S
      <4> HIDE DEF S
      <4> QED BY <1>1, <3>1
    <3> QED BY <3>1, <3>2
  <2> QED BY <2>1, <2>2
<1>4. 2 * (n * Power(l)) \notin s
  <2>1. l \in 0 .. Height BY <1>2, <1>h
  <2>2. PICK q \in Nat : q = Power(l) /\ Power(l + 1) = 2 * q BY <2>1, Powers
  <2>3. 2 * (n * q) = n * (2 * q) BY <1>0
  <2> QED BY <1>2, <2>2, <2>3
<1>5. \E m \in s : 2 * m \notin s /\ \E k \in 0 .. Height - 1 : m = n * 2^k
  BY <1>2, <1>3, <1>4, Zenon DEF Power
<1>6. /\ Leftmost(s, n) \in s /\ 2 * Leftmost(s, n) \notin s
      /\ \E k \in 0 .. Height - 1 : Leftmost(s, n) = n * Power(k)
  BY <1>5, Zenon DEF Leftmost, Power
<1>7. PICK m \in s : m = Leftmost(s, n) /\ 2 * m \notin s BY <1>6
<1>8. PICK k \in 0 .. Height - 1 : m = n * Power(k) BY <1>6, <1>7
<1>9. Rank(m) <= Rank(n) /\ Rank(m) - Reach(m) = Rank(n) - Reach(n) BY <1>7, <1>8, DownLeft
<1>10. m \in HeapPlaces BY DEF TreeOf
<1>11. Rank(m) \in Nat /\ Reach(m) \in Nat /\ Reach(m) > 0 /\ Rank(n) \in Nat /\ Reach(n) \in Nat
  BY <1>0, <1>10, RankIs
<1>12. ASSUME NEW x \in s, Under(x, n), Rank(x) < Rank(m) PROVE FALSE
  <2>1. x \in HeapPlaces BY DEF TreeOf
  <2>2. Rank(x) \in Nat BY <2>1, RankIs
  <2>3. Rank(x) > Rank(m) - Reach(m) BY <1>9, <1>11, <1>12, <2>2 DEF Under
  <2>4. Under(x, m) BY <1>11, <1>12, <2>2, <2>3 DEF Under
  <2>5. x # m BY <1>11, <1>12, <2>2
  <2>6. Depth(x) > Depth(m) BY <1>10, <2>1, <2>4, <2>5, UnderDeeper
  <2>7. PICK d \in 0 .. Height - 1 : d = Depth(m) /\ d + 1 \in 0 .. Height - 1 /\ d \in 0 .. Height
        /\ d + 1 \in 0 .. Height
    <3>1. Depth(m) \in 0 .. Height - 1 /\ Depth(x) \in 0 .. Height - 1 BY <1>10, <2>1, DepthIs
    <3>2. Depth(m) + 1 \in 0 .. Height - 1 /\ Depth(m) \in 0 .. Height /\ Depth(m) + 1 \in 0 .. Height
      BY <1>h, <2>6, <3>1
    <3> QED BY <3>1, <3>2
  <2>8. 2 * m \in HeapPlaces
    <3>1. m \in Nat /\ m > 0 /\ m < Power(d + 1) BY <1>10, <2>7, DepthIs
    <3>2. PICK e \in 0 .. Height : e = d + 1 /\ e + 1 \in 0 .. Height BY <1>h, <2>7
    <3>3. Power(e) \in Nat /\ Power(e + 1) = 2 * Power(e) BY <3>2, Powers
    <3>4. 2 * m < Power(e + 1) BY <3>1, <3>2, <3>3
    <3>5. Height \in 0 .. Height /\ e + 1 <= Height BY <1>h, <3>2
    <3>6. Power(e + 1) <= Power(Height) BY <3>2, <3>5, PowersGrow
    <3>7. Power(Height) \in Nat /\ Power(e + 1) \in Nat BY <3>2, <3>5, Powers
    <3> QED BY <3>1, <3>4, <3>6, <3>7 DEF HeapPlaces
  <2>9. Reach(m) = 2 * Reach(2 * m) /\ Rank(2 * m) = Rank(m) - Reach(2 * m)
    BY <1>10, <2>8, ChildIs
  <2>10. Reach(2 * m) \in Nat /\ Rank(2 * m) \in Nat BY <2>8, RankIs
  <2>11. Under(x, 2 * m) BY <1>11, <1>12, <2>2, <2>3, <2>9, <2>10 DEF Under
  <2>12. 2 * m \in s BY <2>8, <2>11, UnderIn
  <2> QED BY <1>7, <2>12
<1>13. \A x \in s : Under(x, n) => Rank(m) <= Rank(x)
  <2> TAKE x \in s
  <2>1. x \in HeapPlaces BY DEF TreeOf
  <2>2. Rank(x) \in Nat BY <2>1, RankIs
  <2> QED BY <1>11, <1>12, <2>2
<1>14. Rank(m) > Rank(n) - Reach(n) BY <1>9, <1>11
<1> QED BY <1>6, <1>7, <1>9, <1>13, <1>14

\* The root has the whole tree below it.
LEMMA RootHolds ==
  ASSUME NEW s, TreeOf(s), NEW m \in s
  PROVE  Under(m, 1)
<1>1. m \in HeapPlaces BY DEF TreeOf
<1>2. 0 \in 0 .. Depth(m) BY <1>1, DepthIs
<1>3. PICK a \in s : Depth(a) = 0 /\ Under(m, a) BY <1>2, AncestorAt
<1>4. a \in HeapPlaces BY DEF TreeOf
<1>5. a \in Nat /\ a > 0 /\ a < Power(0 + 1) BY <1>3, <1>4, DepthIs
<1>6. 0 \in 0 .. Height /\ Power(0) = 1 BY Powers
<1>7. Power(0 + 1) = 2 BY <1>6, Powers
<1>8. a = 1 BY <1>5, <1>7
<1> QED BY <1>3, <1>8

\* The places before any of p are in p.
FirstOnes(s, p) == p \subseteq s /\ \A m, n \in s : n \in p /\ Rank(m) < Rank(n) => m \in p

\* rb_next goes to the next place, if it goes anywhere.
LEMMA NextIs ==
  ASSUME NEW s, TreeOf(s), NEW n \in s, 2 * n + 1 \in s, NEW m \in s,
         Rank(m) < Rank(Leftmost(s, 2 * n + 1))
  PROVE  Rank(m) < Rank(n) \/ m = n
<1> DEFINE c == 2 * n + 1
           f == Leftmost(s, c)
<1>1. n \in HeapPlaces /\ c \in HeapPlaces /\ m \in HeapPlaces BY DEF TreeOf
<1>2. f \in s /\ Rank(f) <= Rank(c) /\ Rank(f) > Rank(c) - Reach(c)
      /\ \A x \in s : Under(x, c) => Rank(f) <= Rank(x)
  BY LeftmostIs
<1>3. f \in HeapPlaces BY <1>2 DEF TreeOf
<1>4. c # 2 * n /\ (c = 2 * n \/ c = 2 * n + 1)
  <2>1. n \in Nat BY <1>1, DepthIs
  <2> QED BY <2>1
<1> HIDE DEF c, f
<1>5. Reach(n) = 2 * Reach(c) /\ Rank(c) = Rank(n) + Reach(c) BY <1>1, <1>4, ChildIs
<1>6. /\ Rank(n) \in Nat /\ Rank(c) \in Nat /\ Rank(m) \in Nat /\ Rank(f) \in Nat
      /\ Reach(c) \in Nat
  BY <1>1, <1>3, RankIs
<1>7. ASSUME Rank(m) > Rank(n) PROVE FALSE
  <2>0. Rank(m) < Rank(f) BY DEF c, f
  <2>1. Under(m, c) BY <1>2, <1>5, <1>6, <1>7, <2>0 DEF Under
  <2>2. Rank(f) <= Rank(m) BY <1>2, <2>1
  <2> QED BY <1>6, <2>0, <2>2
<1>8. Rank(m) < Rank(n) \/ Rank(m) = Rank(n) BY <1>6, <1>7
<1> QED BY <1>1, <1>8, RanksApart

NextPlace(s, n) == IF 2 * n + 1 \in s THEN {Leftmost(s, 2 * n + 1)} ELSE {}
Further(s, p) == p \cup UNION {NextPlace(s, n) : n \in p}

\* What the walk has visited after each of its turns.
WalkStates(g, s) ==
  /\ g \in [1 .. Height -> SUBSET s] /\ g[1] = {Leftmost(s, 1)}
  /\ \A i \in 2 .. Height : g[i] = Further(s, g[i - 1])

LEMMA FurtherIn ==
  ASSUME NEW s, TreeOf(s), NEW p \in SUBSET s
  PROVE  Further(s, p) \in SUBSET s
<1> SUFFICES ASSUME NEW m \in Further(s, p) PROVE m \in s OBVIOUS
<1>1. CASE m \in p BY <1>1
<1>2. CASE m \notin p
  <2>1. PICK n \in p : m \in NextPlace(s, n) BY <1>2 DEF Further
  <2>2. 2 * n + 1 \in s /\ m = Leftmost(s, 2 * n + 1) BY <2>1 DEF NextPlace
  <2> QED BY <2>2, LeftmostIs
<1> QED BY <1>1, <1>2

LEMMA WalkRuns ==
  ASSUME NEW s, TreeOf(s)
  PROVE  \E g : WalkStates(g, s) /\ Visited(s) = g[Height]
<1> DEFINE T == SUBSET s
           a == {Leftmost(s, 1)}
           walk == CHOOSE g : g = [i \in 1 .. Height |->
                     IF i = 1 THEN {Leftmost(s, 1)}
                     ELSE g[i - 1] \cup UNION {IF 2 * n + 1 \in s THEN {Leftmost(s, 2 * n + 1)}
                                               ELSE {} : n \in g[i - 1]}]
           n == Height - 1
           turns == [i \in 1 .. n |-> [p \in T |-> Further(s, p)]]
<1>0. Height \in Nat /\ Height > 0 /\ n \in Nat BY Powers
<1>1. a \in T
  <2>1. 1 \in s BY DEF TreeOf
  <2> QED BY <2>1, LeftmostIs
<1>2. turns \in [1 .. n -> [T -> T]] BY FurtherIn
<1> HIDE DEF T, walk, a
<1>3. PICK t \in [0 .. n -> T] : Chained(t, a, n, turns)
  <2> HIDE DEF turns, n
  <2> QED BY <1>0, <1>1, <1>2, ChainExists
<1> DEFINE f == [i \in 1 .. Height |-> t[i - 1]]
<1>4. f \in [1 .. Height -> T] /\ f[1] = a
  <2>1. \A i \in 1 .. Height : i - 1 \in 0 .. n BY <1>0
  <2>2. f[1] = t[0]
    <3>1. 1 \in 1 .. Height /\ 1 - 1 = 0 BY <1>0
    <3> QED BY <3>1
  <2> QED BY <1>3, <2>1, <2>2 DEF Chained
<1>5. \A i \in 2 .. Height : f[i] = Further(s, f[i - 1])
  <2> TAKE i \in 2 .. Height
  <2>1. PICK j \in 1 .. n : j = i - 1 /\ j - 1 \in 0 .. n /\ i - 1 - 1 = j - 1
    <3>1. i - 1 \in 1 .. n /\ (i - 1) - 1 \in 0 .. n BY <1>0
    <3> QED BY <3>1
  <2>2. t[j] = turns[j][t[j - 1]] BY <1>3 DEF Chained
  <2>3. PICK u \in T : u = t[j - 1] BY <2>1
  <2>4. t[j] = Further(s, u) BY <2>1, <2>2, <2>3
  <2>5. f[i] = t[j] /\ f[i - 1] = u
    <3>1. i \in 1 .. Height /\ i - 1 \in 1 .. Height BY <1>0
    <3> QED BY <2>1, <2>3, <3>1
  <2> QED BY <2>4, <2>5
<1>6. f = [i \in 1 .. Height |->
             IF i = 1 THEN {Leftmost(s, 1)}
             ELSE f[i - 1] \cup UNION {IF 2 * m + 1 \in s THEN {Leftmost(s, 2 * m + 1)}
                                       ELSE {} : m \in f[i - 1]}]
  <2>1. \A p : Further(s, p) = p \cup UNION {IF 2 * m + 1 \in s THEN {Leftmost(s, 2 * m + 1)}
                                              ELSE {} : m \in p}
    BY Zenon DEF Further, NextPlace
  <2>2. \A i \in 1 .. Height : i # 1 => i \in 2 .. Height OBVIOUS
  <2>3. PICK h : h = f OBVIOUS
  <2>4. h \in [1 .. Height -> T] /\ h[1] = {Leftmost(s, 1)}
        /\ \A i \in 2 .. Height : h[i] = Further(s, h[i - 1])
    BY <1>4, <1>5, <2>3 DEF a
  <2>5. \A i \in 1 .. Height : h[i] =
             IF i = 1 THEN {Leftmost(s, 1)}
             ELSE h[i - 1] \cup UNION {IF 2 * m + 1 \in s THEN {Leftmost(s, 2 * m + 1)}
                                       ELSE {} : m \in h[i - 1]}
    BY <2>1, <2>2, <2>4, Zenon
  <2>6. h = [i \in 1 .. Height |-> h[i]] BY <2>4
  <2>7. h = [i \in 1 .. Height |->
             IF i = 1 THEN {Leftmost(s, 1)}
             ELSE h[i - 1] \cup UNION {IF 2 * m + 1 \in s THEN {Leftmost(s, 2 * m + 1)}
                                       ELSE {} : m \in h[i - 1]}]
    BY <2>5, <2>6, Zenon
  <2> HIDE DEF f
  <2> QED BY <2>3, <2>7, Zenon
<1> HIDE DEF f
<1>7. walk = [i \in 1 .. Height |->
             IF i = 1 THEN {Leftmost(s, 1)}
             ELSE walk[i - 1] \cup UNION {IF 2 * m + 1 \in s THEN {Leftmost(s, 2 * m + 1)}
                                          ELSE {} : m \in walk[i - 1]}]
  BY <1>6, Zenon DEF walk
<1>8. Visited(s) = walk[Height] BY Zenon DEF Visited, walk
<1>9. walk[1] = {Leftmost(s, 1)} /\ \A i \in 2 .. Height : walk[i] = Further(s, walk[i - 1])
  <2>1. 1 \in 1 .. Height /\ \A i \in 2 .. Height : i \in 1 .. Height /\ i # 1 BY <1>0
  <2>2. \A i \in 1 .. Height : walk[i] =
             IF i = 1 THEN {Leftmost(s, 1)}
             ELSE walk[i - 1] \cup UNION {IF 2 * m + 1 \in s THEN {Leftmost(s, 2 * m + 1)}
                                          ELSE {} : m \in walk[i - 1]}
    BY <1>7, Zenon
  <2>3. \A i \in 2 .. Height : walk[i] = Further(s, walk[i - 1])
    BY <2>1, <2>2, Zenon DEF Further, NextPlace
  <2> QED BY <2>1, <2>2, <2>3, Zenon
<1>10. \A i \in 1 .. Height : walk[i] \in T
  <2> DEFINE S == {i \in 1 .. Height : walk[i] \notin T}
  <2>1. S = {}
    <3> SUFFICES ASSUME S # {} PROVE FALSE OBVIOUS
    <3>1. S \in SUBSET Nat OBVIOUS
    <3>2. PICK l \in S : \A m \in S : l <= m
      <4> HIDE DEF S
      <4> QED BY <3>1, LeastOf
    <3>3. l \in 1 .. Height /\ walk[l] \notin T BY <3>2
    <3>4. l # 1 BY <1>1, <1>9, <3>3 DEF a
    <3>5. PICK k \in 1 .. Height : k = l - 1 /\ ~(l <= k) /\ l \in 2 .. Height
      <4>1. l - 1 \in 1 .. Height /\ ~(l <= l - 1) /\ l \in 2 .. Height BY <1>0, <3>3, <3>4
      <4> QED BY <4>1
    <3>6. k \notin S
      <4> HIDE DEF S
      <4> QED BY <3>2, <3>5
    <3>7. walk[k] \in T BY <3>6
    <3>8. Further(s, walk[k]) \in T BY <3>7, FurtherIn DEF T
    <3>9. walk[l] = Further(s, walk[k]) BY <1>9, <3>5
    <3> QED BY <3>3, <3>8, <3>9
  <2> QED BY <2>1
<1>11. walk \in [1 .. Height -> T]
  <2>1. walk = [i \in 1 .. Height |-> walk[i]] BY <1>7, Zenon
  <2> QED BY <1>10, <2>1
<1>12. WalkStates(walk, s) BY <1>9, <1>11 DEF WalkStates, T
<1> QED BY <1>8, <1>12

\* The walk visits the first places of a tree, and the first one.
LEMMA VisitedFirst ==
  ASSUME NEW s, TreeOf(s)
  PROVE  /\ FirstOnes(s, Visited(s))
         /\ \A n \in s : (\A m \in s : Rank(n) <= Rank(m)) => n \in Visited(s)
<1>1. PICK g : WalkStates(g, s) /\ Visited(s) = g[Height] BY WalkRuns
<1>0. Height \in Nat /\ Height > 0 BY Powers
<1>2. 1 \in s BY DEF TreeOf
<1> DEFINE f == Leftmost(s, 1)
<1>3. f \in s /\ \A m \in s : Rank(f) <= Rank(m) BY <1>2, LeftmostIs, RootHolds
<1> HIDE DEF f
<1>4. s \subseteq HeapPlaces BY DEF TreeOf
<1>5. \A m \in s : Rank(m) \in Nat BY <1>4, RankIs
<1> DEFINE Good(p) == FirstOnes(s, p) /\ f \in p
           S == {i \in 1 .. Height : ~Good(g[i])}
<1>6. S = {}
  <2> SUFFICES ASSUME S # {} PROVE FALSE OBVIOUS
  <2>1. S \in SUBSET Nat OBVIOUS
  <2>2. PICK l \in S : \A i \in S : l <= i
    <3> HIDE DEF S
    <3> QED BY <2>1, LeastOf
  <2>3. l \in 1 .. Height /\ ~Good(g[l]) BY <2>2
  <2>4. l # 1
    <3>1. g[1] = {f} BY <1>1 DEF WalkStates, f
    <3>2. \A m \in s : ~(Rank(m) < Rank(f)) BY <1>3, <1>5
    <3>3. FirstOnes(s, {f}) BY <1>3, <3>2 DEF FirstOnes
    <3> QED BY <2>3, <3>1, <3>3
  <2>5. PICK k \in 1 .. Height : k = l - 1 /\ ~(l <= k) /\ l \in 2 .. Height
    <3>1. l - 1 \in 1 .. Height /\ ~(l <= l - 1) /\ l \in 2 .. Height BY <1>0, <2>3, <2>4
    <3> QED BY <3>1
  <2>6. k \notin S
    <3> HIDE DEF S
    <3> QED BY <2>2, <2>5
  <2>7. PICK p \in SUBSET s : p = g[k] BY <1>1 DEF WalkStates
  <2>8. FirstOnes(s, p) /\ f \in p
    <3> HIDE DEF Good
    <3>1. Good(p) BY <2>6, <2>7
    <3> QED BY <3>1 DEF Good
  <2>9. g[l] = Further(s, p) BY <1>1, <2>5, <2>7 DEF WalkStates
  <2>10. f \in Further(s, p) BY <2>8 DEF Further
  <2>11. Further(s, p) \subseteq s BY FurtherIn
  <2>12. ASSUME NEW m \in s, NEW n \in s, n \in Further(s, p), Rank(m) < Rank(n)
         PROVE  m \in Further(s, p)
    <3>1. CASE n \in p
      <4>1. m \in p BY <2>8, <2>12, <3>1 DEF FirstOnes
      <4> QED BY <4>1 DEF Further
    <3>2. CASE n \notin p
      <4>1. PICK v \in p : n \in NextPlace(s, v) BY <2>12, <3>2 DEF Further
      <4>2. 2 * v + 1 \in s /\ n = Leftmost(s, 2 * v + 1) BY <4>1 DEF NextPlace
      <4>3. Rank(m) < Rank(v) \/ m = v BY <2>12, <4>2, NextIs
      <4>4. m \in p BY <2>8, <4>3 DEF FirstOnes
      <4> QED BY <4>4 DEF Further
    <3> QED BY <3>1, <3>2
  <2>13. FirstOnes(s, Further(s, p)) BY <2>11, <2>12 DEF FirstOnes
  <2> QED BY <2>3, <2>9, <2>10, <2>13
<1>7. Height \in 1 .. Height BY <1>0
<1>8. Good(Visited(s))
  <2> HIDE DEF Good
  <2> QED BY <1>1, <1>6, <1>7
<1>9. ASSUME NEW n \in s, \A m \in s : Rank(n) <= Rank(m) PROVE n \in Visited(s)
  <2>1. Rank(n) = Rank(f) BY <1>3, <1>5, <1>9
  <2>2. n = f BY <1>3, <1>4, <2>1, RanksApart
  <2> QED BY <1>8, <2>2
<1> QED BY <1>8, <1>9

\* The least of a limit and the deadline.
LEMMA ClampIs ==
  ASSUME NEW l, Limits(l) \subseteq Nat, NEW d \in Nat
  PROVE  /\ Clamp(l, d) \in Nat /\ Clamp(l, d) <= d
         /\ \A e \in Limits(l) : Clamp(l, d) <= e
         /\ \A c \in Nat : c <= d => Clamp(l, c) <= Clamp(l, d)
<1>1. ASSUME NEW c \in Nat
      PROVE  /\ Clamp(l, c) \in Limits(l) \cup {c} /\ Clamp(l, c) \in Nat
             /\ \A x \in Limits(l) \cup {c} : Clamp(l, c) <= x
  <2>1. Limits(l) \cup {c} \in SUBSET Nat /\ Limits(l) \cup {c} # {} OBVIOUS
  <2>2. \E e \in Limits(l) \cup {c} : \A x \in Limits(l) \cup {c} : e <= x BY <2>1, LeastOf
  <2>3. Clamp(l, c) \in Limits(l) \cup {c} /\ \A x \in Limits(l) \cup {c} : Clamp(l, c) <= x
    BY <2>2, Zenon DEF Clamp
  <2> QED BY <2>1, <2>3
<1>2. ASSUME NEW c \in Nat, c <= d PROVE Clamp(l, c) <= Clamp(l, d)
  <2>1. PICK x \in Nat : x = Clamp(l, d) /\ x \in Limits(l) \cup {d} BY <1>1
  <2>2. PICK y \in Nat : y = Clamp(l, c) /\ \A z \in Limits(l) \cup {c} : y <= z BY <1>1
  <2>3. CASE x \in Limits(l)
    <3>1. y <= x BY <2>2, <2>3
    <3> QED BY <2>1, <2>2, <3>1
  <2>4. CASE x = d
    <3>1. y <= c BY <2>2
    <3> QED BY <1>2, <2>1, <2>2, <2>4, <3>1
  <2> QED BY <2>1, <2>3, <2>4
<1>3. Clamp(l, d) \in Nat /\ \A x \in Limits(l) \cup {d} : Clamp(l, d) <= x BY <1>1
<1> QED BY <1>2, <1>3

EdgeGroup == [id : Int, deadline : Nat, budget : Nat, used : {0}, levels : SUBSET Int]

\* After an update no group of the level is earlier than its first entity.
FirstHeld(l) ==
  \A d \in Limits(l) : \A n \in shape[l] :
    (\A m \in shape[l] : Rank(n) <= Rank(m)) => deadline[l][n] <= d

\* The invariant that is inductive: no group has used any of its budget, so its
\* deadline stays.
EdgeInv ==
  /\ groups \in Seq(EdgeGroup) /\ groupCount \in Nat
  /\ \A l \in EevdfLevels :
       /\ shape[l] \in Shapes
       /\ deadline[l] \in [shape[l] -> Nat]
       /\ Ordered(shape[l], deadline[l])
       /\ clamped => FirstHeld(l)
  /\ DOMAIN deadline = EevdfLevels

LEMMA LimitsFit == ASSUME groups \in Seq(EdgeGroup), NEW l PROVE Limits(l) \subseteq Nat
<1> SUFFICES ASSUME NEW i \in DOMAIN groups PROVE groups[i].deadline \in Nat BY DEF Limits
<1>1. groups[i] \in EdgeGroup OBVIOUS
<1> QED BY <1>1 DEF EdgeGroup

LEMMA EdgeFirst == EdgeInit => EdgeInv
<1> SUFFICES ASSUME EdgeInit PROVE EdgeInv OBVIOUS
<1>1. groups \in Seq(EdgeGroup) /\ groupCount \in Nat BY DEF EdgeInit
<1>2. ASSUME NEW l \in EevdfLevels
      PROVE  /\ shape[l] \in Shapes /\ deadline[l] \in [shape[l] -> Nat]
             /\ Ordered(shape[l], deadline[l])
  <2>1. shape[l] \in Shapes BY DEF EdgeInit
  <2>2. deadline[l] = [n \in shape[l] |-> 0] BY DEF EdgeInit
  <2>3. deadline[l] \in [shape[l] -> Nat] BY <2>2
  <2>4. \A m \in shape[l] : deadline[l][m] = 0 BY <2>2
  <2>5. Ordered(shape[l], deadline[l]) BY <2>4 DEF Ordered
  <2> QED BY <2>1, <2>3, <2>5
<1>3. ~clamped /\ DOMAIN deadline = EevdfLevels BY DEF EdgeInit
<1> QED BY <1>1, <1>2, <1>3 DEF EdgeInv

LEMMA UpdateDeadlinesKeeps == EdgeInv /\ UpdateDeadlines => EdgeInv'
<1> SUFFICES ASSUME EdgeInv, UpdateDeadlines PROVE EdgeInv' OBVIOUS
<1>1. shape' = shape /\ groupCount' = groupCount BY DEF UpdateDeadlines
<1>2. groups' = groups
  <2>1. ASSUME NEW i \in DOMAIN groups
        PROVE  [groups[i] EXCEPT !.deadline = IF groups[i].used > groups[i].budget THEN @ + 1 ELSE @]
                 = groups[i]
    <3>1. PICK g \in EdgeGroup : g = groups[i] BY DEF EdgeInv
    <3>2. ~(g.used > g.budget) BY DEF EdgeGroup
    <3>3. [g EXCEPT !.deadline = g.deadline] = g BY DEF EdgeGroup
    <3>4. [g EXCEPT !.deadline = IF g.used > g.budget THEN @ + 1 ELSE @] = g BY <3>2, <3>3
    <3> QED BY <3>1, <3>4, Zenon
  <2>2. groups' = [i \in DOMAIN groups |-> groups[i]] BY <2>1, Zenon DEF UpdateDeadlines
  <2>3. groups = [i \in DOMAIN groups |-> groups[i]] BY DEF EdgeInv
  <2> QED BY <2>2, <2>3, Zenon
<1>3. ASSUME NEW l PROVE Limits(l)' = Limits(l) /\ Limits(l) \subseteq Nat
  <2>1. Limits(l)' = Limits(l) BY <1>2 DEF Limits
  <2> QED BY <2>1, LimitsFit DEF EdgeInv
<1>4. ASSUME NEW l \in EevdfLevels
      PROVE  /\ deadline'[l] \in [shape[l] -> Nat]
             /\ Ordered(shape[l], deadline'[l])
             /\ FirstHeld(l)'
  <2>1. PICK s \in Shapes : s = shape[l] BY DEF EdgeInv
  <2>2. TreeOf(s) BY ShapesAreTrees
  <2>3. PICK key \in [s -> Nat] : key = deadline[l] /\ Ordered(s, key) BY <2>1 DEF EdgeInv
  <2>4. PICK p : p = Visited(s) OBVIOUS
  <2>5. FirstOnes(s, p) /\ \A n \in s : (\A m \in s : Rank(n) <= Rank(m)) => n \in p
    BY <2>2, <2>4, VisitedFirst
  <2>6. PICK new : new = deadline'[l] OBVIOUS
  <2>7. new = [n \in s |-> IF n \in p THEN Clamp(l, key[n]) ELSE key[n]]
    BY <2>1, <2>3, <2>4, <2>6, Zenon DEF UpdateDeadlines
  <2>8. \A n \in s : new[n] = IF n \in p THEN Clamp(l, key[n]) ELSE key[n] BY <2>7
  <2>9. Limits(l) \subseteq Nat /\ Limits(l)' = Limits(l) BY <1>3
  <2>10. \A n \in s : key[n] \in Nat /\ new[n] \in Nat /\ new[n] <= key[n]
    <3> TAKE n \in s
    <3>1. PICK d \in Nat : d = key[n] OBVIOUS
    <3>2. Clamp(l, d) \in Nat /\ Clamp(l, d) <= d BY <2>9, ClampIs
    <3> QED BY <2>8, <3>1, <3>2
  <2>11. new \in [s -> Nat] BY <2>7, <2>10
  <2>12. ASSUME NEW m \in s, NEW n \in s, Rank(m) < Rank(n) PROVE new[m] <= new[n]
    <3>1. PICK c \in Nat, d \in Nat : c = key[m] /\ d = key[n] BY <2>10
    <3>2. c <= d BY <2>3, <2>12, <3>1 DEF Ordered
    <3>3. Clamp(l, c) <= Clamp(l, d) BY <2>9, <3>2, ClampIs
    <3>4. n \in p => m \in p BY <2>5, <2>12 DEF FirstOnes
    <3>5. Clamp(l, c) \in Nat /\ Clamp(l, c) <= c BY <2>9, ClampIs
    <3>6. CASE n \in p
      <4>1. new[n] = Clamp(l, d) /\ new[m] = Clamp(l, c) BY <2>8, <3>1, <3>4, <3>6
      <4> QED BY <3>3, <4>1
    <3>7. CASE n \notin p
      <4>1. new[n] = d BY <2>8, <3>1, <3>7
      <4>2. new[m] = c \/ new[m] = Clamp(l, c) BY <2>8, <3>1
      <4> QED BY <3>2, <3>5, <4>1, <4>2
    <3> QED BY <3>6, <3>7
  <2>13. Ordered(s, new) BY <2>12 DEF Ordered
  <2>14. ASSUME NEW d \in Limits(l), NEW n \in s, \A m \in s : Rank(n) <= Rank(m)
         PROVE  new[n] <= d
    <3>1. n \in p BY <2>5, <2>14
    <3>2. PICK c \in Nat : c = key[n] BY <2>10
    <3>3. Clamp(l, c) <= d BY <2>9, ClampIs
    <3> QED BY <2>8, <3>1, <3>2, <3>3
  <2>15. FirstHeld(l)' BY <1>1, <2>1, <2>6, <2>9, <2>14 DEF FirstHeld
  <2> QED BY <2>1, <2>6, <2>11, <2>13, <2>15
<1>5. DOMAIN deadline' = EevdfLevels BY DEF UpdateDeadlines
<1> QED BY <1>1, <1>2, <1>4, <1>5 DEF EdgeInv

LEMMA EdgeStep == EdgeInv /\ [EdgeNext]_edgeVars => EdgeInv'
<1> SUFFICES ASSUME EdgeInv, [EdgeNext]_edgeVars PROVE EdgeInv' OBVIOUS
<1>1. ASSUME NEW d \in Deadlines, Create(d) PROVE EdgeInv'
  <2>1. d \in Nat BY EdgeAssumption
  <2>2. [id |-> groupCount, deadline |-> d, budget |-> d \div 10, used |-> 0, levels |-> {}]
          \in EdgeGroup
    BY <2>1 DEF EdgeGroup, EdgeInv
  <2>3. groups' \in Seq(EdgeGroup) BY <1>1, <2>2 DEF Create, EdgeInv
  <2>4. groupCount' \in Nat /\ ~clamped' /\ shape' = shape /\ deadline' = deadline
    BY <1>1 DEF Create, EdgeInv
  <2> QED BY <2>3, <2>4 DEF EdgeInv
<1>2. ASSUME NEW i \in DOMAIN groups, NEW prio \in 0 .. EdgeLevels, AssignLevel(i, prio)
      PROVE  EdgeInv'
  <2>1. groups' \in Seq(EdgeGroup)
    <3>1. CASE ~(prio < EdgeLevels) BY <1>2, <3>1 DEF AssignLevel, EdgeInv
    <3>2. CASE prio < EdgeLevels
      <4>1. PICK g \in EdgeGroup : g = groups[i] BY DEF EdgeInv
      <4>2. [g EXCEPT !.levels = @ \cup {prio}] \in EdgeGroup BY DEF EdgeGroup
      <4>3. groups' = [groups EXCEPT ![i] = [g EXCEPT !.levels = @ \cup {prio}]]
        BY <1>2, <3>2, <4>1 DEF AssignLevel
      <4> QED BY <4>2, <4>3 DEF EdgeInv
    <3> QED BY <3>1, <3>2
  <2>2. ~clamped' /\ shape' = shape /\ deadline' = deadline /\ groupCount' = groupCount
    BY <1>2 DEF AssignLevel
  <2> QED BY <2>1, <2>2 DEF EdgeInv
<1>3. ASSUME NEW l \in EevdfLevels, Renew(l) PROVE EdgeInv'
  <2>1. PICK key \in [shape[l] -> Deadlines] :
          Ordered(shape[l], key) /\ deadline' = [deadline EXCEPT ![l] = key]
    BY <1>3 DEF Renew
  <2>2. ~clamped' /\ shape' = shape /\ groups' = groups /\ groupCount' = groupCount
    BY <1>3 DEF Renew
  <2>3. key \in [shape[l] -> Nat] BY EdgeAssumption
  <2>4. DOMAIN deadline' = EevdfLevels /\ deadline'[l] = key
        /\ \A k \in EevdfLevels : k # l => deadline'[k] = deadline[k]
    BY <2>1 DEF EdgeInv
  <2>5. ASSUME NEW k \in EevdfLevels
        PROVE  deadline'[k] \in [shape[k] -> Nat] /\ Ordered(shape[k], deadline'[k])
    <3>1. CASE k = l BY <2>1, <2>3, <2>4, <3>1
    <3>2. CASE k # l BY <2>4, <3>2 DEF EdgeInv
    <3> QED BY <3>1, <3>2
  <2> QED BY <2>2, <2>4, <2>5 DEF EdgeInv
<1>4. CASE UpdateDeadlines BY <1>4, UpdateDeadlinesKeeps
<1>5. CASE UNCHANGED edgeVars BY <1>5 DEF edgeVars, EdgeInv, FirstHeld, Limits
<1> QED BY <1>1, <1>2, <1>3, <1>4, <1>5 DEF EdgeNext

\* What the trees and groups of the EDGE levels hold at every step.
THEOREM EdgesKept == EdgeSpec => []EdgeInv
<1> QED BY EdgeFirst, EdgeStep, PTL DEF EdgeSpec

\* The trees stay in order and their first entities within the deadlines of
\* their groups, although the walk does not come to all (bitmap.h:402, 868).
THEOREM DeadlinesKept == EdgeSpec => []DeadlinesHeld
<1>1. EdgeInv => DeadlinesHeld
  <2> SUFFICES ASSUME EdgeInv, NEW l \in EevdfLevels
               PROVE  LET s == shape[l] IN
                      /\ Ordered(s, deadline[l])
                      /\ clamped => \A d \in Limits(l) : \A n \in s :
                           (\A m \in s : Rank(n) <= Rank(m)) => deadline[l][n] <= d
                      /\ \A m, n \in s : n \in Visited(s) /\ Rank(m) < Rank(n) => m \in Visited(s)
    BY DEF DeadlinesHeld
  <2>1. TreeOf(shape[l]) BY ShapesAreTrees DEF EdgeInv
  <2>2. FirstOnes(shape[l], Visited(shape[l])) BY <2>1, VisitedFirst
  <2>3. Ordered(shape[l], deadline[l]) /\ (clamped => FirstHeld(l)) BY DEF EdgeInv
  <2> QED BY <2>2, <2>3 DEF FirstOnes, FirstHeld
<1> QED BY <1>1, EdgesKept, PTL

----------------------------------------------------------------------------
(* Truth values                                                            *)

\* The word of a variable: one of the two constants where the type has room for
\* them and it was assigned one, and otherwise the result of a C comparison.
Meant(ty, t, w, c) ==
  IF ty = "BK_BOOLEAN" /\ c THEN w \in {BK_FALSE, BK_TRUE} ELSE w = Comparison(t)

BoolInv ==
  /\ boolType \in {"BK_BOOL", "BK_BOOLEAN"}
  /\ truth \in [Variables -> BOOLEAN] /\ DOMAIN cell = Variables
  /\ constant \subseteq Variables
  /\ \A v \in Variables : Meant(boolType, truth[v], cell[v], v \in constant)

\* What an assignment of a constant, and of a comparison, leaves.
LEMMA WordsLeft ==
  ASSUME NEW b \in BOOLEAN
  PROVE  /\ Cast(BK_BOOL_FROM(b), 32) = Comparison(b)
         /\ Cast(BK_BOOL_FROM(b), 64) \in {BK_FALSE, BK_TRUE}
         /\ Cast(Comparison(b), 32) = Comparison(b) /\ Cast(Comparison(b), 64) = Comparison(b)
BY DEF Cast, Ones, BK_BOOL_FROM, BK_TRUE, BK_FALSE, Comparison

LEMMA BoolFirst == BoolInit => BoolInv
BY DEF BoolInit, BoolInv, WidthOf, Meant, Comparison

LEMMA AssignTells ==
  ASSUME BoolInv, NEW v \in Variables, NEW t \in BOOLEAN, NEW w, NEW c \in BOOLEAN,
         Assign(v, t, w), constant' = IF c THEN constant \cup {v} ELSE constant \ {v},
         Meant(boolType, t, Cast(w, WidthOf[boolType]), c)
  PROVE  BoolInv'
<1> DEFINE x == Cast(w, WidthOf[boolType])
<1>1. /\ boolType' = boolType
      /\ truth' = [truth EXCEPT ![v] = t] /\ cell' = [cell EXCEPT ![v] = x]
  BY Zenon DEF Assign
<1>2. Meant(boolType, t, x, c) OBVIOUS
<1> HIDE DEF x
<1>3. truth \in [Variables -> BOOLEAN] /\ DOMAIN cell = Variables /\ constant \subseteq Variables
  BY Zenon DEF BoolInv
<1>4. truth' \in [Variables -> BOOLEAN] /\ DOMAIN cell' = Variables /\ truth'[v] = t /\ cell'[v] = x
  BY <1>1, <1>3
<1>5. constant' \subseteq Variables /\ (v \in constant' <=> c) BY <1>3
<1>6. ASSUME NEW u \in Variables
      PROVE  Meant(boolType', truth'[u], cell'[u], u \in constant')
  <2>1. CASE u = v BY <1>1, <1>2, <1>4, <1>5, <2>1, Zenon DEF Meant
  <2>2. CASE u # v
    <3>1. truth'[u] = truth[u] /\ cell'[u] = cell[u] BY <1>1, <1>3, <2>2
    <3>2. u \in constant' <=> u \in constant BY <2>2
    <3>3. Meant(boolType, truth[u], cell[u], u \in constant) BY Zenon DEF BoolInv
    <3> QED BY <1>1, <3>1, <3>2, <3>3, Zenon DEF Meant
  <2> QED BY <2>1, <2>2
<1>7. boolType' \in {"BK_BOOL", "BK_BOOLEAN"} BY <1>1, Zenon DEF BoolInv
<1> QED BY <1>4, <1>5, <1>6, <1>7, Zenon DEF BoolInv

LEMMA AssignFromTells ==
  ASSUME BoolInv, NEW v \in Variables, NEW t \in BOOLEAN, NEW b \in BOOLEAN, AssignFrom(v, t, b),
         boolType = "BK_BOOL" => (b <=> t)
  PROVE  BoolInv'
<1>1. Meant(boolType, t, Cast(BK_BOOL_FROM(b), WidthOf[boolType]), TRUE)
  <2>1. CASE boolType = "BK_BOOL"
    <3>1. WidthOf[boolType] = 32 /\ b = t BY <2>1 DEF WidthOf
    <3>2. Cast(BK_BOOL_FROM(b), WidthOf[boolType]) = Comparison(t) BY <3>1, WordsLeft
    <3> QED BY <2>1, <3>2 DEF Meant
  <2>2. CASE boolType = "BK_BOOLEAN"
    <3>1. WidthOf[boolType] = 64 BY <2>2 DEF WidthOf
    <3>2. Cast(BK_BOOL_FROM(b), WidthOf[boolType]) \in {BK_FALSE, BK_TRUE} BY <3>1, WordsLeft
    <3> QED BY <2>2, <3>2, Zenon DEF Meant
  <2> QED BY <2>1, <2>2, Zenon DEF BoolInv
<1>2. Assign(v, t,
    BK_BOOL_FROM(b)) /\ constant' = IF TRUE THEN constant \cup {v} ELSE constant \ {v}
  BY Zenon DEF AssignFrom
<1>3. TRUE \in BOOLEAN OBVIOUS
<1> QED BY <1>1, <1>2, <1>3, AssignTells

\* The operators take the words for what is meant, where the words tell it.
LEMMA BoolStep == BoolInv /\ [BoolNext]_boolVars => BoolInv'
<1> SUFFICES ASSUME BoolInv, [BoolNext]_boolVars PROVE BoolInv' OBVIOUS
<1>1. /\ "a" \in Variables /\ "b" \in Variables
      /\ \A u \in Variables : truth[u] \in BOOLEAN /\ Holds(cell[u]) \in BOOLEAN
      /\ truth["a"] \in BOOLEAN /\ truth["b"] \in BOOLEAN
  BY DEF BoolInv, Variables, Holds
<1>2. ASSUME boolType = "BK_BOOL", NEW u \in Variables
      PROVE  cell[u] = Comparison(truth[u]) /\ (Holds(cell[u]) <=> truth[u])
  <2>1. cell[u] = Comparison(truth[u]) BY <1>2 DEF BoolInv, Meant
  <2> QED BY <1>1, <2>1 DEF Comparison, Holds
<1>3. ASSUME NEW v \in Variables, NEW t \in BOOLEAN, Constant(v, t) PROVE BoolInv'
  BY <1>3, AssignFromTells DEF Constant
<1>4. ASSUME NEW v \in Variables, NEW t \in BOOLEAN, Compare(v, t) PROVE BoolInv'
  <2>1. Cast(Comparison(t), WidthOf[boolType]) = Comparison(t)
    <3>1. WidthOf[boolType] \in {32, 64} BY DEF BoolInv, WidthOf
    <3> QED BY <3>1, WordsLeft
  <2>2. Meant(boolType, t, Cast(Comparison(t), WidthOf[boolType]), FALSE) BY <2>1, Zenon DEF Meant
  <2>3. Assign(v, t, Comparison(t))
        /\ constant' = IF FALSE THEN constant \cup {v} ELSE constant \ {v}
    BY <1>4, Zenon DEF Compare
  <2>4. FALSE \in BOOLEAN OBVIOUS
  <2> QED BY <2>2, <2>3, <2>4, AssignTells
<1>5. ASSUME NEW v \in Variables, And(v) \/ Or(v) \/ Differ(v) PROVE BoolInv'
  <2>1. CASE And(v)
    <3>1. boolType = "BK_BOOL" =>
            ((Holds(cell["a"]) /\ Holds(cell["b"])) <=> (truth["a"] /\ truth["b"])) BY <1>1, <1>2
    <3> QED BY <1>1, <2>1, <3>1, AssignFromTells DEF And
  <2>2. CASE Or(v)
    <3>1. boolType = "BK_BOOL" =>
            ((Holds(cell["a"]) \/ Holds(cell["b"])) <=> (truth["a"] \/ truth["b"])) BY <1>1, <1>2
    <3> QED BY <1>1, <2>2, <3>1, AssignFromTells DEF Or
  <2>3. CASE Differ(v)
    <3>1. boolType = "BK_BOOL" => (cell["a"] # cell["b"] <=> truth["a"] # truth["b"])
      <4>1. \A s, t \in BOOLEAN : Comparison(s) # Comparison(t) <=> s # t BY DEF Comparison
      <4> QED BY <1>1, <1>2, <4>1, Zenon
    <3>2. (cell["a"] # cell["b"]) \in BOOLEAN /\ (truth["a"] # truth["b"]) \in BOOLEAN OBVIOUS
    <3> QED BY <2>3, <3>1, <3>2, AssignFromTells DEF Differ
  <2> QED BY <1>5, <2>1, <2>2, <2>3
<1>6. ASSUME NEW v \in Variables, NEW u \in Variables, Invert(v, u) PROVE BoolInv'
  <2>1. boolType = "BK_BOOL" => (~Holds(cell[u]) <=> ~truth[u]) BY <1>2
  <2>2. (~Holds(cell[u])) \in BOOLEAN /\ (~truth[u]) \in BOOLEAN OBVIOUS
  <2> QED BY <1>6, <2>1, <2>2, AssignFromTells DEF Invert
<1>7. CASE UNCHANGED boolVars
  BY <1>7, Zenon DEF boolVars, BoolInv, Meant
<1> QED BY <1>3, <1>4, <1>5, <1>6, <1>7, Zenon DEF BoolNext

\* What a test of a truth value answers, whatever operators it went through.
THEOREM BooleansKept == BoolSpec => []BooleansTold
<1>1. BoolInv => BooleansTold
  <2> SUFFICES ASSUME BoolInv, NEW v \in Variables
               PROVE  IF boolType = "BK_BOOL"
                      THEN (Holds(cell[v]) <=> truth[v]) /\ ~BK_BOOL_IS_VALID(cell[v])
                      ELSE IF v \in constant
                           THEN Holds(cell[v]) /\ BK_BOOL_IS_VALID(cell[v])
                           ELSE (Holds(cell[v]) <=> truth[v]) /\ ~BK_BOOL_IS_VALID(cell[v])
    BY Zenon DEF BooleansTold
  <2>1. ASSUME NEW t \in BOOLEAN
        PROVE  (Holds(Comparison(t)) <=> t) /\ ~BK_BOOL_IS_VALID(Comparison(t))
    BY DEF Holds, Comparison, BK_BOOL_IS_VALID, BK_BOOL_IS_TRUE, BK_BOOL_IS_FALSE, BK_TRUE, BK_FALSE
  <2>2. ASSUME NEW w \in {BK_FALSE, BK_TRUE} PROVE Holds(w) /\ BK_BOOL_IS_VALID(w)
    BY DEF Holds, BK_BOOL_IS_VALID, BK_BOOL_IS_TRUE, BK_BOOL_IS_FALSE, BK_TRUE, BK_FALSE
  <2>3. truth[v] \in BOOLEAN BY DEF BoolInv
  <2>4. Meant(boolType, truth[v], cell[v], v \in constant) BY Zenon DEF BoolInv
  <2>5. boolType \in {"BK_BOOL", "BK_BOOLEAN"} BY Zenon DEF BoolInv
  <2>6. CASE boolType = "BK_BOOLEAN" /\ v \in constant
    <3>1. cell[v] \in {BK_FALSE, BK_TRUE} BY <2>4, <2>6, Zenon DEF Meant
    <3>2. boolType # "BK_BOOL" BY <2>6
    <3> QED BY <2>2, <2>6, <3>1, <3>2, Zenon
  <2>7. CASE ~(boolType = "BK_BOOLEAN" /\ v \in constant)
    <3>1. cell[v] = Comparison(truth[v]) BY <2>4, <2>7, Zenon DEF Meant
    <3> QED BY <2>1, <2>3, <2>5, <2>7, <3>1, Zenon
  <2> QED BY <2>6, <2>7
<1> QED BY <1>1, BoolFirst, BoolStep, PTL DEF BoolSpec

----------------------------------------------------------------------------
(* Numbers of calls, statuses and types                                    *)

\* The number the name m has once the header is read up to line k.
NumberAt(m, k) == IF m + 3 \in RepeatedCalls /\ m + 3 < k THEN m + 3 ELSE m

\* What is defined when the header is read up to line k.
NamesAt(k) == {Name(n) : n \in 10000 .. k - 1}

HeaderRead ==
  /\ line \in CallNumbers \cup {FamilyCall + 1}
  /\ DOMAIN callNumber = NamesAt(line)
  /\ \A m \in DOMAIN callNumber : callNumber[m] = NumberAt(m, line)

Predicated(s, a) == s \in Statuses /\ a = {p \in DOMAIN Predicate : s \in Predicate[p]}
Readable(t, r) == r = {n \in DOMAIN Numberings : t \in Numberings[n]}

CodeInv == HeaderRead /\ Predicated(status, answers) /\ Readable(type, readings)

LEMMA CodeFirst == CodeInit => CodeInv
<1> SUFFICES ASSUME CodeInit PROVE CodeInv OBVIOUS
<1>1. line = 10000 /\ callNumber = <<>> /\ status = 0 /\ answers = {"success"} /\ type = 0
      /\ readings = {"register", "object"} BY DEF CodeInit
<1>2. line \in CallNumbers BY <1>1 DEF CallNumbers, IoCalls
<1>3. DOMAIN callNumber = NamesAt(line) BY <1>1 DEF NamesAt
<1>4. DOMAIN callNumber = {} BY <1>1
<1>5. HeaderRead BY <1>2, <1>3, <1>4 DEF HeaderRead
<1>6. Predicated(status, answers)
  <2>1. 0 \in Statuses BY DEF Statuses, Success
  <2>2. \A p : p \in DOMAIN Predicate <=> p \in {"success", "warning", "critical", "security",
                                                "piracy", "karma", "intervention", "format"}
    BY DEF Predicate
  <2>3. 0 \in Predicate["success"] BY DEF Predicate
  <2>4. \A p \in DOMAIN Predicate : 0 \in Predicate[p] => p = "success" BY DEF Predicate, Below
  <2>5. {p \in DOMAIN Predicate : 0 \in Predicate[p]} = {"success"} BY <2>2, <2>3, <2>4, Zenon
  <2> QED BY <1>1, <2>1, <2>5, Zenon DEF Predicated
<1>7. Readable(type, readings)
  <2>2. \A n : n \in DOMAIN Numberings <=> n \in {"register", "exception", "interrupt",
      "message", "driver", "object"}
    BY DEF Numberings
  <2>3. Numberings["register"] = RegisterTypes /\ Numberings["exception"] = ExceptionTypes
        /\ Numberings["interrupt"] = InterruptTypes /\ Numberings["message"] = MessageTypes
        /\ Numberings["driver"] = DriverTypes /\ Numberings["object"] = ObjectTypes
    BY DEF Numberings
  <2>4. 0 \in RegisterTypes /\ 0 \in ObjectTypes BY DEF RegisterTypes, ObjectTypes, Page
  <2>5. 0 \notin ExceptionTypes BY DEF ExceptionTypes, Page
  <2>6. 0 \notin InterruptTypes BY DEF InterruptTypes, Page
  <2>7. 0 \notin MessageTypes BY DEF MessageTypes, Page
  <2>8. 0 \notin DriverTypes BY DEF DriverTypes, Page
  <2>9. {n \in DOMAIN Numberings : 0 \in Numberings[n]} = {"register", "object"}
    BY <2>2, <2>3, <2>4, <2>5, <2>6, <2>7, <2>8, Zenon
  <2> QED BY <1>1, <2>9, Zenon DEF Readable
<1> QED BY <1>5, <1>6, <1>7, Zenon DEF CodeInv

\* The answers to the predicates are those of x, apart from "critical".
NoneBeside(x, a) == \A p \in {"success", "warning", "security", "piracy", "karma", "intervention",
    "format"} :
                p \in a <=> p \in x

LEMMA StatusTold == CodeInv => StatusesTold
<1> SUFFICES ASSUME CodeInv PROVE StatusesTold OBVIOUS
<1>1. status \in Statuses /\ answers = {p \in DOMAIN Predicate : status \in Predicate[p]}
  BY Zenon DEF CodeInv, Predicated
<1> DEFINE s == status
<1>2. /\ "success" \in answers <=> s = 0
      /\ "warning" \in answers <=> s \in Nat \ {0}
      /\ "critical" \in answers <=> s \in Int \ Nat
      /\ "security" \in answers <=> s \in -799 .. -600
      /\ "piracy" \in answers <=> s \in -749 .. -720
      /\ "karma" \in answers <=> s \in -769 .. -750
      /\ "intervention" \in answers <=> s \in -789 .. -770
      /\ "format" \in answers <=> s \in -933 .. -920
      /\ answers \subseteq {"success", "warning", "critical", "security", "piracy", "karma",
          "intervention", "format"}
  BY <1>1 DEF Predicate, Below
<1>3. s \in Int
  BY <1>1 DEF Statuses, Success, Warnings, Failures, KeyErrors, PiracyErrors, KarmaErrors,
      Interventions, FsErrors, SystemErrors, BreachErrors, FormatErrors, Below
<1>4. /\ s \in Success <=> s = 0
      /\ s \in PiracyErrors <=> s \in -729 .. -720
      /\ s \in KarmaErrors <=> s \in -756 .. -750
      /\ s \in Interventions <=> s \in -773 .. -770
      /\ s \in BreachErrors <=> s \in -912 .. -910
 BY DEF Success, PiracyErrors, KarmaErrors, Interventions, BreachErrors, Below
<1>5. s \in Warnings <=> s > 0
    BY <1>1, <1>3 DEF Statuses, Success, Warnings, Failures, KeyErrors, PiracyErrors,
        KarmaErrors, Interventions, FsErrors, SystemErrors, BreachErrors, FormatErrors, Below
<1>6. s \in KeyErrors <=> s \in -719 .. -600
    BY <1>1, <1>3 DEF Statuses, Success, Warnings, Failures, KeyErrors, PiracyErrors,
        KarmaErrors, Interventions, FsErrors, SystemErrors, BreachErrors, FormatErrors, Below
<1>7. s \in FormatErrors <=> s \in -933 .. -920
    BY <1>1, <1>3 DEF Statuses, Success, Warnings, Failures, KeyErrors, PiracyErrors,
        KarmaErrors, Interventions, FsErrors, SystemErrors, BreachErrors, FormatErrors, Below
<1>8. /\ s \in -749 .. -720 => s \in -729 .. -720
      /\ s \in -769 .. -750 => s \in -756 .. -750
      /\ s \in -789 .. -770 => s \in -773 .. -770
      /\ s \in -799 .. -600 => s \in -773 .. -600
    BY <1>1, <1>3 DEF Statuses, Success, Warnings, Failures, KeyErrors, PiracyErrors,
        KarmaErrors, Interventions, FsErrors, SystemErrors, BreachErrors, FormatErrors, Below
<1> DEFINE told == answers \ {"critical"}
<1>9. /\ "success" \in answers <=> s \in Success
      /\ "warning" \in answers <=> s \in Warnings
      /\ "critical" \in answers <=> s < 0
  BY <1>2, <1>3, <1>4, <1>5
<1>16. \A p \in answers : p \in {"success", "warning", "critical", "security", "piracy", "karma",
                               "intervention", "format"} BY <1>2
<1>10. s \in PiracyErrors <=> told = {"security", "piracy"}
  <2>1. told = {"security", "piracy"} <=> NoneBeside({"security", "piracy"}, answers)
    BY <1>16 DEF NoneBeside
  <2>2. s \in PiracyErrors <=> NoneBeside({"security", "piracy"}, answers)
    BY <1>2, <1>3, <1>4, <1>8 DEF NoneBeside
  <2> QED BY <2>1, <2>2, Zenon
<1>11. s \in KarmaErrors <=> told = {"security", "karma"}
  <2>1. told = {"security", "karma"} <=> NoneBeside({"security", "karma"}, answers)
    BY <1>16 DEF NoneBeside
  <2>2. s \in KarmaErrors <=> NoneBeside({"security", "karma"}, answers)
    BY <1>2, <1>3, <1>4, <1>8 DEF NoneBeside
  <2> QED BY <2>1, <2>2, Zenon
<1>12. s \in Interventions <=> told = {"security", "intervention"}
  <2>1. told = {"security", "intervention"} <=> NoneBeside({"security", "intervention"}, answers)
    BY <1>16 DEF NoneBeside
  <2>2. s \in Interventions <=> NoneBeside({"security", "intervention"}, answers)
    BY <1>2, <1>3, <1>4, <1>8 DEF NoneBeside
  <2> QED BY <2>1, <2>2, Zenon
<1>13. s \in KeyErrors <=> told = {"security"}
  <2>1. told = {"security"} <=> NoneBeside({"security"}, answers)
    BY <1>16 DEF NoneBeside
  <2>2. s \in KeyErrors <=> NoneBeside({"security"}, answers)
    BY <1>2, <1>3, <1>6, <1>8 DEF NoneBeside
  <2> QED BY <2>1, <2>2, Zenon
<1>14. s \in FormatErrors <=> told = {"format"}
  <2>1. told = {"format"} <=> NoneBeside({"format"}, answers)
    BY <1>16 DEF NoneBeside
  <2>2. s \in FormatErrors <=> NoneBeside({"format"}, answers)
    BY <1>2, <1>3, <1>7, <1>8 DEF NoneBeside
  <2> QED BY <2>1, <2>2, Zenon
<1>15. s \in BreachErrors => told = {} BY <1>2, <1>3, <1>4
<1> QED BY <1>9, <1>10, <1>11, <1>12, <1>13, <1>14, <1>15, Zenon DEF StatusesTold

LEMMA TypeRanges ==
  ASSUME NEW t
  PROVE  /\ t \in RegisterTypes => t \in Int /\ ((0 <= t /\ t <= 2050) \/ t = 61440)
         /\ t \in ExceptionTypes => t \in Int /\ ((4096 <= t /\ t <= 5903) \/ (61440 <= t /\ t <= 62720))
         /\ t \in InterruptTypes => t \in Int /\ 8192 <= t /\ t <= 9800
         /\ t \in MessageTypes => t \in Int /\ 8192 <= t /\ t <= 10244
         /\ t \in DriverTypes => t \in Int /\ 1 <= t /\ t <= 1027
         /\ t \in ObjectTypes => t \in Int /\ ((0 <= t /\ t <= 1000) \/ t = 65535)
         /\ t = 61440 => t \in RegisterTypes /\ t \in ExceptionTypes
<1>1. t \in RegisterTypes => t \in Int /\ ((0 <= t /\ t <= 2050) \/ t = 61440)
  BY DEF RegisterTypes, Page
<1>2. t \in ExceptionTypes => t \in Int /\ ((4096 <= t /\ t <= 5903) \/ (61440 <= t /\ t <= 62720))
  BY DEF ExceptionTypes, Page
<1>3. t \in InterruptTypes => t \in Int /\ 8192 <= t /\ t <= 9800 BY DEF InterruptTypes, Page
<1>4. t \in MessageTypes => t \in Int /\ 8192 <= t /\ t <= 10244 BY DEF MessageTypes, Page
<1>5. t \in DriverTypes => t \in Int /\ 1 <= t /\ t <= 1027 BY DEF DriverTypes, Page
<1>6. t \in ObjectTypes => t \in Int /\ ((0 <= t /\ t <= 1000) \/ t = 65535)
  BY DEF ObjectTypes, Page
<1>7. t = 61440 => t \in RegisterTypes /\ t \in ExceptionTypes BY DEF RegisterTypes, ExceptionTypes
<1> QED BY <1>1, <1>2, <1>3, <1>4, <1>5, <1>6, <1>7

\* No number is a message's and a register's, and so on.
LEMMA TypesApart ==
  ASSUME NEW t
  PROVE  /\ t \in MessageTypes => /\ t \notin RegisterTypes /\ t \notin ExceptionTypes
                                 /\ t \notin DriverTypes /\ t \notin ObjectTypes
         /\ t \in InterruptTypes => t \notin RegisterTypes /\ t \notin ExceptionTypes
         /\ t \in RegisterTypes /\ t \in ExceptionTypes <=> t = 61440
BY TypeRanges

LEMMA TypeTold == CodeInv => TypesTold
<1> SUFFICES ASSUME CodeInv PROVE TypesTold OBVIOUS
<1>1. readings = {n \in DOMAIN Numberings : type \in Numberings[n]} BY Zenon DEF CodeInv, Readable
<1>2. /\ "register" \in readings <=> type \in RegisterTypes
      /\ "exception" \in readings <=> type \in ExceptionTypes
      /\ "interrupt" \in readings <=> type \in InterruptTypes
      /\ "message" \in readings <=> type \in MessageTypes
      /\ "driver" \in readings <=> type \in DriverTypes
      /\ "object" \in readings <=> type \in ObjectTypes
      /\ readings \subseteq {"register", "exception", "interrupt", "message", "driver", "object"}
  BY <1>1 DEF Numberings
<1>3. PICK t : t = type OBVIOUS
<1>4. /\ t \in MessageTypes => /\ t \notin RegisterTypes /\ t \notin ExceptionTypes
                              /\ t \notin DriverTypes /\ t \notin ObjectTypes
      /\ t \in InterruptTypes => t \notin RegisterTypes /\ t \notin ExceptionTypes
  BY TypesApart
<1>5. t \in RegisterTypes /\ t \in ExceptionTypes <=> t = 61440 BY TypesApart
<1>11. "message" \in readings => readings \subseteq {"message", "interrupt"}
  <2> SUFFICES ASSUME "message" \in readings
    PROVE readings \subseteq {"message", "interrupt"} OBVIOUS
  <2> QED BY <1>2, <1>3, <1>4, Zenon
<1> DEFINE both == readings \cap {"register", "exception", "interrupt"}
<1>12. Cardinality(both) > 1 <=> "register" \in readings /\ "exception" \in readings
  <2>1. ~("register" \in readings /\ "interrupt" \in readings)
        /\ ~("exception" \in readings /\ "interrupt" \in readings)
    BY <1>2, <1>3, <1>4, Zenon
  <2>2. CASE "register" \in readings /\ "exception" \in readings
    <3>1. both = {"register", "exception"} BY <2>1, <2>2
    <3>2. IsFiniteSet({"exception"}) /\ Cardinality({"exception"}) = 1 BY FS_Singleton
    <3>3. Cardinality({"exception"} \cup {"register"}) = 2 BY <3>2, FS_AddElement
    <3>4. both = {"exception"} \cup {"register"} BY <3>1
    <3> QED BY <2>2, <3>3, <3>4
  <2>3. CASE ~("register" \in readings /\ "exception" \in readings)
    <3>1. \E e : both \subseteq {e} BY <2>1, <2>3, Zenon
    <3>2. PICK e : both \subseteq {e} BY <3>1
    <3>3. both = {} \/ both = {e} BY <3>2, Zenon
    <3>4. Cardinality({}) = 0 /\ Cardinality({e}) = 1 BY FS_EmptySet, FS_Singleton
    <3> QED BY <2>3, <3>3, <3>4
  <2> QED BY <2>2, <2>3
<1>13. "register" \in readings /\ "exception" \in readings <=> type = \hF000
  <2>1. \hF000 = 61440 OBVIOUS
  <2> QED BY <1>2, <1>3, <1>5, <2>1
<1> HIDE DEF both
<1> QED BY <1>11, <1>12, <1>13 DEF TypesTold, both

LEMMA CallsAre == CallNumbers = 10000 .. 10701
BY DEF CallNumbers, IoCalls, ProcessCalls, SchedulingCalls, RecentCalls, RepeatedCalls,
       CompatCalls, RelativeCalls, FloatCalls, MemoryCalls, LastCall, FamilyCall

LEMMA DefineReads ==
  ASSUME HeaderRead, Define
  PROVE  HeaderRead'
<1>1. line \in Int /\ 10000 <= line /\ line <= 10701 BY CallsAre DEF Define
<1>12. PICK k \in Int : k = line BY <1>1
<1>2. line' = k + 1 /\ callNumber' = [n \in DOMAIN callNumber \cup {Name(k)} |->
                                     IF n = Name(k) THEN k ELSE callNumber[n]]
                                       BY <1>12, Zenon DEF Define
<1>3. k + 1 \in CallNumbers \cup {FamilyCall + 1} BY <1>1, <1>12, CallsAre DEF FamilyCall
<1>4. /\ DOMAIN callNumber' = {Name(k)} \cup DOMAIN callNumber
      /\ callNumber'[Name(k)] = k
      /\ \A m \in DOMAIN callNumber : m # Name(k) => callNumber'[m] = callNumber[m] BY <1>2
<1>13. DOMAIN callNumber = {Name(n) : n \in 10000 .. k - 1} BY <1>12 DEF HeaderRead, NamesAt
<1>5. \A m \in DOMAIN callNumber : callNumber[m] = NumberAt(m, k)
  BY <1>1, <1>12 DEF HeaderRead, NumberAt
<1>6. DOMAIN callNumber' = NamesAt(k + 1)
  <2>1. \A n : n \in 10000 .. (k + 1) - 1 <=> n \in 10000 .. k - 1 \/ n = k BY <1>1, <1>12
  <2>2. \A x : x \in {Name(n) : n \in 10000 .. (k + 1) - 1}
               <=> x \in {Name(n) : n \in 10000 .. k - 1} \/ x = Name(k) BY <2>1
  <2> QED BY <1>4, <1>13, <2>2 DEF NamesAt
<1>7. \A n \in Int : Name(n) \in Int BY DEF Name
<1>8. NumberAt(Name(k), k + 1) = k BY <1>1, <1>12 DEF NumberAt, Name, RepeatedCalls
<1>9. ASSUME NEW m \in Int, m # Name(k) PROVE NumberAt(m, k + 1) = NumberAt(m, k)
  BY <1>1, <1>12, <1>9 DEF NumberAt, Name, RepeatedCalls
<1>10. \A m \in DOMAIN callNumber : m \in Int BY <1>1, <1>12, <1>13, <1>7
<1>11. \A m \in DOMAIN callNumber' : callNumber'[m] = NumberAt(m, k + 1)
  BY <1>4, <1>5, <1>8, <1>9, <1>10, Zenon
<1> QED BY <1>2, <1>3, <1>6, <1>11, Zenon DEF HeaderRead

LEMMA CodeStep == CodeInv /\ [CodeNext]_codeVars => CodeInv'
<1> SUFFICES ASSUME CodeInv, [CodeNext]_codeVars PROVE CodeInv' OBVIOUS
<1>1. CASE Define
  <2>1. UNCHANGED <<status, answers, type, readings>> BY <1>1, Zenon DEF Define
  <2>2. HeaderRead' BY <1>1, DefineReads, Zenon DEF CodeInv
  <2> QED BY <2>1, <2>2, Zenon DEF CodeInv, Predicated, Readable
<1>2. ASSUME NEW s \in Statuses, Return(s) PROVE CodeInv'
  <2>1. /\ status' = s /\ answers' = {p \in DOMAIN Predicate : s \in Predicate[p]}
        /\ UNCHANGED <<line, callNumber, type, readings>> BY <1>2, Zenon DEF Return
  <2>2. HeaderRead'
    <3>1. line' = line /\ callNumber' = callNumber /\ HeaderRead BY <2>1, Zenon DEF CodeInv
    <3> QED BY <3>1 DEF HeaderRead
  <2>3. Predicated(status', answers') BY <2>1, Zenon DEF Predicated
  <2> QED BY <2>1, <2>2, <2>3, Zenon DEF CodeInv
<1>3. ASSUME NEW t, Meet(t) PROVE CodeInv'
  <2>1. /\ type' = t /\ readings' = {n \in DOMAIN Numberings : t \in Numberings[n]}
        /\ UNCHANGED <<line, callNumber, status, answers>> BY <1>3, Zenon DEF Meet
  <2>2. HeaderRead'
    <3>1. line' = line /\ callNumber' = callNumber /\ HeaderRead BY <2>1, Zenon DEF CodeInv
    <3> QED BY <3>1 DEF HeaderRead
  <2>3. Readable(type', readings') BY <2>1, Zenon DEF Readable
  <2> QED BY <2>1, <2>2, <2>3, Zenon DEF CodeInv
<1>4. CASE UNCHANGED codeVars
  <2>1. UNCHANGED <<line, callNumber>> /\ UNCHANGED <<status, answers, type, readings>>
    BY <1>4, Zenon DEF codeVars
  <2>2. HeaderRead' BY <2>1 DEF CodeInv, HeaderRead
  <2> QED BY <2>1, <2>2, Zenon DEF CodeInv
<1>5. CASE CodeNext
  <2>1. Define \/ (\E s \in Statuses : Return(s)) \/ (\E t : Meet(t)) BY <1>5 DEF CodeNext
  <2> QED BY <1>1, <1>2, <1>3, <2>1, Zenon
<1> QED BY <1>4, <1>5

LEMMA HeaderReached == HeaderRead => CallsReached
<1> SUFFICES ASSUME HeaderRead PROVE CallsReached OBVIOUS
<1> DEFINE D == DOMAIN callNumber
           R == Range(callNumber)
<1>9. line \in Int /\ 10000 <= line /\ line <= 10702 BY CallsAre DEF HeaderRead, FamilyCall
<1>10. PICK k \in Int : k = line BY <1>9
<1>1. 10000 <= k /\ k <= 10702 BY <1>9, <1>10
<1>11. PICK lo \in Int, hi \in Int : lo = 10000 /\ hi = 10701 OBVIOUS
<1>2. D = {Name(n) : n \in 10000 .. k - 1} BY <1>10 DEF HeaderRead, NamesAt
<1>3. \A m \in D : callNumber[m] = NumberAt(m, k) BY <1>10 DEF HeaderRead, NumberAt
<1>4. \A n \in 10000 .. k - 1 : Name(n) \in 10000 .. 10701 /\ Name(n) \notin RepeatedCalls
  BY <1>1 DEF Name, RepeatedCalls
<1>5. \A m \in D : m \in lo .. hi /\ m \notin RepeatedCalls BY <1>2, <1>4, <1>11
<1>6. R = {callNumber[m] : m \in D} BY Zenon DEF Range
<1> HIDE DEF D, R
<1>7. Cardinality(R) = Cardinality(D)
  <2> DEFINE f == [m \in D |-> callNumber[m]]
  <2>1. \A a, b \in D : callNumber[a] = callNumber[b] => a = b
    <3>1. \A a, b \in lo .. hi : a \notin RepeatedCalls /\ b \notin RepeatedCalls
             /\ NumberAt(a, k) = NumberAt(b, k) => a = b
      BY DEF NumberAt, RepeatedCalls
    <3> QED BY <1>3, <1>5, <3>1, Zenon
  <2>2. f \in [D -> R] /\ \A y \in R : \E m \in D : f[m] = y BY <1>6
  <2>3. \A a, b \in D : f[a] = f[b] => a = b BY <2>1
  <2>4. f \in Bijection(D, R) BY <2>2, <2>3, Zenon DEF Bijection, Injection, Surjection, IsInjective
  <2>5. ExistsBijection(D, R) BY <2>4, Zenon DEF ExistsBijection
  <2>6. IsFiniteSet(D)
    <3>1. IsFiniteSet(lo .. hi) BY FS_Interval
    <3>2. D \subseteq lo .. hi BY <1>5, Zenon
    <3> QED BY <3>1, <3>2, FS_Subset
  <2> QED BY <2>5, <2>6, FS_Bijection
<1>8. ASSUME k > FamilyCall
        PROVE  CallNumbers \ R = {n - 3 : n \in RepeatedCalls} /\ {n \in R : n > LastCall} = {FamilyCall}
  <2>1. k = 10702 BY <1>1, <1>8 DEF FamilyCall
  <2>2. ASSUME NEW y PROVE y \in R <=> y \in 10000 .. 10701 /\ y \notin 10359 .. 10361
    <3>1. ASSUME y \in R PROVE y \in 10000 .. 10701 /\ y \notin 10359 .. 10361
      <4>1. PICK m \in D : y = NumberAt(m, k) BY <1>3, <1>6, <3>1
      <4>2. m \in 10000 .. 10701 /\ m \notin RepeatedCalls BY <1>5, <1>11
      <4> QED BY <2>1, <4>1, <4>2 DEF NumberAt, RepeatedCalls
    <3>2. ASSUME y \in 10000 .. 10701, y \notin 10359 .. 10361 PROVE y \in R
      <4>1. Name(y) \in D BY <1>2, <2>1, <3>2
      <4>2. NumberAt(Name(y), k) = y BY <2>1, <3>2 DEF NumberAt, Name, RepeatedCalls
      <4> QED BY <1>3, <1>6, <4>1, <4>2, Zenon
    <3> QED BY <3>1, <3>2
  <2>3. \A n : n \in {i - 3 : i \in RepeatedCalls} <=> n \in 10359 .. 10361
    <3>1. ASSUME NEW n \in 10359 .. 10361 PROVE n + 3 \in RepeatedCalls /\ n = (n + 3) - 3
      BY DEF RepeatedCalls
    <3>2. \A i \in RepeatedCalls : i - 3 \in 10359 .. 10361 BY DEF RepeatedCalls
    <3> QED BY <3>1, <3>2
  <2>4. CallNumbers \ R = {n - 3 : n \in RepeatedCalls}
    <3>1. \A n \in 10359 .. 10361 : n \in 10000 .. 10701 OBVIOUS
    <3>2. \A n : n \in CallNumbers \ R <=> n \in 10359 .. 10361 BY <2>2, <3>1, CallsAre
    <3> QED BY <2>3, <3>2
  <2>5. {n \in R : n > LastCall} = {FamilyCall} BY <2>2 DEF LastCall, FamilyCall
  <2> QED BY <2>4, <2>5
<1> QED BY <1>10, <1>7, <1>8, Zenon DEF CallsReached, D, R

\* What the numbers of the interfaces tell, and what they do not.
THEOREM CodesKept == CodeSpec => [](CallsReached /\ StatusesTold /\ TypesTold)
<1>1. CodeInv => CallsReached /\ StatusesTold /\ TypesTold
  BY HeaderReached, StatusTold, TypeTold, Zenon DEF CodeInv
<1> QED BY <1>1, CodeFirst, CodeStep, PTL DEF CodeSpec

----------------------------------------------------------------------------
(* Pages, frames and handles                                               *)

LEMMA AddressPowersAre ==
  /\ AddressBits \in Nat /\ PowerOf(0) = 1
  /\ \A i \in 0 .. AddressBits : PowerOf(i) \in Nat /\ PowerOf(i) > 0
  /\ \A i \in 0 .. AddressBits - 1 : PowerOf(i + 1) = 2 * PowerOf(i)
<1>1. AddressBits \in Nat BY AddressAssumption
<1>2. /\ PowerOf(0) = 1
      /\ \A i \in 0 .. AddressBits : PowerOf(i) \in Nat /\ PowerOf(i + 1) = 2 * PowerOf(i)
  BY AddressPowers, Zenon DEF PowerOf
<1> DEFINE S == {i \in 0 .. AddressBits : PowerOf(i) <= 0}
<1>3. S = {}
  <2> SUFFICES ASSUME S # {} PROVE FALSE OBVIOUS
  <2>1. S \in SUBSET Nat BY <1>1
  <2>2. PICK l \in S : \A m \in S : l <= m
    <3> HIDE DEF S
    <3> QED BY <2>1, LeastOf
  <2>3. l # 0 BY <1>2
  <2>4. l - 1 \in 0 .. AddressBits /\ (l - 1) + 1 = l BY <1>1, <2>3
  <2>5. PowerOf(l - 1) > 0 BY <1>2, <2>2, <2>4
  <2>6. PowerOf(l) = 2 * PowerOf(l - 1)
    <3>1. PICK k \in 0 .. AddressBits : k = l - 1 BY <2>4
    <3>2. PowerOf(k + 1) = 2 * PowerOf(k) BY <1>2
    <3> QED BY <2>4, <3>1, <3>2, Zenon
  <2> QED BY <1>2, <2>2, <2>4, <2>5, <2>6
<1> QED BY <1>1, <1>2, <1>3

LEMMA PowersTimes ==
  ASSUME NEW i \in Nat, NEW j \in Nat, i + j <= AddressBits
  PROVE  PowerOf(i + j) = PowerOf(i) * PowerOf(j)
<1> DEFINE A == AddressBits
           S == {n \in 0 .. j : PowerOf(i + n) # PowerOf(i) * PowerOf(n)}
<1>1. A \in Nat BY AddressPowersAre
<1>2. /\ PowerOf(0) = 1 /\ \A n \in 0 .. A : PowerOf(n) \in Nat /\ PowerOf(n) > 0
      /\ \A n \in 0 .. A - 1 : PowerOf(n + 1) = 2 * PowerOf(n) BY AddressPowersAre
<1>3. S = {}
  <2> SUFFICES ASSUME S # {} PROVE FALSE OBVIOUS
  <2>1. S \in SUBSET Nat OBVIOUS
  <2>2. PICK l \in S : \A m \in S : l <= m
    <3> HIDE DEF S
    <3> QED BY <2>1, LeastOf
  <2>3. l # 0
    <3>1. i + 0 = i /\ i \in 0 .. A BY <1>1
    <3>2. PowerOf(i) * 1 = PowerOf(i) BY <1>2, <3>1
    <3> QED BY <1>2, <2>2, <3>1, <3>2
  <2>4. PICK k \in 0 .. j : l = k + 1 /\ k \in 0 .. A - 1 /\ i + k \in 0 .. A - 1 /\ i \in 0 .. A
    <3>1. l - 1 \in 0 .. j /\ l = (l - 1) + 1 /\ l - 1 \in 0 .. A - 1 /\ i + (l - 1) \in 0 .. A - 1 /\ i \in 0 .. A
      BY <1>1, <2>3
    <3> QED BY <3>1
  <2>5. k \notin S BY <2>2, <2>4
  <2>6. PowerOf(i + k) = PowerOf(i) * PowerOf(k) BY <2>5
  <2>7. PowerOf((i + k) + 1) = 2 * PowerOf(i + k) /\ PowerOf(k + 1) = 2 * PowerOf(k) BY <1>2, <2>4
  <2>8. i + l = (i + k) + 1 BY <2>4
  <2>9. PowerOf(i + l) = 2 * (PowerOf(i) * PowerOf(k)) /\ PowerOf(l) = 2 * PowerOf(k)
    BY <2>4, <2>6, <2>7, <2>8, Zenon
  <2>12. PowerOf(i) \in Nat /\ PowerOf(k) \in Nat
    <3>1. k \in 0 .. A BY <1>1, <2>4
    <3> QED BY <1>2, <2>4, <3>1
  <2>10. PICK p \in Nat, q \in Nat : p = PowerOf(i) /\ q = PowerOf(k) BY <2>12
  <2>11. 2 * (p * q) = p * (2 * q) OBVIOUS
  <2> QED BY <2>2, <2>9, <2>10, <2>11
<1>4. j \in 0 .. j OBVIOUS
<1> QED BY <1>3, <1>4

LEMMA PowersRise ==
  ASSUME NEW i \in Nat, NEW j \in Nat, i <= j, j <= AddressBits
  PROVE  /\ PowerOf(i) <= PowerOf(j) /\ (i < j => PowerOf(i) < PowerOf(j))
         /\ PowerOf(j) = PowerOf(i) * PowerOf(j - i) /\ PowerOf(i) \in Nat /\ PowerOf(i) > 0
         /\ PowerOf(j) \in Nat /\ PowerOf(j - i) \in Nat /\ PowerOf(j - i) > 0
<1>1. PICK d \in Nat : d = j - i OBVIOUS
<1>2. AddressBits \in Nat /\ i \in 0 .. AddressBits /\ j \in 0 .. AddressBits /\ d \in 0 .. AddressBits
      /\ i + d = j
  BY <1>1, AddressPowersAre
<1>3. PowerOf(j) = PowerOf(i) * PowerOf(d) BY <1>2, PowersTimes
<1>4. PICK p \in Nat, q \in Nat : p = PowerOf(i) /\ q = PowerOf(d) /\ p > 0 /\ q > 0
  BY <1>2, AddressPowersAre
<1>5. PowerOf(j) = p * q BY <1>3, <1>4
<1>6. p <= p * q /\ p * q \in Nat
  <2>1. PICK e \in Nat : q = 1 + e
    <3>1. q - 1 \in Nat /\ q = 1 + (q - 1) BY <1>4
    <3> QED BY <3>1
  <2>2. p * q = p + p * e /\ p * e \in Nat BY <2>1
  <2> QED BY <2>2
<1>7. ASSUME i < j PROVE p < p * q
  <2>1. PICK c \in 0 .. AddressBits - 1 : d = c + 1
    <3>1. d - 1 \in 0 .. AddressBits - 1 /\ d = (d - 1) + 1 BY <1>1, <1>2, <1>7
    <3> QED BY <3>1
  <2>2. q = 2 * PowerOf(c) /\ PowerOf(c) \in Nat /\ PowerOf(c) > 0
    BY <1>2, <1>4, <2>1, AddressPowersAre
  <2>3. PICK e \in Nat : q = 2 + e
    <3>1. q - 2 \in Nat /\ q = 2 + (q - 2) BY <2>2
    <3> QED BY <3>1
  <2>4. p * q = p + p + p * e /\ p * e \in Nat BY <2>3
  <2> QED BY <1>4, <2>4
<1> QED BY <1>1, <1>3, <1>4, <1>5, <1>6, <1>7

\* The arithmetic of pages: p to a page, c pages counted, m = p * k addresses.
LEMMA PagesCount ==
  ASSUME NEW p \in Nat, NEW c \in Nat, NEW k \in Nat, NEW m \in Nat, NEW n \in 0 .. m - 1,
         p > 0, c > 0, m = p * k, p * c < m
  PROVE  LET up == (n + p - 1) % m
             round == up - (up % p)
             count == (up \div p) % c
             led == (count * p) % m
         IN  IF n > m - p THEN count = 0 /\ round = 0
             ELSE IF round < p * c THEN led \in n .. n + p - 1 /\ led = round
             ELSE led < n
<1> DEFINE up == (n + p - 1) % m
           q == up \div p
           r == up % p
           count == q % c
           led == (count * p) % m
<1>1. m > 0 /\ n + p - 1 \in Nat /\ p * c \in Nat OBVIOUS
<1>2. p <= m
  <2>1. PICK e \in Nat : c = 1 + e
    <3>1. c - 1 \in Nat /\ c = 1 + (c - 1) OBVIOUS
    <3> QED BY <3>1
  <2>2. p * c = p + p * e /\ p * e \in Nat BY <2>1
  <2> QED BY <2>2
<1>3. up \in Nat
  <2>1. (n + p - 1) % m \in 0 .. m - 1 BY <1>1, Quotient
  <2> QED BY <2>1
<1>4. up = p * q + r /\ r \in 0 .. p - 1 /\ q \in Int
  <2> HIDE DEF up
  <2> QED BY <1>3, Quotient
<1>5. CASE n > m - p
  <2>1. PICK u \in 0 .. m - 1 : u = n + p - 1 - m /\ u < p BY <1>1, <1>2, <1>5
  <2>2. n + p - 1 = m * 1 + u BY <2>1
  <2>3. up = u BY <1>1, <2>1, <2>2, Remainder
  <2>4. u \in 0 .. p - 1 /\ u = p * 0 + u BY <2>1
  <2>5. q = 0 /\ r = u
    <3>1. u % p = u /\ u \div p = 0 BY <2>4, Remainder
    <3> QED BY <2>3, <3>1
  <2>6. 0 % c = 0 OBVIOUS
  <2> QED BY <1>5, <2>3, <2>5, <2>6
<1>6. CASE ~(n > m - p)
  <2>1. n + p - 1 \in 0 .. m - 1 /\ n + p - 1 = m * 0 + (n + p - 1) BY <1>1, <1>6
  <2>2. up = n + p - 1 BY <1>1, <2>1, Remainder
  <2>3. q \in Nat
    <3>1. CASE q < 0
      <4>1. PICK e \in Nat : q = -1 - e
        <5>1. -1 - q \in Nat /\ q = -1 - (-1 - q) BY <1>4, <3>1
        <5> QED BY <5>1
      <4>2. p * q = -p - p * e /\ p * e \in Nat BY <4>1
      <4> QED BY <1>3, <1>4, <4>2
    <3> QED BY <1>4, <3>1
  <2> HIDE DEF up, q, r
  <2>4. p * q \in Nat /\ up - r = p * q BY <1>3, <1>4, <2>3
  <2>5. CASE q < c
    <3>1. q \in 0 .. c - 1 /\ q = c * 0 + q BY <2>3, <2>5
    <3>2. count = q BY <3>1, Remainder
    <3>3. p * q < p * c
      <4>1. PICK e \in Nat : c = q + 1 + e
        <5>1. c - q - 1 \in Nat /\ c = q + 1 + (c - q - 1) BY <2>3, <2>5
        <5> QED BY <5>1
      <4>2. p * c = p * q + p + p * e /\ p * e \in Nat BY <2>3, <4>1
      <4> QED BY <2>4, <4>2
    <3>4. count * p = p * q BY <2>3, <3>2
    <3>5. p * q \in 0 .. m - 1 /\ p * q = m * 0 + p * q BY <2>4, <3>3
    <3>6. (p * q) % m = p * q BY <1>1, <3>5, Remainder
    <3>7. led = p * q BY <3>4, <3>6
    <3>8. p * q \in n .. n + p - 1 BY <1>4, <2>2, <2>4
    <3> QED BY <1>6, <2>4, <3>3, <3>7, <3>8 DEF up, q, r
  <2>6. CASE ~(q < c)
    <3>1. count \in 0 .. c - 1 BY <2>3, Quotient
    <3>2. PICK d \in 0 .. c - 1 : d = count BY <3>1
    <3>3. PICK e \in Nat : q = d + 1 + e
      <4>1. q - d - 1 \in Nat /\ q = d + 1 + (q - d - 1) BY <2>3, <2>6
      <4> QED BY <4>1
    <3>4. p * q = p * d + p + p * e /\ p * e \in Nat /\ p * d \in Nat BY <3>3
    <3>5. PICK f \in Nat : c = d + 1 + f
      <4>1. c - d - 1 \in Nat /\ c = d + 1 + (c - d - 1) OBVIOUS
      <4> QED BY <4>1
    <3>6. p * c = p * d + p + p * f /\ p * f \in Nat BY <3>5
    <3>7. count * p = p * d BY <3>2
    <3>8. p * d \in 0 .. m - 1 /\ p * d = m * 0 + p * d BY <3>4, <3>6
    <3>9. led = p * d
      <4>2. PICK z \in 0 .. m - 1 : z = p * d BY <3>8
      <4>3. z = m * 0 + z /\ z \in Int OBVIOUS
      <4>4. z % m = z BY <1>1, <4>3, Remainder
      <4>1. (p * d) % m = p * d BY <4>2, <4>4
      <4> QED BY <3>7, <4>1
    <3>10. p * d < n BY <1>4, <2>2, <2>4, <3>4
    <3>11. PICK g \in Nat : q = c + g
      <4>1. q - c \in Nat /\ q = c + (q - c) BY <2>3, <2>6
      <4> QED BY <4>1
    <3>12. p * q = p * c + p * g /\ p * g \in Nat BY <3>11
    <3> QED BY <1>6, <2>4, <3>9, <3>10, <3>12 DEF up, q, r
  <2> QED BY <2>5, <2>6
<1> QED BY <1>5, <1>6

\* The frame of the address n leads back to its page if its number is short enough.
LEMMA FrameLeadsBack ==
  ASSUME NEW p \in Nat, NEW c \in Nat, NEW m \in Nat, NEW n \in 0 .. m - 1,
         p > 0, c > 0, p * c < m
  PROVE  (((n \div p) % c) * p) % m = n - (n % p) <=> n < p * c
<1> DEFINE q == n \div p
           r == n % p
           count == q % c
<1>1. n \in Nat /\ m > 0 OBVIOUS
<1>2. n = p * q + r /\ r \in 0 .. p - 1 /\ q \in Int BY Quotient
<1> HIDE DEF q, r
<1>3. q \in Nat
  <2>1. CASE q < 0
    <3>1. PICK e \in Nat : q = -1 - e
      <4>1. -1 - q \in Nat /\ q = -1 - (-1 - q) BY <1>2, <2>1
      <4> QED BY <4>1
    <3>2. p * q = -p - p * e /\ p * e \in Nat BY <3>1
    <3> QED BY <1>1, <1>2, <3>2
  <2> QED BY <1>2, <2>1
<1>4. p * q \in Nat /\ n - r = p * q BY <1>2, <1>3
<1>5. PICK d \in 0 .. c - 1 : d = count BY <1>3, Quotient
<1>6. PICK f \in Nat : c = d + 1 + f
  <2>1. c - d - 1 \in Nat /\ c = d + 1 + (c - d - 1) OBVIOUS
  <2> QED BY <2>1
<1>7. p * c = p * d + p + p * f /\ p * f \in Nat /\ p * d \in Nat BY <1>6
<1>8. count * p = p * d BY <1>5
<1>9. p * d \in 0 .. m - 1 /\ p * d = m * 0 + p * d BY <1>7
<1>10. (count * p) % m = p * d
  <2>1. (p * d) % m = p * d BY <1>1, <1>9, Remainder
  <2> QED BY <1>8, <2>1
<1>11. CASE q < c
  <2>1. q \in 0 .. c - 1 /\ q = c * 0 + q BY <1>3, <1>11
  <2>2. d = q BY <1>5, <2>1, Remainder
  <2> QED BY <1>2, <1>4, <1>7, <1>10, <2>2 DEF q, r
<1>12. CASE ~(q < c)
  <2>1. PICK g \in Nat : q = c + g
    <3>1. q - c \in Nat /\ q = c + (q - c) BY <1>3, <1>12
    <3> QED BY <3>1
  <2>2. p * q = p * c + p * g /\ p * g \in Nat BY <2>1
  <2> QED BY <1>2, <1>4, <1>7, <1>10, <2>2 DEF q, r
<1> QED BY <1>11, <1>12

\* The bits of a number, and the sums of those of two.
BitAt(a, i) == (a \div PowerOf(i)) % 2 = 1
OrBit(a, b, i) == IF BitAt(a, i) \/ BitAt(b, i) THEN PowerOf(i) ELSE 0
OrSum(t, a, b) ==
  /\ t \in [0 .. AddressBits -> Nat] /\ t[0] = 0
  /\ \A i \in 0 .. AddressBits - 1 : t[i + 1] = t[i] + OrBit(a, b, i)

LEMMA OrSums ==
  ASSUME NEW a, NEW b
  PROVE  \E t : OrSum(t, a, b) /\ BitOr(a, b) = t[AddressBits]
<1> DEFINE A == AddressBits
           bit(i) == IF (a \div 2^i) % 2 = 1 \/ (b \div 2^i) % 2 = 1 THEN 2^i ELSE 0
           sums == CHOOSE g : g = [i \in 0 .. A |-> IF i = 0 THEN 0 ELSE g[i - 1] + bit(i - 1)]
           turns == [i \in 1 .. A |-> [c \in Nat |-> c + OrBit(a, b, i - 1)]]
<1>1. A \in Nat BY AddressPowersAre
<1>2. \A i : bit(i) = OrBit(a, b, i) BY Zenon DEF OrBit, BitAt, PowerOf
<1>3. \A i \in 0 .. A - 1 : OrBit(a, b, i) \in Nat BY <1>1, AddressPowersAre DEF OrBit
<1>4. turns \in [1 .. A -> [Nat -> Nat]]
  <2>1. ASSUME NEW i \in 1 .. A PROVE OrBit(a, b, i - 1) \in Nat
    <3>1. i - 1 \in 0 .. A - 1 BY <1>1
    <3> QED BY <1>3, <3>1
  <2> QED BY <2>1
<1>5. PICK t \in [0 .. A -> Nat] : Chained(t, 0, A, turns)
  <2> HIDE DEF turns
  <2> QED BY <1>1, <1>4, ChainExists
<1>6. t[0] = 0 /\ \A i \in 1 .. A : t[i] = t[i - 1] + OrBit(a, b, i - 1)
  <2>1. \A i \in 1 .. A : t[i - 1] \in Nat BY <1>1
  <2> QED BY <1>5, <2>1 DEF Chained
<1>7. t = [i \in 0 .. A |-> IF i = 0 THEN 0 ELSE t[i - 1] + bit(i - 1)]
  <2>1. ASSUME NEW i \in 0 .. A PROVE t[i] = IF i = 0 THEN 0 ELSE t[i - 1] + bit(i - 1)
    <3>1. i = 0 \/ i \in 1 .. A BY <1>1
    <3> HIDE DEF bit
    <3> QED BY <1>2, <1>6, <3>1
  <2> HIDE DEF bit
  <2> QED BY <2>1
<1>8. sums = [i \in 0 .. A |-> IF i = 0 THEN 0 ELSE sums[i - 1] + bit(i - 1)]
  BY <1>7, Zenon DEF sums
<1>9. BitOr(a, b) = sums[A] BY Zenon DEF BitOr, sums
<1> HIDE DEF sums, bit
<1>10. sums[0] = 0 /\ \A i \in 1 .. A : sums[i] = sums[i - 1] + OrBit(a, b, i - 1)
  <2>1. 0 \in 0 .. A /\ \A i \in 1 .. A : i \in 0 .. A /\ i # 0 BY <1>1
  <2> QED BY <1>2, <1>8, <2>1
<1> DEFINE S == {i \in 0 .. A : sums[i] # t[i]}
<1>11. S = {}
  <2> SUFFICES ASSUME S # {} PROVE FALSE OBVIOUS
  <2>1. S \in SUBSET Nat BY <1>1
  <2>2. PICK l \in S : \A m \in S : l <= m
    <3> HIDE DEF S
    <3> QED BY <2>1, LeastOf
  <2>3. l \in 1 .. A /\ l - 1 \in 0 .. A /\ l - 1 < l BY <1>1, <1>6, <1>10, <2>2
  <2>4. sums[l - 1] = t[l - 1] BY <2>2, <2>3
  <2>5. sums[l] = t[l] BY <1>6, <1>10, <2>3, <2>4, Zenon
  <2> QED BY <2>2, <2>5
<1>12. A \in 0 .. A BY <1>1
<1>13. BitOr(a, b) = t[A] BY <1>9, <1>11, <1>12
<1>14. OrSum(t, a, b)
  <2>1. ASSUME NEW i \in 0 .. A - 1 PROVE t[i + 1] = t[i] + OrBit(a, b, i)
    <3>1. PICK j \in 1 .. A : j = i + 1 BY <1>1
    <3>2. t[j] = t[j - 1] + OrBit(a, b, j - 1) BY <1>6
    <3>3. j - 1 = i BY <1>1, <3>1
    <3> QED BY <3>1, <3>2, <3>3, Zenon
  <2> QED BY <1>6, <2>1 DEF OrSum
<1> QED BY <1>13, <1>14

\* A sum is below the power it has come to, and what is added later is beyond it.
LEMMA OrSumParts ==
  ASSUME NEW a, NEW b, NEW t, OrSum(t, a, b), NEW k \in 0 .. AddressBits
  PROVE  /\ t[k] \in 0 .. PowerOf(k) - 1
         /\ \A j \in k .. AddressBits : \E q \in Nat : t[j] = PowerOf(k) * q + t[k]
<1> DEFINE A == AddressBits
<1>1. A \in Nat BY AddressPowersAre
<1>2. /\ PowerOf(0) = 1 /\ \A n \in 0 .. A : PowerOf(n) \in Nat /\ PowerOf(n) > 0
      /\ \A n \in 0 .. A - 1 : PowerOf(n + 1) = 2 * PowerOf(n)
  BY AddressPowersAre
<1>3. t[0] = 0 /\ (\A i \in 0 .. A : t[i] \in Nat)
      /\ \A i \in 0 .. A - 1 : t[i + 1] = t[i] + OrBit(a, b, i)
  BY DEF OrSum
<1>4. \A i : OrBit(a, b, i) \in {0, PowerOf(i)} BY DEF OrBit
<1>5. t[k] < PowerOf(k)
  <2> DEFINE S == {i \in 0 .. A : t[i] >= PowerOf(i)}
  <2>1. S = {}
    <3> SUFFICES ASSUME S # {} PROVE FALSE OBVIOUS
    <3>1. S \in SUBSET Nat BY <1>1
    <3>2. PICK l \in S : \A m \in S : l <= m
      <4> HIDE DEF S
      <4> QED BY <3>1, LeastOf
    <3>3. l # 0 BY <1>2, <1>3, <3>2
    <3>4. PICK n \in 0 .. A - 1 : l = n + 1 /\ n \in 0 .. A
      <4>1. l - 1 \in 0 .. A - 1 /\ l = (l - 1) + 1 /\ l - 1 \in 0 .. A BY <1>1, <3>2, <3>3
      <4> QED BY <4>1
    <3>5. n \notin S BY <1>1, <3>2, <3>4
    <3>6. t[n] < PowerOf(n) /\ t[n] \in Nat /\ PowerOf(n) \in Nat BY <1>2, <1>3, <3>4, <3>5
    <3>7. t[l] = t[n] + OrBit(a, b, n) /\ PowerOf(l) = 2 * PowerOf(n) BY <1>2, <1>3, <3>4
    <3>8. OrBit(a, b, n) = 0 \/ OrBit(a, b, n) = PowerOf(n) BY <1>4
    <3>9. t[l] < PowerOf(l) BY <3>6, <3>7, <3>8
    <3>10. t[l] >= PowerOf(l) BY <3>2
    <3>11. t[l] \in Nat /\ PowerOf(l) \in Nat BY <1>2, <1>3, <3>2
    <3> QED BY <3>9, <3>10, <3>11
  <2>2. t[k] \in Nat /\ PowerOf(k) \in Nat BY <1>2, <1>3
  <2> QED BY <2>1, <2>2
<1>6. ASSUME NEW j \in k .. A PROVE \E q \in Nat : t[j] = PowerOf(k) * q + t[k]
  <2> DEFINE S == {i \in k .. A : ~\E q \in Nat : t[i] = PowerOf(k) * q + t[k]}
  <2>1. S = {}
    <3> SUFFICES ASSUME S # {} PROVE FALSE OBVIOUS
    <3>1. S \in SUBSET Nat BY <1>1
    <3>2. PICK l \in S : \A m \in S : l <= m
      <4> HIDE DEF S
      <4> QED BY <3>1, LeastOf
    <3>3. PICK p \in Nat : p = PowerOf(k) BY <1>2
    <3>4. t[k] \in Nat /\ t[k] = p * 0 + t[k] BY <1>3
    <3>5. l # k BY <3>2, <3>3, <3>4
    <3>6. PICK n \in k .. A : l = n + 1 /\ n \in 0 .. A - 1
      <4>1. l - 1 \in k .. A /\ l = (l - 1) + 1 /\ l - 1 \in 0 .. A - 1 BY <1>1, <3>2, <3>5
      <4> QED BY <4>1
    <3>7. n \notin S BY <1>1, <3>2, <3>6
    <3>8. PICK q \in Nat : t[n] = p * q + t[k] BY <3>3, <3>6, <3>7
    <3>9. t[l] = t[n] + OrBit(a, b, n) BY <1>3, <3>6
    <3>10. PICK r \in Nat : OrBit(a, b, n) = p * r
      <4>1. OrBit(a, b, n) = 0 \/ OrBit(a, b, n) = PowerOf(n) BY <1>4
      <4>2. PowerOf(n) = PowerOf(k) * PowerOf(n - k) /\ PowerOf(n - k) \in Nat
        <5>1. k \in Nat /\ n \in Nat /\ k <= n /\ n <= A BY <1>1, <3>6
        <5> QED BY <5>1, PowersRise
      <4>3. p * 0 = 0 OBVIOUS
      <4> QED BY <3>3, <4>1, <4>2, <4>3
    <3>11. p * (q + r) = p * q + p * r /\ p * q \in Nat /\ p * r \in Nat /\ q + r \in Nat OBVIOUS
    <3>12. t[l] = p * (q + r) + t[k] BY <3>4, <3>8, <3>9, <3>10, <3>11
    <3> QED BY <3>2, <3>3, <3>11, <3>12
  <2> QED BY <2>1
<1> QED BY <1>2, <1>3, <1>5, <1>6

\* What the bits of a number from a position on are, when it is a multiple, short
\* or among the last numbers of all.
LEMMA BitsFrom ==
  ASSUME NEW a \in Nat, NEW k \in 0 .. AddressBits
  PROVE  /\ a % PowerOf(k) = 0 => \A i \in 0 .. k - 1 : ~BitAt(a, i)
         /\ a < PowerOf(k) => \A i \in k .. AddressBits - 1 : ~BitAt(a, i)
         /\ PowerOf(AddressBits) - PowerOf(k) <= a /\ a < PowerOf(AddressBits) =>
              \A i \in k .. AddressBits - 1 : BitAt(a, i)
<1> DEFINE A == AddressBits
<1>1. A \in Nat /\ k \in Nat /\ k <= A BY AddressPowersAre
<1>2. \A n \in 0 .. A : PowerOf(n) \in Nat /\ PowerOf(n) > 0 BY AddressPowersAre
<1>3. ASSUME NEW i \in 0 .. A - 1, NEW j \in Nat, i < j, j <= A
      PROVE  \E h \in Nat : h > 0 /\ PowerOf(j) = PowerOf(i) * (2 * h)
  <2>1. PICK n \in 0 .. A - 1 : j - i = n + 1
    <3>1. (j - i) - 1 \in 0 .. A - 1 /\ j - i = ((j - i) - 1) + 1 BY <1>1, <1>3
    <3> QED BY <3>1
  <2>2. PowerOf(j) = PowerOf(i) * PowerOf(j - i) BY <1>1, <1>3, PowersRise
  <2>3. PowerOf(n + 1) = 2 * PowerOf(n) BY AddressPowersAre
  <2>4. PowerOf(n) \in Nat /\ PowerOf(n) > 0 BY <1>1, <1>2
  <2> QED BY <2>1, <2>2, <2>3, <2>4
<1>4. ASSUME a % PowerOf(k) = 0, NEW i \in 0 .. k - 1 PROVE ~BitAt(a, i)
  <2>1. PICK q \in Int : a = PowerOf(k) * q
    <3>1. PICK p \in Nat : p = PowerOf(k) /\ p > 0 BY <1>2
    <3>5. a \in Int /\ p > 0 BY <3>1
    <3>2. a = p * (a \div p) + (a % p) /\ a \div p \in Int BY <3>5, Quotient
    <3>3. a % p = 0 BY <1>4, <3>1
    <3>4. a = p * (a \div p) BY <3>1, <3>2, <3>3
    <3> QED BY <3>1, <3>2, <3>4
  <2>2. PICK h \in Nat : PowerOf(k) = PowerOf(i) * (2 * h)
    <3>1. i \in 0 .. A - 1 /\ i < k BY <1>1
    <3> QED BY <1>1, <1>3, <3>1
  <2>3. PICK p \in Nat : p = PowerOf(i) /\ p > 0
    <3>1. i \in 0 .. A BY <1>1
    <3> QED BY <1>2, <3>1
  <2>4. PICK u \in Int : u = h * q OBVIOUS
  <2>5. a = p * (2 * u) + 0
    <3>1. a = (p * (2 * h)) * q BY <2>1, <2>2, <2>3
    <3>2. (p * (2 * h)) * q = p * (2 * (h * q)) OBVIOUS
    <3> QED BY <2>4, <3>1, <3>2
  <2>6. a \div p = 2 * u
    <3>1. 0 \in 0 .. p - 1 /\ 2 * u \in Int BY <2>3
    <3> QED BY <2>3, <2>5, <3>1, Remainder
  <2>7. (2 * u) % 2 = 0 OBVIOUS
  <2> QED BY <2>3, <2>6, <2>7 DEF BitAt
<1>5. ASSUME a < PowerOf(k), NEW i \in k .. A - 1 PROVE ~BitAt(a, i)
  <2>1. PowerOf(k) <= PowerOf(i)
    <3>1. k <= i /\ i <= A /\ i \in Nat BY <1>1
    <3> QED BY <1>1, <3>1, PowersRise
  <2>2. PICK p \in Nat : p = PowerOf(i) /\ p > 0
    <3>1. i \in 0 .. A BY <1>1
    <3> QED BY <1>2, <3>1
  <2>3. a \in 0 .. p - 1 /\ a = p * 0 + a BY <1>2, <1>5, <2>1, <2>2
  <2>4. a \div p = 0 BY <2>2, <2>3, Remainder
  <2>5. 0 % 2 = 0 OBVIOUS
  <2> QED BY <2>2, <2>4, <2>5 DEF BitAt
<1>6. ASSUME PowerOf(A) - PowerOf(k) <= a, a < PowerOf(A), NEW i \in k .. A - 1 PROVE BitAt(a, i)
  <2>1. PowerOf(k) <= PowerOf(i)
    <3>1. k <= i /\ i <= A /\ i \in Nat BY <1>1
    <3> QED BY <1>1, <3>1, PowersRise
  <2>2. PICK p \in Nat : p = PowerOf(i) /\ p > 0
    <3>1. i \in 0 .. A BY <1>1
    <3> QED BY <1>2, <3>1
  <2>3. PICK h \in Nat : h > 0 /\ PowerOf(A) = p * (2 * h)
    <3>1. i \in 0 .. A - 1 /\ i < A BY <1>1
    <3> QED BY <1>1, <1>3, <2>2, <3>1
  <2>4. A \in 0 .. A BY <1>1
  <2>5. PICK c \in 1 .. p : a = PowerOf(A) - c
    <3>1. PowerOf(A) \in Nat /\ PowerOf(k) \in Nat BY <1>2, <2>4
    <3>2. PowerOf(A) - a \in 1 .. p /\ a = PowerOf(A) - (PowerOf(A) - a) BY <1>6, <2>1, <2>2, <3>1
    <3> QED BY <3>2
  <2>6. a = p * (2 * h - 1) + (p - c)
    <3>1. p * (2 * h) = p * (2 * h - 1) + p OBVIOUS
    <3>2. PowerOf(A) \in Nat /\ p * (2 * h - 1) \in Int BY <1>2, <2>4
    <3> QED BY <2>3, <2>5, <3>1, <3>2
  <2>7. a \div p = 2 * h - 1
    <3>1. PICK r \in 0 .. p - 1, d \in Int : r = p - c /\ d = 2 * h - 1 BY <2>2
    <3>2. a = p * d + r BY <2>6, <3>1, Zenon
    <3>3. a \in Int /\ p > 0 BY <2>2
    <3>4. a \div p = d BY <3>2, <3>3, Remainder
    <3> QED BY <3>1, <3>4
  <2>8. (2 * h - 1) % 2 = 1 OBVIOUS
  <2> QED BY <2>2, <2>7, <2>8 DEF BitAt
<1> QED BY <1>4, <1>5, <1>6

\* The low bits of b add nothing when there are none.
LEMMA OrSumLow ==
  ASSUME NEW a \in Nat, NEW b \in Nat, NEW t, OrSum(t, a, b), NEW k \in 0 .. AddressBits,
         b % PowerOf(k) = 0
  PROVE  t[k] = a % PowerOf(k)
<1> DEFINE A == AddressBits
           S == {i \in 0 .. k : t[i] # a % PowerOf(i)}
<1>1. A \in Nat BY AddressPowersAre
<1>2. /\ PowerOf(0) = 1 /\ \A n \in 0 .. A : PowerOf(n) \in Nat /\ PowerOf(n) > 0
      /\ \A n \in 0 .. A - 1 : PowerOf(n + 1) = 2 * PowerOf(n)
  BY AddressPowersAre
<1>3. t[0] = 0 /\ \A i \in 0 .. A - 1 : t[i + 1] = t[i] + OrBit(a, b, i) BY DEF OrSum
<1>4. \A i \in 0 .. k - 1 : ~BitAt(b, i) BY BitsFrom
<1>5. S = {}
  <2> SUFFICES ASSUME S # {} PROVE FALSE OBVIOUS
  <2>1. S \in SUBSET Nat OBVIOUS
  <2>2. PICK l \in S : \A m \in S : l <= m
    <3> HIDE DEF S
    <3> QED BY <2>1, LeastOf
  <2>3. l # 0
    <3>1. a % 1 = 0 OBVIOUS
    <3> QED BY <1>2, <1>3, <2>2, <3>1
  <2>4. PICK n \in 0 .. k - 1 : l = n + 1 /\ n \in 0 .. A - 1 /\ n \in 0 .. A
    <3>1. l - 1 \in 0 .. k - 1 /\ l = (l - 1) + 1 /\ l - 1 \in 0 .. A - 1 /\ l - 1 \in 0 .. A
      BY <1>1, <2>2, <2>3
    <3> QED BY <3>1
  <2>5. n \notin S BY <1>1, <2>2, <2>4
  <2>6. PICK p \in Nat : p = PowerOf(n) /\ p > 0 BY <1>2, <2>4
  <2>7. t[n] = a % p BY <2>4, <2>5, <2>6
  <2>8. t[l] = (a % p) + (IF (a \div p) % 2 = 1 THEN p ELSE 0)
    <3>1. t[l] = t[n] + OrBit(a, b, n) BY <1>3, <2>4
    <3>2. OrBit(a, b, n) = IF (a \div p) % 2 = 1 THEN p ELSE 0
      BY <1>4, <2>4, <2>6, Zenon DEF OrBit, BitAt
    <3> QED BY <2>7, <3>1, <3>2
  <2>9. PICK q \in Int, r \in 0 .. p - 1 : a = p * q + r /\ q = a \div p /\ r = a % p
    <3>1. a \in Int /\ p > 0 BY <2>6
    <3>2. a = p * (a \div p) + (a % p) /\ a % p \in 0 .. p - 1 /\ a \div p \in Int
      BY <3>1, Quotient
    <3> QED BY <3>2, Zenon
  <2>10. PICK h \in Int, e \in 0 .. 1 : q = 2 * h + e /\ e = q % 2
    <3>1. q = 2 * (q \div 2) + (q % 2) /\ q % 2 \in 0 .. 1 /\ q \div 2 \in Int OBVIOUS
    <3> QED BY <3>1
  <2>11. a = (2 * p) * h + (p * e + r) /\ p * e + r \in 0 .. 2 * p - 1
    <3>1. p * (2 * h + e) = (2 * p) * h + p * e OBVIOUS
    <3>2. e = 0 \/ e = 1 OBVIOUS
    <3>3. p * 0 = 0 /\ p * 1 = p OBVIOUS
    <3>4. p * e + r \in 0 .. 2 * p - 1 BY <3>2, <3>3
    <3>5. (2 * p) * h \in Int /\ p * e \in Int OBVIOUS
    <3>6. a = ((2 * p) * h + p * e) + r BY <2>9, <2>10, <3>1, Zenon
    <3>7. a = (2 * p) * h + (p * e + r) BY <3>5, <3>6
    <3> QED BY <3>4, <3>7
  <2>12. a % (2 * p) = p * e + r
    <3>1. PICK v \in 0 .. 2 * p - 1, d \in Nat : v = p * e + r /\ d = 2 * p BY <2>11
    <3>2. d > 0 /\ v \in 0 .. d - 1 /\ a = d * h + v BY <2>6, <2>11, <3>1
    <3>3. a % d = v BY <3>2, Remainder
    <3> QED BY <3>1, <3>3
  <2>13. t[l] = r + (IF e = 1 THEN p ELSE 0) BY <2>8, <2>9, <2>10, Zenon
  <2>14. t[l] = p * e + r
    <3>1. e = 0 \/ e = 1 OBVIOUS
    <3>2. p * 0 = 0 /\ p * 1 = p OBVIOUS
    <3> QED BY <2>13, <3>1, <3>2
  <2>15. PowerOf(l) = 2 * p BY <1>2, <2>4, <2>6
  <2> QED BY <2>2, <2>12, <2>14, <2>15
<1>6. k \in 0 .. k OBVIOUS
<1> QED BY <1>5, <1>6

\* Where all bits from k on are clear, and where all are set.
LEMMA OrSumHigh ==
  ASSUME NEW a, NEW b, NEW t, OrSum(t, a, b), NEW k \in 0 .. AddressBits
  PROVE  /\ (\A i \in k .. AddressBits - 1 : ~BitAt(a, i) /\ ~BitAt(b, i)) =>
              t[AddressBits] = t[k]
         /\ (\A i \in k .. AddressBits - 1 : BitAt(a, i) \/ BitAt(b, i)) =>
              t[AddressBits] = t[k] + PowerOf(AddressBits) - PowerOf(k)
<1> DEFINE A == AddressBits
<1>1. A \in Nat BY AddressPowersAre
<1>2. /\ \A n \in 0 .. A : PowerOf(n) \in Nat
      /\ \A n \in 0 .. A - 1 : PowerOf(n + 1) = 2 * PowerOf(n)
  BY AddressPowersAre
<1>3. (\A i \in 0 .. A : t[i] \in Nat) /\ \A i \in 0 .. A - 1 : t[i + 1] = t[i] + OrBit(a, b, i)
  BY DEF OrSum
<1>4. ASSUME NEW D, D \in SUBSET (k .. A), k \in D,
             \A n \in k .. A - 1 : n \in D => n + 1 \in D
      PROVE  A \in D
  <2> DEFINE S == (k .. A) \ D
  <2>1. S = {}
    <3> SUFFICES ASSUME S # {} PROVE FALSE OBVIOUS
    <3>1. S \in SUBSET Nat BY <1>1
    <3>2. PICK l \in S : \A m \in S : l <= m
      <4> HIDE DEF S
      <4> QED BY <3>1, LeastOf
    <3>3. PICK n \in k .. A - 1 : l = n + 1
      <4>1. l - 1 \in k .. A - 1 /\ l = (l - 1) + 1 BY <1>1, <1>4, <3>2
      <4> QED BY <4>1
    <3>4. n \notin S BY <1>1, <3>2, <3>3
    <3>5. n \in k .. A BY <1>1, <3>3
    <3> QED BY <1>4, <3>2, <3>3, <3>4, <3>5
  <2>2. A \in k .. A BY <1>1
  <2> QED BY <2>1, <2>2
<1>5. ASSUME \A i \in k .. A - 1 : ~BitAt(a, i) /\ ~BitAt(b, i) PROVE t[A] = t[k]
  <2> DEFINE D == {i \in k .. A : t[i] = t[k]}
  <2>1. k \in D BY <1>1
  <2>2. ASSUME NEW n \in k .. A - 1, n \in D PROVE n + 1 \in D
    <3>1. n + 1 \in k .. A /\ n \in 0 .. A - 1 /\ n \in 0 .. A BY <1>1
    <3>2. OrBit(a, b, n) = 0 BY <1>5 DEF OrBit
    <3>3. t[n + 1] = t[n] + 0 /\ t[n] \in Nat BY <1>3, <3>1, <3>2
    <3> QED BY <2>2, <3>1, <3>3
  <2>3. D \in SUBSET (k .. A) OBVIOUS
  <2> HIDE DEF D
  <2>4. A \in D BY <1>4, <2>1, <2>2, <2>3
  <2> QED BY <2>4 DEF D
<1>6. ASSUME \A i \in k .. A - 1 : BitAt(a, i) \/ BitAt(b, i)
      PROVE  t[A] = t[k] + PowerOf(A) - PowerOf(k)
  <2> DEFINE D == {i \in k .. A : t[i] = t[k] + PowerOf(i) - PowerOf(k)}
  <2>1. k \in D BY <1>1, <1>2, <1>3
  <2>2. ASSUME NEW n \in k .. A - 1, n \in D PROVE n + 1 \in D
    <3>1. n + 1 \in k .. A /\ n \in 0 .. A - 1 /\ n \in 0 .. A BY <1>1
    <3>2. OrBit(a, b, n) = PowerOf(n) BY <1>6 DEF OrBit
    <3>3. t[n + 1] = t[n] + PowerOf(n) /\ t[n] \in Nat /\ t[k] \in Nat BY <1>3, <3>1, <3>2
    <3>4. PowerOf(n + 1) = 2 * PowerOf(n) /\ PowerOf(n) \in Nat /\ PowerOf(k) \in Nat
      BY <1>2, <3>1
    <3>5. t[n] = t[k] + PowerOf(n) - PowerOf(k) BY <2>2
    <3>6. t[n + 1] = t[k] + PowerOf(n + 1) - PowerOf(k) BY <3>3, <3>4, <3>5
    <3> QED BY <3>1, <3>6
  <2>3. D \in SUBSET (k .. A) OBVIOUS
  <2> HIDE DEF D
  <2>4. A \in D BY <1>4, <2>1, <2>2, <2>3
  <2> QED BY <2>4 DEF D
<1> QED BY <1>5, <1>6

LEMMA MultipleOf ==
  ASSUME NEW p \in Nat, p > 0, NEW u \in Int, NEW x \in Int, x = p * u
  PROVE  x % p = 0
<1>1. 0 \in 0 .. p - 1 /\ x = p * u + 0 OBVIOUS
<1> QED BY <1>1, Remainder

LEMMA OneBelow ==
  ASSUME NEW m \in Nat, NEW v \in 0 .. m - 1, NEW y \in Int, y = v - m
  PROVE  y % m = v
<1>1. PICK k \in Int : k = -1 OBVIOUS
<1>2. m > 0 /\ y = m * k + v BY <1>1
<1> QED BY <1>2, Remainder

\* e is t shifted by a power p in a signed word, as a wider word: i is the limit
\* of the word, i1 of its positive numbers, m that of the wider one.
Extends(e, t, p, i, i1, m) ==
  \E n \in Int : n = (t * p) % i /\ e = IF n < i1 THEN n ELSE (n - i) % m

\* The limits of the words: h that of what is below the type.
WordsFit(p, g, i, i1, m, h, c) ==
  p > 0 /\ i > 0 /\ i = p * g /\ i <= h /\ i1 <= h /\ h <= m /\ m = p * c

LEMMA ExtendArith ==
  ASSUME NEW t \in Nat, NEW p \in Nat, NEW g \in Nat, NEW i \in Nat, NEW i1 \in Nat, NEW m \in Nat,
         NEW h \in Nat, NEW c \in Nat,
         WordsFit(p, g, i, i1, m, h, c),
         NEW e, Extends(e, t, p, i, i1, m)
  PROVE  e \in Nat /\ e % p = 0 /\ (e < h \/ (m - h <= e /\ e < m))
<1> USE DEF WordsFit
<1>7. PICK n \in Int : n = (t * p) % i /\ e = IF n < i1 THEN n ELSE (n - i) % m BY DEF Extends
<1>1. PICK q \in Int : n = t * p - q * i /\ n \in 0 .. i - 1
  <2>1. PICK z \in Int : z = t * p OBVIOUS
  <2>2. z = i * (z \div i) + (z % i) /\ z % i \in 0 .. i - 1 /\ z \div i \in Int BY Quotient
  <2>3. PICK q \in Int : q = z \div i BY <2>2
  <2>4. n = z % i BY <1>7, <2>1
  <2>5. z = i * q + n /\ n \in 0 .. i - 1 BY <2>2, <2>3, <2>4, Zenon
  <2>6. i * q = q * i /\ q * i \in Int OBVIOUS
  <2> QED BY <2>1, <2>5, <2>6
<1>2. PICK u \in Int : u = t - q * g OBVIOUS
<1>3. n = p * u
  <2>1. p * (t - q * g) = t * p - q * (p * g) OBVIOUS
  <2> QED BY <1>1, <1>2, <2>1
<1>5. CASE n < i1
  <2>1. e = p * u /\ e = n BY <1>3, <1>5, <1>7, Zenon
  <2>2. e \in Int BY <1>1, <2>1
  <2>3. e % p = 0 BY <2>1, <2>2, MultipleOf
  <2> QED BY <1>1, <1>5, <2>1, <2>3
<1>6. CASE ~(n < i1)
  <2>1. PICK v \in 0 .. m - 1 : v = n - i + m /\ m - h <= v BY <1>1
  <2>2. e = v
    <3>1. PICK y \in Int : y = n - i BY <1>1
    <3>3. y = v - m BY <1>1, <2>1, <3>1
    <3>4. y % m = v BY <3>3, OneBelow
    <3>5. e = y % m BY <1>6, <1>7, <3>1, Zenon
    <3> QED BY <3>4, <3>5
  <2>3. PICK d \in Int : d = u - g + c OBVIOUS
  <2>4. v = p * d
    <3>1. p * (u - g + c) = p * u - p * g + p * c OBVIOUS
    <3> QED BY <1>3, <2>1, <2>3, <3>1
  <2>5. v % p = 0
    <3>1. v \in Int OBVIOUS
    <3> QED BY <2>4, <3>1, MultipleOf
  <2> QED BY <2>1, <2>2, <2>5
<1> QED BY <1>5, <1>6

LEMMA AddressShape ==
  /\ AddressBits \in Nat /\ IntWidth \in Nat /\ TypeShift \in Nat /\ TypeBits \in Nat
  /\ PageShift \in Nat /\ FrameBits \in Nat
  /\ TypeBits > 0 /\ TypeBits < IntWidth /\ TypeShift = IntWidth + TypeBits
  /\ AddressBits = TypeShift + TypeBits /\ PageShift + FrameBits < AddressBits
<1> DEFINE B == TypeBits
<1>1. AddressBits \in Nat /\ IntWidth \in Nat /\ TypeShift \in Nat /\ PageShift \in Nat
      /\ FrameBits \in Nat
  BY AddressAssumption
<1>2. PageShift < B /\ B < IntWidth /\ TypeShift = IntWidth + B /\ PageShift + FrameBits < AddressBits
  BY AddressAssumption
<1>3. B = AddressBits - TypeShift BY Zenon DEF TypeBits
<1> HIDE DEF B
<1>4. B \in Nat /\ B > 0 /\ AddressBits = TypeShift + B BY <1>1, <1>2, <1>3
<1> QED BY <1>1, <1>2, <1>4 DEF B

LEMMA WordsAre ==
  WordsFit(PowerOf(TypeBits), PowerOf(IntWidth - TypeBits), PowerOf(IntWidth),
      PowerOf(IntWidth - 1),
           PowerOf(AddressBits), PowerOf(TypeShift), PowerOf(AddressBits - TypeBits))
  /\ PowerOf(TypeBits) \in Nat /\ PowerOf(IntWidth - TypeBits) \in Nat /\ PowerOf(IntWidth) \in Nat
  /\ PowerOf(IntWidth - 1) \in Nat /\ PowerOf(AddressBits) \in Nat /\ PowerOf(TypeShift) \in Nat
  /\ PowerOf(AddressBits - TypeBits) \in Nat
<1>5. /\ TypeBits <= IntWidth /\ IntWidth <= TypeShift /\ TypeShift <= AddressBits
      /\ IntWidth <= AddressBits /\ TypeBits <= AddressBits
      /\ IntWidth - 1 \in Nat /\ IntWidth - 1 <= TypeShift
  BY AddressShape
<1>15. /\ AddressBits \in Nat /\ IntWidth \in Nat /\ TypeShift \in Nat /\ TypeBits \in Nat
  BY AddressShape
<1>6. /\ PowerOf(IntWidth) = PowerOf(TypeBits) * PowerOf(IntWidth - TypeBits)
      /\ PowerOf(TypeBits) \in Nat /\ PowerOf(TypeBits) > 0 /\ PowerOf(IntWidth) \in Nat
      /\ PowerOf(IntWidth - TypeBits) \in Nat
  BY <1>5, <1>15, PowersRise
<1>7. PowerOf(IntWidth) <= PowerOf(TypeShift) /\ PowerOf(IntWidth) > 0
  BY <1>5, <1>15, PowersRise
<1>8. PowerOf(IntWidth - 1) <= PowerOf(TypeShift) /\ PowerOf(IntWidth - 1) \in Nat
  BY <1>5, <1>15, PowersRise
<1>9. PowerOf(TypeShift) <= PowerOf(AddressBits) /\ PowerOf(TypeShift) \in Nat
      /\ PowerOf(AddressBits) \in Nat
  <2>1. PICK i \in Nat, j \in Nat : i = TypeShift /\ j = AddressBits BY <1>15
  <2>2. i <= j /\ j <= AddressBits BY <1>5, <2>1
  <2>3. PowerOf(i) <= PowerOf(j) /\ PowerOf(i) \in Nat /\ PowerOf(j) \in Nat BY <2>2, PowersRise
  <2> QED BY <2>1, <2>3
<1>10. PowerOf(AddressBits) = PowerOf(TypeBits) * PowerOf(AddressBits - TypeBits)
       /\ PowerOf(AddressBits - TypeBits) \in Nat
  BY <1>5, <1>15, PowersRise
<1> QED BY <1>6, <1>7, <1>8, <1>9, <1>10, Zenon DEF WordsFit

LEMMA ExtendFits ==
  ASSUME NEW t \in Nat, NEW e,
         Extends(e, t, PowerOf(TypeBits), PowerOf(IntWidth), PowerOf(IntWidth - 1),
             PowerOf(AddressBits))
  PROVE  /\ e \in Nat /\ e % PowerOf(TypeBits) = 0
         /\ e < PowerOf(TypeShift)
              \/ (PowerOf(AddressBits) - PowerOf(TypeShift) <= e /\ e < PowerOf(AddressBits))
<1> QED BY WordsAre, ExtendArith, Zenon

\* What a handle is joined with: its low bits are clear, and it is short or among
\* the last numbers of all.
LEMMA ExtendedIs ==
  ASSUME NEW t \in Nat,
         NEW e, e = SignExtended((t * 2^(TypeShift % IntWidth)) % 2^IntWidth)
  PROVE  /\ e \in Nat /\ e % PowerOf(TypeBits) = 0
         /\ e < PowerOf(TypeShift)
              \/ (PowerOf(AddressBits) - PowerOf(TypeShift) <= e /\ e < PowerOf(AddressBits))
<1>1. TypeShift % IntWidth = TypeBits
  <2>1. PICK b \in Nat, i \in Nat, h \in Nat :
          b = TypeBits /\ i = IntWidth /\ h = TypeShift /\ b < i /\ h = i + b BY AddressShape
  <2>2. b \in 0 .. i - 1 /\ h = i * 1 + b /\ i > 0 BY <2>1
  <2>3. h % i = b BY <2>2, Remainder
  <2> QED BY <2>1, <2>3
<1>2. PICK n : n = (t * PowerOf(TypeBits)) % PowerOf(IntWidth) OBVIOUS
<1>3. e = SignExtended(n) BY <1>1, <1>2, Zenon DEF PowerOf
<1>4. e = IF n < PowerOf(IntWidth - 1) THEN n ELSE (n - PowerOf(IntWidth)) % PowerOf(AddressBits)
  BY <1>3, Zenon DEF SignExtended, Wrapped, PowerOf
<1>5. n \in Int
  <2>1. PICK p \in Nat, i \in Nat : p = PowerOf(TypeBits) /\ i = PowerOf(IntWidth) /\ i > 0
    BY WordsAre DEF WordsFit
  <2>2. PICK z \in Int : z = t * p OBVIOUS
  <2>3. z % i \in Int BY <2>1
  <2> QED BY <1>2, <2>1, <2>2, <2>3
<1>6. Extends(e, t, PowerOf(TypeBits), PowerOf(IntWidth), PowerOf(IntWidth - 1),
    PowerOf(AddressBits))
  BY <1>2, <1>4, <1>5, Zenon DEF Extends
<1> QED BY <1>6, ExtendFits, Zenon

\* A number is told apart by its bits from 2^TypeShift on.
LEMMA TopTold ==
  ASSUME NEW x \in Nat
  PROVE  /\ x < PowerOf(TypeShift) => TypeOf(x) = 0
         /\ PowerOf(AddressBits) - PowerOf(TypeShift) <= x /\ x < PowerOf(AddressBits) =>
              TypeOf(x) = PowerOf(TypeBits) - 1
<1>1. TypeOf(x) = x \div PowerOf(TypeShift) BY Zenon DEF TypeOf, PowerOf
<1>2. TypeShift <= AddressBits /\ AddressBits - TypeShift = TypeBits BY AddressShape
<1>3. PICK h \in Nat, b \in Nat, m \in Nat :
        /\ h = PowerOf(TypeShift) /\ h > 0 /\ b = PowerOf(TypeBits) /\ b > 0
        /\ m = PowerOf(AddressBits) /\ m = h * b
  <2>1. /\ PowerOf(AddressBits) = PowerOf(TypeShift) * PowerOf(AddressBits - TypeShift)
        /\ PowerOf(TypeShift) \in Nat /\ PowerOf(TypeShift) > 0
        /\ PowerOf(AddressBits) \in Nat
        /\ PowerOf(AddressBits - TypeShift) \in Nat /\ PowerOf(AddressBits - TypeShift) > 0
    BY <1>2, AddressShape, PowersRise
  <2> QED BY <1>2, <2>1
<1>4. ASSUME x < h PROVE x \div h = 0
  <2>1. x \in 0 .. h - 1 /\ x = h * 0 + x BY <1>4
  <2> QED BY <1>3, <2>1, Remainder
<1>5. ASSUME m - h <= x, x < m PROVE x \div h = b - 1
  <2>1. PICK r \in 0 .. h - 1 : x = (m - h) + r
    <3>1. x - (m - h) \in 0 .. h - 1 /\ x = (m - h) + (x - (m - h)) BY <1>5
    <3> QED BY <3>1
  <2>2. PICK d \in Int : d = b - 1 OBVIOUS
  <2>3. h * d = m - h
    <3>1. h * (b - 1) = h * b - h OBVIOUS
    <3> QED BY <1>3, <2>2, <3>1
  <2>4. x = h * d + r BY <2>1, <2>3
  <2>5. x \in Int /\ h > 0 BY <1>3
  <2>6. x \div h = d BY <2>4, <2>5, Remainder
  <2> QED BY <2>2, <2>6
<1> QED BY <1>1, <1>3, <1>4, <1>5

\* Where the addresses are: in the lower part, or among the last of all.
LEMMA AddressPlaces ==
  ASSUME NEW a \in 0 .. PowerOf(AddressBits) - 1
  PROVE  /\ IsUser(a) => a < PowerOf(TypeShift)
         /\ IsKernel(a) => PowerOf(AddressBits) - PowerOf(TypeShift) <= a
<1>1. /\ AddressBits \in Nat /\ TypeShift \in Nat /\ TypeShift <= AddressBits
      /\ TypeShift - 1 \in Nat /\ TypeShift - 1 <= TypeShift
  BY AddressShape
<1>2. PICK m \in Nat, h \in Nat, l \in Nat :
        m = PowerOf(AddressBits) /\ h = PowerOf(TypeShift) /\ l = PowerOf(TypeShift - 1) /\ l <= h
  <2>1. PowerOf(TypeShift - 1) <= PowerOf(TypeShift) /\ PowerOf(TypeShift - 1) \in Nat
        /\ PowerOf(TypeShift) \in Nat
    BY <1>1, PowersRise
  <2>2. PowerOf(AddressBits) \in Nat
    <3>1. AddressBits \in 0 .. AddressBits BY <1>1
    <3> QED BY <3>1, AddressPowersAre
  <2> QED BY <2>1, <2>2
<1>3. UserEnd \in Nat /\ KernelBase \in Nat BY AddressAssumption
<1>4. UserEnd < PowerOf(TypeShift - 1) BY AddressAssumption, Zenon DEF PowerOf
<1>5. ASSUME IsUser(a) PROVE a < h
  <2>1. a <= UserEnd BY <1>5 DEF IsUser
  <2> QED BY <1>2, <1>3, <1>4, <2>1
<1>6. PICK k \in 1 .. TypeShift - 1 : KernelBase = PowerOf(AddressBits) - PowerOf(k)
  BY AddressAssumption, Zenon DEF PowerOf
<1>7. PowerOf(k) <= PowerOf(TypeShift) /\ PowerOf(k) \in Nat
  <2>1. k \in Nat /\ k <= TypeShift BY <1>1
  <2> QED BY <1>1, <2>1, PowersRise
<1>8. ASSUME IsKernel(a) PROVE m - h <= a
  <2>1. a >= KernelBase BY <1>8 DEF IsKernel
  <2> QED BY <1>2, <1>3, <1>6, <1>7, <2>1
<1> QED BY <1>2, <1>5, <1>8

\* h is a handle of the address a in a word of the limit m: its low bits are
\* those of a, below b, and it is short, below s, or among the last s of all.
FrameJoined(h, a, b, s, m) ==
  /\ h % b = a % b
  /\ h < s \/ (m - s <= h /\ h < m)
  /\ m - s <= a => m - s <= h /\ h < m

LEMMA HandleJoined ==
  ASSUME NEW a \in 0 .. PowerOf(AddressBits) - 1, IsAddress(a),
         NEW t \in Nat, NEW h \in ToHandle(a, t)
  PROVE  h \in Nat
         /\ FrameJoined(h, a, PowerOf(TypeBits), PowerOf(TypeShift), PowerOf(AddressBits))
<1>1. /\ AddressBits \in Nat /\ TypeShift \in 0 .. AddressBits /\ TypeBits \in 0 .. AddressBits
      /\ AddressBits \in 0 .. AddressBits
  BY AddressShape
<1>2. PICK m \in Nat, s \in Nat, b \in Nat :
        m = PowerOf(AddressBits) /\ s = PowerOf(TypeShift) /\ b = PowerOf(TypeBits) /\ b > 0
  BY <1>1, AddressPowersAre
<1>3. a < s \/ m - s <= a BY <1>2, AddressPlaces DEF IsAddress
<1>4. a \in Nat /\ a < m BY <1>2
<1>5. CASE h = a
  BY <1>2, <1>3, <1>4, <1>5 DEF FrameJoined
<1>6. CASE h # a
  <2>1. PICK e : e = SignExtended((t * 2^(TypeShift % IntWidth)) % 2^IntWidth) OBVIOUS
  <2>2. h = BitOr(a, e) BY <1>6, <2>1, Zenon DEF ToHandle
  <2>3. e \in Nat /\ e % b = 0 /\ (e < s \/ (m - s <= e /\ e < m))
    BY <1>2, <2>1, ExtendedIs, Zenon
  <2>4. PICK f : OrSum(f, a, e) /\ h = f[AddressBits] BY <2>2, OrSums, Zenon
  <2>5. f[TypeBits] = a % b BY <1>1, <1>2, <1>4, <2>3, <2>4, OrSumLow
  <2>6. h \in Nat /\ h % b = a % b
    <3>1. PICK q \in Nat : f[AddressBits] = PowerOf(TypeBits) * q + f[TypeBits]
      <4>1. AddressBits \in TypeBits .. AddressBits BY <1>1
      <4> QED BY <1>1, <2>4, <4>1, OrSumParts
    <3>2. a % b \in 0 .. b - 1 BY <1>2, <1>4, Quotient
    <3>3. PICK r \in 0 .. b - 1 : r = a % b BY <3>2
    <3>4. h = b * q + r BY <1>2, <2>4, <2>5, <3>1, <3>3, Zenon
    <3>5. h \in Nat
      <4>1. b * q \in Nat OBVIOUS
      <4> QED BY <3>4, <4>1
    <3>6. h % b = r BY <1>2, <3>4, <3>5, Remainder
    <3> QED BY <3>3, <3>5, <3>6
  <2>7. PICK l \in 0 .. s - 1 : l = f[TypeShift]
    <3>1. f[TypeShift] \in 0 .. PowerOf(TypeShift) - 1 BY <1>1, <2>4, OrSumParts
    <3> QED BY <1>2, <3>1
  <2>8. CASE a < s /\ e < s
    <3>1. \A i \in TypeShift .. AddressBits - 1 : ~BitAt(a, i) /\ ~BitAt(e, i)
      BY <1>1, <1>2, <1>4, <2>3, <2>8, BitsFrom
    <3>2. h = l BY <1>1, <2>4, <2>7, <3>1, OrSumHigh
    <3>3. s <= m /\ ~(m - s <= a)
      <4>1. PICK d \in Nat : d = TypeBits /\ d > 0 /\ d - 1 \in 0 .. AddressBits BY AddressShape
      <4>2. PowerOf(d) = 2 * PowerOf(d - 1) /\ PowerOf(d - 1) \in Nat /\ PowerOf(d - 1) > 0
        <5>1. d - 1 \in 0 .. AddressBits - 1 /\ (d - 1) + 1 = d BY <1>1, <4>1
        <5>2. \A i \in 0 .. AddressBits - 1 : PowerOf(i + 1) = 2 * PowerOf(i) BY AddressPowersAre
        <5>3. PICK i \in 0 .. AddressBits - 1 : i = d - 1 BY <5>1
        <5>4. PowerOf(i + 1) = 2 * PowerOf(i) BY <5>2
        <5>5. PowerOf(d) = 2 * PowerOf(d - 1) BY <5>1, <5>3, <5>4, Zenon
        <5> QED BY <4>1, <5>5, AddressPowersAre
      <4>3. m = s * b
        <5>1. AddressBits - TypeShift = TypeBits /\ TypeShift \in Nat /\ TypeShift <= AddressBits
          BY AddressShape
        <5>2. PowerOf(AddressBits) = PowerOf(TypeShift) * PowerOf(AddressBits - TypeShift)
          BY <1>1, <5>1, PowersRise
        <5> QED BY <1>2, <5>1, <5>2, Zenon
      <4>4. PICK c \in Nat : b = 2 + c
        <5>1. b - 2 \in Nat /\ b = 2 + (b - 2) BY <1>2, <4>1, <4>2
        <5> QED BY <5>1
      <4>5. m = s + s + s * c /\ s * c \in Nat BY <4>3, <4>4
      <4> QED BY <2>8, <4>5
    <3> QED BY <1>2, <2>6, <3>2, <3>3 DEF FrameJoined
  <2>9. CASE ~(a < s /\ e < s)
    <3>1. \A i \in TypeShift .. AddressBits - 1 : BitAt(a, i) \/ BitAt(e, i)
      BY <1>1, <1>2, <1>3, <1>4, <2>3, <2>9, BitsFrom
    <3>2. f[AddressBits] = f[TypeShift] + PowerOf(AddressBits) - PowerOf(TypeShift)
      BY <1>1, <2>4, <3>1, OrSumHigh
    <3>3. h = l + m - s BY <1>2, <2>4, <2>7, <3>2
    <3> QED BY <1>2, <2>6, <3>3 DEF FrameJoined
  <2> QED BY <2>8, <2>9
<1> QED BY <1>5, <1>6

LEMMA ClearsBack ==
  ASSUME NEW b \in Nat, b > 0, NEW a \in Nat, NEW h \in Nat, h % b = a % b
  PROVE  h - (h % b) = a <=> h = a /\ a % b = 0
<1>1. PICK r \in 0 .. b - 1, q \in Int : r = a % b /\ a = b * q + r
  <2>1. a = b * (a \div b) + (a % b) /\ a % b \in 0 .. b - 1 /\ a \div b \in Int BY Quotient
  <2> QED BY <2>1, Zenon
<1>2. PICK g \in Int : h = b * g + r
  <2>1. h = b * (h \div b) + (h % b) /\ h \div b \in Int BY Quotient
  <2> QED BY <1>1, <2>1
<1>3. ASSUME h - r = a PROVE r = 0
  <2>1. PICK d \in Int : d = g - q OBVIOUS
  <2>2. b * (g - q) = b * g - b * q OBVIOUS
  <2>3. b * d = r
    <3>1. PICK x \in Int, y \in Int : x = b * g /\ y = b * q OBVIOUS
    <3>2. h = x + r /\ a = y + r BY <1>1, <1>2, <3>1
    <3>3. x - y = r BY <1>3, <3>2
    <3>4. b * d = x - y BY <2>1, <2>2, <3>1
    <3> QED BY <3>3, <3>4
  <2>4. r \in Int /\ r = b * d + 0 /\ 0 \in 0 .. b - 1 BY <2>3
  <2>5. r % b = 0 BY <2>4, Remainder
  <2>6. r = b * 0 + r OBVIOUS
  <2>7. r % b = r BY <2>4, <2>6, Remainder
  <2> QED BY <2>5, <2>7
<1> QED BY <1>1, <1>3

LEMMA HandleRight ==
  ASSUME NEW a \in 0 .. PowerOf(AddressBits) - 1, IsAddress(a),
         NEW t \in Nat, NEW h \in ToHandle(a, t)
  PROVE  /\ FromHandle(h) = a <=> h = a /\ a % PowerOf(TypeBits) = 0
         /\ t # 0 => TypeOf(h) # t \/ t = PowerOf(TypeBits) - 1
         /\ IsKernel(a) => TypeOf(h) = PowerOf(TypeBits) - 1
<1>1. PICK m \in Nat, s \in Nat, b \in Nat :
        m = PowerOf(AddressBits) /\ s = PowerOf(TypeShift) /\ b = PowerOf(TypeBits) /\ b > 0
  <2>1. AddressBits \in 0 .. AddressBits /\ TypeShift \in 0 .. AddressBits
        /\ TypeBits \in 0 .. AddressBits
    BY AddressShape
  <2> QED BY <2>1, AddressPowersAre
<1>2. h \in Nat /\ FrameJoined(h, a, b, s, m) BY <1>1, HandleJoined
<1>3. FromHandle(h) = h - (h % b) BY <1>1, Zenon DEF FromHandle, PowerOf
<1>4. FromHandle(h) = a <=> h = a /\ a % b = 0
  <2>1. h % b = a % b /\ a \in Nat BY <1>1, <1>2 DEF FrameJoined
  <2>2. h - (h % b) = a <=> h = a /\ a % b = 0 
    <3>1. b \in Nat /\ b > 0 /\ h \in Nat BY <1>1, <1>2
    <3> QED BY <2>1, <3>1, ClearsBack, Zenon
  <2> QED BY <1>3, <2>2
<1>5. TypeOf(h) = 0 \/ TypeOf(h) = b - 1 BY <1>1, <1>2, TopTold DEF FrameJoined
<1>6. IsKernel(a) => TypeOf(h) = b - 1
  <2>1. IsKernel(a) => m - s <= a BY <1>1, AddressPlaces
  <2> QED BY <1>1, <1>2, <2>1, TopTold DEF FrameJoined
<1> QED BY <1>1, <1>4, <1>5, <1>6

----------------------------------------------------------------------------
AddressInv ==
  /\ asked \in AskedSizes /\ pages = SizeToPages(asked)
  /\ place # -1 => place \in Places /\ IsAddress(place) /\ frame = AddrToFrame(place)
  /\ handle # -1 => place # -1 /\ regType \in Types /\ handle \in ToHandle(place, regType)

LEMMA AddressFirst == AddressInit => AddressInv
BY DEF AddressInit, AddressInv

LEMMA AddressStep == AddressInv /\ [AddressNext]_addressVars => AddressInv'
<1> SUFFICES ASSUME AddressInv, [AddressNext]_addressVars PROVE AddressInv' OBVIOUS
<1>1. /\ asked \in AskedSizes /\ pages = SizeToPages(asked)
      /\ place # -1 => place \in Places /\ IsAddress(place) /\ frame = AddrToFrame(place)
      /\ handle # -1 => place # -1 /\ regType \in Types /\ handle \in ToHandle(place, regType)
  BY Zenon DEF AddressInv
<1>2. CASE Allocate
  <2>1. /\ place = -1 /\ place' \in Places /\ IsAddress(place') /\ frame' = AddrToFrame(place')
        /\ asked' = asked /\ pages' = pages /\ regType' = regType /\ handle' = handle
    BY <1>2, Zenon DEF Allocate
  <2>2. handle' = -1 BY <1>1, <2>1, Zenon
  <2> QED BY <1>1, <2>1, <2>2, Zenon DEF AddressInv
<1>3. CASE MakeHandle
  <2>1. /\ place # -1 /\ regType' \in Types /\ handle' \in ToHandle(place, regType')
        /\ asked' = asked /\ pages' = pages /\ place' = place /\ frame' = frame
    BY <1>3, Zenon DEF MakeHandle
  <2> QED BY <1>1, <2>1, Zenon DEF AddressInv
<1>4. CASE UNCHANGED addressVars
  BY <1>1, <1>4, Zenon DEF AddressInv, addressVars
<1> QED BY <1>2, <1>3, <1>4 DEF AddressNext

LEMMA AddressLimits ==
  /\ \A a \in AskedSizes \cup Places : a \in 0 .. PowerOf(AddressBits) - 1
  /\ \A t \in Types : t \in Nat
<1>1. AskedSizes \cup Places \subseteq 0 .. PowerOf(AddressBits) - 1
  BY AddressAssumption, Zenon DEF PowerOf
<1>2. Types \subseteq 0 .. PowerOf(TypeBits) - 1 BY AddressAssumption, Zenon DEF PowerOf
<1>3. PowerOf(AddressBits) \in Nat /\ PowerOf(TypeBits) \in Nat BY WordsAre
<1> QED BY <1>1, <1>2, <1>3

LEMMA HandleIsTold == AddressInv => HandleTold
<1> SUFFICES ASSUME AddressInv, handle # -1
             PROVE  /\ FromHandle(handle) = place
                         <=> handle = place /\ place % 2^TypeBits = 0
                    /\ regType # 0 => TypeOf(handle) # regType \/ regType = 2^TypeBits - 1
                    /\ IsKernel(place) => TypeOf(handle) = 2^TypeBits - 1
  BY Zenon DEF HandleTold
<1>1. place \in Places /\ IsAddress(place) /\ regType \in Types
      /\ handle \in ToHandle(place, regType)
  BY Zenon DEF AddressInv
<1>2. place \in 0 .. PowerOf(AddressBits) - 1 /\ regType \in Nat BY <1>1, AddressLimits
<1>3. /\ FromHandle(handle) = place <=> handle = place /\ place % PowerOf(TypeBits) = 0
      /\ regType # 0 => TypeOf(handle) # regType \/ regType = PowerOf(TypeBits) - 1
      /\ IsKernel(place) => TypeOf(handle) = PowerOf(TypeBits) - 1
  BY <1>1, <1>2, HandleRight
<1> QED BY <1>3, Zenon DEF PowerOf

LEMMA PagesRight == AddressInv => PagesCover
<1> SUFFICES ASSUME AddressInv PROVE PagesCover OBVIOUS
<1>1. asked \in 0 .. PowerOf(AddressBits) - 1 /\ pages = SizeToPages(asked)
  <2>1. asked \in AskedSizes /\ pages = SizeToPages(asked) BY Zenon DEF AddressInv
  <2> QED BY <2>1, AddressLimits
<1>2. place # -1 => place \in 0 .. PowerOf(AddressBits) - 1 /\ frame = AddrToFrame(place)
  <2>1. place # -1 => place \in Places /\ frame = AddrToFrame(place) BY Zenon DEF AddressInv
  <2> QED BY <2>1, AddressLimits
<1>3. /\ PageShift \in Nat /\ FrameBits \in Nat /\ AddressBits \in Nat
      /\ PageShift <= AddressBits /\ FrameBits <= AddressBits
      /\ PageShift + FrameBits \in Nat /\ PageShift + FrameBits < AddressBits
      /\ PageShift + FrameBits <= AddressBits
  BY AddressShape
<1>4. PICK p \in Nat, c \in Nat, k \in Nat, m \in Nat, l \in Nat :
        /\ p = PowerOf(PageShift) /\ c = PowerOf(FrameBits) /\ k = PowerOf(AddressBits - PageShift)
        /\ m = PowerOf(AddressBits) /\ l = PowerOf(PageShift + FrameBits)
        /\ p > 0 /\ c > 0 /\ m = p * k /\ l = p * c /\ l < m
  <2>1. /\ PowerOf(PageShift) \in Nat /\ PowerOf(PageShift) > 0
        /\ PowerOf(AddressBits) \in Nat /\ PowerOf(AddressBits - PageShift) \in Nat
        /\ PowerOf(AddressBits) = PowerOf(PageShift) * PowerOf(AddressBits - PageShift)
    BY <1>3, PowersRise
  <2>2. PowerOf(FrameBits) \in Nat /\ PowerOf(FrameBits) > 0 BY <1>3, PowersRise
  <2>3. PowerOf(PageShift + FrameBits) = PowerOf(PageShift) * PowerOf(FrameBits)
    BY <1>3, PowersTimes
  <2>4. PowerOf(PageShift + FrameBits) < PowerOf(AddressBits) /\ PowerOf(PageShift + FrameBits) \in Nat
    <3>1. PICK i \in Nat, j \in Nat : i = PageShift + FrameBits /\ j = AddressBits BY <1>3
    <3>2. i < j /\ i <= j /\ j <= AddressBits BY <1>3, <3>1
    <3>3. PowerOf(i) < PowerOf(j) /\ PowerOf(i) \in Nat BY <3>2, PowersRise
    <3> QED BY <3>1, <3>3, Zenon
  <2> QED BY <2>1, <2>2, <2>3, <2>4
<1>5. LET led == PagesToSize(pages) IN
      IF asked > m - p THEN pages = 0 /\ RoundUp(asked) = 0
      ELSE IF RoundUp(asked) < l
           THEN led \in asked .. asked + p - 1 /\ led = RoundUp(asked)
           ELSE led < asked
  <2>1. asked \in 0 .. m - 1 /\ p * c < m BY <1>1, <1>4
  <2> DEFINE up == (asked + p - 1) % m
             round == up - (up % p)
             count == (up \div p) % c
             led == (count * p) % m
  <2>2. IF asked > m - p THEN count = 0 /\ round = 0
        ELSE IF round < p * c THEN led \in asked .. asked + p - 1 /\ led = round
        ELSE led < asked
    BY <1>4, <2>1, PagesCount, Zenon
  <2>3. p = PowerOf(PageShift) /\ c = PowerOf(FrameBits) /\ m = PowerOf(AddressBits) /\ l = p * c
    BY <1>4
  <2>4. RoundUp(asked) = round
    BY <2>3, Zenon DEF RoundUp, RoundDown, Wrapped, PageSize, PowerOf
  <2>5. pages = count
    BY <1>1, <2>3, Zenon DEF SizeToPages, Wrapped, PageSize, PowerOf
  <2>6. PagesToSize(pages) = led
    BY <2>3, <2>5, Zenon DEF PagesToSize, Wrapped, PageSize, PowerOf
  <2> HIDE DEF up, round, count, led
  <2> QED BY <2>2, <2>3, <2>4, <2>5, <2>6, Zenon
<1>6. ASSUME place # -1
      PROVE  (PagesToSize(frame) = RoundDown(place)) <=> (place < l)
  <2>1. place \in 0 .. m - 1 /\ p * c < m BY <1>2, <1>4, <1>6
  <2>2. (((place \div p) % c) * p) % m = place - (place % p) <=> place < p * c
    <3>1. p \in Nat /\ p > 0 /\ c \in Nat /\ c > 0 /\ m \in Nat BY <1>4
    <3> QED BY <2>1, <3>1, FrameLeadsBack, Zenon
  <2>3. p = PowerOf(PageShift) /\ c = PowerOf(FrameBits) /\ m = PowerOf(AddressBits) /\ l = p * c
    BY <1>4
  <2>4. frame = (place \div p) % c
    BY <1>2, <1>6, <2>3, Zenon DEF AddrToFrame, PageSize, PowerOf
  <2>5. PagesToSize(frame) = (((place \div p) % c) * p) % m
    BY <2>3, <2>4, Zenon DEF PagesToSize, Wrapped, PageSize, PowerOf
  <2>6. RoundDown(place) = place - (place % p)
    BY <2>3, Zenon DEF RoundDown, PageSize, PowerOf
  <2> QED BY <2>2, <2>3, <2>5, <2>6, Zenon
<1>7. m = 2^AddressBits /\ p = PageSize /\ l = 2^(PageShift + FrameBits)
  BY <1>4, Zenon DEF PowerOf, PageSize
<1> QED
  <2>1. LET led == PagesToSize(pages) IN
        IF asked > 2^AddressBits - PageSize THEN pages = 0 /\ RoundUp(asked) = 0
        ELSE IF RoundUp(asked) < 2^(PageShift + FrameBits)
             THEN led \in asked .. asked + PageSize - 1 /\ led = RoundUp(asked)
             ELSE led < asked
    BY <1>5, <1>7, Zenon
  <2>2. place # -1 =>
          (PagesToSize(frame) = RoundDown(place)) <=> (place < 2^(PageShift + FrameBits))
    BY <1>6, <1>7, Zenon
  <2> QED BY <2>1, <2>2, Zenon DEF PagesCover

\* Pages, frames and handles over a behaviour that asks for memory, is given an
\* address and makes a handle of a register there.
THEOREM AddressesKept == AddressSpec => [](PagesCover /\ HandleTold)
<1> QED
  BY AddressFirst, AddressStep, HandleIsTold, PagesRight, PTL DEF AddressSpec

----------------------------------------------------------------------------
(* The instance of all components                                          *)

LEMMA LibraryParts ==
  /\ LibraryInit => /\ AtomicInit /\ FrameInit /\ FireInit /\ RecordInit /\ EdgeInit
                    /\ BitInit /\ OrderInit /\ FdInit /\ CInit
                    /\ BoolInit /\ CodeInit /\ AddressInit
  /\ [LibraryNext]_libraryVars =>
       /\ [AtomicNext]_atomicVars /\ [FrameNext]_frameVars /\ [FireNext]_fireVars
       /\ [RecordNext]_recordVars /\ [EdgeNext]_edgeVars
       /\ [BitNext]_bitVars /\ [OrderNext]_orderVars /\ [FdNext]_fdVars
       /\ [CNext]_cvars /\ [BoolNext]_boolVars /\ [CodeNext]_codeVars
       /\ [AddressNext]_addressVars
<1>1. LibraryInit => /\ AtomicInit /\ FrameInit /\ FireInit /\ RecordInit /\ EdgeInit
                    /\ BitInit /\ OrderInit /\ FdInit /\ CInit
                    /\ BoolInit /\ CodeInit /\ AddressInit
  BY Zenon DEF LibraryInit
<1>2. LibraryNext => [AtomicNext]_atomicVars BY Zenon DEF LibraryNext
<1>3. LibraryNext => [FrameNext]_frameVars BY Zenon DEF LibraryNext
<1>4. LibraryNext => [FireNext]_fireVars BY Zenon DEF LibraryNext
<1>5. LibraryNext => [RecordNext]_recordVars BY Zenon DEF LibraryNext
<1>6. LibraryNext => [EdgeNext]_edgeVars BY Zenon DEF LibraryNext
<1>7. LibraryNext => [BitNext]_bitVars BY Zenon DEF LibraryNext
<1>8. LibraryNext => [OrderNext]_orderVars BY Zenon DEF LibraryNext
<1>9. LibraryNext => [FdNext]_fdVars BY Zenon DEF LibraryNext
<1>10. LibraryNext => [CNext]_cvars BY Zenon DEF LibraryNext
<1>12. LibraryNext => [BoolNext]_boolVars BY Zenon DEF LibraryNext
<1>13. LibraryNext => [CodeNext]_codeVars BY Zenon DEF LibraryNext
<1>14. LibraryNext => [AddressNext]_addressVars BY Zenon DEF LibraryNext
<1>11. UNCHANGED libraryVars =>
        /\ UNCHANGED atomicVars /\ UNCHANGED frameVars /\ UNCHANGED fireVars
        /\ UNCHANGED recordVars /\ UNCHANGED edgeVars
        /\ UNCHANGED bitVars /\ UNCHANGED orderVars /\ UNCHANGED fdVars
        /\ UNCHANGED cvars /\ UNCHANGED boolVars /\ UNCHANGED codeVars
        /\ UNCHANGED addressVars
  BY Zenon DEF libraryVars
<1> QED BY <1>1, <1>2, <1>3, <1>4, <1>5, <1>6, <1>7, <1>8, <1>9, <1>10, <1>12, <1>13,
           <1>14, <1>11

LEMMA LibraryRuns ==
  LibrarySpec => /\ AtomicSpec /\ FrameSpec /\ FireSpec /\ RecordSpec /\ EdgeSpec
                 /\ BitSpec /\ OrderSpec /\ FdSpec /\ CSpec
                 /\ BoolSpec /\ CodeSpec /\ AddressSpec
<1> QED
  BY LibraryParts, PTL
  DEF LibrarySpec, AtomicSpec, FrameSpec, FireSpec, RecordSpec, EdgeSpec, BitSpec, OrderSpec,
      FdSpec, CSpec, BoolSpec, CodeSpec, AddressSpec

\* Used beside the other components, the atomic words are as exact.
THEOREM LibraryCounters == LibrarySpec => []CountersExact
<1>1. AtomicInv => CountersExact
  BY DrawnApart, DrainedAll, ReferredLast, BitsHeld DEF AtomicInv, CountersExact
<1> QED BY <1>1, LibraryRuns, AtomicKept, PTL

\* Used beside the other components, the frames nest as well.
THEOREM LibraryFrames == LibrarySpec => []FramesUnwound
<1> QED BY LibraryRuns, FramesUnwind, PTL

\* The lag history, mercy and virtual time of a node.
THEOREM LibraryHistory == LibrarySpec => []LagHistory
<1>1. HistoryIsOldest /\ NoMercy /\ NeverCaughtUp => LagHistory BY DEF LagHistory
<1> QED BY <1>1, LibraryRuns, HistoryKept, PTL

\* The deadlines and the steps of the system time.
THEOREM LibraryFixedPoint == LibrarySpec => FixedPointExact
<1> QED BY LibraryRuns, DeadlineRight, SystemStepRight, PTL DEF FixedPointExact

\* The verdicts on the records of messages, accounting and drivers.
THEOREM LibraryVerdicts == LibrarySpec => []VerdictsRight
<1> QED BY LibraryRuns, VerdictsKept, PTL

\* The trees of the EDGE levels and the deadlines of their groups.
THEOREM LibraryDeadlines == LibrarySpec => []DeadlinesHeld
<1> QED BY LibraryRuns, DeadlinesKept, PTL

\* The words of bitcount.h and the values of endian.h.
THEOREM LibraryWords == LibrarySpec => []WordsExact
<1>1. CountExact /\ LowestFound /\ LeadingZerosOff /\ WireValue => WordsExact
  BY Zenon DEF WordsExact
<1> QED BY <1>1, LibraryRuns, WordsCounted, OrderKept, PTL

\* The descriptor sets of select.h and the walk over one that is being changed.
THEOREM LibraryWalk == LibrarySpec => []FdWalk
<1>1. FdExact /\ WalkComplete => FdWalk BY Zenon DEF FdWalk
<1> QED BY <1>1, LibraryRuns, FdWalked, PTL

\* The copying functions of string.h.
THEOREM LibraryCopies == LibrarySpec => CopiesExact
<1> QED BY LibraryRuns, CopiesKept, PTL DEF CopiesExact

\* The fields of the words of bits.
THEOREM LibraryFields == LibrarySpec => FieldsMove
<1> QED BY LibraryRuns, FieldsKept, PTL

\* The truth values of the four types and the two definitions of BK_FALSE.
THEOREM LibraryBooleans == LibrarySpec => []BooleansTold
<1> QED BY LibraryRuns, BooleansKept, PTL

\* The numbers of calls, statuses and types, the pages and the handles.
THEOREM LibraryNumbers == LibrarySpec => []NumbersTold
<1>1. (CallsReached /\ StatusesTold /\ TypesTold) /\ (PagesCover /\ HandleTold) => NumbersTold
  BY Zenon DEF NumbersTold
<1> QED BY <1>1, LibraryRuns, CodesKept, AddressesKept, PTL

=============================================================================
