------------------------------- MODULE BitOps -------------------------------
(***************************************************************************)
(* bitcount.h as it is built where no processor extension is declared: the *)
(* counts, searches, rotations and bit-field macros, on words of 32 and of *)
(* 64 bits.  The machine holds one word, `val`, that the macros and the    *)
(* rotations change; the functions are asked about every word it takes.    *)
(***************************************************************************)
EXTENDS Words

CONSTANTS Positions,   \* the bits the macros are applied to
          Shifts,      \* the amounts rotated by
          MaxSteps     \* changes in one behaviour: a bound

ASSUME BitAssumption == Positions \subseteq Nat /\ Shifts \subseteq Nat

VARIABLES width, val, last, steps
bitVars == <<width, val, last, steps>>

----------------------------------------------------------------------------
(* bk_bitcount32, bk_bitcount64: pairs, nibbles, bytes, and their sum in   *)
(* the top byte.                                                           *)
Swar(x, w) ==
  LET pairs == Minus(x, Shr(x, 1) \intersect Repeat({0, 2, 4, 6}, w), w)
      m2 == Repeat({0, 1, 4, 5}, w)
      nibbles == Plus(pairs \intersect m2, Shr(pairs, 2) \intersect m2, w)
      bytes == Plus(nibbles, Shr(nibbles, 4), w) \intersect Repeat(0 .. 3, w)
  IN Number(Shr(Times(bytes, Repeat({0}, w), w), w - 8))

bitcount32(x) == Swar(x, 32)
bitcount64(x) == Swar(x, 64)

(* BK_BITCOUNT: the selection has no association for BK_UI64 (unsigned     *)
(* long long) and the signed types: they are cast to BK_UI32.              *)
BITCOUNT(type, x) ==
  IF type = "BK_UL3264" THEN bitcount64(x) ELSE bitcount32(Cast(x, 32))

\* Faulty variant: two entries of the table are exchanged.
CtzTableSwapped == <<0, 1, 28, 2, 29, 14, 24, 3, 30, 22, 20, 15, 25, 17, 4, 8,
                     27, 31, 13, 23, 21, 19, 16, 7, 26, 12, 18, 6, 11, 5, 10, 9>>

CtzTable == <<0, 1, 28, 2, 29, 14, 24, 3, 30, 22, 20, 15, 25, 17, 4, 8,
              31, 27, 13, 23, 21, 19, 16, 7, 26, 12, 18, 6, 11, 5, 10, 9>>

ctz32(x) ==
  IF x = {} THEN 32
  ELSE CtzTable[1 + Number(Shr(Times(x \intersect Neg(x, 32),
                                     Const(\h077CB531), 32), 27))]

ctz64(x) ==
  LET lo == Cast(x, 32)
  IN IF x = {} THEN 64
     ELSE IF lo # {} THEN ctz32(lo)
     ELSE 32 + ctz32(Shr(x, 32))

ClzTable == <<31, 22, 30, 21, 18, 10, 29,  2, 20, 17, 15, 13, 9,  6, 28, 1,
              23, 26, 19, 16, 14, 12,  8,  5, 25, 0, 24, 27,  3, 11,  4, 7>>

(* The highest bit is smeared down, one is added, the table is read. *)
clz32(x) ==
  LET smear(y, k) == y \union Shr(y, k)
      all == smear(smear(smear(smear(smear(x, 1), 2), 4), 8), 16)
  IN IF x = {} THEN 32
     ELSE ClzTable[1 + Number(Shr(Times(Plus(all, {0}, 32),
                                        Const(\h076BE629), 32), 27))]

clz64(x) ==
  LET hi == Shr(x, 32)
  IN IF x = {} THEN 64
     ELSE IF hi # {} THEN clz32(hi)
     ELSE 32 + clz32(Cast(x, 32))

ffs32(x) == IF x = {} THEN 0 ELSE ctz32(x) + 1
ffs64(x) == IF x = {} THEN 0 ELSE ctz64(x) + 1

(* A shift by the whole width is undefined: the build leaves the word as   *)
(* it is (the processor masks the amount) or clears it.                    *)
ShlAny(x, k, w) == IF k < w THEN {Shl(x, k, w)} ELSE {x, {}}
ShrAny(x, k, w) == IF k < w THEN {Shr(x, k)} ELSE {x, {}}

rotl(x, shift, w) ==
  LET k == shift % w IN {Shl(x, k, w) \union y : y \in ShrAny(x, w - k, w)}
rotr(x, shift, w) ==
  LET k == shift % w IN {Shr(x, k) \union y : y \in ShlAny(x, w - k, w)}

----------------------------------------------------------------------------
(* The macros work on 1UL, 64 bits, and the result is cut to the variable. *)
BIT(n) == {n}
BITMASK(n) == Minus(BIT(n), {0}, 64)
TESTBIT(x, bit) == 0 \in Shr(x, bit)
EXTRACTBITS(x, start, length) == Shr(x, start) \intersect BITMASK(length)

BitInit ==
  /\ width \in {32, 64}
  /\ val \in {{}, Ones(width)}
  /\ last = <<"none">>
  /\ steps = 0

Change(new, what) ==
  /\ steps < MaxSteps
  /\ steps' = steps + 1
  /\ val' = Cast(new, width)
  /\ last' = what
  /\ UNCHANGED width

SETBIT(n) == n < width /\ Change(val \union BIT(n), <<"set", n>>)
CLEARBIT(n) == n < width /\ Change(val \intersect Not(BIT(n), 64), <<"clear", n>>)
TOGGLEBIT(n) == n < width /\ Change(Xor(val, BIT(n)), <<"toggle", n>>)

\* Faulty variant: the field is not cleared first.
INSERTBITSOver(bits, start, length) ==
  /\ start + length <= width /\ length < 64
  /\ Change(val \union Shl(bits \intersect BITMASK(length), start, 64),
            <<"insert", bits, start, length>>)

INSERTBITS(bits, start, length) ==
  /\ start + length <= width /\ length < 64
  /\ Change((val \intersect Not(Shl(BITMASK(length), start, 64), 64))
              \union Shl(bits \intersect BITMASK(length), start, 64),
            <<"insert", bits, start, length>>)

RotateLeft(k) == \E new \in rotl(val, k, width) : Change(new, <<"left", k>>)
RotateRight(k) == \E new \in rotr(val, k, width) : Change(new, <<"right", k>>)

BitNext ==
  \/ \E n \in Positions : SETBIT(n) \/ CLEARBIT(n) \/ TOGGLEBIT(n)
  \/ \E k \in Shifts : RotateLeft(k) \/ RotateRight(k)
  \/ \E start, length \in Shifts, bits \in {{0}, {0, 2, 7}, Ones(32)} :
       INSERTBITS(bits, start, length)

BitSpec == BitInit /\ [][BitNext]_bitVars

----------------------------------------------------------------------------
BitTypeOK == /\ width \in {32, 64} /\ val \in Word(width)
             /\ steps \in 0 .. MaxSteps

(* The parallel sums never carry from one field into the next: the count   *)
(* is the number of ones for every word, the word of all ones included.    *)
CountExact ==
  LET n == Cardinality(val)
  IN IF width = 32
     THEN bitcount32(val) = n /\ BITCOUNT("BK_UI32", val) = n
     ELSE bitcount64(val) = n /\ BITCOUNT("BK_UL3264", val) = n

(* The multiplication spreads the 32 isolated bits over the 32 entries of  *)
(* the table: the position found is that of the lowest one, or the width.  *)
LowestFound ==
  LET least == IF val = {} THEN width
               ELSE CHOOSE i \in val : \A j \in val : i <= j
      found == IF val = {} THEN 0 ELSE least + 1
  IN IF width = 32 THEN ctz32(val) = least /\ ffs32(val) = found
     ELSE ctz64(val) = least /\ ffs64(val) = found

\* What the step has done, by its kind, against the word before it.
FieldMoved ==
  /\ last'[1] \in {"left", "right"} =>
       /\ Cardinality(val') = Cardinality(val)
       /\ IF last'[1] = "left" THEN rotr(val', last'[2], width) = {val}
          ELSE rotl(val', last'[2], width) = {val}
  /\ last'[1] = "insert" =>
       LET b == last'[2]  s == last'[3]  l == last'[4] IN
       /\ EXTRACTBITS(val', s, l) = {i \in b : i < l}
       /\ Xor(val, val') \subseteq s .. s + l - 1
  /\ last'[1] \in {"set", "clear", "toggle"} =>
       TESTBIT(val', last'[2]) = CASE last'[1] = "set" -> TRUE
                                   [] last'[1] = "clear" -> FALSE
                                   [] OTHER -> ~TESTBIT(val, last'[2])

(* A rotation loses no bit and is undone by the opposite one, by 0 as by   *)
(* any amount, although by 0 the code shifts by the whole width; a field   *)
(* that was inserted is extracted again, cut to its length, and the bits   *)
(* around it stay.                                                         *)
FieldsMove == [][FieldMoved]_bitVars

(* bk_clz32 looks up the smeared word plus one in a table made for the      *)
(* smeared word: of all words that are not 0 it counts the leading zeros   *)
(* only of those whose highest bit is bit 3 (bitcount.h:83-95).            *)
LeadingZerosOff ==
  width = 32 /\ val # {} =>
    LET top == CHOOSE i \in val : \A j \in val : j <= i
    IN clz32(val) = 31 - top <=> top = 3
============================================================================
