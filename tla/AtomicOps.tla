----------------------------- MODULE AtomicOps -----------------------------
(***************************************************************************)
(* The atomic counters and bit operations of atomic_common.h and what they *)
(* are for when several contexts use one word: tickets, a counter that is  *)
(* drained, a reference count, a word of flags, an array of claimed bits.  *)
(*                                                                         *)
(* Each __sync builtin is one atomic step; reading a counter and acting on *)
(* what was read are two.  A behaviour follows one use (`role`) on one of  *)
(* the four families of functions (`family`).  A counter is a number below *)
(* 2^CounterBits, a word used for its bits the set of the positions that   *)
(* are 1.                                                                  *)
(***************************************************************************)
EXTENDS Integers, FiniteSets, Sequences

CONSTANTS
  Procs,       \* the contexts, numbered from 0
  CounterBits, \* bits of the counter of each family (32, 32, 64 and long's)
  Words,       \* words of the bit array
  MaxRefs,     \* references one context may hold: a bound
  MaxDue       \* how far additions go before the counter is drained: a bound

Kinds == {"atomic", "atomic32", "atomic64", "atomic_long"}
Roles == {"tickets", "drain", "refs", "flags", "bits"}

ASSUME AtomicAssumption ==
  /\ IsFiniteSet(Procs) /\ Procs # {}
  /\ Procs = 0 .. Cardinality(Procs) - 1
  /\ CounterBits \in [Kinds -> Nat \ {0}]
  /\ Words \in Nat \ {0} /\ MaxRefs \in Nat \ {0} /\ MaxDue \in Nat
  /\ \A k \in Kinds : /\ Cardinality(Procs) * MaxRefs < 2^CounterBits[k]
                      /\ Cardinality(Procs) <= CounterBits[k]

\* What the counters' powers of 2 are, which the provers do not compute.
ASSUME PowerAssumption ==
  \A k \in Kinds : LET b == CounterBits[k] IN
    /\ 2^(b - 1) \in Nat \ {0}
    /\ 2^b = 2 * 2^(b - 1)

VARIABLES
  family, role,
  counter,     \* v->counter as a number
  word,        \* the same used as flags
  array,       \* the words behind the address the bit operations take
  pc, local,   \* the caller's place in a read-and-retry loop, what it read
  issued,      \* history, tickets: the values drawn, in order
  due,         \* history, drain: what was added and not yet taken out
  refs, freed, \* history, refs: references of each context, times freed
  owner        \* history, flags and bits: the contexts that hold each bit

atomicVars == <<family, role, counter, word, array, pc, local, issued, due,
          refs, freed, owner>>

----------------------------------------------------------------------------
(* The functions.  Those that answer the old value answer `counter`.       *)

W == CounterBits[family]
CounterRange == 2^W
HalfRange == 2^(W - 1)
Wrap(n) == n % CounterRange
\* Faulty variant: the sum is kept wider than the counter.
AddWide(v, i) == v + i
Add(v, i) == Wrap(v + i)                     \* ..._add, _sub, _inc, _dec
\* Faulty variant: the comparison and the store are not one instruction.
CmpXchgBlind(v, old, new) == new
CmpXchg(v, old, new) == IF v = old THEN new ELSE v
BitsOf == 0 .. W - 1

(* The families that answer a signed value: BK_I32 and BK_L3264. *)
Signed(v) == IF family \in {"atomic", "atomic_long"} /\ v >= HalfRange
             THEN v - CounterRange ELSE v

(* bk_atomic_long_ has no and, or, xor. *)
HasMasks == family # "atomic_long"

(* Bit operations exist on 32-bit words, and set and clear on 64-bit ones. *)
BitKinds == {"atomic", "atomic64"}
Index(nr) == nr \div W
Mask(nr) == {nr % W}
TestBit(nr) == nr % W \in array[Index(nr)]
BitNumbers == 0 .. Words * W - 1

----------------------------------------------------------------------------
AtomicInit ==
  /\ family \in Kinds /\ role \in Roles
  /\ role = "bits" => family \in BitKinds
  /\ role = "flags" => HasMasks
  /\ counter = IF role = "refs" THEN Cardinality(Procs) ELSE 0
  /\ word = {}
  /\ array = [n \in 0 .. Words - 1 |-> {}]
  /\ pc = [p \in Procs |-> "idle"]
  /\ local = [p \in Procs |-> 0]
  /\ issued = <<>>
  /\ due = 0
  /\ refs = [p \in Procs |-> 1]
  /\ freed = 0
  /\ owner = [n \in BitNumbers |-> {}]

Only(r) == role = r /\ UNCHANGED <<family, role>>

(* Tickets: bk_atomic_add, _inc answer the value before, _add_return,      *)
(* _inc_return the value after the addition.                               *)
Draw(p, t) ==
  /\ counter' = Add(counter, 1)
  /\ issued' = Append(issued, t)
  /\ UNCHANGED <<word, array, due, refs, freed, owner>>

MoreTickets == Len(issued) < CounterRange

FetchAdd(p) ==
  /\ Only("tickets") /\ MoreTickets /\ pc[p] = "idle"
  /\ Draw(p, Signed(counter))
  /\ UNCHANGED <<pc, local>>

AddReturn(p) ==
  /\ Only("tickets") /\ MoreTickets /\ pc[p] = "idle"
  /\ Draw(p, Signed(Wrap(Add(counter, 1) - 1)))
  /\ UNCHANGED <<pc, local>>

(* The loop is left, what was read is not used any more. *)
Idle(p) ==
  /\ pc' = [pc EXCEPT ![p] = "idle"]
  /\ local' = [local EXCEPT ![p] = 0]

(* The same with a compare-and-swap loop: bk_atomic_read, ... *)
CasRead(p) ==
  /\ Only("tickets") /\ pc[p] = "idle"
  /\ local' = [local EXCEPT ![p] = counter]
  /\ pc' = [pc EXCEPT ![p] = "cas"]
  /\ UNCHANGED <<counter, word, array, issued, due, refs, freed, owner>>

(* ... bk_atomic_cmpxchg: what it answers is the expected value when the   *)
(* exchange was made and the next value to expect when it was not.         *)
CasTry(p) ==
  /\ Only("tickets") /\ MoreTickets /\ pc[p] = "cas"
  /\ counter' = CmpXchg(counter, local[p], Add(local[p], 1))
  /\ IF counter = local[p]
     THEN /\ issued' = Append(issued, Signed(local[p]))
          /\ Idle(p)
     ELSE /\ local' = [local EXCEPT ![p] = counter]
          /\ UNCHANGED <<issued, pc>>
  /\ UNCHANGED <<word, array, due, refs, freed, owner>>

(* bk_atomic_cmpxchg_bool only says whether: the caller reads again. *)
CasTryBool(p) ==
  /\ Only("tickets") /\ MoreTickets /\ pc[p] = "cas"
  /\ counter' = CmpXchg(counter, local[p], Add(local[p], 1))
  /\ Idle(p)
  /\ issued' = IF counter = local[p] THEN Append(issued, Signed(local[p])) ELSE issued
  /\ UNCHANGED <<word, array, due, refs, freed, owner>>

----------------------------------------------------------------------------
(* A counter that is emptied: additions and subtractions of any size, ... *)
AddAny(p, i) ==
  /\ Only("drain") /\ due + i \in -MaxDue .. MaxDue
  /\ counter' = Add(counter, i)
  /\ due' = due + i
  /\ UNCHANGED <<word, array, pc, local, issued, refs, freed, owner>>

(* ... and bk_atomic_xchg(v, 0), which answers everything added so far. *)
Drain(p) ==
  /\ Only("drain")
  /\ due' = due - Signed(counter)
  /\ counter' = 0
  /\ UNCHANGED <<word, array, pc, local, issued, refs, freed, owner>>

----------------------------------------------------------------------------
(* A reference count: a holder may take one more for itself, ... *)
Get(p) ==
  /\ Only("refs") /\ refs[p] \in 1 .. MaxRefs - 1
  /\ counter' = Add(counter, 1)
  /\ refs' = [refs EXCEPT ![p] = @ + 1]
  /\ UNCHANGED <<word, array, pc, local, issued, due, freed, owner>>

Put(p, last) ==
  /\ Only("refs") /\ refs[p] > 0
  /\ counter' = Add(counter, -1)
  /\ refs' = [refs EXCEPT ![p] = @ - 1]
  /\ freed' = IF last THEN freed + 1 ELSE freed
  /\ UNCHANGED <<word, array, pc, local, issued, due, owner>>

(* ... and frees the object when bk_atomic_dec_return answers 0, or when   *)
(* bk_atomic_dec, which answers the value before, answers 1.               *)
\* Faulty variant: the answer of bk_atomic_dec is taken for the new value.
PutFetchNew(p) == Put(p, counter = 0)
PutReturn(p) == Put(p, Add(counter, -1) = 0)
PutFetch(p) == Put(p, counter = 1)

----------------------------------------------------------------------------
(* A word of flags: context p sets, clears and turns bit p by a mask. *)
MaskStep(p, new, mine) ==
  /\ Only("flags")
  /\ word' = new
  /\ owner' = [owner EXCEPT ![p] = IF mine THEN {p} ELSE {}]
  /\ UNCHANGED <<counter, array, pc, local, issued, due, refs, freed>>

FetchOr(p) == MaskStep(p, word \union {p}, TRUE)
FetchAnd(p) == MaskStep(p, word \intersect (BitsOf \ {p}), FALSE)
FetchXor(p) == MaskStep(p, (word \union {p}) \ (word \intersect {p}), owner[p] = {})

----------------------------------------------------------------------------
(* An array of bits: bk_test_bit looks without claiming, ... *)
Look(p, nr) ==
  /\ Only("bits") /\ pc[p] = "idle"
  /\ ~TestBit(nr)
  /\ local' = [local EXCEPT ![p] = nr]
  /\ pc' = [pc EXCEPT ![p] = "claim"]
  /\ UNCHANGED <<counter, word, array, issued, due, refs, freed, owner>>

(* ... bk_test_and_set_bit claims the bit if it answers 0, ... *)
TestAndSetBit(p) ==
  LET nr == local[p] IN
  /\ Only("bits") /\ pc[p] = "claim"
  /\ array' = [array EXCEPT ![Index(nr)] = @ \union Mask(nr)]
  /\ owner' = IF TestBit(nr) THEN owner ELSE [owner EXCEPT ![nr] = @ \union {p}]
  /\ Idle(p)
  /\ UNCHANGED <<counter, word, issued, due, refs, freed>>

(* ... bk_test_and_clear_bit and bk_test_and_change_bit give it back. *)
GiveBack(p, nr, new) ==
  /\ Only("bits") /\ p \in owner[nr]
  /\ array' = [array EXCEPT ![Index(nr)] = new]
  /\ owner' = [owner EXCEPT ![nr] = @ \ {p}]
  /\ UNCHANGED <<counter, word, pc, local, issued, due, refs, freed>>

TestAndClearBit(p, nr) == GiveBack(p, nr, array[Index(nr)] \ Mask(nr))
TestAndChangeBit(p, nr) ==
  /\ family # "atomic64"
  /\ LET w == array[Index(nr)]
     IN GiveBack(p, nr, (w \union Mask(nr)) \ (w \intersect Mask(nr)))

AtomicNext ==
  \E p \in Procs :
    \/ FetchAdd(p) \/ AddReturn(p) \/ CasRead(p) \/ CasTry(p) \/ CasTryBool(p)
    \/ Drain(p) \/ \E i \in {-1, 1, 2} : AddAny(p, i)
    \/ Get(p) \/ PutReturn(p) \/ PutFetch(p)
    \/ FetchOr(p) \/ FetchAnd(p) \/ FetchXor(p)
    \/ TestAndSetBit(p)
    \/ \E nr \in BitNumbers :
         Look(p, nr) \/ TestAndClearBit(p, nr) \/ TestAndChangeBit(p, nr)

AtomicSpec == AtomicInit /\ [][AtomicNext]_atomicVars

----------------------------------------------------------------------------
AtomicTypeOK ==
  /\ family \in Kinds /\ role \in Roles
  /\ counter \in 0 .. CounterRange - 1
  /\ word \subseteq BitsOf
  /\ array \in [0 .. Words - 1 -> SUBSET BitsOf]
  /\ pc \in [Procs -> {"idle", "cas", "claim"}]
  /\ local \in [Procs -> Nat]
  /\ issued \in Seq(Int) /\ due \in Int
  /\ refs \in [Procs -> 0 .. MaxRefs] /\ freed \in Nat
  /\ owner \in [BitNumbers -> SUBSET Procs]

(* Until the counter has gone round, no two draws get the same value,      *)
(* however fetch-and-add, add-and-return and the two compare-and-swap      *)
(* loops interleave, and no value is skipped: a loop that lost its race    *)
(* draws nothing.                                                          *)
Tickets ==
  /\ \A i, j \in DOMAIN issued : issued[i] = issued[j] => i = j
  /\ counter = Wrap(Len(issued)) \/ role # "tickets"

(* What the exchange with 0 takes out is all that was added and not taken  *)
(* out before, none lost and none twice, up to the width of the counter;   *)
(* the signed families also get its sign right.                            *)
DrainsAll ==
  role = "drain" =>
    /\ Wrap(due) = counter
    /\ due \in -HalfRange .. HalfRange - 1 /\ family \in {"atomic", "atomic_long"}
         => Signed(counter) = due

(* The object is freed once, by the context that drops the last reference, *)
(* whichever of the two answers it looks at.                               *)
FreedByLast ==
  role = "refs" => freed = IF \A p \in Procs : refs[p] = 0 THEN 1 ELSE 0

(* A bit is 1 exactly while one context has it: two contexts that saw it   *)
(* free do not both claim it, and the operations on one bit leave the      *)
(* others of its word and of the other words alone.                        *)
BitsExact ==
  /\ role = "bits" => \A nr \in BitNumbers :
                        Cardinality(owner[nr]) = IF TestBit(nr) THEN 1 ELSE 0
  /\ role = "flags" => \A p \in Procs : p \in word <=> owner[p] = {p}
============================================================================
