------------------------------- MODULE FdSet -------------------------------
(***************************************************************************)
(* The descriptor sets of select.h: arrays of 64-bit words, changed by     *)
(* macros that compute a word and a bit from the descriptor, and searched  *)
(* and counted with the functions of bitcount.h.                           *)
(*                                                                         *)
(* Two sets a and b are kept as arrays of words (`bits`), and beside them, *)
(* as history, the plain sets of descriptors they stand for (`fds`).  A    *)
(* scan walks over a with BK_FD_NEXT while a is being changed.             *)
(***************************************************************************)
EXTENDS Integers, FiniteSets

Bit == INSTANCE BitOps WITH Positions <- {}, Shifts <- {}, MaxSteps <- 0,
                          width <- 64, val <- {}, last <- <<>>, steps <- 0

Told == INSTANCE Booleans WITH boolType <- "BK_BOOLEAN", truth <- <<>>, cell <- <<>>,
                            constant <- {}

CONSTANTS Fds,          \* the descriptors used
          FDSETWORDS    \* words of a set

NFDBITS == 64
Names == {"a", "b"}
WordNumbers == 0 .. FDSETWORDS - 1

ASSUME FdAssumption ==
  FDSETWORDS \in Nat /\ Fds \subseteq 0 .. FDSETWORDS * NFDBITS - 1

VARIABLES bits, fds, cursor, seen, present
fdVars == <<bits, fds, cursor, seen, present>>

----------------------------------------------------------------------------
WordOf(fd) == fd \div NFDBITS
\* Faulty variant: the mask is an int.
BitOfInt(fd) == {fd % 32}
BitOf(fd) == {fd % NFDBITS}

ISSET(fd, s) == (bits[s][WordOf(fd)] \intersect BitOf(fd)) # {}
EQUAL(s, t) == Told!BK_BOOL_FROM(\A i \in WordNumbers : bits[s][i] = bits[t][i])

(* The first word is masked below `start`, the others are taken whole. *)
NEXT(s, start) ==
  LET w == start \div NFDBITS
      here == bits[s][w] \ (0 .. (start % NFDBITS) - 1)
      later == {i \in WordNumbers : i > w /\ bits[s][i] # {}}
      first == CHOOSE i \in later : \A j \in later : i <= j
  IN IF w >= FDSETWORDS THEN -1
     ELSE IF here # {} THEN w * NFDBITS + Bit!ctz64(here)
     ELSE IF later # {} THEN first * NFDBITS + Bit!ctz64(bits[s][first])
     ELSE -1

COUNT(s) ==
  LET upTo[i \in 0 .. FDSETWORDS] ==
        IF i = 0 THEN 0 ELSE upTo[i - 1] + Bit!bitcount64(bits[s][i - 1])
  IN upTo[FDSETWORDS]

----------------------------------------------------------------------------
FdInit ==
  /\ bits = [s \in Names |-> [i \in WordNumbers |-> {}]]
  /\ fds = [s \in Names |-> {}]
  /\ cursor = -1 /\ seen = {} /\ present = {}

Update(s, new, set) ==
  /\ bits' = [bits EXCEPT ![s] = new]
  /\ fds' = [fds EXCEPT ![s] = set]
  /\ present' = IF s = "a" THEN present \intersect set ELSE present
  /\ UNCHANGED <<cursor, seen>>

ZERO(s) == Update(s, [i \in WordNumbers |-> {}], {})
SET(fd, s) == Update(s, [bits[s] EXCEPT ![WordOf(fd)] = @ \union BitOf(fd)],
                     fds[s] \union {fd})
CLR(fd, s) == Update(s, [bits[s] EXCEPT ![WordOf(fd)] = @ \ BitOf(fd)],
                     fds[s] \ {fd})
COPY(src, dst) == Update(dst, bits[src], fds[src])

OR(dst, src) ==
  Update(dst, [i \in WordNumbers |-> bits[dst][i] \union bits[src][i]],
         fds[dst] \union fds[src])
AND(dst, src) ==
  Update(dst, [i \in WordNumbers |-> bits[dst][i] \intersect bits[src][i]],
         fds[dst] \intersect fds[src])
XOR(dst, src) ==
  Update(dst, [i \in WordNumbers |-> Bit!Xor(bits[dst][i], bits[src][i])],
         (fds[dst] \ fds[src]) \union (fds[src] \ fds[dst]))

(* One turn of "for (fd = BK_FD_NEXT(a, 0); fd >= 0; fd = BK_FD_NEXT(a,    *)
(* fd + 1))"; `present` is what has been in a since the walk began.        *)
Scan ==
  LET fd == NEXT("a", cursor + 1) IN
  /\ fd >= 0
  /\ cursor' = fd
  /\ seen' = seen \union {fd}
  /\ UNCHANGED <<bits, fds, present>>

ScanEnd ==
  /\ NEXT("a", cursor + 1) = -1
  /\ cursor' = -1 /\ seen' = {} /\ present' = fds["a"]
  /\ UNCHANGED <<bits, fds>>

FdNext ==
  \/ \E s \in Names : ZERO(s) \/ \E fd \in Fds : SET(fd, s) \/ CLR(fd, s)
  \/ \E dst, src \in Names : COPY(src, dst) \/ OR(dst, src) \/ AND(dst, src)
                               \/ XOR(dst, src)
  \/ Scan \/ ScanEnd

FdSpec == FdInit /\ [][FdNext]_fdVars

----------------------------------------------------------------------------
(* The array stands for the set: every descriptor of the range, at the     *)
(* edges of the words too, is found where it was put and nowhere else, the *)
(* count is right.  Two sets with the same members are told from two       *)
(* without by the value of BK_FD_EQUAL, but not by an `if`, which takes    *)
(* either value for true (select.h:167-169, vm.h:14).                      *)
FdExact ==
  /\ \A s \in Names :
       /\ \A fd \in 0 .. FDSETWORDS * NFDBITS - 1 : ISSET(fd, s) <=> fd \in fds[s]
       /\ COUNT(s) = Cardinality(fds[s])
  /\ Told!BK_BOOL_IS_TRUE(EQUAL("a", "b")) <=> fds["a"] = fds["b"]
  /\ Told!Holds(EQUAL("a", "b"))

(* A walk goes upwards, comes only to descriptors that are in the set at   *)
(* that moment and ends having met each one that was in the set all the    *)
(* time, whatever is added or removed, before or behind it, in between.    *)
WalkComplete ==
  LET fd == NEXT("a", cursor + 1) IN
  /\ fd # -1 => fd \in fds["a"] /\ fd > cursor
  /\ fd = -1 => present \subseteq seen
============================================================================
