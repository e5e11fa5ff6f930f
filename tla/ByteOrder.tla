----------------------------- MODULE ByteOrder -----------------------------
(***************************************************************************)
(* endian.h, with and without __BK_ASM_SUPPORT__: the byte swaps, the      *)
(* host/network conversions, and the loads and stores of a fixed order.    *)
(*                                                                         *)
(* The machine is the use they are for: a host writes a value for others,  *)
(* a host of any byte order reads it.  How a processor keeps a word in     *)
(* memory is the environment.                                              *)
(***************************************************************************)
EXTENDS Words

CONSTANT Values     \* the values exchanged, as words of 64 bits

Orders == {"little", "big"}
Sizes == {2, 4, 8}

VARIABLES from, to,   \* byte order of the sender and of the receiver
          assembly,   \* those of the two that are built with __BK_ASM_SUPPORT__
          size,       \* bytes of the value
          how,        \* which functions the two use
          sent, wire, got, phase

orderVars == <<from, to, assembly, size, how, sent, wire, got, phase>>

----------------------------------------------------------------------------
Byte(x, n) == Shr(x, 8 * n) \intersect 0 .. 7          \* (x >> 8n) & 0xFF

(* The masks and shifts of the three swaps. *)
swap_word(x) == Shl(x, 8, 16) \union Shr(x, 8)

swap_long(x) ==
  LET mask(n) == x \intersect (8 * n .. 8 * n + 7)
  IN Shr(mask(3), 24) \union Shr(mask(2), 8)
       \union Shl(mask(1), 8, 32) \union Shl(mask(0), 24, 32)

swap_quad(x) ==
  LET mask(n) == x \intersect (8 * n .. 8 * n + 7)
  IN UNION ({Shr(mask(4 + n), 16 * n + 8) : n \in 0 .. 3}
              \union {Shl(mask(3 - n), 16 * n + 8, 64) : n \in 0 .. 3})

(* The assembly version swaps with one instruction and then rotates.       *)
Halves(x) == Shl(x, 32, 64) \union Shr(x, 32)          \* ror $32
swap_quad_asm(x) == Halves(swap_quad(x))

Swap(asm, x, bytes) == CASE bytes = 2 -> swap_word(x)
                         [] bytes = 4 -> swap_long(x)
                         [] bytes = 8 -> IF asm THEN swap_quad_asm(x) ELSE swap_quad(x)

(* bk_htons, bk_htonl, bk_htonll and their inverses, which are the same:   *)
(* nothing on a big-endian host, a swap elsewhere.                         *)
hton(host, asm, x, bytes) == IF host = "big" THEN x ELSE Swap(asm, x, bytes)
ntoh(host, asm, x, bytes) == IF host = "big" THEN x ELSE Swap(asm, x, bytes)

(* bk_le16toh, bk_le32toh, bk_be16toh, bk_be32toh *)
letoh(bytes, m) == UNION {Shl(m[n], 8 * n, 64) : n \in 0 .. bytes - 1}
betoh(bytes, m) == UNION {Shl(m[n], 8 * (bytes - 1 - n), 64) : n \in 0 .. bytes - 1}

(* bk_htole16, bk_htole32, bk_htobe16, bk_htobe32 *)
htole(bytes, x) == [n \in 0 .. bytes - 1 |-> Byte(x, n)]
htobe(bytes, x) == [n \in 0 .. bytes - 1 |-> Byte(x, bytes - 1 - n)]

(* The processor's own stores and loads of a word in memory. *)
NativeStore(host, bytes, x) ==
  [n \in 0 .. bytes - 1 |-> Byte(x, IF host = "big" THEN bytes - 1 - n ELSE n)]
NativeLoad(host, bytes, m) ==
  UNION {Shl(m[n], 8 * (IF host = "big" THEN bytes - 1 - n ELSE n), 64) :
           n \in 0 .. bytes - 1}

----------------------------------------------------------------------------
(* There are loads and stores of 16 and of 32 bits only. *)
Ways(bytes) == {"hton"} \union IF bytes = 8 THEN {} ELSE {"be", "le", "hton to be", "be to ntoh"}

OrderInit ==
  /\ from \in Orders /\ to \in Orders
  /\ assembly \in SUBSET {"from", "to"}
  /\ ("from" \in assembly => from = "little") /\ ("to" \in assembly => to = "little")
  /\ size \in Sizes
  /\ how \in Ways(size)
  /\ sent \in {Cast(v, 8 * size) : v \in Values}
  /\ wire = <<>> /\ got = {}
  /\ phase = "send"

Send ==
  /\ phase = "send"
  /\ wire' = CASE how \in {"hton", "hton to be"} ->
                    NativeStore(from, size, hton(from, "from" \in assembly, sent, size))
               [] how \in {"be", "be to ntoh"} -> htobe(size, sent)
               [] how = "le" -> htole(size, sent)
  /\ phase' = "receive"
  /\ UNCHANGED <<from, to, assembly, size, how, sent, got>>

Receive ==
  /\ phase = "receive"
  /\ got' = CASE how \in {"hton", "be to ntoh"} ->
                    ntoh(to, "to" \in assembly, NativeLoad(to, size, wire), size)
               [] how \in {"be", "hton to be"} -> betoh(size, wire)
               [] how = "le" -> letoh(size, wire)
  /\ phase' = "done"
  /\ UNCHANGED <<from, to, assembly, size, how, sent, wire>>

OrderNext == Send \/ Receive
OrderSpec == OrderInit /\ [][OrderNext]_orderVars

----------------------------------------------------------------------------
(* A value reaches hosts of either order unchanged, through the network    *)
(* order of hton and ntoh, through the big- and little-endian stores and   *)
(* loads, and when one side uses ntoh or hton and the other be32; but its  *)
(* halves change places when it has 64 bits and one side alone was built   *)
(* with assembly (endian.h:82-90).                                         *)
WireValue ==
  phase = "done" =>
    got = IF size = 8 /\ assembly \in {{"from"}, {"to"}} THEN Halves(sent) ELSE sent
============================================================================
