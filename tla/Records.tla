------------------------------ MODULE Records ------------------------------
(***************************************************************************)
(* Records that carry a checksum: messages of IPC (ipc.h), records of      *)
(* accounting (acct.h), messages of the driver kit (OSDMsg.h) and of the   *)
(* file system (ctfs.h, whose sum is the one of the driver kit).           *)
(*                                                                         *)
(* A record is stamped with the checksum of what it is then, a byte of it  *)
(* may be damaged, and its reader verifies it.  The checksum of an IPC     *)
(* message covers the data and stands apart from them; the other two stand *)
(* inside of what they are computed over.                                  *)
(***************************************************************************)
EXTENDS Integers, Sequences, Words

CONSTANTS
  CrcBits, Poly,   \* of the CRC: 32, and the bits of 0xEDB88320
  SumBits,         \* of the rotating sum (32)
  ByteValues,      \* the bytes tried, as words of 8 bits
  DataSize         \* bytes of a record beside its checksum

ASSUME RecordAssumption ==
  /\ CrcBits \in Nat /\ SumBits \in Nat \ {0} /\ DataSize \in Nat
  /\ CrcBits % 8 = 0 /\ SumBits % 8 = 0
  /\ Poly \subseteq Ones(CrcBits) /\ CrcBits - 1 \in Poly
  /\ \A b \in ByteValues : b \subseteq Ones(8)

Answer == INSTANCE Booleans WITH boolType <- "BK_BOOLEAN", truth <- {}, cell <- {}, constant <- {}

VARIABLES
  kind,      \* "message", "accounting" or "driver"
  header,    \* whether the magic number and the version are right
  data,      \* the bytes beside the checksum
  stored,    \* the checksum field
  before,    \* what it held when it was stamped
  stage,     \* "written", "stamped", "damaged" or "verified"
  damaged,   \* whether a byte of the data was
  verdict    \* what the reader is returned

recordVars == <<kind, header, data, stored, before, stage, damaged, verdict>>

----------------------------------------------------------------------------
\* One turn of the loop of bk_ipc_calculate_crc32 and bk_acct_crc32.
CrcByte(crc, byte) ==
  LET turn[j \in 0 .. 8] ==
        IF j = 0 THEN Xor(crc, byte)
        ELSE LET c == turn[j - 1] IN Xor(Shr(c, 1), IF 0 \in c THEN Poly ELSE {})
  IN  turn[8]

\* The same for one byte, as a function of the state before it.
CrcTurns(byte) == [crc \in Word(CrcBits) |-> CrcByte(crc, byte)]

\* Faulty variant: the loop leaves out the last byte.
Crc32Short(bytes) ==
  LET crc[i \in 0 .. Len(bytes)] ==
        IF i = 0 THEN Ones(CrcBits) ELSE CrcTurns(bytes[i])[crc[i - 1]]
  IN  Not(crc[Len(bytes) - 1], CrcBits)

Crc32(bytes) ==
  LET crc[i \in 0 .. Len(bytes)] ==
        IF i = 0 THEN Ones(CrcBits) ELSE CrcTurns(bytes[i])[crc[i - 1]]
  IN  Not(crc[Len(bytes)], CrcBits)

\* One turn of osd_msg_calculate_checksum and ctfs_calculate_checksum.
SumByte(sum, byte) ==
  LET s == Plus(sum, byte, SumBits)
  IN  Shl(s, 1, SumBits) \cup Shr(s, SumBits - 1)

RotatingSum(bytes) ==
  LET sum[i \in 0 .. Len(bytes)] == IF i = 0 THEN {} ELSE SumByte(sum[i - 1], bytes[i])
  IN  sum[Len(bytes)]

\* The bytes of a word in memory, lowest first.
BytesOf(w, bits) == [k \in 1 .. bits \div 8 |-> Cast(Shr(w, 8 * (k - 1)), 8)]

----------------------------------------------------------------------------
\* The version and the fields up to ah_crc32, the field, and ah_sequence (0):
\* everything but the first word.
AccountingBytes(d, field) == d \o BytesOf(field, CrcBits) \o BytesOf({}, CrcBits)

\* The field msg_checksum, three of the four words reserved behind it (the loop
\* stops one word before the end of the header), the data.  The fields in front
\* of it, equal on both sides, are left out: they change the sum both begin with.
DriverBytes(d, field) == BytesOf(field, SumBits) \o BytesOf({}, 3 * SumBits) \o d

Checksum(k, d, field) ==
  CASE k = "message"    -> Crc32(d)
    [] k = "accounting" -> Crc32(AccountingBytes(d, field))
    [] k = "driver"     -> RotatingSum(DriverBytes(d, field))

\* bk_acct_validate_record: BK_FALSE for a bad header, else the comparison.
ValidateRecord ==
  IF ~header THEN Answer!BK_FALSE
  ELSE Answer!Comparison(Checksum("accounting", data, stored) = stored)

----------------------------------------------------------------------------
RecordInit ==
  /\ kind \in {"message", "accounting", "driver"}
  /\ header \in BOOLEAN /\ (kind # "accounting" => header)
  /\ data \in [1 .. DataSize -> ByteValues]
  /\ stored \in ByteValues /\ before = stored
  /\ stage = "written" /\ damaged = FALSE /\ verdict = {}

\* The writer computes the checksum with the function the reader uses.
Stamp ==
  /\ stage = "written"
  /\ stored' = Checksum(kind, data, stored)
  /\ before' = stored
  /\ stage' = "stamped"
  /\ UNCHANGED <<kind, header, data, damaged, verdict>>

\* A byte is changed on the way.
Damage ==
  /\ stage = "stamped"
  /\ \E i \in 1 .. DataSize, b \in ByteValues :
       /\ b # data[i]
       /\ data' = [data EXCEPT ![i] = b]
  /\ stage' = "damaged" /\ damaged' = TRUE
  /\ UNCHANGED <<kind, header, stored, before, verdict>>

Verify ==
  /\ stage \in {"stamped", "damaged"}
  /\ verdict' = IF kind = "accounting" THEN ValidateRecord
                ELSE Answer!Comparison(Checksum(kind, data, stored) = stored)
  /\ stage' = "verified"
  /\ UNCHANGED <<kind, header, data, stored, before, damaged>>

RecordNext == Stamp \/ Damage \/ Verify
RecordSpec == RecordInit /\ [][RecordNext]_recordVars

----------------------------------------------------------------------------
RecordTypeOK ==
  /\ \A i \in DOMAIN data : data[i] \in ByteValues
  /\ stored \subseteq Ones(IF kind = "driver" THEN SumBits ELSE CrcBits)
  /\ verdict \subseteq Ones(64)

\* A message passes exactly when no byte of it changed.  A record that was
\* stamped and not touched, and a driver message stamped over a field of 0, is
\* refused unless its field held, by chance, the checksum already, because the
\* field is within the bytes summed (acct.h:510, OSDMsg.h:580-581, whose comment
\* says it is left out).  And an accounting record of another kind or version,
\* which the validation means to refuse with BK_FALSE, is taken for valid by an
\* `if` (acct.h:504-508).
VerdictsRight ==
  stage = "verified" =>
    LET passed == Answer!Holds(verdict) IN
    /\ kind = "message" => (passed <=> ~damaged)
    /\ kind # "message" /\ header /\ ~damaged /\ (kind = "driver" => before = {}) =>
         (passed <=> stored = before)
    /\ kind = "accounting" /\ ~header => passed
=============================================================================
