----------------------------- MODULE MCLibrary -----------------------------
(***************************************************************************)
(* The instance for TLC of the components that share no state: bit         *)
(* operations, byte order, descriptor sets, strings, atomic counters, the  *)
(* accounting of one node, numbers, addresses, flags, truth values,        *)
(* records, EDGE groups and exception frames.  A behaviour uses one of     *)
(* them (`component`); the others stay in one of their initial states.     *)
(***************************************************************************)
EXTENDS BitOps, ByteOrder, FdSet, CString, AtomicOps, VirtualFire, Codes, Addresses,
        FlagWords, Booleans, Records, EdgeGroups, Frames

VARIABLE component   \* the one this behaviour uses

libraryVars ==
  <<component, bitVars, orderVars, fdVars, cvars, atomicVars, fireVars, codeVars,
    addressVars, flagVars, boolVars, recordVars, edgeVars, frameVars>>

Components ==
  {"bits", "order", "fds", "strings", "atomics", "fire", "codes", "addresses", "flags",
   "booleans", "records", "edge", "frames"}

----------------------------------------------------------------------------
(* Values of the constants.                                                *)

\* Words of 64 bits: none, one bit at either end of a byte, of 32 and of 64,
\* one in each byte, all of them, and a pattern.
MCValues == {{}, {0}, {7}, {8}, {31}, {63}, {0, 9, 18, 27, 36, 45, 54, 63}, 0 .. 63, {15, 16, 40}}

\* 9 is the delimiter: no string, only delimiters, runs of them at either end.
MCTexts == {<<>>, <<9>>, <<1>>, <<1, 9, 2>>, <<9, 9, 1, 1, 9, 9, 9, 2, 9>>, <<1, 2, 9>>}

MCCounterBits ==
  [atomic |-> 3, atomic64 |-> 3, atomic32 |-> 4, atomic_long |-> 4]

\* t_tau ... t_epsilon, 16.16 in the source, reduced to 6.6.
MCParams ==
  [tau |-> 1024, gamma |-> 512, theta |-> 3840, lambda |-> 6, eta |-> 10, mu |-> 3200,
   omega |-> 6, kappa |-> 1024, alpha |-> 2048, delta |-> 512, epsilon |-> 1]

\* Around 0, the page size, the largest page count and the end of the memory.
MCSizes == 0 .. 17 \cup 508 .. 514 \cup 4080 .. 4095
MCPlaces == 0 .. 20 \cup 56 .. 72 \cup 250 .. 255 \cup 4064 .. 4095

MCPoly == {31, 30, 29, 27, 26, 24, 23, 21, 20, 19, 15, 9, 8, 5}   \* 0xEDB88320
MCByteValues == {{}, {0}, {7}, 0 .. 7}

MCShapes == {{1, 2, 3, 5}, {1, 3, 6}}

----------------------------------------------------------------------------
(* A component that is not used begins in one state.                       *)
LibraryInit ==
  /\ component \in Components
  /\ IF component = "bits" THEN TRUE ELSE width = 32 /\ val = {}
  /\ IF component = "order" THEN TRUE
     ELSE from = "little" /\ to = "little" /\ assembly = {} /\ size = 2 /\ how = "be" /\ sent = {}
  /\ IF component = "strings" THEN TRUE
     ELSE subject = "tokens" /\ reentrant = TRUE /\ given = [u \in Users |-> <<1>>]
  /\ IF component = "atomics" THEN TRUE ELSE family = "atomic" /\ role = "tickets"
  /\ IF component = "fire" THEN TRUE ELSE nodeCount = 67
  /\ IF component = "addresses" THEN TRUE ELSE asked = 0
  /\ IF component = "flags" THEN TRUE ELSE wordName = "thr_state"
  /\ IF component = "booleans" THEN TRUE ELSE boolType = "BK_BOOL"
  /\ IF component = "records" THEN TRUE
     ELSE kind = "message" /\ header = TRUE /\ data = [i \in 1 .. DataSize |-> {}] /\ stored = {}
  /\ IF component = "edge" THEN TRUE ELSE shape = [l \in EevdfLevels |-> {1, 3, 6}]
  /\ BitInit /\ OrderInit /\ FdInit /\ CInit /\ AtomicInit /\ FireInit /\ CodeInit
  /\ AddressInit /\ FlagInit /\ BoolInit /\ RecordInit /\ EdgeInit /\ FrameInit

LibraryNext ==
  /\ UNCHANGED component
  /\ IF component = "bits" THEN BitNext ELSE UNCHANGED bitVars
  /\ IF component = "order" THEN OrderNext ELSE UNCHANGED orderVars
  /\ IF component = "fds" THEN FdNext ELSE UNCHANGED fdVars
  /\ IF component = "strings" THEN CNext ELSE UNCHANGED cvars
  /\ IF component = "atomics" THEN AtomicNext ELSE UNCHANGED atomicVars
  /\ IF component = "fire" THEN FireNext ELSE UNCHANGED fireVars
  /\ IF component = "codes" THEN CodeNext ELSE UNCHANGED codeVars
  /\ IF component = "addresses" THEN AddressNext ELSE UNCHANGED addressVars
  /\ IF component = "flags" THEN FlagNext ELSE UNCHANGED flagVars
  /\ IF component = "booleans" THEN BoolNext ELSE UNCHANGED boolVars
  /\ IF component = "records" THEN RecordNext ELSE UNCHANGED recordVars
  /\ IF component = "edge" THEN EdgeNext ELSE UNCHANGED edgeVars
  /\ IF component = "frames" THEN FrameNext ELSE UNCHANGED frameVars

LibrarySpec == LibraryInit /\ [][LibraryNext]_libraryVars

----------------------------------------------------------------------------
(* The properties of the components, several to a name; BooleansTold is    *)
(* that of Booleans.                                                       *)

\* Every variable of the component in use has its type.
LibraryTypeOK ==
  /\ component = "bits" => BitTypeOK
  /\ component = "strings" => CTypeOK
  /\ component = "atomics" => AtomicTypeOK
  /\ component = "fire" => FireTypeOK
  /\ component = "codes" => CodeTypeOK
  /\ component = "addresses" => AddressTypeOK
  /\ component = "flags" => FlagTypeOK
  /\ component = "booleans" => BoolTypeOK
  /\ component = "records" => RecordTypeOK
  /\ component = "edge" => EdgeTypeOK
  /\ component = "frames" => FrameTypeOK

\* bitcount.h counts the ones and finds the lowest one of every word it is
\* asked about, but not the highest one, and a value sent by a host of either
\* byte order reaches a host of either order through the functions of endian.h,
\* unchanged unless one of two builds of the 64-bit swap meets the other.
WordsExact ==
  /\ component = "bits" => CountExact /\ LowestFound /\ LeadingZerosOff
  /\ component = "order" => WireValue

\* The bit array of an fd_set stands for the set of its descriptors, and a walk
\* with BK_FD_NEXT over a set that changes meets what stays in it (select.h).
FdWalk == component = "fds" => FdExact /\ WalkComplete

\* Comparisons and searches agree with their definitions on sequences, two
\* strings cut at once give their own tokens, numbers read back (string.h).
StringsExact == component = "strings" => SearchExact /\ TokensExact /\ NumbersReadBack

\* The copying functions of string.h write what they promise and nothing else.
CopiesExact == MoveExact /\ CopiesText

\* What goes in and out of an atomic word is neither lost nor duplicated when
\* contexts interleave: tickets, a drained counter, references, claimed bits.
CountersExact == component = "atomics" => Tickets /\ DrainsAll /\ FreedByLast /\ BitsExact

\* The lag history keeps the entries made first, newest in front, so that mercy
\* is 0 unless an update waited for t_lock behind one of a later time, and virtual
\* time never moves (tree_sched.h:882-930).
LagHistory == component = "fire" => HistoryIsOldest /\ NoMercy /\ NeverCaughtUp

\* Deadlines and steps of the system time are exact to the last place below the
\* limits of the fixed-point format and wrap at them (tree_sched.h:324, 1003).
FixedPointExact == DeadlineExact /\ SystemStep

\* System calls, statuses and types are told by their numbers, pages and frames
\* by their addresses, registers by their handles, and no better than stated.
NumbersTold ==
  /\ component = "codes" => CallsReached /\ StatusesTold /\ TypesTold
  /\ component = "addresses" => PagesCover /\ HandleTold

\* A flag and a field read as they were last written, except where two names
\* share a bit (thread.h:284) or a name is read in another word (proc.h:869).
FlagsTold == component = "flags" => WritesKeptApart /\ AskedRight
=============================================================================
