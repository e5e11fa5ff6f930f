----------------------------- MODULE Addresses -----------------------------
(***************************************************************************)
(* The arithmetic on addresses, all of it macros and inline functions:     *)
(* handles of registers (regsister.h), pages of virtual memory (vm.h) and  *)
(* frames of physical memory (pmap.h).                                     *)
(*                                                                         *)
(* A behaviour asks for some memory, is given an address, makes a register *)
(* of a type out of what is there and a handle of the register.            *)
(***************************************************************************)
EXTENDS Integers

CONSTANTS
  AddressBits,    \* of an address, a size and a handle (64)
  PageShift,      \* BK_VM_PAGE_SHIFT, BK_PM_PAGE_SHIFT (12)
  FrameBits,      \* of a page count and a frame number (32)
  IntWidth,       \* of an int (32)
  TypeShift,      \* where BK_REGISTER_TYPE looks for the type (48)
  UserEnd, KernelBase,
  Types, AskedSizes, Places   \* the types, sizes and addresses tried

TypeBits == AddressBits - TypeShift   \* ones of BK_REGISTER_TYPE_MASK (16)

ASSUME AddressAssumption ==
  /\ {AddressBits, PageShift, FrameBits, IntWidth, TypeShift, UserEnd, KernelBase} \subseteq Nat
  /\ PageShift + FrameBits < AddressBits
  /\ PageShift < TypeBits /\ TypeBits < IntWidth /\ TypeShift = IntWidth + TypeBits
  /\ UserEnd < 2^(TypeShift - 1)
  /\ \E k \in 1 .. TypeShift - 1 : KernelBase = 2^AddressBits - 2^k
  /\ Types \subseteq 0 .. 2^TypeBits - 1
  /\ AskedSizes \cup Places \subseteq 0 .. 2^AddressBits - 1

\* The powers of 2 up to the width of an address, which the provers do not compute.
ASSUME AddressPowers ==
  2^0 = 1 /\ \A i \in 0 .. AddressBits : 2^i \in Nat /\ 2^(i + 1) = 2 * 2^i

VARIABLES
  asked, pages,       \* what was asked for, and in pages
  place,             \* the address, or -1 before there is one
  frame,             \* the number of its frame
  regType, handle    \* the register's type and handle, -1 before

addressVars == <<asked, pages, place, frame, regType, handle>>

----------------------------------------------------------------------------
PageSize == 2^PageShift
Wrapped(n) == n % 2^AddressBits

\* bk_vm_round_down, bk_pm_align_down and the macros
RoundDown(n) == n - (n % PageSize)
\* bk_vm_round_up, bk_pm_align_up
RoundUp(n) == RoundDown(Wrapped(n + PageSize - 1))

\* Faulty variant: the last, partial page is not counted.
SizeToPagesFloor(n) == (n \div PageSize) % 2^FrameBits
\* bk_vm_size_to_pages
SizeToPages(n) == (Wrapped(n + PageSize - 1) \div PageSize) % 2^FrameBits
\* bk_vm_pages_to_size, bk_pm_frame_to_addr
PagesToSize(n) == Wrapped(n * PageSize)
\* bk_pm_addr_to_frame
AddrToFrame(a) == (a \div PageSize) % 2^FrameBits

IsUser(a)   == a <= UserEnd
IsKernel(a) == a >= KernelBase
IsAddress(a)  == IsUser(a) \/ IsKernel(a)

----------------------------------------------------------------------------
\* BK_REGISTER_TYPE(handle)
TypeOf(h) == h \div 2^TypeShift

\* BK_REGISTER_FROM_HANDLE clears the bits of the mask where they stand.
FromHandle(h) == h - (h % 2^TypeBits)

BitOr(a, b) ==
  LET bit(i) == IF (a \div 2^i) % 2 = 1 \/ (b \div 2^i) % 2 = 1 THEN 2^i ELSE 0
      sum[i \in 0 .. AddressBits] == IF i = 0 THEN 0 ELSE sum[i - 1] + bit(i - 1)
  IN  sum[AddressBits]

SignExtended(n) == IF n < 2^(IntWidth - 1) THEN n ELSE Wrapped(n - 2^IntWidth)

\* Faulty variant: the type is widened before it is shifted.
ToHandleWide(a, t) == {BitOr(a, t * 2^TypeShift)}

\* BK_REGISTER_TO_HANDLE shifts an int by more than its width, which has no
\* defined result: a compiler that knows the type makes 0 of it, the shift
\* instruction takes the count modulo the width.
ToHandle(a, t) ==
  {a, BitOr(a, SignExtended((t * 2^(TypeShift % IntWidth)) % 2^IntWidth))}

----------------------------------------------------------------------------
AddressInit ==
  /\ asked \in AskedSizes
  /\ pages = SizeToPages(asked)
  /\ place = -1 /\ frame = -1 /\ regType = -1 /\ handle = -1

Allocate ==
  /\ place = -1
  /\ \E a \in Places :
       /\ IsAddress(a)
       /\ place' = a
       /\ frame' = AddrToFrame(a)
  /\ UNCHANGED <<asked, pages, regType, handle>>

MakeHandle ==
  /\ place # -1 /\ handle = -1
  /\ \E t \in Types :
       /\ regType' = t
       /\ handle' \in ToHandle(place, t)
  /\ UNCHANGED <<asked, pages, place, frame>>

AddressNext == Allocate \/ MakeHandle
AddressSpec == AddressInit /\ [][AddressNext]_addressVars

----------------------------------------------------------------------------
AddressTypeOK ==
  /\ pages \in 0 .. 2^FrameBits - 1
  /\ place \in Places \cup {-1}
  /\ frame \in -1 .. 2^FrameBits - 1
  /\ regType \in Types \cup {-1}
  /\ handle \in -1 .. 2^AddressBits - 1

\* The pages counted hold what was asked for and less than a page more, and are
\* the size rounded up, except for a size in the last page of all, which is 0
\* pages, and for one of more pages than an unsigned int counts
\* (bk_vm_size_to_pages, vm.h:246); the frame of an address leads back to its
\* page unless its number is too long (pmap.h:243).
PagesCover ==
  /\ LET given == PagesToSize(pages) IN
     IF asked > 2^AddressBits - PageSize THEN pages = 0 /\ RoundUp(asked) = 0
     ELSE IF RoundUp(asked) < 2^(PageShift + FrameBits)
          THEN given \in asked .. asked + PageSize - 1 /\ given = RoundUp(asked)
          ELSE given < asked
  /\ place # -1 =>
       (PagesToSize(frame) = RoundDown(place)) <=> (place < 2^(PageShift + FrameBits))

\* A handle leads back to its register only if the register is at a multiple of
\* 2 ^ TypeBits and the shift has left no trace; the type read from a handle is
\* what the upper bits of the address are, so that no type but 0 is ever told,
\* and that of no register in the kernel's memory (regsister.h:226-235).
HandleTold ==
  handle # -1 =>
    /\ FromHandle(handle) = place <=> handle = place /\ place % 2^TypeBits = 0
    /\ regType # 0 => TypeOf(handle) # regType \/ regType = 2^TypeBits - 1
    /\ IsKernel(place) => TypeOf(handle) = 2^TypeBits - 1
=============================================================================
