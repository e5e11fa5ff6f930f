----------------------------- MODULE FlagWords -----------------------------
(***************************************************************************)
(* The words of flags of processes, tasks, threads, activities, kernel     *)
(* objects, physical pages, interrupts and messages.  Some are a list of   *)
(* masks (#define), some a union of a word and a struct of bit-fields, and *)
(* some are named in one way and asked in the other.                       *)
(*                                                                         *)
(* A behaviour takes one word and writes to it, by mask or by field; what  *)
(* was written last to every name is kept beside the bits, as history.     *)
(***************************************************************************)
EXTENDS Integers, Sequences, Folds, Functions, TLC

CONSTANTS MaxWrites   \* writes of a behaviour

VARIABLES
  wordName,     \* the word this behaviour uses
  ones,     \* the bits that are 1
  written,  \* name |-> the value written to it last
  writes    \* writes so far

flagVars == <<wordName, ones, written, writes>>

----------------------------------------------------------------------------
(* Layouts: which bits a name stands for.                                  *)

\* Masks are listed from 0x1 upwards, each the double of the one before.
Masks(names) == [n \in Range(names) |-> {(CHOOSE i \in DOMAIN names : names[i] = n) - 1}]

\* Bit-fields fill their storage from the lowest bit.
Low(widths, i) == MapThenFoldSet(+, 0, LAMBDA j : widths[j], LAMBDA s : CHOOSE x \in s : TRUE,
                                 1 .. i - 1)
Packed(widths) == [i \in DOMAIN widths |-> Low(widths, i) .. Low(widths, i) + widths[i] - 1]
Bits(n) == [i \in 1 .. n |-> 1]

\* proc/thread.h
ThreadStates == Masks(<<"NEW", "READY", "RUNNING", "BLOCKED", "SLEEPING", "SUSPENDED",
  "TERMINATED", "ZOMBIE", "DEAD", "IDLE", "STOPPED", "TRACED">>)
FirstThreadFlags == Masks(<<"SYSTEM", "USER", "KERNEL", "DAEMON", "IDLE", "DETACHED",
  "SIGNALED", "STOPPED", "CONTINUED", "EXITING", "EXITCODE", "FORK", "EXEC", "VFORK",
  "PTRACED", "TRACING", "NO_PREEMPT", "PREEMPT", "MIGRATE", "BOUND", "CRITICAL", "REALTIME",
  "ISO", "BOOSTED", "THROTTLED", "FAILSAFE", "WAITQ_PROMOTED", "INHERIT_PRIO">>)
SecondThreadFlags == Masks(<<"SYSTEM", "USER", "KERNEL", "DAEMON", "IDLE", "DETACHED",
  "SIGNALED", "STOPPED", "CONTINUED", "EXITING", "EXEC", "VFORK", "PTRACED", "TRACING",
  "NO_PREEMPT", "PREEMPT", "MIGRATE", "BOUND", "CRITICAL", "REALTIME", "BOOSTED",
  "THROTTLED">>)
\* Faulty variant: the second definition of a flag is skipped, as by #ifndef.
ThreadFlagsFirst == FirstThreadFlags @@ SecondThreadFlags
\* The file defines its flags twice, and the later definition counts.
ThreadFlags == SecondThreadFlags @@ FirstThreadFlags

\* proc/task.h
TaskFlags == Masks(<<"64BIT_ADDR", "64BIT_DATA", "CPU_WARNING", "WAKE_WARNING", "GPU_DENIED",
  "PENDING_CORPSE", "CORPSE_FORK", "DARKWAKE_MODE", "NO_SMT", "COALITION_MEMBER",
  "NO_CORPSE_FORK", "HAS_PROC", "GAME_MODE", "CARPLAY_MODE", "TELEMETRY">>)
TaskProcFlags == Masks(<<"DID_EXEC", "EXEC_COPY">>)
TaskNotices   == Packed(Bits(5) \o <<27>>)
TaskLimits    == Packed(Bits(8))

\* proc/activity.h
ActivityStates == Masks(<<"READY", "RUNNING", "BLOCKED", "SUSPENDED", "COMPLETED", "FAILED",
  "CANCELLED", "WAITING", "TIMEDOUT", "MIGRATING", "DEFERRED">>)
ActivityFlags == Masks(<<"SYSTEM", "USER", "CRITICAL", "REALTIME", "IDLE", "BACKGROUND",
  "FOREGROUND", "DETACHED", "PERSISTENT", "NO_PREEMPT", "NO_MIGRATE", "INHERIT_PRIO",
  "BOOSTED", "THROTTLED", "WAITQ_PROMOTED", "OVERCOMMIT">>)
ActivityAsts == Masks(<<"PREEMPT", "YIELD", "SIGNAL", "TIMER", "URGENT", "INTERRUPT">>)

\* proc/proc.h
ProcessFlags  == Packed(Bits(10) \o <<2>> \o Bits(15) \o <<3, 1, 1>>)
ProcessFlags2 == Packed(Bits(12) \o <<3>> \o Bits(7) \o <<2>> \o Bits(4) \o <<3, 1>>)
ProcessFlags3 == Packed(Bits(32))
HangCounts    == Packed(<<3, 3, 1, 1>>)
Mitigations   == Packed(Bits(32))
Mitigations2  == Packed(Bits(32))
Mitigations3  == Packed(<<1, 1, 1, 29>>)
ProcessFlags4 == Packed(<<1, 1, 1, 1, 28>>)
SyscallUsage  == Packed(Bits(27) \o <<5>>)

\* incl/bible: kernl_object.h, ipc.h, interrupt.h, pmap.h, ctfs.h, bitmap.h, OSDMsg.h
ObjectFlags == Masks(<<"PERSISTENT", "VOLATILE", "SHARED", "PRIVATE", "KERNEL", "USER",
  "SYSTEM", "DYNAMIC", "STATIC", "INHERITABLE", "TRANSFERABLE", "SECURE", "VALIDATED",
  "LOCKED", "DELETED", "ZOMBIE">>)
IpcFlags == Masks(<<"CREATE", "EXCLUSIVE", "NONBLOCK", "PERSISTENT", "PRIVATE", "SHARED",
  "SECURE", "FASTPATH", "BUFFERED", "STREAM", "DATAGRAM", "RELIABLE", "ORDERED">>)
IpcPermissions == Masks(<<"READ", "WRITE", "EXECUTE", "OWNER", "GROUP", "OTHER", "TRANSFER">>)
InterruptFlags == Masks(<<"EDGE", "LEVEL", "MASKABLE", "NMI", "SHARED", "EXCLUSIVE",
  "HARDWARE", "SOFTWARE", "WAKEUP", "PERCPU", "REENTRANT", "EOI", "EOI_BEFORE", "EOI_AFTER">>)
\* BK_PM_PAGE_FREE is 0.
PageStates == ("FREE" :> {}) @@ Masks(<<"ALLOCATED", "RESERVED", "WIRED", "MODIFIED",
  "REFERENCED", "COW", "CACHE", "ZERO", "KERNEL", "USER", "SWAPPED", "GUARD">>)
RecordFlags == Masks(<<"INLINE", "COMPRESSED", "ENCRYPTED", "SPARSE", "DIRTY", "SYSTEM",
  "HIDDEN", "READONLY">>)
DriverMessageFlags == Masks(<<"SYNC", "ASYNC", "BLOCK", "NONBLOCK", "BROADCAST", "MULTICAST",
  "UNICAST", "ENCRYPTED", "SIGNED", "COMPRESSED", "URGENT", "NO_REPLY", "EXPECT_REPLY",
  "PERSISTENT", "PRIVATE", "SECURE", "FASTPATH">>)

Layout ==
  [thr_state |-> ThreadStates, thr_flags |-> ThreadFlags,
   task_flags |-> TaskFlags, task_proc_flags |-> TaskProcFlags,
   task_notices |-> TaskNotices, task_limits |-> TaskLimits,
   act_state |-> ActivityStates, act_flags |-> ActivityFlags, act_ast_flags |-> ActivityAsts,
   proc_flags |-> ProcessFlags, proc_flags2 |-> ProcessFlags2, proc_flags3 |-> ProcessFlags3,
   proc_hang_count |-> HangCounts, proc_mitigation_flags |-> Mitigations,
   proc_mitigation_flags2 |-> Mitigations2, proc_mitigation_flags3 |-> Mitigations3,
   proc_flags4 |-> ProcessFlags4, proc_syscall_usage |-> SyscallUsage,
   ko_flags |-> ObjectFlags, ipc_flags |-> IpcFlags, ipc_permissions |-> IpcPermissions,
   interrupt_flags |-> InterruptFlags, pp_flags |-> PageStates, fmr_flags |-> RecordFlags,
   msg_flags |-> DriverMessageFlags]

Unions == {"proc_flags", "proc_flags2", "proc_flags3", "proc_mitigation_flags",
           "proc_mitigation_flags2", "proc_mitigation_flags3", "proc_flags4",
           "proc_syscall_usage"}
FieldWords == Unions \cup {"task_notices", "task_limits", "proc_hang_count"}

\* The two views of a union have the same 32 bits.
ASSUME UnionsFilled == \A w \in Unions : UNION Range(Layout[w]) = 0 .. 31

----------------------------------------------------------------------------
Width(n) == IF Layout[wordName][n] = {} THEN 0 ELSE
  1 + CHOOSE d \in 0 .. 31 : \E low \in Layout[wordName][n] : Layout[wordName][n] = low .. low + d

Value(n) ==
  LET at == Layout[wordName][n]
      sum[i \in -1 .. 31] ==
        IF i = -1 THEN 0
        ELSE sum[i - 1] + (IF i \in at /\ i \in ones
                           THEN 2^(i - (CHOOSE low \in at : \A b \in at : low <= b)) ELSE 0)
  IN  sum[31]

----------------------------------------------------------------------------
FlagInit ==
  /\ wordName \in DOMAIN Layout
  /\ ones = {}
  /\ written = [n \in DOMAIN Layout[wordName] |-> 0]
  /\ writes = 0

Write(n, v, new) ==
  /\ ones' = new
  /\ written' = [written EXCEPT ![n] = v]
  /\ writes' = writes + 1
  /\ UNCHANGED wordName

\* Faulty variant: a flag is set by assignment.
SetFlagAlone(n) == Write(n, 1, Layout[wordName][n])

\* w |= mask: BK_THREAD_SET_FLAG, BK_TASK_SET_64BIT_ADDR, BK_PM_SET_PAGE_STATE
SetFlag(n) == Write(n, 1, ones \cup Layout[wordName][n])
\* w &= ~mask
ClearFlag(n) == Write(n, 0, ones \ Layout[wordName][n])

\* s.field = v: the value is cut to the width of the field.
AssignField(n, v) ==
  LET at  == Layout[wordName][n]
      low == CHOOSE b \in at : \A c \in at : b <= c
  IN  Write(n, v, (ones \ at) \cup {b \in at : (v \div 2^(b - low)) % 2 = 1})

FlagNext ==
  /\ writes < MaxWrites
  /\ \E n \in DOMAIN Layout[wordName] :
       \/ wordName \notin FieldWords /\ (SetFlag(n) \/ ClearFlag(n))
       \/ wordName \in FieldWords /\ \E v \in {0, 1, 2, 4, 8} : v <= 2^Width(n) /\ AssignField(n, v)

FlagSpec == FlagInit /\ [][FlagNext]_flagVars

----------------------------------------------------------------------------
(* Questions.                                                              *)

\* bk_object_is_valid, bk_object_is_alive, of an object whose type is valid
IsValid == Value("DELETED") = 0
IsAlive == IsValid /\ Value("ZOMBIE") = 0 /\ Value("DELETED") = 0

\* BK_PROCESS_IS_64BIT tests BK_TASK_FLAG_64BIT_ADDR, BK_PROCESS_IS_EXITING 1 << 2
Is64Bit   == ones \cap TaskFlags["64BIT_ADDR"] # {}
IsExiting == ones \cap {2} # {}
\* BK_PROCESS_IS_SYSTEM, BK_PROCESS_IS_CRASHED
IsSystem  == ones \cap {12} # {}
IsCrashed == ones \cap {2} # {}

----------------------------------------------------------------------------
FlagTypeOK ==
  /\ wordName \in DOMAIN Layout
  /\ ones \subseteq UNION Range(Layout[wordName])
  /\ writes \in 0 .. MaxWrites

Twins == {{"EXITCODE", "EXEC"}, {"FORK", "VFORK"}}
Twin(n) == \E t \in Twins : wordName = "thr_flags" /\ n \in t

\* Every flag and field reads as it was last written, whatever was written to
\* the others, in every word of the kernel; but two pairs of flags of a thread
\* have one bit since the second definition of half of them, and read alike
\* (thread.h:39-42, 284-285), and no page ever reads as free (pmap.h:40).
WritesKeptApart ==
  /\ \A n \in DOMAIN Layout[wordName] :
       ~Twin(n) => Value(n) = IF Layout[wordName][n] = {} THEN 0 ELSE written[n] % 2^Width(n)
  /\ wordName = "thr_flags" =>
       \A t \in Twins : \A m, n \in t : Value(m) = Value(n)

\* The questions asked by bit number are answered by the field they name, but
\* a process is taken for a 64-bit one when its creation has been reported: the
\* flag tested is one of a task (proc.h:869); a zombie is valid and not alive.
AskedRight ==
  /\ wordName = "proc_flags"  => /\ Is64Bit <=> written[1] % 2 = 1
                             /\ IsExiting <=> written[3] % 2 = 1
  /\ wordName = "proc_flags3" => /\ IsSystem <=> written[13] % 2 = 1
                             /\ IsCrashed <=> written[3] % 2 = 1
  /\ wordName = "ko_flags"    => /\ IsAlive <=> written["ZOMBIE"] = 0 /\ written["DELETED"] = 0
                             /\ IsValid /\ ~IsAlive <=>
                                  written["ZOMBIE"] = 1 /\ written["DELETED"] = 0
=============================================================================
