------------------------------- MODULE Codes -------------------------------
(***************************************************************************)
(* The numbers the interfaces of the kernel give to things: system calls   *)
(* (syscalls.h), types of registers, exceptions and interrupts, which are  *)
(* all 16-bit types of registers (regsister.h, exception.h, interrupt.h),  *)
(* messages, drivers and statuses of the driver kit (OSDMsg.h, OSDTypes.h, *)
(* OSDErrno.h) and kernel objects (kernl_object.h).                        *)
(*                                                                         *)
(* The name of a call is the first number it was given.  A header is read  *)
(* line by line (Define), as the preprocessor does; a status is returned   *)
(* and put through the predicates of OSDErrno.h (Return); a type is met by *)
(* somebody who only has the number (Meet).                                *)
(***************************************************************************)
EXTENDS Integers, FiniteSets, Functions

VARIABLES
  line,       \* the number the next #define of syscalls.h gives
  callNumber, \* name |-> the number it stands for, of those defined so far
  status,     \* the status returned last
  answers,    \* the predicates that hold of it
  type,       \* the 16-bit type met last
  readings    \* the numberings it is a type of

codeVars == <<line, callNumber, status, answers, type, readings>>

----------------------------------------------------------------------------
(* System calls.                                                           *)

IoCalls         == 10000 .. 10055    \* READ ... GETSOCKOPT
ProcessCalls    == 10056 .. 10142    \* CLONE, FPROC, RPROC ... SCHED_SETPARAM
SchedulingCalls == 10143 .. 10255    \* SCHED_GETPARAM ... INOTIFY_RM_WATCH
RecentCalls     == 10256 .. 10361    \* MIGRATE_PAGES ... SET_MEMPOLICY_HOME_NODE
RepeatedCalls   == 10362 .. 10364    \* the last three a second time
CompatCalls     == 10365 .. 10500    \* CACHESTAT ... REMOVEXATTR_OLD
RelativeCalls   == 10501 .. 10546    \* FSYNC_RANGE, ..._RELATIVE ... SYS_FREEMEM
FloatCalls      == 10547 .. 10662    \* SYS_FPSIG ... SYS_FPGETENB
MemoryCalls     == 10663 .. 10699    \* SYS_MEM_INIT ... SYS_MEM_LOG
LastCall        == 10700             \* BIBLE_LAST_CALL
FamilyCall      == 10701             \* FCPROC

CallNumbers ==
  IoCalls \cup ProcessCalls \cup SchedulingCalls \cup RecentCalls \cup RepeatedCalls
    \cup CompatCalls \cup RelativeCalls \cup FloatCalls \cup MemoryCalls
    \cup {LastCall, FamilyCall}

Name(n) == IF n \in RepeatedCalls THEN n - 3 ELSE n

\* A name that is defined again stands for its new number.
Define ==
  /\ line \in CallNumbers /\ status = 0 /\ type = 0
  /\ callNumber' = [n \in DOMAIN callNumber \cup {Name(line)} |->
                      IF n = Name(line) THEN line ELSE callNumber[n]]
  /\ line' = line + 1
  /\ UNCHANGED <<status, answers, type, readings>>

----------------------------------------------------------------------------
(* Types.  Most numberings have one page of 256 for each kind of thing, of *)
(* which they use the first numbers.                                       *)

Page(base, last) == base .. base + last

\* 0xF000 stands for the users' range, up to 0xFFFF, of registers and exceptions.
RegisterTypes ==
  Page(\h0000, 4) \cup Page(\h0100, 3) \cup Page(\h0200, 4) \cup Page(\h0300, 7)
    \cup Page(\h0400, 2) \cup Page(\h0500, 3) \cup Page(\h0600, 3) \cup Page(\h0700, 2)
    \cup Page(\h0800, 2) \cup {\hF000}

ExceptionTypes ==
  Page(\h1000, 19) \cup Page(\h1100, 11) \cup Page(\h1200, 9) \cup Page(\h1300, 11)
    \cup Page(\h1400, 13) \cup Page(\h1500, 11) \cup Page(\h1600, 8) \cup Page(\h1700, 15)
    \cup {\hF000, \hF001, \hF100, \hF200, \hF300, \hF400, \hF500}

InterruptTypes ==
  Page(\h2000, 17) \cup Page(\h2100, 8) \cup Page(\h2110, 2) \cup Page(\h2200, 6)
    \cup Page(\h2300, 14) \cup Page(\h2310, 5) \cup Page(\h2400, 10) \cup Page(\h2500, 7)
    \cup Page(\h2600, 2)

MessageTypes ==
  Page(\h2000, 8) \cup Page(\h2100, 6) \cup Page(\h2200, 6) \cup Page(\h2300, 9)
    \cup Page(\h2400, 5) \cup Page(\h2500, 5) \cup {\h2600} \cup Page(\h2700, 6)
    \cup Page(\h2800, 4)

DriverTypes ==
  Page(\h0001, 7) \cup Page(\h0100, 7) \cup Page(\h0200, 7) \cup Page(\h0300, 5)
    \cup Page(\h0310, 2) \cup Page(\h0400, 3)

ObjectTypes ==
  Page(0, 4) \cup Page(100, 3) \cup Page(200, 3) \cup Page(300, 7) \cup Page(400, 6)
    \cup Page(500, 4) \cup Page(600, 3) \cup Page(700, 3) \cup Page(800, 2)
    \cup {1000, \hFFFF}

Numberings ==
  [register |-> RegisterTypes, exception |-> ExceptionTypes, interrupt |-> InterruptTypes,
   message |-> MessageTypes, driver |-> DriverTypes, object |-> ObjectTypes]

\* Only the number is known, not the numbering it was taken from.
Meet(t) ==
  /\ type' = t
  /\ readings' = {n \in DOMAIN Numberings : t \in Numberings[n]}
  /\ UNCHANGED <<line, callNumber, status, answers>>

----------------------------------------------------------------------------
(* Statuses of the driver kit; Below(a, b) is -a down to -b.               *)

Below(a, b) == -b .. -a

Success  == {0}
Warnings == 1 .. 8 \cup 100 .. 106 \cup 200 .. 204 \cup 300 .. 305 \cup 400 .. 404
              \cup 500 .. 504 \cup 600 .. 604
Failures == Below(1, 9) \cup Below(100, 108) \cup Below(200, 208) \cup Below(300, 308)
              \cup Below(400, 408) \cup Below(500, 507)
KeyErrors     == Below(600, 609) \cup Below(650, 660) \cup Below(680, 689) \cup Below(700, 705)
PiracyErrors  == Below(720, 729)
KarmaErrors   == Below(750, 756)
Interventions == Below(770, 773)
FsErrors      == Below(800, 804) \cup Below(820, 825) \cup Below(840, 843)
                   \cup Below(860, 864) \cup Below(880, 882) \cup Below(890, 895)
SystemErrors  == Below(900, 905) \cup Below(940, 941) \cup Below(950, 952)
BreachErrors  == Below(910, 912)
FormatErrors  == Below(920, 923) \cup Below(930, 933)

Statuses ==
  Success \cup Warnings \cup Failures \cup KeyErrors \cup PiracyErrors \cup KarmaErrors
    \cup Interventions \cup FsErrors \cup SystemErrors \cup BreachErrors \cup FormatErrors

\* Faulty variant: the security errors end where the piracy errors begin.
PredicateShort ==
  [success |-> {0}, warning |-> Nat \ {0}, critical |-> Int \ Nat,
   security |-> Below(600, 719), piracy |-> Below(720, 749), karma |-> Below(750, 769),
   intervention |-> Below(770, 789), format |-> Below(920, 933)]

\* OSD_IS_SUCCESS ... OSD_IS_FORMAT_ERROR
Predicate ==
  [success |-> {0}, warning |-> Nat \ {0}, critical |-> Int \ Nat,
   security |-> Below(600, 799), piracy |-> Below(720, 749), karma |-> Below(750, 769),
   intervention |-> Below(770, 789), format |-> Below(920, 933)]

Return(s) ==
  /\ status' = s
  /\ answers' = {p \in DOMAIN Predicate : s \in Predicate[p]}
  /\ UNCHANGED <<line, callNumber, type, readings>>

----------------------------------------------------------------------------
CodeInit ==
  /\ line = 10000 /\ callNumber = <<>>
  /\ status = 0 /\ answers = {"success"}
  /\ type = 0 /\ readings = {"register", "object"}

\* A behaviour reads the header or meets one number.
CodeNext ==
  \/ Define
  \/ /\ line = 10000 /\ status = 0 /\ type = 0
     /\ \/ \E s \in Statuses : Return(s)
        \/ \E t \in UNION {Numberings[n] : n \in DOMAIN Numberings} : Meet(t)

CodeSpec == CodeInit /\ [][CodeNext]_codeVars

----------------------------------------------------------------------------
CodeTypeOK ==
  /\ line \in CallNumbers \cup {FamilyCall + 1}
  /\ \A n \in DOMAIN callNumber : callNumber[n] \in CallNumbers
  /\ status \in Statuses
  /\ answers \subseteq DOMAIN Predicate /\ readings \subseteq DOMAIN Numberings

\* At every line of the header two names stand for two numbers, although three
\* names are defined twice; a program that reads all of it can call every
\* number but the three those names had at first, one of its calls being
\* beyond the number that is called the last (syscalls.h:384-389, 725, 729).
CallsReached ==
  LET reached == Range(callNumber)
  IN  /\ Cardinality(reached) = Cardinality(DOMAIN callNumber)
      /\ line > FamilyCall =>
           /\ CallNumbers \ reached = {n - 3 : n \in RepeatedCalls}
           /\ {n \in reached : n > LastCall} = {FamilyCall}

\* The predicates tell the statuses apart as the headings of the file do:
\* piracy, karma and intervention are within security, keys are security only,
\* and formatting is neither; but the three statuses that are named after a
\* breach of security are answered as critical and nothing else
\* (OSDErrno.h:298-300, 338).
StatusesTold ==
  LET told == answers \ {"critical"}
  IN  /\ "success" \in answers <=> status \in Success
      /\ "warning" \in answers <=> status \in Warnings
      /\ "critical" \in answers <=> status < 0
      /\ status \in PiracyErrors <=> told = {"security", "piracy"}
      /\ status \in KarmaErrors <=> told = {"security", "karma"}
      /\ status \in Interventions <=> told = {"security", "intervention"}
      /\ status \in KeyErrors <=> told = {"security"}
      /\ status \in FormatErrors <=> told = {"format"}
      /\ status \in BreachErrors => told = {}

\* The registers, exceptions and interrupts, which are told apart by the number
\* in the header of a register, have one range in common, where the numbers of
\* the users are in both; the messages of the driver kit have numbers of the
\* interrupts but of no register and no exception, so a driver that is sent an
\* interrupt and a message cannot take the one for a register
\* (regsister.h:159, exception.h:163, OSDMsg.h:53).
TypesTold ==
  /\ Cardinality(readings \cap {"register", "exception", "interrupt"}) > 1 <=> type = \hF000
  /\ "message" \in readings => readings \subseteq {"message", "interrupt"}
=============================================================================
