---------------------------- MODULE MCConcurrent ----------------------------
(***************************************************************************)
(* The instance of the spinlocks with interrupts and of the IPC waits for  *)
(* TLC.  The two share no memory: a behaviour uses one of them and leaves  *)
(* the other as it begins.                                                 *)
(***************************************************************************)
EXTENDS IrqLock, IpcWait

VARIABLE component   \* the one this behaviour uses

concurrentVars == <<component, lockVars, waitVars>>

ConcurrentInit ==
  /\ component \in {"locks", "waits"}
  /\ LockInit
  /\ WaitInit
  /\ component = "locks" => memory = "none"

ConcurrentNext ==
  \/ component = "locks" /\ LockNext /\ UNCHANGED <<component, waitVars>>
  \/ component = "waits" /\ WaitNext /\ UNCHANGED <<component, lockVars>>

ConcurrentSpec == ConcurrentInit /\ [][ConcurrentNext]_concurrentVars /\ LockFairness

\* Every variable of the two components has its type.
ConcurrentTypeOK == LockTypeOK /\ WaitTypeOK
=============================================================================
