------------------------------ MODULE IpcWait ------------------------------
(***************************************************************************)
(* The synchronisation macros of ipc.h: BK_IPC_LOCK, _UNLOCK, _WAIT and    *)
(* _SIGNAL over a mutex object and a condition object.  The macros are     *)
(* made of bk_ipc_wait and bk_ipc_notify, which src/ only declares: an     *)
(* object is modelled by the notifications it remembers, and a wait may    *)
(* fail.  Takers wait until there is an item and take it, givers put one   *)
(* and signal, the way a condition is meant to be used.                    *)
(***************************************************************************)
EXTENDS Naturals, FiniteSets

CONSTANTS
  Takers, Givers,   \* the contexts: each takes or gives one item
  MaxFailures       \* waits that fail in a behaviour: a bound

ASSUME WaitAssumption ==
  /\ Takers \intersect Givers = {}
  /\ IsFiniteSet(Takers \union Givers)
  /\ MaxFailures \in Nat

Users == Takers \union Givers

VARIABLES
  memory,     \* of a condition: it keeps "none", the "last" or "all" signals
  token,      \* the mutex can be taken
  pending,    \* signals the condition remembers
  place,      \* the next step of each context
  items,
  lockFailures, condFailures,   \* history: waits on each object that failed
  missed      \* history: takers that a dropped signal was meant for

waitVars == <<memory, token, pending, place, items, lockFailures,
              condFailures, missed>>

WaitInit ==
  /\ memory \in {"none", "last", "all"}
  /\ token = 1
  /\ pending = 0
  /\ place = [p \in Users |-> "lock"]
  /\ items = 0
  /\ lockFailures = 0 /\ condFailures = 0
  /\ missed = {}

Goto(p, from, to) == place[p] = from /\ place' = [place EXCEPT ![p] = to]
First(p) == IF p \in Takers THEN "check" ELSE "give"
MayFail == lockFailures + condFailures < MaxFailures

\* Faulty variant: the wait sees the notification and leaves it there.
LockLooks(p) ==
  /\ Goto(p, "lock", First(p))
  /\ token = 1
  /\ UNCHANGED <<memory, token, pending, items, lockFailures, condFailures, missed>>

(* BK_IPC_LOCK: a wait on the mutex takes its notification ... *)
Lock(p) ==
  /\ Goto(p, "lock", First(p))
  /\ token = 1 /\ token' = 0
  /\ UNCHANGED <<memory, pending, items, lockFailures, condFailures, missed>>

(* ... or fails, and the branch for that case is empty: the caller goes on. *)
LockFails(p) ==
  /\ Goto(p, "lock", First(p))
  /\ MayFail
  /\ lockFailures' = lockFailures + 1
  /\ UNCHANGED <<memory, token, pending, items, condFailures, missed>>

\* Faulty variant: a mutex that is free is made free once more.
UnlockCounts(p) ==
  /\ Goto(p, "unlock", "done") \/ Goto(p, "release", "sleep")
  /\ token' = token + 1
  /\ UNCHANGED <<memory, pending, items, lockFailures, condFailures, missed>>

(* BK_IPC_UNLOCK, alone or as the first step of BK_IPC_WAIT. *)
Unlock(p) ==
  /\ Goto(p, "unlock", "done") \/ Goto(p, "release", "sleep")
  /\ token' = 1
  /\ UNCHANGED <<memory, pending, items, lockFailures, condFailures, missed>>

(* The taker's loop: take an item, or BK_IPC_WAIT and look again. *)
Check(p) ==
  /\ IF items > 0
     THEN Goto(p, "check", "unlock") /\ items' = items - 1
     ELSE Goto(p, "check", "release") /\ items' = items
  /\ UNCHANGED <<memory, token, pending, lockFailures, condFailures, missed>>

\* Faulty variant: a signal that came before the wait is not looked for.
SleepAlways(p) ==
  /\ Goto(p, "sleep", "asleep")
  /\ UNCHANGED <<memory, token, pending, items, lockFailures, condFailures, missed>>

(* The wait on the condition, a call of its own after the mutex is free:   *)
(* it returns at once if a signal is remembered, sleeps if none is, ...    *)
Sleep(p) ==
  /\ IF pending > 0
     THEN Goto(p, "sleep", "lock") /\ pending' = pending - 1
     ELSE Goto(p, "sleep", "asleep") /\ pending' = pending
  /\ UNCHANGED <<memory, token, items, lockFailures, condFailures, missed>>

(* ... and may fail; its result is not looked at, the mutex is taken again. *)
WaitFails(p) ==
  /\ Goto(p, "sleep", "lock") \/ Goto(p, "asleep", "lock")
  /\ MayFail
  /\ condFailures' = condFailures + 1
  /\ UNCHANGED <<memory, token, pending, items, lockFailures, missed>>

Give(p) ==
  /\ Goto(p, "give", "signal")
  /\ items' = items + 1
  /\ UNCHANGED <<memory, token, pending, lockFailures, condFailures, missed>>

(* BK_IPC_SIGNAL: wakes one sleeper; with none it is remembered or lost. *)
Asleep == {q \in Takers : place[q] = "asleep"}
Falling == {q \in Takers : place[q] \in {"release", "sleep"}}
Keeps == memory = "all" \/ (memory = "last" /\ pending = 0)

Signal(p) ==
  /\ place[p] = "signal"
  /\ IF Asleep # {}
     THEN /\ \E q \in Asleep :
               place' = [place EXCEPT ![p] = "unlock", ![q] = "lock"]
          /\ UNCHANGED <<pending, missed>>
     ELSE /\ place' = [place EXCEPT ![p] = "unlock"]
          /\ pending' = IF Keeps THEN pending + 1 ELSE pending
          /\ missed' = IF Keeps THEN missed ELSE missed \union Falling
  /\ UNCHANGED <<memory, token, items, lockFailures, condFailures>>

WaitNext ==
  \/ \E p \in Users : Lock(p) \/ LockFails(p) \/ Unlock(p)
  \/ \E p \in Takers : Check(p) \/ Sleep(p) \/ WaitFails(p)
  \/ \E p \in Givers : Give(p) \/ Signal(p)

WaitSpec == WaitInit /\ [][WaitNext]_waitVars

----------------------------------------------------------------------------
WaitTypeOK ==
  /\ memory \in {"none", "last", "all"}
  /\ token \in {0, 1}
  /\ pending \in 0 .. Cardinality(Givers)
  /\ place \in [Users -> {"lock", "check", "give", "signal", "unlock",
                          "release", "sleep", "asleep", "done"}]
  /\ items \in 0 .. Cardinality(Givers)
  /\ lockFailures \in 0 .. MaxFailures /\ condFailures \in 0 .. MaxFailures
  /\ missed \subseteq Takers

Inside == {p \in Users : place[p] \in {"check", "give", "signal", "unlock", "release"}}

(* Without a failed wait at most one context is between BK_IPC_LOCK and    *)
(* BK_IPC_UNLOCK; every wait that fails lets one more in, and as it gives  *)
(* back a mutex it never had, the harm may last after it has left.         *)
Exclusion == Cardinality(Inside) + token <= 1 + lockFailures

(* Nothing moves any more, there is an item, and a taker sleeps.  That     *)
(* happens only to takers for whom a signal was lost while they were       *)
(* between the unlock and the wait of BK_IPC_WAIT, which are two calls;    *)
(* to none if the condition remembers every signal.                        *)
Stuck == \A p \in Users : place[p] \in {"asleep", "done"}

NoLostWakeup ==
  Stuck /\ items > 0 =>
    Asleep \subseteq missed /\ (memory = "all" => Asleep = {})
============================================================================
