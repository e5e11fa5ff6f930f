---------------------------- MODULE VirtualFire ----------------------------
(***************************************************************************)
(* The accounting of one node of incl/bible/tree_sched.h: the fixed-point  *)
(* arithmetic, the lag history kept as a linked list, and the formulas     *)
(* bk_sched_node_update chains together.  TreeSched takes the resulting    *)
(* Virtual Fire as any value and interleaves the calls; here the calls are *)
(* whole, on one node, and the values are computed.                        *)
(*                                                                         *)
(* A word has 2 * FracBits bits, half of them integer, as bk_fixed_t has   *)
(* 32; the parameters of the formulas are those of the source reduced to   *)
(* that width.  n_total_time is proved constant in TreeSchedProofs.        *)
(***************************************************************************)
EXTENDS Integers, Sequences, Functions

CONSTANTS
  FracBits,      \* fraction bits of bk_fixed_t (16)
  HistoryMax,    \* BK_SCHED_HISTORY_MAX (64)
  Params,        \* t_tau ... t_epsilon
  Requests, DefaultRequest,
  Weights, DefaultWeight,
  NodeCounts,    \* values of t_count
  MaxTime,       \* bound on the time passed as "now"
  MaxUpdates,    \* bound on the calls of bk_sched_node_update
  MaxSystem      \* bound on the calls of bk_sched_update_system_time

ASSUME FormatAssumption ==
  /\ FracBits \in Nat \ {0}
  /\ HistoryMax \in Nat \ {0}
  /\ DOMAIN Params = {"tau", "gamma", "theta", "lambda", "eta", "mu",
                      "omega", "kappa", "alpha", "delta", "epsilon"}
  /\ DefaultRequest \in Requests /\ DefaultWeight \in Weights
  /\ Requests \cup Weights \cup NodeCounts \subseteq Nat

VARIABLES
  request, weight,          \* n_request, n_weight
  virtualTime,              \* n_virtual_time
  lag, vd, vdStar, mercy,   \* n_lag, n_vd, n_vd_star, n_mercy
  suffering,                \* n_suffering_lag
  cost, virtualFire, realFire,
  head, next, entry,        \* n_lag_history: lh_first, le_next, time and value
  historyCount,             \* n_history_count
  lastStart, lastFinish, errorAccum,
  systemTime, nodeCount,    \* t_system_time, t_count
  now,
  held,                     \* why t_lock is never released, or "no"
  updates, systemUpdates,   \* calls made
  samples, failures         \* every lag offered to the history, failed allocations

parameters == <<request, weight>>
formulas   == <<virtualTime, lag, suffering, vd, vdStar, mercy, cost, virtualFire, realFire, errorAccum>>
history    == <<head, next, entry, historyCount, samples, failures>>
times      == <<lastStart, lastFinish, now>>
system     == <<systemTime, nodeCount, systemUpdates>>
fireVars   == <<parameters, formulas, history, times, system, held, updates>>

Base    == 0                 \* the entry at BK_VM_KERNEL_BASE: a failed allocation
Entries == 0 .. HistoryMax
End     == -1                \* NULL

----------------------------------------------------------------------------
(* Fixed-point arithmetic; words are unsigned.                             *)

One  == 2 ^ FracBits
Modulus == One * One

\* Of a power of 2 the provers know nothing.  The parameters are words, and
\* epsilon, against which distances are compared, is not negative.
ASSUME ParamsAssumption ==
  /\ One \in Nat /\ One >= 2
  /\ \A p \in DOMAIN Params : Params[p] \in 0 .. Modulus - 1
  /\ Params.epsilon <= Modulus \div 2

FromInt(x) == (x % One) * One
ToInt(x)   == x \div One
Mul(a, b)  == ((a * b) \div One) % Modulus
\* Faulty variant: the dividend is not shifted.
DivUnscaled(a, b) == IF b = 0 THEN 0 ELSE (a \div b) % Modulus
Div(a, b)  == IF b = 0 THEN 0 ELSE ((a * One) \div b) % Modulus
Negate(x)     == (0 - x) % Modulus
Abs(x)     == IF x >= Modulus \div 2 THEN Negate(x) ELSE x
Larger(a, b) == IF a > b THEN a ELSE b

Exp(x) ==
  LET x2 == Mul(x, x)
      x3 == Mul(x2, x)
      x4 == Mul(x3, x)
  IN  (One + x + Div(x2, FromInt(2)) + Div(x3, FromInt(6)) + Div(x4, FromInt(24))) % Modulus

----------------------------------------------------------------------------
(* The formulas.  A history h is the sequence of entries in list order.    *)

Sum(f) == FoldFunction(LAMBDA a, b : (a + b) % Modulus, 0, f)

\* Faulty variant: the quotient is not truncated to its integer part.
DeadlineScaled(r, w) == Div(FromInt(r), w)
\* n_ve is 0 from creation on.
Deadline(r, w) == ToInt(Div(FromInt(r), w))

CalcLag(lagIce) == Mul(lagIce, Exp(Div(Abs(lagIce), Params.tau)))

TimeLag(d, l, s) ==
  LET apart == Larger(Params.epsilon, (FromInt(d) - s) % Modulus)
  IN  (FromInt(d) + Div(l, apart)) % Modulus

\* The interval an entry stands for: up to the next entry of the list, up to
\* the present for the last one.
Span(h, i, t) == (IF i < Len(h) THEN h[i + 1].time ELSE t) - h[i].time

SufferingLag(h, l, t) ==
  LET past     == {i \in 1 .. Len(h) : t - h[i].time > 0}
      decay(i) == Exp(Negate(Div(FromInt(t - h[i].time), Params.theta)))
      integral == Sum([i \in past |-> Mul(Abs(h[i].value), decay(i))])
  IN  Mul(l, (One + Mul(Params.gamma, integral)) % Modulus)

Mercy(h, s, vi, t) ==
  LET weighed == {i \in 1 .. Len(h) : Span(h, i, t) > 0}
      felt    == Sum([i \in weighed |-> Mul(Abs(h[i].value), FromInt(Span(h, i, t)))])
      phi     == Exp(Mul(Negate(Params.eta), felt))
      decay   == Exp(Div(Negate((s - vi) % Modulus), Params.lambda))
  IN  Sum([i \in weighed |->
             Mul(Mul(Mul(h[i].value, decay), phi), FromInt(Span(h, i, t)))])

Debt(h, t) ==
  LET past      == {i \in 1 .. Len(h) : t - h[i].time > 0}
      age(i)    == FromInt(t - h[i].time)
      decay(i)  == Exp(Negate(Div(age(i), Params.mu)))
      integral1 == Sum([i \in past |-> Mul(Mul(h[i].value, decay(i)), age(i))])
      integral2 == Sum([i \in past |-> Mul(Abs(h[i].value), age(i))])
  IN  (integral1 + Mul(Params.omega, integral2)) % Modulus

Fire(d, m, vtl) ==
  LET power[i \in 0 .. ToInt(Params.alpha)] ==
        IF i = 0 THEN One ELSE Mul(power[i - 1], Abs(vtl))
      numerator == Mul(FromInt(d), Exp(Div(Negate(m), Params.kappa)))
  IN  Div(numerator, (One + power[ToInt(Params.alpha)]) % Modulus)

VirtualError(d, m, vtl) == Div((FromInt(d) - m) % Modulus, (One + Abs(vtl)) % Modulus)

Cost(star, m, vtl, debt) ==
  LET pity == (One - Exp(Div(Negate(m), Params.delta))) % Modulus
  IN  (VirtualError(star, m, vtl) + Mul(Mul(Params.kappa, Abs(debt)), pity)) % Modulus

RealFire(d, m) == IF m > 0 THEN 0 ELSE FromInt(d)

----------------------------------------------------------------------------
FireInit ==
  /\ request = DefaultRequest /\ weight = DefaultWeight
  /\ virtualTime = 0 /\ lag = 0 /\ vd = 0 /\ vdStar = 0 /\ mercy = 0
  /\ suffering = 0 /\ cost = 0 /\ virtualFire = 0 /\ realFire = 0 /\ errorAccum = 0
  /\ head = End
  /\ next = [e \in Entries |-> End]
  /\ entry = [e \in Entries |-> [time |-> 0, value |-> 0]]
  /\ historyCount = 0
  /\ lastStart = 0 /\ lastFinish = 0 /\ now = 0
  /\ systemTime = 0 /\ nodeCount \in NodeCounts
  /\ held = "no" /\ updates = 0 /\ systemUpdates = 0
  /\ samples = <<>> /\ failures = 0

FireTick ==
  /\ now < MaxTime
  /\ now' = now + 1
  /\ UNCHANGED <<parameters, formulas, history, lastStart, lastFinish, system, held, updates>>

SetWeight(w) ==
  /\ weight' = w
  /\ UNCHANGED <<request, formulas, history, times, system, held, updates>>

SetRequest(r) ==
  /\ request' = r
  /\ UNCHANGED <<weight, formulas, history, times, system, held, updates>>

\* bk_sched_pick_next, of which the node's accounting reads n_last_start.
Start ==
  /\ lastStart' = now
  /\ UNCHANGED <<parameters, formulas, history, lastFinish, now, system, held, updates>>

UpdateSystemTime ==
  /\ systemUpdates < MaxSystem
  /\ systemTime' = (systemTime + Div(One, FromInt(nodeCount))) % Modulus
  /\ systemUpdates' = systemUpdates + 1
  /\ UNCHANGED <<parameters, formulas, history, times, nodeCount, held, updates>>

\* bk_sched_finish_node takes t_lock and calls bk_sched_node_update, which
\* takes it again.
FinishNode ==
  /\ lastFinish' = now
  /\ held' = "finish"
  /\ UNCHANGED <<parameters, formulas, history, lastStart, now, system, updates>>

\* The entries from first on, in order, as far as one more than there are.
Follow(first, links) ==
  LET at[i \in 1 .. HistoryMax + 2] ==
        IF i = 1 THEN first ELSE IF at[i - 1] = End THEN End ELSE links[at[i - 1]]
      reached == {i \in 1 .. HistoryMax + 2 : at[i] # End}
  IN  [i \in reached |-> at[i]]

Loops(first, links) == Len(Follow(first, links)) > HistoryMax + 1

\* Faulty variant: the new entry goes to the end of the list.
PushAtTail(e) ==
  LET chain == Follow(head, next)
  IN  IF head = End
      THEN head' = e /\ next' = [next EXCEPT ![e] = End]
      ELSE head' = head /\ next' = [next EXCEPT ![chain[Len(chain)]] = e, ![e] = End]

\* BK_LIST_INSERT_HEAD
Push(e) ==
  /\ next' = [next EXCEPT ![e] = head]
  /\ head' = e

\* A failed allocation answers 0 and its entry is the one at the kernel base,
\* which the test of the pointer takes for a good one.
Allocated(e, failed) == e = IF failed THEN Base ELSE historyCount + 1 - failures

\* Faulty variant: the count of the history is never tested.
RecordUnbounded(failed, t) ==
  \E e \in Entries :
    /\ e = IF failed THEN Base ELSE 1 + ((historyCount - failures) % HistoryMax)
    /\ entry' = [entry EXCEPT ![e] = [time |-> t, value |-> lag]]
    /\ Push(e)
    /\ historyCount' = historyCount + 1
    /\ failures' = failures + (IF failed THEN 1 ELSE 0)

Record(failed, t) ==
  \/ /\ historyCount < HistoryMax
     /\ \E e \in Entries :
          /\ Allocated(e, failed)
          /\ entry' = [entry EXCEPT ![e] = [time |-> t, value |-> lag]]
          /\ Push(e)
     /\ historyCount' = historyCount + 1
     /\ failures' = failures + (IF failed THEN 1 ELSE 0)
  \/ /\ historyCount = HistoryMax /\ ~failed
     /\ UNCHANGED <<head, next, entry, historyCount, failures>>

Executed == IF lastStart # 0 /\ lastFinish # 0 THEN FromInt(lastFinish - lastStart) ELSE 0

\* What the update computes once the history is in place.
Recompute(t) ==
  LET h      == [i \in DOMAIN Follow(head', next') |-> entry'[Follow(head', next')[i]]]
      newLag == CalcLag((systemTime - virtualTime') % Modulus)
      d      == Deadline(request, weight)
      vtl    == TimeLag(d, newLag, systemTime)
      m      == Mercy(h, systemTime, virtualTime', t)
      star   == Larger(0, d - ToInt(m))
  IN  /\ lag' = newLag /\ vd' = d /\ mercy' = m /\ vdStar' = star
      /\ suffering' = SufferingLag(h, newLag, t)
      /\ virtualFire' = Fire(d, m, vtl)
      /\ cost' = Cost(star, m, vtl, Debt(h, t))
      /\ realFire' = RealFire(d, m)
      /\ errorAccum' = (errorAccum + virtualTime' - systemTime) % Modulus

\* bk_sched_node_update at the time t, which the caller has read before it waits
\* for t_lock; the walks over a history that loops never end, and t_lock is held
\* while they run.
NodeUpdate(failed, t) ==
  /\ updates < MaxUpdates
  /\ updates' = updates + 1
  /\ virtualTime' = virtualTime + Executed
  /\ samples' = Append(samples, [time |-> t, value |-> lag])
  /\ Record(failed, t)
  /\ \/ /\ Loops(head', next')
        /\ held' = "loop"
        /\ UNCHANGED <<lag, suffering, vd, vdStar, mercy, cost, virtualFire, realFire, errorAccum>>
     \/ /\ ~Loops(head', next')
        /\ held' = held
        /\ Recompute(t)
  /\ UNCHANGED <<parameters, times, system>>

IsJust == Abs((virtualTime - systemTime) % Modulus) < Params.epsilon

FireNext ==
  /\ held = "no"
  /\ \/ FireTick
     \/ \E w \in Weights : SetWeight(w)
     \/ \E r \in Requests : SetRequest(r)
     \/ Start
     \/ UpdateSystemTime
     \/ FinishNode
     \/ \E failed \in BOOLEAN, t \in 0 .. now : NodeUpdate(failed, t)

FireSpec == FireInit /\ [][FireNext]_fireVars

----------------------------------------------------------------------------
(* Properties.                                                             *)

FireTypeOK ==
  /\ request \in Requests /\ weight \in Weights
  /\ {virtualTime, lag, suffering, mercy, cost, virtualFire, realFire, errorAccum, systemTime}
       \subseteq 0 .. Modulus - 1
  /\ {vd, vdStar} \subseteq 0 .. One - 1
  /\ head \in Entries \cup {End}
  /\ next \in [Entries -> Entries \cup {End}]
  /\ historyCount \in 0 .. HistoryMax
  /\ held \in {"no", "loop", "finish"}

Reversed(s) == [i \in DOMAIN s |-> s[Len(s) + 1 - i]]

\* With one failed allocation or none the history lists the first HistoryMax
\* lags offered, newest first, and never a later one; with two the entry at
\* the kernel base is linked behind itself and the update that does it walks
\* round for ever, holding t_lock (bk_sched_node_update, lines 894-905).
HistoryIsOldest ==
  LET kept == SubSeq(samples, 1, IF Len(samples) < HistoryMax THEN Len(samples) ELSE HistoryMax)
      list == Follow(head, next)
  IN  /\ failures < 2 => [i \in DOMAIN list |-> entry[list[i]]] = Reversed(kept)
      /\ held = "loop" <=> failures >= 2

InTimeOrder(lags) == \A i \in 1 .. Len(lags) : i < Len(lags) => lags[i].time <= lags[i + 1].time

\* Whatever the lags, as long as the updates get t_lock in the order of their
\* times, mercy is 0 and the adjusted deadline is the deadline: the history is
\* newest first, so only its oldest entry spans a positive interval, and that
\* entry holds the lag of a new node, 0 (sched_calc_mercy, lines 428-430).
NoMercy ==
  InTimeOrder(samples) =>
    mercy = 0 /\ vdStar = vd /\ (updates > 0 /\ held = "no" => realFire = FromInt(vd))

\* An update leaves the deadline VDi = ri/wi, rounded down, only for a request
\* that fits the integer bits; a larger one counts modulo 2 ^ FracBits, as the
\* default request of 10,000,000 does with 16 bits (sched_calc_vd, line 324).
DeadlineExact ==
  [][\A failed \in BOOLEAN, t \in 0 .. now :
       LET seen == request % One IN
       NodeUpdate(failed, t) /\ held' = "no" /\ seen < weight =>
         vd' * weight <= seen * One /\ seen * One < (vd' + 1) * weight]_fireVars

\* Together the nodes are given at most one unit of virtual time by an update
\* of the system time, and all but less than a unit in the last place each,
\* while there are fewer nodes than the integer bits count; with exactly that
\* many the time stands still, and with more it runs as if there were few
\* (bk_sched_update_system_time, line 1003).
SystemStep ==
  [][UpdateSystemTime =>
       LET step  == (systemTime' - systemTime) % Modulus
           seen  == nodeCount % One
       IN  IF seen = 0 THEN step = 0
           ELSE step * seen <= One /\ (step + 1) * seen > One]_fireVars

\* A node stays just only until the system time has moved: virtual time is
\* added by nobody, because the finish it is computed from never gives the
\* lock back (bk_sched_is_just, and the errors bk_sched_node_update adds up).
NeverCaughtUp ==
  /\ virtualTime = 0
  /\ IsJust <=> (systemTime < Params.epsilon \/ systemTime > Modulus - Params.epsilon)
=============================================================================
