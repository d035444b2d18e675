--------------------------- MODULE CheckQueueProof ---------------------------
(***************************************************************************)
(* Proofs about CheckQueue for any number of workers, of threads that       *)
(* connect blocks and of checks: the counters are exact, Wait returns the   *)
(* conjunction of the checks, and it leaves nothing behind.                 *)
(***************************************************************************)
EXTENDS CheckQueue, FiniteSetTheorems, TLAPS

(* Where a thread can be, by what it is and by what it holds.               *)
Places ==
    /\ \A t \in Thread : (batch[t] # {}) <=> (pc[t] \in {"run", "ran"})
    /\ \A w \in Worker : pc[w] \in {"start", "waiting", "woken", "run", "ran", "gone"}
    /\ \A m \in Master : pc[m] # "gone" /\ (pc[m] = "away" <=> control # m)

(* What the results found so far say about the checks of the control.       *)
Results ==
    /\ Outstanding \subseteq submitted
    /\ control = NoMaster => submitted = {}
    /\ \A t \in Thread : ~fOk[t] => batch[t] # {} /\ ~(submitted \subseteq Passes)
    /\ ~fAllOk => ~(submitted \subseteq Passes)
    /\ \A t \in Thread : pc[t] = "ran" /\ ~(batch[t] \subseteq Passes) => ~fOk[t]
    /\ (\A m \in Master : pc[m] # "done") =>
           \A c \in submitted \ Passes : ~fAllOk \/ c \in Outstanding

IInv ==
    /\ TypeOK /\ Places /\ TodoExact /\ CountersExact /\ Results
    /\ NothingLeft /\ VerdictExact

-----------------------------------------------------------------------------
(* What Settle is called with: t has come out of start, of a wait or of a   *)
(* batch, and the arguments are the counters without its batch and its      *)
(* idling.                                                                  *)
Arguments(t, pcs, idle, total, todo, ok) ==
    /\ pc[t] \in {"start", "woken", "ran"}
    /\ pcs \in [Thread -> {"away", "control", "start", "waiting", "woken", "run", "ran",
                           "done", "gone"}]
    /\ pcs[t] = pc[t]
    /\ \A u \in Thread : pcs[u] = pc[u] \/ (pc[u] = "waiting" /\ pcs[u] = "woken")
    /\ idle \in Nat /\ total \in Nat /\ todo \in Nat /\ ok \in BOOLEAN
    /\ idle = Cardinality({u \in Thread : pc[u] \in Idling} \ {t})
    /\ total = Cardinality({u \in Thread : pc[u] \in Counted} \cup {t})
    /\ todo = Cardinality(Outstanding \ batch[t])
    /\ ok <=> (fAllOk /\ fOk[t])

(* Sets of threads and of checks are finite.                                *)
LEMMA Finite ==
    ASSUME TypeOK
    PROVE  /\ \A S \in SUBSET Thread : IsFiniteSet(S) /\ Cardinality(S) \in Nat
           /\ \A S \in SUBSET Check : IsFiniteSet(S) /\ Cardinality(S) \in Nat
           /\ Outstanding \in SUBSET Check
<1>1. IsFiniteSet(Thread)
  BY QueueAssumption, FS_Union, Zenon DEF QueueAssumption, Thread
<1>2. \A S \in SUBSET Thread : IsFiniteSet(S)
  BY <1>1, FS_Subset, Zenon
<1>3. \A S \in SUBSET Check : IsFiniteSet(S)
  BY QueueAssumption, FS_Subset, Zenon DEF QueueAssumption
<1>4. Outstanding \in SUBSET Check
  BY DEF TypeOK, Outstanding
<1> QED BY <1>2, <1>3, <1>4, FS_CardinalityType, Zenon

(* A thread that takes checks takes at least one.                           *)
LEMMA SomeTaken ==
    ASSUME NEW S, NEW total, NEW idle, IsFiniteSet(S),
           Cardinality(S) = nNow(Cardinality(queue), total, idle)
    PROVE  S # {}
<1> SUFFICES ASSUME S = {} PROVE FALSE
  BY Zenon
<1>1. Cardinality(S) = 0
  BY FS_EmptySet, Zenon
<1>2. nNow(Cardinality(queue), total, idle) # 0
  BY DEF nNow
<1> QED BY <1>1, <1>2, Zenon

(* What the critical section of Loop does to the checks in hand.            *)
LEMMA SettleOutstanding ==
    ASSUME IInv, NEW t \in Thread, NEW pcs, NEW idle, NEW total, NEW todo, NEW ok,
           Arguments(t, pcs, idle, total, todo, ok),
           Settle(t, pcs, idle, total, todo, ok)
    PROVE  /\ Outstanding' = Outstanding \ batch[t]
           /\ queue' \subseteq Check
           /\ batch' \in [Thread -> SUBSET Check]
           /\ \A u \in Thread : u # t => batch'[u] = batch[u]
           /\ \A u \in Thread : batch'[u] \cap queue' = {}
           /\ \A u, v \in Thread : u # v => batch'[u] \cap batch'[v] = {}
           /\ batch'[t] \subseteq queue
           /\ batch'[t] # {} <=> pc'[t] = "run"
<1> USE DEF IInv, TypeOK, TodoExact
<1>1. CASE queue = {} /\ batch' = [batch EXCEPT ![t] = {}] /\ queue' = queue /\ pc'[t] # "run"
  <2>1. /\ batch' \in [Thread -> SUBSET Check] /\ batch'[t] = {}
        /\ \A u \in Thread : u # t => batch'[u] = batch[u]
    BY <1>1, Zenon
  <2>2. Outstanding' = Outstanding \ batch[t]
    BY <1>1, <2>1 DEF Outstanding
  <2> QED BY <1>1, <2>1, <2>2, Zenon
<1>2. ASSUME NEW taken \in SUBSET queue,
             Cardinality(taken) = nNow(Cardinality(queue), total, idle),
             queue' = queue \ taken, batch' = [batch EXCEPT ![t] = taken], pc'[t] = "run"
      PROVE  /\ Outstanding' = Outstanding \ batch[t]
             /\ queue' \subseteq Check
             /\ batch' \in [Thread -> SUBSET Check]
             /\ \A u \in Thread : u # t => batch'[u] = batch[u]
             /\ \A u \in Thread : batch'[u] \cap queue' = {}
             /\ \A u, v \in Thread : u # v => batch'[u] \cap batch'[v] = {}
             /\ batch'[t] \subseteq queue
             /\ batch'[t] # {}
  <2>1. /\ batch' \in [Thread -> SUBSET Check] /\ batch'[t] = taken
        /\ \A u \in Thread : u # t => batch'[u] = batch[u]
    BY <1>2, Zenon
  <2>2. Outstanding' = Outstanding \ batch[t]
    BY <1>2, <2>1 DEF Outstanding
  <2>3. taken # {}
    <3>1. taken \in SUBSET Check
      BY <1>2, Zenon
    <3>2. IsFiniteSet(taken)
      BY <3>1, Finite, Zenon
    <3> QED BY <1>2, <3>2, SomeTaken, Zenon
  <2> QED BY <1>2, <2>1, <2>2, <2>3, Zenon
<1>3. CASE queue = {}
  BY <1>1, <1>3, Zenon DEF Settle, Arguments
<1>4. CASE queue # {}
  <2>1. PICK taken \in SUBSET queue :
             /\ Cardinality(taken) = nNow(Cardinality(queue), total, idle)
             /\ queue' = queue \ taken /\ batch' = [batch EXCEPT ![t] = taken]
    BY <1>4, Zenon DEF Settle, LoopReturns
  <2>2. pc'[t] = "run"
    BY <1>4, Zenon DEF Settle, LoopReturns, Arguments
  <2> QED BY <2>1, <2>2, <1>2, Zenon
<1> QED BY <1>3, <1>4, Zenon

(* ... to the program counters, ...                                         *)
LEMMA SettlePlaces ==
    ASSUME IInv, NEW t \in Thread, NEW pcs, NEW idle, NEW total, NEW todo, NEW ok,
           Arguments(t, pcs, idle, total, todo, ok),
           Settle(t, pcs, idle, total, todo, ok)
    PROVE  /\ pc' \in [Thread -> {"away", "control", "start", "waiting", "woken", "run",
                                  "ran", "done", "gone"}]
           /\ \A u \in Thread : u # t => pc'[u] = pcs[u]
           /\ pc'[t] \in {"done", "waiting", "run"}
           /\ pc'[t] = "done" <=> LoopReturns(t, todo)
           /\ Places'
<1>1. /\ pc' \in [Thread -> {"away", "control", "start", "waiting", "woken", "run", "ran",
                             "done", "gone"}]
      /\ \A u \in Thread : u # t => pc'[u] = pcs[u]
      /\ pc'[t] \in {"done", "waiting", "run"}
      /\ pc'[t] = "done" <=> LoopReturns(t, todo)
  <2>1. pcs \in [Thread -> {"away", "control", "start", "waiting", "woken", "run", "ran",
                            "done", "gone"}]
    BY Zenon DEF Arguments
  <2>2. CASE LoopReturns(t, todo)
    BY <2>1, <2>2, Zenon DEF Settle, LoopReturns
  <2>3. CASE queue = {} /\ ~LoopReturns(t, todo)
    BY <2>1, <2>3, Zenon DEF Settle
  <2>4. CASE queue # {}
    BY <2>1, <2>4, Zenon DEF Settle, LoopReturns
  <2> QED BY <2>2, <2>3, <2>4, Zenon
<1>2. \A u \in Thread : (batch'[u] # {}) <=> (pc'[u] \in {"run", "ran"})
  <2>1. (batch'[t] # {}) <=> (pc'[t] \in {"run", "ran"})
    BY <1>1, SettleOutstanding, Zenon
  <2>2. \A u \in Thread : (batch[u] # {}) <=> (pc[u] \in {"run", "ran"})
    BY Zenon DEF IInv, Places
  <2>3. \A u \in Thread : pcs[u] \in {"run", "ran"} <=> pc[u] \in {"run", "ran"}
    BY DEF Arguments
  <2>4. \A u \in Thread : u # t => batch'[u] = batch[u]
    BY SettleOutstanding, Zenon
  <2> QED BY <1>1, <2>1, <2>2, <2>3, <2>4, Zenon
<1>3. control' = control
  BY Zenon DEF Settle
<1>4. \A w \in Worker : pc'[w] \in {"start", "waiting", "woken", "run", "ran", "gone"}
  BY <1>1, QueueAssumption DEF IInv, Places, Arguments, LoopReturns, Thread, QueueAssumption
<1>5. \A m \in Master : pc'[m] # "gone" /\ (pc'[m] = "away" <=> control' # m)
  BY <1>1, <1>3 DEF IInv, Places, Arguments, Thread
<1> QED BY <1>1, <1>2, <1>4, <1>5, Zenon DEF Places

(* ... to the counters, ...                                                 *)
LEMMA SettleCounters ==
    ASSUME IInv, NEW t \in Thread, NEW pcs, NEW idle, NEW total, NEW todo, NEW ok,
           Arguments(t, pcs, idle, total, todo, ok),
           Settle(t, pcs, idle, total, todo, ok)
    PROVE  TodoExact' /\ CountersExact' /\ nIdle' \in Nat /\ nTotal' \in Nat /\ nTodo' \in Nat
<1> DEFINE I == {u \in Thread : pc[u] \in Idling}
           C == {u \in Thread : pc[u] \in Counted}
<1>1. TodoExact' /\ nTodo' \in Nat
  <2>1. nTodo' = todo /\ todo \in Nat /\ todo = Cardinality(Outstanding \ batch[t])
    BY Zenon DEF Settle, Arguments
  <2>2. nTodo' = Cardinality(Outstanding')
    BY <2>1, SettleOutstanding, Zenon
  <2> QED BY <2>1, <2>2, SettleOutstanding, Zenon DEF TodoExact
<1>a. \A u \in Thread : u # t => /\ (pc'[u] \in Idling <=> pc[u] \in Idling)
                                /\ (pc'[u] \in Counted <=> pc[u] \in Counted)
  BY SettlePlaces DEF Arguments, Idling, Counted
<1>b. /\ pc'[t] \in Idling <=> pc'[t] = "waiting"
      /\ pc'[t] \in Counted <=> pc'[t] # "done"
  BY SettlePlaces, Zenon DEF Idling, Counted
<1>2. {u \in Thread : pc'[u] \in Idling} = IF pc'[t] = "waiting" THEN (I \ {t}) \cup {t} ELSE I \ {t}
  BY <1>a, <1>b, Zenon
<1>3. {u \in Thread : pc'[u] \in Counted} = IF pc'[t] = "done" THEN (C \cup {t}) \ {t} ELSE C \cup {t}
  BY <1>a, <1>b, Zenon
<1>4. IsFiniteSet(I \ {t}) /\ IsFiniteSet(C \cup {t})
  BY Finite, Zenon DEF IInv
<1>5. /\ Cardinality((I \ {t}) \cup {t}) = idle + 1
      /\ Cardinality(I \ {t}) = idle
  BY <1>4, FS_AddElement, Zenon DEF Arguments
<1>6. /\ Cardinality((C \cup {t}) \ {t}) = total - 1
      /\ Cardinality(C \cup {t}) = total
  <2>1. Cardinality(C \cup {t}) = total
    BY Zenon DEF Arguments
  <2>2. t \in C \cup {t}
    OBVIOUS
  <2>3. Cardinality((C \cup {t}) \ {t}) = Cardinality(C \cup {t}) - 1
    BY <1>4, <2>2, FS_RemoveElement, Zenon
  <2> QED BY <2>1, <2>3, Zenon
<1>7. /\ nIdle' = IF pc'[t] = "waiting" THEN idle + 1 ELSE idle
      /\ nTotal' = IF pc'[t] = "done" THEN total - 1 ELSE total
  <2>1. pcs \in [Thread -> {"away", "control", "start", "waiting", "woken", "run", "ran",
                            "done", "gone"}]
    BY Zenon DEF Arguments
  <2>2. CASE LoopReturns(t, todo)
    BY <2>1, <2>2, Zenon DEF Settle, LoopReturns
  <2>3. CASE queue = {} /\ ~LoopReturns(t, todo)
    BY <2>1, <2>3, Zenon DEF Settle
  <2>4. CASE queue # {}
    BY <2>1, <2>4, Zenon DEF Settle, LoopReturns
  <2> QED BY <2>2, <2>3, <2>4, Zenon
<1> HIDE DEF I, C
<1>8. CountersExact'
  BY <1>2, <1>3, <1>5, <1>6, <1>7, Zenon DEF CountersExact
<1>9. nIdle' \in Nat /\ nTotal' \in Nat
  <2>1. {u \in Thread : pc'[u] \in Idling} \in SUBSET Thread
    BY Zenon
  <2>2. {u \in Thread : pc'[u] \in Counted} \in SUBSET Thread
    BY Zenon
  <2> QED BY <1>8, <2>1, <2>2, Finite, Zenon DEF CountersExact, IInv
<1> QED BY <1>1, <1>8, <1>9, Zenon

(* ... and to the results.                                                  *)
LEMMA SettleResults ==
    ASSUME IInv, NEW t \in Thread, NEW pcs, NEW idle, NEW total, NEW todo, NEW ok,
           Arguments(t, pcs, idle, total, todo, ok),
           Settle(t, pcs, idle, total, todo, ok)
    PROVE  /\ fAllOk' \in BOOLEAN /\ verdict' \in BOOLEAN /\ fOk' \in [Thread -> BOOLEAN]
           /\ Results' /\ NothingLeft' /\ VerdictExact'
<1>1. control' = control /\ submitted' = submitted
  BY Zenon DEF Settle
<1>2. Outstanding' = Outstanding \ batch[t]
  BY SettleOutstanding, Zenon
<1>3. CASE LoopReturns(t, todo)
  <2>1. Outstanding' = {} /\ nTodo' = 0
    <3>1. Outstanding \ batch[t] \in SUBSET Check
      BY Finite, Zenon DEF IInv
    <3>2. Cardinality(Outstanding \ batch[t]) = 0
      BY <1>3, Zenon DEF LoopReturns, Arguments
    <3> QED BY <1>2, <1>3, <3>1, <3>2, Finite, FS_EmptySet, Zenon DEF IInv, Settle, LoopReturns
  <2>2. fAllOk' = TRUE /\ verdict' = ok /\ fOk' = [fOk EXCEPT ![t] = TRUE]
    BY <1>3, Zenon DEF Settle, LoopReturns
  <2>3. \A u \in Thread : batch'[u] = {}
    BY <2>1, Zenon DEF Outstanding
  <2>4. \A m \in Master : pc[m] # "done"
    BY <1>3, Zenon DEF LoopReturns, Arguments, IInv, Places
  <2>5. ok <=> submitted \subseteq Passes
    <3>1. ok <=> (fAllOk /\ fOk[t])
      BY Zenon DEF Arguments
    <3>2. ~ok => ~(submitted \subseteq Passes)
      BY <3>1, Zenon DEF IInv, Results
    <3>3. ASSUME ok, NEW c \in submitted \ Passes PROVE FALSE
      <4>1. c \in Outstanding
        BY <2>4, <3>1, <3>3, Zenon DEF IInv, Results
      <4>2. c \in batch[t]
        BY <4>1, <2>1, <1>2, Zenon
      <4>3. pc[t] = "ran"
        BY <4>2, Zenon DEF IInv, Places, Arguments
      <4> QED BY <4>2, <4>3, <3>1, <3>3, Zenon DEF IInv, Results
    <3> QED BY <3>2, <3>3, Zenon
  <2>6. \A u \in Thread : fOk'[u]
    BY <2>2, <2>3, SettleOutstanding, Zenon DEF IInv, TypeOK, Results
  <2>7. pc'[t] = "done" /\ t \in Master
    BY <1>3, SettlePlaces, Zenon DEF LoopReturns
  <2>8. control # NoMaster
    BY <2>7, SettlePlaces, <1>1, QueueAssumption, Zenon DEF Places, QueueAssumption
  <2>9. Results'
    BY <1>1, <2>1, <2>2, <2>3, <2>6, <2>7, <2>8, Zenon DEF Results
  <2>10. NothingLeft'
    BY <2>1, <2>2, Zenon DEF NothingLeft
  <2>11. VerdictExact'
    BY <2>2, <2>5, <1>1, Zenon DEF VerdictExact
  <2>12. fAllOk' \in BOOLEAN /\ verdict' \in BOOLEAN /\ fOk' \in [Thread -> BOOLEAN]
    BY <2>2, Zenon DEF Arguments, IInv, TypeOK
  <2> QED BY <2>9, <2>10, <2>11, <2>12, Zenon
<1>4. CASE ~LoopReturns(t, todo)
  <2>1. fAllOk' = ok /\ verdict' = verdict
    BY <1>4, Zenon DEF Settle
  <2>2. /\ fOk' \in [Thread -> BOOLEAN]
        /\ \A u \in Thread : u # t => fOk'[u] = fOk[u]
        /\ fOk'[t] = TRUE \/ (fOk'[t] = ok /\ pc'[t] = "run")
    <3>1. fOk' = [fOk EXCEPT ![t] = TRUE] \/ (fOk' = [fOk EXCEPT ![t] = ok] /\ queue # {})
      BY <1>4, Zenon DEF Settle
    <3>2. queue # {} => pc'[t] = "run"
      BY <1>4, Zenon DEF Settle, Arguments, LoopReturns
    <3>3. ok \in BOOLEAN
      BY Zenon DEF Arguments
    <3> QED BY <3>1, <3>2, <3>3, Zenon DEF IInv, TypeOK
  <2>3. ok <=> (fAllOk /\ fOk[t])
    BY Zenon DEF Arguments
  <2>4. ~ok => ~(submitted \subseteq Passes)
    BY <2>3, Zenon DEF IInv, Results
  <2>5. \A m \in Master : pc'[m] = "done" <=> pc[m] = "done"
    <3>1. \A m \in Master : m \in Thread
      BY Zenon DEF Thread
    <3> QED BY <1>4, <3>1, SettlePlaces DEF Arguments
  <2>7. Results'
    <3>1. Outstanding' \subseteq submitted' /\ (control' = NoMaster => submitted' = {})
      BY <1>1, <1>2, Zenon DEF IInv, Results
    <3>2. \A u \in Thread : ~fOk'[u] => batch'[u] # {} /\ ~(submitted' \subseteq Passes)
      BY <1>1, <2>2, <2>4, SettleOutstanding DEF IInv, Results
    <3>3. ~fAllOk' => ~(submitted' \subseteq Passes)
      BY <1>1, <2>1, <2>4, Zenon
    <3>4. \A u \in Thread : pc'[u] = "ran" /\ ~(batch'[u] \subseteq Passes) => ~fOk'[u]
      <4> SUFFICES ASSUME NEW u \in Thread, pc'[u] = "ran", ~(batch'[u] \subseteq Passes)
                   PROVE  ~fOk'[u]
        BY Zenon
      <4>1. u # t /\ pc'[u] = pcs[u]
        BY SettlePlaces, Zenon
      <4>2. pc[u] = "ran"
        BY <4>1, Zenon DEF Arguments
      <4>3. batch'[u] = batch[u]
        BY <4>1, SettleOutstanding, Zenon
      <4>4. ~fOk[u]
        BY <4>2, <4>3, Zenon DEF IInv, Results
      <4> QED BY <4>1, <4>4, <2>2, Zenon
    <3>5. ASSUME \A m \in Master : pc'[m] # "done", NEW c \in submitted' \ Passes
          PROVE  ~fAllOk' \/ c \in Outstanding'
      <4>1. ~fAllOk \/ c \in Outstanding
        BY <1>1, <2>5, <3>5, Zenon DEF IInv, Results
      <4>2. CASE ~fAllOk
        BY <4>2, <2>1, <2>3, Zenon
      <4>3. CASE c \in Outstanding /\ c \notin batch[t]
        BY <4>3, <1>2, Zenon
      <4>4. CASE c \in batch[t]
        <5>1. pc[t] = "ran"
          BY <4>4, Zenon DEF IInv, Places, Arguments
        <5> QED BY <3>5, <4>4, <5>1, <2>1, <2>3, Zenon DEF IInv, Results
      <4> QED BY <4>1, <4>2, <4>3, <4>4, Zenon
    <3> QED BY <3>1, <3>2, <3>3, <3>4, <3>5, Zenon DEF Results
  <2>8. NothingLeft'
    <3> SUFFICES ASSUME control' = NoMaster \/ \E m \in Master : pc'[m] = "done"
                 PROVE  Outstanding' = {} /\ nTodo' = 0 /\ fAllOk'
      BY Zenon DEF NothingLeft
    <3>1. Outstanding = {} /\ nTodo = 0 /\ fAllOk
      BY <1>1, <2>5, Zenon DEF IInv, NothingLeft
    <3>2. fOk[t]
      BY <3>1, Zenon DEF IInv, Results, Outstanding
    <3>3. todo = 0
      BY <3>1, FS_EmptySet, Zenon DEF Arguments
    <3> QED BY <1>2, <2>1, <2>3, <3>1, <3>2, <3>3, Zenon DEF Settle
  <2>9. VerdictExact'
    BY <1>1, <2>1, <2>5, Zenon DEF IInv, VerdictExact
  <2>10. fAllOk' \in BOOLEAN /\ verdict' \in BOOLEAN
    BY <2>1, Zenon DEF Arguments, IInv, TypeOK
  <2> QED BY <2>2, <2>7, <2>8, <2>9, <2>10, Zenon
<1> QED BY <1>3, <1>4, Zenon

(* The critical section keeps the invariant.                                *)
LEMMA SettleKeeps ==
    ASSUME IInv, NEW t \in Thread, NEW pcs, NEW idle, NEW total, NEW todo, NEW ok,
           Arguments(t, pcs, idle, total, todo, ok),
           Settle(t, pcs, idle, total, todo, ok)
    PROVE  IInv'
<1>1. control' \in Master \cup {NoMaster} /\ submitted' \subseteq Check
  BY Zenon DEF Settle, IInv, TypeOK
<1>2. TypeOK'
  BY <1>1, SettleOutstanding, SettlePlaces, SettleCounters, SettleResults, Zenon DEF TypeOK
<1> QED BY <1>2, SettlePlaces, SettleCounters, SettleResults, Zenon DEF IInv

(* The three ways into the critical section.                                *)
LEMMA LoopKeeps ==
    ASSUME IInv, NEW t \in Thread, LoopEnter(t) \/ LoopAgain(t) \/ LoopWake(t)
    PROVE  IInv'
<1> DEFINE I == {u \in Thread : pc[u] \in Idling}
           C == {u \in Thread : pc[u] \in Counted}
<1>1. /\ IsFiniteSet(I) /\ IsFiniteSet(C)
      /\ nIdle = Cardinality(I) /\ nTotal = Cardinality(C)
      /\ Cardinality(I \ {t}) \in Nat /\ Cardinality(C \cup {t}) \in Nat
  <2>1. I \in SUBSET Thread /\ C \in SUBSET Thread
    BY Zenon
  <2>2. I \ {t} \in SUBSET Thread /\ C \cup {t} \in SUBSET Thread
    BY Zenon
  <2> HIDE DEF I, C
  <2>3. /\ IsFiniteSet(I) /\ IsFiniteSet(C)
        /\ Cardinality(I \ {t}) \in Nat /\ Cardinality(C \cup {t}) \in Nat
    BY <2>1, <2>2, Finite, Zenon DEF IInv
  <2> QED BY <2>3, Zenon DEF IInv, CountersExact, I, C
<1>2. /\ t \in I <=> pc[t] \in Idling
      /\ t \in C <=> pc[t] \in Counted
  BY Zenon
<1> HIDE DEF I, C
<1>3. /\ Cardinality(I \ {t}) = IF t \in I THEN nIdle - 1 ELSE nIdle
      /\ Cardinality(C \cup {t}) = IF t \in C THEN nTotal ELSE nTotal + 1
  BY <1>1, FS_AddElement, FS_RemoveElement, Zenon
<1>4. pc \in [Thread -> {"away", "control", "start", "waiting", "woken", "run", "ran",
                         "done", "gone"}]
  BY Zenon DEF IInv, TypeOK
<1>5. nTodo \in Nat /\ nTodo = Cardinality(Outstanding) /\ fAllOk \in BOOLEAN /\ fOk[t] \in BOOLEAN
  BY Zenon DEF IInv, TypeOK, TodoExact
<1>6. ASSUME pc[t] \in {"start", "woken"}
      PROVE  nTodo = Cardinality(Outstanding \ batch[t]) /\ (fAllOk <=> (fAllOk /\ fOk[t]))
  <2>1. batch[t] = {}
    BY <1>6, Zenon DEF IInv, Places
  <2>2. Outstanding \ batch[t] = Outstanding
    BY <2>1, Zenon
  <2>3. fOk[t]
    BY <2>1, Zenon DEF IInv, Results
  <2> QED BY <1>5, <2>2, <2>3, Zenon
<1>7. CASE LoopEnter(t)
  <2>1. t \notin I /\ t \notin C
    BY <1>2, <1>7, Zenon DEF LoopEnter, Idling, Counted
  <2>2. Arguments(t, pc, nIdle, nTotal + 1, nTodo, fAllOk)
    BY <1>1, <1>3, <1>4, <1>5, <1>6, <1>7, <2>1, Zenon DEF Arguments, LoopEnter, I, C
  <2> QED BY <2>2, <1>7, SettleKeeps, Zenon DEF LoopEnter
<1>8. CASE LoopWake(t)
  <2>1. t \in I /\ t \in C
    BY <1>2, <1>8, Zenon DEF LoopWake, Idling, Counted
  <2>2. Arguments(t, pc, nIdle - 1, nTotal, nTodo, fAllOk)
    BY <1>1, <1>3, <1>4, <1>5, <1>6, <1>8, <2>1, Zenon DEF Arguments, LoopWake, I, C
  <2> QED BY <2>2, <1>8, SettleKeeps, Zenon DEF LoopWake
<1>9. CASE LoopAgain(t)
  <2> DEFINE todo == nTodo - Cardinality(batch[t])
             ok == fAllOk /\ fOk[t]
  <2>1. PICK pcs \in IF todo = 0 /\ t \notin Master THEN NotifyOne(Master) ELSE {pc} :
             Settle(t, pcs, nIdle, nTotal, todo, ok)
    BY <1>9, Zenon DEF LoopAgain
  <2>2. t \notin I /\ t \in C /\ pc[t] = "ran"
    BY <1>2, <1>9, Zenon DEF LoopAgain, Idling, Counted
  <2>3. /\ pcs \in [Thread -> {"away", "control", "start", "waiting", "woken", "run", "ran",
                               "done", "gone"}]
        /\ pcs[t] = pc[t]
        /\ \A u \in Thread : pcs[u] = pc[u] \/ (pc[u] = "waiting" /\ pcs[u] = "woken")
    <3>1. CASE pcs = pc
      BY <3>1, <1>4, Zenon
    <3>2. ASSUME NEW m \in Master, pc[m] = "waiting", pcs = [pc EXCEPT ![m] = "woken"]
          PROVE  <2>3!1 /\ <2>3!2 /\ <2>3!3
      BY <3>2, <2>2, <1>4, Zenon
    <3>3. pcs = pc \/ \E m \in Master : pc[m] = "waiting" /\ pcs = [pc EXCEPT ![m] = "woken"]
      BY <2>1, Zenon DEF NotifyOne
    <3> QED BY <3>1, <3>2, <3>3, Zenon
  <2>4. todo = Cardinality(Outstanding \ batch[t]) /\ todo \in Nat
    <3>1. Outstanding \cap batch[t] = batch[t]
      BY Zenon DEF Outstanding
    <3>2. IsFiniteSet(Outstanding)
      BY Finite, Zenon DEF IInv
    <3>3. Outstanding \ batch[t] \in SUBSET Check
      BY Finite, Zenon DEF IInv
    <3>4. Cardinality(Outstanding \ batch[t]) = Cardinality(Outstanding) - Cardinality(batch[t])
      BY <3>1, <3>2, FS_Difference, Zenon
    <3>5. Cardinality(Outstanding \ batch[t]) \in Nat
      BY <3>3, Finite, Zenon DEF IInv
    <3> QED BY <3>4, <3>5, <1>5, Zenon
  <2>5. ok \in BOOLEAN /\ (ok <=> (fAllOk /\ fOk[t]))
    BY Zenon
  <2> HIDE DEF todo, ok
  <2>6. Arguments(t, pcs, nIdle, nTotal, todo, ok)
    BY <1>1, <1>3, <2>2, <2>3, <2>4, <2>5, Zenon DEF Arguments, I, C
  <2> QED BY <2>1, <2>6, SettleKeeps, Zenon
<1> QED BY <1>7, <1>8, <1>9, Zenon
(* The steps outside the critical section of Loop.                          *)
LEMMA ExecuteKeeps ==
    ASSUME IInv, NEW t \in Thread, Execute(t)
    PROVE  IInv'
<1>1. /\ Outstanding' = Outstanding /\ batch' = batch /\ queue' = queue
      /\ control' = control /\ submitted' = submitted
  BY Zenon DEF Execute, Outstanding
<1>2. /\ pc' \in [Thread -> {"away", "control", "start", "waiting", "woken", "run", "ran",
                             "done", "gone"}]
      /\ pc[t] = "run" /\ pc'[t] = "ran" /\ \A u \in Thread : u # t => pc'[u] = pc[u]
  BY Zenon DEF Execute, IInv, TypeOK
<1>3. /\ fOk' \in [Thread -> BOOLEAN] /\ (fOk'[t] <=> (fOk[t] /\ batch[t] \subseteq Passes))
      /\ \A u \in Thread : u # t => fOk'[u] = fOk[u]
  BY Zenon DEF Execute, IInv, TypeOK
<1>4. TypeOK'
  BY <1>1, <1>2, <1>3, Zenon DEF Execute, IInv, TypeOK
<1>5. Places'
  BY <1>1, <1>2, Zenon DEF IInv, Places, Thread
<1>6. TodoExact'
  BY <1>1, Zenon DEF Execute, IInv, TodoExact
<1>7. CountersExact'
  <2>1. \A u \in Thread : /\ pc'[u] \in Idling <=> pc[u] \in Idling
                          /\ pc'[u] \in Counted <=> pc[u] \in Counted
    BY <1>2, Zenon DEF Idling, Counted
  <2>2. /\ {u \in Thread : pc'[u] \in Idling} = {u \in Thread : pc[u] \in Idling}
        /\ {u \in Thread : pc'[u] \in Counted} = {u \in Thread : pc[u] \in Counted}
    BY <2>1, Zenon
  <2> QED BY <2>2, Zenon DEF Execute, IInv, CountersExact
<1>8. \A m \in Master : pc'[m] = "done" <=> pc[m] = "done"
  BY <1>2, Zenon DEF Thread
<1>9. Results'
  <2>1. fAllOk' = fAllOk
    BY Zenon DEF Execute
  <2>2. \A u \in Thread : ~fOk'[u] => batch'[u] # {} /\ ~(submitted' \subseteq Passes)
    <3>1. batch[t] # {} /\ batch[t] \subseteq submitted
      BY <1>2 DEF IInv, Places, Results, Outstanding
    <3>2. ~fOk'[t] => ~(submitted \subseteq Passes)
      <4>1. CASE ~fOk[t]
        BY <4>1, Zenon DEF IInv, Results
      <4>2. CASE ~(batch[t] \subseteq Passes)
        BY <4>2, <3>1, Zenon
      <4> QED BY <4>1, <4>2, <1>3, Zenon
    <3> QED BY <3>1, <3>2, <1>1, <1>3, Zenon DEF IInv, Results
  <2>3. \A u \in Thread : pc'[u] = "ran" /\ ~(batch'[u] \subseteq Passes) => ~fOk'[u]
    BY <1>1, <1>2, <1>3, Zenon DEF IInv, Results
  <2> QED BY <1>1, <1>8, <2>1, <2>2, <2>3, Zenon DEF IInv, Results
<1>10. NothingLeft' /\ VerdictExact'
  BY <1>1, <1>8, Zenon DEF Execute, IInv, NothingLeft, VerdictExact
<1> QED BY <1>4, <1>5, <1>6, <1>7, <1>9, <1>10, Zenon DEF IInv

(* A wait that ends without a notification: the thread counts as idle until *)
(* it has the mutex, or for ever if it was interrupted.                     *)
LEMMA WaitEndsKeeps ==
    ASSUME IInv, NEW t \in Thread, SpuriousWake(t) \/ (t \in Worker /\ Interrupted(t))
    PROVE  IInv'
<1>1. /\ Outstanding' = Outstanding /\ batch' = batch /\ fOk' = fOk
      /\ fAllOk' = fAllOk /\ control' = control /\ submitted' = submitted
      /\ queue' = queue /\ nTodo' = nTodo /\ nIdle' = nIdle /\ nTotal' = nTotal
      /\ verdict' = verdict
  BY Zenon DEF SpuriousWake, Interrupted, Outstanding
<1>2. /\ pc' \in [Thread -> {"away", "control", "start", "waiting", "woken", "run", "ran",
                             "done", "gone"}]
      /\ pc[t] \in {"waiting", "woken"} /\ pc'[t] \in {"woken", "gone"}
      /\ t \in Master => pc'[t] = "woken"
      /\ \A u \in Thread : u # t => pc'[u] = pc[u]
  BY QueueAssumption, Zenon DEF SpuriousWake, Interrupted, IInv, TypeOK, QueueAssumption
<1>3. TypeOK'
  BY <1>1, <1>2, Zenon DEF IInv, TypeOK
<1>4. Places'
  BY <1>1, <1>2, Zenon DEF IInv, Places, Thread
<1>5. CountersExact'
  <2>1. \A u \in Thread : /\ pc'[u] \in Idling <=> pc[u] \in Idling
                          /\ pc'[u] \in Counted <=> pc[u] \in Counted
    BY <1>2, Zenon DEF Idling, Counted
  <2>2. /\ {u \in Thread : pc'[u] \in Idling} = {u \in Thread : pc[u] \in Idling}
        /\ {u \in Thread : pc'[u] \in Counted} = {u \in Thread : pc[u] \in Counted}
    BY <2>1, Zenon
  <2> QED BY <1>1, <2>2, Zenon DEF IInv, CountersExact
<1>6. \A u \in Thread : /\ pc'[u] = "done" <=> pc[u] = "done"
                        /\ pc'[u] = "ran" <=> pc[u] = "ran"
  BY <1>2, Zenon
<1>7. \A m \in Master : m \in Thread
  BY Zenon DEF Thread
<1>8. TodoExact'
  BY <1>1, Zenon DEF IInv, TodoExact
<1>9. Results' /\ NothingLeft' /\ VerdictExact'
  BY <1>1, <1>6, <1>7, Zenon DEF IInv, Results, NothingLeft, VerdictExact
<1> QED BY <1>3, <1>4, <1>5, <1>8, <1>9, Zenon DEF IInv

(* The steps of a control.                                                  *)
LEMMA ControlKeeps ==
    ASSUME IInv, NEW m \in Master, NewControl(m) \/ Wait(m) \/ EndControl(m)
    PROVE  IInv'
<1>1. /\ Outstanding' = Outstanding /\ batch' = batch /\ fOk' = fOk /\ fAllOk' = fAllOk
      /\ queue' = queue /\ nTodo' = nTodo /\ nIdle' = nIdle /\ nTotal' = nTotal
  BY Zenon DEF NewControl, Wait, EndControl, Outstanding
<1>2. m \in Thread /\ m \notin Worker
  BY QueueAssumption, Zenon DEF Thread, QueueAssumption
<1>3. /\ pc' \in [Thread -> {"away", "control", "start", "waiting", "woken", "run", "ran",
                             "done", "gone"}]
      /\ pc[m] \in {"away", "control", "done"} /\ pc'[m] \in {"away", "control", "start"}
      /\ \A u \in Thread : u # m => pc'[u] = pc[u]
  BY <1>2, Zenon DEF NewControl, Wait, EndControl, IInv, TypeOK
<1>4. /\ control' \in Master \cup {NoMaster}
      /\ submitted' \in SUBSET Check /\ verdict' \in BOOLEAN
  BY Zenon DEF NewControl, Wait, EndControl, IInv, TypeOK
<1>5. TypeOK'
  BY <1>1, <1>3, <1>4, Zenon DEF IInv, TypeOK
<1>6. pc'[m] = "away" <=> control' # m
  BY <1>2, QueueAssumption, Zenon DEF NewControl, Wait, EndControl, IInv, TypeOK, Places, QueueAssumption
<1>7. \A n \in Master : n # m => (control' # n <=> control # n)
  BY QueueAssumption, Zenon DEF NewControl, Wait, EndControl, IInv, Places, QueueAssumption
<1>8. Places'
  BY <1>1, <1>2, <1>3, <1>6, <1>7, Zenon DEF IInv, Places, Thread
<1>9. CountersExact'
  <2>1. \A u \in Thread : /\ pc'[u] \in Idling <=> pc[u] \in Idling
                          /\ pc'[u] \in Counted <=> pc[u] \in Counted
    BY <1>3, Zenon DEF Idling, Counted
  <2>2. /\ {u \in Thread : pc'[u] \in Idling} = {u \in Thread : pc[u] \in Idling}
        /\ {u \in Thread : pc'[u] \in Counted} = {u \in Thread : pc[u] \in Counted}
    BY <2>1, Zenon
  <2> QED BY <1>1, <2>2, Zenon DEF IInv, CountersExact
<1>10. TodoExact'
  BY <1>1, Zenon DEF IInv, TodoExact
<1>11. \A n \in Master : n \in Thread /\ pc'[n] # "done"
  <2>1. \A n \in Master : n # m => pc[n] # "done"
    <3>1. control = NoMaster \/ control = m
      BY Zenon DEF NewControl, Wait, EndControl, IInv, Places
    <3>2. \A n \in Master : n # m => pc[n] = "away"
      BY <3>1, QueueAssumption, Zenon DEF IInv, Places, QueueAssumption
    <3> QED BY <3>2, Zenon
  <2> QED BY <1>3, <2>1, Zenon DEF Thread
<1>12. \A u \in Thread : pc'[u] = "ran" <=> pc[u] = "ran"
  BY <1>3, Zenon
<1>13. CASE NewControl(m)
  <2>1. submitted' = submitted /\ control' = m /\ control = NoMaster /\ submitted = {}
    BY <1>13, Zenon DEF NewControl, IInv, Results
  <2>2. Results'
    BY <1>1, <1>12, <2>1, QueueAssumption, Zenon DEF IInv, Results, QueueAssumption
  <2>3. NothingLeft' /\ VerdictExact'
    BY <2>1, <1>11, QueueAssumption, Zenon DEF NothingLeft, VerdictExact, QueueAssumption
  <2> QED BY <1>5, <1>8, <1>9, <1>10, <2>2, <2>3, Zenon DEF IInv
<1>14. CASE Wait(m)
  <2>1. submitted' = submitted /\ control' = control /\ control = m
    BY <1>14, Zenon DEF Wait, IInv, Places
  <2>2. \A n \in Master : pc[n] # "done"
    BY <2>1, <1>14, Zenon DEF Wait, IInv, Places
  <2>3. Results'
    <3>1. control # NoMaster
      BY <2>1, QueueAssumption, Zenon DEF QueueAssumption
    <3>2. \A c \in submitted \ Passes : ~fAllOk \/ c \in Outstanding
      BY <2>2, Zenon DEF IInv, Results
    <3> QED BY <1>1, <1>12, <2>1, <3>1, <3>2, Zenon DEF IInv, Results
  <2>4. NothingLeft' /\ VerdictExact'
    BY <2>1, <1>11, QueueAssumption, Zenon DEF NothingLeft, VerdictExact, QueueAssumption
  <2> QED BY <1>5, <1>8, <1>9, <1>10, <2>3, <2>4, Zenon DEF IInv
<1>15. CASE EndControl(m)
  <2>1. submitted' = {} /\ control' = NoMaster /\ pc[m] = "done"
    BY <1>15, Zenon DEF EndControl
  <2>2. Outstanding = {} /\ nTodo = 0 /\ fAllOk
    BY <2>1, Zenon DEF IInv, NothingLeft
  <2>3. \A u \in Thread : batch[u] = {} /\ fOk[u]
    BY <2>2, Zenon DEF Outstanding, IInv, Results
  <2>4. Results'
    BY <1>1, <2>1, <2>2, <2>3, Zenon DEF Results
  <2>5. NothingLeft' /\ VerdictExact'
    BY <1>1, <2>2, <1>11, Zenon DEF NothingLeft, VerdictExact
  <2> QED BY <1>5, <1>8, <1>9, <1>10, <2>4, <2>5, Zenon DEF IInv
<1> QED BY <1>13, <1>14, <1>15, Zenon

(* Add puts new checks on the queue and on nTodo.                           *)
LEMMA AddKeeps ==
    ASSUME IInv, NEW m \in Master, Add(m)
    PROVE  IInv'
<1>1. PICK checks \in SUBSET (Check \ submitted) :
           /\ queue' = queue \cup checks
           /\ submitted' = submitted \cup checks
           /\ nTodo' = nTodo + Cardinality(checks)
           /\ pc' \in IF Cardinality(checks) = 1 THEN NotifyOne(Worker) ELSE NotifyAll(Worker)
  BY Zenon DEF Add
<1>2. /\ batch' = batch /\ fOk' = fOk /\ fAllOk' = fAllOk /\ control' = control
      /\ nIdle' = nIdle /\ nTotal' = nTotal /\ verdict' = verdict
      /\ pc[m] = "control" /\ control = m
  BY Zenon DEF Add, IInv, Places
<1>3. /\ pc' \in [Thread -> {"away", "control", "start", "waiting", "woken", "run", "ran",
                             "done", "gone"}]
      /\ \A u \in Thread : pc'[u] = pc[u] \/ (u \in Worker /\ pc[u] = "waiting" /\ pc'[u] = "woken")
  <2>1. pc \in [Thread -> {"away", "control", "start", "waiting", "woken", "run", "ran",
                           "done", "gone"}]
    BY Zenon DEF IInv, TypeOK
  <2>2. CASE pc' = pc
    BY <2>1, <2>2, Zenon
  <2>3. ASSUME NEW w \in Worker, pc[w] = "waiting", pc' = [pc EXCEPT ![w] = "woken"]
        PROVE  <1>3!1 /\ <1>3!2
    BY <2>1, <2>3, Zenon
  <2>4. CASE pc' = [t \in Thread |-> IF t \in Worker /\ pc[t] = "waiting" THEN "woken" ELSE pc[t]]
    BY <2>1, <2>4, Zenon
  <2> QED BY <1>1, <2>2, <2>3, <2>4, Zenon DEF NotifyOne, NotifyAll
<1>4. /\ Outstanding' = Outstanding \cup checks
      /\ checks \cap Outstanding = {}
      /\ Outstanding \in SUBSET Check /\ checks \in SUBSET Check
  BY <1>1, <1>2, Finite DEF Outstanding, IInv, Results
<1>5. nTodo' = Cardinality(Outstanding') /\ nTodo' \in Nat
  <2>1. /\ IsFiniteSet(Outstanding) /\ IsFiniteSet(checks)
        /\ Cardinality(Outstanding) \in Nat /\ Cardinality(checks) \in Nat
    BY <1>4, Finite, Zenon DEF IInv
  <2>2. Cardinality(Outstanding \cup checks) =
            Cardinality(Outstanding) + Cardinality(checks) - Cardinality(Outstanding \cap checks)
    BY <2>1, FS_Union, Zenon
  <2>3. Cardinality(Outstanding \cap checks) = 0
    BY <1>4, FS_EmptySet, Zenon
  <2> QED BY <1>1, <1>4, <2>1, <2>2, <2>3 DEF IInv, TodoExact
<1>6. TypeOK'
  <2>1. queue' \subseteq Check /\ submitted' \subseteq Check
    BY <1>1, Zenon DEF IInv, TypeOK
  <2> QED BY <1>2, <1>3, <1>5, <2>1, Zenon DEF IInv, TypeOK
<1>7. TodoExact'
  <2>1. \A t \in Thread : batch[t] \subseteq Outstanding
    BY Zenon DEF Outstanding
  <2> QED BY <1>1, <1>2, <1>4, <1>5, <2>1, Zenon DEF IInv, TodoExact
<1>8. Places'
  BY <1>2, <1>3, QueueAssumption, Zenon DEF IInv, Places, Thread, QueueAssumption
<1>9. CountersExact'
  <2>1. \A u \in Thread : /\ pc'[u] \in Idling <=> pc[u] \in Idling
                          /\ pc'[u] \in Counted <=> pc[u] \in Counted
    BY <1>3, Zenon DEF Idling, Counted
  <2>2. /\ {u \in Thread : pc'[u] \in Idling} = {u \in Thread : pc[u] \in Idling}
        /\ {u \in Thread : pc'[u] \in Counted} = {u \in Thread : pc[u] \in Counted}
    BY <2>1, Zenon
  <2> QED BY <1>2, <2>2, Zenon DEF IInv, CountersExact
<1>10. \A n \in Master : n \in Thread /\ pc[n] # "done" /\ pc'[n] # "done"
  BY <1>2, <1>3, <1>8, Zenon DEF IInv, Places, Thread
<1>11. Results'
  <2>1. Outstanding' \subseteq submitted'
    BY <1>1, <1>4, Zenon DEF IInv, Results
  <2>2. control' # NoMaster
    BY <1>2, QueueAssumption, Zenon DEF QueueAssumption
  <2>3. \A u \in Thread : ~fOk'[u] => batch'[u] # {} /\ ~(submitted' \subseteq Passes)
    BY <1>1, <1>2, Zenon DEF IInv, Results
  <2>4. ~fAllOk' => ~(submitted' \subseteq Passes)
    BY <1>1, <1>2, Zenon DEF IInv, Results
  <2>5. \A u \in Thread : pc'[u] = "ran" /\ ~(batch'[u] \subseteq Passes) => ~fOk'[u]
    <3>1. \A u \in Thread : pc'[u] = "ran" => pc[u] = "ran"
      BY <1>3, Zenon
    <3> QED BY <1>2, <3>1, Zenon DEF IInv, Results
  <2>6. \A c \in submitted' \ Passes : ~fAllOk' \/ c \in Outstanding'
    BY <1>1, <1>2, <1>4, <1>10, Zenon DEF IInv, Results
  <2> QED BY <2>1, <2>2, <2>3, <2>4, <2>5, <2>6, Zenon DEF Results
<1>12. NothingLeft' /\ VerdictExact'
  BY <1>2, <1>10, QueueAssumption, Zenon DEF NothingLeft, VerdictExact, QueueAssumption
<1> QED BY <1>6, <1>7, <1>8, <1>9, <1>11, <1>12, Zenon DEF IInv

(* The invariant is inductive.                                              *)
LEMMA InitIInv == Init => IInv
<1> SUFFICES ASSUME Init PROVE IInv
  BY Zenon
<1>1. TypeOK
  BY QueueAssumption, Zenon DEF Init, TypeOK, Thread, QueueAssumption
<1>2. Outstanding = {}
  BY Zenon DEF Init, Outstanding
<1>3. /\ {t \in Thread : pc[t] \in Idling} = {}
      /\ {t \in Thread : pc[t] \in Counted} = {}
  BY Zenon DEF Init, Idling, Counted
<1>4. TodoExact /\ CountersExact
  BY <1>2, <1>3, FS_EmptySet, Zenon DEF Init, TodoExact, CountersExact
<1>5. Places
  BY QueueAssumption, Zenon DEF Init, Places, Thread, QueueAssumption
<1>6. Results /\ NothingLeft
  BY <1>2, Zenon DEF Init, Results, NothingLeft
<1>7. VerdictExact
  BY QueueAssumption, Zenon DEF Init, VerdictExact, Thread, QueueAssumption
<1> QED BY <1>1, <1>4, <1>5, <1>6, <1>7, Zenon DEF IInv

(* Every step keeps the invariant.                                          *)
LEMMA NextIInv == IInv /\ [Next]_vars => IInv'
<1> SUFFICES ASSUME IInv, [Next]_vars PROVE IInv'
  BY Zenon
<1>1. ASSUME NEW t \in Thread, Loop(t) PROVE IInv'
  BY <1>1, LoopKeeps, ExecuteKeeps, Zenon DEF Loop
<1>2. ASSUME NEW t \in Thread, SpuriousWake(t) PROVE IInv'
  BY <1>2, WaitEndsKeeps, Zenon
<1>3. ASSUME NEW w \in Worker, Interrupted(w) PROVE IInv'
  BY <1>3, WaitEndsKeeps, Zenon DEF Thread
<1>4. ASSUME NEW m \in Master, NewControl(m) \/ Add(m) \/ Wait(m) \/ EndControl(m) PROVE IInv'
  BY <1>4, ControlKeeps, AddKeeps, Zenon
<1>5. CASE UNCHANGED vars
  BY <1>5 DEF vars, IInv, TypeOK, Places, TodoExact, CountersExact, Results, NothingLeft,
              VerdictExact, Outstanding
<1> QED BY <1>1, <1>2, <1>3, <1>4, <1>5, Zenon DEF Next

(* The inductive invariant of the check queue: what Loop, Add and the       *)
(* controls rely on between their critical sections.                        *)
THEOREM Invariance == Spec => []IInv
  BY InitIInv, NextIInv, PTL DEF Spec

(* nTodo counts the checks that are queued or in somebody's batch, no check *)
(* is in two hands, and the counters of threads are exact, whatever the     *)
(* number of threads and the sizes of their batches.                        *)
THEOREM QueueCountsExact == Spec => [](TypeOK /\ TodoExact /\ CountersExact)
<1>1. IInv => TypeOK /\ TodoExact /\ CountersExact
  BY Zenon DEF IInv
<1> QED BY <1>1, Invariance, PTL

(* CCheckQueueControl::Wait returns true exactly when every check that was  *)
(* added under the control passes.                                          *)
THEOREM WaitVerdict == Spec => []VerdictExact
<1>1. IInv => VerdictExact
  BY Zenon DEF IInv
<1> QED BY <1>1, Invariance, PTL

(* When Wait has returned no thread holds a check of the block, and fAllOk  *)
(* is true again for the next control.                                      *)
THEOREM WaitLeavesNothing == Spec => []NothingLeft
<1>1. IInv => NothingLeft
  BY Zenon DEF IInv
<1> QED BY <1>1, Invariance, PTL

=============================================================================
