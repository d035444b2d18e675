------------------------ MODULE CallbackQueueProof -------------------------
(***************************************************************************)
(* The callbacks run serially, in order and without loss, and no wake-up is *)
(* lost, for any number of threads and callbacks.                           *)
(***************************************************************************)
EXTENDS CallbackQueue, TLAPS

(* The places a thread of each kind can be in.                              *)
Shared == {"check", "schedule", "notify"}
Runs == Shared \cup {"process", "callback", "release"}

PcOK ==
    /\ \A s \in Service : pc[s] \in Runs \cup {"top", "wait", "due", "exited"}
    /\ \A p \in Poster : pc[p] \in Shared \cup {"idle", "sync", "exited"}
    /\ pc[Main] \in Runs \cup {"up", "join", "flush", "test", "done"}

(* The order of a shutdown: first the posters outside the group are idle,   *)
(* then all threads of the group have exited.                               *)
PhaseOK ==
    /\ interrupted <=> pc[Main] # "up"
    /\ interrupted => \A p \in Poster \ Group : pc[p] = "idle"
    /\ pc[Main] \notin {"up", "join"} => \A t \in Service \cup Group : pc[t] = "exited"
    /\ \A s \in Service : pc[s] = "exited" => interrupted

IInv ==
    /\ TypeOK /\ PcOK /\ PhaseOK
    /\ Serial /\ InOrder /\ NotForgotten /\ NoLostWakeup /\ NothingDropped

-----------------------------------------------------------------------------
(* A callback goes to the end of the queue and is taken from its front.     *)
LEMMA PushOrders ==
    ASSUME TypeOK, InOrder, Push, started' = started
    PROVE  m_callbacks_pending' \in Seq(Nat) /\ added' \in Nat /\ InOrder'
  <1>1. m_callbacks_pending' \in Seq(Nat) /\ added' \in Nat
    BY DEF TypeOK, Push
  <1>2. Len(m_callbacks_pending') = Len(m_callbacks_pending) + 1
    BY DEF TypeOK, Push
  <1>3. ASSUME NEW i \in DOMAIN m_callbacks_pending' PROVE m_callbacks_pending'[i] = started + i
    <2>1. i \in 1..(Len(m_callbacks_pending) + 1) /\ Len(m_callbacks_pending) \in Nat
      BY <1>1, <1>2 DEF TypeOK
    <2>2. CASE i = Len(m_callbacks_pending) + 1
      <3>1. m_callbacks_pending'[i] = added + 1
        BY <2>2 DEF TypeOK, Push
      <3>2. added = started + Len(m_callbacks_pending)
        BY DEF InOrder
      <3> QED
        BY <2>1, <2>2, <3>1, <3>2 DEF TypeOK
    <2>3. CASE i \in DOMAIN m_callbacks_pending
      <3>1. m_callbacks_pending'[i] = m_callbacks_pending[i]
        BY <2>3 DEF TypeOK, Push
      <3> QED
        BY <2>3, <3>1 DEF InOrder
    <2> QED
      BY <2>1, <2>2, <2>3 DEF TypeOK
  <1>4. started' + Len(m_callbacks_pending') = added'
    <2>1. started + Len(m_callbacks_pending) = added /\ Len(m_callbacks_pending) \in Nat
      BY DEF TypeOK, InOrder
    <2> QED
      BY <1>2, <2>1 DEF TypeOK, Push
  <1> QED
    BY <1>1, <1>3, <1>4 DEF InOrder

(* ProcessQueue takes the callback that was added first, and the rest stay  *)
(* in order.                                                                *)
LEMMA PopOrders ==
    ASSUME TypeOK, InOrder, m_callbacks_pending # <<>>,
           m_callbacks_pending' = Tail(m_callbacks_pending),
           started' = Head(m_callbacks_pending), added' = added
    PROVE  /\ m_callbacks_pending' \in Seq(Nat) /\ added' \in Nat /\ started' \in Nat
           /\ InOrder' /\ started' = started + 1
  <1>1. Len(m_callbacks_pending) \in Nat \ {0} /\ 1 \in DOMAIN m_callbacks_pending
    BY DEF TypeOK
  <1>2. started' = started + 1
    BY <1>1 DEF TypeOK, InOrder
  <1>3. m_callbacks_pending' \in Seq(Nat) /\ Len(m_callbacks_pending') = Len(m_callbacks_pending) - 1
    BY DEF TypeOK
  <1>4. ASSUME NEW i \in DOMAIN m_callbacks_pending' PROVE m_callbacks_pending'[i] = started' + i
    <2>1. i \in Nat /\ i + 1 \in DOMAIN m_callbacks_pending
      BY <1>1, <1>3 DEF TypeOK
    <2>2. m_callbacks_pending'[i] = m_callbacks_pending[i + 1]
      BY <1>3 DEF TypeOK
    <2>3. m_callbacks_pending[i + 1] = started + (i + 1)
      BY <2>1 DEF InOrder
    <2> QED
      BY <2>1, <2>2, <2>3, <1>2 DEF TypeOK
  <1> QED
    BY <1>1, <1>2, <1>3, <1>4 DEF TypeOK, InOrder

(* A poster appends its callback and will look whether to schedule.         *)
LEMMA AddToProcessQueueKeeps ==
    ASSUME IInv, NEW p \in Poster, AddToProcessQueue(p) PROVE IInv'
  <1> USE ThreadsAssumption DEF ThreadsAssumption, Thread, Shared, Runs
  <1>0. m_callbacks_pending' \in Seq(Nat) /\ added' \in Nat /\ InOrder'
    BY PushOrders DEF AddToProcessQueue, IInv
  <1>1. TypeOK'
    BY <1>0 DEF AddToProcessQueue, Goto, queue, counts, IInv, TypeOK
  <1>2. PcOK'
    BY DEF AddToProcessQueue, Goto, queue, counts, Push, IInv, TypeOK, PcOK
  <1>3. PhaseOK'
    BY DEF AddToProcessQueue, Goto, queue, counts, Push, IInv, TypeOK, PcOK, PhaseOK
  <1>4. Serial'
    BY DEF AddToProcessQueue, Goto, queue, counts, Push, IInv, TypeOK, PcOK, PhaseOK, Serial, Running
  <1>5. InOrder'
    BY <1>0
  <1>6. NotForgotten'
    BY DEF AddToProcessQueue, Goto, queue, counts, Push, IInv, TypeOK, PcOK, NotForgotten
  <1>7. NoLostWakeup'
    BY DEF AddToProcessQueue, Goto, queue, counts, Push, IInv, TypeOK, PcOK, PhaseOK, NoLostWakeup
  <1>8. NothingDropped'
    BY DEF AddToProcessQueue, Goto, queue, counts, Push, IInv, TypeOK, PcOK, PhaseOK, NothingDropped, Serial, Running, InOrder
  <1> QED
    BY <1>1, <1>2, <1>3, <1>4, <1>5, <1>6, <1>7, <1>8 DEF IInv

(* The same for a poster that then waits for its promise.                   *)
LEMMA SyncWithValidationInterfaceQueueKeeps ==
    ASSUME IInv, NEW p \in Poster, SyncWithValidationInterfaceQueue(p) PROVE IInv'
  <1> USE ThreadsAssumption DEF ThreadsAssumption, Thread, Shared, Runs
  <1>0. m_callbacks_pending' \in Seq(Nat) /\ added' \in Nat /\ InOrder'
    BY PushOrders DEF SyncWithValidationInterfaceQueue, IInv
  <1>1. TypeOK'
    BY <1>0 DEF SyncWithValidationInterfaceQueue, Goto, queue, counts, IInv, TypeOK
  <1>2. PcOK'
    BY DEF SyncWithValidationInterfaceQueue, Goto, queue, counts, Push, IInv, TypeOK, PcOK
  <1>3. PhaseOK'
    BY DEF SyncWithValidationInterfaceQueue, Goto, queue, counts, Push, IInv, TypeOK, PcOK, PhaseOK
  <1>4. Serial'
    BY DEF SyncWithValidationInterfaceQueue, Goto, queue, counts, Push, IInv, TypeOK, PcOK, PhaseOK, Serial, Running
  <1>5. InOrder'
    BY <1>0
  <1>6. NotForgotten'
    BY DEF SyncWithValidationInterfaceQueue, Goto, queue, counts, Push, IInv, TypeOK, PcOK, NotForgotten
  <1>7. NoLostWakeup'
    BY DEF SyncWithValidationInterfaceQueue, Goto, queue, counts, Push, IInv, TypeOK, PcOK, PhaseOK, NoLostWakeup
  <1>8. NothingDropped'
    BY DEF SyncWithValidationInterfaceQueue, Goto, queue, counts, Push, IInv, TypeOK, PcOK, PhaseOK, NothingDropped, Serial, Running, InOrder
  <1> QED
    BY <1>1, <1>2, <1>3, <1>4, <1>5, <1>6, <1>7, <1>8 DEF IInv

(* A poster whose promise is kept goes on.                                  *)
LEMMA PromiseKeptKeeps ==
    ASSUME IInv, NEW p \in Poster, PromiseKept(p) PROVE IInv'
  <1> USE ThreadsAssumption DEF ThreadsAssumption, Thread, Shared, Runs
  <1>1. TypeOK'
    BY DEF PromiseKept, Goto, queue, counts, IInv, TypeOK
  <1>2. PcOK'
    BY DEF PromiseKept, Goto, queue, counts, IInv, TypeOK, PcOK
  <1>3. PhaseOK'
    BY DEF PromiseKept, Goto, queue, counts, IInv, TypeOK, PcOK, PhaseOK
  <1>4. Serial'
    BY DEF PromiseKept, Goto, queue, counts, IInv, TypeOK, PcOK, PhaseOK, Serial, Running
  <1>5. InOrder'
    BY DEF PromiseKept, Goto, queue, counts, IInv, TypeOK, InOrder
  <1>6. NotForgotten'
    BY DEF PromiseKept, Goto, queue, counts, IInv, TypeOK, PcOK, NotForgotten
  <1>7. NoLostWakeup'
    BY DEF PromiseKept, Goto, queue, counts, IInv, TypeOK, PcOK, PhaseOK, NoLostWakeup
  <1>8. NothingDropped'
    BY DEF PromiseKept, Goto, queue, counts, IInv, TypeOK, PcOK, PhaseOK, NothingDropped, Serial, Running, InOrder
  <1> QED
    BY <1>1, <1>2, <1>3, <1>4, <1>5, <1>6, <1>7, <1>8 DEF IInv

(* A thread of the group ends.                                              *)
LEMMA ExitKeeps ==
    ASSUME IInv, NEW p \in Poster, Exit(p) PROVE IInv'
  <1> USE ThreadsAssumption DEF ThreadsAssumption, Thread, Shared, Runs
  <1>1. TypeOK'
    BY DEF Exit, Goto, queue, counts, IInv, TypeOK
  <1>2. PcOK'
    BY DEF Exit, Goto, queue, counts, IInv, TypeOK, PcOK
  <1>3. PhaseOK'
    BY DEF Exit, Goto, queue, counts, IInv, TypeOK, PcOK, PhaseOK
  <1>4. Serial'
    BY DEF Exit, Goto, queue, counts, IInv, TypeOK, PcOK, PhaseOK, Serial, Running
  <1>5. InOrder'
    BY DEF Exit, Goto, queue, counts, IInv, TypeOK, InOrder
  <1>6. NotForgotten'
    BY DEF Exit, Goto, queue, counts, IInv, TypeOK, PcOK, NotForgotten
  <1>7. NoLostWakeup'
    BY DEF Exit, Goto, queue, counts, IInv, TypeOK, PcOK, PhaseOK, NoLostWakeup
  <1>8. NothingDropped'
    BY DEF Exit, Goto, queue, counts, IInv, TypeOK, PcOK, PhaseOK, NothingDropped, Serial, Running, InOrder
  <1> QED
    BY <1>1, <1>2, <1>3, <1>4, <1>5, <1>6, <1>7, <1>8 DEF IInv

(* A thread that finds callbacks running, or none pending, leaves them to   *)
(* the thread that runs them.                                               *)
LEMMA CheckKeeps ==
    ASSUME IInv, NEW t \in Thread, Check(t) PROVE IInv'
  <1> USE ThreadsAssumption DEF ThreadsAssumption, Thread, Shared, Runs
  <1>1. TypeOK'
    BY DEF Check, Goto, queue, counts, Caller, IInv, TypeOK
  <1>2. PcOK'
    BY DEF Check, Goto, queue, counts, Caller, IInv, TypeOK, PcOK
  <1>3. PhaseOK'
    BY DEF Check, Goto, queue, counts, Caller, IInv, TypeOK, PcOK, PhaseOK
  <1>4. Serial'
    BY DEF Check, Goto, queue, counts, Caller, IInv, TypeOK, PcOK, PhaseOK, Serial, Running
  <1>5. InOrder'
    BY DEF Check, Goto, queue, counts, IInv, TypeOK, InOrder
  <1>6. NotForgotten'
    BY DEF Check, Goto, queue, counts, Caller, IInv, TypeOK, PcOK, NotForgotten
  <1>7. NoLostWakeup'
    BY DEF Check, Goto, queue, counts, Caller, IInv, TypeOK, PcOK, PhaseOK, NoLostWakeup
  <1>8. NothingDropped'
    BY DEF Check, Goto, queue, counts, Caller, IInv, TypeOK, PcOK, PhaseOK, NothingDropped, Serial, Running, InOrder
  <1> QED
    BY <1>1, <1>2, <1>3, <1>4, <1>5, <1>6, <1>7, <1>8 DEF IInv

(* The call of ProcessQueue is inserted; its thread still has to notify.    *)
LEMMA ScheduleKeeps ==
    ASSUME IInv, NEW t \in Thread, Schedule(t) PROVE IInv'
  <1> USE ThreadsAssumption DEF ThreadsAssumption, Thread, Shared, Runs
  <1>1. TypeOK'
    BY DEF Schedule, Goto, queue, counts, IInv, TypeOK
  <1>2. PcOK'
    BY DEF Schedule, Goto, queue, counts, IInv, TypeOK, PcOK
  <1>3. PhaseOK'
    BY DEF Schedule, Goto, queue, counts, IInv, TypeOK, PcOK, PhaseOK
  <1>4. Serial'
    BY DEF Schedule, Goto, queue, counts, IInv, TypeOK, PcOK, PhaseOK, Serial, Running
  <1>5. InOrder'
    BY DEF Schedule, Goto, queue, counts, IInv, TypeOK, InOrder
  <1>6. NotForgotten'
    BY DEF Schedule, Goto, queue, counts, IInv, TypeOK, PcOK, NotForgotten
  <1>7. NoLostWakeup'
    BY DEF Schedule, Goto, queue, counts, IInv, TypeOK, PcOK, PhaseOK, NoLostWakeup
  <1>8. NothingDropped'
    BY DEF Schedule, Goto, queue, counts, IInv, TypeOK, PcOK, PhaseOK, NothingDropped, Serial, Running, InOrder
  <1> QED
    BY <1>1, <1>2, <1>3, <1>4, <1>5, <1>6, <1>7, <1>8 DEF IInv

(* notify_one wakes a service thread if one is waiting.                     *)
LEMMA NotifyKeeps ==
    ASSUME IInv, NEW t \in Thread, Notify(t) PROVE IInv'
  <1> USE ThreadsAssumption DEF ThreadsAssumption, Thread, Shared, Runs
  <1>1. TypeOK'
    BY DEF Notify, Goto, queue, counts, Caller, Waiting, IInv, TypeOK
  <1>a. Caller(t) \in (IF t \in Service THEN {"top"} ELSE IF t = Main THEN {"test"} ELSE {"sync"})
    BY DEF Caller
  <1>b. \A u \in Thread : pc'[u] = pc[u] \/ (u = t /\ pc[u] = "notify" /\ pc'[u] = Caller(t))
                               \/ (u \in Service /\ pc[u] = "wait" /\ pc'[u] = "top")
    BY DEF Notify, Goto, Waiting, IInv, TypeOK
  <1>2. PcOK'
    BY <1>a, <1>b DEF IInv, PcOK
  <1>3. PhaseOK'
    <2>1. interrupted' = interrupted
      BY DEF Notify
    <2>2. pc'[Main] = pc[Main] \/ (pc[Main] = "notify" /\ pc'[Main] = "test")
      BY <1>a, <1>b
    <2>3. \A u \in Service \cup Poster : /\ pc[u] \in {"idle", "exited"} => pc'[u] = pc[u]
                                         /\ pc'[u] = "exited" => pc[u] = "exited"
      BY <1>a, <1>b
    <2>4. interrupted' <=> pc'[Main] # "up"
      BY <2>1, <2>2 DEF IInv, PhaseOK
    <2>5. PhaseOK /\ Group \subseteq Poster
      BY DEF IInv
    <2> HIDE ThreadsAssumption DEF ThreadsAssumption, Thread, Shared, Runs
    <2>6. interrupted' => \A p \in Poster \ Group : pc'[p] = "idle"
      BY <2>1, <2>3, <2>5 DEF PhaseOK
    <2>7. pc'[Main] \notin {"up", "join"} => pc[Main] \notin {"up", "join"}
      BY <2>2
    <2>8. pc'[Main] \notin {"up", "join"} => \A u \in Service \cup Group : pc'[u] = "exited"
      BY <2>3, <2>5, <2>7 DEF PhaseOK
    <2>9. \A s \in Service : pc'[s] = "exited" => interrupted'
      BY <2>1, <2>3, <2>5 DEF PhaseOK
    <2> QED
      BY <2>4, <2>6, <2>8, <2>9, Zenon DEF PhaseOK
  <1>4. Serial'
    BY DEF Notify, Goto, queue, counts, Caller, Waiting, IInv, TypeOK, PcOK, PhaseOK, Serial, Running
  <1>5. InOrder'
    BY DEF Notify, Goto, queue, counts, IInv, TypeOK, InOrder
  <1>6. NotForgotten'
    BY Zenon DEF Notify, Goto, queue, counts, Caller, Waiting, IInv, TypeOK, PcOK, NotForgotten
  <1>7. NoLostWakeup'
    BY DEF Notify, Goto, queue, counts, Caller, Waiting, IInv, TypeOK, PcOK, PhaseOK, NoLostWakeup
  <1>8. NothingDropped'
    BY DEF Notify, Goto, queue, counts, Caller, Waiting, IInv, TypeOK, PcOK, PhaseOK, NothingDropped, Serial, Running, InOrder
  <1> QED
    BY <1>1, <1>2, <1>3, <1>4, <1>5, <1>6, <1>7, <1>8 DEF IInv

(* A service thread goes to wait only if the task queue is empty.           *)
LEMMA TopKeeps ==
    ASSUME IInv, NEW s \in Service, Top(s) PROVE IInv'
  <1> USE ThreadsAssumption DEF ThreadsAssumption, Thread, Shared, Runs
  <1>1. TypeOK'
    BY DEF Top, Goto, queue, counts, IInv, TypeOK
  <1>2. PcOK'
    BY DEF Top, Goto, queue, counts, IInv, TypeOK, PcOK
  <1>3. PhaseOK'
    BY DEF Top, Goto, queue, counts, IInv, TypeOK, PcOK, PhaseOK
  <1>4. Serial'
    BY DEF Top, Goto, queue, counts, IInv, TypeOK, PcOK, PhaseOK, Serial, Running
  <1>5. InOrder'
    BY DEF Top, Goto, queue, counts, IInv, TypeOK, InOrder
  <1>6. NotForgotten'
    BY DEF Top, Goto, queue, counts, IInv, TypeOK, PcOK, NotForgotten
  <1>7. NoLostWakeup'
    BY DEF Top, Goto, queue, counts, IInv, TypeOK, PcOK, PhaseOK, NoLostWakeup
  <1>8. NothingDropped'
    BY DEF Top, Goto, queue, counts, IInv, TypeOK, PcOK, PhaseOK, NothingDropped, Serial, Running, InOrder
  <1> QED
    BY <1>1, <1>2, <1>3, <1>4, <1>5, <1>6, <1>7, <1>8 DEF IInv

(* A service thread wakes up without a notification.                        *)
LEMMA SpuriousWakeKeeps ==
    ASSUME IInv, NEW s \in Service, SpuriousWake(s) PROVE IInv'
  <1> USE ThreadsAssumption DEF ThreadsAssumption, Thread, Shared, Runs
  <1>1. TypeOK'
    BY DEF SpuriousWake, Goto, queue, counts, IInv, TypeOK
  <1>2. PcOK'
    BY DEF SpuriousWake, Goto, queue, counts, IInv, TypeOK, PcOK
  <1>3. PhaseOK'
    BY DEF SpuriousWake, Goto, queue, counts, IInv, TypeOK, PcOK, PhaseOK
  <1>4. Serial'
    BY DEF SpuriousWake, Goto, queue, counts, IInv, TypeOK, PcOK, PhaseOK, Serial, Running
  <1>5. InOrder'
    BY DEF SpuriousWake, Goto, queue, counts, IInv, TypeOK, InOrder
  <1>6. NotForgotten'
    BY DEF SpuriousWake, Goto, queue, counts, IInv, TypeOK, PcOK, NotForgotten
  <1>7. NoLostWakeup'
    BY DEF SpuriousWake, Goto, queue, counts, IInv, TypeOK, PcOK, PhaseOK, NoLostWakeup
  <1>8. NothingDropped'
    BY DEF SpuriousWake, Goto, queue, counts, IInv, TypeOK, PcOK, PhaseOK, NothingDropped, Serial, Running, InOrder
  <1> QED
    BY <1>1, <1>2, <1>3, <1>4, <1>5, <1>6, <1>7, <1>8 DEF IInv

(* A service thread takes a task unless another one was faster.             *)
LEMMA TakeKeeps ==
    ASSUME IInv, NEW s \in Service, Take(s) PROVE IInv'
  <1> USE ThreadsAssumption DEF ThreadsAssumption, Thread, Shared, Runs
  <1>1. TypeOK'
    <2>1. taskQueue' \in Nat
      BY DEF Take, IInv, TypeOK
    <2>2. pc' = [pc EXCEPT ![s] = "top"] \/ pc' = [pc EXCEPT ![s] = "process"]
      BY Zenon DEF Take, Goto
    <2> QED
      BY <2>1, <2>2 DEF Take, queue, counts, IInv, TypeOK
  <1>2. PcOK'
    <2>1. \A u \in Thread : pc'[u] = pc[u] \/ (u = s /\ pc'[u] \in {"top", "process"})
      BY DEF Take, Goto, IInv, TypeOK
    <2> QED
      BY <2>1 DEF IInv, PcOK
  <1>3. PhaseOK'
    BY DEF Take, Goto, queue, counts, IInv, TypeOK, PcOK, PhaseOK
  <1>4. Serial'
    <2>1. \A u \in Thread : pc'[u] = pc[u]
                               \/ (u = s /\ pc[u] = "due" /\ pc'[u] \in {"top", "process"})
      BY DEF Take, Goto, IInv, TypeOK
    <2>2. Running' = Running /\ \A u \in Running : pc'[u] = pc[u]
      BY <2>1 DEF Running
    <2>3. UNCHANGED <<m_are_callbacks_running, started, finished>> /\ Serial
      BY Zenon DEF Take, queue, counts, IInv
    <2> HIDE ThreadsAssumption DEF ThreadsAssumption, Thread, Shared, Runs
    <2> QED
      BY <2>2, <2>3 DEF Serial
  <1>5. InOrder'
    BY DEF Take, Goto, queue, counts, IInv, TypeOK, InOrder
  <1>6. NotForgotten'
    BY DEF Take, Goto, queue, counts, IInv, TypeOK, PcOK, NotForgotten
  <1>7. NoLostWakeup'
    BY DEF Take, Goto, queue, counts, IInv, TypeOK, PcOK, PhaseOK, NoLostWakeup
  <1>8. NothingDropped'
    BY DEF Take, Goto, queue, counts, IInv, TypeOK, PcOK, PhaseOK, NothingDropped, Serial, Running, InOrder
  <1> QED
    BY <1>1, <1>2, <1>3, <1>4, <1>5, <1>6, <1>7, <1>8 DEF IInv

(* A service thread leaves when it is interrupted; it runs no callback      *)
(* then.                                                                    *)
LEMMA InterruptedKeeps ==
    ASSUME IInv, NEW s \in Service, Interrupted(s) PROVE IInv'
  <1> USE ThreadsAssumption DEF ThreadsAssumption, Thread, Shared, Runs
  <1>1. TypeOK'
    BY DEF Interrupted, Goto, queue, counts, IInv, TypeOK
  <1>2. PcOK'
    BY DEF Interrupted, Goto, queue, counts, IInv, TypeOK, PcOK
  <1>3. PhaseOK'
    BY DEF Interrupted, Goto, queue, counts, IInv, TypeOK, PcOK, PhaseOK
  <1>4. Serial'
    BY DEF Interrupted, Goto, queue, counts, IInv, TypeOK, PcOK, PhaseOK, Serial, Running
  <1>5. InOrder'
    BY DEF Interrupted, Goto, queue, counts, IInv, TypeOK, InOrder
  <1>6. NotForgotten'
    BY DEF Interrupted, Goto, queue, counts, IInv, TypeOK, PcOK, NotForgotten
  <1>7. NoLostWakeup'
    BY DEF Interrupted, Goto, queue, counts, IInv, TypeOK, PcOK, PhaseOK, NoLostWakeup
  <1>8. NothingDropped'
    BY DEF Interrupted, Goto, queue, counts, IInv, TypeOK, PcOK, PhaseOK, NothingDropped, Serial, Running, InOrder
  <1> QED
    BY <1>1, <1>2, <1>3, <1>4, <1>5, <1>6, <1>7, <1>8 DEF IInv

(* The first critical section of ProcessQueue: the flag is taken by one     *)
(* thread at a time.                                                        *)
LEMMA ProcessKeeps ==
    ASSUME IInv, NEW t \in Thread, Process(t) PROVE IInv'
  <1> USE ThreadsAssumption DEF ThreadsAssumption, Thread, Shared, Runs
  <1>0. m_callbacks_pending' \in Seq(Nat) /\ added' \in Nat /\ started' \in Nat /\ InOrder'
    <2>1. CASE m_are_callbacks_running \/ m_callbacks_pending = <<>>
      BY <2>1 DEF Process, queue, IInv, InOrder, TypeOK
    <2>2. CASE ~(m_are_callbacks_running \/ m_callbacks_pending = <<>>)
      BY <2>2, PopOrders DEF Process, IInv
    <2> QED
      BY <2>1, <2>2
  <1>1. TypeOK'
    BY <1>0, Zenon DEF Process, Goto, queue, counts, Caller, IInv, TypeOK
  <1>2. PcOK'
    <2>1. pc[t] = "process" /\ \A u \in Thread : u # t => pc'[u] = pc[u]
      BY DEF Process, Goto, IInv, TypeOK
    <2>2. pc'[t] \in {"callback", Caller(t)}
      BY DEF Process, Goto, IInv, TypeOK
    <2>3. CASE t \in Service
      BY <2>1, <2>2, <2>3 DEF Caller, IInv, PcOK
    <2>4. CASE t = Main
      BY <2>1, <2>2, <2>4 DEF Caller, IInv, PcOK
    <2> QED
      BY <2>1, <2>3, <2>4 DEF IInv, PcOK
  <1>3. PhaseOK'
    BY DEF Process, Goto, queue, counts, Caller, IInv, TypeOK, PcOK, PhaseOK
  <1>4. Serial'
    <2> HIDE ThreadsAssumption DEF ThreadsAssumption, Thread
    <2>1. CASE m_are_callbacks_running \/ m_callbacks_pending = <<>>
      <3>1. pc[t] = "process" /\ pc' = [pc EXCEPT ![t] = Caller(t)]
            /\ UNCHANGED <<m_are_callbacks_running, started, finished>>
        BY <2>1 DEF Process, Goto, queue
      <3>a. Caller(t) \in {"top", "test", "sync"}
        BY Zenon DEF Caller
      <3>b. \A u \in Thread : u # t => pc'[u] = pc[u]
        BY <3>1, Zenon DEF IInv, TypeOK
      <3>c. pc'[t] = Caller(t)
        BY <3>1, Zenon DEF IInv, TypeOK
      <3>d. pc'[t] \in {"top", "test", "sync"}
        BY <3>a, <3>c, Zenon
      <3>2. \A u \in Thread : pc'[u] = pc[u] \/ (u = t /\ pc'[u] \in {"top", "test", "sync"})
        BY <3>b, <3>d, Zenon
      <3>3. Running' = Running
        BY <3>1, <3>2 DEF Running
      <3>4. \A u \in Running : pc'[u] = pc[u]
        BY <3>1, <3>2 DEF Running
      <3> QED BY <3>1, <3>3, <3>4 DEF IInv, Serial
    <2>2. CASE ~(m_are_callbacks_running \/ m_callbacks_pending = <<>>)
      <3>1. pc' = [pc EXCEPT ![t] = "callback"] /\ m_are_callbacks_running' /\ finished' = finished
        BY <2>2 DEF Process, Goto
      <3>2. Running = {} /\ finished = started
        BY <2>2 DEF IInv, Serial
      <3>3. pc'[t] = "callback" /\ \A u \in Thread : u # t => pc'[u] = pc[u]
        BY <3>1 DEF IInv, TypeOK
      <3>4. Running' = {t}
        BY <3>2, <3>3 DEF Running
      <3>5. started' = started + 1
        BY <2>2, PopOrders DEF Process, IInv
      <3> QED BY <3>1, <3>2, <3>3, <3>4, <3>5 DEF Serial
    <2> QED BY <2>1, <2>2
  <1>5. InOrder'
    BY <1>0
  <1>6. NotForgotten'
    BY DEF Process, Goto, queue, counts, Caller, IInv, TypeOK, PcOK, NotForgotten
  <1>7. NoLostWakeup'
    BY DEF Process, Goto, queue, counts, Caller, IInv, TypeOK, PcOK, PhaseOK, NoLostWakeup
  <1>8. NothingDropped'
    BY DEF Process, Goto, queue, counts, Caller, IInv, TypeOK, PcOK, PhaseOK, NothingDropped, Serial, Running, InOrder
  <1> QED
    BY <1>1, <1>2, <1>3, <1>4, <1>5, <1>6, <1>7, <1>8 DEF IInv

(* The callback runs and may itself add one.                                *)
LEMMA CallbackKeeps ==
    ASSUME IInv, NEW t \in Thread, Callback(t) PROVE IInv'
  <1> USE ThreadsAssumption DEF ThreadsAssumption, Thread, Shared, Runs
  <1>0. m_callbacks_pending' \in Seq(Nat) /\ added' \in Nat /\ InOrder'
    <2>1. CASE Push
      BY <2>1, PushOrders DEF Callback, IInv
    <2>2. CASE UNCHANGED <<m_callbacks_pending, added>>
      BY <2>2 DEF Callback, IInv, InOrder, TypeOK
    <2> QED
      BY <2>1, <2>2 DEF Callback
  <1>1. TypeOK'
    BY <1>0 DEF Callback, Goto, queue, counts, IInv, TypeOK
  <1>2. PcOK'
    BY DEF Callback, Goto, queue, counts, Push, IInv, TypeOK, PcOK
  <1>3. PhaseOK'
    BY DEF Callback, Goto, queue, counts, Push, IInv, TypeOK, PcOK, PhaseOK
  <1>4. Serial'
    BY DEF Callback, Goto, queue, counts, Push, IInv, TypeOK, PcOK, PhaseOK, Serial, Running
  <1>5. InOrder'
    BY <1>0
  <1>6. NotForgotten'
    BY DEF Callback, Goto, queue, counts, Push, IInv, TypeOK, PcOK, NotForgotten, Serial, Running
  <1>7. NoLostWakeup'
    BY DEF Callback, Goto, queue, counts, Push, IInv, TypeOK, PcOK, PhaseOK, NoLostWakeup
  <1>8. NothingDropped'
    BY DEF Callback, Goto, queue, counts, Push, IInv, TypeOK, PcOK, PhaseOK, NothingDropped, Serial, Running, InOrder
  <1> QED
    BY <1>1, <1>2, <1>3, <1>4, <1>5, <1>6, <1>7, <1>8 DEF IInv

(* The flag is given back, and the thread looks again for what was added    *)
(* meanwhile.                                                               *)
LEMMA ReleaseKeeps ==
    ASSUME IInv, NEW t \in Thread, Release(t) PROVE IInv'
  <1> USE ThreadsAssumption DEF ThreadsAssumption, Thread, Shared, Runs
  <1>1. TypeOK'
    BY Zenon DEF Release, Goto, queue, counts, IInv, TypeOK
  <1>2. PcOK'
    BY DEF Release, Goto, queue, counts, IInv, TypeOK, PcOK
  <1>3. PhaseOK'
    BY DEF Release, Goto, queue, counts, IInv, TypeOK, PcOK, PhaseOK
  <1>4. Serial'
    BY DEF Release, Goto, queue, counts, IInv, TypeOK, PcOK, PhaseOK, Serial, Running
  <1>5. InOrder'
    BY DEF Release, Goto, queue, counts, IInv, TypeOK, InOrder
  <1>6. NotForgotten'
    BY DEF Release, Goto, queue, counts, IInv, TypeOK, PcOK, NotForgotten
  <1>7. NoLostWakeup'
    BY DEF Release, Goto, queue, counts, IInv, TypeOK, PcOK, PhaseOK, NoLostWakeup
  <1>8. NothingDropped'
    BY DEF Release, Goto, queue, counts, IInv, TypeOK, PcOK, PhaseOK, NothingDropped, Serial, Running, InOrder
  <1> QED
    BY <1>1, <1>2, <1>3, <1>4, <1>5, <1>6, <1>7, <1>8 DEF IInv

(* Shutdown interrupts the group once the other posters are gone.           *)
LEMMA InterruptAllKeeps ==
    ASSUME IInv, InterruptAll PROVE IInv'
  <1> USE ThreadsAssumption DEF ThreadsAssumption, Thread, Shared, Runs
  <1>1. TypeOK'
    BY DEF InterruptAll, Goto, queue, counts, IInv, TypeOK
  <1>2. PcOK'
    BY DEF InterruptAll, Goto, queue, counts, IInv, TypeOK, PcOK
  <1>3. PhaseOK'
    BY DEF InterruptAll, Goto, queue, counts, IInv, TypeOK, PcOK, PhaseOK
  <1>4. Serial'
    BY DEF InterruptAll, Goto, queue, counts, IInv, TypeOK, PcOK, PhaseOK, Serial, Running
  <1>5. InOrder'
    BY DEF InterruptAll, Goto, queue, counts, IInv, TypeOK, InOrder
  <1>6. NotForgotten'
    BY DEF InterruptAll, Goto, queue, counts, IInv, TypeOK, PcOK, NotForgotten
  <1>7. NoLostWakeup'
    BY DEF InterruptAll, Goto, queue, counts, IInv, TypeOK, PcOK, PhaseOK, NoLostWakeup
  <1>8. NothingDropped'
    BY DEF InterruptAll, Goto, queue, counts, IInv, TypeOK, PcOK, PhaseOK, NothingDropped, Serial, Running, InOrder
  <1> QED
    BY <1>1, <1>2, <1>3, <1>4, <1>5, <1>6, <1>7, <1>8 DEF IInv

(* Shutdown has joined the group, so no callback is running.                *)
LEMMA JoinAllKeeps ==
    ASSUME IInv, JoinAll PROVE IInv'
  <1> USE ThreadsAssumption DEF ThreadsAssumption, Thread, Shared, Runs
  <1>1. TypeOK'
    BY DEF JoinAll, Goto, queue, counts, IInv, TypeOK
  <1>2. PcOK'
    BY DEF JoinAll, Goto, queue, counts, IInv, TypeOK, PcOK
  <1>3. PhaseOK'
    BY DEF JoinAll, Goto, queue, counts, IInv, TypeOK, PcOK, PhaseOK
  <1>4. Serial'
    BY DEF JoinAll, Goto, queue, counts, IInv, TypeOK, PcOK, PhaseOK, Serial, Running
  <1>5. InOrder'
    BY DEF JoinAll, Goto, queue, counts, IInv, TypeOK, InOrder
  <1>6. NotForgotten'
    BY DEF JoinAll, Goto, queue, counts, IInv, TypeOK, PcOK, NotForgotten
  <1>7. NoLostWakeup'
    BY DEF JoinAll, Goto, queue, counts, IInv, TypeOK, PcOK, PhaseOK, NoLostWakeup
  <1>8. NothingDropped'
    BY DEF JoinAll, Goto, queue, counts, IInv, TypeOK, PcOK, PhaseOK, NothingDropped, Serial, Running, InOrder
  <1> QED
    BY <1>1, <1>2, <1>3, <1>4, <1>5, <1>6, <1>7, <1>8 DEF IInv

(* The last callback of a shutdown is added by the main thread.             *)
LEMMA FlushStateToDiskKeeps ==
    ASSUME IInv, FlushStateToDisk PROVE IInv'
  <1> USE ThreadsAssumption DEF ThreadsAssumption, Thread, Shared, Runs
  <1>0. m_callbacks_pending' \in Seq(Nat) /\ added' \in Nat /\ InOrder'
    <2>1. CASE Push
      BY <2>1, PushOrders DEF FlushStateToDisk, IInv
    <2>2. CASE UNCHANGED <<m_callbacks_pending, added>>
      BY <2>2 DEF FlushStateToDisk, IInv, InOrder, TypeOK
    <2> QED
      BY <2>1, <2>2 DEF FlushStateToDisk
  <1>1. TypeOK'
    BY <1>0 DEF FlushStateToDisk, Goto, queue, counts, IInv, TypeOK
  <1>2. PcOK'
    BY Zenon DEF FlushStateToDisk, Goto, queue, counts, Push, IInv, TypeOK, PcOK
  <1>3. PhaseOK'
    BY DEF FlushStateToDisk, Goto, queue, counts, Push, IInv, TypeOK, PcOK, PhaseOK
  <1>4. Serial'
    BY DEF FlushStateToDisk, Goto, queue, counts, Push, IInv, TypeOK, PcOK, PhaseOK, Serial, Running
  <1>5. InOrder'
    BY <1>0
  <1>6. NotForgotten'
    BY DEF FlushStateToDisk, Goto, queue, counts, Push, IInv, TypeOK, PcOK, NotForgotten
  <1>7. NoLostWakeup'
    BY DEF FlushStateToDisk, Goto, queue, counts, Push, IInv, TypeOK, PcOK, PhaseOK, NoLostWakeup
  <1>8. NothingDropped'
    BY DEF FlushStateToDisk, Goto, queue, counts, Push, IInv, TypeOK, PcOK, PhaseOK, NothingDropped, Serial, Running, InOrder
  <1> QED
    BY <1>1, <1>2, <1>3, <1>4, <1>5, <1>6, <1>7, <1>8 DEF IInv

(* The main thread is done only when nothing is pending.                    *)
LEMMA EmptyQueueKeeps ==
    ASSUME IInv, EmptyQueue PROVE IInv'
  <1> USE ThreadsAssumption DEF ThreadsAssumption, Thread, Shared, Runs
  <1>1. TypeOK'
    BY DEF EmptyQueue, Goto, queue, counts, IInv, TypeOK
  <1>2. PcOK'
    BY DEF EmptyQueue, Goto, queue, counts, IInv, TypeOK, PcOK
  <1>3. PhaseOK'
    BY DEF EmptyQueue, Goto, queue, counts, IInv, TypeOK, PcOK, PhaseOK
  <1>4. Serial'
    BY DEF EmptyQueue, Goto, queue, counts, IInv, TypeOK, PcOK, PhaseOK, Serial, Running
  <1>5. InOrder'
    BY DEF EmptyQueue, Goto, queue, counts, IInv, TypeOK, InOrder
  <1>6. NotForgotten'
    BY DEF EmptyQueue, Goto, queue, counts, IInv, TypeOK, PcOK, NotForgotten
  <1>7. NoLostWakeup'
    BY DEF EmptyQueue, Goto, queue, counts, IInv, TypeOK, PcOK, PhaseOK, NoLostWakeup
  <1>8. NothingDropped'
    BY DEF EmptyQueue, Goto, queue, counts, IInv, TypeOK, PcOK, PhaseOK, NothingDropped, Serial, Running, InOrder
  <1> QED
    BY <1>1, <1>2, <1>3, <1>4, <1>5, <1>6, <1>7, <1>8 DEF IInv

-----------------------------------------------------------------------------
(* Every step keeps the invariant.                                          *)
THEOREM Invariance == Spec => []IInv
  <1>1. Init => IInv
    <2> SUFFICES ASSUME Init PROVE IInv
      OBVIOUS
    <2> USE ThreadsAssumption DEF ThreadsAssumption, Thread, Init
    <2>0. TypeOK
      <3>1. m_callbacks_pending \in Seq(Nat)
        OBVIOUS
      <3>2. pc \in [Thread -> {"top", "up", "idle"}]
        OBVIOUS
      <3>3. waitsFor \in [Poster -> Nat]
        OBVIOUS
      <3> QED
        BY <3>1, <3>2, <3>3, Zenon DEF TypeOK
    <2>1. PcOK /\ PhaseOK
      BY DEF PcOK, PhaseOK, Shared, Runs
    <2>2. Serial
      BY Zenon DEF Serial, Running
    <2>3. InOrder
      BY DEF InOrder
    <2>4. NotForgotten /\ NoLostWakeup /\ NothingDropped
      BY DEF NotForgotten, NoLostWakeup, NothingDropped
    <2> QED
      BY <2>0, <2>1, <2>2, <2>3, <2>4 DEF IInv
  <1>2. IInv /\ [Next]_vars => IInv'
    <2> SUFFICES ASSUME IInv, [Next]_vars PROVE IInv'
      OBVIOUS
    <2>1. CASE UNCHANGED vars
      BY <2>1 DEF vars, queue, counts, IInv, TypeOK, PcOK, PhaseOK, Serial, Running, InOrder,
                  NotForgotten, NoLostWakeup, NothingDropped
    <2>2. ASSUME NEW t \in Thread, Client(t) PROVE IInv'
      BY <2>2, CheckKeeps, ScheduleKeeps, NotifyKeeps, ProcessKeeps, CallbackKeeps, ReleaseKeeps
      DEF Client
    <2>3. ASSUME NEW s \in Service, Serve(s) \/ SpuriousWake(s) PROVE IInv'
      BY <2>2, <2>3, TopKeeps, TakeKeeps, InterruptedKeeps, SpuriousWakeKeeps DEF Serve, Thread
    <2>4. ASSUME NEW p \in Poster,
                 Post(p) \/ AddToProcessQueue(p) \/ SyncWithValidationInterfaceQueue(p) \/ Exit(p)
          PROVE  IInv'
      BY <2>2, <2>4, PromiseKeptKeeps, ExitKeeps, AddToProcessQueueKeeps,
         SyncWithValidationInterfaceQueueKeeps DEF Post, Thread
    <2>5. CASE InterruptAll \/ Shutdown
      BY <2>2, <2>5, InterruptAllKeeps, JoinAllKeeps, FlushStateToDiskKeeps, EmptyQueueKeeps
      DEF Shutdown, Thread
    <2> QED
      BY <2>1, <2>3, <2>4, <2>5 DEF Next, Stopped
  <1> QED
    BY <1>1, <1>2, PTL DEF Spec

(* One callback at a time: ProcessQueue takes the next one only when the    *)
(* thread that has m_are_callbacks_running has given it back.               *)
THEOREM CallbacksSerial == Spec => []Serial
  BY Invariance, PTL DEF IInv

(* Callbacks start in the order of AddToProcessQueue, whichever of the      *)
(* service threads, or Shutdown's EmptyQueue, takes them.                   *)
THEOREM CallbacksInOrder == Spec => []InOrder
  BY Invariance, PTL DEF IInv

(* A pending callback always has a thread or a task that will look at it,   *)
(* and a task always has a thread that is awake or is being notified.       *)
THEOREM NothingForgotten == Spec => [](NotForgotten /\ NoLostWakeup)
  BY Invariance, PTL DEF IInv

(* Shutdown drops no callback.                                              *)
THEOREM ShutdownDropsNothing == Spec => []NothingDropped
  BY Invariance, PTL DEF IInv

(* The deadlock of a shutdown is final: once a thread of the group waits    *)
(* for a callback and the service threads have exited, no step of any       *)
(* thread, Shutdown's included, runs the callback or ends the wait.         *)
THEOREM DeadlockIsFinal == Spec => [][\A p \in Poster : Deadlocked(p) => Deadlocked(p)']_vars
  <1>1. ASSUME IInv, [Next]_vars, NEW p \in Poster, Deadlocked(p) PROVE Deadlocked(p)'
    <2> USE ThreadsAssumption DEF ThreadsAssumption, Thread
    <2>1. p \in Group /\ pc[p] = "sync" /\ ~(waitsFor[p] <= finished) /\ pc[Main] = "join"
      BY <1>1 DEF IInv, TypeOK, PhaseOK, Deadlocked
    <2>2. \A t \in Thread : pc[t] \notin {"top", "wait", "due", "process", "callback", "release", "up", "test", "flush"}
      BY <1>1, <2>1 DEF IInv, PcOK, Deadlocked, Shared
    <2>3. CASE UNCHANGED vars
      BY <1>1, <2>3 DEF vars, counts, Deadlocked
    <2>4. ASSUME NEW t \in Thread, Check(t) \/ Schedule(t) \/ Notify(t) PROVE Deadlocked(p)'
      BY <1>1, <2>1, <2>2, <2>4 DEF Check, Schedule, Notify, Goto, Waiting, counts, IInv, TypeOK, Deadlocked
    <2>5. ASSUME NEW t \in Thread, Client(t) PROVE Deadlocked(p)'
      BY <2>2, <2>4, <2>5 DEF Client, Process, Callback, Release
    <2>6. ASSUME NEW q \in Poster,
                 AddToProcessQueue(q) \/ SyncWithValidationInterfaceQueue(q) \/ Exit(q) \/ PromiseKept(q)
          PROVE  Deadlocked(p)'
      <3>1. q # p
        BY <2>1, <2>6, Zenon DEF AddToProcessQueue, SyncWithValidationInterfaceQueue, Exit, PromiseKept
      <3>2. \A u \in Thread : u # q => pc'[u] = pc[u]
        BY <1>1, <2>6 DEF AddToProcessQueue, SyncWithValidationInterfaceQueue, Exit, PromiseKept,
                          Goto, IInv, TypeOK
      <3>3. waitsFor'[p] = waitsFor[p] /\ finished' = finished
        BY <1>1, <2>6, <3>1 DEF AddToProcessQueue, SyncWithValidationInterfaceQueue, Exit, PromiseKept,
                    counts, IInv, TypeOK
      <3> QED
        BY <1>1, <3>1, <3>2, <3>3 DEF Deadlocked
    <2>7. ASSUME NEW s \in Service, Serve(s) \/ SpuriousWake(s) PROVE Deadlocked(p)'
      BY <2>2, <2>5, <2>7 DEF Serve, Top, Take, Interrupted, SpuriousWake
    <2>8. ~JoinAll
      BY <2>1 DEF JoinAll
    <2>9. CASE InterruptAll \/ Shutdown
      BY <2>1, <2>2, <2>5, <2>8, <2>9 DEF Shutdown, InterruptAll, FlushStateToDisk, EmptyQueue
    <2> QED
      BY <1>1, <2>3, <2>5, <2>6, <2>7, <2>9, Zenon DEF Next, Post, Stopped
  <1>2. IInv /\ [Next]_vars => [\A p \in Poster : Deadlocked(p) => Deadlocked(p)']_vars
    BY <1>1
  <1> QED
    BY <1>2, Invariance, PTL DEF Spec
=============================================================================
