----------------------------- MODULE CheckQueue -----------------------------
(***************************************************************************)
(* The queue that spreads the script checks of a block over worker threads *)
(* (CCheckQueue and CCheckQueueControl of checkqueue.h).  A thread that     *)
(* connects a block takes the ControlMutex, adds checks, and joins the      *)
(* workers in Loop until every check is done.  One step is one critical     *)
(* section of the queue's mutex, or the execution of a batch outside it.    *)
(*                                                                          *)
(* A condition variable is the set of threads whose pc is "waiting": a      *)
(* notification turns them to "woken", and they go on when they have the    *)
(* mutex again.  A thread may also wake up for no reason.                   *)
(***************************************************************************)
EXTENDS Integers, FiniteSets

CONSTANTS Worker,      \* the threads that run Thread()
          Master,      \* the threads that create a CCheckQueueControl
          NoMaster,    \* nobody holds the ControlMutex
          Check,       \* the checks that a control may add
          Passes,      \* the checks whose operator() returns true
          nBatchSize

ASSUME QueueAssumption ==
    /\ IsFiniteSet(Worker) /\ IsFiniteSet(Master) /\ IsFiniteSet(Check)
    /\ Worker \cap Master = {}
    /\ NoMaster \notin Master
    /\ Passes \subseteq Check
    /\ nBatchSize \in Nat

VARIABLES
    queue,       \* the checks nobody has taken
    nIdle, nTotal, fAllOk, nTodo,
    pc,          \* where a thread is
    batch,       \* the checks of a thread's vChecks, until they are accounted for
    fOk,         \* the fOk of a thread's Loop, TRUE while the thread has no batch
    control,     \* the holder of the ControlMutex
    submitted,   \* the checks added under the current control
    verdict      \* what the Wait of the current control returned

vars == <<queue, nIdle, nTotal, fAllOk, nTodo, pc, batch, fOk, control, submitted, verdict>>

Thread == Worker \cup Master
Counted == {"waiting", "woken", "run", "ran", "gone"}
Idling == {"waiting", "woken", "gone"}

(* One type invariant.                                                      *)
TypeOK ==
    /\ queue \subseteq Check /\ submitted \subseteq Check
    /\ nIdle \in Nat /\ nTotal \in Nat /\ nTodo \in Nat
    /\ fAllOk \in BOOLEAN
    /\ pc \in [Thread -> {"away", "control", "start", "waiting", "woken", "run", "ran",
                          "done", "gone"}]
    /\ batch \in [Thread -> SUBSET Check]
    /\ fOk \in [Thread -> BOOLEAN]
    /\ control \in Master \cup {NoMaster}
    /\ verdict \in BOOLEAN

Init ==
    /\ queue = {} /\ submitted = {}
    /\ nIdle = 0 /\ nTotal = 0 /\ nTodo = 0
    /\ fAllOk = TRUE
    /\ pc = [t \in Thread |-> IF t \in Worker THEN "start" ELSE "away"]
    /\ batch = [t \in Thread |-> {}]
    /\ fOk = [t \in Thread |-> TRUE]
    /\ control = NoMaster
    /\ verdict = TRUE

-----------------------------------------------------------------------------
(* notify_one and notify_all: the program counters they may leave.          *)
NotifyOne(S) ==
    LET waiters == {t \in S : pc[t] = "waiting"}
    IN  IF waiters = {} THEN {pc} ELSE {[pc EXCEPT ![t] = "woken"] : t \in waiters}

NotifyAll(S) ==
    {[t \in Thread |-> IF t \in S /\ pc[t] = "waiting" THEN "woken" ELSE pc[t]]}

(* How many checks a thread takes from a queue of n.                        *)
nNow(n, total, idle) ==
    LET share == n \div (total + idle + 1)
        few == IF share < nBatchSize THEN share ELSE nBatchSize
    IN  IF few < 1 THEN 1 ELSE few

(* The rest of the critical section of Loop: return, wait or take a batch.  *)
(* The arguments are the program counters and counters as they stand.       *)
LoopReturns(t, todo) == queue = {} /\ t \in Master /\ todo = 0

Settle(t, pcs, idle, total, todo, ok) ==
    /\ nTodo' = todo
    /\ \/ /\ LoopReturns(t, todo)
          /\ nTotal' = total - 1 /\ nIdle' = idle
          /\ fAllOk' = TRUE
          /\ verdict' = ok
          /\ pc' = [pcs EXCEPT ![t] = "done"]
          /\ batch' = [batch EXCEPT ![t] = {}]
          /\ fOk' = [fOk EXCEPT ![t] = TRUE]
          /\ UNCHANGED queue
       \/ /\ queue = {} /\ ~LoopReturns(t, todo)
          /\ nTotal' = total /\ nIdle' = idle + 1
          /\ fAllOk' = ok
          /\ pc' = [pcs EXCEPT ![t] = "waiting"]
          /\ batch' = [batch EXCEPT ![t] = {}]
          /\ fOk' = [fOk EXCEPT ![t] = TRUE]
          /\ UNCHANGED <<queue, verdict>>
       \/ /\ queue # {}
          /\ nTotal' = total /\ nIdle' = idle
          /\ fAllOk' = ok
          /\ \E taken \in SUBSET queue :
               /\ Cardinality(taken) = nNow(Cardinality(queue), total, idle)
               /\ queue' = queue \ taken
               /\ batch' = [batch EXCEPT ![t] = taken]
          /\ fOk' = [fOk EXCEPT ![t] = ok]
          /\ pc' = [pcs EXCEPT ![t] = "run"]
          /\ UNCHANGED verdict
    /\ UNCHANGED <<control, submitted>>

(* The first iteration of Loop.                                             *)
LoopEnter(t) ==
    /\ pc[t] = "start"
    /\ Settle(t, pc, nIdle, nTotal + 1, nTodo, fAllOk)

(* (The batch stays on the count.)                                          *)
AgainUncounted(t) ==
    /\ pc[t] = "ran"
    /\ Settle(t, pc, nIdle, nTotal, nTodo, fAllOk /\ fOk[t])

(* (The result of the batch is lost.)                                       *)
AgainUnjudged(t) ==
    /\ pc[t] = "ran"
    /\ LET todo == nTodo - Cardinality(batch[t])
       IN  \E pcs \in IF todo = 0 /\ t \notin Master THEN NotifyOne(Master) ELSE {pc} :
             Settle(t, pcs, nIdle, nTotal, todo, fAllOk)

(* (The master is not notified.)                                            *)
AgainSilently(t) ==
    /\ pc[t] = "ran"
    /\ Settle(t, pc, nIdle, nTotal, nTodo - Cardinality(batch[t]), fAllOk /\ fOk[t])

(* A later iteration: the clean-up of the batch before.                     *)
LoopAgain(t) ==
    /\ pc[t] = "ran"
    /\ LET todo == nTodo - Cardinality(batch[t])
       IN  \E pcs \in IF todo = 0 /\ t \notin Master THEN NotifyOne(Master) ELSE {pc} :
             Settle(t, pcs, nIdle, nTotal, todo, fAllOk /\ fOk[t])

(* cond.wait returns with the mutex held.                                   *)
LoopWake(t) ==
    /\ pc[t] = "woken"
    /\ Settle(t, pc, nIdle - 1, nTotal, nTodo, fAllOk)

(* The batch is executed outside the mutex; after a failure nothing is run. *)
Execute(t) ==
    /\ pc[t] = "run"
    /\ fOk' = [fOk EXCEPT ![t] = @ /\ batch[t] \subseteq Passes]
    /\ pc' = [pc EXCEPT ![t] = "ran"]
    /\ UNCHANGED <<queue, nIdle, nTotal, fAllOk, nTodo, batch, control, submitted, verdict>>

(* cond.wait returns though nobody notified.                                *)
SpuriousWake(t) ==
    /\ pc[t] = "waiting"
    /\ pc' = [pc EXCEPT ![t] = "woken"]
    /\ UNCHANGED <<queue, nIdle, nTotal, fAllOk, nTodo, batch, fOk, control, submitted, verdict>>

(* Shutdown interrupts a worker in cond.wait: the exception leaves Loop     *)
(* without the decrements.                                                  *)
Interrupted(w) ==
    /\ pc[w] \in {"waiting", "woken"}
    /\ pc' = [pc EXCEPT ![w] = "gone"]
    /\ UNCHANGED <<queue, nIdle, nTotal, fAllOk, nTodo, batch, fOk, control, submitted, verdict>>

-----------------------------------------------------------------------------
(* CCheckQueueControl: the constructor, Add, Wait and the destructor.       *)
NewControl(m) ==
    /\ pc[m] = "away" /\ control = NoMaster
    /\ control' = m
    /\ pc' = [pc EXCEPT ![m] = "control"]
    /\ UNCHANGED <<queue, nIdle, nTotal, fAllOk, nTodo, batch, fOk, submitted, verdict>>

Add(m) ==
    /\ pc[m] = "control"
    /\ \E checks \in SUBSET (Check \ submitted) :
         /\ checks # {}
         /\ queue' = queue \cup checks
         /\ submitted' = submitted \cup checks
         /\ nTodo' = nTodo + Cardinality(checks)
         /\ pc' \in IF Cardinality(checks) = 1 THEN NotifyOne(Worker) ELSE NotifyAll(Worker)
    /\ UNCHANGED <<nIdle, nTotal, fAllOk, batch, fOk, control, verdict>>

Wait(m) ==
    /\ pc[m] = "control"
    /\ pc' = [pc EXCEPT ![m] = "start"]
    /\ UNCHANGED <<queue, nIdle, nTotal, fAllOk, nTodo, batch, fOk, control, submitted, verdict>>

(* (The destructor does not wait.)                                          *)
EndUnwaited(m) ==
    /\ pc[m] \in {"control", "done"}
    /\ control' = NoMaster
    /\ submitted' = {} /\ verdict' = TRUE
    /\ pc' = [pc EXCEPT ![m] = "away"]
    /\ UNCHANGED <<queue, nIdle, nTotal, fAllOk, nTodo, batch, fOk>>

EndControl(m) ==
    /\ pc[m] = "done"
    /\ control' = NoMaster
    /\ submitted' = {} /\ verdict' = TRUE
    /\ pc' = [pc EXCEPT ![m] = "away"]
    /\ UNCHANGED <<queue, nIdle, nTotal, fAllOk, nTodo, batch, fOk>>

-----------------------------------------------------------------------------
Loop(t) == LoopEnter(t) \/ LoopAgain(t) \/ LoopWake(t) \/ Execute(t)

Next ==
    \/ \E t \in Thread : Loop(t) \/ SpuriousWake(t)
    \/ \E w \in Worker : Interrupted(w)
    \/ \E m \in Master : NewControl(m) \/ Add(m) \/ Wait(m) \/ EndControl(m)

(* The mutex is held for a moment at a time and the checks terminate, so a  *)
(* thread that can go on does; a wait ends only if someone ends it.         *)
Spec == Init /\ [][Next]_vars /\ \A t \in Thread : WF_vars(Loop(t))

-----------------------------------------------------------------------------
(* "Number of verifications that haven't completed yet ... includes         *)
(* elements that are no longer queued, but still in the worker's own        *)
(* batches": nTodo never drifts from the checks it stands for, and no check *)
(* is in two hands.                                                         *)
Outstanding == queue \cup UNION {batch[t] : t \in Thread}

TodoExact ==
    /\ nTodo = Cardinality(Outstanding)
    /\ \A t \in Thread : batch[t] \cap queue = {}
    /\ \A t, u \in Thread : t # u => batch[t] \cap batch[u] = {}

(* nIdle and nTotal, which set the size of a batch, count the threads that  *)
(* wait and the threads inside Loop, interrupted ones included.             *)
CountersExact ==
    /\ nIdle = Cardinality({t \in Thread : pc[t] \in Idling})
    /\ nTotal = Cardinality({t \in Thread : pc[t] \in Counted})

(* Wait returns true exactly when every check added under the control       *)
(* passes, whatever the workers did with the batches and whichever          *)
(* failures let them skip.                                                  *)
VerdictExact ==
    \A m \in Master : pc[m] = "done" => (verdict <=> submitted \subseteq Passes)

(* Once Wait has returned no thread holds a check (the checks point into    *)
(* the block being connected), and the next control starts clean.           *)
NothingLeft ==
    (control = NoMaster \/ \E m \in Master : pc[m] = "done") =>
        Outstanding = {} /\ nTodo = 0 /\ fAllOk

(* Wait returns: no wake-up is lost between the last worker and the master, *)
(* even when workers have been interrupted.                                 *)
WaitReturns == \A m \in Master : (pc[m] = "start") ~> (pc[m] = "done")
=============================================================================
