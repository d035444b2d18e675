--------------------------- MODULE CallbackQueue ----------------------------
(***************************************************************************)
(* The validation callbacks: SingleThreadedSchedulerClient (scheduler.cpp)  *)
(* runs them one after the other on whichever thread of CScheduler comes by,*)
(* SyncWithValidationInterfaceQueue waits for them, and Shutdown runs what  *)
(* is left.                                                                 *)
(*                                                                          *)
(* A step is a critical section.  The tasks in the scheduler are calls of   *)
(* ProcessQueue, which are all alike and due at once, so the task queue is  *)
(* their number.  Callbacks are numbered in the order they are added.       *)
(*                                                                          *)
(* Shutdown joins the message handler and the RPC threads before it         *)
(* interrupts the thread group.  ThreadImport and ThreadStakeMinter belong  *)
(* to that group, together with the service threads: they are interrupted   *)
(* at the same moment and may be anywhere.  The threads of -gen, which      *)
(* nobody joins, are left out.                                              *)
(***************************************************************************)
EXTENDS Integers, Sequences, FiniteSets

CONSTANTS Service,        \* the threads in CScheduler::serviceQueue
          Poster,         \* the threads that signal: message handler, RPC, import, minter
          Group,          \* those of them that are in the thread group: import, minter
          Main,           \* the thread in Shutdown
          PendingLimit,   \* with more callbacks than this ActivateBestChain waits (10)
          MaxCallbacks    \* bound on the callbacks that are added

ASSUME ThreadsAssumption ==
    /\ Service \cap Poster = {} /\ Main \notin Service \cup Poster
    /\ Service # {} /\ IsFiniteSet(Service)
    /\ Group \subseteq Poster
    /\ PendingLimit \in Nat /\ MaxCallbacks \in Nat

Thread == Service \cup Poster \cup {Main}

VARIABLES
    m_callbacks_pending, m_are_callbacks_running,
    taskQueue,      \* the calls of ProcessQueue in the scheduler
    pc,             \* where each thread is
    waitsFor,       \* the callback whose promise a thread in "sync" waits for
    added, started, finished,   \* how many callbacks were added, started and finished
    interrupted     \* threadGroup.interrupt_all() was called

queue == <<m_callbacks_pending, m_are_callbacks_running>>
counts == <<added, started, finished>>
vars == <<queue, taskQueue, pc, waitsFor, counts, interrupted>>

(* One type invariant.                                                      *)
TypeOK ==
    /\ m_callbacks_pending \in Seq(Nat) /\ m_are_callbacks_running \in BOOLEAN
    /\ taskQueue \in Nat
    /\ pc \in [Thread -> {"top", "wait", "due", "exited", "idle", "sync", "up", "join", "flush",
                          "test", "done", "check", "schedule", "notify", "process", "callback",
                          "release"}]
    /\ waitsFor \in [Poster -> Nat]
    /\ added \in Nat /\ started \in Nat /\ finished \in Nat
    /\ interrupted \in BOOLEAN

Init ==
    /\ m_callbacks_pending = <<>> /\ m_are_callbacks_running = FALSE
    /\ taskQueue = 0
    /\ pc = [t \in Thread |-> IF t \in Service THEN "top" ELSE IF t = Main THEN "up" ELSE "idle"]
    /\ waitsFor = [p \in Poster |-> 0]
    /\ added = 0 /\ started = 0 /\ finished = 0
    /\ interrupted = FALSE

Goto(t, l) == pc' = [pc EXCEPT ![t] = l]

(* Where a thread goes on after MaybeScheduleProcessQueue or ProcessQueue.  *)
Caller(t) ==
    IF t \in Service THEN "top" ELSE IF t = Main THEN "test" ELSE "sync"

-----------------------------------------------------------------------------
(* (A stack instead of a queue.)                                            *)
PushFront ==
    /\ added < MaxCallbacks
    /\ m_callbacks_pending' = <<added + 1>> \o m_callbacks_pending
    /\ added' = added + 1

(* AddToProcessQueue, in its own critical section; then                     *)
(* MaybeScheduleProcessQueue.  A poster that does not ask for a             *)
(* synchronisation waits for callback 0.                                    *)
Push ==
    /\ added < MaxCallbacks
    /\ m_callbacks_pending' = Append(m_callbacks_pending, added + 1)
    /\ added' = added + 1

(* Posters outside the group are gone when the group is interrupted; those  *)
(* in it go on until they come to an interruption point.                    *)
AddToProcessQueue(p) ==
    /\ pc[p] = "idle" /\ (p \in Group \/ ~interrupted)
    /\ Push
    /\ Goto(p, "check")
    /\ UNCHANGED <<m_are_callbacks_running, taskQueue, waitsFor, started, finished, interrupted>>

(* An RPC thread calls it at will; a thread of the group calls it from      *)
(* ActivateBestChain, behind an interruption point and when too much is     *)
(* pending.                                                                 *)
SyncWithValidationInterfaceQueue(p) ==
    /\ pc[p] = "idle" /\ ~interrupted
    /\ p \in Group => Len(m_callbacks_pending) > PendingLimit
    /\ Push
    /\ waitsFor' = [waitsFor EXCEPT ![p] = added + 1]
    /\ Goto(p, "check")
    /\ UNCHANGED <<m_are_callbacks_running, taskQueue, started, finished, interrupted>>

(* The wait for the future, which is not an interruption point.             *)
PromiseKept(p) ==
    /\ pc[p] = "sync" /\ waitsFor[p] <= finished
    /\ waitsFor' = [waitsFor EXCEPT ![p] = 0]
    /\ Goto(p, "idle")
    /\ UNCHANGED <<queue, taskQueue, counts, interrupted>>

(* An import ends by itself; an interruption ends any thread of the group   *)
(* at its next interruption point.                                          *)
Exit(p) ==
    /\ p \in Group /\ pc[p] = "idle"
    /\ Goto(p, "exited")
    /\ UNCHANGED <<queue, taskQueue, waitsFor, counts, interrupted>>

(* MaybeScheduleProcessQueue, in three steps: look, insert, notify_one.     *)
Check(t) ==
    /\ pc[t] = "check"
    /\ Goto(t, IF m_are_callbacks_running \/ m_callbacks_pending = <<>>
               THEN Caller(t) ELSE "schedule")
    /\ UNCHANGED <<queue, taskQueue, waitsFor, counts, interrupted>>

Schedule(t) ==
    /\ pc[t] = "schedule"
    /\ taskQueue' = taskQueue + 1
    /\ Goto(t, "notify")
    /\ UNCHANGED <<queue, waitsFor, counts, interrupted>>

Waiting == {s \in Service : pc[s] = "wait"}

(* (newTaskScheduled.notify_one() is left out.)                             *)
NotifyNobody(t) ==
    /\ pc[t] = "notify"
    /\ Goto(t, Caller(t))
    /\ UNCHANGED <<queue, taskQueue, waitsFor, counts, interrupted>>

Notify(t) ==
    /\ pc[t] = "notify"
    /\ \/ Waiting = {} /\ Goto(t, Caller(t))
       \/ \E s \in Waiting : pc' = [pc EXCEPT ![s] = "top", ![t] = Caller(t)]
    /\ UNCHANGED <<queue, taskQueue, waitsFor, counts, interrupted>>

-----------------------------------------------------------------------------
(* serviceQueue.  wait_until returns at once for a task that is due, but it *)
(* releases the lock: another thread may have taken the task.               *)
Top(s) ==
    /\ pc[s] = "top"
    /\ Goto(s, IF taskQueue = 0 THEN "wait" ELSE "due")
    /\ UNCHANGED <<queue, taskQueue, waitsFor, counts, interrupted>>

SpuriousWake(s) ==
    /\ pc[s] = "wait" /\ ~interrupted
    /\ Goto(s, "top")
    /\ UNCHANGED <<queue, taskQueue, waitsFor, counts, interrupted>>

(* (Off by one: the last task is left to another thread.)                   *)
TakeUnlessLast(s) ==
    /\ pc[s] = "due" /\ ~interrupted
    /\ IF taskQueue <= 1 THEN Goto(s, "top") /\ UNCHANGED taskQueue
       ELSE taskQueue' = taskQueue - 1 /\ Goto(s, "process")
    /\ UNCHANGED <<queue, waitsFor, counts, interrupted>>

Take(s) ==
    /\ pc[s] = "due" /\ ~interrupted
    /\ IF taskQueue = 0 THEN Goto(s, "top") /\ UNCHANGED taskQueue
       ELSE taskQueue' = taskQueue - 1 /\ Goto(s, "process")
    /\ UNCHANGED <<queue, waitsFor, counts, interrupted>>

(* (The interruption is caught and forgotten.)                              *)
InterruptSwallowed(s) ==
    /\ interrupted /\ pc[s] \in {"wait", "due"}
    /\ Goto(s, "top")
    /\ UNCHANGED <<queue, taskQueue, waitsFor, counts, interrupted>>

(* Both waits check for an interruption when they begin and when they end.  *)
Interrupted(s) ==
    /\ interrupted /\ pc[s] \in {"wait", "due"}
    /\ Goto(s, "exited")
    /\ UNCHANGED <<queue, taskQueue, waitsFor, counts, interrupted>>

(* (Without a look at m_are_callbacks_running.)                             *)
ProcessRegardless(t) ==
    /\ pc[t] = "process"
    /\ IF m_callbacks_pending = <<>>
       THEN Goto(t, Caller(t)) /\ UNCHANGED <<queue, started>>
       ELSE /\ m_are_callbacks_running' = TRUE
            /\ m_callbacks_pending' = Tail(m_callbacks_pending)
            /\ started' = started + 1
            /\ Goto(t, "callback")
    /\ UNCHANGED <<taskQueue, waitsFor, added, finished, interrupted>>

(* ProcessQueue: its first critical section, the callback, and the second   *)
(* one.  A callback may itself signal; MaybeScheduleProcessQueue then does  *)
(* nothing, because callbacks are running.                                  *)
Process(t) ==
    /\ pc[t] = "process"
    /\ IF m_are_callbacks_running \/ m_callbacks_pending = <<>>
       THEN Goto(t, Caller(t)) /\ UNCHANGED <<queue, started>>
       ELSE /\ m_are_callbacks_running' = TRUE
            /\ m_callbacks_pending' = Tail(m_callbacks_pending)
            /\ started' = Head(m_callbacks_pending)
            /\ Goto(t, "callback")
    /\ UNCHANGED <<taskQueue, waitsFor, added, finished, interrupted>>

Callback(t) ==
    /\ pc[t] = "callback"
    /\ Push \/ UNCHANGED <<m_callbacks_pending, added>>
    /\ finished' = started
    /\ Goto(t, "release")
    /\ UNCHANGED <<m_are_callbacks_running, taskQueue, waitsFor, started, interrupted>>

(* (MaybeScheduleProcessQueue is not called again.)                         *)
ReleaseOnly(t) ==
    /\ pc[t] = "release"
    /\ m_are_callbacks_running' = FALSE
    /\ Goto(t, Caller(t))
    /\ UNCHANGED <<m_callbacks_pending, taskQueue, waitsFor, counts, interrupted>>

Release(t) ==
    /\ pc[t] = "release"
    /\ m_are_callbacks_running' = FALSE
    /\ Goto(t, "check")
    /\ UNCHANGED <<m_callbacks_pending, taskQueue, waitsFor, counts, interrupted>>

-----------------------------------------------------------------------------
(* (Nothing is run after the threads are gone.)                             *)
EmptyUnprocessed ==
    /\ pc[Main] = "test"
    /\ Goto(Main, "done")
    /\ UNCHANGED <<queue, taskQueue, waitsFor, counts, interrupted>>

(* Shutdown: the posters outside the group have been stopped and joined;    *)
(* the group is interrupted and joined; FlushStateToDisk adds its           *)
(* SetBestChain callback (if the node got as far as having a chain state);  *)
(* EmptyQueue calls ProcessQueue until nothing is pending.                  *)
InterruptAll ==
    /\ pc[Main] = "up"
    /\ \A p \in Poster \ Group : pc[p] = "idle"
    /\ interrupted' = TRUE
    /\ Goto(Main, "join")
    /\ UNCHANGED <<queue, taskQueue, waitsFor, counts>>

JoinAll ==
    /\ pc[Main] = "join"
    /\ \A t \in Service \cup Group : pc[t] = "exited"
    /\ Goto(Main, "flush")
    /\ UNCHANGED <<queue, taskQueue, waitsFor, counts, interrupted>>

FlushStateToDisk ==
    /\ pc[Main] = "flush"
    /\ \/ Push /\ Goto(Main, "check")
       \/ Goto(Main, "test") /\ UNCHANGED <<m_callbacks_pending, added>>
    /\ UNCHANGED <<m_are_callbacks_running, taskQueue, waitsFor, started, finished, interrupted>>

EmptyQueue ==
    /\ pc[Main] = "test"
    /\ Goto(Main, IF m_callbacks_pending = <<>> THEN "done" ELSE "process")
    /\ UNCHANGED <<queue, taskQueue, waitsFor, counts, interrupted>>

-----------------------------------------------------------------------------
Client(t) ==
    \/ Check(t) \/ Schedule(t) \/ Notify(t)
    \/ Process(t) \/ Callback(t) \/ Release(t)

Serve(s) == Client(s) \/ Top(s) \/ Take(s) \/ Interrupted(s)

Post(p) == Client(p) \/ PromiseKept(p)

Shutdown == Client(Main) \/ JoinAll \/ FlushStateToDisk \/ EmptyQueue

(* A thread of the group waits for a callback, and no service thread is     *)
(* left to run it: Shutdown waits for that thread, which waits for Shutdown.*)
Deadlocked(p) ==
    /\ p \in Group /\ pc[p] = "sync" /\ waitsFor[p] > finished
    /\ \A s \in Service : pc[s] = "exited"

(* The two ends.                                                            *)
Stopped == (pc[Main] = "done" \/ \E p \in Poster : Deadlocked(p)) /\ UNCHANGED vars

Next ==
    \/ \E s \in Service : Serve(s) \/ SpuriousWake(s)
    \/ \E p \in Poster :
          Post(p) \/ AddToProcessQueue(p) \/ SyncWithValidationInterfaceQueue(p) \/ Exit(p)
    \/ InterruptAll \/ Shutdown \/ Stopped

(* Threads that are not blocked go on, callbacks return, and a thread of    *)
(* the group that is interrupted comes to an interruption point.            *)
Fairness ==
    /\ \A s \in Service : WF_vars(Serve(s))
    /\ \A p \in Poster : WF_vars(Post(p)) /\ WF_vars(interrupted /\ Exit(p))
    /\ WF_vars(Shutdown)

Spec == Init /\ [][Next]_vars /\ Fairness

-----------------------------------------------------------------------------
Running == {t \in Thread : pc[t] \in {"callback", "release"}}

(* "Callbacks are executed serially": one thread at most is in a callback,  *)
(* and it is the thread the flag stands for.                                *)
Serial ==
    /\ m_are_callbacks_running <=> Running # {}
    /\ \A t, u \in Running : t = u
    /\ started = IF \E t \in Running : pc[t] = "callback" THEN finished + 1 ELSE finished

(* Callbacks run in the order they were added, and none is lost.            *)
InOrder ==
    /\ started + Len(m_callbacks_pending) = added
    /\ \A i \in DOMAIN m_callbacks_pending : m_callbacks_pending[i] = started + i

(* A pending callback is never forgotten: unless one is running, a call of  *)
(* ProcessQueue is scheduled or some thread is about to look.               *)
NotForgotten ==
    m_callbacks_pending # <<>> /\ ~m_are_callbacks_running =>
        \/ taskQueue > 0
        \/ \E t \in Thread : pc[t] \in {"check", "schedule", "process"}
        \/ pc[Main] = "test"

(* No wake-up is lost: with a task in the queue not every thread sleeps,    *)
(* unless one is about to be notified.                                      *)
NoLostWakeup ==
    taskQueue > 0 /\ ~interrupted =>
        \/ \E s \in Service : pc[s] # "wait"
        \/ \E t \in Thread : pc[t] = "notify"

(* When Shutdown has emptied the queue every callback has run.              *)
NothingDropped == pc[Main] = "done" => finished = added

(* SyncWithValidationInterfaceQueue returns, with a single exception: the   *)
(* caller is in the thread group and the interruption has ended the service *)
(* threads before its callback came up.                                     *)
SyncReturns == \A p \in Poster : pc[p] = "sync" ~> (pc[p] = "idle" \/ Deadlocked(p))

(* A callback that was added runs, before or during the shutdown, unless    *)
(* the shutdown hangs on a thread that is deadlocked in this way.           *)
EveryCallbackRuns ==
    \A n \in 1..MaxCallbacks :
        added >= n ~> (finished >= n \/ \E p \in Poster : Deadlocked(p))

(* The joins of a shutdown come to an end, again except for that deadlock;  *)
(* nothing else makes a shutdown hang.                                      *)
ShutdownEnds == interrupted ~> (pc[Main] = "done" \/ \E p \in Poster : Deadlocked(p))
=============================================================================
