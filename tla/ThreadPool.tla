----------------------------- MODULE ThreadPool -----------------------------
(***************************************************************************)
(* ThreadPool and its ThreadQueue (src/tasks/thread_pool.hpp).  Workers    *)
(* fetch functions from the queue and run them; a function may enqueue     *)
(* others.  One host thread enqueues, waits, collects the futures, and in  *)
(* the end destroys the pool.  Each action is one critical section of the  *)
(* queue's mutex; waking up from a condition variable is a step of its own. *)
(***************************************************************************)
EXTENDS Naturals, Sequences, FiniteSets

CONSTANTS
  Workers,    \* the pool's threads
  Items       \* the functions that may be enqueued, each at most once

ASSUME PoolAssumption ==
  /\ IsFiniteSet(Workers) /\ Workers # {}
  /\ Items \cap {"fetch", "asleep", "stopped"} = {}

VARIABLES
  queue, nwaiting, complete, exit, waiting,   \* the members of ThreadQueue
  runTasks,   \* the functions whose futures check_task_returns collects
  worker,     \* what each worker does: "fetch", "asleep", "stopped", or an item it runs
  notified,   \* sleeping workers that cv.notify has chosen
  host,       \* "free", in "wait" or "recheck" (wait_for_complete), "collect", "joining", "ended"
  called,     \* history: the functions ever enqueued
  finished    \* the functions that have run: their futures are ready

queueVars == <<queue, nwaiting, complete, exit, waiting>>
vars == <<queueVars, runTasks, worker, notified, host, called, finished>>

Asleep  == {w \in Workers : worker[w] = "asleep"}
Running == {i \in Items : \E w \in Workers : worker[w] = i}
Queued  == {queue[n] : n \in DOMAIN queue}

Init ==
  /\ queue = <<>> /\ nwaiting = 0
  /\ complete = FALSE /\ exit = FALSE /\ waiting = FALSE
  /\ runTasks = {}
  /\ worker = [w \in Workers |-> "fetch"]
  /\ notified = {}
  /\ host = "free"
  /\ called = {} /\ finished = {}

-----------------------------------------------------------------------------
(* mutant: push does not notify *)
NotifyNone == UNCHANGED notified

(* cv.notify_one: one of the workers that sleep, if there is one *)
NotifyOne ==
  IF Asleep \subseteq notified THEN UNCHANGED notified
  ELSE \E w \in Asleep \ notified : notified' = notified \cup {w}

(* enqueue, and push *)
Push(i) ==
  /\ i \in Items \ called
  /\ called'   = called \cup {i}
  /\ runTasks' = runTasks \cup {i}
  /\ queue'    = Append(queue, i)
  /\ NotifyOne
  /\ UNCHANGED <<nwaiting, complete, exit, waiting, worker, host, finished>>

HostEnqueue(i) == host = "free" /\ Push(i)

WorkerEnqueue(w, i) == worker[w] \in Items /\ Push(i)

(* pop with something in the queue *)
PopItem(w) ==
  /\ worker[w] = "fetch"
  /\ queue # <<>>
  /\ worker' = [worker EXCEPT ![w] = Head(queue)]
  /\ queue'  = Tail(queue)
  /\ UNCHANGED <<nwaiting, complete, exit, waiting, runTasks, notified, host, called, finished>>

(* mutant: the host is told while other workers are still at work *)
PopEmptyEarly(w) ==
  /\ worker[w] = "fetch"
  /\ queue = <<>>
  /\ nwaiting' = IF exit THEN nwaiting ELSE nwaiting + 1
  /\ complete' = (complete \/ waiting)
  /\ worker'   = [worker EXCEPT ![w] = IF exit THEN "stopped" ELSE "asleep"]
  /\ UNCHANGED <<queue, exit, waiting, runTasks, notified, host, called, finished>>

(* pop with an empty queue, up to cv.wait: it does not sleep if exit is set *)
PopEmpty(w) ==
  /\ worker[w] = "fetch"
  /\ queue = <<>>
  /\ nwaiting' = IF exit THEN nwaiting ELSE nwaiting + 1
  /\ complete' = (complete \/ (waiting /\ nwaiting + 1 = Cardinality(Workers)))
  /\ worker'   = [worker EXCEPT ![w] = IF exit THEN "stopped" ELSE "asleep"]
  /\ UNCHANGED <<queue, exit, waiting, runTasks, notified, host, called, finished>>

(* pop after cv.wait, notified or spuriously woken *)
WakeUp(w) ==
  /\ worker[w] = "asleep"
  /\ exit \/ queue # <<>>
  /\ nwaiting' = nwaiting - 1
  /\ notified' = notified \ {w}
  /\ worker'   = [worker EXCEPT ![w] = IF exit THEN "stopped" ELSE Head(queue)]
  /\ queue'    = IF exit THEN queue ELSE Tail(queue)
  /\ UNCHANGED <<complete, exit, waiting, runTasks, host, called, finished>>

(* woken, but another worker took the item: back to sleep *)
WakeForNothing(w) ==
  /\ w \in notified
  /\ ~exit /\ queue = <<>>
  /\ notified' = notified \ {w}
  /\ UNCHANGED <<queueVars, runTasks, worker, host, called, finished>>

(* f() returns *)
FinishItem(w) ==
  /\ worker[w] \in Items
  /\ worker'   = [worker EXCEPT ![w] = "fetch"]
  /\ finished' = finished \cup {worker[w]}
  /\ UNCHANGED <<queueVars, runTasks, notified, host, called>>

-----------------------------------------------------------------------------
(* wait(), then check_task_returns(), which calls wait_for_complete again *)
Rest == queue = <<>> /\ nwaiting = Cardinality(Workers)

After(call) == IF call = "wait" THEN "recheck" ELSE "collect"

BeginWait(from, call) ==
  /\ host = from
  /\ IF Rest THEN complete' = FALSE /\ waiting' = FALSE /\ host' = After(call)
             ELSE waiting' = TRUE /\ host' = call /\ UNCHANGED complete
  /\ UNCHANGED <<queue, nwaiting, exit, runTasks, worker, notified, called, finished>>

Wait == BeginWait("free", "wait")
Recheck == BeginWait("recheck", "rewait")

(* complete_cv.wait returns *)
EndWait(call) ==
  /\ host = call
  /\ complete
  /\ complete' = FALSE /\ waiting' = FALSE
  /\ host' = After(call)
  /\ UNCHANGED <<queue, nwaiting, exit, runTasks, worker, notified, called, finished>>

(* get() on every future: it blocks until the function has run *)
Collect ==
  /\ host = "collect"
  /\ runTasks \subseteq finished
  /\ runTasks' = {}
  /\ host' = "free"
  /\ UNCHANGED <<queueVars, worker, notified, called, finished>>

(* kill: signal_kill *)
Kill ==
  /\ host = "free"
  /\ queue' = <<>>
  /\ complete' = TRUE /\ exit' = TRUE
  /\ notified' = Asleep
  /\ UNCHANGED <<nwaiting, waiting, runTasks, worker, host, called, finished>>

(* ~ThreadPool: signal_exit_when_finished, then join every thread *)
Destroy ==
  /\ host = "free"
  /\ complete' = TRUE /\ exit' = TRUE
  /\ notified' = Asleep
  /\ host' = "joining"
  /\ UNCHANGED <<queue, nwaiting, waiting, runTasks, worker, called, finished>>

Join ==
  /\ host = "joining"
  /\ \A w \in Workers : worker[w] = "stopped"
  /\ host' = "ended"
  /\ UNCHANGED <<queueVars, runTasks, worker, notified, called, finished>>

Next ==
  \/ \E w \in Workers :
       \/ PopItem(w) \/ PopEmpty(w) \/ WakeUp(w) \/ WakeForNothing(w) \/ FinishItem(w)
       \/ \E i \in Items : WorkerEnqueue(w, i)
  \/ \E i \in Items : HostEnqueue(i)
  \/ Wait \/ EndWait("wait") \/ Recheck \/ EndWait("rewait") \/ Collect
  \/ Kill \/ Destroy \/ Join

Spec == Init /\ [][Next]_vars

(* Threads run, a notified thread wakes up, and the functions return. *)
FairSpec ==
  /\ Spec
  /\ \A w \in Workers :
       /\ WF_vars(PopItem(w) \/ PopEmpty(w))
       /\ WF_vars(w \in notified /\ (WakeUp(w) \/ WakeForNothing(w)))
       /\ WF_vars(FinishItem(w))
  /\ WF_vars(EndWait("wait") \/ Recheck \/ EndWait("rewait") \/ Collect)
  /\ WF_vars(Join)

-----------------------------------------------------------------------------
TypeOK ==
  /\ queue \in Seq(Items)
  /\ nwaiting \in 0 .. Cardinality(Workers)
  /\ {complete, exit, waiting} \subseteq BOOLEAN
  /\ worker \in [Workers -> {"fetch", "asleep", "stopped"} \cup Items]
  /\ notified \subseteq Workers
  /\ host \in {"free", "wait", "recheck", "rewait", "collect", "joining", "ended"}
  /\ finished \subseteq called /\ runTasks \subseteq called /\ called \subseteq Items

(* The pool implements WorkPool.  In particular wait() only returns when   *)
(* no function is queued or running: the flag `complete' never survives    *)
(* from an earlier wait, and no worker that has still to push a dependent  *)
(* is overlooked.                                                          *)
Pool == INSTANCE WorkPool WITH
  pending <- Queued \cup Running,
  host    <- CASE host = "free" -> "free"
               [] host = "wait" -> "waiting"
               [] host \in {"recheck", "rewait", "collect"} -> "collecting"
               [] OTHER -> "closed",
  open    <- ~exit

ImplementsWorkPool == Pool!Spec

EveryItemRuns == \A i \in Items : i \in called ~> i \in finished \/ exit
WaitReturns   == host = "wait" ~> host = "free" \/ exit

DestructorReturns == host = "joining" ~> host = "ended"

(* No wake-up is lost: every function enqueued is run, unless the pool is  *)
(* stopped, the host gets out of wait() and of the futures' get(), and the *)
(* destructor joins every worker, whatever they were doing.                *)
NoWakeUpIsLost == EveryItemRuns /\ WaitReturns /\ DestructorReturns
=============================================================================
