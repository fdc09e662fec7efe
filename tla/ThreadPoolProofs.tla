-------------------------- MODULE ThreadPoolProofs --------------------------
(***************************************************************************)
(* ThreadPool implements WorkPool, for any number of workers and           *)
(* functions: wait() returns only when nothing is queued or running,       *)
(* although the counter, the two flags and the wake-ups are all it has to  *)
(* know that by.                                                           *)
(***************************************************************************)
EXTENDS ThreadPool, FiniteSetTheorems, TLAPS

HostStates == {"free", "wait", "recheck", "rewait", "collect", "joining", "ended"}
NoWork     == {"fetch", "asleep", "stopped"}

(* Functions are in one place only, which Finish relies on: nothing is      *)
(* queued twice, run by two workers, or queued while it runs.               *)
OnePlace ==
  /\ \A m, n \in DOMAIN queue : queue[m] = queue[n] => m = n
  /\ \A v, w \in Workers : worker[v] \in Items /\ worker[v] = worker[w] => v = w
  /\ Queued \cap Running = {}

(* nwaiting counts the workers that sleep; `waiting' tells that the host is *)
(* in wait_for_complete, and `complete', unless the pool was stopped, that  *)
(* it still is and that all is done.                                        *)
Counted == nwaiting = Cardinality(Asleep)
Flags ==
  /\ waiting <=> host \in {"wait", "rewait"}
  /\ complete /\ ~exit => queue = <<>> /\ Asleep = Workers /\ waiting

Shape ==
  /\ queue \in Seq(Items)
  /\ worker \in [Workers -> NoWork \cup Items]
  /\ host \in HostStates
  /\ complete \in BOOLEAN /\ exit \in BOOLEAN /\ waiting \in BOOLEAN
  /\ Queued \cup Running \subseteq called
  /\ called \subseteq Items

PoolInv == Shape /\ OnePlace /\ Counted /\ Flags

(* Workers that sleep run nothing. *)
LEMMA SleepersAreFinite ==
  /\ Asleep \subseteq Workers /\ IsFiniteSet(Asleep)
  /\ Cardinality(Asleep) \in Nat /\ Cardinality(Workers) \in Nat
  /\ Cardinality(Asleep) = Cardinality(Workers) => Asleep = Workers
<1>1. Asleep \in SUBSET Workers /\ IsFiniteSet(Workers)
  BY PoolAssumption DEF Asleep
<1>2. IsFiniteSet(Asleep) /\ (Cardinality(Workers) = Cardinality(Asleep) => Workers = Asleep)
  BY <1>1, FS_Subset
<1>3. Cardinality(Asleep) \in Nat /\ Cardinality(Workers) \in Nat
  BY <1>1, <1>2, FS_CardinalityType
<1>4. QED
  BY <1>1, <1>2, <1>3

(* At rest nothing is pending. *)
LEMMA RestIsIdle ==
  ASSUME queue = <<>>, Asleep = Workers
  PROVE  Queued = {} /\ Running = {}
  BY PoolAssumption DEF Queued, Running, Asleep

(* Append and Tail as seen through Queued. *)
LEMMA PushedQueue ==
  ASSUME Shape, NEW i \in Items, queue' = Append(queue, i)
  PROVE  /\ queue' \in Seq(Items)
         /\ Queued' = Queued \cup {i}
         /\ i \notin Queued /\ (\A m, n \in DOMAIN queue : queue[m] = queue[n] => m = n) =>
              \A m, n \in DOMAIN queue' : queue'[m] = queue'[n] => m = n
<1>1. /\ queue' \in Seq(Items)
      /\ DOMAIN queue' = DOMAIN queue \cup {Len(queue) + 1}
      /\ queue'[Len(queue) + 1] = i
      /\ \A n \in DOMAIN queue : queue'[n] = queue[n]
  BY DEF Shape
<1>2. Queued' = Queued \cup {i}
  BY <1>1 DEF Queued
<1>3. ASSUME i \notin Queued, \A m, n \in DOMAIN queue : queue[m] = queue[n] => m = n
      PROVE  \A m, n \in DOMAIN queue' : queue'[m] = queue'[n] => m = n
  BY <1>1, <1>3 DEF Queued
<1>4. QED
  BY <1>1, <1>2, <1>3

LEMMA PoppedQueue ==
  ASSUME Shape, OnePlace, queue # <<>>, queue' = Tail(queue)
  PROVE  /\ queue' \in Seq(Items)
         /\ Head(queue) \in Items
         /\ Queued = Queued' \cup {Head(queue)}
         /\ Head(queue) \notin Queued'
         /\ \A m, n \in DOMAIN queue' : queue'[m] = queue'[n] => m = n
<1>1. /\ queue \in Seq(Items) /\ Head(queue) = queue[1] /\ queue' \in Seq(Items)
      /\ Len(queue) \in Nat \ {0} /\ DOMAIN queue = 1 .. Len(queue)
      /\ DOMAIN queue' = 1 .. Len(queue) - 1
      /\ \A n \in DOMAIN queue' : queue'[n] = queue[n + 1] /\ n + 1 \in DOMAIN queue
      /\ 1 \in DOMAIN queue
  BY DEF Shape
<1>2. \A m, n \in DOMAIN queue : queue[m] = queue[n] => m = n
  BY DEF OnePlace
<1>3. Queued' \subseteq Queued /\ queue[1] \in Queued
  BY <1>1 DEF Queued
<1>4. Queued \subseteq Queued' \cup {queue[1]}
  <2> SUFFICES ASSUME NEW n \in DOMAIN queue, n # 1 PROVE queue[n] \in Queued'
    BY DEF Queued
  <2>1. n - 1 \in DOMAIN queue' /\ queue'[n - 1] = queue[n]
    BY <1>1
  <2>2. QED
    BY <2>1 DEF Queued
<1>5. queue[1] \notin Queued'
  <2> SUFFICES ASSUME NEW n \in DOMAIN queue', queue'[n] = queue[1] PROVE FALSE
    BY DEF Queued
  <2>1. QED
    BY <1>1, <1>2
<1>6. \A m, n \in DOMAIN queue' : queue'[m] = queue'[n] => m = n
  BY <1>1, <1>2
<1>7. QED
  BY <1>1, <1>3, <1>4, <1>5, <1>6

(* What a worker does next, as seen through Running and Asleep: it takes a  *)
(* function, goes to sleep, to fetch or stops, or has finished a function.  *)
LEMMA WorkerTakes ==
  ASSUME Shape, OnePlace, NEW w \in Workers, worker[w] \notin Items,
         NEW i \in Items, i \notin Running, worker' = [worker EXCEPT ![w] = i]
  PROVE  /\ worker' \in [Workers -> NoWork \cup Items]
         /\ Running' = Running \cup {i} /\ Asleep' = Asleep \ {w}
         /\ \A u, v \in Workers : worker'[u] \in Items /\ worker'[u] = worker'[v] => u = v
<1>1. /\ worker' \in [Workers -> NoWork \cup Items]
      /\ worker'[w] = i /\ \A v \in Workers : v # w => worker'[v] = worker[v]
      /\ i # "asleep"
  BY PoolAssumption DEF Shape
<1>2. Running' = Running \cup {i} /\ Asleep' = Asleep \ {w}
  BY <1>1 DEF Running, Asleep
<1>3. \A v \in Workers : worker[v] # i
  BY DEF Running
<1>4. \A u, v \in Workers : worker'[u] \in Items /\ worker'[u] = worker'[v] => u = v
  BY <1>1, <1>3 DEF OnePlace
<1>5. QED
  BY <1>1, <1>2, <1>4

LEMMA WorkerRests ==
  ASSUME Shape, OnePlace, NEW w \in Workers, worker[w] \notin Items,
         NEW s \in NoWork, worker' = [worker EXCEPT ![w] = s]
  PROVE  /\ worker' \in [Workers -> NoWork \cup Items]
         /\ Running' = Running
         /\ Asleep' = IF s = "asleep" THEN Asleep \cup {w} ELSE Asleep \ {w}
         /\ \A u, v \in Workers : worker'[u] \in Items /\ worker'[u] = worker'[v] => u = v
<1>1. /\ worker' \in [Workers -> NoWork \cup Items]
      /\ worker'[w] = s /\ \A v \in Workers : v # w => worker'[v] = worker[v]
      /\ s \notin Items
  BY PoolAssumption DEF Shape, NoWork
<1>2. Running' = Running
  BY <1>1 DEF Running
<1>3. Asleep' = IF s = "asleep" THEN Asleep \cup {w} ELSE Asleep \ {w}
  BY <1>1 DEF Asleep
<1>4. \A u, v \in Workers : worker'[u] \in Items /\ worker'[u] = worker'[v] => u = v
  BY <1>1 DEF OnePlace
<1>5. QED
  BY <1>1, <1>2, <1>3, <1>4

LEMMA WorkerEnds ==
  ASSUME Shape, OnePlace, NEW w \in Workers, worker[w] \in Items,
         worker' = [worker EXCEPT ![w] = "fetch"]
  PROVE  /\ worker' \in [Workers -> NoWork \cup Items]
         /\ Running' = Running \ {worker[w]} /\ Asleep' = Asleep
         /\ \A u, v \in Workers : worker'[u] \in Items /\ worker'[u] = worker'[v] => u = v
<1>1. /\ worker' \in [Workers -> NoWork \cup Items]
      /\ worker'[w] = "fetch" /\ \A v \in Workers : v # w => worker'[v] = worker[v]
      /\ "fetch" \notin Items /\ worker[w] # "asleep"
  BY PoolAssumption DEF Shape, NoWork
<1>2. \A v \in Workers : v # w => worker[v] # worker[w]
  BY DEF OnePlace
<1>3. Running' = Running \ {worker[w]} /\ Asleep' = Asleep
  BY <1>1, <1>2 DEF Running, Asleep
<1>4. \A u, v \in Workers : worker'[u] \in Items /\ worker'[u] = worker'[v] => u = v
  BY <1>1 DEF OnePlace
<1>5. QED
  BY <1>1, <1>3, <1>4

(* What WorkPool knows as pending. *)
Pending == Queued \cup Running

(* What a step has to show: the invariant, and a step of WorkPool or none.  *)
StepOK == PoolInv' /\ [Pool!Next]_(Pool!vars)

(* A step that leaves the host, what is pending and `exit' as they are is a *)
(* stutter of WorkPool.                                                     *)
LEMMA Stutter ==
  ASSUME host' = host, exit' = exit, Pending' = Pending
  PROVE  UNCHANGED Pool!vars
  BY DEF Pool!vars, Pending

(* enqueue: of the host, or of a function that runs *)
LEMMA StepPush ==
  ASSUME PoolInv, NEW i \in Items, Push(i), host = "free" \/ Running # {}
  PROVE  StepOK
<1>1. /\ i \in Items \ called /\ called' = called \cup {i} /\ queue' = Append(queue, i)
      /\ nwaiting' = nwaiting /\ complete' = complete /\ exit' = exit /\ waiting' = waiting
      /\ worker' = worker /\ host' = host
  BY DEF Push
<1>2. Shape /\ OnePlace /\ Counted /\ Flags
  BY DEF PoolInv
<1>3. Running' = Running /\ Asleep' = Asleep
  BY <1>1 DEF Running, Asleep
<1>4. /\ queue' \in Seq(Items) /\ Queued' = Queued \cup {i} /\ i \notin Queued /\ i \notin Running
      /\ \A m, n \in DOMAIN queue' : queue'[m] = queue'[n] => m = n
  BY <1>1, <1>2, PushedQueue DEF Shape, OnePlace
<1>5. Shape'
  BY <1>1, <1>2, <1>3, <1>4 DEF Shape
<1>6. OnePlace'
  BY <1>1, <1>2, <1>3, <1>4 DEF OnePlace
<1>7. Counted'
  BY <1>1, <1>2, <1>3 DEF Counted
<1>8. ~(complete /\ ~exit)
  <2> SUFFICES ASSUME complete, ~exit PROVE FALSE
    OBVIOUS
  <2>1. queue = <<>> /\ Asleep = Workers /\ host # "free"
    BY <1>2 DEF Flags
  <2>2. QED
    BY <2>1, RestIsIdle
<1>9. Flags'
  BY <1>1, <1>2, <1>8 DEF Flags
<1>10. Pool!Submit(i)
  BY <1>1, <1>3, <1>4 DEF Pool!Submit
<1>11. QED
  BY <1>5, <1>6, <1>7, <1>9, <1>10 DEF StepOK, PoolInv, Pool!Next

(* pop, with something in the queue, by a worker that fetches or wakes up *)
LEMMA StepTake ==
  ASSUME PoolInv, NEW w \in Workers, worker[w] \in {"fetch", "asleep"}, queue # <<>>,
         queue' = Tail(queue), worker' = [worker EXCEPT ![w] = Head(queue)],
         nwaiting' = IF worker[w] = "asleep" THEN nwaiting - 1 ELSE nwaiting,
         complete' = complete, exit' = exit, waiting' = waiting, host' = host, called' = called
  PROVE  StepOK
<1>1. Shape /\ OnePlace /\ Counted /\ Flags
  BY DEF PoolInv
<1>2. /\ queue' \in Seq(Items) /\ Head(queue) \in Items /\ Queued = Queued' \cup {Head(queue)}
      /\ Head(queue) \notin Queued'
      /\ \A m, n \in DOMAIN queue' : queue'[m] = queue'[n] => m = n
  BY <1>1, PoppedQueue
<1>3. worker[w] \notin Items /\ Head(queue) \notin Running
  BY <1>1, <1>2, PoolAssumption DEF OnePlace
<1>4. /\ worker' \in [Workers -> NoWork \cup Items]
      /\ Running' = Running \cup {Head(queue)} /\ Asleep' = Asleep \ {w}
      /\ \A u, v \in Workers : worker'[u] \in Items /\ worker'[u] = worker'[v] => u = v
  BY <1>1, <1>2, <1>3, WorkerTakes
<1>5. Pending' = Pending
  BY <1>2, <1>4 DEF Pending
<1>6. Shape'
  BY <1>1, <1>2, <1>4 DEF Shape
<1>7. OnePlace'
  BY <1>1, <1>2, <1>4 DEF OnePlace
<1>8. Counted'
  <2>1. w \in Asleep <=> worker[w] = "asleep"
    BY DEF Asleep
  <2>2. Cardinality(Asleep \ {w}) = IF w \in Asleep THEN Cardinality(Asleep) - 1 ELSE Cardinality(Asleep)
    BY SleepersAreFinite, FS_RemoveElement
  <2>3. QED
    BY <1>1, <1>4, <2>1, <2>2 DEF Counted
<1>9. Flags'
  BY <1>1 DEF Flags
<1>10. QED
  BY <1>5, <1>6, <1>7, <1>8, <1>9, Stutter DEF StepOK, PoolInv

(* pop, with an empty queue: the worker sleeps, or stops when exit is set *)
LEMMA StepPopEmpty ==
  ASSUME PoolInv, NEW w \in Workers, PopEmpty(w)
  PROVE  StepOK
<1>1. /\ worker[w] = "fetch" /\ queue = <<>> /\ queue' = queue
      /\ nwaiting' = (IF exit THEN nwaiting ELSE nwaiting + 1)
      /\ complete' = (complete \/ (waiting /\ nwaiting + 1 = Cardinality(Workers)))
      /\ worker' = [worker EXCEPT ![w] = IF exit THEN "stopped" ELSE "asleep"]
      /\ exit' = exit /\ waiting' = waiting /\ host' = host /\ called' = called
  BY DEF PopEmpty
<1>2. Shape /\ OnePlace /\ Counted /\ Flags
  BY DEF PoolInv
<1>3. worker[w] \notin Items /\ w \notin Asleep
  BY <1>1, PoolAssumption DEF Asleep
<1>4. /\ worker' \in [Workers -> NoWork \cup Items] /\ Running' = Running
      /\ Asleep' = IF exit THEN Asleep ELSE Asleep \cup {w}
      /\ \A u, v \in Workers : worker'[u] \in Items /\ worker'[u] = worker'[v] => u = v
  <2>1. CASE exit
    <3>1. "stopped" \in NoWork /\ worker' = [worker EXCEPT ![w] = "stopped"]
      BY <1>1, <2>1 DEF NoWork
    <3>2. /\ worker' \in [Workers -> NoWork \cup Items] /\ Running' = Running
          /\ Asleep' = IF "stopped" = "asleep" THEN Asleep \cup {w} ELSE Asleep \ {w}
          /\ \A u, v \in Workers : worker'[u] \in Items /\ worker'[u] = worker'[v] => u = v
      BY <1>2, <1>3, <3>1, WorkerRests
    <3>3. Asleep' = Asleep
      BY <1>3, <3>2
    <3>4. QED
      BY <2>1, <3>2, <3>3
  <2>2. CASE ~exit
    <3>1. "asleep" \in NoWork /\ worker' = [worker EXCEPT ![w] = "asleep"]
      BY <1>1, <2>2 DEF NoWork
    <3>2. QED
      BY <1>2, <1>3, <2>2, <3>1, WorkerRests
  <2>3. QED
    BY <2>1, <2>2
<1>5. Queued' = Queued /\ Pending' = Pending
  BY <1>1, <1>4 DEF Queued, Pending
<1>6. complete' \in BOOLEAN
  BY <1>1, <1>2 DEF Shape
<1>7. Shape'
  BY <1>1, <1>2, <1>4, <1>5, <1>6 DEF Shape
<1>8. OnePlace'
  BY <1>1, <1>2, <1>4, <1>5 DEF OnePlace
<1>9. Cardinality(Asleep \cup {w}) = Cardinality(Asleep) + 1
  BY <1>3, SleepersAreFinite, FS_AddElement
<1>10. Counted'
  BY <1>1, <1>2, <1>4, <1>9 DEF Counted
<1>11. ASSUME complete', ~exit PROVE queue' = <<>> /\ Asleep' = Workers /\ waiting'
  <2>1. ~complete
    BY <1>2, <1>3, <1>11 DEF Flags
  <2>2. waiting /\ nwaiting + 1 = Cardinality(Workers)
    BY <1>1, <1>11, <2>1
  <2>3. Cardinality(Asleep \cup {w}) = Cardinality(Workers)
    BY <1>2, <1>9, <2>2 DEF Counted
  <2>4. Asleep \cup {w} \in SUBSET Workers /\ IsFiniteSet(Workers)
    BY PoolAssumption DEF Asleep
  <2>5. Asleep \cup {w} = Workers
    BY <2>3, <2>4, FS_Subset
  <2>6. QED
    BY <1>1, <1>4, <1>11, <2>2, <2>5
<1>12. Flags'
  BY <1>1, <1>2, <1>11 DEF Flags
<1>13. QED
  BY <1>1, <1>5, <1>7, <1>8, <1>10, <1>12, Stutter DEF StepOK, PoolInv

(* pop after cv.wait *)
LEMMA StepWakeUp ==
  ASSUME PoolInv, NEW w \in Workers, WakeUp(w)
  PROVE  StepOK
<1>1. CASE ~exit
  BY <1>1, StepTake DEF WakeUp
<1>2. CASE exit
  <2>1. /\ worker[w] = "asleep" /\ queue' = queue /\ nwaiting' = nwaiting - 1
        /\ worker' = [worker EXCEPT ![w] = "stopped"]
        /\ complete' = complete /\ exit' = exit /\ waiting' = waiting /\ host' = host
        /\ called' = called
    BY <1>2 DEF WakeUp
  <2>2. Shape /\ OnePlace /\ Counted /\ Flags
    BY DEF PoolInv
  <2>3. worker[w] \notin Items /\ w \in Asleep /\ "stopped" \in NoWork
    BY <2>1, PoolAssumption DEF Asleep, NoWork
  <2>4. /\ worker' \in [Workers -> NoWork \cup Items] /\ Running' = Running
        /\ Asleep' = Asleep \ {w}
        /\ \A u, v \in Workers : worker'[u] \in Items /\ worker'[u] = worker'[v] => u = v
    BY <2>1, <2>2, <2>3, WorkerRests
  <2>5. Queued' = Queued /\ Pending' = Pending
    BY <2>1, <2>4 DEF Queued, Pending
  <2>6. Shape'
    BY <2>1, <2>2, <2>4, <2>5 DEF Shape
  <2>7. OnePlace'
    BY <2>1, <2>2, <2>4, <2>5 DEF OnePlace
  <2>8. Cardinality(Asleep \ {w}) = Cardinality(Asleep) - 1
    BY <2>3, SleepersAreFinite, FS_RemoveElement
  <2>9. Counted'
    BY <2>1, <2>2, <2>4, <2>8 DEF Counted
  <2>10. Flags'
    BY <1>2, <2>1, <2>2 DEF Flags
  <2>11. QED
    BY <2>1, <2>5, <2>6, <2>7, <2>9, <2>10, Stutter DEF StepOK, PoolInv
<1>3. QED
  BY <1>1, <1>2

(* a function returns *)
LEMMA StepFinishItem ==
  ASSUME PoolInv, NEW w \in Workers, FinishItem(w)
  PROVE  StepOK
<1>1. /\ worker[w] \in Items /\ worker' = [worker EXCEPT ![w] = "fetch"]
      /\ queue' = queue /\ nwaiting' = nwaiting /\ complete' = complete /\ exit' = exit
      /\ waiting' = waiting /\ host' = host /\ called' = called
  BY DEF FinishItem, queueVars
<1>2. Shape /\ OnePlace /\ Counted /\ Flags
  BY DEF PoolInv
<1>3. /\ worker' \in [Workers -> NoWork \cup Items]
      /\ Running' = Running \ {worker[w]} /\ Asleep' = Asleep
      /\ \A u, v \in Workers : worker'[u] \in Items /\ worker'[u] = worker'[v] => u = v
  BY <1>1, <1>2, WorkerEnds
<1>4. Queued' = Queued /\ worker[w] \in Running
  BY <1>1 DEF Queued, Running
<1>5. Queued' \cup Running' = (Queued \cup Running) \ {worker[w]}
  BY <1>2, <1>3, <1>4 DEF OnePlace
<1>6. Shape'
  BY <1>1, <1>2, <1>3, <1>4 DEF Shape
<1>7. OnePlace'
  BY <1>1, <1>2, <1>3, <1>4 DEF OnePlace
<1>8. Counted' /\ Flags'
  BY <1>1, <1>2, <1>3 DEF Counted, Flags
<1>9. Pool!Finish(worker[w])
  BY <1>1, <1>4, <1>5 DEF Pool!Finish
<1>10. QED
  BY <1>1, <1>6, <1>7, <1>8, <1>9 DEF StepOK, PoolInv, Pool!Next

(* The host's steps, which leave the queue's contents or drop them, and     *)
(* leave the workers alone.                                                 *)
LEMMA HostStep ==
  ASSUME PoolInv, worker' = worker, nwaiting' = nwaiting, called' = called,
         queue' = queue \/ queue' = <<>>,
         host' \in HostStates, complete' \in BOOLEAN, exit' \in BOOLEAN, waiting' \in BOOLEAN,
         Flags'
  PROVE  /\ PoolInv' /\ Running' = Running /\ Asleep' = Asleep
         /\ Queued' \subseteq Queued /\ (queue' = queue => Queued' = Queued)
<1>1. Shape /\ OnePlace /\ Counted
  BY DEF PoolInv
<1>2. Running' = Running /\ Asleep' = Asleep
  BY DEF Running, Asleep
<1>3. Queued' \subseteq Queued /\ (queue' = queue => Queued' = Queued) /\ queue' \in Seq(Items)
  <2>1. CASE queue' = queue
    BY <1>1, <2>1 DEF Queued, Shape
  <2>2. CASE queue' = <<>> /\ queue' # queue
    <3>1. DOMAIN queue' = {} /\ queue' \in Seq(Items)
      BY <2>2
    <3>2. Queued' = {}
      BY <3>1 DEF Queued
    <3>3. QED
      BY <2>2, <3>1, <3>2
  <2>3. QED
    BY <2>1, <2>2
<1>4. \A m, n \in DOMAIN queue' : queue'[m] = queue'[n] => m = n
  BY <1>1 DEF OnePlace
<1>5. Shape'
  BY <1>1, <1>2, <1>3 DEF Shape
<1>6. OnePlace'
  BY <1>1, <1>2, <1>3, <1>4 DEF OnePlace
<1>7. Counted'
  BY <1>1, <1>2 DEF Counted
<1>8. QED
  BY <1>2, <1>3, <1>5, <1>6, <1>7 DEF PoolInv

(* wait_for_complete finds the pool at rest, or starts to wait *)
LEMMA StepBeginWait ==
  ASSUME PoolInv,
         \/ BeginWait("free", "wait")
         \/ BeginWait("recheck", "rewait")
  PROVE  StepOK
<1>1. Shape /\ OnePlace /\ Counted /\ Flags
  BY DEF PoolInv
<1>2. /\ worker' = worker /\ nwaiting' = nwaiting /\ called' = called /\ queue' = queue
      /\ exit' = exit
  BY DEF BeginWait
<1>3. CASE Rest
  <2>1. /\ complete' = FALSE /\ waiting' = FALSE
        /\ \/ host = "free" /\ host' = "recheck"
           \/ host = "recheck" /\ host' = "collect"
    BY <1>3 DEF BeginWait, After
  <2>2. PoolInv' /\ Running' = Running /\ Queued' = Queued
    BY <1>1, <1>2, <2>1, HostStep DEF Flags, HostStates, Shape
  <2>3. queue = <<>> /\ Asleep = Workers
    BY <1>1, <1>3, SleepersAreFinite DEF Rest, Counted
  <2>4. Queued = {} /\ Running = {}
    BY <2>3, RestIsIdle
  <2>5. [Pool!Next]_(Pool!vars)
    <3>1. CASE host = "free"
      BY <1>2, <2>1, <2>2, <2>4, <3>1 DEF Pool!Next, Pool!Return
    <3>2. CASE host = "recheck"
      BY <1>2, <2>1, <2>2, <3>2 DEF Pool!vars
    <3>3. QED
      BY <2>1, <3>1, <3>2
  <2>6. QED
    BY <2>2, <2>5 DEF StepOK
<1>4. CASE ~Rest
  <2>1. /\ complete' = complete /\ waiting' = TRUE
        /\ \/ host = "free" /\ host' = "wait"
           \/ host = "recheck" /\ host' = "rewait"
    BY <1>4 DEF BeginWait
  <2>2. Flags'
    BY <1>1, <1>2, <2>1 DEF Flags
  <2>3. PoolInv' /\ Running' = Running /\ Queued' = Queued
    BY <1>1, <1>2, <2>1, <2>2, HostStep DEF HostStates, Shape
  <2>4. [Pool!Next]_(Pool!vars)
    <3>1. CASE host = "free"
      BY <1>2, <2>1, <2>3, <3>1 DEF Pool!Next, Pool!Wait
    <3>2. CASE host = "recheck"
      BY <1>2, <2>1, <2>3, <3>2 DEF Pool!vars
    <3>3. QED
      BY <2>1, <3>1, <3>2
  <2>5. QED
    BY <2>3, <2>4 DEF StepOK
<1>5. QED
  BY <1>3, <1>4

(* complete_cv.wait returns: all is done, or the pool was stopped *)
LEMMA StepEndWait ==
  ASSUME PoolInv, EndWait("wait") \/ EndWait("rewait")
  PROVE  StepOK
<1>1. Shape /\ Flags
  BY DEF PoolInv
<1>2. /\ worker' = worker /\ nwaiting' = nwaiting /\ called' = called /\ queue' = queue
      /\ exit' = exit /\ complete /\ complete' = FALSE /\ waiting' = FALSE
      /\ \/ host = "wait" /\ host' = "recheck"
         \/ host = "rewait" /\ host' = "collect"
  BY DEF EndWait, After
<1>3. PoolInv' /\ Running' = Running /\ Queued' = Queued
  BY <1>1, <1>2, HostStep DEF Flags, HostStates, Shape
<1>4. exit \/ (Queued = {} /\ Running = {})
  BY <1>1, <1>2, RestIsIdle DEF Flags
<1>5. [Pool!Next]_(Pool!vars)
  <2>1. CASE host = "wait"
    BY <1>2, <1>3, <1>4, <2>1 DEF Pool!Next, Pool!Return
  <2>2. CASE host = "rewait"
    BY <1>2, <1>3, <2>2 DEF Pool!vars
  <2>3. QED
    BY <1>2, <2>1, <2>2
<1>6. QED
  BY <1>3, <1>5 DEF StepOK

(* the futures are collected *)
LEMMA StepCollect == ASSUME PoolInv, Collect PROVE StepOK
<1>1. Shape /\ Flags
  BY DEF PoolInv
<1>2. /\ worker' = worker /\ nwaiting' = nwaiting /\ called' = called /\ queue' = queue
      /\ exit' = exit /\ complete' = complete /\ waiting' = waiting
      /\ host = "collect" /\ host' = "free"
  BY DEF Collect, queueVars
<1>3. Flags'
  BY <1>1, <1>2 DEF Flags
<1>4. PoolInv' /\ Running' = Running /\ Queued' = Queued
  BY <1>1, <1>2, <1>3, HostStep DEF HostStates, Shape
<1>5. Pool!Resume
  BY <1>2, <1>4 DEF Pool!Resume
<1>6. QED
  BY <1>4, <1>5 DEF StepOK, Pool!Next

(* kill and the destructor *)
LEMMA StepClose == ASSUME PoolInv, Kill \/ Destroy PROVE StepOK
<1>1. Shape /\ Flags
  BY DEF PoolInv
<1>2. /\ worker' = worker /\ nwaiting' = nwaiting /\ called' = called
      /\ queue' = queue \/ queue' = <<>>
      /\ complete' = TRUE /\ exit' = TRUE /\ waiting' = waiting
      /\ host = "free" /\ host' \in {"free", "joining"}
  BY DEF Kill, Destroy
<1>3. Flags'
  BY <1>1, <1>2 DEF Flags
<1>4. PoolInv' /\ Running' = Running /\ Queued' \subseteq Queued
  BY <1>1, <1>2, <1>3, HostStep DEF HostStates, Shape
<1>5. Pool!Close
  <2>1. Queued' \cup Running' \in SUBSET (Queued \cup Running)
    BY <1>4
  <2>2. QED
    BY <1>2, <2>1 DEF Pool!Close
<1>6. QED
  BY <1>4, <1>5 DEF StepOK, Pool!Next

(* Every step keeps the invariant and is one of WorkPool, or none. *)
LEMMA StepsImplement == PoolInv /\ [Next]_vars => StepOK
<1> SUFFICES ASSUME PoolInv, [Next]_vars PROVE StepOK
  OBVIOUS
<1>1. Shape /\ OnePlace /\ Counted /\ Flags
  BY DEF PoolInv
<1>2. ASSUME queue' = queue, nwaiting' = nwaiting, complete' = complete, exit' = exit,
             waiting' = waiting, worker' = worker, called' = called, host' = host
      PROVE  StepOK
  <2>1. Flags'
    BY <1>1, <1>2 DEF Flags, Asleep
  <2>2. PoolInv' /\ Running' = Running /\ Queued' = Queued
    BY <1>1, <1>2, <2>1, HostStep DEF Shape
  <2>3. QED
    BY <1>2, <2>2, Stutter DEF StepOK, Pending
<1>3. CASE UNCHANGED vars
  BY <1>2, <1>3 DEF vars, queueVars
<1>4. ASSUME NEW w \in Workers, PopItem(w) PROVE StepOK
  BY <1>4, StepTake DEF PopItem
<1>5. ASSUME NEW w \in Workers, PopEmpty(w) \/ WakeUp(w) \/ FinishItem(w) PROVE StepOK
  BY <1>5, StepPopEmpty, StepWakeUp, StepFinishItem
<1>6. ASSUME NEW w \in Workers, WakeForNothing(w) PROVE StepOK
  BY <1>2, <1>6 DEF WakeForNothing, queueVars
<1>7. ASSUME NEW w \in Workers, NEW i \in Items, WorkerEnqueue(w, i) PROVE StepOK
  <2>1. Running # {}
    BY <1>7 DEF WorkerEnqueue, Running
  <2>2. QED
    BY <1>7, <2>1, StepPush DEF WorkerEnqueue
<1>8. ASSUME NEW i \in Items, HostEnqueue(i) PROVE StepOK
  BY <1>8, StepPush DEF HostEnqueue
<1>9. CASE Wait \/ Recheck
  BY <1>9, StepBeginWait DEF Wait, Recheck
<1>10. CASE EndWait("wait") \/ EndWait("rewait")
  BY <1>10, StepEndWait
<1>11. CASE Collect \/ Kill \/ Destroy
  BY <1>11, StepCollect, StepClose
<1>12. CASE Join
  <2>1. /\ worker' = worker /\ nwaiting' = nwaiting /\ called' = called /\ queue' = queue
        /\ exit' = exit /\ complete' = complete /\ waiting' = waiting
        /\ host = "joining" /\ host' = "ended"
    BY <1>12 DEF Join, queueVars
  <2>2. Flags'
    BY <1>1, <2>1 DEF Flags, Asleep
  <2>3. PoolInv' /\ Running' = Running /\ Queued' = Queued
    BY <1>1, <2>1, <2>2, HostStep DEF HostStates, Shape
  <2>4. UNCHANGED Pool!vars
    BY <2>1, <2>3 DEF Pool!vars
  <2>5. QED
    BY <2>3, <2>4 DEF StepOK
<1>13. QED
  BY <1>3, <1>4, <1>5, <1>6, <1>7, <1>8, <1>9, <1>10, <1>11, <1>12 DEF Next

(* A new pool: nobody sleeps, nothing is pending. *)
LEMMA InitImplements == Init => PoolInv /\ Pool!Init
<1> SUFFICES ASSUME Init PROVE PoolInv /\ Pool!Init
  OBVIOUS
<1>1. Queued = {} /\ Running = {} /\ Asleep = {}
  BY PoolAssumption DEF Init, Queued, Running, Asleep
<1>2. Shape
  <2>1. queue \in Seq(Items) /\ Queued \cup Running \subseteq called /\ called \subseteq Items
    BY <1>1 DEF Init
  <2>2. worker \in [Workers -> NoWork \cup Items] /\ host \in HostStates
    BY DEF Init, NoWork, HostStates
  <2>3. complete \in BOOLEAN /\ exit \in BOOLEAN /\ waiting \in BOOLEAN
    BY DEF Init
  <2>4. QED
    BY <2>1, <2>2, <2>3 DEF Shape
<1>3. OnePlace
  BY <1>1, PoolAssumption DEF Init, OnePlace
<1>4. Counted /\ Flags
  BY <1>1, FS_EmptySet DEF Init, Counted, Flags
<1>5. Pool!Init
  BY <1>1 DEF Init, Pool!Init
<1>6. QED
  BY <1>2, <1>3, <1>4, <1>5 DEF PoolInv

(* The pool's invariant: functions are in one place, nwaiting counts the    *)
(* workers that sleep, and `complete' is never left over from an earlier    *)
(* wait.                                                                    *)
THEOREM InvariantHolds == Spec => []PoolInv
<1>1. Init => PoolInv
  BY InitImplements
<1>2. PoolInv /\ [Next]_vars => PoolInv'
  BY StepsImplement DEF StepOK
<1>3. QED
  BY <1>1, <1>2, PTL DEF Spec

(* The thread pool implements WorkPool: wait() returns only when no         *)
(* function is queued or running, functions are submitted once and finish   *)
(* once, and nothing is dropped before the pool is killed or destroyed.     *)
THEOREM PoolImplementsWorkPool == Spec => ImplementsWorkPool
<1>1. Init => Pool!Init
  BY InitImplements
<1>2. PoolInv /\ [Next]_vars => [Pool!Next]_(Pool!vars)
  BY StepsImplement DEF StepOK
<1>3. QED
  BY <1>1, <1>2, InvariantHolds, PTL DEF Spec, ImplementsWorkPool, Pool!Spec
=============================================================================
