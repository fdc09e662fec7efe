-------------------------- MODULE TaskRegionProofs --------------------------
(***************************************************************************)
(* Proofs about TaskRegion::Execute for flat regions, of any number of     *)
(* lists and tasks and any combination of the synchronising qualifiers.    *)
(***************************************************************************)
EXTENDS FlatRegion, WellFoundedInduction, TLAPS

(***************************************************************************)
(* The graph of a flat region, as the proofs use it.                       *)
(***************************************************************************)
(* The tasks of a region's graph, and the dependencies it stores with them. *)
LEMMA GraphOfProgram ==
  ASSUME NEW p \in FlatPrograms
  PROVE  /\ Graph[p].task = Tasks(p)
         /\ \A t \in Tasks(p) : Graph[p].dependencies[t] = Dependencies(p, t)
  BY FlatAssumption DEF Graph, BuildGraph, Table

(* What a flat region is. *)
LEMMA FlatFacts ==
  ASSUME NEW p \in FlatPrograms
  PROVE  p \in Programs /\ Flat(p) /\ WellBuilt(p)
  BY FlatAssumption

(* Its edges, from either end. *)
LEMMA DependencyFacts ==
  ASSUME NEW p \in FlatPrograms, NEW t \in Tasks(p)
  PROVE  /\ Graph[p].dependencies[t] \subseteq Tasks(p)
         /\ t.part \in {"first", "last"} => Graph[p].dependencies[t] = {}
<1>1. WellBuilt(p)
  BY FlatFacts
<1>2. QED
  BY <1>1 DEF WellBuilt

LEMMA DependentFacts ==
  ASSUME NEW p \in FlatPrograms, NEW t \in Tasks(p)
  PROVE  /\ Graph[p].dependent[t]["incomplete"] = <<t>>
         /\ Graph[p].dependent[t]["complete"] \in Seq(Tasks(p))
         /\ \A m, n \in DOMAIN Graph[p].dependent[t]["complete"] :
               /\ t \in Graph[p].dependencies[Graph[p].dependent[t]["complete"][m]]
               /\ Graph[p].dependent[t]["complete"][m] = Graph[p].dependent[t]["complete"][n] => m = n
<1>1. WellBuilt(p)
  BY FlatFacts
<1>2. QED
  BY <1>1 DEF WellBuilt

(* A flat region has one list for each unique_id, and no completion task. *)
LEMMA TasksOfFlat ==
  ASSUME NEW p \in FlatPrograms, NEW t \in Tasks(p)
  PROVE  /\ t.uid \in Uids(p)
         /\ FirstTask(t.uid, 0) \in Tasks(p)
         /\ ListOf(p, t) = 0
         /\ ~Completion(p, t)
         /\ t.part = "first" => t = FirstTask(t.uid, 0)
         /\ t.part \in {"first", "last", "user", "start", "check"}
<1>1. Flat(p)
  BY FlatFacts
<1>2. t.uid \in Uids(p) /\ t.part \in {"first", "last", "user", "start", "check"}
  BY DEF Tasks
<1>3. t.part \in {"first", "last"} => t.call = 0
  BY <1>1 DEF Tasks, Flat, SubCalls
<1>4. t.part \notin {"first", "last"} => t.call \in TaskCalls(p)
  BY DEF Tasks
<1>5. FirstTask(t.uid, 0) \in Tasks(p)
  BY <1>2 DEF Tasks, FirstTask, Task
<1>6. ListOf(p, t) = 0
  BY <1>1, <1>3, <1>4 DEF ListOf, Flat
<1>7. ~Completion(p, t)
  BY <1>1, <1>4 DEF Completion, Flat, Has
<1>8. t.part = "first" => t = FirstTask(t.uid, 0)
  BY <1>1, <1>3 DEF Tasks, FirstTask, Task
<1>9. QED
  BY <1>2, <1>5, <1>6, <1>7, <1>8

(* Every task that somebody can make ready waits for one of its own list. *)
LEMMA OwnListDependency ==
  ASSUME NEW p \in FlatPrograms, NEW t \in Tasks(p), t.part \in {"user", "start", "check"}
  PROVE  \E d \in Dependencies(p, t) : d.uid = t.uid
<1>1. OwnDependencies(p, t) \subseteq Dependencies(p, t)
  BY DEF Dependencies
<1>2. CASE t.part = "user" /\ p.calls[t.call].dep = {}
  <2>1. FirstTask(t.uid, p.calls[t.call].list) \in OwnDependencies(p, t)
    BY <1>2 DEF OwnDependencies
  <2>2. QED
    BY <1>1, <2>1 DEF FirstTask, Task
<1>3. CASE t.part = "user" /\ p.calls[t.call].dep # {}
  <2>1. PICK k \in p.calls[t.call].dep : TRUE
    BY <1>3
  <2>2. Id(p, t.uid, k) \in OwnDependencies(p, t)
    BY <1>3, <2>1 DEF OwnDependencies
  <2>3. Id(p, t.uid, k).uid = t.uid
    BY DEF Id, LastTask, Task
  <2>4. QED
    BY <1>1, <2>2, <2>3
<1>4. CASE t.part = "start"
  BY <1>1, <1>4 DEF OwnDependencies, Task
<1>5. CASE t.part = "check"
  BY <1>1, <1>5 DEF OwnDependencies, Task
<1>6. QED
  BY <1>2, <1>3, <1>4, <1>5

-----------------------------------------------------------------------------
(***************************************************************************)
(* The inductive invariant.  DependencyOrder alone is not inductive: that  *)
(* the dependencies of a queued task are complete follows from how it got  *)
(* into nextUp, that they stay so from no first_task running late, and     *)
(* that no task is queued twice from the order in which its dependencies   *)
(* completed.                                                              *)
(***************************************************************************)
Complete(t) == status[t] = "complete"
Queued(t)   == \E n \in DOMAIN queue : queue[n] = t

(* no task ever fails or asks for another iteration *)
NoFailures ==
  /\ \A t \in G.task : status[t] \in {"complete", "incomplete"}
  /\ \A k \in Syncs(program) : reduction[k].stat \in {"complete", "incomplete"}

(* the dependencies of what runs or has run are complete *)
Justified ==
  \A t \in G.task : Queued(t) \/ Complete(t) => \A d \in G.dependencies[t] : Complete(d)

(* a task is queued at most once, and never again when it is complete; no  *)
(* last_task is, for want of a completion task                             *)
QueuedOnce ==
  \A m, n \in DOMAIN queue :
    /\ status[queue[m]] = "incomplete"
    /\ queue[m].part # "last"
    /\ queue[m] = queue[n] => m = n

(* what the worker has still to look at is neither queued nor complete *)
NextUpFresh ==
  \A m, n \in DOMAIN nextUp :
    /\ status[nextUp[m]] = "incomplete"
    /\ ~Queued(nextUp[m])
    /\ nextUp[m].part \notin {"first", "last"}
    /\ nextUp[m] = nextUp[n] => m = n

(* the lists the host has not started yet *)
NotStarted ==
  \A i \in Uids(program) :
    i >= launched => ~Queued(FirstTask(i, 0)) /\ status[FirstTask(i, 0)] = "incomplete"

(* nothing of a list is complete before its first_task, so that no reset   *)
(* ever undoes anything                                                    *)
Started == \A t \in G.task : Complete(t) => Complete(FirstTask(t.uid, 0))

(* what the history variables hold *)
History ==
  /\ \A t \in G.task : done[t] = IF Complete(t) THEN 1 ELSE 0
  /\ \A i \in Uids(program) : round[<<i, 0>>] = IF Complete(FirstTask(i, 0)) THEN 1 ELSE 0

IInv ==
  /\ program \in FlatPrograms
  /\ TypeOK /\ NoFailures /\ Justified /\ QueuedOnce
  /\ NextUpFresh /\ NotStarted /\ Started /\ History

-----------------------------------------------------------------------------
(* The maximum of complete and incomplete is one of them. *)
LEMMA MaxStatusType ==
  ASSUME NEW S \in SUBSET {"complete", "incomplete"}, S # {}
  PROVE  MaxStatus(S) \in {"complete", "incomplete"}
<1>1. \E s \in S : \A r \in S : Code(r) <= Code(s)
  <2>1. CASE "incomplete" \in S
    BY <2>1 DEF Code
  <2>2. CASE "incomplete" \notin S
    BY <2>2 DEF Code
  <2>3. QED
    BY <2>1, <2>2
<1>2. MaxStatus(S) \in S
  BY <1>1 DEF MaxStatus
<1>3. QED
  BY <1>2

(* No task of a flat region asks for another iteration, and none fails. *)
LEMMA ReturnsOfFlat ==
  ASSUME IInv, NEW t \in G.task
  PROVE  Returns(t) \subseteq {"complete", "incomplete", "throw"}
<1> DEFINE Two == {"complete", "incomplete"}
<1>1. program \in FlatPrograms /\ t \in Tasks(program) /\ Flat(program)
  BY GraphOfProgram, FlatFacts DEF IInv, TypeOK, G
<1>2. CASE t.part \in {"first", "last", "start"}
  BY <1>2 DEF Returns
<1>3. CASE t.part = "user"
  <2>1. t.call \in TaskCalls(program)
    BY <1>1, <1>3 DEF Tasks
  <2>2. QED
    BY <1>1, <1>3, <2>1 DEF Returns, UserReturns, Flat
<1>4. CASE t.part = "check"
  <2>1. t.call \in Syncs(program) /\ t.uid \in Uids(program) /\ t.call \in TaskCalls(program)
    BY <1>1, <1>4 DEF Tasks, Syncs
  <2>2. MyTask(t) \in G.task
    BY <1>1, <2>1, GraphOfProgram DEF MyTask, Task, Tasks, G
  <2>3. status[MyTask(t)] \in Two
    BY <2>2 DEF IInv, NoFailures
  <2>4. reduction[t.call].stat \in Two
    BY <2>1 DEF IInv, NoFailures
  <2>5. \A o \in OtherStat : MaxStatus({reduction[t.call].stat, o}) \in Two
    BY <2>4, MaxStatusType, OtherStatAssumption
  <2>6. TestReduction(t) \subseteq Two
    BY <2>4, <2>5 DEF TestReduction
  <2>7. Returns(t) = IF OnRoot(t) THEN TestReduction(t) ELSE {status[MyTask(t)]}
    BY <1>4 DEF Returns
  <2>8. QED
    BY <2>3, <2>6, <2>7
<1>5. QED
  BY <1>1, <1>2, <1>3, <1>4, TasksOfFlat

(* The invariant holds when Execute begins. *)
LEMMA InitInvariant == Init /\ program \in FlatPrograms => IInv
<1> SUFFICES ASSUME Init, program \in FlatPrograms PROVE IInv
  OBVIOUS
<1> USE DEF Init
<1>1. program \in FlatPrograms /\ Flat(program) /\ G.task = Tasks(program)
  BY FlatFacts, GraphOfProgram DEF G
<1>2. \A t \in G.task : status[t] = "incomplete" /\ ~Complete(t) /\ ~Queued(t)
  BY DEF Complete, Queued
<1>3. \A i \in Uids(program) : FirstTask(i, 0) \in G.task
  BY <1>1 DEF Tasks, FirstTask, Task
<1>4. TypeOK
  BY <1>1 DEF TypeOK, Status, Flat
<1>5. NoFailures
  BY <1>2 DEF NoFailures
<1>6. Justified /\ Started
  BY <1>2 DEF Justified, Started
<1>7. QueuedOnce /\ NextUpFresh
  BY DEF QueuedOnce, NextUpFresh
<1>8. NotStarted
  BY <1>2, <1>3 DEF NotStarted, Queued
<1>9. History
  BY <1>1, <1>2, <1>3 DEF History, ListIds
<1>10. QED
  BY <1>4, <1>5, <1>6, <1>7, <1>8, <1>9 DEF IInv

(***************************************************************************)
(* What running a task amounts to in a flat region: only its own status    *)
(* changes, because the reset by a first_task finds its list untouched and *)
(* neither iteration limits nor resets of num_calls apply.                 *)
(***************************************************************************)
LEMMA Popped ==
  ASSUME IInv, NEW t, Pop(t)
  PROVE  /\ t \in G.task /\ t \in Tasks(program) /\ Queued(t) /\ t.part # "last"
         /\ status[t] = "incomplete"
         /\ queue' = Tail(queue) /\ nextUp = <<>> /\ program' = program
         /\ queue \in Seq(G.task) /\ queue # <<>>
         /\ queue' \in Seq(G.task)
         /\ \A u : Queued(u)' <=> Queued(u) /\ u # t
         /\ \A m, n \in DOMAIN queue' : queue'[m] = queue'[n] => m = n
         /\ \A n \in DOMAIN queue' : Queued(queue'[n])
<1>1. queue \in Seq(G.task) /\ queue # <<>> /\ t = queue[1] /\ program \in FlatPrograms
  BY DEF Pop, IInv, TypeOK
<1>2. t \in G.task /\ Queued(t) /\ status[t] = "incomplete" /\ t.part # "last"
  BY <1>1 DEF Queued, IInv, QueuedOnce
<1>3. queue' = Tail(queue) /\ nextUp = <<>> /\ program' = program /\ queue' \in Seq(G.task)
  BY <1>1 DEF Pop, Idle
<1>4. /\ Len(queue) \in Nat \ {0} /\ DOMAIN queue = 1 .. Len(queue)
      /\ DOMAIN queue' = 1 .. Len(queue) - 1
      /\ \A n \in DOMAIN queue' : queue'[n] = queue[n + 1] /\ n + 1 \in DOMAIN queue
  BY <1>1, <1>3
<1>5. \A m, n \in DOMAIN queue : queue[m] = queue[n] => m = n
  BY DEF IInv, QueuedOnce
<1>6. ASSUME NEW u PROVE Queued(u)' <=> Queued(u) /\ u # t
  <2>1. ASSUME Queued(u)' PROVE Queued(u) /\ u # t
    <3>1. PICK n \in DOMAIN queue' : queue'[n] = u
      BY <2>1 DEF Queued
    <3>2. n + 1 \in DOMAIN queue /\ queue[n + 1] = u /\ 1 \in DOMAIN queue /\ n + 1 # 1
      BY <1>4, <3>1
    <3>3. QED
      BY <1>1, <1>5, <3>2 DEF Queued
  <2>2. ASSUME Queued(u), u # t PROVE Queued(u)'
    <3>1. PICK n \in DOMAIN queue : queue[n] = u
      BY <2>2 DEF Queued
    <3>2. n # 1
      BY <1>1, <2>2, <3>1
    <3>3. n - 1 \in DOMAIN queue' /\ queue'[n - 1] = u
      BY <1>4, <3>1, <3>2
    <3>4. QED
      BY <3>3 DEF Queued
  <2>3. QED
    BY <2>1, <2>2
<1>7. \A m, n \in DOMAIN queue' : queue'[m] = queue'[n] => m = n
  BY <1>4, <1>5
<1>8. \A n \in DOMAIN queue' : Queued(queue'[n])
  BY <1>4 DEF Queued
<1>9. t \in Tasks(program)
  BY <1>1, <1>2, GraphOfProgram DEF G
<1>10. QED
  BY <1>1, <1>2, <1>3, <1>6, <1>7, <1>8, <1>9

(* What running a task changes, with the definitions of a flat region expanded. *)
LEMMA RunTaskEffect ==
  ASSUME IInv, NEW t, NEW f \in Status, RunTask(t, f)
  PROVE  /\ f \in {"complete", "incomplete"}
         /\ status'   = [status EXCEPT ![t] = f]
         /\ numCalls' = numCalls
         /\ nextUp'   = G.dependent[t][f]
         /\ round'    = IF t.part = "first" THEN [round EXCEPT ![<<t.uid, 0>>] = @ + 1]
                        ELSE round
         /\ done'     = IF f = "complete" THEN [done EXCEPT ![t] = @ + 1] ELSE done
<1>1. Pop(t) /\ f \in Returns(t)
  BY DEF RunTask
<1>2. /\ t \in G.task /\ t \in Tasks(program) /\ status[t] = "incomplete"
      /\ program \in FlatPrograms /\ G.task = Tasks(program)
  BY <1>1, Popped, GraphOfProgram DEF G, IInv, TypeOK
<1>3. f \in {"complete", "incomplete", "throw"}
  BY <1>1, <1>2, ReturnsOfFlat
<1>4. ~Completion(program, t) /\ ListOf(program, t) = 0 /\ ListId(program, t) = <<t.uid, 0>>
  BY <1>2, TasksOfFlat DEF ListId
<1>5. Enforced(t, f) = f
  BY <1>4 DEF Enforced
<1>6. f \in {"complete", "incomplete"}
  BY <1>3 DEF Status
<1>7. Finish(t, f) /\ nextUp' = G.dependent[t][f]
  BY <1>5 DEF RunTask, NextUp
<1>8. status' = [status EXCEPT ![t] = f]
  <2>1. status \in [G.task -> Status]
    BY DEF IInv, TypeOK
  <2>2. ResetStatus(t) = status
    <3>1. CASE t.part = "first"
      <4>1. t = FirstTask(t.uid, 0)
        BY <1>2, <3>1, TasksOfFlat
      <4>2. ASSUME NEW u \in G.task, ListId(program, u) = ListId(program, t)
            PROVE  status[u] = "incomplete"
        <5>1. u.uid = t.uid
          BY <1>4, <4>2 DEF ListId
        <5>2. ~Complete(FirstTask(u.uid, 0))
          BY <1>2, <4>1, <5>1 DEF Complete
        <5>3. QED
          BY <5>2 DEF IInv, Started, Complete, NoFailures
      <4>3. QED
        BY <2>1, <4>2 DEF ResetStatus
    <3>2. CASE t.part # "first"
      BY <2>1, <3>2 DEF ResetStatus
    <3>3. QED
      BY <3>1, <3>2
  <2>3. QED
    BY <1>7, <2>2 DEF Finish
<1>9. numCalls' = numCalls
  <2>1. numCalls \in [G.task -> Nat]
    BY DEF IInv, TypeOK
  <2>2. ResetCalls(t) = numCalls
    <3>1. \A u \in G.task : ~Completion(program, u)
      BY <1>2, TasksOfFlat
    <3>2. QED
      BY <2>1, <3>1 DEF ResetCalls
  <2>3. Counted(t, f) = numCalls[t]
    BY <1>2, <1>4, <2>1 DEF Counted
  <2>4. QED
    BY <1>2, <1>7, <2>1, <2>2, <2>3 DEF Finish
<1>10. QED
  BY <1>4, <1>6, <1>7, <1>8, <1>9 DEF Finish

(***************************************************************************)
(* The steps, one lemma for each action that can disturb the invariant.    *)
(***************************************************************************)
(* A task that runs preserves the invariant. *)
LEMMA StepRunTask ==
  ASSUME IInv, NEW t, NEW f \in Status, RunTask(t, f)
  PROVE  IInv'
<1>1. /\ t \in G.task /\ t \in Tasks(program) /\ status[t] = "incomplete" /\ Queued(t)
      /\ t.part # "last"
      /\ nextUp = <<>> /\ program' = program /\ queue' \in Seq(G.task)
      /\ \A u : Queued(u)' <=> Queued(u) /\ u # t
      /\ \A m, n \in DOMAIN queue' : queue'[m] = queue'[n] => m = n
      /\ \A n \in DOMAIN queue' : Queued(queue'[n])
  BY Popped DEF RunTask
<1>2. /\ f \in {"complete", "incomplete"}
      /\ status'   = [status EXCEPT ![t] = f]
      /\ numCalls' = numCalls
      /\ nextUp'   = G.dependent[t][f]
      /\ round'    = IF t.part = "first" THEN [round EXCEPT ![<<t.uid, 0>>] = @ + 1] ELSE round
      /\ done'     = IF f = "complete" THEN [done EXCEPT ![t] = @ + 1] ELSE done
  BY RunTaskEffect
<1>3. /\ program \in FlatPrograms /\ G.task = Tasks(program) /\ G' = G
      /\ status \in [G.task -> Status] /\ G = Graph[program]
  BY <1>1, GraphOfProgram DEF IInv, TypeOK, G
<1>4. launched' = launched /\ result' = result /\ returned' = returned \cup {f}
  <2>1. ~Completion(program, t)
    BY <1>1, <1>3, TasksOfFlat
  <2>2. Enforced(t, f) = f
    BY <2>1 DEF Enforced
  <2>3. QED
    BY <2>2 DEF RunTask, Pop
<1>5. \A u \in G.task : Complete(u)' <=> Complete(u) \/ (u = t /\ f = "complete")
  BY <1>1, <1>2, <1>3 DEF Complete
<1>6. \A d \in G.dependencies[t] : Complete(d) /\ d \in G.task /\ d # t
  <2>1. G.dependencies[t] \subseteq G.task
    BY <1>1, <1>3, DependencyFacts
  <2>2. QED
    BY <1>1, <2>1 DEF IInv, Justified, Complete
(* a task that waits for t was not complete, nor could it be queued *)
<1>7. \A u \in G.task : t \in G.dependencies[u] => u # t /\ ~Queued(u) /\ status[u] = "incomplete"
  <2> SUFFICES ASSUME NEW u \in G.task, t \in G.dependencies[u]
               PROVE  u # t /\ ~Queued(u) /\ status[u] = "incomplete"
    OBVIOUS
  <2>1. ~Complete(t)
    BY <1>1 DEF Complete
  <2>2. ~Queued(u) /\ ~Complete(u)
    BY <2>1 DEF IInv, Justified
  <2>3. QED
    BY <1>1, <2>2 DEF IInv, NoFailures, Complete
<1>8. NextUpFresh' /\ nextUp' \in Seq(G.task)
  <2>1. CASE f = "incomplete"
    <3>1. nextUp' = <<t>>
      BY <1>1, <1>2, <1>3, <2>1, DependentFacts
    <3>2. t.part \notin {"first", "last"}
      <4>1. SUFFICES ASSUME t.part \in {"first", "last"} PROVE FALSE
        OBVIOUS
      <4>2. Returns(t) = {"complete"}
        BY <4>1 DEF Returns
      <4>3. QED
        BY <2>1, <4>2 DEF RunTask
    <3>3. status'[t] = "incomplete" /\ \A n \in DOMAIN queue' : queue'[n] # t
      BY <1>1, <1>2, <1>3, <2>1 DEF Queued
    <3>4. DOMAIN nextUp' = {1} /\ nextUp'[1] = t
      BY <3>1
    <3>5. NextUpFresh'
      BY <3>2, <3>3, <3>4 DEF NextUpFresh, Queued
    <3>6. nextUp' \in Seq(G.task)
      <4> DEFINE tasks == G.task
      <4>1. t \in tasks
        BY <1>1
      <4> HIDE DEF tasks
      <4>2. <<t>> \in Seq(tasks)
        BY <4>1
      <4>3. QED
        BY <3>1, <4>2 DEF tasks
    <3>7. QED
      BY <3>5, <3>6
  <2>2. CASE f = "complete"
    <3> DEFINE next == G.dependent[t]["complete"]
    <3>1. /\ next \in Seq(G.task)
          /\ \A m, n \in DOMAIN next : t \in G.dependencies[next[m]] /\ (next[m] = next[n] => m = n)
      <4>1. t \in Tasks(program) /\ program \in FlatPrograms
        BY <1>1, <1>3
      <4>2. QED
        BY <1>3, <4>1, DependentFacts
    <3>2. \A m \in DOMAIN next :
            /\ next[m] \in G.task /\ next[m] # t
            /\ ~Queued(next[m]) /\ status[next[m]] = "incomplete"
      BY <1>7, <3>1
    <3>3. \A m \in DOMAIN next : next[m].part \notin {"first", "last"}
      <4>1. ASSUME NEW u \in Tasks(program), u.part \in {"first", "last"}
            PROVE  Graph[program].dependencies[u] = {}
        BY <1>3, <4>1, DependencyFacts
      <4>2. QED
        BY <1>3, <3>1, <3>2, <4>1
    <3>4. nextUp' = next
      BY <1>2, <2>2
    <3> HIDE DEF next
    <3>5. \A m \in DOMAIN next :
            status'[next[m]] = "incomplete" /\ \A n \in DOMAIN queue' : queue'[n] # next[m]
      <4>1. SUFFICES ASSUME NEW m \in DOMAIN next
                     PROVE  /\ status'[next[m]] = "incomplete"
                            /\ \A n \in DOMAIN queue' : queue'[n] # next[m]
        OBVIOUS
      <4>2. next[m] \in G.task /\ next[m] # t /\ ~Queued(next[m]) /\ status[next[m]] = "incomplete"
        BY <3>2
      <4>3. status'[next[m]] = "incomplete"
        BY <1>2, <1>3, <4>2
      <4>4. \A n \in DOMAIN queue' : queue'[n] # next[m]
        BY <1>1, <4>2
      <4>5. QED
        BY <4>3, <4>4
    <3>6. QED
      BY <3>1, <3>3, <3>4, <3>5 DEF NextUpFresh, Queued
  <2>3. QED
    BY <1>2, <2>1, <2>2
<1>9. NoFailures'
  <2>1. \A u \in G.task : status'[u] \in {"complete", "incomplete"}
    BY <1>2, <1>3 DEF IInv, NoFailures
  <2>2. LocalStat(t) \in {"complete", "incomplete"}
    <3>1. {status[d] : d \in G.dependencies[t]} \cup {"complete"} \subseteq {"complete", "incomplete"}
      BY <1>6 DEF Complete
    <3>2. QED
      BY <3>1, MaxStatusType DEF LocalStat
  <2>3. \A k \in Syncs(program) : reduction'[k].stat \in {"complete", "incomplete"}
    <3>1. Reduce(t, f)
      BY DEF RunTask
    <3>2. reduction \in [Syncs(program) -> [active : BOOLEAN, stat : Status]]
      BY DEF IInv, TypeOK
    <3>3. QED
      BY <1>2, <2>2, <3>1, <3>2 DEF IInv, NoFailures, Reduce
  <2>4. QED
    BY <1>1, <1>3, <2>1, <2>3 DEF NoFailures
<1>10. Justified'
  <2>1. ASSUME NEW u \in G.task, Queued(u)' \/ Complete(u)', NEW d \in G.dependencies[u]
        PROVE  Complete(d)'
    <3>1. Queued(u) \/ Complete(u)
      BY <1>1, <1>5, <2>1
    <3>2. Complete(d) /\ d \in G.task
      <4>1. G.dependencies[u] \subseteq G.task
        BY <1>3, FlatFacts DEF WellBuilt
      <4>2. QED
        BY <3>1, <4>1 DEF IInv, Justified
    <3>3. QED
      BY <1>5, <3>2
  <2>2. QED
    BY <1>3, <2>1 DEF Justified
<1>11. QueuedOnce'
  <2>1. \A m \in DOMAIN queue' : status'[queue'[m]] = "incomplete" /\ queue'[m].part # "last"
    <3>1. SUFFICES ASSUME NEW m \in DOMAIN queue'
                   PROVE  status'[queue'[m]] = "incomplete" /\ queue'[m].part # "last"
      OBVIOUS
    <3>2. Queued(queue'[m]) /\ queue'[m] # t /\ queue'[m] \in G.task
      <4>1. Queued(queue'[m]) /\ queue'[m] \in G.task
        BY <1>1
      <4>2. \A u : (\E n \in DOMAIN queue' : queue'[n] = u) => u # t
        BY <1>1 DEF Queued
      <4>3. QED
        BY <4>1, <4>2
    <3>3. status[queue'[m]] = "incomplete" /\ queue'[m].part # "last"
      BY <3>2 DEF Queued, IInv, QueuedOnce
    <3>4. QED
      BY <1>2, <1>3, <3>2, <3>3
  <2>2. QED
    BY <1>1, <2>1 DEF QueuedOnce
<1>12. NotStarted'
  <2>1. ASSUME NEW i \in Uids(program), i >= launched
        PROVE  ~Queued(FirstTask(i, 0))' /\ status'[FirstTask(i, 0)] = "incomplete"
    <3>1. ~Queued(FirstTask(i, 0)) /\ status[FirstTask(i, 0)] = "incomplete"
      BY <2>1 DEF IInv, NotStarted
    <3>2. FirstTask(i, 0) # t
      BY <1>1, <3>1
    <3>3. QED
      BY <1>1, <1>2, <1>3, <3>1, <3>2
  <2>2. QED
    BY <1>1, <1>4, <2>1 DEF NotStarted
<1>13. Started'
  <2>1. ASSUME NEW u \in G.task, Complete(u)' PROVE Complete(FirstTask(u.uid, 0))'
    <3>1. FirstTask(u.uid, 0) \in G.task
      BY <1>3, <2>1, TasksOfFlat
    <3>2. CASE Complete(u)
      BY <1>5, <3>1, <3>2 DEF IInv, Started
    <3>3. CASE u = t /\ t.part = "first"
      BY <1>1, <1>3, <2>1, <3>3, TasksOfFlat
    <3>4. CASE u = t /\ t.part # "first"
      <4>1. t.part \in {"user", "start", "check"}
        BY <1>1, <1>3, <3>4, TasksOfFlat
      <4>2. PICK d \in G.dependencies[t] : d.uid = t.uid
        BY <1>1, <1>3, <4>1, OwnListDependency, GraphOfProgram
      <4>3. Complete(FirstTask(t.uid, 0))
        BY <1>6, <4>2 DEF IInv, Started
      <4>4. QED
        BY <1>5, <3>1, <3>4, <4>3
    <3>5. QED
      BY <1>5, <2>1, <3>2, <3>3, <3>4
  <2>2. QED
    BY <1>3, <2>1 DEF Started
<1>14. TypeOK'
  <2>1. numCalls' \in [G.task -> Nat] /\ status' \in [G.task -> Status]
    BY <1>2, <1>3 DEF IInv, TypeOK, Status
  <2>2. reduction' \in [Syncs(program) -> [active : BOOLEAN, stat : Status]]
    <3>1. Reduce(t, f) /\ reduction \in [Syncs(program) -> [active : BOOLEAN, stat : Status]]
      BY DEF RunTask, IInv, TypeOK
    <3>2. LocalStat(t) \in Status
      <4>1. {status[d] : d \in G.dependencies[t]} \cup {"complete"} \subseteq {"complete", "incomplete"}
        BY <1>6 DEF Complete
      <4>2. QED
        BY <4>1, MaxStatusType DEF LocalStat, Status
    <3>3. QED
      BY <1>2, <3>1, <3>2 DEF Reduce
  <2>3. round' \in [ListIds(program) -> Nat] /\ done' \in [G.task -> Nat]
    <3>1. round \in [ListIds(program) -> Nat] /\ done \in [G.task -> Nat]
      BY DEF IInv, TypeOK
    <3>2. <<t.uid, 0>> \in ListIds(program)
      BY <1>1, <1>3, TasksOfFlat DEF ListIds
    <3>3. round' \in [ListIds(program) -> Nat]
      BY <1>2, <3>1, <3>2
    <3>4. done' \in [G.task -> Nat]
      BY <1>1, <1>2, <3>1
    <3>5. QED
      BY <3>3, <3>4
  <2>4. QED
    BY <1>1, <1>2, <1>3, <1>4, <1>8, <2>1, <2>2, <2>3 DEF IInv, TypeOK, Status
<1>15. History'
  <2>1. \A u \in G.task : done'[u] = IF Complete(u)' THEN 1 ELSE 0
    <3>1. done \in [G.task -> Nat] /\ \A u \in G.task : done[u] = IF Complete(u) THEN 1 ELSE 0
      BY DEF IInv, TypeOK, History
    <3>2. ~Complete(t)
      BY <1>1 DEF Complete
    <3>3. QED
      BY <1>1, <1>2, <1>5, <3>1, <3>2
  <2>2. ASSUME NEW i \in Uids(program)
        PROVE  round'[<<i, 0>>] = IF Complete(FirstTask(i, 0))' THEN 1 ELSE 0
    <3>1. /\ round \in [ListIds(program) -> Nat] /\ <<i, 0>> \in ListIds(program)
          /\ round[<<i, 0>>] = IF Complete(FirstTask(i, 0)) THEN 1 ELSE 0
      BY DEF IInv, TypeOK, History, ListIds
    <3>2. FirstTask(i, 0) \in G.task /\ FirstTask(i, 0).uid = i /\ FirstTask(i, 0).part = "first"
      BY <1>3 DEF Tasks, FirstTask, Task
    <3>3. CASE FirstTask(i, 0) = t
      <4>1. Returns(t) = {"complete"} /\ f \in Returns(t)
        BY <3>2, <3>3 DEF RunTask, Returns
      <4>2. ~Complete(t) /\ Complete(t)'
        BY <1>1, <1>5, <4>1 DEF Complete
      <4>3. QED
        BY <1>2, <3>1, <3>2, <3>3, <4>2
    <3>4. CASE FirstTask(i, 0) # t
      <4>1. t.part = "first" => t = FirstTask(t.uid, 0)
        BY <1>1, <1>3, TasksOfFlat
      <4>2. t.part = "first" => t.uid # i
        BY <3>4, <4>1
      <4>3. round'[<<i, 0>>] = round[<<i, 0>>]
        BY <1>2, <3>1, <4>2
      <4>4. QED
        BY <1>5, <3>1, <3>2, <3>4, <4>3
    <3>5. QED
      BY <3>3, <3>4
  <2>3. QED
    BY <1>1, <1>3, <2>1, <2>2 DEF History
<1>16. QED
  BY <1>1, <1>8, <1>9, <1>10, <1>11, <1>12, <1>13, <1>14, <1>15 DEF IInv

(* A task that throws preserves it: its status stays as it was. *)
LEMMA StepRunThrowing ==
  ASSUME IInv, NEW t, RunThrowing(t)
  PROVE  IInv'
<1>1. /\ t \in G.task /\ status[t] = "incomplete" /\ nextUp = <<>>
      /\ program' = program /\ queue' \in Seq(G.task)
      /\ \A u : Queued(u)' <=> Queued(u) /\ u # t
      /\ \A m, n \in DOMAIN queue' : queue'[m] = queue'[n] => m = n
      /\ \A n \in DOMAIN queue' : Queued(queue'[n])
  BY Popped DEF RunThrowing
<1>2. /\ status' = status /\ numCalls' = numCalls /\ reduction' = reduction /\ round' = round
      /\ done' = done /\ launched' = launched /\ nextUp' = <<>> /\ result' = result
      /\ returned' = returned \cup {"exception"} /\ G' = G
  BY <1>1 DEF RunThrowing, Pop, historyVars, G
<1>3. TypeOK'
  BY <1>1, <1>2 DEF IInv, TypeOK
<1>4. NoFailures' /\ Started' /\ History'
  BY <1>1, <1>2 DEF IInv, NoFailures, Started, History, Complete
<1>5. Justified'
  BY <1>1, <1>2 DEF IInv, Justified, Complete
<1>6. NextUpFresh'
  BY <1>2 DEF NextUpFresh
<1>7. NotStarted'
  BY <1>1, <1>2 DEF IInv, NotStarted
<1>8. QueuedOnce'
  <2>1. \A n \in DOMAIN queue' : \E m \in DOMAIN queue : queue[m] = queue'[n]
    BY <1>1 DEF Queued
  <2>2. QED
    BY <1>1, <1>2, <2>1 DEF IInv, QueuedOnce
<1>9. QED
  BY <1>1, <1>3, <1>4, <1>5, <1>6, <1>7, <1>8 DEF IInv

(* what Append does to `queued' *)
LEMMA Pushed ==
  ASSUME IInv, NEW t \in G.task, queue' = Append(queue, t)
  PROVE  /\ queue' \in Seq(G.task)
         /\ \A u : Queued(u)' <=> Queued(u) \/ u = t
         /\ DOMAIN queue' = DOMAIN queue \cup {Len(queue) + 1}
         /\ Len(queue) + 1 \notin DOMAIN queue
         /\ queue'[Len(queue) + 1] = t
         /\ \A n \in DOMAIN queue : queue'[n] = queue[n]
<1> DEFINE tasks == G.task
<1>1. queue \in Seq(tasks) /\ t \in tasks
  BY DEF IInv, TypeOK
<1> HIDE DEF tasks
<1>2. /\ queue' \in Seq(tasks)
      /\ DOMAIN queue' = DOMAIN queue \cup {Len(queue) + 1}
      /\ Len(queue) + 1 \notin DOMAIN queue
      /\ queue'[Len(queue) + 1] = t
      /\ \A n \in DOMAIN queue : queue'[n] = queue[n]
  BY <1>1
<1>3. \A u : Queued(u)' <=> Queued(u) \/ u = t
  BY <1>2 DEF Queued
<1>4. QED
  BY <1>2, <1>3 DEF tasks

(* So does Execute when it enqueues the next first_task. *)
LEMMA StepEnqueueStartup ==
  ASSUME IInv, EnqueueStartup
  PROVE  IInv'
<1> DEFINE first == FirstTask(launched, 0)
<1>1. /\ program \in FlatPrograms /\ G.task = Tasks(program) /\ G = Graph[program]
      /\ launched \in Uids(program) /\ launched + 1 \in 0 .. program.lists
      /\ program.lists \in Nat
  BY GraphOfProgram, FlatFacts DEF IInv, TypeOK, EnqueueStartup, Flat, Uids, G
<1>2. first \in G.task /\ first.part = "first"
  BY <1>1 DEF Tasks, FirstTask, Task
<1>3. ~Queued(first) /\ status[first] = "incomplete"
  BY <1>1 DEF IInv, NotStarted, Uids
<1>4. /\ program' = program /\ G' = G /\ status' = status /\ numCalls' = numCalls
      /\ reduction' = reduction /\ nextUp' = nextUp /\ returned' = returned
      /\ result' = result /\ round' = round /\ done' = done /\ launched' = launched + 1
      /\ queue' = Append(queue, first)
  BY DEF EnqueueStartup, historyVars, G
<1>5. /\ queue' \in Seq(G.task)
      /\ \A u : Queued(u)' <=> Queued(u) \/ u = first
      /\ DOMAIN queue' = DOMAIN queue \cup {Len(queue) + 1}
      /\ Len(queue) + 1 \notin DOMAIN queue
      /\ queue'[Len(queue) + 1] = first
      /\ \A n \in DOMAIN queue : queue'[n] = queue[n]
  BY <1>2, <1>4, Pushed
<1>6. G.dependencies[first] = {}
  BY <1>1, <1>2, FlatFacts DEF WellBuilt
<1>7. TypeOK'
  BY <1>1, <1>4, <1>5 DEF IInv, TypeOK
<1>8. NoFailures' /\ Started' /\ History'
  BY <1>4 DEF IInv, NoFailures, Started, History, Complete
<1>9. Justified'
  BY <1>4, <1>5, <1>6 DEF IInv, Justified, Complete
<1>10. QueuedOnce'
  <2>1. \A n \in DOMAIN queue : queue[n] # first
    BY <1>3 DEF Queued
  <2>2. QED
    BY <1>2, <1>3, <1>4, <1>5, <2>1 DEF IInv, QueuedOnce
<1>11. NextUpFresh'
  BY <1>2, <1>4, <1>5 DEF IInv, NextUpFresh
<1>12. NotStarted'
  <2>1. ASSUME NEW i \in Uids(program), i >= launched + 1
        PROVE  ~Queued(FirstTask(i, 0))' /\ status[FirstTask(i, 0)] = "incomplete"
    <3>1. i >= launched /\ i # launched
      BY <1>1, <2>1 DEF Uids
    <3>2. FirstTask(i, 0) # first
      BY <3>1 DEF FirstTask, Task
    <3>3. QED
      BY <1>5, <3>1, <3>2 DEF IInv, NotStarted
  <2>2. QED
    BY <1>4, <2>1 DEF NotStarted
<1>13. QED
  BY <1>4, <1>7, <1>8, <1>9, <1>10, <1>11, <1>12 DEF IInv

(* So does the worker when it enqueues a dependent that is ready. *)
LEMMA StepEnqueueDependent ==
  ASSUME IInv, EnqueueDependent
  PROVE  IInv'
<1> DEFINE u == nextUp[1]
<1>1. /\ program \in FlatPrograms /\ G.task = Tasks(program) /\ G = Graph[program]
      /\ nextUp \in Seq(G.task) /\ nextUp # <<>>
  BY GraphOfProgram DEF IInv, TypeOK, EnqueueDependent, Idle, G
<1>2. /\ program' = program /\ G' = G /\ status' = status /\ numCalls' = numCalls
      /\ reduction' = reduction /\ returned' = returned /\ launched' = launched
      /\ result' = result /\ round' = round /\ done' = done
      /\ nextUp' = Tail(nextUp)
      /\ queue' = IF Ready(u) THEN Append(queue, u) ELSE queue
  BY <1>1 DEF EnqueueDependent, historyVars, G
<1>3. /\ nextUp' \in Seq(G.task) /\ 1 \in DOMAIN nextUp /\ u \in G.task
      /\ \A n \in DOMAIN nextUp' :
            n + 1 \in DOMAIN nextUp /\ nextUp'[n] = nextUp[n + 1] /\ n + 1 # 1 /\ n \in Nat
  <2> DEFINE tasks == G.task
  <2>1. nextUp \in Seq(tasks) /\ nextUp # <<>>
    BY <1>1
  <2> HIDE DEF tasks
  <2>2. /\ Tail(nextUp) \in Seq(tasks) /\ 1 \in DOMAIN nextUp /\ nextUp[1] \in tasks
        /\ \A n \in DOMAIN Tail(nextUp) :
             n + 1 \in DOMAIN nextUp /\ Tail(nextUp)[n] = nextUp[n + 1] /\ n + 1 # 1 /\ n \in Nat
    BY <2>1
  <2>3. QED
    BY <1>2, <2>2 DEF tasks
<1>4. /\ status[u] = "incomplete" /\ ~Queued(u) /\ u.part \notin {"first", "last"}
      /\ \A n \in DOMAIN nextUp' :
           /\ status[nextUp'[n]] = "incomplete" /\ ~Queued(nextUp'[n]) /\ nextUp'[n] # u
           /\ nextUp'[n].part \notin {"first", "last"}
           /\ \A m \in DOMAIN nextUp' : nextUp'[m] = nextUp'[n] => m = n
  BY <1>3 DEF IInv, NextUpFresh
<1>5. NoFailures' /\ Started' /\ History'
  BY <1>2 DEF IInv, NoFailures, Started, History, Complete
<1>6. CASE ~Ready(u)
  <2>1. queue' = queue
    BY <1>2, <1>6
  <2>2. TypeOK'
    BY <1>2, <1>3, <2>1 DEF IInv, TypeOK
  <2>3. Justified' /\ QueuedOnce' /\ NotStarted'
    BY <1>2, <2>1 DEF IInv, Justified, QueuedOnce, NotStarted, Queued, Complete
  <2>4. NextUpFresh'
    BY <1>2, <1>4, <2>1 DEF NextUpFresh, Queued
  <2>5. QED
    BY <1>2, <1>5, <2>2, <2>3, <2>4 DEF IInv
<1>7. CASE Ready(u)
  <2>1. /\ queue' \in Seq(G.task)
        /\ \A v : Queued(v)' <=> Queued(v) \/ v = u
        /\ DOMAIN queue' = DOMAIN queue \cup {Len(queue) + 1}
        /\ Len(queue) + 1 \notin DOMAIN queue
        /\ queue'[Len(queue) + 1] = u
        /\ \A n \in DOMAIN queue : queue'[n] = queue[n]
    <3>1. queue' = Append(queue, u)
      BY <1>2, <1>7
    <3>2. QED
      BY <1>3, <3>1, Pushed
  <2>2. \A d \in G.dependencies[u] : Complete(d)
    <3>1. G.dependencies[u] \subseteq G.task
      BY <1>1, <1>3, FlatFacts DEF WellBuilt
    <3>2. QED
      BY <1>7, <3>1 DEF Ready, IInv, NoFailures, Complete
  <2>3. TypeOK'
    BY <1>2, <1>3, <2>1 DEF IInv, TypeOK
  <2>4. Justified'
    BY <1>2, <2>1, <2>2 DEF IInv, Justified, Complete
  <2>5. QueuedOnce'
    <3>1. \A n \in DOMAIN queue : queue[n] # u
      BY <1>4 DEF Queued
    <3>2. QED
      BY <1>2, <1>4, <2>1, <3>1 DEF IInv, QueuedOnce
  <2>6. NextUpFresh'
    <3>1. \A n \in DOMAIN nextUp' : \A k \in DOMAIN queue' : queue'[k] # nextUp'[n]
      BY <1>4, <2>1 DEF Queued
    <3>2. QED
      BY <1>2, <1>4, <3>1 DEF NextUpFresh, Queued
  <2>7. NotStarted'
    <3>1. \A i \in Uids(program) : FirstTask(i, 0) # u
      BY <1>4 DEF FirstTask, Task
    <3>2. QED
      BY <1>2, <2>1, <3>1 DEF IInv, NotStarted
  <2>8. QED
    BY <1>2, <1>5, <2>3, <2>4, <2>5, <2>6, <2>7 DEF IInv
<1>8. QED
  BY <1>6, <1>7

(* Return, and steps that change nothing, leave the invariant's parts alone. *)
LEMMA StepOther ==
  ASSUME IInv, Return \/ UNCHANGED vars
  PROVE  IInv'
<1>1. /\ UNCHANGED <<program, status, numCalls, reduction, launched, queue, nextUp, returned,
                     round, done>>
      /\ result' \in {"pending", "complete", "fail", "exception"}
  BY DEF Return, vars, engineVars, historyVars, IInv, TypeOK
<1>2. G' = G
  BY <1>1 DEF G
<1>3. TypeOK'
  BY <1>1, <1>2 DEF IInv, TypeOK
<1>4. /\ NoFailures' /\ Justified' /\ QueuedOnce' /\ NextUpFresh'
      /\ NotStarted' /\ Started' /\ History'
  BY <1>1, <1>2 DEF IInv, NoFailures, Justified, QueuedOnce, NextUpFresh, NotStarted, Started,
                    History, Complete, Queued
<1>5. QED
  BY <1>1, <1>3, <1>4 DEF IInv

-----------------------------------------------------------------------------
(* A flat region never leaves the inductive invariant. *)
THEOREM InvariantHolds == FlatSpec => []IInv
<1>1. Init /\ program \in FlatPrograms => IInv
  BY InitInvariant
<1>2. IInv /\ [Next]_vars => IInv'
  <2> SUFFICES ASSUME IInv, [Next]_vars PROVE IInv'
    OBVIOUS
  <2>1. ASSUME NEW t, NEW f \in Status, RunTask(t, f) PROVE IInv'
    BY <2>1, StepRunTask
  <2>2. ASSUME NEW t, RunFailing(t) PROVE IInv'
    <3>1. t \in G.task /\ "fail" \in Returns(t)
      BY <2>2, Popped DEF RunFailing
    <3>2. QED
      BY <3>1, ReturnsOfFlat
  <2>3. ASSUME NEW t, RunThrowing(t) PROVE IInv'
    BY <2>3, StepRunThrowing
  <2>4. CASE EnqueueDependent
    BY <2>4, StepEnqueueDependent
  <2>5. CASE EnqueueStartup
    BY <2>5, StepEnqueueStartup
  <2>6. CASE Return \/ UNCHANGED vars
    BY <2>6, StepOther
  <2>7. QED
    BY <2>1, <2>2, <2>3, <2>4, <2>5, <2>6 DEF Next, Worker
<1>3. QED
  BY <1>1, <1>2, PTL DEF FlatSpec

(* The variables keep their types. *)
THEOREM TypeCorrect == FlatSpec => []TypeOK
<1>1. IInv => TypeOK
  BY DEF IInv
<1>2. QED
  BY <1>1, InvariantHolds, PTL

(* A task is only queued when all it was promised to wait for, on its own  *)
(* and on the other lists, has completed.                                  *)
THEOREM DependenciesRespected == FlatSpec => []DependencyOrder
<1>1. IInv => DependencyOrder
  <2> SUFFICES ASSUME IInv PROVE DependencyOrder
    OBVIOUS
  <2>1. ASSUME NEW t \in G.task, Queued(t), NEW d \in Promised(program, t)
        PROVE  done[d] >= round[Waits(t)]
    <3>1. program \in FlatPrograms /\ G.task = Tasks(program) /\ G = Graph[program]
      BY GraphOfProgram DEF IInv, TypeOK, G
    <3>2. d \in G.dependencies[t] /\ d \in G.task
      BY <2>1, <3>1, FlatFacts DEF WellBuilt
    <3>3. Complete(d)
      BY <2>1, <3>2 DEF IInv, Justified
    <3>4. done[d] = 1
      BY <3>2, <3>3 DEF IInv, History
    <3>5. t.uid \in Uids(program) /\ Waits(t) = <<t.uid, 0>>
      <4>1. t.part = "first" => t.call = 0
        BY <3>1, FlatFacts DEF Tasks, Flat
      <4>2. QED
        BY <3>1, <4>1, TasksOfFlat DEF Waits, ListId
    <3>6. round[<<t.uid, 0>>] \in {0, 1}
      BY <3>5 DEF IInv, History
    <3>7. QED
      BY <3>4, <3>5, <3>6
  <2>2. \A n \in DOMAIN queue : queue[n] \in G.task /\ Queued(queue[n])
    BY DEF IInv, TypeOK, Queued
  <2>3. QED
    BY <2>1, <2>2 DEF DependencyOrder
<1>2. QED
  BY <1>1, InvariantHolds, PTL

(* No task is executed twice. *)
THEOREM ExecutedOnce == FlatSpec => []OncePerRound
<1>1. IInv => OncePerRound
  <2> SUFFICES ASSUME IInv, NEW t \in G.task, t.part # "first"
               PROVE  done[t] <= round[Counts(t)]
    BY DEF OncePerRound
  <2>1. program \in FlatPrograms /\ G.task = Tasks(program) /\ Flat(program)
    BY GraphOfProgram, FlatFacts DEF IInv, TypeOK, G
  <2>2. t.uid \in Uids(program) /\ Counts(t) = <<t.uid, 0>>
    <3>1. t.part = "last" => t.call = 0
      BY <2>1 DEF Tasks, Flat
    <3>2. QED
      BY <2>1, <3>1, TasksOfFlat DEF Counts, ListId
  <2>3. /\ done[t] = IF Complete(t) THEN 1 ELSE 0
        /\ round[<<t.uid, 0>>] = IF Complete(FirstTask(t.uid, 0)) THEN 1 ELSE 0
        /\ Complete(t) => Complete(FirstTask(t.uid, 0))
    BY <2>2 DEF IInv, History, Started
  <2>4. QED
    BY <2>2, <2>3
<1>2. QED
  BY <1>1, InvariantHolds, PTL
-----------------------------------------------------------------------------
(***************************************************************************)
(* That nothing is left out.  Execute returns when the queue is empty; a   *)
(* task that nobody queued then would be lost.  So the invariant is about  *)
(* every task whose turn has come: as long as nothing was thrown, it is    *)
(* complete, queued, or the worker has still to look at it.                *)
(***************************************************************************)
InHand(t) == Complete(t) \/ Queued(t) \/ t \in ToSet(nextUp)

Remembered ==
  "exception" \notin returned =>
    /\ \A i \in Uids(program) : i < launched => InHand(FirstTask(i, 0))
    /\ \A t \in G.task :
         t.part \notin {"first", "last"} /\ (\A d \in G.dependencies[t] : Complete(d)) => InHand(t)

Ended ==
  result # "pending" =>
    /\ queue = <<>> /\ nextUp = <<>> /\ launched = program.lists
    /\ result = "complete" => "exception" \notin returned

LEMMA InitRemembers ==
  ASSUME Init, program \in FlatPrograms
  PROVE  Remembered /\ Ended
<1>1. G.task = Tasks(program) /\ \A t \in Tasks(program) : G.dependencies[t] = Dependencies(program, t)
  BY GraphOfProgram DEF G
<1>2. \A t \in G.task : ~Complete(t)
  BY DEF Init, Complete
<1>3. \A i \in Uids(program) : ~(i < launched)
  BY DEF Init, Uids
<1>4. ASSUME NEW t \in G.task, t.part \notin {"first", "last"}
      PROVE  \E d \in G.dependencies[t] : ~Complete(d)
  <2>1. t.part \in {"user", "start", "check"}
    BY <1>1, <1>4, TasksOfFlat
  <2>2. PICK d \in Dependencies(program, t) : d.uid = t.uid
    BY <1>1, <2>1, OwnListDependency
  <2>3. G.dependencies[t] \subseteq G.task
    BY <1>1, FlatFacts DEF WellBuilt, G
  <2>4. QED
    BY <1>1, <1>2, <2>2, <2>3
<1>5. QED
  BY <1>3, <1>4 DEF Remembered, Ended, Init

(* A task that runs brings its dependents, or itself once more, into nextUp. *)
LEMMA RunTaskRemembers ==
  ASSUME IInv, Remembered, Ended, NEW t, NEW f \in Status, RunTask(t, f)
  PROVE  Remembered' /\ Ended'
<1>1. /\ t \in G.task /\ t \in Tasks(program) /\ status[t] = "incomplete"
      /\ nextUp = <<>> /\ program' = program /\ queue # <<>> /\ G' = G
      /\ \A u : Queued(u)' <=> Queued(u) /\ u # t
  BY Popped DEF RunTask, G
<1>2. /\ f \in {"complete", "incomplete"}
      /\ status' = [status EXCEPT ![t] = f] /\ status \in [G.task -> Status]
      /\ nextUp' = G.dependent[t][f]
  BY RunTaskEffect DEF IInv, TypeOK
<1>3. returned \subseteq returned' /\ launched' = launched /\ result' = result
  BY DEF RunTask, Pop
<1>4. Ended'
  BY <1>1, <1>3 DEF Ended
<1>5. /\ \A u \in G.task : u # t => (Complete(u)' <=> Complete(u))
      /\ ~Complete(t) /\ (Complete(t)' <=> f = "complete")
  BY <1>1, <1>2 DEF Complete
<1>6. \A u : u \notin ToSet(nextUp)
  BY <1>1 DEF ToSet
<1>7. InHand(t)'
  <2>1. CASE f = "complete"
    BY <1>5, <2>1 DEF InHand
  <2>2. CASE f = "incomplete"
    <3>1. nextUp' = <<t>>
      BY <1>1, <1>2, <2>2, FlatFacts DEF WellBuilt, G, IInv
    <3>2. t \in ToSet(nextUp')
      BY <3>1 DEF ToSet
    <3>3. QED
      BY <3>2 DEF InHand
  <2>3. QED
    BY <1>2, <2>1, <2>2
<1>8. ASSUME NEW u \in G.task, InHand(u)
      PROVE  InHand(u)'
  BY <1>1, <1>5, <1>6, <1>7, <1>8 DEF InHand
<1>9. ASSUME NEW u \in G.task, \A d \in G.dependencies[u] : Complete(d)',
             \E d \in G.dependencies[u] : ~Complete(d)
      PROVE  InHand(u)'
  <2>1. PICK d \in G.dependencies[u] : ~Complete(d)
    BY <1>9
  <2>2. /\ d \in G.task
        /\ u \in ToSet(G.dependent[d]["complete"])
    BY <1>1, FlatFacts, GraphOfProgram DEF WellBuilt, G, IInv
  <2>3. d = t /\ f = "complete"
    BY <1>5, <1>9, <2>1, <2>2
  <2>4. QED
    BY <1>2, <2>2, <2>3 DEF InHand
<1>10. \A i \in Uids(program) : FirstTask(i, 0) \in G.task
  BY GraphOfProgram DEF IInv, G, Tasks, FirstTask, Task
<1>11. Remembered'
  <2> SUFFICES ASSUME "exception" \notin returned'
               PROVE  /\ \A i \in Uids(program) : i < launched => InHand(FirstTask(i, 0))'
                      /\ \A u \in G.task :
                           u.part \notin {"first", "last"} /\ (\A d \in G.dependencies[u] : Complete(d)')
                             => InHand(u)'
    BY <1>1, <1>3 DEF Remembered
  <2>1. "exception" \notin returned
    BY <1>3
  <2>2. \A i \in Uids(program) : i < launched => InHand(FirstTask(i, 0))'
    BY <1>8, <1>10, <2>1 DEF Remembered
  <2>3. QED
    BY <1>8, <1>9, <2>1, <2>2 DEF Remembered
<1>12. QED
  BY <1>4, <1>11
(* EnqueueStartup and EnqueueDependent move tasks into the queue; what the *)
(* worker drops is not ready.                                              *)
LEMMA EnqueueRemembers ==
  ASSUME IInv, Remembered, Ended, EnqueueStartup \/ EnqueueDependent
  PROVE  Remembered' /\ Ended'
<1>1. /\ program' = program /\ G' = G /\ status' = status /\ returned' = returned /\ result' = result
      /\ program \in FlatPrograms /\ G.task = Tasks(program) /\ program.lists \in Nat
  BY GraphOfProgram, FlatFacts DEF EnqueueStartup, EnqueueDependent, G, IInv, TypeOK, Flat
<1>2. \A i \in Uids(program) : FirstTask(i, 0) \in G.task /\ FirstTask(i, 0).part = "first"
  BY <1>1 DEF Tasks, FirstTask, Task
<1>3. CASE EnqueueStartup
  <2> DEFINE first == FirstTask(launched, 0)
  <2>1. /\ launched' = launched + 1 /\ nextUp' = nextUp /\ launched \in Uids(program)
        /\ launched < program.lists /\ launched \in Nat /\ queue' = Append(queue, first)
    BY <1>1, <1>3 DEF EnqueueStartup, IInv, TypeOK, Uids
  <2>2. \A u : Queued(u)' <=> Queued(u) \/ u = first
    BY <1>2, <2>1, Pushed
  <2> HIDE DEF first
  <2>3. ASSUME NEW u, InHand(u) \/ u = first
        PROVE  InHand(u)'
    BY <1>1, <2>1, <2>2, <2>3 DEF InHand, Complete
  <2>4. \A i \in Uids(program) : i < launched' => i < launched \/ FirstTask(i, 0) = first
    BY <1>1, <2>1 DEF first, Uids
  <2>5. Remembered'
    BY <1>1, <2>3, <2>4 DEF Remembered, Complete
  <2>6. Ended'
    BY <1>1, <2>1 DEF Ended
  <2>7. QED
    BY <2>5, <2>6
<1>4. CASE EnqueueDependent
  <2> DEFINE v == nextUp[1]
             tasks == G.task
  <2>1. /\ launched' = launched /\ nextUp # <<>> /\ nextUp \in Seq(tasks)
        /\ nextUp' = Tail(nextUp) /\ queue' = IF Ready(v) THEN Append(queue, v) ELSE queue
    BY <1>4 DEF EnqueueDependent, Idle, IInv, TypeOK
  <2> HIDE DEF tasks
  <2>2. 1 \in DOMAIN nextUp /\ v \in tasks
    BY <2>1
  <2>3. ASSUME NEW u \in ToSet(nextUp)
        PROVE  u = v \/ u \in ToSet(Tail(nextUp))
    <3>1. PICK n \in DOMAIN nextUp : nextUp[n] = u
      BY DEF ToSet
    <3>2. CASE n = 1
      BY <3>1, <3>2
    <3>3. CASE n # 1
      <4>1. n - 1 \in DOMAIN Tail(nextUp) /\ Tail(nextUp)[n - 1] = u
        BY <2>1, <3>1, <3>3
      <4>2. QED
        BY <4>1 DEF ToSet
    <3>4. QED
      BY <3>2, <3>3
  <2>4. \A u : Queued(u)' <=> Queued(u) \/ (u = v /\ Ready(v))
    <3>1. CASE Ready(v)
      <4>1. queue' = Append(queue, v)
        BY <2>1, <3>1
      <4>2. QED
        BY <2>2, <3>1, <4>1, Pushed DEF tasks
    <3>2. CASE ~Ready(v)
      BY <2>1, <3>2 DEF Queued
    <3>3. QED
      BY <3>1, <3>2
  <2>5. v.part # "first"
    BY <2>2 DEF IInv, NextUpFresh
  <2> HIDE DEF v
  <2>6. ASSUME NEW u, InHand(u), u # v \/ Ready(v)
        PROVE  InHand(u)'
    BY <1>1, <2>1, <2>3, <2>4, <2>6 DEF InHand, Complete
  <2>7. ASSUME \A d \in G.dependencies[v] : Complete(d)
        PROVE  Ready(v)
    BY <2>7 DEF Ready, Complete
  <2>8. \A i \in Uids(program) : FirstTask(i, 0) # v
    BY <1>2, <2>5
  <2>9. Remembered'
    BY <1>1, <2>1, <2>6, <2>7, <2>8 DEF Remembered, Complete
  <2>10. Ended'
    BY <1>1, <2>1 DEF Ended
  <2>11. QED
    BY <2>9, <2>10
<1>5. QED
  BY <1>3, <1>4

LEMMA OtherRemembers ==
  ASSUME IInv, Remembered, Ended, Return \/ UNCHANGED vars \/ \E t : RunThrowing(t)
  PROVE  Remembered' /\ Ended'
<1>1. CASE Return \/ UNCHANGED vars
  <2>1. /\ UNCHANGED <<program, status, launched, queue, nextUp, returned>> /\ G' = G
        /\ \/ result' = result
           \/ /\ queue = <<>> /\ nextUp = <<>> /\ launched = program.lists
              /\ result' = "complete" => "exception" \notin returned
    BY <1>1 DEF Return, vars, engineVars, G, Idle
  <2>2. \A u : (InHand(u)' <=> InHand(u)) /\ (Complete(u)' <=> Complete(u))
    BY <2>1 DEF InHand, Complete, Queued
  <2>3. QED
    BY <2>1, <2>2 DEF Remembered, Ended
<1>2. ASSUME NEW t, RunThrowing(t)
      PROVE  Remembered' /\ Ended'
  <2>1. "exception" \in returned' /\ result' = result /\ queue # <<>>
    BY <1>2, Popped DEF RunThrowing, Pop
  <2>2. QED
    BY <2>1 DEF Remembered, Ended
<1>3. QED
  BY <1>1, <1>2

LEMMA LeastNatural ==
  ASSUME NEW T \in SUBSET Nat, T # {}
  PROVE  \E x \in T : \A y \in T : x <= y
<1> DEFINE R == {ss \in Nat \X Nat : ss[1] < ss[2]}
<1>1. IsWellFoundedOn(R, Nat)
  BY NatLessThanWellFounded DEF OpToRel
<1> HIDE DEF R
<1>2. PICK x \in T : \A y \in T : ~(<<y, x>> \in R)
  BY <1>1, WFMin
<1>3. \A y \in T : <<y, x>> \in Nat \X Nat /\ <<y, x>>[1] = y /\ <<y, x>>[2] = x
  OBVIOUS
<1>4. \A y \in T : ~(y < x)
  BY <1>2, <1>3 DEF R
<1>5. QED
  BY <1>4

(* The places of tasks in the order of construction are naturals. *)
LEMMA DepthIsNat ==
  ASSUME NEW p \in FlatPrograms, NEW t \in Tasks(p)
  PROVE  Depth(t) \in Nat
<1>1. t.call \in Nat
  BY FlatFacts DEF Tasks, Flat, TaskCalls
<1>2. QED
  BY <1>1 DEF Depth

(* Of the tasks that are not complete, the one that was built first has    *)
(* nothing left to wait for.                                               *)
LEMMA AllComplete ==
  ASSUME IInv, Remembered, Ended, result = "complete", NEW t \in G.task, t.part # "last"
  PROVE  Complete(t)
<1> DEFINE Left == {u \in G.task : u.part # "last" /\ ~Complete(u)}
           depths == {Depth(u) : u \in Left}
<1>1. /\ program \in FlatPrograms /\ G.task = Tasks(program) /\ G = Graph[program] /\ Flat(program)
      /\ queue = <<>> /\ nextUp = <<>> /\ launched = program.lists /\ "exception" \notin returned
  BY GraphOfProgram, FlatFacts DEF IInv, TypeOK, G, Ended
<1>2. \A u : InHand(u) => Complete(u)
  BY <1>1 DEF InHand, Queued, ToSet
<1>3. \A u \in G.task : Depth(u) \in Nat
  BY <1>1, DepthIsNat
<1>4. ASSUME Left # {}
      PROVE  FALSE
  <2>1. depths \in SUBSET Nat /\ depths # {}
    BY <1>3, <1>4
  <2>2. PICK x \in depths : \A y \in depths : x <= y
    BY <2>1, LeastNatural
  <2>3. PICK u \in Left : Depth(u) = x
    BY <2>2
  <2>4. CASE u.part = "first"
    <3>1. u.uid \in Uids(program) /\ u = FirstTask(u.uid, 0)
      BY <1>1, <2>3, <2>4, TasksOfFlat
    <3>2. u.uid < launched
      BY <1>1, <3>1 DEF Uids, Flat
    <3>3. QED
      BY <1>1, <1>2, <2>3, <3>1, <3>2 DEF Remembered
  <2>5. CASE u.part # "first"
    <3>1. ASSUME NEW d \in G.dependencies[u]
          PROVE  Complete(d)
      <4>1. d \in G.task /\ d.part # "last" /\ Depth(d) < Depth(u)
        BY <1>1, <2>3, FlatFacts DEF WellBuilt
      <4>2. d \notin Left
        BY <1>3, <2>2, <2>3, <4>1
      <4>3. QED
        BY <4>1, <4>2
    <3>2. QED
      BY <1>1, <1>2, <2>3, <2>5, <3>1 DEF Remembered
  <2>6. QED
    BY <2>4, <2>5
<1>5. QED
  BY <1>4

(* When Execute reports success, every task has completed once.            *)
THEOREM NothingForgotten == FlatSpec => []NothingLost
<1>1. Init /\ program \in FlatPrograms => Remembered /\ Ended
  BY InitRemembers
<1>2. IInv /\ Remembered /\ Ended /\ [Next]_vars => (Remembered /\ Ended)'
  <2> SUFFICES ASSUME IInv, Remembered, Ended, [Next]_vars PROVE (Remembered /\ Ended)'
    OBVIOUS
  <2>1. ASSUME NEW t, NEW f \in Status, RunTask(t, f) PROVE Remembered' /\ Ended'
    BY <2>1, RunTaskRemembers
  <2>2. ASSUME NEW t, RunFailing(t) PROVE Remembered' /\ Ended'
    <3>1. t \in G.task /\ "fail" \in Returns(t)
      BY <2>2, Popped DEF RunFailing
    <3>2. QED
      BY <3>1, ReturnsOfFlat
  <2>3. QED
    BY <2>1, <2>2, EnqueueRemembers, OtherRemembers DEF Next, Worker
<1>3. IInv /\ Remembered /\ Ended => NothingLost
  <2> SUFFICES ASSUME IInv, Remembered, Ended, result = "complete", NEW t \in G.task, Required(t)
               PROVE  done[t] = round[Counts(t)] /\ round[<<t.uid, 0>>] = 1
    BY DEF NothingLost
  <2>1. program \in FlatPrograms /\ G.task = Tasks(program) /\ Flat(program)
    BY GraphOfProgram, FlatFacts DEF IInv, TypeOK, G
  <2>2. t.part # "last"
    BY <2>1 DEF Required, Tasks, Flat
  <2>3. t.uid \in Uids(program) /\ Counts(t) = <<t.uid, 0>> /\ FirstTask(t.uid, 0) \in G.task
    BY <2>1, <2>2, TasksOfFlat DEF Counts, ListId
  <2>4. Complete(t) /\ Complete(FirstTask(t.uid, 0))
    BY <2>2, <2>3, AllComplete DEF FirstTask, Task
  <2>5. QED
    BY <2>3, <2>4 DEF IInv, History
<1>4. QED
  BY <1>1, <1>2, <1>3, InvariantHolds, PTL DEF FlatSpec

-----------------------------------------------------------------------------
(***************************************************************************)
(* The data of a region that its graph keeps in order.                     *)
(***************************************************************************)
(* A task that runs or has run waited for all that is upstream of it.      *)
LEMMA UpstreamComplete ==
  ASSUME IInv, NEW before, WaitsFor(program, before),
         NEW t \in G.task, Queued(t) \/ Complete(t), NEW s \in before[t]
  PROVE  Complete(s)
<1> DEFINE Early == {u \in G.task : (Queued(u) \/ Complete(u)) /\ \E r \in before[u] : ~Complete(r)}
           T == {Depth(u) : u \in Early}
<1>1. program \in FlatPrograms /\ G.task = Tasks(program) /\ G = Graph[program]
  BY GraphOfProgram DEF IInv, G
<1>2. T \in SUBSET Nat
  BY <1>1, DepthIsNat
<1>3. SUFFICES ASSUME Early # {} PROVE FALSE
  OBVIOUS
<1>4. PICK u \in Early : \A v \in Early : Depth(u) <= Depth(v)
  <2>1. T # {}
    BY <1>3
  <2> HIDE DEF T
  <2>2. PICK n \in T : \A m \in T : n <= m
    BY <1>2, <2>1, LeastNatural
  <2>3. QED
    BY <2>2 DEF T
<1>5. PICK r \in before[u] : ~Complete(r)
  BY <1>4
<1>6. PICK d \in G.dependencies[u] : r = d \/ r \in before[d]
  BY <1>1, <1>4, <1>5 DEF WaitsFor
<1>7. Complete(d)
  BY <1>4, <1>6 DEF IInv, Justified
<1>8. d \in G.task /\ Depth(d) < Depth(u)
  BY <1>1, <1>4, <1>6, FlatFacts DEF WellBuilt
<1>9. d \in Early
  BY <1>5, <1>6, <1>7, <1>8
<1>10. Depth(u) \in Nat /\ Depth(d) \in Nat /\ Depth(u) <= Depth(d)
  BY <1>1, <1>4, <1>8, <1>9, DepthIsNat
<1>11. QED
  BY <1>8, <1>10

(* Touching the same data is mutual. *)
LEMMA ConflictsMutual ==
  ASSUME NEW p, NEW t \in Tasks(p), NEW s \in Conflicts(p, t)
  PROVE  s \in Tasks(p) /\ t \in Conflicts(p, s) /\ s.call # t.call /\ s.call \in Calls(p) /\ t.call \in Calls(p)
<1>1. t.part = "user" /\ Active(p, t.call, t.uid)
  BY DEF Conflicts
<1>2. /\ s \in [uid : Uids(p), call : TaskCalls(p) \ {t.call}, part : {"user"}]
      /\ Active(p, s.call, s.uid) /\ Touch(p, s.call, s.uid, t.call, t.uid)
  BY <1>1 DEF Conflicts
<1>3. t \in [uid : Uids(p), call : TaskCalls(p), part : {"user"}]
  BY <1>1 DEF Tasks
<1>4. Touch(p, t.call, t.uid, s.call, s.uid)
  BY <1>2 DEF Touch
<1>5. s \in Tasks(p) /\ s.call # t.call /\ s.part = "user"
  BY <1>2 DEF Tasks
<1>6. t \in [uid : Uids(p), call : TaskCalls(p) \ {s.call}, part : {"user"}]
  BY <1>3, <1>5
<1>7. t \in Conflicts(p, s)
  BY <1>1, <1>2, <1>4, <1>5, <1>6 DEF Conflicts
<1>8. QED
  BY <1>2, <1>3, <1>5, <1>7 DEF TaskCalls

(* In the regions whose graph orders all tasks that touch the same data    *)
(* (Graph, as AddTask and BuildGraph make it), these run in the order in   *)
(* which the driver adds them, on its own list and through shared data on  *)
(* all lists, however often a task has to be retried and whatever Execute  *)
(* interleaves.                                                            *)
THEOREM DataStaysInOrder == FlatSpec => [](program \in OrderedPrograms => DataInOrder)
<1>1. IInv => (program \in OrderedPrograms => DataInOrder)
  <2> SUFFICES ASSUME IInv, program \in OrderedPrograms, program \in DOMAIN ConflictsOf,
                      queue # <<>>,
                      NEW t, t = Head(queue), NEW s \in ConflictsOf[program][t]
               PROVE  IF s.call < t.call THEN RunsFirst(s, t)
                      ELSE done[s] = IF ListOf(program, s) = ListOf(program, t) THEN done[t] ELSE 0
    BY DEF DataInOrder
  <2>1. program \in FlatPrograms /\ G.task = Tasks(program)
    BY GraphOfProgram DEF IInv, G
  <2>2. t \in G.task /\ Queued(t) /\ ~Complete(t)
    <3>1. queue \in Seq(G.task) /\ 1 \in DOMAIN queue /\ t = queue[1]
      BY DEF IInv, TypeOK
    <3>2. QED
      BY <3>1 DEF IInv, QueuedOnce, Queued, Complete
  <2>3. s \in Conflicts(program, t)
    BY <2>1, <2>2 DEF ConflictsOf, Table
  <2>4. /\ s \in G.task /\ t \in Conflicts(program, s)
        /\ s.call # t.call /\ s.call \in Nat /\ t.call \in Nat
    BY <2>1, <2>2, <2>3, ConflictsMutual, FlatFacts DEF Flat
  <2>5. ListOf(program, s) = 0 /\ ListOf(program, t) = 0
    BY <2>1, <2>2, <2>4, TasksOfFlat
  <2>6. done[s] = (IF Complete(s) THEN 1 ELSE 0) /\ done[t] = 0
    BY <2>2, <2>4 DEF IInv, History
  <2>7. PICK before : /\ WaitsFor(program, before)
                      /\ \A u \in Tasks(program) : \A r \in Conflicts(program, u) :
                           r.call < u.call => r \in before[u]
    BY OrderedAssumption DEF OrderedByGraph
  <2>8. CASE s.call < t.call
    <3>1. Complete(s)
      BY <2>1, <2>2, <2>3, <2>7, <2>8, UpstreamComplete
    <3>2. QED
      BY <2>5, <2>6, <2>8, <3>1 DEF RunsFirst
  <2>9. CASE ~(s.call < t.call)
    <3>1. t.call < s.call
      BY <2>4, <2>9
    <3>2. ~Complete(s)
      BY <2>1, <2>2, <2>4, <2>7, <3>1, UpstreamComplete
    <3>3. QED
      BY <2>5, <2>6, <2>9, <3>2
  <2>10. QED
    BY <2>8, <2>9
<1>2. QED
  BY <1>1, InvariantHolds, PTL
=============================================================================
