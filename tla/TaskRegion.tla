----------------------------- MODULE TaskRegion ----------------------------
(***************************************************************************)
(* TaskRegion::Execute (src/tasks/tasks.hpp) on a ThreadPool of size 1     *)
(* (any other size is refused by Execute): the host thread enqueues the    *)
(* first_task of every list and waits; the worker runs the head of the     *)
(* FIFO queue and then enqueues those dependents for the returned status   *)
(* that are ready.  The host's pushes interleave with the worker's.        *)
(***************************************************************************)
EXTENDS TaskGraph

CONSTANTS
  Programs,    \* the regions considered (see TaskGraph)
  OtherStat    \* what the other ranks may contribute to a GlobalSync Iallreduce

Graph == [p \in Programs |-> BuildGraph(p)]

VARIABLES
  program,     \* the region being executed
  status,      \* task_status of every task
  numCalls,    \* num_calls of every task
  reduction,   \* the Iallreduce of every GlobalSync: [active, stat]
  launched,    \* number of lists whose first_task the host has enqueued
  queue,       \* the pool's queue
  nextUp,      \* the dependents the worker has still to look at
  returned,    \* what the futures in run_tasks hold
  result,      \* what Execute has done: "pending", or its outcome
  round,       \* history: how often the first_task of each list has run
  done         \* history: how often each task has returned complete or iterate

engineVars  == <<status, numCalls, reduction, launched, queue, nextUp, returned, result>>
historyVars == <<round, done>>
vars == <<program, engineVars, historyVars>>

G == Graph[program]
ListIds(p)   == Uids(p) \X (SubCalls(p) \cup {0})
ListId(p, t) == <<t.uid, ListOf(p, t)>>
Syncs(p)     == {k \in TaskCalls(p) : Has(p, k, "global_sync")}
Idle         == nextUp = <<>>

Init ==
  /\ program \in Programs
  /\ status    = [t \in G.task |-> "incomplete"]
  /\ numCalls  = [t \in G.task |-> 0]
  /\ reduction = [k \in Syncs(program) |-> [active |-> FALSE, stat |-> "complete"]]
  /\ launched  = 0
  /\ queue     = <<>>
  /\ nextUp    = <<>>
  /\ returned  = {}
  /\ result    = "pending"
  /\ round     = [l \in ListIds(program) |-> 0]
  /\ done      = [t \in G.task |-> 0]

-----------------------------------------------------------------------------
(* TaskStatus as the integers MPI_MAX compares *)
Code(s) == CASE s = "complete" -> 0 [] s = "incomplete" -> 1
             [] s = "iterate"  -> 2 [] s = "fail" -> 3
MaxStatus(S) == CHOOSE s \in S : \A r \in S : Code(r) <= Code(s)

OnRoot(t) == MpiParallel /\ t.uid = 0
MyTask(t) == Task(t.uid, t.call, "user")

(* the statuses of my_task on all lists *)
LocalStat(t) == MaxStatus({status[d] : d \in G.dependencies[t]} \cup {"complete"})

(* the result of a once_per_region task, which is trivial on the lists with *)
(* unique_id # 0, and of any other user's task                              *)
UserReturns(t) ==
  IF Has(program, t.call, "once_per_region") /\ t.uid # 0 THEN {"complete"}
  ELSE program.calls[t.call].returns

(* mutant: the flag MPI_Test sets is ignored *)
TestReductionNever(t) ==
  IF reduction[t.call].active THEN {"incomplete"} ELSE {reduction[t.call].stat}

(* MPI_Test on the Iallreduce of a GlobalSync; the other ranks contribute o *)
TestReduction(t) ==
  IF reduction[t.call].active
  THEN {"incomplete"} \cup {MaxStatus({reduction[t.call].stat, o}) : o \in OtherStat}
  ELSE {reduction[t.call].stat}

(* What f() of task t may return.  A GlobalSync check tests the Iallreduce  *)
(* on list 0 and elsewhere reads the status of its own list's my_task.      *)
Returns(t) ==
  CASE t.part \in {"first", "last", "start"} -> {"complete"}
    [] t.part = "user"  -> UserReturns(t)
    [] t.part = "check" -> IF OnRoot(t) THEN TestReduction(t) ELSE {status[MyTask(t)]}

(* the effect of f() on the Iallreduce of a GlobalSync *)
Reduce(t, s) ==
  reduction' =
    IF t.part = "start" /\ OnRoot(t)
    THEN [reduction EXCEPT ![t.call] = [active |-> TRUE, stat |-> LocalStat(t)]]
    ELSE IF t.part = "check" /\ OnRoot(t) /\ s # "incomplete"
         THEN [reduction EXCEPT ![t.call] = [active |-> FALSE, stat |-> s]]
         ELSE reduction

(* Task::operator(): the iteration limits applied to the status s of f() *)
Counted(t, s) ==
  numCalls[t] + (IF Completion(program, t) /\ s \in {"complete", "iterate"} THEN 1 ELSE 0)

(* mutant: one iteration too many *)
EnforcedLate(t, s) ==
  LET limits == Limits(program, ListOf(program, t))
      n      == Counted(t, s)
  IN  IF ~Completion(program, t) THEN s
      ELSE IF n > limits[2] THEN "complete"
      ELSE IF n < limits[1] /\ s = "complete" THEN "iterate"
      ELSE s

Enforced(t, s) ==
  LET limits == Limits(program, ListOf(program, t))
      n      == Counted(t, s)
  IN  IF ~Completion(program, t) THEN s
      ELSE IF n = limits[2] THEN "complete"
      ELSE IF n < limits[1] /\ s = "complete" THEN "iterate"
      ELSE s

(* mutant: the reset is forgotten *)
ResetStatusNever(t) == status

(* first_task resets the status of every task of its own list *)
ResetStatus(t) ==
  IF t.part # "first" THEN status
  ELSE [u \in G.task |-> IF ListId(program, u) = ListId(program, t) THEN "incomplete"
                         ELSE status[u]]

(* last_task resets num_calls of the completion tasks of its list *)
ResetCalls(t) ==
  IF t.part # "last" THEN numCalls
  ELSE [u \in G.task |-> IF Completion(program, u) /\ ListId(program, u) = ListId(program, t)
                         THEN 0 ELSE numCalls[u]]

(* mutant: one dependency is enough *)
ReadyEarly(t) ==
  G.dependencies[t] = {} \/ \E d \in G.dependencies[t] : status[d] # "incomplete"

Ready(t) == \A d \in G.dependencies[t] : status[d] # "incomplete"

-----------------------------------------------------------------------------
(* Execute: enqueue the first_task of the next list *)
EnqueueStartup ==
  /\ launched < program.lists
  /\ queue' = Append(queue, FirstTask(launched, 0))
  /\ launched' = launched + 1
  /\ UNCHANGED <<program, status, numCalls, reduction, nextUp, returned, result, historyVars>>

NextUp(t, s) == G.dependent[t][s]

Finish(t, s) ==
  /\ status'   = [ResetStatus(t) EXCEPT ![t] = s]
  /\ numCalls' = [ResetCalls(t) EXCEPT ![t] = Counted(t, s)]
  /\ round'    = IF t.part = "first" THEN [round EXCEPT ![ListId(program, t)] = @ + 1] ELSE round
  /\ done'     = IF s \in {"complete", "iterate"} THEN [done EXCEPT ![t] = @ + 1] ELSE done

(* ProcessTask for the task at the head of the queue, up to the loop over next_up *)
Pop(t) ==
  /\ Idle
  /\ queue # <<>>
  /\ t = Head(queue)
  /\ queue' = Tail(queue)
  /\ UNCHANGED <<program, launched, result>>

RunTask(t, f) ==
  /\ Pop(t)
  /\ f \in Returns(t)
  /\ Enforced(t, f) # "fail"
  /\ Reduce(t, f)
  /\ Finish(t, Enforced(t, f))
  /\ nextUp'   = NextUp(t, Enforced(t, f))
  /\ returned' = returned \cup {Enforced(t, f)}

(* A task that fails: `dependent' has three elements, so GetDependent(fail) *)
(* reads past its end and takes the members after it for a vector.  With    *)
(* the standard libraries the project builds with its end lies before its   *)
(* beginning and the copy throws; the packaged_task keeps the exception.    *)
RunFailing(t) ==
  /\ Pop(t)
  /\ "fail" \in Returns(t)
  /\ Enforced(t, "fail") = "fail"
  /\ Reduce(t, "fail")
  /\ Finish(t, "fail")
  /\ nextUp'   = <<>>
  /\ returned' = returned \cup {"exception"}

(* a user's function that throws leaves its Task as it was *)
RunThrowing(t) ==
  /\ Pop(t)
  /\ "throw" \in Returns(t)
  /\ nextUp'   = <<>>
  /\ returned' = returned \cup {"exception"}
  /\ UNCHANGED <<status, numCalls, reduction, historyVars>>

(* ProcessTask: enqueue the next dependent if it is ready *)
EnqueueDependent ==
  /\ ~Idle
  /\ queue'  = IF Ready(Head(nextUp)) THEN Append(queue, Head(nextUp)) ELSE queue
  /\ nextUp' = Tail(nextUp)
  /\ UNCHANGED <<program, status, numCalls, reduction, launched, returned, result, historyVars>>

(* pool.wait() and check_task_returns(): the worker is idle, nothing queued *)
Return ==
  /\ result = "pending"
  /\ launched = program.lists
  /\ queue = <<>> /\ Idle
  /\ result' = IF "exception" \in returned THEN "exception"
               ELSE IF "fail" \in returned THEN "fail" ELSE "complete"
  /\ UNCHANGED <<program, status, numCalls, reduction, launched, queue, nextUp, returned,
                 historyVars>>

Worker ==
  \/ \E t \in ToSet(queue) :
       \/ \E f \in Status : RunTask(t, f)
       \/ RunFailing(t)
       \/ RunThrowing(t)
  \/ EnqueueDependent

Next == EnqueueStartup \/ Worker \/ Return

Spec == Init /\ [][Next]_vars

(* Both threads keep running, and while tasks are retried (they wait for a *)
(* message, or for the other ranks) one of them is eventually through.     *)
Progress == \E t \in ToSet(queue) : \E f \in Status \ {"incomplete"} : RunTask(t, f)

FairSpec ==
  /\ Spec
  /\ WF_vars(EnqueueStartup) /\ WF_vars(Worker) /\ WF_vars(Return)
  /\ SF_vars(Progress)

-----------------------------------------------------------------------------
TypeOK ==
  /\ program \in Programs
  /\ status \in [G.task -> Status]
  /\ numCalls \in [G.task -> Nat]
  /\ reduction \in [Syncs(program) -> [active : BOOLEAN, stat : Status]]
  /\ launched \in 0 .. program.lists
  /\ queue \in Seq(G.task)
  /\ nextUp \in Seq(G.task)
  /\ returned \subseteq Status \cup {"exception"}
  /\ result \in {"pending", "complete", "fail", "exception"}
  /\ round \in [ListIds(program) -> Nat]
  /\ done \in [G.task -> Nat]

(* the list in whose rounds the dependencies of t are counted *)
Waits(t) ==
  IF t.part = "first" /\ t.call # 0 THEN <<t.uid, program.calls[t.call].list>>
  ELSE ListId(program, t)

(* the list in whose rounds the executions of t are counted *)
Counts(t) ==
  IF t.part = "last" /\ t.call # 0 THEN <<t.uid, program.calls[t.call].list>>
  ELSE ListId(program, t)

(* What the documentation promises to wait for before task t runs: its own *)
(* dependencies and, of each one that is regional, its peers on all lists  *)
(* (tasks.rst: "tasks that depend on a local_sync marked task gain         *)
(* dependencies from the corresponding task on all lists").                *)
Promised(p, t) ==
  OwnDependencies(p, t)
    \cup UNION {Peers(p, d) : d \in {r \in OwnDependencies(p, t) : Regional(p, r)}}

(* A task is only queued when everything it was promised to wait for has   *)
(* completed in the current round of the task's list.                      *)
DependencyOrder ==
  \A n \in DOMAIN queue :
    \A d \in Promised(program, queue[n]) : done[d] >= round[Waits(queue[n])]

(* No task completes twice in one round of its list, and what depends on a *)
(* sublist sees it finish once for each round of the enclosing list.       *)
OncePerRound ==
  \A t \in G.task : t.part # "first" => done[t] <= round[Counts(t)]

(* Iterations never overlap: a list restarts only when none of its tasks is *)
(* still waiting to run, and a sublist iterates at least min and at most    *)
(* max times each time it runs.                                             *)
RoundsInOrder ==
  /\ \A n \in DOMAIN queue : queue[n].part = "first" =>
       \A m \in DOMAIN queue \ {n} : ListId(program, queue[m]) # ListId(program, queue[n])
  /\ \A i \in Uids(program) : \A s \in SubCalls(program) :
       /\ Limits(program, s)[1] * done[LastTask(i, s)] <= round[<<i, s>>]
       /\ round[<<i, s>>] <= Limits(program, s)[2] * round[<<i, program.calls[s].list>>]

(* tasks a completion task of their list cannot skip *)
Required(t) ==
  /\ t.part = "last" => t.call # 0
  /\ \A k \in TaskCalls(program) :
       program.calls[k].list = ListOf(program, t) => \A d \in program.calls[k].dep : ~Has(program, d, "completion")

(* When Execute reports success no task has been left out: each has        *)
(* completed in every round of its list.                                   *)
NothingLost ==
  result = "complete" =>
    \A t \in G.task : Required(t) => done[t] = round[Counts(t)] /\ round[<<t.uid, 0>>] = 1

(* Execute returns. *)
Termination == <>(result # "pending")
=============================================================================
