----------------------------- MODULE TaskGraph -----------------------------
(***************************************************************************)
(* The graph a TaskRegion builds (src/tasks/tasks.hpp).                    *)
(*                                                                         *)
(* A region is described by a program: the number of its TaskLists and the *)
(* sequence of AddTask and AddSublist calls the driver makes on each of    *)
(* them.  Drivers build every list of a region with the same loop body, so *)
(* the calls are the same for all lists and only the unique_id differs.    *)
(*                                                                         *)
(* The operators below give, for a finished program, the two edge sets of  *)
(* every Task: `dependencies' (a set) and `dependent' (one vector for each *)
(* TaskStatus; its order is the order in which tasks get enqueued).        *)
(***************************************************************************)
EXTENDS Naturals, Sequences, FiniteSets, SequencesExt

CONSTANT MpiParallel   \* the build option MPI_PARALLEL

ASSUME MpiParallelAssumption == MpiParallel \in BOOLEAN

(***************************************************************************)
(* Programs.  calls[k] is one call; dep holds the indices of the calls     *)
(* whose TaskIDs were combined with `|' ({} is TaskID()), list is the      *)
(* index of the AddSublist call that made the list it is called on (0 for  *)
(* the TaskLists of the region), tq the TaskQualifiers and returns what    *)
(* the user's function may return.                                         *)
(***************************************************************************)
Status == {"complete", "incomplete", "iterate", "fail"}

AddTask(list, tq, dep, returns) ==
  [op |-> "task", list |-> list, tq |-> tq, dep |-> dep, returns |-> returns]

AddSublist(list, dep, limits) ==
  [op |-> "sublist", list |-> list, dep |-> dep, limits |-> limits, tq |-> {}]

Uids(p)      == 0 .. p.lists - 1
Calls(p)     == DOMAIN p.calls
TaskCalls(p) == {k \in Calls(p) : p.calls[k].op = "task"}
SubCalls(p)  == Calls(p) \ TaskCalls(p)
Has(p, k, q) == q \in p.calls[k].tq

(* exec_limits of a list: {1,1} for the lists of the region *)
Limits(p, s) == IF s = 0 THEN <<1, 1>> ELSE p.calls[s].limits

(***************************************************************************)
(* Tasks.  Every list has a first_task and a last_task; every AddTask call *)
(* adds the user's task and, for global_sync, a start and a check task.    *)
(***************************************************************************)
Task(i, k, part) == [uid |-> i, call |-> k, part |-> part]
FirstTask(i, s) == Task(i, s, "first")
LastTask(i, s)  == Task(i, s, "last")

Tasks(p) ==
  [uid : Uids(p), call : SubCalls(p) \cup {0}, part : {"first", "last"}]
    \cup [uid : Uids(p), call : TaskCalls(p), part : {"user"}]
    \cup [uid : Uids(p), call : {k \in TaskCalls(p) : Has(p, k, "global_sync")},
          part : {"start", "check"}]

(* the list, within the TaskList with the same uid, that holds task t *)
ListOf(p, t) ==
  IF t.part \in {"first", "last"} THEN t.call ELSE p.calls[t.call].list

(* the TaskID returned by call k on list i *)
Id(p, i, k) ==
  IF p.calls[k].op = "sublist" THEN LastTask(i, k)
  ELSE Task(i, k, IF Has(p, k, "global_sync") THEN "check" ELSE "user")

(* the task to which call k gives its dependencies *)
New(p, i, k) ==
  IF p.calls[k].op = "sublist" THEN FirstTask(i, k) ELSE Task(i, k, "user")

(* tasks of TaskType::completion *)
Completion(p, t) ==
  /\ t.part \in {"user", "check"}
  /\ Has(p, t.call, "completion")
  /\ t = Id(p, t.uid, t.call)

(* completion_tasks.back() of list s *)
LastCompletion(p, t) ==
  /\ Completion(p, t)
  /\ \A k \in TaskCalls(p) :
        p.calls[k].list = ListOf(p, t) /\ Has(p, k, "completion") => k <= t.call

(* members of regional_tasks *)
Regional(p, t) ==
  \/ t.part = "check"
  \/ /\ t.part = "user"
     /\ p.calls[t.call].tq \cap {"local_sync", "global_sync", "once_per_region"} # {}

-----------------------------------------------------------------------------
(* Edges made by the calls themselves, before BuildGraph. *)

(* a user task without dependencies depends on its list's first_task *)
OwnDependencies(p, t) ==
  CASE t.part = "first" -> IF t.call = 0 THEN {}
                           ELSE {Id(p, t.uid, d) : d \in p.calls[t.call].dep}
    [] t.part = "last"  -> {}
    [] t.part = "user"  -> IF p.calls[t.call].dep = {}
                           THEN {FirstTask(t.uid, p.calls[t.call].list)}
                           ELSE {Id(p, t.uid, d) : d \in p.calls[t.call].dep}
    [] t.part = "start" -> {Task(t.uid, t.call, "user")}
    [] t.part = "check" -> {Task(t.uid, t.call, "start")}

When(cond, t) == IF cond THEN <<t>> ELSE <<>>

(* GlobalSync: my_task points at start for complete and iterate, start at  *)
(* check for complete                                                      *)
SyncEdge(p, d, s) ==
  When(d.part = "user" /\ Has(p, d.call, "global_sync") /\ s \in {"complete", "iterate"},
       Task(d.uid, d.call, "start"))
    \o When(d.part = "start" /\ s = "complete", Task(d.uid, d.call, "check"))

CompletionEdge(p, d, s) ==
  When(Completion(p, d) /\ s = "complete", LastTask(d.uid, ListOf(p, d)))

(* the edges from d to the tasks of later calls that depend on it: for the *)
(* status iterate if d is a completion task, for complete otherwise; the    *)
(* TaskList constructor always uses complete                                *)
CallEdges(p, d, s) ==
  LET follows(m) ==
        /\ d \in OwnDependencies(p, New(p, d.uid, m))
        /\ s = IF Completion(p, d) /\ p.calls[m].op = "task" THEN "iterate" ELSE "complete"
      later == SelectSeq([m \in Calls(p) |-> m], follows)
  IN  [n \in DOMAIN later |-> New(p, d.uid, later[n])]

OwnDependent(p, d, s) ==
  When(s = "incomplete", d) \o SyncEdge(p, d, s) \o CompletionEdge(p, d, s) \o CallEdges(p, d, s)

-----------------------------------------------------------------------------
(* BuildGraph *)

OnList(t, j) == [t EXCEPT !.uid = j]
Peers(p, r)  == {OnList(r, j) : j \in Uids(p) \ {r.uid}}

(* AddRegionalDependencies: what depends, for status complete, on a        *)
(* regional task comes to depend on the same task of every other list      *)
Dependencies(p, t) ==
  OwnDependencies(p, t)
    \cup UNION {Peers(p, r) : r \in {q \in Tasks(p) :
                  /\ q.uid = t.uid
                  /\ Regional(p, q)
                  /\ t \in ToSet(OwnDependent(p, q, "complete"))}}

RegionalEdges(p, d, s) ==
  IF s = "complete" /\ Regional(p, d)
  THEN FlattenSeq([n \in 1 .. p.lists |->
         IF n - 1 = d.uid THEN <<>> ELSE OwnDependent(p, OnList(d, n - 1), s)])
  ELSE <<>>

(* mutant: nothing returns to first_task *)
IterationEdgeMissing(p, d, s) == <<>>

(* ConnectIteration *)
IterationEdge(p, d, s) ==
  When(s = "iterate" /\ LastCompletion(p, d), FirstTask(d.uid, ListOf(p, d)))

Dependent(p, d, s) ==
  OwnDependent(p, d, s) \o RegionalEdges(p, d, s) \o IterationEdge(p, d, s)

(* f: comparing it makes TLC evaluate it once, and not at every application *)
Table(f) == CHOOSE g \in {f} : g = f

BuildGraph(p) ==
  [task         |-> Tasks(p),
   dependencies |-> Table([t \in Tasks(p) |-> Dependencies(p, t)]),
   dependent    |-> Table([t \in Tasks(p) |->
                       Table([s \in {"complete", "incomplete", "iterate"} |-> Dependent(p, t, s)])])]
=============================================================================
