----------------------------- MODULE FlatRegion -----------------------------
(***************************************************************************)
(* Regions without sublists and completion tasks: the task lists of the    *)
(* hydro-like drivers (advection, sparse advection, particles), in which   *)
(* every task runs once, and those of them whose data the graph keeps in   *)
(* order.  TLC evaluates the assumptions for the programs it is given;     *)
(* TaskRegionProofs proves TaskRegion correct from them.                   *)
(***************************************************************************)
EXTENDS DriverTasks

CONSTANTS
  FlatPrograms,    \* those of the regions that are flat
  OrderedPrograms  \* those of them whose data the graph alone keeps in order

Flat(p) ==
  /\ p.lists \in Nat
  /\ Calls(p) \subseteq Nat
  /\ SubCalls(p) = {}
  /\ \A k \in TaskCalls(p) :
        /\ p.calls[k].list = 0
        /\ "completion" \notin p.calls[k].tq
        /\ p.calls[k].returns \subseteq {"complete", "incomplete", "throw"}

(* the place of a task in the order in which the lists are built *)
Depth(t) == 3 * t.call + (CASE t.part = "start" -> 1 [] t.part = "check" -> 2 [] OTHER -> 0)

(* Every edge is stored once, at both of its ends; what was promised to be *)
(* waited for is waited for, and was built before; nothing leads to the    *)
(* first_tasks, and without a completion task nothing leads to the         *)
(* last_tasks, nor waits for one.                                          *)
WellBuilt(p) ==
  \A t \in Tasks(p) :
    LET next == Graph[p].dependent[t]
        deps == Graph[p].dependencies[t]
    IN  /\ next["incomplete"] = <<t>>
        /\ next["complete"] \in Seq(Tasks(p))
        /\ \A m, n \in DOMAIN next["complete"] :
              /\ t \in Graph[p].dependencies[next["complete"][m]]
              /\ next["complete"][m] = next["complete"][n] => m = n
        /\ deps \subseteq Tasks(p)
        /\ \A d \in deps :
              /\ d.part # "last" /\ Depth(d) < Depth(t)
              /\ t \in ToSet(Graph[p].dependent[d]["complete"])
        /\ Promised(p, t) \subseteq deps
        /\ t.part \in {"first", "last"} => deps = {}

ASSUME FlatAssumption ==
  /\ FlatPrograms \subseteq Programs
  /\ \A p \in FlatPrograms : Flat(p) /\ WellBuilt(p)

(* What each task waits for, directly or through others: each round takes   *)
(* paths of twice the length, and Rounds of them those of all programs here. *)
Rounds == 7

Upstream(p) ==
  FoldLeft(LAMBDA before, n :
             Table([t \in Tasks(p) |-> before[t] \cup UNION {before[s] : s \in before[t]}]),
           Graph[p].dependencies, [n \in 1 .. Rounds |-> n])

WaitsFor(p, before) ==
  \A t \in Tasks(p) : \A s \in before[t] :
    \E d \in Graph[p].dependencies[t] : s = d \/ s \in before[d]

(* Of two tasks that touch the same data, the one added later waits for the *)
(* other: the region does not rely on the order in which the pool takes     *)
(* tasks that are ready.                                                    *)
OrderedByGraph(p) ==
  \E before \in {Upstream(p)} :
    /\ WaitsFor(p, before)
    /\ \A t \in Tasks(p) : \A s \in Conflicts(p, t) : s.call < t.call => s \in before[t]

ASSUME OrderedAssumption ==
  /\ OrderedPrograms \subseteq FlatPrograms
  /\ \A p \in OrderedPrograms : HasData(p) /\ OrderedByGraph(p)

(* TaskRegion's specification for a region that is flat *)
FlatSpec == Init /\ program \in FlatPrograms /\ [][Next]_vars

ASSUME OtherStatAssumption == OtherStat \subseteq {"complete", "incomplete"}
=============================================================================
