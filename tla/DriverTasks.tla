---------------------------- MODULE DriverTasks ----------------------------
(***************************************************************************)
(* The task lists that drivers and solvers fill, as programs of TaskRegion *)
(* with the data each task touches.  A list is a sequence of items in the  *)
(* order of the AddTask calls; an item's TaskID has the name of the C++    *)
(* variable it is assigned to, and a dependency is a set of such names:    *)
(* {"a", "b"} for a | b, {} for none.  As in C++, a name stands for the    *)
(* value it was last given, and one never given a value for TaskID().      *)
(*                                                                         *)
(* Data is a field of a MeshData, its interior and its ghost zones apart,  *)
(* or something all lists share, such as the value of a reduction.         *)
(***************************************************************************)
EXTENDS TaskRegion

Interior(fields) == fields \X {"interior"}
Ghost(fields)    == fields \X {"ghost"}
Whole(fields)    == Interior(fields) \cup Ghost(fields)
Shared(values)   == values \X {"shared"}

Once  == {"complete"}
Retry == {"complete", "incomplete"}

(* auto name = tl.AddTask(dep, ...), which reads and writes that data *)
Do(name, dep, reads, writes) ==
  [op |-> "task", name |-> name, list |-> "", dep |-> dep, tq |-> {}, returns |-> Once,
   limits |-> <<1, 1>>, reads |-> reads, writes |-> writes, adds |-> {}]

(* auto [list, name] = tl.AddSublist(dep, limits) *)
Sub(name, dep, limits) == [Do(name, dep, {}, {}) EXCEPT !.op = "sublist", !.limits = limits]

Marked(tq, item)        == [item EXCEPT !.tq = tq]
Returning(states, item) == [item EXCEPT !.returns = states]
Adding(data, item)      == [item EXCEPT !.adds = data]

(* the items are added to the list of sublist name *)
In(name, items) == [k \in DOMAIN items |-> [items[k] EXCEPT !.list = name]]

(* the item that last gave name its value before item k, if there is one *)
Given(items, k, name) ==
  LET before == {j \in 1 .. k - 1 : items[j].name = name}
  IN  {j \in before : \A i \in before : i <= j}

Program(n, items) ==
  [lists |-> n,
   calls |-> [k \in DOMAIN items |->
     [items[k] EXCEPT
        !.dep  = UNION {Given(items, k, name) : name \in @},
        !.list = IF @ = "" THEN 0 ELSE CHOOSE j \in Given(items, k, @) : TRUE]]]

-----------------------------------------------------------------------------
(* A task of once_per_region touches data on the first list only, and the  *)
(* lists have fields of their own; additions to a value commute.           *)
Active(p, k, i) == i = 0 \/ "once_per_region" \notin p.calls[k].tq

Touch(p, a, i, b, j) ==
  LET x    == p.calls[a]
      y    == p.calls[b]
      both == (x.writes \cap (y.reads \cup y.writes \cup y.adds))
                \cup (y.writes \cap (x.reads \cup x.writes \cup x.adds))
                \cup (x.adds \cap y.reads) \cup (x.reads \cap y.adds)
  IN  \E d \in both : i = j \/ d[2] = "shared"

HasData(p) == \A k \in Calls(p) : "adds" \in DOMAIN p.calls[k]

(* the tasks that touch the same data as t *)
Conflicts(p, t) ==
  IF ~(t.part = "user" /\ Active(p, t.call, t.uid)) THEN {}
  ELSE {s \in [uid : Uids(p), call : TaskCalls(p) \ {t.call}, part : {"user"}] :
          Active(p, s.call, s.uid) /\ Touch(p, s.call, s.uid, t.call, t.uid)}

ConflictsOf == [p \in {q \in Programs : HasData(q)} |-> Table([t \in Tasks(p) |-> Conflicts(p, t)])]

(* s has run for the last time before t runs again *)
RunsFirst(s, t) ==
  LET outer == ListOf(program, s)
      inner == ListOf(program, t)
  IN  IF outer = inner THEN done[s] = done[t] + 1
      ELSE IF outer = 0 THEN done[s] = 1
      ELSE done[LastTask(s.uid, outer)] = 1

(* The tasks of a list that touch the same data do so in the order in which *)
(* the driver adds them, and those of all lists that touch a reduction or   *)
(* another shared value do, too: the result is that of the list read from   *)
(* top to bottom, in every round of a sublist, however long the messages    *)
(* and the reductions take.  (Where the graph has no path between two tasks *)
(* the pool's FIFO order has to be enough.)                                 *)
DataInOrder ==
  program \in DOMAIN ConflictsOf /\ Idle /\ queue # <<>> =>
    LET t == Head(queue)
    IN  \A s \in ConflictsOf[program][t] :
          IF s.call < t.call THEN RunsFirst(s, t)
          ELSE done[s] = IF ListOf(program, s) = ListOf(program, t) THEN done[t] ELSE 0

-----------------------------------------------------------------------------
(***************************************************************************)
(* The task lists of the example drivers and of the Burgers benchmark, on  *)
(* a mesh with refinement.  stage is the current one of nstages: the first *)
(* stage starts from the container "base" and the last one writes to it.   *)
(* Send tasks are not retried here: BoundaryExchange shows that what comes *)
(* after an exchange does not overtake them.                               *)
(***************************************************************************)
Buffers(fields) == fields \X {"buffers"}

(* faces whose fluxes are sent to a coarser, or set from a finer neighbour *)
SentFaces(fluxes) == fluxes \X {"sent faces"}
SetFaces(fluxes)  == fluxes \X {"set faces"}
Faces(fluxes)     == SentFaces(fluxes) \cup SetFaces(fluxes)

SetBoundsTask(name, recv, fields) ==
  Do(name, {recv}, Buffers(fields), Buffers(fields) \cup Ghost(fields))

StartReceive(name, fields) == Do(name, {}, {}, Buffers(fields))
Receive(name, dep, fields) == Returning(Retry, Do(name, dep, {}, Buffers(fields)))

AddBoundaryExchangeTasks(name, dep, fields) ==
  <<Do(name \o " send", dep, Interior(fields), {}),
    Receive(name \o " recv", dep, fields),
    SetBoundsTask(name \o " set", name \o " recv", fields),
    Do(name \o " cbound", {name \o " set"}, Interior(fields), Ghost(fields)),
    Do(name \o " pro", {name \o " cbound"}, Interior(fields), Ghost(fields)),
    Do(name, {name \o " pro"}, Interior(fields), Ghost(fields))>>

AddFluxCorrectionTasks(name, dep, fluxes) ==
  <<Do(name \o " send", dep, SentFaces(fluxes), {}),
    Receive(name \o " recv", dep, fluxes),
    Do(name, {name \o " recv"}, Buffers(fluxes), Buffers(fluxes) \cup SetFaces(fluxes))>>

-----------------------------------------------------------------------------
(* the containers of a stage: stage_name[stage - 1] and stage_name[stage] *)
Container(stage, nstages) == IF stage \in {0, nstages} THEN "base" ELSE "stage"

(* dU/dt from the fluxes, and the state of the stage from it *)
Update(dep, c0, c1) ==
  <<Do("flux_div", dep, Faces({"flux"}), Interior({"dUdt"})),
    Do("avg_data", {"flux_div"}, Whole({c0, "base"}), Whole({c0})),
    Do("update", {"avg_data"}, Whole({c0, "dUdt"}), Whole({c1}))>>

(* what is left to do for every block at the end of a stage *)
EndOfStage(stage, nstages, c1) ==
  <<Do("set_bc", {}, Interior({c1}), Ghost({c1})),
    Do("fill_derived", {"set_bc"}, Whole({c1}), Whole({"derived"}))>>
  \o IF stage < nstages THEN <<>>
     ELSE <<Do("new_dt", {"fill_derived"}, Whole({c1, "derived"}), Interior({"dt"})),
            Do("tag_refine", {"fill_derived"}, Whole({c1, "derived"}), Interior({"tag"}))>>

CalculateFluxes(dep, c0) == Do("flx", dep, Whole({c0}), Faces({"flux"}))

(* example/advection: flux correction and exchange per partition *)
Advection(stage, nstages) ==
  LET c0 == Container(stage - 1, nstages)
      c1 == Container(stage, nstages)
  IN  {<<StartReceive("start", {c1}), StartReceive("start_flx", {"flux"})>>,
       <<CalculateFluxes({}, c0)>>,
       AddFluxCorrectionTasks("set_flx", {}, {"flux"}) \o Update({"set_flx"}, c0, c1)
         \o AddBoundaryExchangeTasks("bounds", {"update"}, {c1}),
       EndOfStage(stage, nstages, c1)}

(* example/sparse_advection: receives are started in the same region *)
SparseAdvection(stage, nstages) ==
  LET c0 == Container(stage - 1, nstages)
      c1 == Container(stage, nstages)
  IN  {<<CalculateFluxes({}, c0)>>,
       <<StartReceive("start_flxcor", {"flux"}), StartReceive("start_bound", {c1})>>
         \o AddFluxCorrectionTasks("set_flxcor", {"start_flxcor"}, {"flux"})
         \o Update({"set_flxcor"}, c0, c1)
         \o AddBoundaryExchangeTasks("boundary", {"update"}, {c1})
         \o IF stage < nstages THEN <<>>
            ELSE <<Do("dealloc", {"boundary"}, Whole({c1}), Whole({c1}))>>,
       <<Do("set_bc", {}, Interior({c1}), Ghost({c1}))>>
         \o IF stage < nstages THEN <<>>
            ELSE <<Do("new_dt", {"set_bc"}, Whole({c1}), Interior({"dt"})),
                   Do("tag_refine", {"set_bc"}, Whole({c1}), Interior({"tag"}))>>}

(* example/stochastic_subgrid, and the field update of particle_tracers: *)
(* receives are started first, but nothing waits for that                *)
StochasticSubgrid(stage, nstages) ==
  LET c0 == Container(stage - 1, nstages)
      c1 == Container(stage, nstages)
  IN  {<<Do("num_iter", {}, {}, Interior({"num_iter"}))>>,
       <<CalculateFluxes({}, c0)>>,
       <<StartReceive("start", {c1}), StartReceive("start_flx", {"flux"})>>
         \o AddFluxCorrectionTasks("set_flx", {}, {"flux"}) \o Update({"set_flx"}, c0, c1)
         \o AddBoundaryExchangeTasks("bounds", {"update"}, {c1}),
       EndOfStage(stage, nstages, c1)}

(* example/fine_advection on a mesh of one dimension: fields on cells, on  *)
(* fine cells, and a vector on faces, one region for everything            *)
UpdateTasks(name, dep, field, c0, c1) ==
  LET of(c) == c \o "." \o field
  IN  <<Do(name \o " div", dep, Faces({"flux." \o field}), Whole({of("dUdt")})),
        Do(name \o " avg", {name \o " div"}, Whole({of(c0), of("base")}), Whole({of(c0)})),
        Do(name, {name \o " avg"}, Whole({of(c0), of("dUdt")}), Whole({of(c1)}))>>

FluxTask(name, dep, field, c0) ==
  Do(name, dep, Whole({c0 \o "." \o field}), Faces({"flux." \o field}))

FineAdvection(stage, nstages) ==
  LET c0 == Container(stage - 1, nstages)
      c1 == Container(stage, nstages)
      fields   == {"phi", "fine", "vec"}
      fluxes   == {"flux." \o f : f \in fields}
      all      == {c1 \o "." \o f : f \in fields}
      deps     == {"start_flxcor", "flx", "flx_fine", "vec6"}
  IN  {<<StartReceive("start_send", all), StartReceive("start_flxcor", fluxes),
         FluxTask("flx", {}, "phi", c0), FluxTask("flx_fine", {}, "fine", c0)>>
         \o [n \in 1 .. 6 |-> FluxTask("vec" \o ToString(n),
                                       IF n = 1 THEN {} ELSE {"vec" \o ToString(n - 1)}, "vec", c0)]
         \o AddFluxCorrectionTasks("set_flx", deps, fluxes)
         \o UpdateTasks("update", {"set_flx"}, "phi", c0, c1)
         \o UpdateTasks("update_fine", {"set_flx"}, "fine", c0, c1)
         \o UpdateTasks("update_vec", {"set_flx"}, "vec", c0, c1)
         \o AddBoundaryExchangeTasks("boundaries",
              {"update", "update_vec", "update_fine", "start_send"}, all)
         \o <<Do("fill_derived", {"boundaries"}, Whole(all), Whole({"derived"}))>>
         \o IF stage < nstages THEN <<>>
            ELSE <<Do("new_dt", {"fill_derived"}, Whole(all \cup {"derived"}), Interior({"dt"})),
                   Do("tag_refine", {"new_dt"}, Whole(all \cup {"derived"}), Interior({"tag"}))>>}

(* benchmarks/burgers: fluxes in the same list, and local and nonlocal     *)
(* boundaries apart; the derived fields are those of the interior          *)
Burgers(stage, nstages) ==
  LET c0 == Container(stage - 1, nstages)
      c1 == Container(stage, nstages)
      local    == c1 \o ".local"
      nonlocal == c1 \o ".nonlocal"
  IN  {<<StartReceive("start_bnd", {local, nonlocal}), StartReceive("start_flx_recv", {"flux"}),
         CalculateFluxes({}, c0),
         Do("send_flx", {"flx"}, SentFaces({"flux"}), {}),
         Receive("recv_flx", {"start_flx_recv"}, {"flux"}),
         Do("set_flx", {"recv_flx"}, Buffers({"flux"}), Buffers({"flux"}) \cup SetFaces({"flux"}))>>
         \o Update({"set_flx"}, c0, c1)
         \o <<Do("send", {"update"}, Interior({c1}), {}), Do("send_local", {"update"}, Interior({c1}), {}),
              Receive("recv_local", {"update"}, {local}),
              Do("set_local", {"recv_local"}, Buffers({local}), Buffers({local}) \cup Ghost({local})),
              Receive("recv", {"start_bnd", "update"}, {nonlocal}),
              Do("set", {"recv"}, Buffers({nonlocal}), Buffers({nonlocal}) \cup Ghost({nonlocal})),
              Do("fill_deriv", {"update"}, Interior({c1}), Interior({"derived"}))>>
         \o IF stage < nstages THEN <<>>
            ELSE <<Do("new_dt", {"update"}, Interior({c1}), Interior({"dt"}))>>,
       <<Do("set_bc", {}, Interior({c1}), Ghost({c1}))>>
         \o IF stage < nstages THEN <<>>
            ELSE <<Do("tag_refine", {"set_bc"}, Whole({c1}), Interior({"tag"}))>>}
-----------------------------------------------------------------------------
(* The particle drivers.  SwarmContainer::Receive is retried until the     *)
(* particles of all neighbours have come.                                  *)
Swarm == Interior({"swarm"})

SendReceive(dep) ==
  <<Do("send", dep, Swarm, Swarm \cup Buffers({"swarm"})),
    Returning(Retry, Do("receive", {"send"}, Swarm \cup Buffers({"swarm"}), Swarm))>>

ResetCommunication(blocks) ==
  [n \in 1 .. blocks |-> Do("reset_comms", {}, {}, {<<"swarm", n>>})]

ParticleTracers(stage, nstages) ==
  LET c1 == Container(stage, nstages)
  IN  {<<Do("set_bc", {}, Interior({c1}), Ghost({c1}))>>
         \o IF stage < nstages THEN <<>>
            ELSE <<Do("new_dt", {"set_bc"}, Whole({c1}), Interior({"dt"}))>>,
       ResetCommunication(2),
       <<Do("tracerAdvect", {}, Swarm, Swarm)>>
         \o SendReceive({"tracerAdvect"})
         \o <<Do("deposit", {"receive"}, Swarm, Interior({"deposition"})),
              Do("defrag", {"deposit"}, Swarm, Swarm)>>}

ParticleLeapfrog ==
  {ResetCommunication(2),
   <<Do("transport", {}, Swarm, Swarm)>>,
   SendReceive({}),
   <<Do("defrag", {}, Swarm, Swarm), Do("new_dt", {"defrag"}, Swarm, Interior({"dt"}))>>}

Particles ==
  {<<Do("create_some_particles", {}, {}, Swarm)>>,
   <<Do("transport_particles", {}, Swarm, Swarm)>> \o SendReceive({"transport_particles"}),
   <<Do("stop_comm", {}, Swarm, Swarm \cup Buffers({"swarm"}))>>,
   <<Do("destroy_some_particles", {}, Swarm, Swarm),
     Do("sort_particles", {"destroy_some_particles"}, Swarm, Swarm),
     Do("deposit_particles", {"sort_particles"}, Swarm, Interior({"deposition"})),
     Do("defrag", {"deposit_particles"}, Swarm, Swarm),
     Do("new_dt", {"defrag"}, Swarm, Interior({"dt"}))>>}

(* example/calculate_pi: a partition stores its area in an element of its own *)
CalculatePi ==
  {<<Do("get_area", {}, {}, Interior({"areas"}))>>,
   <<Do("accumulate_areas", {}, Interior({"areas"}), Shared({"pi_val"}))>>}

(* example/boundary_exchange *)
BoundaryExchangeExample ==
  {<<Do("fill", {}, {}, Whole({"base"}))>> \o AddBoundaryExchangeTasks("bound", {"fill"}, {"base"})}
=============================================================================
