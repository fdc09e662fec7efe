--------------------------- MODULE MCTaskRegion ---------------------------
(* Instances of TaskRegion.  A program lists the calls a driver makes on     *)
(* each TaskList of the region.                                              *)
EXTENDS FlatRegion, SolverTasks

Ok    == Once
Slow  == Retry
Loop  == {"complete", "iterate"}

Region(n, calls) == [lists |-> n, calls |-> calls]
Qualifiers == SUBSET {"local_sync", "once_per_region", "global_sync"}

(* Solve(n, limits, body): the shape of every solver in src/solvers, a task, *)
(* a sublist that iterates over the body, and a task after it.               *)
Solve(n, limits, body) ==
  Region(n, <<AddTask(0, {}, {}, Ok), AddSublist(0, {1}, limits)>>
              \o body \o <<AddTask(0, {}, {2}, Ok)>>)

(* a loop of two concurrent tasks and the completion task that waits for them *)
PlainLoops ==
  {Solve(n, limits, <<AddTask(2, {}, {}, Slow), AddTask(2, {}, {}, Slow),
                      AddTask(2, {"completion"}, {3, 4}, Loop)>>) :
      n \in {1, 2}, limits \in {<<1, 2>>, <<2, 3>>}}

(* every combination of qualifiers on the body and the completion of a loop, *)
(* in a region of one list                                                   *)
QualifiedLoops ==
  {Solve(1, <<1, 2>>, <<AddTask(2, q1, {}, Slow), AddTask(2, q2 \cup {"completion"}, {3}, Loop)>>) :
      q1 \in Qualifiers, q2 \in Qualifiers}

(* a loop in a loop *)
NestedLoops ==
  {Solve(1, <<1, 2>>, <<AddTask(2, {}, {}, Ok), AddSublist(2, {3}, <<1, 2>>),
                        AddTask(4, {}, {}, Slow), AddTask(4, {"completion"}, {5}, Loop),
                        AddTask(2, {}, {4}, Ok), AddTask(2, {"completion"}, {7}, Loop)>>)}

(* a task that fails or throws *)
FailingPrograms ==
  {Region(n, <<AddTask(0, {}, {}, {"complete", s}), AddTask(0, {}, {1}, Ok)>>) :
      n \in {1, 2}, s \in {"fail", "throw"}}

(* Every region of two lists with two tasks that may have to be retried, in  *)
(* every combination of qualifiers; three lists; a join of two tasks, one of *)
(* which may throw.                                                          *)
SmallPrograms ==
  {Region(2, <<AddTask(0, q1, {}, Slow), AddTask(0, q2, d, Slow)>>) :
      q1 \in Qualifiers, q2 \in Qualifiers, d \in SUBSET {1}}
    \cup
  {Region(3, <<AddTask(0, {q}, {}, Slow), AddTask(0, {}, {1}, {"complete"})>>) :
      q \in {"local_sync", "global_sync"}}
    \cup
  {Region(2, <<AddTask(0, {}, {}, {"complete", s}), AddTask(0, q, {}, {"complete"}),
               AddTask(0, {}, {1, 2}, {"complete"})>>) :
      q \in Qualifiers, s \in {"incomplete", "throw"}}

(* the regions of the drivers with explicit time integration, for one stage, *)
(* and for the first and the last of two, on two partitions                  *)
EachStage(driver(_, _)) ==
  UNION {driver(s[1], s[2]) : s \in {<<1, 1>>, <<1, 2>>, <<2, 2>>}}

DriverPrograms ==
  {Program(2, items) : items \in
     EachStage(Advection) \cup EachStage(SparseAdvection) \cup EachStage(StochasticSubgrid)
       \cup EachStage(FineAdvection) \cup EachStage(Burgers) \cup EachStage(ParticleTracers)
       \cup ParticleLeapfrog \cup Particles \cup CalculatePi \cup BoundaryExchangeExample}

(* Those that do not rely on the FIFO order of the pool.  The others start   *)
(* receives in the region that completes them, and the receiving tasks do    *)
(* not wait for that.                                                        *)
MCOrderedPrograms ==
  {Program(2, items) : items \in
     EachStage(Advection) \cup EachStage(FineAdvection) \cup EachStage(ParticleTracers)
       \cup ParticleLeapfrog \cup Particles \cup CalculatePi \cup BoundaryExchangeExample}

(* poisson and poisson_gmg with each of the solvers, on one partition *)
WithMG(fas) == PoissonGMG(MGTasks("solve", SetupDone, 1, fas))
WithBiCGSTAB(mg, relative) == PoissonGMG(BiCGSTABTasks("solve", SetupDone, mg, relative))

SolverPrograms ==
  {Program(1, Poisson), Program(1, WithMG(TRUE)), Program(1, WithMG(FALSE)),
   Program(1, WithoutMPI(WithBiCGSTAB(TRUE, FALSE))), Program(1, WithoutMPI(WithBiCGSTAB(FALSE, TRUE)))}

MCFlatPrograms == SmallPrograms \cup DriverPrograms

MCPrograms ==
  MCFlatPrograms \cup PlainLoops \cup QualifiedLoops \cup NestedLoops \cup FailingPrograms
    \cup SolverPrograms

(* BiCGSTAB on one partition, with MPI *)
ResidualPrograms == {Program(1, WithBiCGSTAB(FALSE, TRUE))}

(* a local_sync at the head of a loop, as in bicgstab_solver.hpp, and a slow body *)
SyncLoopPrograms ==
  {Solve(2, <<1, 2>>, <<AddTask(2, {"local_sync"}, {}, Ok), AddTask(2, {}, {3}, Slow),
                        AddTask(2, {"completion"}, {4}, {"iterate"})>>)}
=============================================================================
