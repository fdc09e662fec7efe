# A formal model of Parthenon

Parthenon is a C++ framework for block-structured adaptive mesh refinement.  An application
hands it packages and tasks; Parthenon runs the tasks on every MPI rank, exchanges the ghost
zones of the mesh blocks, moves particles, adapts the mesh, balances the load and writes and
reads restart files.  This directory holds TLA+ modules for those parts, TLC configurations
that check them on small instances, and TLAPS proofs.

Paths below are relative to `src/` of the repository (`tasks.hpp` is `src/tasks/tasks.hpp`);
`PROJECT.json` maps every definition to the lines it translates.

## 1. Inventory

For each part: what it keeps, what it does, what is hard about it, when it is correct.

**Task engine** (`tasks/tasks.hpp`). A `TaskRegion` holds `TaskList`s of `Task`s with status,
call counter, dependencies and, for each status, the tasks to look at next; sublists iterate.
`AddTask` with `local_sync`, `global_sync`, `once_per_region`, `completion`; `AddSublist`;
`BuildGraph`; `Execute`. *Hard:* retries interleave with other lists, loops of several lists
synchronise in every iteration, reductions are in flight. *Correct when* no task runs before
what it waits for, none runs twice in a round or is forgotten, rounds keep apart, `Execute`
returns.

**Thread pool** (`tasks/thread_pool.hpp`). A queue under a mutex, two condition variables,
workers. *Hard:* lost and spurious wake-ups, functions that enqueue others while the host waits.
*Correct when* everything enqueued runs once, `wait` returns exactly when nothing is queued or
running, the destructor joins.

**Task lists of drivers and solvers** (`example/`, `benchmarks/burgers`, `solvers/`,
`utils/reductions.hpp`). They say which task depends on which; what they do not say is left to
the queue's order. *Correct when* tasks that touch the same data, or the same reduction, run in
the order the driver wrote.

**Boundary communication** (`bvals/comms/`, `utils/communication_buffer.hpp`,
`utils/object_pool.hpp`). A buffer for each ordered pair of neighbouring blocks, shared or sent
with MPI, storage from reference-counted pools, cached descriptions of what to copy. *Hard:*
nothing waits for the send task; sparse variables may be null, allocated on arrival or
deallocated in between; caches hold views of storage. *Correct when* every exchange fills the
ghost zones with the data of that same exchange and no rank waits for ever.

**Ghost zones and ownership** (`bvals/comms/bnd_info.cpp`, `mesh/domain.hpp`,
`mesh/forest/block_ownership.cpp`). Both ends compute the ranges of a message from their own
side. *Correct when* they agree, every ghost cell is set once, shared elements have one owner.

**Forest of trees** (`mesh/forest/`, `mesh/mesh-gmg.cpp`). Leaves with global ids, internal
nodes, neighbours, multigrid levels. *Correct when* the leaves tile the domain, touching leaves
differ by at most one level, and the neighbour lists of all levels fit together.

**Mesh adaptation and load balance** (`mesh/mesh-amr_loadbalance.cpp`, `mesh/mesh.cpp`,
`amr_criteria/`, `prolong_restrict/`). Criteria, static regions, flags, the new numbering, the
ranks of the blocks, and the messages that move, refine and merge block data. *Hard:* long
sequences of cycles, stale lists, messages in any order. *Correct when* flags are obeyed,
nothing else changes but for the sake of nesting, every block ends up with the data of the blocks it comes from.

**Driver, signals, outputs** (`driver/`, `utils/signal_handler.cpp`, `outputs/`). Collective
calls in every cycle. *Hard:* a rank that leaves the loop alone, counters that survive
restarts. *Correct when* all ranks make the same collective calls, and a restarted run repeats
the run it comes from; section 6 says where the code lets go of both.

**Restart files** (`outputs/parthenon_hdf5.cpp`, `restart_hdf5.cpp`, `parthenon_manager.cpp`).
*Correct when* any number of ranks reads back what any number of ranks wrote.

**Swarms** (`interface/swarm*.cpp`). Pools of particles, and polled communication in which
buffers, flags and requests are reused every cycle. *Correct when* no particle is lost, doubled
or left in the wrong block.

**Packages, containers, packs, loops** (`interface/`, `kokkos_abstraction.hpp`,
`utils/index_split.*`). Registration and resolution, containers per stage, caches of packs,
layout of packs. *Correct when* roles decide what a name means, packs show the storage of the
moment, loops and accessors reach every index of the array that was named.

**Parameters** (`parameter_input.cpp`). *Correct when* the value of a parameter follows from the
order restart file, input file, command line, default, through any chain of restarts.

**Time integration** (`time_integration/`, `interface/update.*`), **utilities** (`utils/`).

## 2. Modules, in the order they were built

| modules | what they model | run |
|---|---|---|
| TaskGraph, TaskRegion, FlatRegion, TaskRegionProofs | task engine | `region`, `region_sync_loop` |
| DriverTasks, SolverTasks | task lists as programs of the engine | `region`, `solver_residual` |
| ThreadPool refines WorkPool; ThreadPoolProofs | the pool and what it promises | `thread_pool` |
| BoundaryExchange refines HaloExchange, BufferCache; BoundaryExchangeProofs, BufferCacheProofs | exchange protocol, storage, caches | `boundary_exchange` |
| Forest, GhostZones, MeshAdaptation, RefinementCriteria, GhostExchange, Multigrid | trees, refinement cycle, ghost ranges, multigrid levels | `mesh_adaptation` |
| LoadBalance, LoadBalanceProofs, Redistribution, RefinementOps | ranks of blocks, moving and refining their data | `redistribution` |
| DriverLoop, DriverLoopProofs, TimeIntegration, Histogram | main loops, outputs, integrators, histograms | `driver_loop` |
| StateDescriptor, DataContainers, ContainersProofs, LoopIndices, PackLayouts | packages, containers, packs, loops | `containers` |
| SwarmPool, SwarmExchange | particles | `swarms` |
| RestartFile (on SwarmPool) | restart files | `restart_file` |
| ParameterInput refines ParameterMap | parameters | `parameters` |

What could follow: the tasks of flux correction and multigrid communication as actions of their
own; trees with rotated coordinates; proofs about resolution and particles.

## 3. How modules correspond to the code

**TaskGraph** is construction: a program is the sequence of `AddTask` and `AddSublist` calls a
driver makes on each list, `BuildGraph(p)` the edges the code leaves. **TaskRegion** is `Execute`
on the pool of one worker the code insists on. The host and the worker interleave; `RunTask` is
one call of a task with all that `Task::operator()` and the enqueueing lambda do at once,
`EnqueueDependent` one turn of the lambda's loop. `round` and `done` are history variables. What a
task returns is any of its `returns`. **FlatRegion** names regions without loops, `Flat`,
what construction gives them, `WellBuilt`, and those whose data does not depend on the pool's order, `OrderedByGraph`. **DriverTasks** turns lists of named tasks, as drivers
write them, into programs, with the data each task reads and writes, and has the lists of the
examples and Burgers; **SolverTasks** those of multigrid, BiCGSTAB and poisson.

**ThreadPool** has one action for each critical section; `notified` holds workers with a
notification not yet consumed, `WakeForNothing` is a spurious wake-up, `Kill` and `Destroy` may
come at any time. **WorkPool** is the promise.

**BoundaryExchange** has the operations of one `CommBuffer` as operators on a record, and
runs the tasks of every `MeshData` on every rank in FIFO order, each over all its buffers, with
MPI as the environment: a message is on the way until it is probed or received, `MPI_Test` of a
send may succeed early. `Compute` is what a package does between exchanges: it may change,
allocate or lose data. **BufferCache** adds the storage of the buffers (the `ObjectPool` of a rank
with the reference counts of `owner_t`) and the `BndInfo` kept between exchanges, rebuilt as the two
`Check...ForRebuild` functions decide. **HaloExchange** says what an exchange is.

**Forest** has the operations of the trees as operators on a forest. **MeshAdaptation** is the
cycle `SetRefinement`, `UpdateMeshBlockTree`, `Redistribute`, with `Restart` in between; flags are
gathered collectively and the rest is the same computation on every rank, hence one copy. The
answer of the criteria is any; **RefinementCriteria** computes it from data, apart. `FlagsHonoured` says which
families may be merged: flagged ones, and those of which some blocks pass for flagged because one at
their place in another tree is (`PassesForFlagged`).
**GhostZones** has index ranges, ownership, message keys and physical boundaries;
**GhostExchange** states that they fit on every mesh reached; **Multigrid** does so for the
composite grids of the levels. The properties use a geometry of their own (`Low`, `Size`,
`Touches`), not the neighbour tables they judge.

**LoadBalance** is `CalculateLoadBalance` loop turn by loop turn. **Redistribution** extends it:
trees change, blocks are numbered and balanced, and two ranks exchange messages in any order;
what a half block holds is the set of old halves its values come from. **RefinementOps** has
the operations that fill new blocks, on whole multiples of a unit.

**DriverLoop** has an action for each piece of the loop between two collective calls; a rank at
a call waits for the others. Times are whole numbers and a step is what the blocks allow
afterwards. A package may set costs on any ranks in any step (`costed`; `CostsNew` is
`SetCostForLoadBalancing`, which sets `lb_flag_` of its own rank). Signals arrive at any time, also
between the exchange of the flags and the reading of them (`Signal`), and a job may crash and restart
from a file. History variables: `late`, the ranks that a signal reached too late for the exchange;
`steps` and `restarts`, what was stepped and started from what; `numbered`, the files. `Parted` names
the two ways in which ranks part.
**TimeIntegration** steps a system whose exact solution tests the order. **Histogram** bins
cells of several ranks.

**StateDescriptor** registers and resolves packages, in every order of the hash tables;
**DataContainers** runs a block with what was resolved; storage has a generation so that a view of
old storage is told apart. **PackLayouts** and **LoopIndices** are pure.

**SwarmPool** is one pool as a record, **SwarmExchange** the cycle of an application with
particles on a line of blocks. **RestartFile** writes and reads datasets shared by all blocks;
arrays hold tokens that say who computed them. **ParameterInput** keeps blocks and lines; a text
is a sequence of words.

## 4. Runs

| run | expectation | properties |
|---|---|---|
| `region` | pass | `DependencyOrder`, `OncePerRound`, `RoundsInOrder`, `NothingLost`, `DataInOrder`, `Termination` |
| `region_sync_loop` | violation | `DependencyOrder`: `local_sync` at the head of a loop of two lists is not waited for in the second round |
| `solver_residual` | violation | `DataInOrder`: BiCGSTAB fills `residual` for one norm while its reduction for another may be in flight |
| `thread_pool` | pass | `ImplementsWorkPool`, `NoWakeUpIsLost` |
| `boundary_exchange` | pass | `DataKept`, `StorageHandedOutOnce`, `CopiesUseCurrentStorage`, `ImplementsHaloExchange`, `Termination` |
| `mesh_adaptation` | pass | `ProperNesting`, `RefinedAsAsked`, `OldToNewConsistent`, `RestartRestores`, `GhostZonesExchanged`, `MultigridLevelsFit` |
| `redistribution` | pass | `LoadIsEven`, `DataMovedIntact`, `RefinementSound` |
| `driver_loop` | pass | `CollectivesMatch`, `RestartReproduces`, `OutputNumbering`, `StagesAddUp`, `HistogramsAddUp`, `AllRanksFinish` |
| `containers` | pass | `ResolutionFollowsRoles`, `PacksViewCurrentStorage`, `ControlledTogether`, `SelectionsAgree`, `KernelsReachTheirData` |
| `swarms` | pass | `ParticlesAtHome`, `PoolsConsistent`, `ExchangeEnds` |
| `restart_file` | pass | `FieldsRestored`, `ParticlesRestored` |
| `parameters` | pass | `ListsStaySound`, `ImplementsParameterMap` |

`PROJECT.json` says of each what it shows. Every property of a passing run also fails when one
definition is changed the way a slip in the code would change it (the definitions marked
`mutant` or `mutated`).

### Bounds, and why they suffice
* *Task engine.* Two lists (three in one family), two to four calls and all combinations of
  qualifiers: a synchronisation joins the lists pairwise, so two show every kind of edge; limits
  up to three iterations let a counter reach, and try to pass, its maximum. Drivers run on two
  partitions, solvers on one (see section 6).
* *Pool.* Three workers and three functions: two that wait while the third notifies.
* *Exchange.* Three `MeshData`, so that one has a local and a nonlocal neighbour, and two
  exchanges (`MaxExchanges`), because what can go wrong is a message of the first in the second;
  `Source` is where data appears that others get, `EarlyReceives` starts with posted receives,
  `ChunkSize` makes the pool grow.
* *Adaptation.* Four meshes: `Deep` has the four levels without which forced refinement is not
  forced twice, `Slow` a threshold above one and static refinement, `Wide` trees that are their own
  neighbours, `Corner` blocks that touch at a corner only. A cycle refines one block and
  derefines one family (two dimensions) or two families or lone blocks (one dimension); no
  refinement beyond `MaxLeaves`; ghost zones are looked at on meshes of up to `MaxGhostLeaves`
  leaves, blocks of `nx` = 4 cells and `nghost` = 2. Regions of static refinement have ends on a grid
  of eighths of a tree (`RootWidth`), so on the boundaries of blocks and next to them.
* *Redistribution.* Two ranks, three trees of one or two blocks: a block can stay, move, be refined
  or merged next to any other case. Costs from {2, 10}. `Unit` makes all divisions exact.
* *Driver.* Two ranks, four cycles, three outputs, one crash (`MaxCrashes`), two rounds of initial
  refinement (`InitRounds`); costs on any subset of the ranks, signals at any time. The blocks allow
  steps of 1, 3 and 2, now because of one rank and now of the other (`OneRankLimits`): the second step
  is limited to 2 by the factor of two, unless the run was restarted in that cycle. One crash is
  enough for both cases; the runs end at `Tlim` or `Nlim`.
* *Containers.* Two packages, two registrations of each, one block, two allocations and two
  generations; the controlled pool with and without `ForceAllocOnNewBlocks`; loops over ranges that are empty, of one and of several indices; packs of up to
  three of seven variables on three blocks of two levels.
* *Swarms.* Three blocks on two ranks, two particles, two cycles: neighbours of the same rank,
  of the other and across the periodic boundary.
* *Restart files.* Three blocks on one to three ranks when written and when read, two changes.
* *Parameters.* Three launches: what the first saved passes through the second into the third.

`CHECK_DEADLOCK FALSE` is set where the system ends: a region that was executed, a pool that was
destroyed, ranks after their last exchange or cycle, blocks and launches at the bounds.

### Fairness
* TaskRegion: weak fairness of the host's and the worker's steps, both threads that run; strong
  fairness of `Progress`, a task's eventual answer other than `incomplete`: tasks are retried
  because they wait for messages, which arrive.
* ThreadPool: weak fairness of each worker and of the host's calls that were begun; none for the
  calls themselves, nor for spurious wake-ups.
* BoundaryExchange: weak fairness of each rank; strong fairness that a message that is asked for
  again and again is delivered, which MPI guarantees.
* DriverLoop: weak fairness of the program's steps; none of signals, crashes or restarts.
* SwarmExchange: weak fairness of each block's tasks and of the ranks' steps between cycles.
* The other modules state safety only.

## 5. Proofs

**TaskRegionProofs**, for every flat region with any number of lists and tasks: `TypeCorrect`,
`DependenciesRespected` (`Spec => []DependencyOrder`) and `ExecutedOnce` (`Spec =>
[]OncePerRound`). *Assumptions:* `MpiParallelAssumption`, `OtherStatAssumption` and
`FlatAssumption`, that programs are flat and `WellBuilt` (edges are stored at both ends, promises
are among the dependencies, which were built before, nothing leads to first tasks). TLC evaluates them in `region` for all
small programs and all the drivers. `WellBuilt` is checked, not proved: `BuildGraph` concatenates
over the calls, and that takes induction over data. *Argument:* `DependencyOrder` is not inductive:
that a queued task's dependencies stay complete needs that completed tasks never run again, which
needs that each is queued at most once, which needs to know why it was queued. `IInv` says so: a task
is complete if and only if it was counted once (`History`), every queued task is `Justified` and
`QueuedOnce`, the worker's `nextUp` lists tasks not seen before (`NextUpFresh`), first tasks not
launched have not started (`NotStarted`), nothing of a list completes before its first task
(`Started`). There is one `Step...` lemma for each action.
`NothingForgotten` (`FlatSpec => []NothingLost`) is the converse, that nothing is left over when
`Execute` reports success. Its invariant `Remembered` says that, unless a task threw, every task whose
dependencies are complete is complete itself, in the queue, or in the worker's hands (still in
`nextUp`). When the host returns the queue is empty and the worker idle; among the tasks not complete
the one built first would have nothing left to wait for, and so be remembered. For this `WellBuilt`
also asks that a task is listed by each of its dependencies and was built after them (`Depth`).
`DataStaysInOrder` (`FlatSpec => [](program \in OrderedPrograms => DataInOrder)`) is about the flat
regions whose graph orders all tasks that touch the same data (`OrderedByGraph`, the assumption
`OrderedAssumption`): what is upstream of a queued task is complete (`UpstreamComplete`, by the
first-built task that would break it), and what is downstream of one that is not complete is not. TLC
finds the condition true of every region of advection, fine_advection, the particle examples,
calculate_pi and boundary_exchange. In the main regions of sparse_advection, stochastic_subgrid and
burgers, receives are started by tasks that the receiving tasks do not wait for: there the FIFO order
of the pool is needed, and `DataInOrder` is only model-checked.

**ThreadPoolProofs**, for any number of workers and functions: `PoolImplementsWorkPool` (`Spec =>
ImplementsWorkPool`), the refinement that `thread_pool` checks for three of each. *Assumption:*
`PoolAssumption`, that there are finitely many workers, at least one, and that functions are none of
the names of what an idle worker does. *Argument:* `wait` returns by looking at `complete`, which was
set by a worker that looked at `waiting` and a counter. `PoolInv` ties them to what is pending:
`nwaiting` is the number of sleeping workers (`Counted`), `waiting` holds exactly while the host is in
`wait_for_complete`, and `complete`, unless the pool was stopped, only while that wait still goes on and
every worker sleeps over an empty queue (`Flags`); each function is in one place (`OnePlace`), or a
function that finished would still be pending. Each action keeps this and is a step of WorkPool or a
stutter.

**LoadBalanceProofs**, for any number of ranks and blocks, balance after balance: `LoadsAreEven`
(`Spec => []LoadIsEven`), `ContiguousRanks` (`Spec => []RanksAreContiguous`) and `ListsMatch` (`Spec
=> []ListsMatchWhenAllUsed`, the first conjunct of `LoadIsEven`). *Assumptions:* `RanksAssumption`;
`LoadsAreEven` also `CostsAssumption` (costs are positive whole numbers; the comparison with the
target is exact). *Argument:*
contiguity is not inductive while blocks are being dealt out; `AssignInv` adds that the rank to be
given next is that of the block dealt last or one below it, and that ranks never fall.
`UpdateInv` then says that `UpdateBlockList` counts ranks from that of the first block and that the
ranges it has closed hold the blocks of their rank: so the lists are right exactly when the first
block is on rank 0, which holds when every rank has a block, and the loop never writes past the last
rank. These proofs use nothing about costs, so they cover any rounding of the comparison.
For the loads, `LoadInv` adds what the loop keeps while dealing (`Dealing`): what a rank and those
below it are to share is no more than their part of the total, and a rank not yet full has less than
its share; so a rank that becomes full, without the block that filled it, is below average, and
leaves the ranks below no more than their part. With equal costs the number of blocks left stays
between `q` and `q + 1` for each rank left (`Even`), which gives every rank `q` or `q + 1`. Behind it
is a small theory of sums: `Sum` folds in an order of its own through a recursive function, and that
this function exists (`SumsExist`) and that the order does not matter (`AnyFirst`, `SumOfMore`) is
shown by looking at a smallest set on which it fails, since induction over sets is not available.

**BoundaryExchangeProofs**, for any ranks, `MeshData`, links between them and number of exchanges:
`HaloRefinement` (`Spec => ImplementsHaloExchange`) and `DataKeptAlways` (`Spec => []DataKept`).
*Assumptions:* `ListsAssumption` (each `MeshData` is in the list of one rank, once), `LinksAssumption`
(links go both ways).
*Argument:* the refinement says that a `MeshData` sets its ghost zones from data of this exchange,
but a buffer does not say which exchange its message is of. `ExchangeInv` counts instead: a queue
holds at most one task that sends and one that receives, sets or computes of a `MeshData`, in one of
three orders (`QueuesInOrder`); from the queue follows which version a `MeshData` has sent last
(`Sent`) and which it has taken (`Taken`); what is on the way on a channel is the difference, in
order (`ChannelInv`), and what lies in a received buffer is the version of its reader
(`ReceiverInv`). `StorageInv` adds for `DataKept` that a sender's variable stays allocated while its
last message is not null, and that a buffer's state tells null messages from others. `Termination`
is model-checked.

**BufferCacheProofs**, for the same and any chunk size: `StorageOnceAlways` (`CacheSpec =>
[]StorageHandedOutOnce`) and `CopiesAreCurrent` (`CacheSpec => CopiesUseCurrentStorage`). The steps of
`CacheSpec` are those of the exchange with pools and caches added, so its invariants hold here by
construction.
*Assumption added:* `PoolAssumption` (a chunk has an object; the buffers are finitely many).
*Argument:* between two statements of `Allocate` a temporary owner holds the storage too, so counts
are those of no owners that a state shows. `PoolInv(p, W)` therefore speaks of a map `W` of all
holders, the temporary included: objects are apart (`Apart`), each handle is that of its key and the
counts are the numbers of claims (`Claimed`), and no key is without one (`InDemand`). Each operation of a
pool keeps this for the holders after it, and a sequence of buffers does by following the loop
(`FollowAll`) to the first buffer after which it would not hold. For the caches, a `BndInfo` remembers a status and a key
only. That they tell which storage it is follows from what both are compared with: allocations of a
variable are counted and keys never given out again, so a key at most `keyc` that is still in use is that
of the object it was, and a `BndInfo` with the key of now has the object of now (`InfoOK`, `Remembers`).

**DriverLoopProofs**, for any number of ranks, steps the blocks allow, balancer, outputs, signals
and restarts. *Assumptions of the module:* `DriverAssumption`, and `OutputsAssumption`: the list of
outputs is finite, their intervals are not negative, and the restart, of which the constructor
accepts one (`outputs.cpp:314`), is last. It is assumed rather than derived from `OutputList`, since
`SelectSeq` is recursive; TLC evaluates it.
* `RanksStayTogether` (`Spec => []CollectivesMatch`), without further assumptions: a late signal that
  reaches some ranks (`SignalMissed`) and costs set on some ranks when the interval has passed
  (`CostsUneven`) are all that parts ranks. *Argument:* ranks are at different places between two
  collective calls, so `CollectivesMatch` is not inductive. The invariant is that they are on the way
  to the same state: `OnItsOwn` is what a rank does by itself, `Ahead(r)` the state in which rank r will
  make its next collective call, at most four steps away. `Together` says that it is the same for the
  ranks that a late signal reached, and for the others; `Flagged` that, while flags are being read, the
  former are where the latter would go if it reached them too, which is where both meet when it does;
  `LateLeave` that ranks reached late are leaving the program. The places of load balancing count as
  one (`Stop`), since which of them a rank is in depends on its own `lb_flag_`; `FlagsDecide` says
  that it depends on nothing else, so that ranks which differ there have uneven costs. `LoopInv` is
  the conjunction with `TypeOK`. A step of one rank does not change `Ahead`; a collective call does the
  same on all.
* `RestartsReproduce` (`Spec => []RestartReproduces`), if `StepsPositive`: limits are whole numbers and
  the steps that blocks allow are positive. The growth limit may bind at any time. *Argument:* `Timed`
  and `Taken` say that each step is the one that `SetGlobalTimeStep` gives (`StepAt`) at a SimTime that
  follows from a step taken, or at the first one (`Reached`, `Derived`), as long as no restart by then
  was from a file whose step was limited (`Clean`). A step that was not limited is the wanted one, and
  to set it once more leaves it as it is; so such a restart continues as its file would have, and
  two steps of the same cycle agree, as the smallest cycle in which they would not shows (`Agree`).
  `StartedFrom` bounds the first step of a restarted run. `TimesInv` holds all this of the ranks, the
  files and the steps.
* `OutputsAreNumbered` (`Spec => []OutputNumbering`), under `StepsPositive` and if restarts use files
  written after cycle 0 (`FirstCycle` at least 1; started from a file of cycle 0 a run writes every
  output again, since all are due in cycle 0). *Argument:* `NumberInv` keeps the counters `Complete`:
  every number below the counter is that of a file, and the next time is the number times the interval
  (`ParamsFit`). A file of this run is below its counter (`Counted`), and of an earlier cycle while its
  output can still be written in this one (`Open`). A restart file is `Filed` with counters above all
  numbers of its run up to its cycle, because it comes last in it (`LastOfCycle`). "Its run" is needed:
  of three runs, the third may start from a file of the first and write numbers again that the second
  wrote after that file.

**ContainersProofs**, for any packages, stages, queries and number of blocks: `PacksStayCurrent` (a pack
views the storage of now, `PacksViewCurrentStorage`) and `ControlledAlike` (`ControlledTogether`).
*Assumptions:* `ContainersAssumption` (there is a block; queries are of the four kinds of pack), and of
what the packages resolve into, `[]DescriptorSound`: a variable with fluxes has a flux variable under
its controller (`FluxesResolved`). Resolution folds over packages and names, so this is not proved; TLC
checks it as a part of `ResolutionFollowsRoles`. `PacksStayCurrent` also assumes `PacksSound`: no
coarse pack is asked for on the mesh (`~MeshCoarse`), and no variable with fluxes is allocated on
new blocks ahead of its flux (`FluxesStartAlike`; for both see section 6). *Argument:* a cached pack is found by the names in it and the
numbers of allocations noted with it, which says nothing of coarse buffers, of fluxes that a sparse pack
shows but does not watch, or of who owns the storage. The invariant adds this. Every Variable object
lies where it was made, in a container that is not shallow, and shallow containers and OneCopy variables
lead to such an object of the same block (`Home`, `Holds`), so that allocating and deallocating by
container reaches all of them (`AllocateAll`, `DeallocateAll`). Objects of a block under one controller
are allocated together, or still as the block was made (`AsMade`), and those of one variable share a
coarse buffer (`Together`); hence, if they start alike, the number noted for a variable speaks for its
flux and its coarse buffer (`FluxTogether`). A number noted is one there has been,
and while it is that of now the views are those of now; noted as 0, they are empty (`Faithful`). Since
numbers only grow, what was outdated stays so (`EntryKept`), until a remesh empties the caches of new
blocks and of the mesh.

*Only model-checked:* liveness and everything under fairness (no `ENABLED` in the prover);
`RoundsInOrder`, regions with loops, `DataInOrder` where it needs the pool's order; all that uses Forest,
Multigrid, SwarmPool or RestartFile, which are recursive; other sums, folds and concatenations, over
buffers, stages or words, which take induction over data (ParameterInput,
Histogram, TimeIntegration, StateDescriptor); selections by flags and the layouts of packs, which are
pure.

## 6. What the code does that its readers may not expect

The two violating runs are quoted in `PROJECT.json` against the lines that promise otherwise. While
modelling, more was met that the properties of the passing runs state as it is, or that the instances
leave out, by a named constant or by the choice of programs; of the latter the property named would
not hold.

*Tasks.* A completion task that is also `global_sync` cuts off what follows the loop on all lists but
one (`tasks.hpp:408`, `NothingLost`). A task returning `fail` makes `Execute` throw, since
`dependent` has no entry for it (`tasks.hpp:185`); the return of failure at `tasks.hpp:583` is not
reached. Multigrid and BiCGSTAB on two lists violate `DataInOrder` in their second round, for the
reason of `region_sync_loop`.

*Mesh.* Siblings are matched across trees (`mesh-amr_loadbalance.cpp:585`): where the first daughter of
one tree and the second of its neighbour are flagged, they pass for a family, and the second daughter
of the first tree is merged although nobody flagged it. The instance reaches this; `RefinedAsAsked`
states that it needs a flagged block at that place in another tree. With fewer blocks
than ranks, `nslist` and `nblist` are numbered from rank 0 although low ranks have no block (`:389`;
`ListsMatchWhenAllUsed` has the premise). A block that is its own neighbour owns both copies of a
shared face (`block_ownership.cpp:70`), left out of `GhostZonesExchanged`. Toth and Roe's prolongation
keeps the divergence of cubic cells only (`pr_ops.hpp:384`, `CellShapes`). `Mesh::Initialize` ends when
the number of blocks is unchanged (`mesh.cpp:831`), even if the blocks are others. A flat static
region at the upper end of the domain asks for a block outside of it (`mesh.cpp:1061`). A generic
boundary condition returns from within its loop over variables (`boundary_conditions_generic.hpp:193`).

*Driver and output.* A signal that arrives between the all-reduce of the flags and the reading of them
may be seen by one rank alone, which leaves the main loop (`signal_handler.cpp:81`). A cost that a
package sets on some ranks only makes these enter a collective `Allgatherv` alone when the interval
has passed (`meshblock.cpp:241`). The instance reaches both; `CollectivesMatch` states that nothing else
parts ranks, `AllRanksFinish` that a job so parted never ends. A run restarted from a file whose time step
had been limited by the factor of two applies the factor again (`driver.cpp:210`): it may take
another first step, and other times from then on. The instance has such a file; `RestartReproduces`
states that times differ in no other case, and by how much the first step does. Histograms with duplicated scatter views add the cells of a partition again with
every later one (`histogram.cpp:397`), and rounding can lead past the last bin (`:325`). Variables off
the mesh are written and read one entry too far in three directions (`output_utils.hpp:312`,
`FieldsRestored`). `vl2` as the example drivers use it advances by one and a half time steps
(`StagesAddUp` is stated for rk1, rk2, rk3).

*Containers.* `MeshData::PackVariables` does not tell coarse from fine packs (`mesh_data.hpp:342`,
`MeshCoarse`, `PacksViewCurrentStorage`). A new block allocates a sparse variable with
`ForceAllocOnNewBlocks`, but not its flux, nor the variables it controls (`meshblock_data.hpp:201-204`);
`ControlledTogether` says that they are unlike until any of them is allocated or freed. When the flux
is allocated later, a cached sparse pack does not notice, since it watches the variable only
(`sparse_pack_base.cpp:66`; such a variable is left out, `FluxesStartAlike`, `PacksViewCurrentStorage`).
Fluxes of an edge variable are stored over its elements unless
a face variable with fluxes is in the pack (`sparse_pack_base.cpp:237`); the range of a sparse pool is
that of its first run (`variable_pack.hpp:541`). The six-index `par_for_inner` adds the third lower
bound to the first index, the four-index `simdfor` inner loop drops its first index, the four-index
`tptvr` loop repeats its range for each thread (`kokkos_abstraction.hpp:796-930`).
`SortParticlesByCell` lists removed particles until the pool is compacted (`swarm.cpp:423`).

*Parameters.* The name of a block is cut out wrongly from an indented header (`parameter_input.cpp:151`,
`IndentedHeaders`).

## 7. What is not modelled, and why
* Several variables in one exchange, and the abort after 1e8 attempts to receive. The thresholds of
  sparse variables are kept apart as the defaults keep them (1e-12, 1e-14: `globals.hpp:33-34`); NaN
  is not a value.
* The tasks of flux correction and multigrid communication (the protocol of BoundaryExchange on other
  channels); their ranges and neighbours are in GhostExchange and Multigrid.
* Command-line values that contain `#` or `&`, and the 40 kB within which `LoadFromFile` looks for
  `<par_end>` (`parameter_input.cpp:240`).
* Forests with rotated trees; costs measured in seconds; rounding in general.
* What solvers, kernels, reconstruction and equations compute; rk4 and the Butcher tables, whose
  coefficients are decimal; user callbacks.
* The bytes of HDF5, VTK and ASCII files; Kokkos, MPI and HDF5 themselves, which are modelled by how
  the code uses them.
* Utilities that are small pure functions with unit tests of their own.
