--------------------------- MODULE DataContainers ---------------------------
(***************************************************************************)
(* The variables of the resolved packages on the blocks of one rank.  Each *)
(* block has a collection of containers (MeshBlockData), one per stage,    *)
(* and the mesh a collection of MeshData, one per stage, that refer to     *)
(* them; a container holds Variable objects, its own or shared ones.       *)
(* Sparse variables are allocated and deallocated, packs of views of the   *)
(* variables' storage are cached on blocks and on the mesh, and remeshing  *)
(* replaces blocks.                                                        *)
(*                                                                         *)
(* A Variable object is <<block, generation of the block, stage, VarID>>   *)
(* and its storage after the n-th allocation <<object, n>>, so a view of   *)
(* storage that was freed or belongs to a block that is gone is told from  *)
(* the current one.                                                        *)
(***************************************************************************)
EXTENDS StateDescriptor

CONSTANTS Blocks,        \* the places of blocks on this rank
          StageSpec,     \* stage |-> [src, vars, shallow]; vars {} means all
          Queries,       \* the packs tasks ask for: [kind, names]
          MeshCoarse,    \* whether coarse packs are asked for on the mesh
          Runs(_),       \* which resolved states are run, a bound
          DeallocationCount,
          MaxAlloc,      \* bound: allocations of one variable
          MaxCached,     \* bound: packs in the caches
          MaxGeneration  \* bound: replacements of one block

ASSUME ContainersAssumption ==
  /\ Blocks # {}
  /\ \A q \in Queries : q.kind \in {"var", "coarse", "flux", "sparse"}

VARIABLES generation,    \* of each block, 0 before the mesh is built
          mbd,           \* block |-> stage |-> [shallow, vars]
          store,         \* Variable object |-> its allocation
          meshStages,    \* the stages of the mesh's collection
          blockCache,    \* block |-> cached packs
          meshCache,     \* stage |-> cached packs
          pack           \* the pack returned by the last step, or NoPack

runtime == <<generation, mbd, store, meshStages, blockCache, meshCache, pack>>

NoPack == [blocks |-> {}]
NoStorage == <<"none">>
NotThere == -1

Fields == resolved.sd.fields
Flags(v) == Fields[v].flags
IsSparse(v) == "Sparse" \in Flags(v)
HasCoarse(v) == Flags(v) \cap {"FillGhost", "Independent", "ForceRemeshComm", "Flux"} # {}
FluxOf(v) == VarID(Fields[v].flux, v.id)

GetControlledVariables(v) ==
  IF v \in DOMAIN resolved.controlled THEN resolved.controlled[v] ELSE {}
GetControlVariables == DOMAIN resolved.controlled

(***************************************************************************)
(* Variables.                                                              *)
(***************************************************************************)
NewVariable == [n |-> 0, on |-> FALSE, coarse |-> NoStorage, dealloc |-> 0]

Allocated(o, var, coarse) ==
  [var EXCEPT !.n = @ + 1, !.on = TRUE,
              !.coarse = IF HasCoarse(o[4]) THEN coarse ELSE NoStorage]

Deallocate(var) == [var EXCEPT !.on = FALSE, !.coarse = NoStorage]

(* A mutated form: only whether it is allocated, not how often it was. *)
StatusOnly(var) == IF var.on THEN 1 ELSE 0

GetAllocationStatus(var) == IF var.on THEN var.n ELSE 0

Data(st, o) == IF st[o].on THEN <<o, st[o].n>> ELSE NoStorage

(* A block is built with a base container of all fields, the dense ones    *)
(* allocated and the sparse ones that ask for it.                          *)
BaseObject(b, g, v) == <<b, g, "base", v>>
AllocatedAtStart(v) == ~IsSparse(v) \/ "ForceAllocOnNewBlocks" \in Flags(v)

(* A variable for which storage has not been taken or given back since.    *)
AsMade(var, v) ==
  /\ var.on <=> AllocatedAtStart(v)
  /\ var.n = IF AllocatedAtStart(v) THEN 1 ELSE 0

BaseContainer(b, g) ==
  [shallow |-> FALSE, vars |-> [v \in DOMAIN Fields |-> BaseObject(b, g, v)]]

OnlyBase(b, g) == [s \in {"base"} |-> BaseContainer(b, g)]

BaseStore(b, g) ==
  [o \in {BaseObject(b, g, v) : v \in DOMAIN Fields} |->
     IF AllocatedAtStart(o[4]) THEN Allocated(o, NewVariable, <<o, 1>>) ELSE NewVariable]

(* MeshBlockData::Initialize from another container: shared objects for a  *)
(* shallow container and for OneCopy variables, copies otherwise, and the  *)
(* flux of every variable asked for by name.                               *)
StageVars(s, src) ==
  LET asked == IF StageSpec[s].vars = {} THEN DOMAIN src.vars ELSE StageSpec[s].vars
  IN asked \cup {FluxOf(v) : v \in {w \in asked : "WithFluxes" \in Flags(w)}}

Shares(s, v) == StageSpec[s].shallow \/ "OneCopy" \in Flags(v)

StageContainer(b, g, s, src) ==
  [shallow |-> StageSpec[s].shallow,
   vars |-> [v \in StageVars(s, src) |->
               IF Shares(s, v) THEN src.vars[v] ELSE <<b, g, s, v>>]]

StageStore(b, g, s, src) ==
  [o \in {<<b, g, s, v>> : v \in {w \in StageVars(s, src) : ~Shares(s, w)}} |->
     LET from == store[src.vars[o[4]]]
     IN IF from.on THEN Allocated(o, NewVariable, from.coarse) ELSE NewVariable]

(***************************************************************************)
(* Mesh::Initialize builds the blocks and the mesh's base container.       *)
(***************************************************************************)
Built == resolved # Unresolved /\ \A b \in Blocks : generation[b] > 0

BuildBlocks ==
  /\ resolved # Unresolved /\ resolved.status = "ok" /\ Runs(resolved.sd) /\ ~Built
  /\ generation' = [b \in Blocks |-> 1]
  /\ mbd' = [b \in Blocks |-> OnlyBase(b, 1)]
  /\ store' = [o \in UNION {DOMAIN BaseStore(b, 1) : b \in Blocks} |->
                 BaseStore(o[1], 1)[o]]
  /\ meshStages' = {"base"}
  /\ UNCHANGED <<blockCache, meshCache, pack, packages, resolved>>

(* DataCollection::Add on the mesh and then on every block: a container    *)
(* that is there already is returned as it is.  A variable asked for that  *)
(* the source does not hold ends the program (GetVarPtr throws).           *)
AddStage(s) ==
  LET src == StageSpec[s].src
      Missing == {b \in Blocks : s \notin DOMAIN mbd[b]}
      New(b) == StageStore(b, generation[b], s, mbd[b][src])
  IN /\ Built
     /\ s \notin meshStages /\ src \in meshStages
     /\ \A b \in Missing : StageVars(s, mbd[b][src]) \subseteq DOMAIN mbd[b][src].vars
     /\ meshStages' = meshStages \cup {s}
     /\ mbd' = [b \in Blocks |->
                  IF b \in Missing
                  THEN With(mbd[b], s, StageContainer(b, generation[b], s, mbd[b][src]))
                  ELSE mbd[b]]
     /\ store' = Join(store, [o \in UNION {DOMAIN New(b) : b \in Missing} |-> New(o[1])[o]])
     /\ pack' = NoPack
     /\ UNCHANGED <<generation, blockCache, meshCache, packages, resolved>>

(***************************************************************************)
(* MeshBlock::AllocateSparse and DeallocateSparse: the variables under one *)
(* controller, in every container that holds them.                         *)
(***************************************************************************)
(* A mutated form: the containers beside the base one are forgotten. *)
BaseOnly(b, v) == {}

OwnedIn(b, v) ==
  {mbd[b][s].vars[v] : s \in {t \in DOMAIN mbd[b] \ {"base"} :
                                v \in DOMAIN mbd[b][t].vars
                                  /\ "OneCopy" \notin Flags(v) /\ ~mbd[b][t].shallow}}

HeldIn(b, v) ==
  {mbd[b][s].vars[v] : s \in {t \in DOMAIN mbd[b] :
                                v \in DOMAIN mbd[b][t].vars /\ ~mbd[b][t].shallow}}

AllocateVars(b, vs) ==
  [o \in DOMAIN store |->
     IF o[1] = b /\ o[4] \in vs /\ ~store[o].on
     THEN LET base == mbd[b]["base"].vars[o[4]]
              coarse == IF store[base].on THEN store[base].coarse
                        ELSE <<base, store[base].n + 1>>
          IN IF o = base \/ o \in OwnedIn(b, o[4])
             THEN Allocated(o, store[o], coarse) ELSE store[o]
     ELSE store[o]]

(* `dropped' holds pairs of a block and a variable. *)
DeallocateVars(st, dropped) ==
  [o \in DOMAIN st |->
     IF <<o[1], o[4]>> \in dropped /\ o \in HeldIn(o[1], o[4]) /\ st[o].on
     THEN Deallocate(st[o]) ELSE st[o]]

AllocateSparse(b, v, onlyControl) ==
  LET controlled == GetControlledVariables(IF onlyControl THEN v ELSE resolved.sd.reverse[v])
  IN /\ Built /\ IsSparse(v)
     /\ \A w \in controlled : store[mbd[b]["base"].vars[w]].n < MaxAlloc
     /\ store' = AllocateVars(b, controlled)
     /\ pack' = NoPack
     /\ UNCHANGED <<generation, mbd, meshStages, blockCache, meshCache, packages, resolved>>

DeallocateSparse(b, v) ==
  /\ Built /\ IsSparse(v)
  /\ store' = DeallocateVars(store, {b} \X GetControlledVariables(v))
  /\ pack' = NoPack
  /\ UNCHANGED <<generation, mbd, meshStages, blockCache, meshCache, packages, resolved>>

(* Update::SparseDealloc on the base containers; `zero' is what the kernel *)
(* found of the allocated control variables.                               *)
SparseDealloc ==
  LET Control(b) == {v \in GetControlVariables \cap DOMAIN Fields :
                       IsSparse(v) /\ store[mbd[b]["base"].vars[v]].on}
      Swept == UNION {{mbd[b]["base"].vars[v] : v \in Control(b)} : b \in Blocks}
  IN /\ Built
     /\ \E zero \in SUBSET Swept :
          LET Count_(o) == IF o \in zero THEN store[o].dealloc + 1 ELSE 0
              Due == {o \in Swept : Count_(o) > DeallocationCount}
              counted == [o \in DOMAIN store |->
                            IF o \in Swept
                            THEN [store[o] EXCEPT !.dealloc = IF o \in Due THEN 0 ELSE Count_(o)]
                            ELSE store[o]]
          IN store' = DeallocateVars(counted,
                        UNION {{o[1]} \X GetControlledVariables(o[4]) : o \in Due})
     /\ pack' = NoPack
     /\ UNCHANGED <<generation, mbd, meshStages, blockCache, meshCache, packages, resolved>>

(***************************************************************************)
(* Packs.  A request gives names of variables; those a container does not  *)
(* hold are left out, but for a sparse pack, which records them.           *)
(***************************************************************************)
ListOf(c, q) == {v \in q.names : v \in DOMAIN c.vars}

FluxesOf(vs) == {FluxOf(v) : v \in {w \in vs : "WithFluxes" \in Flags(w)}}

(* What a pack's owner compares to tell whether it is outdated. *)
AllocStatus(c, q) ==
  CASE q.kind \in {"var", "coarse"} ->
         [v \in ListOf(c, q) |-> GetAllocationStatus(store[c.vars[v]])]
    [] q.kind = "flux" ->
         [v \in ListOf(c, q) \cup FluxesOf(ListOf(c, q)) |->
            GetAllocationStatus(store[c.vars[v]])]
    [] OTHER ->
         [v \in q.names |-> IF v \in DOMAIN c.vars
                            THEN GetAllocationStatus(store[c.vars[v]]) ELSE NotThere]

(* FillVarView, FillFluxViews and SparsePackBase::Build: the views a new   *)
(* pack gets.                                                              *)
Views(c, q) ==
  CASE q.kind = "var"    -> [v \in ListOf(c, q) |-> Data(store, c.vars[v])]
    [] q.kind = "coarse" -> [v \in ListOf(c, q) |-> store[c.vars[v]].coarse]
    [] OTHER             ->
         [v \in ListOf(c, q) \cup FluxesOf(ListOf(c, q)) |-> Data(store, c.vars[v])]

(* The key of a cached pack: the uids in the pack and, where the code      *)
(* keeps the caches apart, what it is a pack of.                           *)
KeyVars(c, q) == IF q.kind = "sparse" THEN q.names ELSE ListOf(c, q)
BlockKey(b, s, q) == [stage |-> s, kind |-> q.kind, vars |-> KeyVars(mbd[b][s], q)]
MeshKey(s, q) == [kind |-> IF q.kind = "coarse" THEN "var" ELSE q.kind,
                  vars |-> [b \in Blocks |-> KeyVars(mbd[b][s], q)]]

Cached(cache, key, status) == key \in DOMAIN cache /\ cache[key].status = status

Refreshed(cache, key, status, views) ==
  IF Cached(cache, key, status) THEN cache
  ELSE With(cache, key, [status |-> status, views |-> views])

BlockPack(b, s, q) ==
  LET c == mbd[b][s]
  IN Refreshed(blockCache[b], BlockKey(b, s, q), AllocStatus(c, q), Views(c, q))

CachedPacks ==
  MapThenSumSet(LAMBDA b : Cardinality(DOMAIN blockCache[b]), Blocks)
    + MapThenSumSet(LAMBDA s : Cardinality(DOMAIN meshCache[s]), DOMAIN meshCache)

(* MeshBlockData::PackVariables, PackVariablesAndFluxes and a sparse pack  *)
(* of one block.                                                           *)
GetBlockPack(b, s, q) ==
  /\ Built /\ s \in DOMAIN mbd[b]
  /\ blockCache' = [blockCache EXCEPT ![b] = BlockPack(b, s, q)]
  /\ pack' = [blocks |-> {b}, stage |-> s, query |-> q,
              views |-> [a \in {b} |-> BlockPack(b, s, q)[BlockKey(b, s, q)].views]]
  /\ UNCHANGED <<generation, mbd, store, meshStages, meshCache, packages, resolved>>
  /\ CachedPacks' <= MaxCached

(* PackOnMesh packs every block through its own cache and then looks into  *)
(* the mesh's; a sparse pack is built from the blocks' variables.          *)
GetMeshPack(s, q) ==
  LET status == [b \in Blocks |-> AllocStatus(mbd[b][s], q)]
      views == [b \in Blocks |-> Views(mbd[b][s], q)]
      cache == Refreshed(meshCache[s], MeshKey(s, q), status, views)
  IN /\ Built /\ s \in meshStages
     /\ q.kind = "coarse" => MeshCoarse
     /\ blockCache' = IF q.kind = "sparse" THEN blockCache
                      ELSE [b \in Blocks |-> BlockPack(b, s, q)]
     /\ meshCache' = [meshCache EXCEPT ![s] = cache]
     /\ pack' = [blocks |-> Blocks, stage |-> s, query |-> q,
                 views |-> cache[MeshKey(s, q)].views]
     /\ UNCHANGED <<generation, mbd, store, meshStages, packages, resolved>>
     /\ CachedPacks' <= MaxCached

(***************************************************************************)
(* Remeshing: PurgeNonBase and ClearCaches on the mesh's collection, then  *)
(* some blocks are replaced by new ones (the rest keep all their           *)
(* containers) and the base container is made anew.                        *)
(***************************************************************************)
Replaced(g) == [b \in Blocks |-> IF b \in g THEN generation[b] + 1 ELSE generation[b]]

PurgeNonBase(stages) == stages \cap {"base"}

ClearedCaches == [s \in DOMAIN meshCache |-> <<>>]

Remesh(gone) ==
  LET fresh == [o \in UNION {DOMAIN BaseStore(b, generation[b] + 1) : b \in gone} |->
                  BaseStore(o[1], o[2])[o]]
  IN /\ Built
     /\ gone # {}
     /\ \A b \in gone : generation[b] < MaxGeneration
     /\ generation' = Replaced(gone)
     /\ mbd' = [b \in Blocks |-> IF b \in gone
                                 THEN OnlyBase(b, generation[b] + 1)
                                 ELSE mbd[b]]
     /\ store' = Join([o \in {p \in DOMAIN store : p[1] \notin gone} |-> store[o]], fresh)
     /\ blockCache' = [b \in Blocks |-> IF b \in gone THEN <<>> ELSE blockCache[b]]
     /\ meshStages' = PurgeNonBase(meshStages)
     /\ meshCache' = ClearedCaches
     /\ pack' = NoPack
     /\ UNCHANGED <<packages, resolved>>

-----------------------------------------------------------------------------
RuntimeInit ==
  /\ generation = [b \in Blocks |-> 0]
  /\ mbd = [b \in Blocks |-> <<>>]
  /\ store = <<>>
  /\ meshStages = {}
  /\ blockCache = [b \in Blocks |-> <<>>]
  /\ meshCache = [s \in DOMAIN StageSpec \cup {"base"} |-> <<>>]
  /\ pack = NoPack

RuntimeNext ==
  \/ BuildBlocks
  \/ \E s \in DOMAIN StageSpec : AddStage(s)
  \/ \E b \in Blocks : \E v \in IF Built THEN {w \in DOMAIN Fields : IsSparse(w)} ELSE {} :
        \/ \E only \in BOOLEAN : AllocateSparse(b, v, only)
        \/ DeallocateSparse(b, v)
  \/ SparseDealloc
  \/ \E q \in Queries : \/ \E b \in Blocks : \E s \in DOMAIN mbd[b] : GetBlockPack(b, s, q)
                        \/ \E s \in meshStages : GetMeshPack(s, q)
  \/ \E gone \in SUBSET Blocks : Remesh(gone)

Init == DescriptorInit /\ RuntimeInit

Next == \/ DescriptorNext /\ UNCHANGED runtime
        \/ RuntimeNext

Spec == Init /\ [][Next]_<<packages, resolved, runtime>>

-----------------------------------------------------------------------------
(***************************************************************************)
(* A pack that is returned, from a cache or built, views the storage its   *)
(* variables and their fluxes have at that time, on every block of the     *)
(* mesh and in the container it was asked of, across deallocation,         *)
(* allocation and remeshing.                                               *)
(***************************************************************************)
PacksViewCurrentStorage ==
  pack # NoPack =>
    \A b \in pack.blocks : pack.views[b] = Views(mbd[b][pack.stage], pack.query)

(***************************************************************************)
(* A sparse variable is allocated in every container of a block or in none *)
(* of them, with one coarse buffer between the containers.  Of the ones    *)
(* under one controller a new block allocates those that ask for it        *)
(* (ForceAllocOnNewBlocks) and no other; from the first time on that any   *)
(* of them is allocated or freed they are all allocated or none is         *)
(* (MeshBlock::AllocateSparse and DeallocateSparse).                       *)
(***************************************************************************)
ControlledTogether ==
  Built => \A b \in Blocks : \A s \in DOMAIN mbd[b] :
    LET c == mbd[b][s]
        base == mbd[b]["base"].vars
    IN \A v \in DOMAIN c.vars : IsSparse(v) =>
         /\ store[c.vars[v]].on = store[base[v]].on
         /\ store[c.vars[v]].coarse = store[base[v]].coarse
         /\ \A w \in GetControlledVariables(resolved.sd.reverse[v]) \cap DOMAIN c.vars :
              \/ store[c.vars[w]].on = store[c.vars[v]].on
              \/ AsMade(store[c.vars[v]], v) /\ AsMade(store[c.vars[w]], w)

(***************************************************************************)
(* Selecting variables by flags gives the same answer whether it is asked  *)
(* of the resolved packages (StateDescriptor::GetVariableNames) or of a    *)
(* base container (GetVariablesByFlag), for collections with a union or an *)
(* intersection; flux variables are left out by the latter.                *)
(***************************************************************************)
NotFlux(vs) == {v \in vs : "Flux" \notin Flags(v)}

GetVariablesByFlag(fc) == NotFlux(GetByFlag(fc, [v \in DOMAIN Fields |-> Flags(v)]))

SomeFlags == {"Cell", "Sparse", "WithFluxes"}
Collections(excluded) ==
  {Exclude(TakeUnion(TakeIntersection(AllOf({}), AllOf(i)), AnyOf(u)), AllOf(e)) :
     u \in SUBSET SomeFlags, i \in SUBSET SomeFlags, e \in excluded}

SelectionsAgree ==
  (resolved # Unresolved /\ resolved.status = "ok" /\ ~Built) =>
    \A fc \in Collections({{}} \cup {{f} : f \in SomeFlags}) :
      fc.unions \cup fc.intersections # {} =>
        GetVariablesByFlag(fc) = NotFlux(GetVariableNames(resolved.sd, fc))
=============================================================================
