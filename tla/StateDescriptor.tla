-------------------------- MODULE StateDescriptor --------------------------
(***************************************************************************)
(* What the packages of an application register, and the one descriptor    *)
(* the mesh resolves them into.  A package holds dense fields, sparse      *)
(* pools and swarms; the role of each (Private, Provides, Requires,        *)
(* Overridable) says how the names of several packages combine.  The       *)
(* packages are iterated in the order of a hash table: `order' ranges over *)
(* all of them.                                                            *)
(*                                                                         *)
(* A name is the sequence of its parts: <<"p", "v">> is "p::v".  A VarID   *)
(* is a name and a sparse id, NoId for a dense field.                      *)
(***************************************************************************)
EXTENDS Naturals, FiniteSets, Sequences, SequencesExt

CONSTANTS Packages,     \* the labels of the packages
          FieldMenu,    \* dense fields: [base, flags, controller]
          PoolMenu,     \* sparse pools: [base, flags, ids, controller]
          SwarmMenu,    \* swarms: [base, flags, values]
          MaxRegistered \* bound: registrations of a package

VARIABLES packages,     \* the state descriptor of each package
          resolved      \* the resolved descriptor, or Unresolved

(***************************************************************************)
(* The flags of a variable: the defaults a Metadata object adds to those   *)
(* it is given, which sets of flags are valid, how flag collections are    *)
(* combined, and the two ways of selecting variables with one: MatchFlags, *)
(* a predicate on one Metadata, and GetByFlag, a walk of the map from      *)
(* flags to variables that each container keeps.  A Metadata is the set of *)
(* its flags; shapes, thresholds and component labels are left out.        *)
(***************************************************************************)
Topology == {"None", "Node", "Edge", "Face", "Cell"}
Roles    == {"Private", "Provides", "Requires", "Overridable"}
DataType == {"Boolean", "Integer", "Real"}
Origin   == {"Independent", "Derived"}
Rank     == {"Vector", "Tensor"}

IsSet(m, f) == f \in m

Defaulted(m, group, default) == IF m \cap group = {} THEN m \cup {default} ELSE m

(* Metadata::Metadata(bits, ...) *)
NewMetadata(bits) ==
  LET topology == Defaulted(bits, Topology, "None")
      role     == Defaulted(topology, Roles, "Provides")
      type     == Defaulted(role, DataType, "Real")
  IN Defaulted(type, Origin, "Derived")

IsValid(m) ==
  /\ \A group \in {Topology, Roles, DataType, Origin} : Cardinality(m \cap group) = 1
  /\ Cardinality(m \cap Rank) <= 1

Role(m)  == CHOOSE r \in Roles : IsSet(m, r)

(***************************************************************************)
(* Metadata::FlagCollection.                                               *)
(***************************************************************************)
AllOf(flags) == [unions |-> {}, intersections |-> flags, exclusions |-> {}]
AnyOf(flags) == [unions |-> flags, intersections |-> {}, exclusions |-> {}]
Empty(fc) == fc.unions \cup fc.intersections \cup fc.exclusions = {}

TakeUnion(fc, other) ==
  [fc EXCEPT !.unions = @ \cup other.unions, !.exclusions = @ \cup other.exclusions]

TakeIntersection(fc, other) ==
  [fc EXCEPT !.intersections = @ \cup other.intersections,
             !.exclusions = @ \cup other.exclusions]

Exclude(fc, other) ==
  [fc EXCEPT !.exclusions = @ \cup other.unions \cup other.intersections
                              \cup other.exclusions]

AllFlagsSet(m, flags) == flags \subseteq m
AnyFlagsSet(m, flags) == flags \cap m # {}
NoFlagsSet(m, flags)  == flags \cap m = {}

MatchFlags(fc, m) ==
  /\ AllFlagsSet(m, fc.intersections)
  /\ fc.unions = {} \/ AnyFlagsSet(m, fc.unions)
  /\ NoFlagsSet(m, fc.exclusions)

(***************************************************************************)
(* GetByFlag: `vars' maps each variable to its Metadata and flagsToVars    *)
(* maps a flag to the variables that have it (absent flags to none).       *)
(***************************************************************************)
WithFlag(vars, f) == {v \in DOMAIN vars : IsSet(vars[v], f)}

(* A mutated form: a required flag hides the alternatives. *)
GetByIntersection(fc, vars) ==
  {v \in DOMAIN vars : /\ AllFlagsSet(vars[v], fc.intersections)
                       /\ NoFlagsSet(vars[v], fc.exclusions)}

GetByFlag(fc, vars) ==
  IF Empty(fc) THEN DOMAIN vars
  ELSE IF fc.intersections # {}
  THEN LET first == CHOOSE f \in fc.intersections : TRUE
       IN {v \in WithFlag(vars, first) :
             /\ AllFlagsSet(vars[v], fc.intersections)
             /\ ~AnyFlagsSet(vars[v], fc.exclusions)
             /\ fc.unions = {} \/ AnyFlagsSet(vars[v], fc.unions)}
  ELSE UNION {{v \in WithFlag(vars, f) : ~AnyFlagsSet(vars[v], fc.exclusions)} :
                f \in fc.unions}

-----------------------------------------------------------------------------
NoId == 99
NoController == <<>>
VarID(base, id) == [base |-> base, id |-> id]
FluxName(base) == <<"bnd_flux">> \o base
Unresolved == [status |-> "none"]

NewDescriptor ==
  [fields |-> <<>>, pools |-> <<>>, reverse |-> <<>>, swarms |-> <<>>]

With(f, x, y) == [z \in {x} \cup DOMAIN f |-> IF z = x THEN y ELSE f[z]]
Join(f, g) == [z \in DOMAIN f \cup DOMAIN g |-> IF z \in DOMAIN f THEN f[z] ELSE g[z]]

FieldPresent(sd, vid) == vid \in DOMAIN sd.fields
SparseBaseNamePresent(sd, base) == base \in DOMAIN sd.pools

(***************************************************************************)
(* AddFieldImpl: a variable with fluxes gets a flux variable beside it,    *)
(* with the same controller, unless its metadata already names one.        *)
(***************************************************************************)
FluxFlags(flags) ==
  NewMetadata({"OneCopy", "Flux"} \cup (flags \cap {"Sparse", "Fine"})
              \cup (IF "Cell" \in flags THEN {"Face"}
                    ELSE IF "Face" \in flags THEN {"Edge"}
                    ELSE IF "Edge" \in flags THEN {"Node"} ELSE {}))

Insert(f, x, y) == IF x \in DOMAIN f THEN f ELSE With(f, x, y)      \* std::map::insert keeps what is there

AddFieldImpl(sd, vid, meta, control) ==
  LET needsFlux == "WithFluxes" \in meta.flags /\ meta.flux = <<>>
      fluxId == VarID(FluxName(vid.base), vid.id)
      fluxed == IF needsFlux /\ ~FieldPresent(sd, fluxId)
                THEN [sd EXCEPT !.fields = With(@, fluxId,
                                             [flags |-> FluxFlags(meta.flags), flux |-> <<>>]),
                                !.reverse = Insert(@, fluxId, control)]
                ELSE sd
      m == IF needsFlux THEN [meta EXCEPT !.flux = fluxId.base] ELSE meta
  IN [fluxed EXCEPT !.fields = With(@, vid, m), !.reverse = Insert(@, vid, control)]

Present(sd, vid) == FieldPresent(sd, vid) \/ (vid.id = NoId /\ SparseBaseNamePresent(sd, vid.base))

(* AddField: a dense field controls itself unless it names another. *)
AddField(sd, base, meta, controller) ==
  AddFieldImpl(sd, VarID(base, NoId), meta,
               VarID(IF controller = NoController THEN base ELSE controller, NoId))

AddFieldReturnsTrue(sd, base) == ~Present(sd, VarID(base, NoId))

(* AddSparsePoolImpl; ids are added in increasing order. *)
AddSparsePool(sd, pool) ==
  LET controller == IF pool.controller = NoController THEN pool.base ELSE pool.controller
      Add(acc, id) == AddFieldImpl(acc, VarID(pool.base, id),
                                   [flags |-> pool.flags, flux |-> <<>>],
                                   VarID(controller, id))
  IN FoldLeft(Add, [sd EXCEPT !.pools = With(@, pool.base, pool)],
              SetToSortSeq(pool.ids, <))

AddSparsePoolReturnsTrue(sd, pool) ==
  /\ pool.ids # {}
  /\ ~Present(sd, VarID(pool.base, NoId))

AddSwarm(sd, base, flags, values) ==
  [sd EXCEPT !.swarms = With(@, base, [flags |-> flags, values |-> values])]

(***************************************************************************)
(* The application registers its variables package by package.             *)
(***************************************************************************)
Registered(sd) == {vid \in DOMAIN sd.fields : "Flux" \notin sd.fields[vid].flags
                                                /\ "Sparse" \notin sd.fields[vid].flags}
Count(sd) == Cardinality(Registered(sd)) + Cardinality(DOMAIN sd.pools)
               + Cardinality(DOMAIN sd.swarms)

Registering(p) == resolved = Unresolved /\ Count(packages[p]) < MaxRegistered

RegisterField(p, f) ==
  /\ Registering(p)
  /\ IsValid(NewMetadata(f.flags))
  /\ AddFieldReturnsTrue(packages[p], f.base)
  /\ packages' = [packages EXCEPT ![p] =
                    AddField(@, f.base, [flags |-> NewMetadata(f.flags), flux |-> <<>>],
                             f.controller)]
  /\ UNCHANGED resolved

RegisterPool(p, pool) ==
  /\ Registering(p)
  /\ AddSparsePoolReturnsTrue(packages[p], pool)
  /\ packages' = [packages EXCEPT ![p] =
                    AddSparsePool(@, [pool EXCEPT !.flags = NewMetadata(@)])]
  /\ UNCHANGED resolved

RegisterSwarm(p, s) ==
  /\ Registering(p)
  /\ s.base \notin DOMAIN packages[p].swarms
  /\ packages' = [packages EXCEPT ![p] =
                    AddSwarm(@, s.base, NewMetadata(s.flags), s.values)]
  /\ UNCHANGED resolved

(***************************************************************************)
(* ResolvePackages.  A DependencyTracker sorts the names of the packages   *)
(* by role, once for fields (dense fields, flux variables among them, and  *)
(* sparse pools) and once for swarms; a provider enters them into the      *)
(* state.  A failure throws and ends the program: `ok' stays FALSE.        *)
(***************************************************************************)
FieldNames(sd) ==
  {vid.base : vid \in {v \in DOMAIN sd.fields : "Sparse" \notin sd.fields[v].flags}}
    \cup DOMAIN sd.pools

Names(kind, sd) == IF kind = "swarm" THEN DOMAIN sd.swarms ELSE FieldNames(sd)

MetadataOf(kind, sd, n) ==
  CASE kind = "swarm"        -> [flags |-> sd.swarms[n].flags, flux |-> <<>>]
    [] n \in DOMAIN sd.pools -> [flags |-> sd.pools[n].flags, flux |-> <<>>]
    [] OTHER                 -> sd.fields[VarID(n, NoId)]

GetFieldController(sd, n) == sd.reverse[VarID(n, NoId)].base

Failed(acc) == [acc EXCEPT !.ok = FALSE]

(* FieldProvider::AddPrivate and AddProvides, SwarmProvider::AddSwarm_:    *)
(* the name `n' of package descriptor `sd' enters the state as `as'.       *)
EnterSwarm(acc, sd, n, as) ==
  IF as \in DOMAIN acc.sd.swarms THEN Failed(acc)
  ELSE [acc EXCEPT !.sd = AddSwarm(@, as, sd.swarms[n].flags, sd.swarms[n].values)]

EnterPool(acc, sd, n, as) ==
  LET pool == [sd.pools[n] EXCEPT !.base = as]
  IN IF AddSparsePoolReturnsTrue(acc.sd, pool)
     THEN [acc EXCEPT !.sd = AddSparsePool(@, pool)] ELSE Failed(acc)

EnterDense(acc, sd, n, as, meta) ==
  IF AddFieldReturnsTrue(acc.sd, as)
  THEN [acc EXCEPT !.sd = AddField(@, as, meta, GetFieldController(sd, n))]
  ELSE Failed(acc)

Enter(kind, acc, sd, n, as) ==
  IF kind = "swarm" THEN EnterSwarm(acc, sd, n, as)
  ELSE IF n \in DOMAIN sd.pools THEN EnterPool(acc, sd, n, as)
  ELSE EnterDense(acc, sd, n, as, MetadataOf(kind, sd, n))

Categorize(kind, acc, p, n) ==
  LET sd == packages[p]
      meta == MetadataOf(kind, sd, n)
      role == Role(meta.flags)
  IN CASE role = "Private"  -> Enter(kind, acc, sd, n, <<p>> \o n)
       [] role = "Provides" ->
            IF n \in acc.provided THEN Failed(acc)
            ELSE [Enter(kind, acc, sd, n, n) EXCEPT !.provided = @ \cup {n}]
       [] role = "Requires" -> [acc EXCEPT !.depends = @ \cup {n}]
       [] OTHER -> [acc EXCEPT !.overridable = Insert(@, n, meta)]

Tracker(kind, order, sd) ==
  LET fresh == [ok |-> TRUE, sd |-> sd, provided |-> {}, depends |-> {},
                overridable |-> <<>>]
      Package(acc, p) ==
        FoldLeft(LAMBDA a, n : IF a.ok THEN Categorize(kind, a, p, n) ELSE a,
                 acc, SetToSeq(Names(kind, packages[p])))
  IN FoldLeft(Package, fresh, order)

(* A mutated form: only provided names satisfy a requirement. *)
RequiresProvided(acc) == IF acc.depends \subseteq acc.provided THEN acc ELSE Failed(acc)

CheckRequires(acc) ==
  IF acc.depends \subseteq acc.provided \cup DOMAIN acc.overridable
  THEN acc ELSE Failed(acc)

(***************************************************************************)
(* CheckOverridable: the first package, in the order of the hash table,    *)
(* that holds the name at all is the one whose pool, controller or swarm   *)
(* values are taken; a dense field keeps the metadata it was registered    *)
(* with as overridable.                                                    *)
(***************************************************************************)
FirstOf(order, holders) == order[Min({i \in DOMAIN order : order[i] \in holders})]

AddOverridable(kind, acc, order, n) ==
  LET meta == acc.overridable[n]
      holders == {p \in Packages : n \in Names(kind, packages[p])}
      withField == {p \in Packages : FieldPresent(packages[p], VarID(n, NoId))}
      first == packages[FirstOf(order, holders)]
  IN CASE kind = "swarm" -> EnterSwarm(acc, [first EXCEPT !.swarms[n].flags = meta.flags], n, n)
       [] kind = "field" /\ "Sparse" \in meta.flags ->
            IF n \in DOMAIN first.pools THEN EnterPool(acc, first, n, n) ELSE Failed(acc)
       [] OTHER -> EnterDense(acc, packages[FirstOf(order, withField)], n, n, meta)

CheckOverridable(kind, acc, order) ==
  FoldLeft(LAMBDA a, n : IF a.ok THEN AddOverridable(kind, a, order, n) ELSE a,
           acc, SetToSeq(DOMAIN acc.overridable \ acc.provided))

(* InvertControllerMap: each controller with the variables it controls. *)
InvertControllerMap(reverse) ==
  [c \in {reverse[v] : v \in DOMAIN reverse} |-> {v \in DOMAIN reverse : reverse[v] = c}]

(* Both trackers are checked before either of them overrides; a failure is *)
(* passed on.                                                               *)
Tracked(kind, order, acc) ==
  IF acc.ok THEN CheckRequires(Tracker(kind, order, acc.sd)) ELSE acc

Overridden(kind, order, tracker, acc) ==
  IF acc.ok THEN CheckOverridable(kind, [tracker EXCEPT !.sd = acc.sd], order) ELSE acc

Outcome(acc) ==
  IF acc.ok THEN [status |-> "ok", sd |-> acc.sd, controlled |-> InvertControllerMap(acc.sd.reverse)]
  ELSE [status |-> "failed"]

Resolution(order) ==
  LET fields == CheckRequires(Tracker("field", order, NewDescriptor))
      swarms == Tracked("swarm", order, fields)
  IN Outcome(Overridden("swarm", order, swarms, Overridden("field", order, fields, swarms)))

CreateResolvedStateDescriptor ==
  /\ resolved = Unresolved
  /\ \E order \in SetToSeqs(Packages) : resolved' = Resolution(order)
  /\ UNCHANGED packages

(***************************************************************************)
(* GetVariableNames by flags: dense fields by their own metadata, the      *)
(* fields of a pool by the metadata the pool's fields share.               *)
(***************************************************************************)
GetVariableNames(sd, fc) ==
  IF Empty(fc) THEN {}
  ELSE {vid \in DOMAIN sd.fields :
          "Sparse" \notin sd.fields[vid].flags /\ MatchFlags(fc, sd.fields[vid].flags)}
       \cup UNION {{VarID(n, id) : id \in sd.pools[n].ids} :
                      n \in {m \in DOMAIN sd.pools : MatchFlags(fc, sd.pools[m].flags)}}

DescriptorInit ==
  /\ packages = [p \in Packages |-> NewDescriptor]
  /\ resolved = Unresolved

DescriptorNext ==
  \/ \E p \in Packages : \/ \E f \in FieldMenu : RegisterField(p, f)
                         \/ \E pool \in PoolMenu : RegisterPool(p, pool)
                         \/ \E s \in SwarmMenu : RegisterSwarm(p, s)
  \/ CreateResolvedStateDescriptor

-----------------------------------------------------------------------------
(***************************************************************************)
(* The reference the resolution is checked against: what each role means.  *)
(***************************************************************************)
Kinds == {"field", "swarm"}
RoleIn(kind, p, n) == Role(MetadataOf(kind, packages[p], n).flags)
With_(kind, role) ==
  UNION {{p} \X {n \in Names(kind, packages[p]) : RoleIn(kind, p, n) = role} : p \in Packages}
NamesWith(kind, role) == {pn[2] : pn \in With_(kind, role)}

(* Two packages provide a name, or a name is required and nowhere offered. *)
Consistent ==
  \A kind \in Kinds :
    /\ \A a, b \in With_(kind, "Provides") : a[2] = b[2] => a = b
    /\ NamesWith(kind, "Requires") \subseteq NamesWith(kind, "Provides") \cup
                                             NamesWith(kind, "Overridable")

(* Two packages register a dense field of the same name with fluxes: each  *)
(* then holds "bnd_flux::name" as one it provides.                         *)
FluxesClash ==
  \E p, q \in Packages : p # q /\ \E n \in FieldNames(packages[p]) \cap FieldNames(packages[q]) :
    "Flux" \in MetadataOf("field", packages[p], n).flags

(* The packages that may supply a name that only overridable ones offer. *)
Suppliers(kind, n) == {p \in Packages : n \in Names(kind, packages[p])
                                         /\ RoleIn(kind, p, n) = "Overridable"}
SuppliedElsewhere ==
  \E kind \in Kinds : \E n \in NamesWith(kind, "Overridable") \ NamesWith(kind, "Provides") :
    /\ kind = "swarm" \/ \E p \in Packages : n \in DOMAIN packages[p].pools
    /\ {p \in Packages : n \in Names(kind, packages[p])} # Suppliers(kind, n)

(***************************************************************************)
(* Packages are resolved as their roles say: resolution fails exactly when *)
(* two packages provide a name or a required one is offered by none, and   *)
(* otherwise the state holds each private name under its package's name,   *)
(* each provided name, and each overridable name that none provides, with  *)
(* the ids and flags of a package entitled to give it, whatever the order  *)
(* of the hash tables.  Packages that clash over an automatic flux         *)
(* variable, or whose overridable pool or swarm another holds privately or *)
(* requires, are set aside.                                                *)
(***************************************************************************)
ExpectedNames(kind) ==
  {<<pn[1]>> \o pn[2] : pn \in With_(kind, "Private")}
    \cup NamesWith(kind, "Provides") \cup NamesWith(kind, "Overridable")

SameSupply(kind, p, n, as) ==
  LET mine == packages[p] IN
    IF kind = "swarm" THEN resolved.sd.swarms[as] = mine.swarms[n]
    ELSE IF n \in DOMAIN mine.pools
    THEN as \in DOMAIN resolved.sd.pools /\ resolved.sd.pools[as].ids = mine.pools[n].ids
    ELSE /\ VarID(as, NoId) \in DOMAIN resolved.sd.fields
         /\ resolved.sd.fields[VarID(as, NoId)].flags = mine.fields[VarID(n, NoId)].flags

FollowsRoles ==
  \A kind \in Kinds :
    /\ ExpectedNames(kind) \subseteq Names(kind, resolved.sd)
    /\ \A pn \in With_(kind, "Private") : SameSupply(kind, pn[1], pn[2], <<pn[1]>> \o pn[2])
    /\ \A pn \in With_(kind, "Provides") : SameSupply(kind, pn[1], pn[2], pn[2])
    /\ \A n \in NamesWith(kind, "Overridable") \ NamesWith(kind, "Provides") :
         \E p \in Suppliers(kind, n) : SameSupply(kind, p, n, n)

(* Every variable has a controller; one with fluxes has its flux variable, *)
(* which has none of its own, under the same controller.                   *)
FluxesResolved ==
  LET sd == resolved.sd IN
  /\ DOMAIN sd.reverse = DOMAIN sd.fields
  /\ \A v \in DOMAIN sd.fields : "WithFluxes" \in sd.fields[v].flags =>
       LET flux == VarID(sd.fields[v].flux, v.id)
       IN /\ flux \in DOMAIN sd.fields
          /\ "WithFluxes" \notin sd.fields[flux].flags
          /\ sd.reverse[flux] = sd.reverse[v]

ResolutionFollowsRoles ==
  (resolved # Unresolved /\ ~FluxesClash /\ ~SuppliedElsewhere) =>
    /\ resolved.status = "ok" <=> Consistent
    /\ resolved.status = "ok" => FollowsRoles /\ FluxesResolved
=============================================================================
