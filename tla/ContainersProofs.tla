-------------------------- MODULE ContainersProofs --------------------------
(***************************************************************************)
(* The packs that kernels get view the storage that the variables have     *)
(* now, for any packages, stages and queries and any number of blocks.     *)
(* What the packages resolve into is taken as DescriptorSound says.        *)
(***************************************************************************)
EXTENDS DataContainers, TLAPS

(***************************************************************************)
(* What is asked of the resolved packages: FluxesResolved, that TLC checks *)
(* as a part of ResolutionFollowsRoles.  The packs need more, that no      *)
(* variable with fluxes asks to be allocated at once (its flux is not, and *)
(* a sparse pack does not watch it), and no coarse pack on the mesh.       *)
(***************************************************************************)
Resolved == resolved # Unresolved /\ resolved.status = "ok"
Controller(v) == resolved.sd.reverse[v]

DescriptorSound == Resolved => FluxesResolved

FluxesStartAlike ==
  \A v \in DOMAIN Fields : "WithFluxes" \in Flags(v) =>
    (AllocatedAtStart(v) <=> AllocatedAtStart(FluxOf(v)))

PacksSound == ~MeshCoarse /\ FluxesStartAlike

(* The resolved packages' second map is the inverse of the first.          *)
Inverted == Resolved => resolved.controlled = InvertControllerMap(resolved.sd.reverse)

(***************************************************************************)
(* The inductive invariant.                                                *)
(***************************************************************************)
(* Every Variable object is held where it was made, by a container of its  *)
(* own, and nothing else is held anywhere.                                 *)
Home(o) ==
  /\ o = <<o[1], o[2], o[3], o[4]>>
  /\ o[1] \in Blocks /\ o[2] = generation[o[1]]
  /\ o[3] \in DOMAIN mbd[o[1]]
  /\ ~mbd[o[1]][o[3]].shallow
  /\ o[4] \in DOMAIN mbd[o[1]][o[3]].vars /\ mbd[o[1]][o[3]].vars[o[4]] = o
  /\ o[3] = "base" \/ "OneCopy" \notin Flags(o[4])

Holds(b, c) ==
  \A v \in DOMAIN c.vars :
    /\ v \in DOMAIN Fields
    /\ c.vars[v] \in DOMAIN store /\ c.vars[v][1] = b /\ c.vars[v][4] = v
    /\ "WithFluxes" \in Flags(v) => FluxOf(v) \in DOMAIN c.vars

Objects ==
  /\ \A o \in DOMAIN store : Home(o)
  /\ \A b \in Blocks : \A s \in DOMAIN mbd[b] : Holds(b, mbd[b][s])

Containers ==
  /\ generation \in [Blocks -> Nat] /\ \A b \in Blocks : generation[b] > 0
  /\ DOMAIN mbd = Blocks /\ DOMAIN blockCache = Blocks
  /\ DOMAIN meshCache = DOMAIN StageSpec \cup {"base"}
  /\ meshStages \subseteq DOMAIN meshCache
  /\ \A b \in Blocks : /\ "base" \in DOMAIN mbd[b] /\ meshStages \subseteq DOMAIN mbd[b]
                       /\ mbd[b]["base"] = BaseContainer(b, generation[b])

(* An allocated variable was allocated at least once, and one that is not  *)
(* has no coarse buffer.                                                   *)
IsVariable(var) ==
  /\ DOMAIN var = {"n", "on", "coarse", "dealloc"}
  /\ var.n \in Nat /\ var.on \in BOOLEAN
  /\ var.on => var.n > 0
  /\ ~var.on => var.coarse = NoStorage

(* The objects of one variable on a block are allocated together and share *)
(* a coarse buffer; those under one controller are allocated together,     *)
(* unless they are all as they were made.                                  *)
Together(st) ==
  /\ \A o \in DOMAIN st : /\ IsVariable(st[o])
                          /\ HasCoarse(o[4]) \/ st[o].coarse = NoStorage
  /\ \A o, p \in DOMAIN st : o[1] = p[1] =>
       /\ Controller(o[4]) = Controller(p[4]) =>
            \/ st[o].on = st[p].on
            \/ AsMade(st[o], o[4]) /\ AsMade(st[p], p[4])
       /\ o[4] = p[4] => st[o].on = st[p].on /\ st[o].coarse = st[p].coarse

(***************************************************************************)
(* A cached pack: for each variable that its owner watches, the number of  *)
(* allocations noted is one there has been, and as long as it is still the *)
(* number of now, what the pack shows of the variable, and of its flux, is *)
(* the storage of now.                                                     *)
(***************************************************************************)
Query(kind, names) == [kind |-> kind, names |-> names]
WithFlux(q) == q.kind \in {"flux", "sparse"}

Watched(c, q) ==
  CASE q.kind = "sparse" -> q.names
    [] q.kind = "flux"   -> ListOf(c, q) \cup FluxesOf(ListOf(c, q))
    [] OTHER             -> ListOf(c, q)

ShownWith(c, q, v) ==
  {v} \cup {w \in {FluxOf(v)} : WithFlux(q) /\ v \in ListOf(c, q) /\ "WithFluxes" \in Flags(v)}

Shown(c, q) ==
  ListOf(c, q) \cup (IF WithFlux(q) THEN FluxesOf(ListOf(c, q)) ELSE {})

Current(st, c, q, w) == IF q.kind = "coarse" THEN st[c.vars[w]].coarse ELSE Data(st, c.vars[w])

Faithful(st, c, q, e, v) ==
  LET noted == e.status[v]
  IN /\ noted \in Nat /\ noted <= st[c.vars[v]].n
     /\ noted = GetAllocationStatus(st[c.vars[v]]) =>
          \A w \in ShownWith(c, q, v) \cap Shown(c, q) : e.views[w] = Current(st, c, q, w)
     /\ noted = 0 => \A w \in ShownWith(c, q, v) \cap Shown(c, q) : e.views[w] = NoStorage

EntryOK(st, c, q, e) ==
  /\ q.kind # "sparse" => q.names \subseteq DOMAIN c.vars
  /\ e.views = [w \in Shown(c, q) |-> e.views[w]]
  /\ \A v \in Watched(c, q) \cap DOMAIN c.vars : Faithful(st, c, q, e, v)

PackKinds == {"var", "coarse", "flux", "sparse"}

BlockCacheOK(b, cache) ==
  \A key \in DOMAIN cache :
    /\ key.kind \in PackKinds
    /\ key.stage \in DOMAIN mbd[b]
    /\ EntryOK(store, mbd[b][key.stage], Query(key.kind, key.vars), cache[key])

BlockEntries == \A b \in Blocks : BlockCacheOK(b, blockCache[b])

OfBlock(e, b) == [status |-> e.status[b], views |-> e.views[b]]

MeshCacheOK(s, cache) ==
  \A key \in DOMAIN cache :
    /\ s \in meshStages
    /\ key.kind \in PackKinds \ {"coarse"}
    /\ \A b \in Blocks :
         EntryOK(store, mbd[b][s], Query(key.kind, key.vars[b]), OfBlock(cache[key], b))

MeshEntries == \A s \in DOMAIN meshCache : MeshCacheOK(s, meshCache[s])

Built_ ==
  /\ Resolved /\ Containers /\ Objects /\ Together(store)
  /\ PacksSound => BlockEntries /\ MeshEntries /\ PacksViewCurrentStorage

IInv == Inverted /\ (RuntimeInit \/ Built_)

-----------------------------------------------------------------------------
(***************************************************************************)
(* Packs.                                                                  *)
(***************************************************************************)
(* A request is answered as the one of its key.                            *)
LEMMA SameAnswer ==
  ASSUME NEW c, NEW q, q.kind \in PackKinds
  PROVE  LET k == Query(q.kind, KeyVars(c, q))
         IN /\ ListOf(c, k) = ListOf(c, q)
            /\ AllocStatus(c, k) = AllocStatus(c, q)
            /\ Views(c, k) = Views(c, q)
<1> DEFINE k == Query(q.kind, KeyVars(c, q))
<1>1. k.kind = q.kind /\ ListOf(c, k) = ListOf(c, q)
  BY DEF Query, KeyVars, ListOf
<1>2. q.kind = "sparse" => k.names = q.names
  BY DEF Query, KeyVars
<1> HIDE DEF k
<1>3. AllocStatus(c, k) = AllocStatus(c, q)
  BY <1>1, <1>2 DEF AllocStatus, PackKinds
<1>4. Views(c, k) = Views(c, q)
  BY <1>1 DEF Views
<1>5. QED
  BY <1>1, <1>3, <1>4 DEF k

(* What a pack shows with a variable is held beside it, and allocated      *)
(* together with it.                                                       *)
LEMMA ShownTogether ==
  ASSUME NEW b, NEW c, NEW q, NEW v \in DOMAIN c.vars, NEW w \in ShownWith(c, q, v),
         Holds(b, c), FluxesResolved
  PROVE  /\ w \in DOMAIN c.vars /\ c.vars[w] \in DOMAIN store
         /\ c.vars[w][1] = b /\ c.vars[w][4] = w
         /\ Controller(w) = Controller(v)
         /\ q.kind = "coarse" => w = v
<1>1. CASE w = v
  BY <1>1 DEF Holds
<1>2. CASE w # v
  <2>1. w = FluxOf(v) /\ WithFlux(q) /\ "WithFluxes" \in Flags(v)
    BY <1>2 DEF ShownWith
  <2>2. v \in DOMAIN Fields /\ w \in DOMAIN c.vars
    BY <2>1 DEF Holds
  <2>3. Controller(w) = Controller(v)
    BY <2>1, <2>2 DEF FluxesResolved, Controller, FluxOf, Flags, Fields
  <2>4. QED
    BY <2>1, <2>2, <2>3 DEF Holds, WithFlux
<1>3. QED
  BY <1>1, <1>2

LEMMA FluxTogether ==
  ASSUME NEW b, NEW c, NEW q, NEW v \in DOMAIN c.vars, NEW w \in ShownWith(c, q, v),
         Holds(b, c), FluxesResolved, FluxesStartAlike, NEW st, Together(st),
         c.vars[v] \in DOMAIN st, c.vars[w] \in DOMAIN st
  PROVE  st[c.vars[w]].on = st[c.vars[v]].on
<1>1. CASE w = v
  BY <1>1
<1>2. CASE w # v
  <2>1. w = FluxOf(v) /\ "WithFluxes" \in Flags(v) /\ v \in DOMAIN Fields
    BY <1>2 DEF ShownWith, Holds
  <2>2. AllocatedAtStart(v) <=> AllocatedAtStart(w)
    BY <2>1 DEF FluxesStartAlike
  <2>3. /\ c.vars[v][1] = b /\ c.vars[v][4] = v /\ c.vars[w][1] = b /\ c.vars[w][4] = w
        /\ Controller(w) = Controller(v)
    <3>1. c.vars[v][1] = b /\ c.vars[v][4] = v
      BY DEF Holds
    <3>2. c.vars[w][1] = b /\ c.vars[w][4] = w /\ Controller(w) = Controller(v)
      BY ShownTogether
    <3>3. QED
      BY <3>1, <3>2
  <2>4. /\ st[c.vars[v]].on \in BOOLEAN /\ st[c.vars[w]].on \in BOOLEAN
        /\ \/ st[c.vars[w]].on = st[c.vars[v]].on
           \/ AsMade(st[c.vars[w]], w) /\ AsMade(st[c.vars[v]], v)
    BY <2>3 DEF Together, IsVariable
  <2>5. QED
    BY <2>2, <2>4 DEF AsMade
<1>3. QED
  BY <1>1, <1>2

LEMMA ShownOfWatched ==
  ASSUME NEW c, NEW q, NEW w \in Shown(c, q)
  PROVE  \E v \in Watched(c, q) \cap DOMAIN c.vars : w \in ShownWith(c, q, v)
<1>1. ListOf(c, q) \subseteq Watched(c, q) \cap DOMAIN c.vars
  BY DEF ListOf, Watched
<1>2. CASE w \in ListOf(c, q)
  BY <1>1, <1>2 DEF ShownWith
<1>3. CASE w \notin ListOf(c, q)
  <2>1. WithFlux(q) /\ w \in FluxesOf(ListOf(c, q))
    BY <1>3 DEF Shown
  <2>2. PICK v \in ListOf(c, q) : "WithFluxes" \in Flags(v) /\ w = FluxOf(v)
    BY <2>1 DEF FluxesOf
  <2>3. w \in ShownWith(c, q, v)
    BY <2>1, <2>2 DEF ShownWith
  <2>4. QED
    BY <1>1, <2>2, <2>3
<1>4. QED
  BY <1>2, <1>3

(* What AllocStatus notes of a variable, and Views shows.                  *)
LEMMA StatusAndViews ==
  ASSUME NEW c, NEW q, q.kind \in PackKinds
  PROVE  /\ \A v \in Watched(c, q) \cap DOMAIN c.vars :
              AllocStatus(c, q)[v] = GetAllocationStatus(store[c.vars[v]])
         /\ Views(c, q) = [w \in Shown(c, q) |-> Current(store, c, q, w)]
<1>1. CASE q.kind = "sparse"
  <2>1. \A v \in Watched(c, q) \cap DOMAIN c.vars :
              AllocStatus(c, q)[v] = GetAllocationStatus(store[c.vars[v]])
    BY <1>1 DEF AllocStatus, Watched
  <2>2. Views(c, q) = [w \in Shown(c, q) |-> Current(store, c, q, w)]
    BY <1>1 DEF Views, Shown, WithFlux, Current
  <2>3. QED
    BY <2>1, <2>2
<1>2. CASE q.kind = "flux"
  <2>1. \A v \in Watched(c, q) \cap DOMAIN c.vars :
              AllocStatus(c, q)[v] = GetAllocationStatus(store[c.vars[v]])
    BY <1>2 DEF AllocStatus, Watched
  <2>2. Views(c, q) = [w \in Shown(c, q) |-> Current(store, c, q, w)]
    BY <1>2 DEF Views, Shown, WithFlux, Current
  <2>3. QED
    BY <2>1, <2>2
<1>3. CASE q.kind = "var"
  <2>1. \A v \in Watched(c, q) \cap DOMAIN c.vars :
              AllocStatus(c, q)[v] = GetAllocationStatus(store[c.vars[v]])
    BY <1>3 DEF AllocStatus, Watched
  <2>2. Views(c, q) = [w \in Shown(c, q) |-> Current(store, c, q, w)]
    BY <1>3 DEF Views, Shown, WithFlux, Current
  <2>3. QED
    BY <2>1, <2>2
<1>4. CASE q.kind = "coarse"
  <2>1. \A v \in Watched(c, q) \cap DOMAIN c.vars :
              AllocStatus(c, q)[v] = GetAllocationStatus(store[c.vars[v]])
    BY <1>4 DEF AllocStatus, Watched
  <2>2. Views(c, q) = [w \in Shown(c, q) |-> Current(store, c, q, w)]
    BY <1>4 DEF Views, Shown, WithFlux, Current
  <2>3. QED
    BY <2>1, <2>2
<1>5. QED
  BY <1>1, <1>2, <1>3, <1>4 DEF PackKinds

(* A pack that was just built is an entry of a cache as it should be.      *)
LEMMA NewEntry ==
  ASSUME NEW b, NEW c, NEW q, q.kind \in PackKinds,
         Holds(b, c), FluxesResolved, FluxesStartAlike, Together(store),
         q.kind # "sparse" => q.names \subseteq DOMAIN c.vars
  PROVE  EntryOK(store, c, q, [status |-> AllocStatus(c, q), views |-> Views(c, q)])
<1> DEFINE e == [status |-> AllocStatus(c, q), views |-> Views(c, q)]
<1>1. /\ \A v \in Watched(c, q) \cap DOMAIN c.vars :
              e.status[v] = GetAllocationStatus(store[c.vars[v]])
      /\ e.views = [w \in Shown(c, q) |-> Current(store, c, q, w)]
  BY StatusAndViews
<1> HIDE DEF e
<1>2. ASSUME NEW v \in Watched(c, q) \cap DOMAIN c.vars
      PROVE  Faithful(store, c, q, e, v)
  <2>1. IsVariable(store[c.vars[v]]) /\ c.vars[v] \in DOMAIN store
    BY DEF Holds, Together
  <2>2. e.status[v] \in Nat /\ e.status[v] <= store[c.vars[v]].n
    BY <1>1, <2>1 DEF IsVariable, GetAllocationStatus
  <2>3. ASSUME e.status[v] = 0, NEW w \in ShownWith(c, q, v)
        PROVE  Current(store, c, q, w) = NoStorage
    <3>0. v \in DOMAIN c.vars /\ c.vars[v][1] = b /\ c.vars[v][4] = v
      BY DEF Holds
    <3>1. /\ c.vars[w] \in DOMAIN store /\ c.vars[w][1] = b /\ c.vars[w][4] = w
          /\ Controller(w) = Controller(v)
      BY <3>0, ShownTogether
    <3>2. store[c.vars[w]].on = store[c.vars[v]].on
      BY <2>1, <3>0, <3>1, FluxTogether
    <3>3. ~store[c.vars[v]].on
      BY <1>1, <2>1, <2>3 DEF IsVariable, GetAllocationStatus
    <3>4. IsVariable(store[c.vars[w]])
      BY <3>1 DEF Together
    <3>5. QED
      BY <3>2, <3>3, <3>4 DEF Current, Data, IsVariable
  <2>4. QED
    BY <1>1, <2>2, <2>3 DEF Faithful
<1>3. e.views = [w \in Shown(c, q) |-> e.views[w]]
  BY <1>1
<1>4. EntryOK(store, c, q, e)
  BY <1>2, <1>3 DEF EntryOK
<1>5. QED
  BY <1>4 DEF e

(* An entry whose status is that of now is shown as it is now.             *)
LEMMA Hit ==
  ASSUME NEW c, NEW q, NEW e, q.kind \in PackKinds,
         EntryOK(store, c, q, e), e.status = AllocStatus(c, q)
  PROVE  e.views = Views(c, q)
<1>1. /\ \A v \in Watched(c, q) \cap DOMAIN c.vars :
              e.status[v] = GetAllocationStatus(store[c.vars[v]])
      /\ Views(c, q) = [w \in Shown(c, q) |-> Current(store, c, q, w)]
  BY StatusAndViews
<1>2. ASSUME NEW w \in Shown(c, q)
      PROVE  e.views[w] = Current(store, c, q, w)
  <2>1. PICK v \in Watched(c, q) \cap DOMAIN c.vars : w \in ShownWith(c, q, v)
    BY ShownOfWatched
  <2>2. Faithful(store, c, q, e, v)
    BY <2>1 DEF EntryOK
  <2>3. QED
    BY <1>1, <2>1, <2>2 DEF Faithful
<1>3. e.views = [w \in Shown(c, q) |-> e.views[w]]
  BY DEF EntryOK
<1>4. QED
  BY <1>1, <1>2, <1>3

-----------------------------------------------------------------------------
(***************************************************************************)
(* What happens to the storage of the variables of a block that remains:   *)
(* each is left alone, freed, or allocated once more.                      *)
(***************************************************************************)
Moves(b, st, st2) ==
  \A o \in DOMAIN st : o[1] = b =>
    /\ o \in DOMAIN st2
    /\ \/ st2[o].n = st[o].n /\ st2[o].on = st[o].on /\ st2[o].coarse = st[o].coarse
       \/ st2[o].n = st[o].n /\ ~st2[o].on
       \/ st2[o].n = st[o].n + 1 /\ ~st[o].on

(* Then an entry of a cache remains as it should be, whether its status is *)
(* still that of now or not.                                               *)
LEMMA EntryKept ==
  ASSUME NEW st2, NEW b, NEW c, NEW q, NEW e, q.kind \in PackKinds,
         Holds(b, c), FluxesResolved, FluxesStartAlike,
         Together(store), Together(st2), Moves(b, store, st2),
         EntryOK(store, c, q, e)
  PROVE  EntryOK(st2, c, q, e)
<1>1. ASSUME NEW v \in Watched(c, q) \cap DOMAIN c.vars
      PROVE  Faithful(st2, c, q, e, v)
  <2> DEFINE o == c.vars[v]
  <2>1. o \in DOMAIN store /\ o \in DOMAIN st2 /\ o[1] = b /\ o[4] = v
    BY DEF Holds, Moves
  <2>2. IsVariable(store[o]) /\ IsVariable(st2[o])
    BY <2>1 DEF Together
  <2>3. Faithful(store, c, q, e, v)
    BY DEF EntryOK
  <2>4. e.status[v] \in Nat /\ e.status[v] <= store[o].n /\ store[o].n <= st2[o].n
    BY <2>1, <2>2, <2>3 DEF Faithful, Moves, IsVariable
  <2>5. \A w \in ShownWith(c, q, v) :
          /\ c.vars[w] \in DOMAIN store /\ c.vars[w] \in DOMAIN st2
          /\ store[c.vars[w]].on = store[o].on /\ st2[c.vars[w]].on = st2[o].on
          /\ IsVariable(store[c.vars[w]]) /\ IsVariable(st2[c.vars[w]])
          /\ c.vars[w][1] = b
    <3>1. SUFFICES ASSUME NEW w \in ShownWith(c, q, v)
                   PROVE  /\ c.vars[w] \in DOMAIN store /\ c.vars[w] \in DOMAIN st2
                          /\ store[c.vars[w]].on = store[o].on /\ st2[c.vars[w]].on = st2[o].on
                          /\ IsVariable(store[c.vars[w]]) /\ IsVariable(st2[c.vars[w]])
                          /\ c.vars[w][1] = b
      OBVIOUS
    <3>2. /\ c.vars[w] \in DOMAIN store /\ c.vars[w][1] = b /\ c.vars[w][4] = w
          /\ Controller(w) = Controller(v)
      BY ShownTogether
    <3>3. c.vars[w] \in DOMAIN st2
      BY <3>2 DEF Moves
    <3>4. store[c.vars[w]].on = store[o].on /\ st2[c.vars[w]].on = st2[o].on
      BY <2>1, <3>2, <3>3, FluxTogether
    <3>5. QED
      BY <2>1, <3>2, <3>3, <3>4 DEF Together
  <2>6. ASSUME e.status[v] = GetAllocationStatus(st2[o]), NEW w \in ShownWith(c, q, v) \cap Shown(c, q)
        PROVE  e.views[w] = Current(st2, c, q, w)
    <3>1. CASE ~st2[o].on
      <4>1. e.status[v] = 0
        BY <2>6, <3>1 DEF GetAllocationStatus
      <4>2. e.views[w] = NoStorage
        BY <2>3, <4>1 DEF Faithful
      <4>3. Current(st2, c, q, w) = NoStorage
        BY <2>5, <3>1 DEF Current, Data, IsVariable
      <4>4. QED
        BY <4>2, <4>3
    <3>2. CASE st2[o].on
      <4>1. e.status[v] = st2[o].n /\ store[o].n = st2[o].n
        BY <2>2, <2>4, <2>6, <3>2 DEF GetAllocationStatus, IsVariable
      <4>2. store[o].on
        BY <2>1, <2>2, <3>2, <4>1 DEF Moves, IsVariable
      <4>3. e.views[w] = Current(store, c, q, w)
        BY <2>3, <4>1, <4>2 DEF Faithful, GetAllocationStatus
      <4>4. /\ store[c.vars[w]].on /\ st2[c.vars[w]].on
            /\ c.vars[w] \in DOMAIN store /\ c.vars[w][1] = b
        BY <2>5, <3>2, <4>2
      <4>5. st2[c.vars[w]].n = store[c.vars[w]].n /\ st2[c.vars[w]].coarse = store[c.vars[w]].coarse
        BY <4>4 DEF Moves
      <4>6. QED
        BY <4>3, <4>4, <4>5 DEF Current, Data
    <3>3. QED
      BY <3>1, <3>2
  <2>7. e.status[v] = 0 => \A w \in ShownWith(c, q, v) \cap Shown(c, q) : e.views[w] = NoStorage
    BY <2>3 DEF Faithful
  <2>8. e.status[v] <= st2[o].n
    BY <2>2, <2>4 DEF IsVariable
  <2>9. QED
    BY <2>4, <2>6, <2>7, <2>8 DEF Faithful
<1>2. QED
  BY <1>1 DEF EntryOK

(***************************************************************************)
(* Lemmas about maps.                                                      *)
(***************************************************************************)
LEMMA WithFacts ==
  ASSUME NEW f, NEW x, NEW y
  PROVE  /\ DOMAIN With(f, x, y) = {x} \cup DOMAIN f
         /\ With(f, x, y)[x] = y
         /\ \A z \in DOMAIN f : z # x => With(f, x, y)[z] = f[z]
BY DEF With

LEMMA JoinFacts ==
  ASSUME NEW f, NEW g
  PROVE  /\ DOMAIN Join(f, g) = DOMAIN f \cup DOMAIN g
         /\ \A z \in DOMAIN f : Join(f, g)[z] = f[z]
         /\ \A z \in DOMAIN g : z \notin DOMAIN f => Join(f, g)[z] = g[z]
BY DEF Join

LEMMA AllocatedFacts ==
  ASSUME NEW var, IsVariable(var), NEW o, NEW buf
  PROVE  LET new == Allocated(o, var, buf)
         IN /\ new.n = var.n + 1 /\ new.on
            /\ new.coarse = IF HasCoarse(o[4]) THEN buf ELSE NoStorage
            /\ IsVariable(new)
<1> DEFINE coarse == IF HasCoarse(o[4]) THEN buf ELSE NoStorage
<1>1. Allocated(o, var, buf) = [var EXCEPT !.n = var.n + 1, !.on = TRUE, !.coarse = coarse]
  BY DEF Allocated
<1> HIDE DEF coarse
<1> DEFINE new == [var EXCEPT !.n = var.n + 1, !.on = TRUE, !.coarse = coarse]
<1>2. /\ DOMAIN new = {"n", "on", "coarse", "dealloc"}
      /\ new.n = var.n + 1 /\ new.on = TRUE /\ new.coarse = coarse
  BY DEF IsVariable
<1>3. var.n + 1 \in Nat /\ var.n + 1 > 0
  BY DEF IsVariable
<1> HIDE DEF new
<1>4. IsVariable(new)
  BY <1>2, <1>3 DEF IsVariable
<1>5. QED
  BY <1>1, <1>2, <1>4 DEF new, coarse

(* The variables under a controller.                                       *)
LEMMA ControlledFacts ==
  ASSUME Inverted, Resolved, FluxesResolved, NEW c, NEW v
  PROVE  v \in GetControlledVariables(c) <=> v \in DOMAIN Fields /\ Controller(v) = c
<1>1. /\ resolved.controlled = InvertControllerMap(resolved.sd.reverse)
      /\ DOMAIN resolved.sd.reverse = DOMAIN Fields
  BY DEF Inverted, FluxesResolved, Fields
<1>2. QED
  BY <1>1 DEF GetControlledVariables, InvertControllerMap, Controller

(* Deallocation leaves the number of allocations, and no storage.           *)
LEMMA DeallocatedFacts ==
  ASSUME NEW var, IsVariable(var)
  PROVE  /\ Deallocate(var).n = var.n /\ Deallocate(var).on = FALSE
         /\ Deallocate(var).coarse = NoStorage /\ IsVariable(Deallocate(var))
BY DEF Deallocate, IsVariable

LEMMA NotAllocated ==
  ASSUME NEW var, IsVariable(var), ~var.on
  PROVE  var.on = FALSE /\ var.coarse = NoStorage
BY DEF IsVariable

(***************************************************************************)
(* Allocation and deallocation reach every object of the variables named.  *)
(***************************************************************************)
LEMMA AllocateAll ==
  ASSUME Built_, NEW b \in Blocks, NEW vs
  PROVE  /\ DOMAIN AllocateVars(b, vs) = DOMAIN store
         /\ \A o \in DOMAIN store :
              AllocateVars(b, vs)[o] =
                IF o[1] = b /\ o[4] \in vs /\ ~store[o].on
                THEN Allocated(o, store[o], <<BaseObject(b, generation[b], o[4]),
                                              store[BaseObject(b, generation[b], o[4])].n + 1>>)
                ELSE store[o]
<1>1. ASSUME NEW o \in DOMAIN store, o[1] = b, ~store[o].on
      PROVE  LET base == BaseObject(b, generation[b], o[4])
             IN /\ mbd[b]["base"].vars[o[4]] = base
                /\ o = base \/ o \in OwnedIn(b, o[4])
                /\ ~store[base].on
  <2> DEFINE base == BaseObject(b, generation[b], o[4])
  <2>1. Home(o)
    BY DEF Built_, Objects
  <2>2. o[4] \in DOMAIN Fields
    BY <1>1, <2>1 DEF Home, Built_, Objects, Holds
  <2>0. "base" \in DOMAIN mbd[b] /\ mbd[b]["base"] = BaseContainer(b, generation[b])
    BY DEF Built_, Containers
  <2>3. mbd[b]["base"].vars[o[4]] = base
    BY <2>0, <2>2 DEF BaseContainer
  <2>4. base \in DOMAIN store /\ base[1] = b /\ base[4] = o[4]
    <3>1. o[4] \in DOMAIN mbd[b]["base"].vars
      BY <2>0, <2>2 DEF BaseContainer
    <3>2. QED
      BY <2>0, <2>3, <3>1 DEF Built_, Objects, Holds
  <2>5. ~store[base].on
    BY <1>1, <2>4 DEF Built_, Together
  <2>6. CASE o[3] = "base"
    BY <1>1, <2>1, <2>3, <2>5, <2>6 DEF Home
  <2>7. CASE o[3] # "base"
    <3>1. o \in OwnedIn(b, o[4])
      BY <1>1, <2>1, <2>7 DEF Home, OwnedIn
    <3>2. QED
      BY <2>3, <2>5, <3>1
  <2>8. QED
    BY <2>6, <2>7
<1>2. DOMAIN AllocateVars(b, vs) = DOMAIN store
  BY DEF AllocateVars
<1>3. ASSUME NEW o \in DOMAIN store
      PROVE  AllocateVars(b, vs)[o] =
                IF o[1] = b /\ o[4] \in vs /\ ~store[o].on
                THEN Allocated(o, store[o], <<BaseObject(b, generation[b], o[4]),
                                              store[BaseObject(b, generation[b], o[4])].n + 1>>)
                ELSE store[o]
  <2>1. CASE ~(o[1] = b /\ o[4] \in vs /\ ~store[o].on)
    BY <2>1 DEF AllocateVars
  <2>2. CASE o[1] = b /\ o[4] \in vs /\ ~store[o].on
    BY <1>1, <2>2 DEF AllocateVars
  <2>3. QED
    BY <2>1, <2>2
<1>4. QED
  BY <1>2, <1>3

LEMMA DeallocateAll ==
  ASSUME Built_, NEW st, DOMAIN st = DOMAIN store, NEW dropped
  PROVE  /\ DOMAIN DeallocateVars(st, dropped) = DOMAIN store
         /\ \A o \in DOMAIN store :
              DeallocateVars(st, dropped)[o] =
                IF <<o[1], o[4]>> \in dropped /\ st[o].on THEN Deallocate(st[o]) ELSE st[o]
<1>1. \A o \in DOMAIN store : o \in HeldIn(o[1], o[4])
  BY DEF Built_, Objects, Home, HeldIn
<1>2. QED
  BY <1>1 DEF DeallocateVars

-----------------------------------------------------------------------------
(***************************************************************************)
(* Once the packages are resolved, nothing that is said in their terms     *)
(* changes its meaning.                                                    *)
(***************************************************************************)
LEMMA SameFlags ==
  ASSUME resolved' = resolved
  PROVE  /\ Fields' = Fields
         /\ \A v : /\ Flags(v)' = Flags(v) /\ Controller(v)' = Controller(v)
                   /\ FluxOf(v)' = FluxOf(v) /\ (HasCoarse(v) <=> HasCoarse(v)')
         /\ Resolved' = Resolved
BY DEF Fields, Flags, Controller, FluxOf, HasCoarse, Resolved

LEMMA SameEntry ==
  ASSUME resolved' = resolved, NEW st, NEW c, NEW q, NEW e, EntryOK(st, c, q, e)
  PROVE  EntryOK(st, c, q, e)'
<1>1. ListOf(c, q)' = ListOf(c, q)
  BY DEF ListOf
<1>2. FluxesOf(ListOf(c, q))' = FluxesOf(ListOf(c, q))
  BY <1>1, SameFlags DEF FluxesOf
<1>3. Watched(c, q)' = Watched(c, q) /\ Shown(c, q)' = Shown(c, q) /\ WithFlux(q)' = WithFlux(q)
  BY <1>1, <1>2 DEF Watched, Shown, WithFlux
<1>4. \A v : ShownWith(c, q, v)' = ShownWith(c, q, v)
  BY <1>1, <1>3, SameFlags DEF ShownWith
<1>5. \A w : Current(st, c, q, w)' = Current(st, c, q, w)
  BY DEF Current, Data
<1>6. ASSUME NEW v \in Watched(c, q) \cap DOMAIN c.vars
      PROVE  Faithful(st, c, q, e, v)'
  <2>1. Faithful(st, c, q, e, v)
    BY DEF EntryOK
  <2>2. GetAllocationStatus(st[c.vars[v]])' = GetAllocationStatus(st[c.vars[v]])
    BY DEF GetAllocationStatus
  <2>3. QED
    BY <1>3, <1>4, <1>5, <2>1, <2>2 DEF Faithful
<1>7. QED
  BY <1>3, <1>6 DEF EntryOK

LEMMA SameTogether ==
  ASSUME resolved' = resolved, NEW st, Together(st)
  PROVE  Together(st)'
<1>1. /\ \A o : HasCoarse(o[4])' <=> HasCoarse(o[4])
      /\ \A o : Controller(o[4])' = Controller(o[4])
      /\ \A var, v : AsMade(var, v)' <=> AsMade(var, v)
  BY SameFlags DEF AsMade, AllocatedAtStart, IsSparse
<1>2. QED
  BY <1>1 DEF Together, IsVariable, NoStorage

LEMMA SamePacksSound ==
  ASSUME resolved' = resolved
  PROVE  PacksSound' = PacksSound
BY SameFlags DEF PacksSound, FluxesStartAlike, AllocatedAtStart, IsSparse

(* A block that remains keeps the entries of its cache.                    *)
LEMMA BlockEntriesKept ==
  ASSUME Built_, DescriptorSound, PacksSound, resolved' = resolved, Together(store'), NEW gone,
         \A b \in Blocks \ gone :
           /\ Moves(b, store, store')
           /\ DOMAIN mbd[b] \subseteq DOMAIN mbd'[b]
           /\ \A s \in DOMAIN mbd[b] : mbd'[b][s] = mbd[b][s]
           /\ blockCache'[b] = blockCache[b],
         \A b \in gone : DOMAIN blockCache'[b] = {}
  PROVE  BlockEntries'
<1>1. SUFFICES ASSUME NEW b \in Blocks, NEW key \in DOMAIN blockCache'[b]
               PROVE  /\ key.kind \in PackKinds
                      /\ key.stage \in DOMAIN mbd'[b]
                      /\ EntryOK(store, mbd[b][key.stage], Query(key.kind, key.vars),
                                 blockCache[b][key])'
  BY DEF BlockEntries, BlockCacheOK
<1>2. b \in Blocks \ gone /\ key \in DOMAIN blockCache[b] /\ blockCache'[b] = blockCache[b]
  OBVIOUS
<1>3. /\ key.kind \in PackKinds
      /\ key.stage \in DOMAIN mbd[b]
      /\ EntryOK(store, mbd[b][key.stage], Query(key.kind, key.vars), blockCache[b][key])
  BY <1>2 DEF Built_, BlockEntries, BlockCacheOK
<1>4. Holds(b, mbd[b][key.stage]) /\ FluxesResolved /\ FluxesStartAlike /\ Together(store)
  BY <1>3 DEF Built_, Objects, DescriptorSound, PacksSound
<1>5. Moves(b, store, store')
  BY <1>2
<1>6. EntryOK(store', mbd[b][key.stage], Query(key.kind, key.vars), blockCache[b][key])
  BY <1>3, <1>4, <1>5, EntryKept DEF Query
<1>7. mbd'[b][key.stage] = mbd[b][key.stage] /\ key.stage \in DOMAIN mbd'[b]
  BY <1>2, <1>3
<1>8. EntryOK(store', mbd'[b][key.stage], Query(key.kind, key.vars), blockCache'[b][key])
  BY <1>2, <1>6, <1>7
<1>9. QED
  BY <1>3, <1>7, <1>8, SameEntry

(* While all blocks remain, so do the entries of the mesh's caches.        *)
LEMMA MeshEntriesKept ==
  ASSUME Built_, DescriptorSound, PacksSound, resolved' = resolved, Together(store'),
         meshCache' = meshCache, meshStages \subseteq meshStages',
         \A b \in Blocks :
           /\ Moves(b, store, store')
           /\ \A s \in DOMAIN mbd[b] : mbd'[b][s] = mbd[b][s]
  PROVE  MeshEntries'
<1>1. SUFFICES ASSUME NEW s \in DOMAIN meshCache, NEW key \in DOMAIN meshCache[s]
               PROVE  /\ s \in meshStages'
                      /\ key.kind \in PackKinds \ {"coarse"}
                      /\ \A b \in Blocks :
                           EntryOK(store, mbd[b][s], Query(key.kind, key.vars[b]),
                                   OfBlock(meshCache[s][key], b))'
  BY DEF MeshEntries, MeshCacheOK
<1>2. s \in meshStages /\ s \in meshStages' /\ key.kind \in PackKinds \ {"coarse"}
  BY DEF Built_, MeshEntries, MeshCacheOK
<1>3. ASSUME NEW b \in Blocks
      PROVE  EntryOK(store, mbd[b][s], Query(key.kind, key.vars[b]),
                                   OfBlock(meshCache[s][key], b))'
  <2>1. EntryOK(store, mbd[b][s], Query(key.kind, key.vars[b]), OfBlock(meshCache[s][key], b))
    BY DEF Built_, MeshEntries, MeshCacheOK
  <2>2. /\ s \in DOMAIN mbd[b] /\ Holds(b, mbd[b][s])
        /\ FluxesResolved /\ FluxesStartAlike /\ Together(store)
    BY <1>2 DEF Built_, Objects, Containers, DescriptorSound, PacksSound
  <2>3. EntryOK(store', mbd[b][s], Query(key.kind, key.vars[b]), OfBlock(meshCache[s][key], b))
    BY <1>2, <2>1, <2>2, EntryKept DEF Query
  <2>4. mbd'[b][s] = mbd[b][s]
    BY <2>2
  <2>5. QED
    BY <2>3, <2>4, SameEntry
<1>4. QED
  BY <1>2, <1>3

(* What the store does while containers and caches stay.                   *)
LEMMA StoreStep ==
  ASSUME Built_, DescriptorSound, Inverted, DOMAIN store' = DOMAIN store,
         \A b \in Blocks : Moves(b, store, store'), Together(store'),
         pack' = NoPack,
         UNCHANGED <<generation, mbd, meshStages, blockCache, meshCache, packages, resolved>>
  PROVE  IInv'
<1>0. resolved' = resolved /\ FluxesResolved /\ Together(store) /\ Resolved
  BY DEF Built_, DescriptorSound
<1>1. Inverted' /\ Resolved'
  BY <1>0 DEF Inverted, Resolved
<1>2. Containers'
  BY <1>0 DEF Built_, Containers, BaseContainer, BaseObject, Fields
<1>3. Objects'
  <2>1. \A o \in DOMAIN store : Home(o)'
    BY <1>0, SameFlags DEF Built_, Objects, Home
  <2>2. \A b \in Blocks : \A s \in DOMAIN mbd[b] : Holds(b, mbd[b][s])'
    BY <1>0, SameFlags DEF Built_, Objects, Holds
  <2>3. QED
    BY <2>1, <2>2 DEF Objects
<1>4. Together(store)'
  <2>1. ASSUME NEW st, st = store'
        PROVE  Together(st)'
    BY <1>0, <2>1, SameTogether
  <2>2. QED
    BY <2>1
<1>5. PacksSound => BlockEntries'
  <2>1. ASSUME PacksSound, NEW gone, gone = {}
        PROVE  BlockEntries'
    <3>1. \A b \in Blocks \ gone :
            /\ Moves(b, store, store')
            /\ DOMAIN mbd[b] \subseteq DOMAIN mbd'[b]
            /\ \A s \in DOMAIN mbd[b] : mbd'[b][s] = mbd[b][s]
            /\ blockCache'[b] = blockCache[b]
      OBVIOUS
    <3>2. \A b \in gone : DOMAIN blockCache'[b] = {}
      BY <2>1
    <3>3. QED
      BY <1>0, <2>1, <3>1, <3>2, BlockEntriesKept
  <2>2. QED
    BY <2>1
<1>6. PacksSound => MeshEntries'
  BY <1>0, MeshEntriesKept
<1>7. PacksViewCurrentStorage'
  BY DEF PacksViewCurrentStorage
<1>8. QED
  BY <1>0, <1>1, <1>2, <1>3, <1>4, <1>5, <1>6, <1>7, SamePacksSound DEF IInv, Built_

(***************************************************************************)
(* The steps that allocate and free.                                       *)
(***************************************************************************)
LEMMA StepAllocateSparse ==
  ASSUME Built_, DescriptorSound, Inverted, NEW b \in Blocks, NEW v, NEW only \in BOOLEAN,
         AllocateSparse(b, v, only)
  PROVE  IInv'
<1> DEFINE c == IF only THEN v ELSE resolved.sd.reverse[v]
           vs == GetControlledVariables(c)
           st2 == AllocateVars(b, vs)
<1>1. /\ store' = st2 /\ pack' = NoPack
      /\ UNCHANGED <<generation, mbd, meshStages, blockCache, meshCache, packages, resolved>>
  BY DEF AllocateSparse
<1>2. /\ DOMAIN st2 = DOMAIN store
      /\ \A o \in DOMAIN store :
           st2[o] =
             IF o[1] = b /\ o[4] \in vs /\ ~store[o].on
             THEN Allocated(o, store[o], <<BaseObject(b, generation[b], o[4]),
                                           store[BaseObject(b, generation[b], o[4])].n + 1>>)
             ELSE store[o]
  BY AllocateAll
<1>3. \A o \in DOMAIN store : o[4] \in DOMAIN Fields
  BY DEF Built_, Objects, Home, Holds
<1>4. \A w \in DOMAIN Fields : w \in vs <=> Controller(w) = c
  BY ControlledFacts DEF Built_, DescriptorSound
<1>5. Together(store)
  BY DEF Built_
<1> HIDE DEF c, vs, st2
<1>6. ASSUME NEW o \in DOMAIN store, o[1] = b /\ o[4] \in vs /\ ~store[o].on
      PROVE  /\ st2[o].n = store[o].n + 1 /\ st2[o].on
             /\ st2[o].coarse = IF HasCoarse(o[4])
                                THEN <<BaseObject(b, generation[b], o[4]),
                                       store[BaseObject(b, generation[b], o[4])].n + 1>>
                                ELSE NoStorage
             /\ IsVariable(st2[o])
  <2>1. IsVariable(store[o])
    BY <1>5 DEF Together
  <2>2. st2[o] = Allocated(o, store[o], <<BaseObject(b, generation[b], o[4]),
                                         store[BaseObject(b, generation[b], o[4])].n + 1>>)
    BY <1>2, <1>6
  <2>3. QED
    BY <2>1, <2>2, AllocatedFacts
<1>7. \A a \in Blocks : Moves(a, store, st2)
  <2>1. \A o \in DOMAIN store : st2[o] = store[o] \/ (st2[o].n = store[o].n + 1 /\ ~store[o].on)
    BY <1>2, <1>6
  <2>2. QED
    BY <1>2, <2>1 DEF Moves
<1>8. Together(st2)
  <2>1. ASSUME NEW o \in DOMAIN store
        PROVE  IsVariable(st2[o]) /\ (HasCoarse(o[4]) \/ st2[o].coarse = NoStorage)
    <3>1. CASE o[1] = b /\ o[4] \in vs /\ ~store[o].on
      <4>1. /\ IsVariable(st2[o])
            /\ st2[o].coarse = IF HasCoarse(o[4])
                               THEN <<BaseObject(b, generation[b], o[4]),
                                      store[BaseObject(b, generation[b], o[4])].n + 1>>
                               ELSE NoStorage
        BY <1>6, <3>1
      <4>2. QED
        BY <4>1
    <3>2. CASE ~(o[1] = b /\ o[4] \in vs /\ ~store[o].on)
      <4>1. st2[o] = store[o]
        BY <1>2, <3>2
      <4>2. QED
        BY <1>5, <4>1 DEF Together
    <3>3. QED
      BY <3>1, <3>2
  <2>2. ASSUME NEW o \in DOMAIN store, NEW p \in DOMAIN store, o[1] = p[1],
               Controller(o[4]) = Controller(p[4])
        PROVE  /\ \/ st2[o].on = st2[p].on
                  \/ AsMade(st2[o], o[4]) /\ AsMade(st2[p], p[4])
               /\ o[4] = p[4] => st2[o].on = st2[p].on
    <3>1. o[4] \in vs <=> p[4] \in vs
      BY <1>3, <1>4, <2>2
    <3>2. ASSUME NEW x \in DOMAIN store, x[1] = b, x[4] \in vs
          PROVE  st2[x].on = TRUE
      <4>1. st2[x].on /\ IsVariable(st2[x])
        BY <1>2, <1>6, <2>1, <3>2
      <4>2. QED
        BY <4>1 DEF IsVariable
    <3>3. CASE o[1] = b /\ o[4] \in vs
      BY <2>2, <3>1, <3>2, <3>3
    <3>4. CASE ~(o[1] = b /\ o[4] \in vs)
      <4>1. st2[o] = store[o] /\ st2[p] = store[p]
        BY <1>2, <2>2, <3>1, <3>4
      <4>2. QED
        BY <1>5, <2>2, <4>1 DEF Together
    <3>5. QED
      BY <3>3, <3>4
  <2>3. ASSUME NEW o \in DOMAIN store, NEW p \in DOMAIN store, o[1] = p[1], o[4] = p[4]
        PROVE  st2[o].coarse = st2[p].coarse
    <3>1. store[o].on = store[p].on /\ store[o].coarse = store[p].coarse
      BY <1>5, <2>3 DEF Together
    <3>2. CASE o[1] = b /\ o[4] \in vs /\ ~store[o].on
      <4> DEFINE buf == IF HasCoarse(o[4])
                        THEN <<BaseObject(b, generation[b], o[4]),
                               store[BaseObject(b, generation[b], o[4])].n + 1>>
                        ELSE NoStorage
      <4>1. st2[o].coarse = buf
        BY <1>6, <3>2
      <4>2. st2[p].coarse = buf
        BY <1>6, <2>3, <3>1, <3>2
      <4>3. QED
        BY <4>1, <4>2
    <3>3. CASE ~(o[1] = b /\ o[4] \in vs /\ ~store[o].on)
      BY <1>2, <2>3, <3>1, <3>3
    <3>4. QED
      BY <3>2, <3>3
  <2>4. QED
    BY <1>2, <2>1, <2>2, <2>3 DEF Together
<1>9. QED
  BY <1>1, <1>2, <1>7, <1>8, StoreStep

(* Freeing the variables under some controllers, whatever becomes of the   *)
(* counters of SparseDealloc (`st' differs in these).                      *)
LEMMA Freed ==
  ASSUME Built_, DescriptorSound, Inverted, NEW st, NEW dropped,
         DOMAIN st = DOMAIN store,
         \A o \in DOMAIN store :
           /\ IsVariable(st[o])
           /\ st[o].n = store[o].n /\ st[o].on = store[o].on /\ st[o].coarse = store[o].coarse,
         \A b \in Blocks, v, w \in DOMAIN Fields :
           Controller(v) = Controller(w) => (<<b, v>> \in dropped <=> <<b, w>> \in dropped)
  PROVE  /\ DOMAIN DeallocateVars(st, dropped) = DOMAIN store
         /\ \A b \in Blocks : Moves(b, store, DeallocateVars(st, dropped))
         /\ Together(DeallocateVars(st, dropped))
<1> DEFINE st2 == DeallocateVars(st, dropped)
<1>1. /\ DOMAIN st2 = DOMAIN store
      /\ \A o \in DOMAIN store :
           st2[o] = IF <<o[1], o[4]>> \in dropped /\ st[o].on THEN Deallocate(st[o]) ELSE st[o]
  BY DeallocateAll
<1>2. \A o \in DOMAIN store : o[4] \in DOMAIN Fields /\ o[1] \in Blocks
  BY DEF Built_, Objects, Home, Holds
<1>3. Together(store)
  BY DEF Built_
<1> HIDE DEF st2
<1>4. ASSUME NEW o \in DOMAIN store, <<o[1], o[4]>> \in dropped
      PROVE  /\ st2[o].n = store[o].n /\ st2[o].on = FALSE /\ st2[o].coarse = NoStorage
             /\ IsVariable(st2[o])
  <2>1. IsVariable(st[o]) /\ st[o].n = store[o].n
    OBVIOUS
  <2>2. CASE st[o].on
    <3>1. st2[o] = Deallocate(st[o])
      BY <1>1, <1>4, <2>2
    <3>2. QED
      <4>1. /\ Deallocate(st[o]).n = st[o].n /\ Deallocate(st[o]).on = FALSE
            /\ Deallocate(st[o]).coarse = NoStorage /\ IsVariable(Deallocate(st[o]))
        BY <2>1, DeallocatedFacts
      <4>2. QED
        BY <2>1, <3>1, <4>1
  <2>3. CASE ~st[o].on
    <3>1. st2[o] = st[o]
      BY <1>1, <2>3
    <3>2. st[o].on = FALSE /\ st[o].coarse = NoStorage
      BY <2>1, <2>3, NotAllocated
    <3>3. QED
      BY <2>1, <3>1, <3>2
  <2>4. QED
    BY <2>2, <2>3
<1>5. ASSUME NEW o \in DOMAIN store, <<o[1], o[4]>> \notin dropped
      PROVE  st2[o] = st[o] /\ IsVariable(st2[o]) /\ st2[o].n = store[o].n
             /\ st2[o].on = store[o].on /\ st2[o].coarse = store[o].coarse
  <2>1. st2[o] = st[o]
    BY <1>1, <1>5
  <2>2. /\ IsVariable(st[o])
        /\ st[o].n = store[o].n /\ st[o].on = store[o].on /\ st[o].coarse = store[o].coarse
    OBVIOUS
  <2>3. QED
    BY <2>1, <2>2
<1>6. \A b \in Blocks : Moves(b, store, st2)
  <2>1. ASSUME NEW o \in DOMAIN store
        PROVE  \/ st2[o].n = store[o].n /\ st2[o].on = store[o].on /\ st2[o].coarse = store[o].coarse
               \/ st2[o].n = store[o].n /\ ~st2[o].on
    BY <1>4, <1>5
  <2>2. QED
    BY <1>1, <2>1 DEF Moves
<1>7. Together(st2)
  <2>1. ASSUME NEW o \in DOMAIN store
        PROVE  IsVariable(st2[o]) /\ (HasCoarse(o[4]) \/ st2[o].coarse = NoStorage)
    <3>1. CASE <<o[1], o[4]>> \in dropped
      BY <1>4, <3>1
    <3>2. CASE <<o[1], o[4]>> \notin dropped
      <4>1. HasCoarse(o[4]) \/ store[o].coarse = NoStorage
        BY <1>3 DEF Together
      <4>2. QED
        BY <1>5, <3>2, <4>1
    <3>3. QED
      BY <3>1, <3>2
  <2>2. ASSUME NEW o \in DOMAIN store, NEW p \in DOMAIN store, o[1] = p[1],
               Controller(o[4]) = Controller(p[4])
        PROVE  /\ \/ st2[o].on = st2[p].on
                  \/ AsMade(st2[o], o[4]) /\ AsMade(st2[p], p[4])
               /\ o[4] = p[4] => st2[o].on = st2[p].on
    <3>1. <<o[1], o[4]>> \in dropped <=> <<p[1], p[4]>> \in dropped
      BY <1>2, <2>2
    <3>2. /\ \/ store[o].on = store[p].on
             \/ AsMade(store[o], o[4]) /\ AsMade(store[p], p[4])
          /\ o[4] = p[4] => store[o].on = store[p].on
      BY <1>3, <2>2 DEF Together
    <3>3. CASE <<o[1], o[4]>> \in dropped
      <4>1. st2[o].on = FALSE
        BY <1>4, <3>3
      <4>2. st2[p].on = FALSE
        BY <1>4, <3>1, <3>3
      <4>3. QED
        BY <4>1, <4>2
    <3>4. CASE <<o[1], o[4]>> \notin dropped
      <4>1. st2[o].on = store[o].on /\ st2[o].n = store[o].n
        BY <1>5, <3>4
      <4>2. st2[p].on = store[p].on /\ st2[p].n = store[p].n
        BY <1>5, <3>1, <3>4
      <4>3. QED
        BY <3>2, <4>1, <4>2 DEF AsMade
    <3>5. QED
      BY <3>3, <3>4
  <2>3. ASSUME NEW o \in DOMAIN store, NEW p \in DOMAIN store, o[1] = p[1], o[4] = p[4]
        PROVE  st2[o].coarse = st2[p].coarse
    <3>1. store[o].coarse = store[p].coarse
      BY <1>3, <2>3 DEF Together
    <3>2. <<o[1], o[4]>> = <<p[1], p[4]>>
      BY <2>3
    <3>3. CASE <<o[1], o[4]>> \in dropped
      <4>1. st2[o].coarse = NoStorage
        BY <1>4, <3>3
      <4>2. st2[p].coarse = NoStorage
        BY <1>4, <3>2, <3>3
      <4>3. QED
        BY <4>1, <4>2
    <3>4. CASE <<o[1], o[4]>> \notin dropped
      <4>1. st2[o].coarse = store[o].coarse
        BY <1>5, <3>4
      <4>2. st2[p].coarse = store[p].coarse
        BY <1>5, <3>2, <3>4
      <4>3. QED
        BY <3>1, <4>1, <4>2
    <3>5. QED
      BY <3>3, <3>4
  <2>4. QED
    BY <1>1, <2>1, <2>2, <2>3 DEF Together
<1>8. QED
  BY <1>1, <1>6, <1>7 DEF st2

LEMMA StepDeallocateSparse ==
  ASSUME Built_, DescriptorSound, Inverted, NEW b \in Blocks, NEW v, DeallocateSparse(b, v)
  PROVE  IInv'
<1> DEFINE dropped == {b} \X GetControlledVariables(v)
<1>1. /\ store' = DeallocateVars(store, dropped) /\ pack' = NoPack
      /\ UNCHANGED <<generation, mbd, meshStages, blockCache, meshCache, packages, resolved>>
  BY DEF DeallocateSparse
<1>2. ASSUME NEW a \in Blocks, NEW w \in DOMAIN Fields, NEW x \in DOMAIN Fields,
             Controller(w) = Controller(x)
      PROVE  <<a, w>> \in dropped <=> <<a, x>> \in dropped
  <2>1. w \in GetControlledVariables(v) <=> x \in GetControlledVariables(v)
    BY <1>2, ControlledFacts DEF Built_, DescriptorSound
  <2>2. QED
    BY <2>1
<1>3. \A o \in DOMAIN store : IsVariable(store[o])
  BY DEF Built_, Together
<1> HIDE DEF dropped
<1>4. /\ DOMAIN DeallocateVars(store, dropped) = DOMAIN store
      /\ \A a \in Blocks : Moves(a, store, DeallocateVars(store, dropped))
      /\ Together(DeallocateVars(store, dropped))
  BY <1>2, <1>3, Freed
<1>5. QED
  BY <1>1, <1>4, StoreStep

LEMMA StepSparseDealloc ==
  ASSUME Built_, DescriptorSound, Inverted, SparseDealloc
  PROVE  IInv'
<1> DEFINE Control(b) == {v \in GetControlVariables \cap DOMAIN Fields :
                           IsSparse(v) /\ store[mbd[b]["base"].vars[v]].on}
           Swept == UNION {{mbd[b]["base"].vars[v] : v \in Control(b)} : b \in Blocks}
<1>1. PICK zero \in SUBSET Swept :
          LET Count_(o) == IF o \in zero THEN store[o].dealloc + 1 ELSE 0
              Due == {o \in Swept : Count_(o) > DeallocationCount}
              counted == [o \in DOMAIN store |->
                            IF o \in Swept
                            THEN [store[o] EXCEPT !.dealloc = IF o \in Due THEN 0 ELSE Count_(o)]
                            ELSE store[o]]
          IN store' = DeallocateVars(counted,
                        UNION {{o[1]} \X GetControlledVariables(o[4]) : o \in Due})
  BY Zenon DEF SparseDealloc
<1> DEFINE Count_(o) == IF o \in zero THEN store[o].dealloc + 1 ELSE 0
           Due == {o \in Swept : Count_(o) > DeallocationCount}
           counted == [o \in DOMAIN store |->
                         IF o \in Swept
                         THEN [store[o] EXCEPT !.dealloc = IF o \in Due THEN 0 ELSE Count_(o)]
                         ELSE store[o]]
           dropped == UNION {{o[1]} \X GetControlledVariables(o[4]) : o \in Due}
<1>2. /\ store' = DeallocateVars(counted, dropped) /\ pack' = NoPack
      /\ UNCHANGED <<generation, mbd, meshStages, blockCache, meshCache, packages, resolved>>
  BY <1>1, Zenon DEF SparseDealloc
<1> HIDE DEF Control, Count_, Swept, Due
<1>3. /\ DOMAIN counted = DOMAIN store
      /\ \A o \in DOMAIN store :
           /\ IsVariable(counted[o])
           /\ counted[o].n = store[o].n /\ counted[o].on = store[o].on
           /\ counted[o].coarse = store[o].coarse
  <2>1. ASSUME NEW o \in DOMAIN store
        PROVE  /\ IsVariable(counted[o])
               /\ counted[o].n = store[o].n /\ counted[o].on = store[o].on
               /\ counted[o].coarse = store[o].coarse
    <3>1. IsVariable(store[o])
      BY DEF Built_, Together
    <3>2. CASE o \in Swept
      <4> DEFINE k == IF o \in Due THEN 0 ELSE Count_(o)
      <4>1. counted[o] = [store[o] EXCEPT !.dealloc = k]
        BY <3>2
      <4> HIDE DEF k, counted
      <4>2. QED
        BY <3>1, <4>1 DEF IsVariable
    <3>3. CASE o \notin Swept
      BY <3>1, <3>3
    <3>4. QED
      BY <3>2, <3>3
  <2>2. DOMAIN counted = DOMAIN store
    OBVIOUS
  <2> HIDE DEF counted
  <2>3. QED
    BY <2>1, <2>2
<1> HIDE DEF counted
<1>4. ASSUME NEW a \in Blocks, NEW w \in DOMAIN Fields, NEW x \in DOMAIN Fields,
             Controller(w) = Controller(x)
      PROVE  <<a, w>> \in dropped <=> <<a, x>> \in dropped
  <2>1. \A c : w \in GetControlledVariables(c) <=> x \in GetControlledVariables(c)
    BY <1>4, ControlledFacts DEF Built_, DescriptorSound
  <2>2. QED
    BY <2>1
<1> HIDE DEF dropped
<1>5. /\ DOMAIN DeallocateVars(counted, dropped) = DOMAIN store
      /\ \A a \in Blocks : Moves(a, store, DeallocateVars(counted, dropped))
      /\ Together(DeallocateVars(counted, dropped))
  <2>1. \A a \in Blocks, w, x \in DOMAIN Fields :
          Controller(w) = Controller(x) => (<<a, w>> \in dropped <=> <<a, x>> \in dropped)
    BY <1>4
  <2>2. QED
    BY <1>3, <2>1, Freed, Zenon
<1>6. /\ DOMAIN store' = DOMAIN store /\ Together(store')
      /\ \A a \in Blocks : Moves(a, store, store')
  BY <1>2, <1>5, Zenon
<1>7. QED
  BY <1>2, <1>6, StoreStep, Zenon

-----------------------------------------------------------------------------
(***************************************************************************)
(* The steps that ask for packs.                                           *)
(***************************************************************************)
LEMMA SameViews ==
  ASSUME resolved' = resolved, store' = store, NEW c, NEW q
  PROVE  Views(c, q)' = Views(c, q)
<1>1. ListOf(c, q)' = ListOf(c, q)
  BY DEF ListOf
<1>2. FluxesOf(ListOf(c, q))' = FluxesOf(ListOf(c, q))
  BY <1>1, SameFlags DEF FluxesOf
<1>3. QED
  BY <1>1, <1>2 DEF Views, Data

LEMMA ReadStep ==
  ASSUME Built_, Inverted,
         UNCHANGED <<generation, mbd, store, meshStages, packages, resolved>>,
         DOMAIN blockCache' = Blocks, DOMAIN meshCache' = DOMAIN meshCache,
         PacksSound => /\ \A b \in Blocks : BlockCacheOK(b, blockCache'[b])
                       /\ \A s \in DOMAIN meshCache : MeshCacheOK(s, meshCache'[s])
                       /\ PacksViewCurrentStorage'
  PROVE  IInv'
<1>0. resolved' = resolved /\ store' = store /\ mbd' = mbd /\ meshStages' = meshStages
  OBVIOUS
<1>1. Inverted' /\ Resolved'
  BY <1>0 DEF Inverted, Resolved, Built_
<1>2. Containers'
  BY <1>0 DEF Built_, Containers, BaseContainer, BaseObject, Fields
<1>3. Objects'
  <2>1. \A o \in DOMAIN store : Home(o)'
    BY <1>0, SameFlags DEF Built_, Objects, Home
  <2>2. \A b \in Blocks : \A s \in DOMAIN mbd[b] : Holds(b, mbd[b][s])'
    BY <1>0, SameFlags DEF Built_, Objects, Holds
  <2>3. QED
    BY <1>0, <2>1, <2>2 DEF Objects
<1>4. Together(store)'
  BY <1>0, SameTogether DEF Built_
<1>5. PacksSound => BlockEntries'
  <2>1. SUFFICES ASSUME PacksSound, NEW b \in Blocks, NEW key \in DOMAIN blockCache'[b]
                 PROVE  /\ key.kind \in PackKinds
                        /\ key.stage \in DOMAIN mbd'[b]
                        /\ EntryOK(store, mbd[b][key.stage], Query(key.kind, key.vars),
                                   blockCache[b][key])'
    BY DEF BlockEntries, BlockCacheOK
  <2>2. /\ key.kind \in PackKinds
        /\ key.stage \in DOMAIN mbd[b]
        /\ EntryOK(store, mbd[b][key.stage], Query(key.kind, key.vars), blockCache'[b][key])
    BY <2>1 DEF BlockCacheOK
  <2>3. QED
    BY <1>0, <2>2, SameEntry
<1>6. PacksSound => MeshEntries'
  <2>1. SUFFICES ASSUME PacksSound, NEW s \in DOMAIN meshCache', NEW key \in DOMAIN meshCache'[s]
                 PROVE  /\ s \in meshStages
                        /\ key.kind \in PackKinds \ {"coarse"}
                        /\ \A b \in Blocks :
                             EntryOK(store, mbd[b][s], Query(key.kind, key.vars[b]),
                                     OfBlock(meshCache[s][key], b))'
    BY <1>0 DEF MeshEntries, MeshCacheOK
  <2>2. MeshCacheOK(s, meshCache'[s])
    BY <2>1
  <2>3. s \in meshStages /\ key.kind \in PackKinds \ {"coarse"}
    BY <2>2 DEF MeshCacheOK
  <2>4. ASSUME NEW b \in Blocks
        PROVE  EntryOK(store, mbd[b][s], Query(key.kind, key.vars[b]),
                       OfBlock(meshCache[s][key], b))'
    <3>1. EntryOK(store, mbd[b][s], Query(key.kind, key.vars[b]), OfBlock(meshCache'[s][key], b))
      BY <2>2 DEF MeshCacheOK
    <3>2. QED
      BY <1>0, <3>1, SameEntry
  <2>5. QED
    BY <2>3, <2>4
<1>7. QED
  BY <1>0, <1>1, <1>2, <1>3, <1>4, <1>5, <1>6, SamePacksSound DEF IInv, Built_

(* A block's cache after a request, and the pack that is found there.      *)
LEMMA BlockPackOK ==
  ASSUME Built_, DescriptorSound, PacksSound, NEW b \in Blocks, NEW s \in DOMAIN mbd[b],
         NEW q, q.kind \in PackKinds
  PROVE  /\ BlockCacheOK(b, BlockPack(b, s, q))
         /\ BlockPack(b, s, q)[BlockKey(b, s, q)].views = Views(mbd[b][s], q)
<1> DEFINE c == mbd[b][s]
           k == Query(q.kind, KeyVars(c, q))
           key == BlockKey(b, s, q)
           new == [status |-> AllocStatus(c, q), views |-> Views(c, q)]
<1>1. key.stage = s /\ key.kind = q.kind /\ Query(key.kind, key.vars) = k
  BY DEF BlockKey, Query
<1>2. AllocStatus(c, k) = AllocStatus(c, q) /\ Views(c, k) = Views(c, q)
  BY SameAnswer
<1>3. k.kind \in PackKinds /\ (k.kind # "sparse" => k.names \subseteq DOMAIN c.vars)
  BY DEF Query, KeyVars, ListOf
<1>4. /\ Holds(b, c) /\ FluxesResolved /\ FluxesStartAlike /\ Together(store)
      /\ BlockCacheOK(b, blockCache[b])
  BY DEF Built_, Objects, DescriptorSound, BlockEntries, PacksSound
<1>5. BlockPack(b, s, q) = IF Cached(blockCache[b], key, AllocStatus(c, q)) THEN blockCache[b]
                           ELSE With(blockCache[b], key, new)
  BY DEF BlockPack, Refreshed
<1>6. CASE Cached(blockCache[b], key, AllocStatus(c, q))
  <2>1. key \in DOMAIN blockCache[b] /\ blockCache[b][key].status = AllocStatus(c, k)
    BY <1>2, <1>6 DEF Cached
  <2>2. EntryOK(store, c, k, blockCache[b][key])
    BY <1>1, <1>4, <2>1 DEF BlockCacheOK
  <2> HIDE DEF k, key, c
  <2>3. blockCache[b][key].views = Views(c, k)
    BY <1>3, <2>1, <2>2, Hit
  <2>4. QED
    BY <1>2, <1>4, <1>5, <1>6, <2>3 DEF key, c
<1>7. CASE ~Cached(blockCache[b], key, AllocStatus(c, q))
  <2> HIDE DEF k, key, c
  <2>1. EntryOK(store, c, k, new)
    BY <1>2, <1>3, <1>4, NewEntry
  <2> HIDE DEF new
  <2>2. BlockPack(b, s, q) = With(blockCache[b], key, new)
    BY <1>5, <1>7
  <2>3. /\ DOMAIN BlockPack(b, s, q) = {key} \cup DOMAIN blockCache[b]
        /\ BlockPack(b, s, q)[key] = new
        /\ \A z \in DOMAIN blockCache[b] : z # key => BlockPack(b, s, q)[z] = blockCache[b][z]
    BY <2>2 DEF With
  <2>4. BlockCacheOK(b, BlockPack(b, s, q))
    BY <1>1, <1>4, <2>1, <2>3 DEF BlockCacheOK, c
  <2>5. QED
    BY <2>3, <2>4 DEF new, key, c
<1>8. QED
  BY <1>6, <1>7

LEMMA StepGetBlockPack ==
  ASSUME Built_, DescriptorSound, Inverted, NEW q \in Queries,
         NEW b \in Blocks, NEW s \in DOMAIN mbd[b], GetBlockPack(b, s, q)
  PROVE  IInv'
<1>1. q.kind \in PackKinds
  BY ContainersAssumption DEF PackKinds
<1>2. /\ blockCache' = [blockCache EXCEPT ![b] = BlockPack(b, s, q)]
      /\ pack' = [blocks |-> {b}, stage |-> s, query |-> q,
                  views |-> [a \in {b} |-> BlockPack(b, s, q)[BlockKey(b, s, q)].views]]
      /\ UNCHANGED <<generation, mbd, store, meshStages, meshCache, packages, resolved>>
  BY DEF GetBlockPack
<1>3. PacksSound => /\ BlockCacheOK(b, BlockPack(b, s, q))
                    /\ BlockPack(b, s, q)[BlockKey(b, s, q)].views = Views(mbd[b][s], q)
  BY <1>1, BlockPackOK
<1>4. DOMAIN blockCache = Blocks /\ DOMAIN blockCache' = Blocks
  BY <1>2 DEF Built_, Containers
<1>5. PacksSound => \A a \in Blocks : BlockCacheOK(a, blockCache'[a])
  BY <1>2, <1>3, <1>4 DEF Built_, BlockEntries
<1>6. PacksSound => \A t \in DOMAIN meshCache : MeshCacheOK(t, meshCache'[t])
  BY <1>2 DEF Built_, MeshEntries
<1>7. PacksSound => PacksViewCurrentStorage'
  <2>1. Views(mbd[b][s], q)' = Views(mbd[b][s], q)
    BY <1>2, SameViews
  <2>2. /\ pack'.blocks = {b} /\ pack'.stage = s /\ pack'.query = q
        /\ PacksSound => pack'.views[b] = Views(mbd[b][s], q)
    BY <1>2, <1>3
  <2>3. QED
    BY <1>2, <2>1, <2>2 DEF PacksViewCurrentStorage
<1>8. QED
  BY <1>2, <1>4, <1>5, <1>6, <1>7, ReadStep

LEMMA MeshPackOK ==
  ASSUME Built_, DescriptorSound, PacksSound, NEW q \in Queries,
         NEW s \in meshStages, GetMeshPack(s, q)
  PROVE  /\ \A b \in Blocks : BlockCacheOK(b, blockCache'[b])
         /\ \A t \in DOMAIN meshCache : MeshCacheOK(t, meshCache'[t])
         /\ PacksViewCurrentStorage'
<1> DEFINE status == [b \in Blocks |-> AllocStatus(mbd[b][s], q)]
           views == [b \in Blocks |-> Views(mbd[b][s], q)]
           key == MeshKey(s, q)
           cache == Refreshed(meshCache[s], key, status, views)
           K(b) == Query(q.kind, KeyVars(mbd[b][s], q))
<1>1. q.kind \in PackKinds \ {"coarse"}
  BY ContainersAssumption DEF PackKinds, GetMeshPack, PacksSound
<1>2. /\ blockCache' = IF q.kind = "sparse" THEN blockCache
                       ELSE [b \in Blocks |-> BlockPack(b, s, q)]
      /\ meshCache' = [meshCache EXCEPT ![s] = cache]
      /\ pack' = [blocks |-> Blocks, stage |-> s, query |-> q, views |-> cache[key].views]
      /\ UNCHANGED <<generation, mbd, store, meshStages, packages, resolved>>
  BY DEF GetMeshPack
<1>3. /\ s \in DOMAIN meshCache /\ DOMAIN blockCache = Blocks
      /\ \A b \in Blocks : s \in DOMAIN mbd[b] /\ Holds(b, mbd[b][s])
      /\ FluxesResolved /\ FluxesStartAlike /\ Together(store)
      /\ \A t \in DOMAIN meshCache : MeshCacheOK(t, meshCache[t])
  BY DEF Built_, Containers, Objects, DescriptorSound, MeshEntries, PacksSound
<1>4. DOMAIN blockCache' = Blocks /\ \A b \in Blocks : BlockCacheOK(b, blockCache'[b])
  <2>1. CASE q.kind = "sparse"
    BY <1>2, <1>3, <2>1 DEF Built_, BlockEntries
  <2>2. CASE q.kind # "sparse"
    <3>1. \A b \in Blocks : BlockCacheOK(b, BlockPack(b, s, q))
      BY <1>1, <1>3, BlockPackOK
    <3>2. QED
      BY <1>2, <2>2, <3>1
  <2>3. QED
    BY <2>1, <2>2
<1>5. key.kind = q.kind /\ \A b \in Blocks : Query(key.kind, key.vars[b]) = K(b)
  BY <1>1 DEF MeshKey, Query
<1>6. \A b \in Blocks : /\ AllocStatus(mbd[b][s], K(b)) = AllocStatus(mbd[b][s], q)
                        /\ Views(mbd[b][s], K(b)) = Views(mbd[b][s], q)
                        /\ K(b).kind = q.kind
                        /\ K(b).kind # "sparse" => K(b).names \subseteq DOMAIN mbd[b][s].vars
  <2>1. SUFFICES ASSUME NEW b \in Blocks
                 PROVE  /\ AllocStatus(mbd[b][s], K(b)) = AllocStatus(mbd[b][s], q)
                        /\ Views(mbd[b][s], K(b)) = Views(mbd[b][s], q)
                        /\ K(b).kind = q.kind
                        /\ K(b).kind # "sparse" => K(b).names \subseteq DOMAIN mbd[b][s].vars
    OBVIOUS
  <2>2. /\ AllocStatus(mbd[b][s], K(b)) = AllocStatus(mbd[b][s], q)
        /\ Views(mbd[b][s], K(b)) = Views(mbd[b][s], q)
    BY <1>1, SameAnswer
  <2>3. K(b).kind = q.kind /\ (K(b).kind # "sparse" => K(b).names \subseteq DOMAIN mbd[b][s].vars)
    BY DEF Query, KeyVars, ListOf
  <2>4. QED
    BY <2>2, <2>3
<1> HIDE DEF K, key
<1>7. MeshCacheOK(s, cache) /\ \A b \in Blocks : cache[key].views[b] = Views(mbd[b][s], q)
  <2>1. CASE Cached(meshCache[s], key, status)
    <3>1. cache = meshCache[s] /\ key \in DOMAIN meshCache[s] /\ meshCache[s][key].status = status
      BY <2>1 DEF Refreshed, Cached
    <3>2. ASSUME NEW b \in Blocks
          PROVE  meshCache[s][key].views[b] = Views(mbd[b][s], q)
      <4> DEFINE e == OfBlock(meshCache[s][key], b)
      <4>1. EntryOK(store, mbd[b][s], K(b), e)
        BY <1>3, <1>5, <3>1 DEF MeshCacheOK
      <4>2. e.status = AllocStatus(mbd[b][s], K(b)) /\ e.views = meshCache[s][key].views[b]
        BY <1>6, <3>1 DEF OfBlock
      <4>3. K(b).kind \in PackKinds
        BY <1>1, <1>6
      <4> HIDE DEF e
      <4>4. e.views = Views(mbd[b][s], K(b))
        BY <4>1, <4>2, <4>3, Hit
      <4>5. QED
        BY <1>6, <4>2, <4>4
    <3>3. QED
      BY <1>3, <3>1, <3>2
  <2>2. CASE ~Cached(meshCache[s], key, status)
    <3> DEFINE new == [status |-> status, views |-> views]
    <3>1. cache = With(meshCache[s], key, new)
      BY <2>2 DEF Refreshed
    <3>2. ASSUME NEW b \in Blocks
          PROVE  /\ EntryOK(store, mbd[b][s], K(b), OfBlock(new, b))
                 /\ new.views[b] = Views(mbd[b][s], q)
      <4>1. OfBlock(new, b) = [status |-> AllocStatus(mbd[b][s], K(b)),
                               views |-> Views(mbd[b][s], K(b))]
        BY <1>6 DEF OfBlock
      <4>2. K(b).kind \in PackKinds
        BY <1>1, <1>6
      <4>3. EntryOK(store, mbd[b][s], K(b), [status |-> AllocStatus(mbd[b][s], K(b)),
                                             views |-> Views(mbd[b][s], K(b))])
        BY <1>3, <1>6, <4>2, NewEntry
      <4>4. QED
        BY <4>1, <4>3
    <3> HIDE DEF new, cache
    <3>3. /\ DOMAIN cache = {key} \cup DOMAIN meshCache[s] /\ cache[key] = new
          /\ \A z \in DOMAIN meshCache[s] : z # key => cache[z] = meshCache[s][z]
      BY <3>1 DEF With
    <3>4. MeshCacheOK(s, cache)
      BY <1>1, <1>3, <1>5, <3>2, <3>3 DEF MeshCacheOK
    <3>5. QED
      BY <3>2, <3>3, <3>4
  <2>3. QED
    BY <2>1, <2>2
<1> HIDE DEF cache
<1>8. DOMAIN meshCache' = DOMAIN meshCache /\ \A t \in DOMAIN meshCache : MeshCacheOK(t, meshCache'[t])
  BY <1>2, <1>3, <1>7
<1>9. PacksViewCurrentStorage'
  <2>1. \A b \in Blocks : Views(mbd[b][s], q)' = Views(mbd[b][s], q)
    BY <1>2, SameViews
  <2>2. /\ pack'.blocks = Blocks /\ pack'.stage = s /\ pack'.query = q
        /\ \A b \in Blocks : pack'.views[b] = Views(mbd[b][s], q)
    BY <1>2, <1>7
  <2>3. QED
    BY <1>2, <2>1, <2>2 DEF PacksViewCurrentStorage
<1>10. QED
  BY <1>4, <1>8, <1>9

LEMMA StepGetMeshPack ==
  ASSUME Built_, DescriptorSound, Inverted, NEW q \in Queries,
         NEW s \in meshStages, GetMeshPack(s, q)
  PROVE  IInv'
<1>1. /\ DOMAIN blockCache' = Blocks /\ DOMAIN meshCache' = DOMAIN meshCache
      /\ UNCHANGED <<generation, mbd, store, meshStages, packages, resolved>>
  BY DEF GetMeshPack, Built_, Containers
<1>2. QED
  BY <1>1, MeshPackOK, ReadStep

-----------------------------------------------------------------------------
(***************************************************************************)
(* A stage is added.                                                       *)
(***************************************************************************)
(* A variable allocated like another, with its coarse buffer; as the block *)
(* was made, if the other is.                                              *)
Copies(new, old, v) ==
  /\ new.on = old.on /\ new.coarse = old.coarse
  /\ AsMade(old, v) => AsMade(new, v)

LEMMA Descends ==
  ASSUME Together(store), NEW st2,
         \A o \in DOMAIN st2 :
           /\ IsVariable(st2[o])
           /\ \E r \in DOMAIN store : /\ r[1] = o[1] /\ r[4] = o[4]
                                      /\ Copies(st2[o], store[r], o[4])
  PROVE  Together(st2)
<1>1. ASSUME NEW o \in DOMAIN st2
      PROVE  IsVariable(st2[o]) /\ (HasCoarse(o[4]) \/ st2[o].coarse = NoStorage)
  BY DEF Together, Copies
<1>2. ASSUME NEW o \in DOMAIN st2, NEW p \in DOMAIN st2, o[1] = p[1]
      PROVE  /\ Controller(o[4]) = Controller(p[4]) =>
                  \/ st2[o].on = st2[p].on
                  \/ AsMade(st2[o], o[4]) /\ AsMade(st2[p], p[4])
             /\ o[4] = p[4] => st2[o].on = st2[p].on /\ st2[o].coarse = st2[p].coarse
  <2>1. PICK r \in DOMAIN store : r[1] = o[1] /\ r[4] = o[4] /\ Copies(st2[o], store[r], o[4])
    OBVIOUS
  <2>2. PICK t \in DOMAIN store : t[1] = p[1] /\ t[4] = p[4] /\ Copies(st2[p], store[t], p[4])
    OBVIOUS
  <2>3. r[1] = t[1]
    BY <1>2, <2>1, <2>2
  <2>4. /\ Controller(r[4]) = Controller(t[4]) =>
             \/ store[r].on = store[t].on
             \/ AsMade(store[r], r[4]) /\ AsMade(store[t], t[4])
        /\ r[4] = t[4] => store[r].on = store[t].on /\ store[r].coarse = store[t].coarse
    BY <2>3 DEF Together
  <2>5. QED
    BY <2>1, <2>2, <2>4 DEF Copies
<1>3. QED
  BY <1>1, <1>2 DEF Together

(* The container of a new stage, made from a container of the same block,  *)
(* and the objects made for it.                                            *)
StageMade(b, s, new, st) ==
  /\ new.shallow = StageSpec[s].shallow
  /\ \A o \in DOMAIN st :
       /\ o = <<b, generation[b], s, o[4]>> /\ o \notin DOMAIN store
       /\ o[4] \in DOMAIN new.vars /\ new.vars[o[4]] = o /\ ~Shares(s, o[4])
       /\ IsVariable(st[o])
       /\ \E r \in DOMAIN store :
            r[1] = o[1] /\ r[4] = o[4] /\ Copies(st[o], store[r], o[4])
  /\ \A v \in DOMAIN new.vars :
       /\ v \in DOMAIN Fields
       /\ new.vars[v] \in DOMAIN store \cup DOMAIN st
       /\ new.vars[v][1] = b /\ new.vars[v][4] = v
       /\ "WithFluxes" \in Flags(v) => FluxOf(v) \in DOMAIN new.vars

LEMMA StageFacts ==
  ASSUME Built_, DescriptorSound, NEW b \in Blocks, NEW s, s \notin DOMAIN mbd[b],
         NEW c, Holds(b, c), StageVars(s, c) \subseteq DOMAIN c.vars,
         NEW new, new = StageContainer(b, generation[b], s, c),
         NEW st, st = StageStore(b, generation[b], s, c)
  PROVE  StageMade(b, s, new, st)
<1>1. /\ new.shallow = StageSpec[s].shallow /\ DOMAIN new.vars = StageVars(s, c)
      /\ \A v \in StageVars(s, c) :
           new.vars[v] = IF Shares(s, v) THEN c.vars[v] ELSE <<b, generation[b], s, v>>
  BY DEF StageContainer
<1>2. DOMAIN st = {<<b, generation[b], s, v>> : v \in {w \in StageVars(s, c) : ~Shares(s, w)}}
  BY DEF StageStore
<1>3. ASSUME NEW o \in DOMAIN st
      PROVE  /\ o = <<b, generation[b], s, o[4]>> /\ o \notin DOMAIN store
             /\ o[4] \in DOMAIN new.vars /\ new.vars[o[4]] = o /\ ~Shares(s, o[4])
             /\ IsVariable(st[o])
             /\ \E r \in DOMAIN store :
                  r[1] = o[1] /\ r[4] = o[4] /\ Copies(st[o], store[r], o[4])
  <2>1. PICK v \in StageVars(s, c) : ~Shares(s, v) /\ o = <<b, generation[b], s, v>>
    BY <1>2
  <2>2. o[1] = b /\ o[3] = s /\ o[4] = v
    BY <2>1
  <2>3. o \notin DOMAIN store
    BY <2>2 DEF Built_, Objects, Home
  <2>4. /\ c.vars[v] \in DOMAIN store /\ c.vars[v][1] = b /\ c.vars[v][4] = v
        /\ IsVariable(store[c.vars[v]])
        /\ HasCoarse(v) \/ store[c.vars[v]].coarse = NoStorage
    <3>1. c.vars[v] \in DOMAIN store /\ c.vars[v][1] = b /\ c.vars[v][4] = v
      BY <2>1 DEF Holds
    <3>2. /\ IsVariable(store[c.vars[v]])
          /\ HasCoarse(c.vars[v][4]) \/ store[c.vars[v]].coarse = NoStorage
      BY <3>1 DEF Built_, Together
    <3>3. QED
      BY <3>1, <3>2
  <2>5. st[o] = IF store[c.vars[v]].on THEN Allocated(o, NewVariable, store[c.vars[v]].coarse)
                ELSE NewVariable
    BY <2>1, <2>2 DEF StageStore
  <2>6. /\ IsVariable(NewVariable) /\ NewVariable.on = FALSE
        /\ NewVariable.coarse = NoStorage /\ NewVariable.n = 0
    BY DEF NewVariable, IsVariable
  <2>7. /\ IsVariable(st[o]) /\ st[o].on = store[c.vars[v]].on
        /\ st[o].coarse = store[c.vars[v]].coarse
        /\ st[o].n = IF st[o].on THEN 1 ELSE 0
    <3>1. CASE store[c.vars[v]].on
      <4>1. /\ IsVariable(st[o]) /\ st[o].on /\ st[o].n = 1
            /\ st[o].coarse = IF HasCoarse(v) THEN store[c.vars[v]].coarse ELSE NoStorage
        BY <2>2, <2>5, <2>6, <3>1, AllocatedFacts
      <4>2. st[o].on = TRUE /\ store[c.vars[v]].on = TRUE
        BY <2>4, <3>1, <4>1 DEF IsVariable
      <4>3. QED
        BY <2>4, <4>1, <4>2
    <3>2. CASE ~store[c.vars[v]].on
      <4>1. st[o] = NewVariable
        BY <2>5, <3>2
      <4>2. store[c.vars[v]].on = FALSE /\ store[c.vars[v]].coarse = NoStorage
        BY <2>4, <3>2 DEF IsVariable
      <4>3. QED
        BY <2>6, <4>1, <4>2
    <3>3. QED
      BY <3>1, <3>2
  <2>8. o[4] \in DOMAIN new.vars /\ new.vars[o[4]] = o /\ ~Shares(s, o[4])
    BY <1>1, <2>1, <2>2
  <2>9. Copies(st[o], store[c.vars[v]], v)
    BY <2>7 DEF Copies, AsMade
  <2>10. QED
    BY <2>1, <2>2, <2>3, <2>4, <2>7, <2>8, <2>9
<1>4. ASSUME NEW v \in DOMAIN new.vars
      PROVE  /\ v \in DOMAIN Fields
             /\ new.vars[v] \in DOMAIN store \cup DOMAIN st
             /\ new.vars[v][1] = b /\ new.vars[v][4] = v
             /\ "WithFluxes" \in Flags(v) => FluxOf(v) \in DOMAIN new.vars
  <2>1. v \in StageVars(s, c) /\ v \in DOMAIN c.vars /\ v \in DOMAIN Fields
    BY <1>1 DEF Holds
  <2>2. new.vars[v] \in DOMAIN store \cup DOMAIN st /\ new.vars[v][1] = b /\ new.vars[v][4] = v
    <3>1. CASE Shares(s, v)
      BY <1>1, <2>1, <3>1 DEF Holds
    <3>2. CASE ~Shares(s, v)
      <4>1. new.vars[v] = <<b, generation[b], s, v>>
        BY <1>1, <2>1, <3>2
      <4>2. QED
        BY <1>2, <2>1, <3>2, <4>1
    <3>3. QED
      BY <3>1, <3>2
  <2>3. ASSUME "WithFluxes" \in Flags(v)
        PROVE  FluxOf(v) \in StageVars(s, c)
    <3> DEFINE asked == IF StageSpec[s].vars = {} THEN DOMAIN c.vars ELSE StageSpec[s].vars
    <3>1. StageVars(s, c) = asked \cup {FluxOf(w) : w \in {x \in asked : "WithFluxes" \in Flags(x)}}
      BY DEF StageVars
    <3>2. asked \subseteq DOMAIN Fields
      BY <3>1 DEF Holds
    <3> HIDE DEF asked
    <3>3. CASE v \in asked
      BY <2>3, <3>1, <3>3
    <3>4. CASE v \notin asked
      <4>1. PICK w \in asked : "WithFluxes" \in Flags(w) /\ v = FluxOf(w)
        BY <2>1, <3>1, <3>4
      <4>2. "WithFluxes" \notin Flags(v)
        BY <3>2, <4>1 DEF DescriptorSound, Built_, FluxesResolved, Flags, FluxOf, Fields
      <4>3. QED
        BY <2>3, <4>2
    <3>5. QED
      BY <3>3, <3>4
  <2>4. QED
    BY <1>1, <2>1, <2>2, <2>3
<1>5. QED
  BY <1>1, <1>3, <1>4 DEF StageMade

LEMMA StepAddStage ==
  ASSUME Built_, DescriptorSound, Inverted, NEW s \in DOMAIN StageSpec, AddStage(s)
  PROVE  IInv'
<1> DEFINE src == StageSpec[s].src
           Missing == {b \in Blocks : s \notin DOMAIN mbd[b]}
           New(b) == StageStore(b, generation[b], s, mbd[b][src])
           Cont(b) == StageContainer(b, generation[b], s, mbd[b][src])
           more == [o \in UNION {DOMAIN New(b) : b \in Missing} |-> New(o[1])[o]]
<1>1. /\ s \notin meshStages /\ src \in meshStages
      /\ \A b \in Missing : StageVars(s, mbd[b][src]) \subseteq DOMAIN mbd[b][src].vars
      /\ meshStages' = meshStages \cup {s}
      /\ mbd' = [b \in Blocks |-> IF b \in Missing THEN With(mbd[b], s, Cont(b)) ELSE mbd[b]]
      /\ store' = Join(store, more)
      /\ pack' = NoPack
      /\ UNCHANGED <<generation, blockCache, meshCache, packages, resolved>>
  BY DEF AddStage
<1>2. resolved' = resolved /\ FluxesResolved /\ Together(store) /\ Resolved /\ Resolved' /\ Inverted'
  BY <1>1 DEF Built_, DescriptorSound, Resolved, Inverted
<1>3. ASSUME NEW b \in Missing
      PROVE  StageMade(b, s, Cont(b), New(b))
  <2>1. b \in Blocks /\ s \notin DOMAIN mbd[b] /\ src \in DOMAIN mbd[b]
    BY <1>1 DEF Built_, Containers
  <2>2. Holds(b, mbd[b][src]) /\ StageVars(s, mbd[b][src]) \subseteq DOMAIN mbd[b][src].vars
    BY <1>1, <2>1 DEF Built_, Objects
  <2>3. ASSUME NEW new, new = Cont(b), NEW st, st = New(b)
        PROVE  StageMade(b, s, new, st)
    BY <2>1, <2>2, <2>3, StageFacts
  <2>4. QED
    BY <2>3
<1> HIDE DEF New, Cont
<1>4. /\ DOMAIN mbd' = Blocks
      /\ \A b \in Blocks : /\ DOMAIN mbd[b] \subseteq DOMAIN mbd'[b] /\ s \in DOMAIN mbd'[b]
                           /\ DOMAIN mbd'[b] \subseteq DOMAIN mbd[b] \cup {s}
                           /\ \A t \in DOMAIN mbd[b] : mbd'[b][t] = mbd[b][t]
      /\ \A b \in Missing : mbd'[b][s] = Cont(b)
  <2>1. \A b \in Missing : /\ DOMAIN mbd'[b] = {s} \cup DOMAIN mbd[b]
                           /\ mbd'[b][s] = Cont(b)
                           /\ \A t \in DOMAIN mbd[b] : mbd'[b][t] = mbd[b][t]
    BY <1>1 DEF With
  <2>2. \A b \in Blocks \ Missing : mbd'[b] = mbd[b] /\ s \in DOMAIN mbd[b]
    BY <1>1
  <2>3. QED
    BY <1>1, <2>1, <2>2
<1>5. \A b \in Missing : DOMAIN New(b) \subseteq DOMAIN more /\ \A o \in DOMAIN New(b) : more[o] = New(b)[o]
  <2>1. ASSUME NEW b \in Missing, NEW o \in DOMAIN New(b)
        PROVE  o \in DOMAIN more /\ more[o] = New(b)[o]
    <3>1. o[1] = b
      BY <1>3, <2>1 DEF StageMade
    <3>2. QED
      BY <3>1
  <2>2. QED
    BY <2>1
<1>6. ASSUME NEW o \in DOMAIN more
      PROVE  \E b \in Missing : o \in DOMAIN New(b) /\ more[o] = New(b)[o]
  <2>1. PICK b \in Missing : o \in DOMAIN New(b)
    OBVIOUS
  <2>2. QED
    BY <1>5, <2>1
<1> HIDE DEF more
<1>7. /\ DOMAIN store' = DOMAIN store \cup DOMAIN more
      /\ \A o \in DOMAIN store : store'[o] = store[o]
      /\ \A o \in DOMAIN more : o \notin DOMAIN store /\ store'[o] = more[o]
  <2>1. \A o \in DOMAIN more : o \notin DOMAIN store
    BY <1>3, <1>6 DEF StageMade
  <2>2. QED
    BY <1>1, <2>1 DEF Join
<1>8. Together(store')
  <2>1. ASSUME NEW st2, st2 = store'
        PROVE  Together(st2)
    <3>1. ASSUME NEW o \in DOMAIN st2
          PROVE  /\ IsVariable(st2[o])
                 /\ \E r \in DOMAIN store :
                      r[1] = o[1] /\ r[4] = o[4] /\ Copies(st2[o], store[r], o[4])
      <4>1. CASE o \in DOMAIN store
        BY <1>2, <1>7, <2>1, <4>1 DEF Together, Copies
      <4>2. CASE o \in DOMAIN more
        <5>1. PICK b \in Missing : o \in DOMAIN New(b) /\ more[o] = New(b)[o]
          BY <1>6, <4>2
        <5>2. st2[o] = New(b)[o]
          BY <1>7, <2>1, <4>2, <5>1
        <5>3. QED
          BY <1>3, <5>1, <5>2 DEF StageMade
      <4>3. QED
        BY <1>7, <2>1, <4>1, <4>2
    <3>2. QED
      BY <1>2, <3>1, Descends
  <2>2. QED
    BY <2>1
<1>9. Together(store)'
  <2>1. ASSUME NEW st, st = store'
        PROVE  Together(st)'
    BY <1>2, <1>8, <2>1, SameTogether
  <2>2. QED
    BY <2>1
<1>10. Containers'
  BY <1>1, <1>2, <1>4 DEF Built_, Containers, BaseContainer, BaseObject, Fields
<1>11. Objects'
  <2>1. ASSUME NEW o \in DOMAIN store'
        PROVE  Home(o)'
    <3>1. CASE o \in DOMAIN store
      <4>1. Home(o)
        BY <3>1 DEF Built_, Objects
      <4>2. mbd'[o[1]][o[3]] = mbd[o[1]][o[3]] /\ o[3] \in DOMAIN mbd'[o[1]]
        BY <1>4, <4>1 DEF Home
      <4>3. QED
        BY <1>1, <1>2, <4>1, <4>2, SameFlags DEF Home
    <3>2. CASE o \in DOMAIN more
      <4>1. PICK b \in Missing : o \in DOMAIN New(b)
        BY <1>6, <3>2
      <4>2. /\ o = <<b, generation[b], s, o[4]>> /\ ~Shares(s, o[4])
            /\ o[4] \in DOMAIN Cont(b).vars /\ Cont(b).vars[o[4]] = o
            /\ Cont(b).shallow = StageSpec[s].shallow
        BY <1>3, <4>1 DEF StageMade
      <4>3. o[1] = b /\ o[2] = generation[b] /\ o[3] = s
        BY <4>2
      <4>4. mbd'[b][s] = Cont(b) /\ s \in DOMAIN mbd'[b] /\ b \in Blocks
        BY <1>4
      <4>5. QED
        BY <1>1, <1>2, <4>2, <4>3, <4>4, SameFlags DEF Home, Shares
    <3>3. QED
      BY <1>7, <3>1, <3>2
  <2>2. ASSUME NEW b \in Blocks, NEW t \in DOMAIN mbd'[b]
        PROVE  Holds(b, mbd[b][t])'
    <3>1. CASE t \in DOMAIN mbd[b]
      <4>1. Holds(b, mbd[b][t]) /\ mbd'[b][t] = mbd[b][t]
        BY <1>4, <3>1 DEF Built_, Objects
      <4>2. QED
        BY <1>2, <1>7, <4>1, SameFlags DEF Holds
    <3>2. CASE t \notin DOMAIN mbd[b]
      <4>1. t = s /\ b \in Missing
        BY <1>4, <3>2
      <4>2. mbd'[b][t] = Cont(b) /\ DOMAIN New(b) \subseteq DOMAIN store'
        BY <1>4, <1>5, <1>7, <4>1
      <4>3. \A v \in DOMAIN Cont(b).vars :
                  /\ v \in DOMAIN Fields
                  /\ Cont(b).vars[v] \in DOMAIN store'
                  /\ Cont(b).vars[v][1] = b /\ Cont(b).vars[v][4] = v
                  /\ "WithFluxes" \in Flags(v) => FluxOf(v) \in DOMAIN Cont(b).vars
        BY <1>3, <1>7, <4>1, <4>2 DEF StageMade
      <4>4. QED
        BY <1>2, <4>2, <4>3, SameFlags DEF Holds
    <3>3. QED
      BY <3>1, <3>2
  <2>3. QED
    BY <1>1, <2>1, <2>2 DEF Objects
<1>12. \A b \in Blocks : Moves(b, store, store')
  BY <1>7 DEF Moves
<1>13. PacksSound => BlockEntries'
  <2>1. ASSUME PacksSound, NEW gone, gone = {}
        PROVE  BlockEntries'
    <3>1. \A b \in Blocks \ gone :
            /\ Moves(b, store, store')
            /\ DOMAIN mbd[b] \subseteq DOMAIN mbd'[b]
            /\ \A t \in DOMAIN mbd[b] : mbd'[b][t] = mbd[b][t]
            /\ blockCache'[b] = blockCache[b]
      BY <1>1, <1>4, <1>12
    <3>2. \A b \in gone : DOMAIN blockCache'[b] = {}
      BY <2>1
    <3>3. QED
      BY <1>2, <1>8, <2>1, <3>1, <3>2, BlockEntriesKept
  <2>2. QED
    BY <2>1
<1>14. PacksSound => MeshEntries'
  BY <1>1, <1>2, <1>4, <1>8, <1>12, MeshEntriesKept
<1>15. PacksViewCurrentStorage'
  BY <1>1 DEF PacksViewCurrentStorage
<1>16. QED
  BY <1>2, <1>9, <1>10, <1>11, <1>13, <1>14, <1>15, SamePacksSound DEF IInv, Built_

-----------------------------------------------------------------------------
(***************************************************************************)
(* Blocks are built.                                                       *)
(***************************************************************************)
LEMMA FreshFacts ==
  ASSUME NEW b, NEW g
  PROVE  /\ \A v \in DOMAIN Fields : <<b, g, "base", v>> \in DOMAIN BaseStore(b, g)
         /\ \A o \in DOMAIN BaseStore(b, g) :
              /\ o = <<b, g, "base", o[4]>> /\ o[4] \in DOMAIN Fields
              /\ IsVariable(BaseStore(b, g)[o])
              /\ HasCoarse(o[4]) \/ BaseStore(b, g)[o].coarse = NoStorage
              /\ AsMade(BaseStore(b, g)[o], o[4])
<1>1. DOMAIN BaseStore(b, g) = {<<b, g, "base", v>> : v \in DOMAIN Fields}
  BY DEF BaseStore, BaseObject
<1>2. ASSUME NEW o \in DOMAIN BaseStore(b, g)
      PROVE  /\ o = <<b, g, "base", o[4]>> /\ o[4] \in DOMAIN Fields
             /\ IsVariable(BaseStore(b, g)[o])
             /\ HasCoarse(o[4]) \/ BaseStore(b, g)[o].coarse = NoStorage
             /\ AsMade(BaseStore(b, g)[o], o[4])
  <2>1. o = <<b, g, "base", o[4]>> /\ o[4] \in DOMAIN Fields
    BY <1>1
  <2>2. BaseStore(b, g)[o] = IF AllocatedAtStart(o[4])
                             THEN Allocated(o, NewVariable, <<o, 1>>) ELSE NewVariable
    BY <2>1 DEF BaseStore, BaseObject
  <2>3. /\ IsVariable(NewVariable) /\ ~NewVariable.on
        /\ NewVariable.coarse = NoStorage /\ NewVariable.n = 0
    BY DEF NewVariable, IsVariable
  <2>4. CASE AllocatedAtStart(o[4])
    <3>1. /\ IsVariable(BaseStore(b, g)[o]) /\ BaseStore(b, g)[o].on
          /\ BaseStore(b, g)[o].n = 1
          /\ BaseStore(b, g)[o].coarse = IF HasCoarse(o[4]) THEN <<o, 1>> ELSE NoStorage
      BY <2>2, <2>3, <2>4, AllocatedFacts
    <3>2. QED
      BY <2>1, <2>4, <3>1 DEF AsMade
  <2>5. CASE ~AllocatedAtStart(o[4])
    BY <2>1, <2>2, <2>3, <2>5 DEF AsMade
  <2>6. QED
    BY <2>4, <2>5
<1>3. QED
  BY <1>1, <1>2

(* Objects of a block that was just built are as they should be.           *)
LEMMA FreshTogether ==
  ASSUME NEW b, NEW g,
         NEW o \in DOMAIN BaseStore(b, g), NEW p \in DOMAIN BaseStore(b, g)
  PROVE  /\ AsMade(BaseStore(b, g)[o], o[4]) /\ AsMade(BaseStore(b, g)[p], p[4])
         /\ o[4] = p[4] => o = p
BY FreshFacts

(* The container of a block that was just built.                           *)
LEMMA FreshContainer ==
  ASSUME DescriptorSound, Resolved, resolved' = resolved,
         NEW b \in Blocks, NEW g, generation'[b] = g, mbd'[b] = OnlyBase(b, g),
         DOMAIN BaseStore(b, g) \subseteq DOMAIN store'
  PROVE  /\ DOMAIN mbd'[b] = {"base"} /\ mbd'[b]["base"] = BaseContainer(b, g)
         /\ Holds(b, mbd[b]["base"])'
         /\ \A o \in DOMAIN BaseStore(b, g) : Home(o)'
<1>1. DOMAIN mbd'[b] = {"base"} /\ mbd'[b]["base"] = BaseContainer(b, g)
  BY DEF OnlyBase
<1>2. /\ BaseContainer(b, g).shallow = FALSE
      /\ DOMAIN BaseContainer(b, g).vars = DOMAIN Fields
      /\ \A v \in DOMAIN Fields : BaseContainer(b, g).vars[v] = <<b, g, "base", v>>
  BY DEF BaseContainer, BaseObject
<1>3. \A v \in DOMAIN Fields : "WithFluxes" \in Flags(v) => FluxOf(v) \in DOMAIN Fields
  BY DEF DescriptorSound, FluxesResolved, Flags, FluxOf, Fields
<1>4. \A v \in DOMAIN Fields : <<b, g, "base", v>> \in DOMAIN store'
  BY FreshFacts
<1>5. Holds(b, mbd[b]["base"])'
  <2> DEFINE c == BaseContainer(b, g)
  <2>1. ASSUME NEW v \in DOMAIN c.vars
        PROVE  /\ v \in DOMAIN Fields
               /\ c.vars[v] \in DOMAIN store' /\ c.vars[v][1] = b /\ c.vars[v][4] = v
               /\ "WithFluxes" \in Flags(v) => FluxOf(v) \in DOMAIN c.vars
    <3>1. v \in DOMAIN Fields
      BY <1>2
    <3>2. c.vars[v] = <<b, g, "base", v>>
      BY <1>2, <3>1
    <3> HIDE DEF c
    <3>3. <<b, g, "base", v>>[1] = b /\ <<b, g, "base", v>>[4] = v
      OBVIOUS
    <3>4. c.vars[v] \in DOMAIN store' /\ c.vars[v][1] = b /\ c.vars[v][4] = v
      BY <1>4, <3>1, <3>2, <3>3
    <3>5. "WithFluxes" \in Flags(v) => FluxOf(v) \in DOMAIN c.vars
      BY <1>2, <1>3, <3>1 DEF c
    <3>6. QED
      BY <3>1, <3>4, <3>5
  <2>2. mbd'[b]["base"] = c
    BY <1>1
  <2> HIDE DEF c
  <2>3. QED
    BY <2>1, <2>2, SameFlags DEF Holds
<1>6. ASSUME NEW o \in DOMAIN BaseStore(b, g)
      PROVE  Home(o)'
  <2>1. o = <<b, g, "base", o[4]>> /\ o[4] \in DOMAIN Fields
    BY FreshFacts
  <2>2. o[1] = b /\ o[2] = g /\ o[3] = "base"
    BY <2>1
  <2>3. QED
    BY <1>1, <1>2, <2>1, <2>2 DEF Home
<1>7. QED
  BY <1>1, <1>5, <1>6

LEMMA StepBuildBlocks ==
  ASSUME RuntimeInit, DescriptorSound, Inverted, BuildBlocks
  PROVE  IInv'
<1>1. /\ Resolved /\ resolved' = resolved
      /\ generation' = [b \in Blocks |-> 1]
      /\ mbd' = [b \in Blocks |-> OnlyBase(b, 1)]
      /\ store' = [o \in UNION {DOMAIN BaseStore(b, 1) : b \in Blocks} |-> BaseStore(o[1], 1)[o]]
      /\ meshStages' = {"base"}
      /\ UNCHANGED <<blockCache, meshCache, pack>>
  BY DEF BuildBlocks, Resolved
<1>2. Inverted' /\ Resolved'
  BY <1>1 DEF Inverted, Resolved
<1>3. \A b \in Blocks : \A o \in DOMAIN BaseStore(b, 1) :
        o \in DOMAIN store' /\ store'[o] = BaseStore(b, 1)[o] /\ o[1] = b
  <2>1. ASSUME NEW b \in Blocks, NEW o \in DOMAIN BaseStore(b, 1)
        PROVE  o \in DOMAIN store' /\ store'[o] = BaseStore(b, 1)[o] /\ o[1] = b
    <3>1. o[1] = b
      <4>1. o = <<b, 1, "base", o[4]>>
        BY FreshFacts
      <4>2. QED
        BY <4>1
    <3>2. QED
      BY <1>1, <3>1
  <2>2. QED
    BY <2>1
<1>4. ASSUME NEW o \in DOMAIN store'
      PROVE  \E b \in Blocks : o \in DOMAIN BaseStore(b, 1)
  BY <1>1
<1>5. ASSUME NEW b \in Blocks
      PROVE  /\ DOMAIN mbd'[b] = {"base"} /\ mbd'[b]["base"] = BaseContainer(b, 1)
             /\ Holds(b, mbd[b]["base"])'
             /\ \A o \in DOMAIN BaseStore(b, 1) : Home(o)'
  <2>1. generation'[b] = 1 /\ mbd'[b] = OnlyBase(b, 1) /\ DOMAIN BaseStore(b, 1) \subseteq DOMAIN store'
    BY <1>1, <1>3
  <2>2. QED
    BY <1>1, <2>1, FreshContainer
<1>6. Containers'
  BY <1>1, <1>5 DEF RuntimeInit, Containers, BaseContainer, BaseObject, Fields
<1>7. Objects'
  BY <1>4, <1>5 DEF Objects
<1>8. Together(store')
  <2>1. ASSUME NEW st, st = store'
        PROVE  Together(st)
    <3>1. ASSUME NEW o \in DOMAIN st
          PROVE  IsVariable(st[o]) /\ (HasCoarse(o[4]) \/ st[o].coarse = NoStorage)
      <4>1. PICK b \in Blocks : o \in DOMAIN BaseStore(b, 1)
        BY <1>4, <2>1
      <4>2. st[o] = BaseStore(b, 1)[o]
        BY <1>3, <2>1, <4>1
      <4>3. QED
        BY <4>1, <4>2, FreshFacts
    <3>2. ASSUME NEW o \in DOMAIN st, NEW p \in DOMAIN st, o[1] = p[1]
          PROVE  /\ Controller(o[4]) = Controller(p[4]) =>
                      \/ st[o].on = st[p].on
                      \/ AsMade(st[o], o[4]) /\ AsMade(st[p], p[4])
                 /\ o[4] = p[4] => st[o].on = st[p].on /\ st[o].coarse = st[p].coarse
      <4>1. PICK b \in Blocks : o \in DOMAIN BaseStore(b, 1)
        BY <1>4, <2>1
      <4>2. PICK a \in Blocks : p \in DOMAIN BaseStore(a, 1)
        BY <1>4, <2>1
      <4>3. a = b
        BY <1>3, <3>2, <4>1, <4>2
      <4>4. st[o] = BaseStore(b, 1)[o] /\ st[p] = BaseStore(b, 1)[p]
        BY <1>3, <2>1, <4>1, <4>2, <4>3
      <4>5. QED
        BY <4>1, <4>2, <4>3, <4>4, FreshTogether
    <3>3. QED
      BY <3>1, <3>2 DEF Together
  <2>2. QED
    BY <2>1
<1>9. Together(store)'
  <2>1. ASSUME NEW st, st = store'
        PROVE  Together(st)'
    BY <1>1, <1>8, <2>1, SameTogether
  <2>2. QED
    BY <2>1
<1>10. BlockEntries' /\ MeshEntries' /\ PacksViewCurrentStorage'
  <2>1. /\ \A b \in Blocks : blockCache'[b] = <<>>
        /\ \A s \in DOMAIN meshCache' : meshCache'[s] = <<>>
        /\ pack' = NoPack
    BY <1>1 DEF RuntimeInit
  <2>2. QED
    BY <2>1 DEF BlockEntries, BlockCacheOK, MeshEntries, MeshCacheOK, PacksViewCurrentStorage
<1>11. QED
  BY <1>2, <1>6, <1>7, <1>9, <1>10 DEF IInv, Built_

LEMMA StepRemesh ==
  ASSUME Built_, DescriptorSound, Inverted, NEW gone \in SUBSET Blocks, Remesh(gone)
  PROVE  IInv'
<1> DEFINE G(b) == generation[b] + 1
           fresh == [o \in UNION {DOMAIN BaseStore(b, G(b)) : b \in gone} |->
                       BaseStore(o[1], o[2])[o]]
           kept == [o \in {p \in DOMAIN store : p[1] \notin gone} |-> store[o]]
<1>1. /\ generation' = [b \in Blocks |-> IF b \in gone THEN G(b) ELSE generation[b]]
      /\ mbd' = [b \in Blocks |-> IF b \in gone THEN OnlyBase(b, G(b)) ELSE mbd[b]]
      /\ store' = Join(kept, fresh)
      /\ blockCache' = [b \in Blocks |-> IF b \in gone THEN <<>> ELSE blockCache[b]]
      /\ meshStages' = meshStages \cap {"base"}
      /\ meshCache' = [s \in DOMAIN meshCache |-> <<>>]
      /\ pack' = NoPack
      /\ resolved' = resolved
  BY DEF Remesh, Replaced, PurgeNonBase, ClearedCaches
<1>2. /\ FluxesResolved /\ Together(store) /\ Resolved /\ Resolved' /\ Inverted'
      /\ generation \in [Blocks -> Nat]
      /\ \A o \in DOMAIN store : o[1] \in Blocks
  BY <1>1 DEF Built_, DescriptorSound, Resolved, Inverted, Containers, Objects, Home
<1>3. ASSUME NEW b \in gone, NEW o \in DOMAIN BaseStore(b, G(b))
      PROVE  o[1] = b /\ o[2] = G(b) /\ o \in DOMAIN fresh /\ fresh[o] = BaseStore(b, G(b))[o]
  <2>1. o = <<b, G(b), "base", o[4]>>
    BY FreshFacts
  <2>2. o[1] = b /\ o[2] = G(b)
    BY <2>1
  <2>3. QED
    BY <2>2
<1>4. ASSUME NEW o \in DOMAIN fresh
      PROVE  \E b \in gone : o \in DOMAIN BaseStore(b, G(b))
  OBVIOUS
<1>5. /\ \A o \in DOMAIN kept : o \in DOMAIN store /\ o[1] \in Blocks \ gone /\ kept[o] = store[o]
      /\ \A o \in DOMAIN store : o[1] \notin gone => o \in DOMAIN kept
  BY <1>2
<1> HIDE DEF fresh, kept
<1>6. /\ DOMAIN store' = DOMAIN kept \cup DOMAIN fresh
      /\ \A o \in DOMAIN kept : store'[o] = store[o]
      /\ \A b \in gone : \A o \in DOMAIN BaseStore(b, G(b)) :
           o \in DOMAIN store' /\ store'[o] = BaseStore(b, G(b))[o] /\ o[1] = b
  <2>1. \A o \in DOMAIN fresh : o \notin DOMAIN kept
    BY <1>3, <1>4, <1>5
  <2>2. /\ DOMAIN store' = DOMAIN kept \cup DOMAIN fresh
        /\ \A o \in DOMAIN kept : store'[o] = kept[o]
        /\ \A o \in DOMAIN fresh : store'[o] = fresh[o]
    BY <1>1, <2>1 DEF Join
  <2>3. QED
    BY <1>3, <1>5, <2>2
<1>7. ASSUME NEW b \in gone
      PROVE  /\ DOMAIN mbd'[b] = {"base"} /\ mbd'[b]["base"] = BaseContainer(b, G(b))
             /\ Holds(b, mbd[b]["base"])'
             /\ \A o \in DOMAIN BaseStore(b, G(b)) : Home(o)'
  <2>1. /\ b \in Blocks /\ generation'[b] = G(b) /\ mbd'[b] = OnlyBase(b, G(b))
        /\ DOMAIN BaseStore(b, G(b)) \subseteq DOMAIN store'
    BY <1>1, <1>6
  <2> HIDE DEF G
  <2>2. QED
    BY <1>1, <1>2, <2>1, FreshContainer
<1>8. \A b \in Blocks \ gone : generation'[b] = generation[b] /\ mbd'[b] = mbd[b]
  BY <1>1
<1>9. Containers'
  <2>1. /\ generation' \in [Blocks -> Nat] /\ \A b \in Blocks : generation'[b] > 0
        /\ DOMAIN mbd' = Blocks /\ DOMAIN blockCache' = Blocks
        /\ DOMAIN meshCache' = DOMAIN StageSpec \cup {"base"}
        /\ meshStages' \subseteq DOMAIN meshCache'
    BY <1>1, <1>2 DEF Built_, Containers
  <2>2. \A b \in gone : generation'[b] = G(b)
    BY <1>1
  <2>3. ASSUME NEW b \in Blocks
        PROVE  /\ "base" \in DOMAIN mbd'[b] /\ meshStages' \subseteq DOMAIN mbd'[b]
               /\ mbd'[b]["base"] = BaseContainer(b, generation'[b])
    <3>1. CASE b \in gone
      BY <1>1, <1>7, <2>2, <3>1
    <3>2. CASE b \notin gone
      BY <1>1, <1>8, <3>2 DEF Built_, Containers
    <3>3. QED
      BY <3>1, <3>2
  <2>4. \A b, g : BaseContainer(b, g)' = BaseContainer(b, g)
    BY <1>1 DEF BaseContainer, BaseObject, Fields
  <2>5. QED
    BY <1>1, <2>1, <2>3 DEF Containers, BaseContainer, BaseObject, Fields
<1>10. Objects'
  <2>1. ASSUME NEW o \in DOMAIN store'
        PROVE  Home(o)'
    <3>1. CASE o \in DOMAIN kept
      <4>1. Home(o) /\ o[1] \in Blocks \ gone
        BY <1>5, <3>1 DEF Built_, Objects
      <4>2. generation'[o[1]] = generation[o[1]] /\ mbd'[o[1]] = mbd[o[1]]
        BY <1>8, <4>1
      <4>3. QED
        BY <1>1, <4>1, <4>2, SameFlags DEF Home
    <3>2. CASE o \in DOMAIN fresh
      <4>1. PICK b \in gone : o \in DOMAIN BaseStore(b, G(b))
        BY <1>4, <3>2
      <4>2. QED
        BY <1>7, <4>1
    <3>3. QED
      BY <1>6, <3>1, <3>2
  <2>2. ASSUME NEW b \in Blocks, NEW t \in DOMAIN mbd'[b]
        PROVE  Holds(b, mbd[b][t])'
    <3>1. CASE b \in gone
      BY <1>7, <3>1
    <3>2. CASE b \notin gone
      <4>1. mbd'[b] = mbd[b] /\ t \in DOMAIN mbd[b] /\ Holds(b, mbd[b][t])
        BY <1>8, <3>2 DEF Built_, Objects
      <4>2. \A v \in DOMAIN mbd[b][t].vars : mbd[b][t].vars[v] \in DOMAIN store'
        BY <1>5, <1>6, <3>2, <4>1 DEF Holds
      <4>3. QED
        BY <1>1, <4>1, <4>2, SameFlags DEF Holds
    <3>3. QED
      BY <3>1, <3>2
  <2>3. QED
    BY <1>1, <2>1, <2>2 DEF Objects
<1>11. Together(store')
  <2>1. ASSUME NEW st, st = store'
        PROVE  Together(st)
    <3>1. ASSUME NEW o \in DOMAIN st
          PROVE  IsVariable(st[o]) /\ (HasCoarse(o[4]) \/ st[o].coarse = NoStorage)
      <4>1. CASE o \in DOMAIN kept
        BY <1>2, <1>5, <1>6, <2>1, <4>1 DEF Together
      <4>2. CASE o \in DOMAIN fresh
        <5>1. PICK b \in gone : o \in DOMAIN BaseStore(b, G(b))
          BY <1>4, <4>2
        <5>2. st[o] = BaseStore(b, G(b))[o]
          BY <1>6, <2>1, <5>1
        <5> HIDE DEF G
        <5>3. QED
          BY <5>1, <5>2, FreshFacts
      <4>3. QED
        BY <1>6, <2>1, <4>1, <4>2
    <3>2. ASSUME NEW o \in DOMAIN st, NEW p \in DOMAIN st, o[1] = p[1]
          PROVE  /\ Controller(o[4]) = Controller(p[4]) =>
                      \/ st[o].on = st[p].on
                      \/ AsMade(st[o], o[4]) /\ AsMade(st[p], p[4])
                 /\ o[4] = p[4] => st[o].on = st[p].on /\ st[o].coarse = st[p].coarse
      <4>1. \A x \in DOMAIN fresh : x[1] \in gone /\ x \in DOMAIN BaseStore(x[1], G(x[1]))
        BY <1>3, <1>4
      <4>2. CASE o[1] \in gone
        <5>1. o \in DOMAIN fresh /\ p \in DOMAIN fresh
          BY <1>5, <1>6, <2>1, <3>2, <4>2
        <5>2. o \in DOMAIN BaseStore(o[1], G(o[1])) /\ p \in DOMAIN BaseStore(o[1], G(o[1]))
          BY <3>2, <4>1, <5>1
        <5>3. /\ st[o] = BaseStore(o[1], G(o[1]))[o]
              /\ st[p] = BaseStore(o[1], G(o[1]))[p]
          BY <1>6, <2>1, <4>2, <5>2
        <5> HIDE DEF G
        <5>4. QED
          BY <5>2, <5>3, FreshTogether
      <4>3. CASE o[1] \notin gone
        <5>1. o \in DOMAIN kept /\ p \in DOMAIN kept
          BY <1>6, <2>1, <3>2, <4>1, <4>3
        <5>2. /\ o \in DOMAIN store /\ p \in DOMAIN store
              /\ st[o] = store[o] /\ st[p] = store[p]
          BY <1>5, <1>6, <2>1, <5>1
        <5>3. QED
          BY <1>2, <3>2, <5>2 DEF Together
      <4>4. QED
        BY <4>2, <4>3
    <3>3. QED
      BY <3>1, <3>2 DEF Together
  <2>2. QED
    BY <2>1
<1>12. Together(store)'
  <2>1. ASSUME NEW st, st = store'
        PROVE  Together(st)'
    BY <1>1, <1>11, <2>1, SameTogether
  <2>2. QED
    BY <2>1
<1>13. PacksSound => BlockEntries'
  <2>1. \A b \in Blocks \ gone :
          /\ Moves(b, store, store')
          /\ DOMAIN mbd[b] \subseteq DOMAIN mbd'[b]
          /\ \A t \in DOMAIN mbd[b] : mbd'[b][t] = mbd[b][t]
          /\ blockCache'[b] = blockCache[b]
    BY <1>1, <1>5, <1>6, <1>8 DEF Moves
  <2>2. \A b \in gone : DOMAIN blockCache'[b] = {}
    BY <1>1
  <2>3. QED
    BY <1>1, <1>2, <1>11, <2>1, <2>2, BlockEntriesKept
<1>14. MeshEntries' /\ PacksViewCurrentStorage'
  <2>1. \A s \in DOMAIN meshCache' : meshCache'[s] = <<>>
    BY <1>1
  <2>2. QED
    BY <1>1, <2>1 DEF MeshEntries, MeshCacheOK, PacksViewCurrentStorage
<1>15. QED
  BY <1>1, <1>2, <1>9, <1>10, <1>12, <1>13, <1>14, SamePacksSound DEF IInv, Built_

-----------------------------------------------------------------------------
(***************************************************************************)
(* The packages.                                                           *)
(***************************************************************************)
LEMMA ResolutionInverts ==
  ASSUME NEW order, Resolution(order).status = "ok"
  PROVE  Resolution(order).controlled = InvertControllerMap(Resolution(order).sd.reverse)
<1>1. ASSUME NEW all, Outcome(all).status = "ok"
      PROVE  Outcome(all).controlled = InvertControllerMap(Outcome(all).sd.reverse)
  <2>1. all.ok
    BY <1>1 DEF Outcome
  <2>2. QED
    BY <2>1 DEF Outcome
<1> DEFINE fields == CheckRequires(Tracker("field", order, NewDescriptor))
           swarms == Tracked("swarm", order, fields)
           all == Overridden("swarm", order, swarms, Overridden("field", order, fields, swarms))
<1>2. Resolution(order) = Outcome(all)
  BY DEF Resolution
<1> HIDE DEF all
<1>3. QED
  BY <1>1, <1>2

LEMMA StepDescriptor ==
  ASSUME IInv, DescriptorNext, UNCHANGED runtime
  PROVE  IInv'
<1>1. resolved = Unresolved
  BY DEF DescriptorNext, RegisterField, RegisterPool, RegisterSwarm, Registering,
         CreateResolvedStateDescriptor
<1>2. RuntimeInit
  BY <1>1 DEF IInv, Built_, Resolved
<1>3. RuntimeInit'
  BY <1>2 DEF RuntimeInit, runtime, NoPack
<1>4. CASE CreateResolvedStateDescriptor
  <2>1. PICK order : resolved' = Resolution(order)
    BY <1>4 DEF CreateResolvedStateDescriptor
  <2>2. Inverted'
    BY <2>1, ResolutionInverts DEF Inverted, Resolved
  <2>3. QED
    BY <1>3, <2>2 DEF IInv
<1>5. CASE ~CreateResolvedStateDescriptor
  <2>1. resolved' = Unresolved
    BY <1>1, <1>5 DEF DescriptorNext, RegisterField, RegisterPool, RegisterSwarm
  <2>2. Inverted'
    BY <2>1 DEF Inverted, Resolved
  <2>3. QED
    BY <1>3, <2>2 DEF IInv
<1>6. QED
  BY <1>4, <1>5

LEMMA BuiltAtLast ==
  ASSUME IInv, Built
  PROVE  Built_
BY ContainersAssumption DEF IInv, Built, RuntimeInit

LEMMA InvariantInit ==
  ASSUME Init
  PROVE  IInv
BY DEF Init, DescriptorInit, IInv, Inverted, Resolved

LEMMA InvariantNext ==
  ASSUME IInv, DescriptorSound, [Next]_<<packages, resolved, runtime>>
  PROVE  IInv'
<1>1. Inverted
  BY DEF IInv
<1>2. CASE DescriptorNext /\ UNCHANGED runtime
  BY <1>2, StepDescriptor
<1>3. CASE BuildBlocks
  <2>1. RuntimeInit
    <3>1. ~Built_
      BY <1>3 DEF BuildBlocks, Built, Built_, Containers
    <3>2. QED
      BY <3>1 DEF IInv
  <2>2. QED
    BY <1>1, <1>3, <2>1, StepBuildBlocks
<1>4. ASSUME NEW s \in DOMAIN StageSpec, AddStage(s)
      PROVE  IInv'
  <2>1. Built_
    BY <1>4, BuiltAtLast DEF AddStage
  <2>2. QED
    BY <1>1, <1>4, <2>1, StepAddStage
<1>5. ASSUME NEW b \in Blocks, NEW v, NEW only \in BOOLEAN, AllocateSparse(b, v, only)
      PROVE  IInv'
  <2>1. Built_
    BY <1>5, BuiltAtLast DEF AllocateSparse
  <2>2. QED
    BY <1>1, <1>5, <2>1, StepAllocateSparse
<1>6. ASSUME NEW b \in Blocks, NEW v, DeallocateSparse(b, v)
      PROVE  IInv'
  <2>1. Built_
    BY <1>6, BuiltAtLast DEF DeallocateSparse
  <2>2. QED
    BY <1>1, <1>6, <2>1, StepDeallocateSparse
<1>7. CASE SparseDealloc
  <2>1. Built_
    BY <1>7, BuiltAtLast, Zenon DEF SparseDealloc
  <2>2. QED
    BY <1>1, <1>7, <2>1, StepSparseDealloc, Zenon
<1>8. ASSUME NEW q \in Queries, NEW b \in Blocks, NEW s \in DOMAIN mbd[b], GetBlockPack(b, s, q)
      PROVE  IInv'
  <2>1. Built_
    BY <1>8, BuiltAtLast DEF GetBlockPack
  <2>2. QED
    BY <1>1, <1>8, <2>1, StepGetBlockPack
<1>9. ASSUME NEW q \in Queries, NEW s \in meshStages, GetMeshPack(s, q)
      PROVE  IInv'
  <2>1. Built_
    BY <1>9, BuiltAtLast DEF GetMeshPack
  <2>2. QED
    BY <1>1, <1>9, <2>1, StepGetMeshPack
<1>10. ASSUME NEW gone \in SUBSET Blocks, Remesh(gone)
       PROVE  IInv'
  <2>1. Built_
    BY <1>10, BuiltAtLast DEF Remesh
  <2>2. QED
    BY <1>1, <1>10, <2>1, StepRemesh
<1>11. CASE UNCHANGED <<packages, resolved, runtime>>
  <2>1. CASE RuntimeInit
    <3>1. RuntimeInit' /\ Inverted'
      BY <1>1, <1>11, <2>1 DEF RuntimeInit, runtime, NoPack, Inverted, Resolved
    <3>2. QED
      BY <3>1 DEF IInv
  <2>2. CASE Built_
    <3>1. /\ UNCHANGED <<generation, mbd, store, meshStages, packages, resolved>>
          /\ blockCache' = blockCache /\ meshCache' = meshCache /\ pack' = pack
      BY <1>11 DEF runtime
    <3>2. /\ DOMAIN blockCache' = Blocks /\ DOMAIN meshCache' = DOMAIN meshCache
          /\ PacksSound => /\ \A b \in Blocks : BlockCacheOK(b, blockCache'[b])
                           /\ \A s \in DOMAIN meshCache : MeshCacheOK(s, meshCache'[s])
      BY <2>2, <3>1 DEF Built_, Containers, BlockEntries, MeshEntries
    <3>3. PacksSound => PacksViewCurrentStorage'
      <4>1. PacksSound => PacksViewCurrentStorage
        BY <2>2 DEF Built_
      <4>2. \A c, q : Views(c, q)' = Views(c, q)
        BY <3>1, SameViews
      <4>3. QED
        BY <3>1, <4>1, <4>2 DEF PacksViewCurrentStorage, NoPack
    <3>4. QED
      BY <1>1, <2>2, <3>1, <3>2, <3>3, ReadStep
  <2>3. QED
    BY <2>1, <2>2 DEF IInv
<1>12. CASE RuntimeNext
  BY <1>3, <1>4, <1>5, <1>6, <1>7, <1>8, <1>9, <1>10, <1>12 DEF RuntimeNext
<1>13. QED
  BY <1>2, <1>11, <1>12 DEF Next

-----------------------------------------------------------------------------
(***************************************************************************)
(* For any packages that resolve soundly, any stages, any queries and any  *)
(* number of blocks, as long as no coarse pack is asked for on the mesh    *)
(* and no variable with fluxes is allocated on new blocks ahead of its     *)
(* flux: a pack that a task gets, from a cache of a block or of the mesh   *)
(* or built for it, views the storage its variables have at that time.     *)
(***************************************************************************)
THEOREM PacksStayCurrent ==
  Spec /\ []DescriptorSound /\ [](Resolved => PacksSound) => []PacksViewCurrentStorage
<1>1. IInv /\ DescriptorSound /\ [Next]_<<packages, resolved, runtime>> => IInv'
  BY InvariantNext
<1>2. IInv /\ (Resolved => PacksSound) => PacksViewCurrentStorage
  BY DEF IInv, Built_, RuntimeInit, PacksViewCurrentStorage
<1>3. Init => IInv
  BY InvariantInit
<1>4. QED
  BY <1>1, <1>2, <1>3, PTL DEF Spec

(***************************************************************************)
(* For any packages that resolve soundly, any stages, any queries and any  *)
(* number of blocks: a sparse variable is allocated alike in all           *)
(* containers of a block, with one coarse buffer between them, and         *)
(* together with the others under its controller, unless none of these has *)
(* been allocated or freed since the block was made (whichever of them it  *)
(* allocated then).                                                        *)
(***************************************************************************)
THEOREM ControlledAlike ==
  Spec /\ []DescriptorSound => []ControlledTogether
<1>1. IInv /\ DescriptorSound /\ [Next]_<<packages, resolved, runtime>> => IInv'
  BY InvariantNext
<1>2. IInv /\ DescriptorSound => ControlledTogether
  <2> SUFFICES ASSUME IInv, DescriptorSound, Built,
                      NEW b \in Blocks, NEW s \in DOMAIN mbd[b],
                      NEW v \in DOMAIN mbd[b][s].vars
               PROVE  LET c == mbd[b][s]
                          base == mbd[b]["base"].vars
                      IN /\ store[c.vars[v]].on = store[base[v]].on
                         /\ store[c.vars[v]].coarse = store[base[v]].coarse
                         /\ \A w \in GetControlledVariables(resolved.sd.reverse[v])
                                       \cap DOMAIN c.vars :
                              \/ store[c.vars[w]].on = store[c.vars[v]].on
                              \/ AsMade(store[c.vars[v]], v) /\ AsMade(store[c.vars[w]], w)
    BY DEF ControlledTogether
  <2>1. Built_ /\ Inverted /\ Resolved /\ FluxesResolved
    BY BuiltAtLast DEF IInv, Built_, DescriptorSound
  <2>2. /\ "base" \in DOMAIN mbd[b]
        /\ \A t \in DOMAIN mbd[b] : Holds(b, mbd[b][t])
    BY <2>1 DEF Built_, Containers, Objects
  <2>3. v \in DOMAIN mbd[b]["base"].vars
    <3>1. v \in DOMAIN Fields
      BY <2>2 DEF Holds
    <3>2. mbd[b]["base"] = BaseContainer(b, generation[b])
      BY <2>1 DEF Built_, Containers
    <3>3. QED
      BY <3>1, <3>2 DEF BaseContainer
  <2>4. ASSUME NEW t \in DOMAIN mbd[b], NEW w \in DOMAIN mbd[b][t].vars,
               Controller(w) = Controller(v)
        PROVE  /\ \/ store[mbd[b][t].vars[w]].on = store[mbd[b][s].vars[v]].on
                  \/ /\ AsMade(store[mbd[b][s].vars[v]], v)
                     /\ AsMade(store[mbd[b][t].vars[w]], w)
               /\ w = v => /\ store[mbd[b][t].vars[w]].on = store[mbd[b][s].vars[v]].on
                           /\ store[mbd[b][t].vars[w]].coarse = store[mbd[b][s].vars[v]].coarse
    <3>1. /\ mbd[b][t].vars[w] \in DOMAIN store
          /\ mbd[b][t].vars[w][1] = b /\ mbd[b][t].vars[w][4] = w
          /\ mbd[b][s].vars[v] \in DOMAIN store
          /\ mbd[b][s].vars[v][1] = b /\ mbd[b][s].vars[v][4] = v
      BY <2>2 DEF Holds
    <3>2. Together(store)
      BY <2>1 DEF Built_
    <3>3. QED
      BY <2>4, <3>1, <3>2 DEF Together
  <2>5. \A w \in GetControlledVariables(resolved.sd.reverse[v]) : Controller(w) = Controller(v)
    BY <2>1, ControlledFacts DEF Controller
  <2>6. QED
    BY <2>2, <2>3, <2>4, <2>5
<1>3. Init => IInv
  BY InvariantInit
<1>4. QED
  BY <1>1, <1>2, <1>3, PTL DEF Spec
=============================================================================
