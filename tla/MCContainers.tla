---------------------------- MODULE MCContainers ----------------------------
(***************************************************************************)
(* Two packages that register from a small menu, and the blocks of one     *)
(* rank built from one of the states they resolve into: a dense field, a   *)
(* sparse pool with fluxes and a pool it controls.                         *)
(***************************************************************************)
EXTENDS DataContainers

CONSTANTS p, q

Field(name, role, more) == [base |-> <<name>>, flags |-> {"Cell", role} \cup more,
                            controller |-> NoController]
Pool(name, role, more, ids, control) ==
  [base |-> <<name>>, flags |-> {"Cell", "Sparse", role} \cup more, ids |-> ids,
   controller |-> control]

MCFieldMenu == {Field("d", "Requires", {})}
                 \cup {Field("d", r, {"WithFluxes", "FillGhost"}) : r \in Roles \ {"Requires"}}

MCPoolMenu ==
  {Pool("d", "Requires", {}, {0}, NoController)}
    \cup {Pool("v", r, {"WithFluxes", "FillGhost"}, {0}, NoController) :
            r \in {"Private", "Provides", "Overridable"}}
    \cup {Pool("v", "Overridable", {}, {0, 1}, NoController),
          Pool("w", "Provides", {}, {0}, <<"v">>),
          Pool("w", "Provides", {"ForceAllocOnNewBlocks"}, {0}, <<"v">>)}

MCSwarmMenu ==
  {[base |-> <<"s">>, flags |-> {"None", r}, values |-> {"x"}] : r \in Roles}

v0 == VarID(<<"v">>, 0)
w0 == VarID(<<"w">>, 0)

MCStageSpec ==
  "u1" :> [src |-> "base", vars |-> {v0}, shallow |-> FALSE]

MCQueries == {[kind |-> k, names |-> {v0, w0}] : k \in {"flux", "coarse"}}
               \cup {[kind |-> "sparse", names |-> {v0}]}

MCRuns(sd) ==
  /\ DOMAIN sd.pools = {<<"v">>, <<"w">>}
  /\ sd.pools[<<"v">>].ids = {0}
  /\ \A vid \in DOMAIN sd.fields : "Sparse" \in sd.fields[vid].flags
  /\ DOMAIN sd.swarms = {}
  /\ packages[q] = NewDescriptor
  /\ Role(sd.pools[<<"v">>].flags) = "Provides"

-----------------------------------------------------------------------------
(* Kernels over the packs: the layouts do not depend on the state, they are *)
(* looked at in the initial one.                                            *)
Layout == INSTANCE PackLayouts

AtStart == resolved = Unresolved /\ \A k \in Packages : packages[k] = NewDescriptor

(* Every loop over the cells and components of a pack, whatever its pattern *)
(* and however the plane of a block is split (par_for, par_for_outer and    *)
(* par_for_inner, IndexSplit), reaches every index exactly once.            *)
EveryIndexOnce ==
  AtStart => /\ Layout!LoopsVisitOnce({<<0, 1>>, <<2, 4>>, <<1, 1>>, <<1, 0>>})
             /\ Layout!DeepLoopsVisitOnce({<<0, 1>>, <<2, 2>>})
             /\ \A n \in 5 .. 7 : Layout!SplitsCover(n, 2)

Var(label, base, id, dims, top, fluxes) ==
  [label |-> label, base |-> base, id |-> id, dims |-> dims, top |-> top, fluxes |-> fluxes]
PackFields ==
  <<Var("d", "d", -1, <<1, 1, 1>>, "Cell", TRUE), Var("e", "e", -1, <<1, 1, 1>>, "Edge", TRUE),
    Var("f", "f", -1, <<1, 1, 2>>, "Face", TRUE), Var("g", "g", -1, <<1, 1, 1>>, "Face", FALSE),
    Var("t", "t", -1, <<2, 1, 3>>, "Cell", FALSE), Var("v_0", "v", 0, <<1, 2, 2>>, "Cell", TRUE),
    Var("v_1", "v", 1, <<1, 2, 2>>, "Cell", TRUE)>>
SparseLabels == {"v_0", "v_1"}
DenseLabels  == {"d", "e", "f", "g", "t"}
Lists == {s \in UNION {[1 .. n -> DOMAIN PackFields] : n \in 2 .. 3} :
            /\ \A i, j \in DOMAIN s : i # j => s[i] # s[j]
            /\ \E i \in DOMAIN s : PackFields[s[i]].label \in SparseLabels}
GroupNames == {<<"d", "v">>, <<"v", "f">>, <<"e", "f">>, <<"g", "v_1">>, <<"t", "v", "f">>,
               <<"v_1", "v_0">>}

(* Names, bounds and accessors of a pack lead to the arrays of the variable *)
(* they name, on every block and whatever is allocated there (FillVarView,  *)
(* AppendSparseBaseMap, SparsePackBase::Build and the accessors).           *)
PacksIndexed ==
  AtStart =>
    /\ \A s \in Lists : \A on \in {{}, {"v_1"}, SparseLabels} :
         Layout!VariablePackRight([n \in DOMAIN s |-> PackFields[s[n]]], DenseLabels \cup on, 2)
    /\ \A names \in GroupNames : \A with_fluxes, coarse, flat \in BOOLEAN :
         \A first \in SUBSET SparseLabels, second \in SUBSET {"v_1"} :
           Layout!SparsePackRight(
             Layout!Descriptor(PackFields, names, with_fluxes, coarse, flat),
             Layout!Included(<<[name |-> 1, level |-> 1, on |-> DenseLabels \cup first],
                               [name |-> 2, level |-> 0, on |-> DenseLabels],
                               [name |-> 3, level |-> 1, on |-> second]>>, 1))

(* Kernels reach their data: loops visit every index of a pack once, and    *)
(* names, bounds and accessors lead to the arrays of the variables named.   *)
KernelsReachTheirData == EveryIndexOnce /\ PacksIndexed
=============================================================================
