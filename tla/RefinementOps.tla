---------------------------- MODULE RefinementOps ----------------------------
(***************************************************************************)
(* Restriction and prolongation of fields between a coarse and a fine grid *)
(* with half its spacing, prolong_restrict/pr_ops.hpp, and the loops of    *)
(* prolong_restrict/pr_loops.hpp that call them element by element.        *)
(*                                                                         *)
(* A topological element is the set of directions in which it lies on the  *)
(* edge of cells: CC is {}, F1 {1}, E1 {2, 3}, NN {1, 2, 3}.  An index is  *)
(* a function of the three directions; interiors start at 0 on both grids, *)
(* and directions beyond the dimension of the mesh keep index 0.  Values   *)
(* are integers, multiples of a unit that makes every division exact.  The *)
(* grid is uniform, so fine centres are a quarter of the coarse spacing    *)
(* from the coarse one, and all fine elements that an average takes have   *)
(* the same volume.                                                        *)
(***************************************************************************)
EXTENDS Integers, FiniteSetsExt, SequencesExt

Axes == 1..3

(* A field at the cell centres, faces, edges or nodes *)
Cell == {{}}
Face == {{1}, {2}, {3}}
Edge == {{2, 3}, {1, 3}, {1, 2}}
Node == {{1, 2, 3}}

(* The order in which the loops go through the elements of a field and, for *)
(* each of them, through those of the coarse grid                           *)
FieldOrder == <<{}, {1}, {2}, {3}, {2, 3}, {1, 3}, {1, 2}, {1, 2, 3}>>
CoarseOrder == <<{1, 2, 3}, {1, 2}, {1, 3}, {2, 3}, {1}, {2}, {3}, {}>>

IsSubmanifold(containee, container) ==
    container \subseteq containee /\ container # containee

(* INCLUDE_X1, INCLUDE_X2, INCLUDE_X3 and CENTER_X1 ...: the directions in *)
(* which the element is at the centre of cells                             *)
Centred(dim, el) == (1..dim) \ el

(* STENCIL_X1 ...: where the coarse element is wide and the fine one thin  *)
Stencil(dim, fel, cel) == ((1..dim) \cap fel) \ cel

Corners(D) == {o \in [Axes -> {0, 1}] : \A d \in Axes \ D : o[d] = 0}
Shift(i, o) == [d \in Axes |-> i[d] + o[d]]
Step(d, n) == [e \in Axes |-> IF e = d THEN n ELSE 0]
FineIndex(dim, i) == [d \in Axes |-> IF d <= dim THEN 2 * i[d] ELSE 0]

(***************************************************************************)
(* The coarse value is the average over the fine elements it covers        *)
(***************************************************************************)
RestrictAverage(dim, el, fine, c) ==
    LET covered == Corners(Centred(dim, el))
    IN  MapThenSumSet(LAMBDA o : fine[Shift(FineIndex(dim, c), o)], covered)
            \div Cardinality(covered)

(***************************************************************************)
(* ProlongateSharedGeneral: values on the fine elements within the coarse  *)
(* element of the same kind, with slopes from the coarse neighbors         *)
(***************************************************************************)
Abs(x) == IF x < 0 THEN -x ELSE x
GradMinMod(gm, gp) ==
    CASE gm > 0 /\ gp > 0 -> IF gm < gp THEN gm ELSE gp
      [] gm < 0 /\ gp < 0 -> IF gm < gp THEN gp ELSE gm
      [] OTHER -> 0

(* The slopes below and above the centre, as differences over a coarse cell; *)
(* one-sided ones are not conservative                                       *)
SlopesOneSided(op, below, above) ==
    IF op = "PiecewiseConstant" THEN <<0, 0>> ELSE <<below, above>>

Slopes(op, below, above) ==
    CASE op = "PiecewiseConstant" -> <<0, 0>>
      [] op = "SharedLinear"      -> <<below, above>>
      [] op = "SharedMinMod"      -> LET g == GradMinMod(below, above) IN <<g, g>>

(* The way from a coarse centre to a fine one, of a difference over a cell *)
Quarter(slope) == slope \div 4

ProlongateShared(op, dim, el, coarse, c) ==
    LET slope == [d \in Centred(dim, el) |->
                     Slopes(op, coarse[c] - coarse[Shift(c, Step(d, -1))],
                                coarse[Shift(c, Step(d, 1))] - coarse[c])]
        Term(d, o) == IF o[d] = 0 THEN -Quarter(slope[d][1]) ELSE Quarter(slope[d][2])
    IN  [o \in Corners(Centred(dim, el)) |->
            coarse[c] + MapThenSumSet(LAMBDA d : Term(d, o), Centred(dim, el))]

(***************************************************************************)
(* ProlongateInternalAverage: fine elements of kind fel inside the coarse  *)
(* element cel at c, from the fine ones on its boundary                    *)
(***************************************************************************)
Inside(dim, fel, cel, c) ==
    LET middle == [d \in Axes |-> IF d \in Stencil(dim, fel, cel) THEN 1 ELSE 0]
    IN  {Shift(Shift(FineIndex(dim, c), middle), o) : o \in Corners(Centred(dim, fel))}

InternalAverage(dim, fel, cel, fine, t) ==
    LET wide == Stencil(dim, fel, cel)
        around == {[d \in Axes |-> IF d \in wide THEN 2 * o[d] - 1 ELSE 0] :
                      o \in Corners(wide)}
    IN  MapThenSumSet(LAMBDA s : fine[Shift(t, s)], around) \div Cardinality(around)

(***************************************************************************)
(* ProlongateInternalTothAndRoe: the normal components on the fine faces   *)
(* in the middle of a coarse cell, for direction x = el + 1 and the two    *)
(* that follow it cyclically; shape holds the widths of a cell             *)
(***************************************************************************)
Second(d) == (d % 3) + 1
Third(d) == ((d + 1) % 3) + 1

(* The element (ok, oj, oi) of get_fine_permuted, in the directions of the grid *)
Permuted(dim, x, ok, oj, oi) ==
    [d \in Axes |-> IF d > dim THEN 0
                    ELSE IF d = x THEN oi ELSE IF d = Second(x) THEN oj ELSE ok]

Sg(offset) == IF offset = 0 THEN -1 ELSE 1
TUV == {0, 1} \X {0, 2} \X {0, 1}

TothAndRoe(dim, x, fine, shape, c, ok, oj) ==
    LET f == FineIndex(dim, c)
        Comp(e, k, j, i) == fine[{e}][Shift(f, Permuted(dim, x, k, j, i))]
        y == Second(x)
        z == Third(x)
        Fine2(q) == Comp(y, q[3], q[2], q[1])
        Fine3(q) == Comp(z, q[2], q[3], q[1])
        uxx == MapThenSumSet(LAMBDA q : Sg(q[1]) * Sg(q[2]) * (Fine2(q) + Fine3(q)), TUV)
        vxyz == MapThenSumSet(LAMBDA q : Sg(q[1]) * Sg(q[2]) * Sg(q[3]) * Fine2(q), TUV)
        wxyz == MapThenSumSet(LAMBDA q : Sg(q[1]) * Sg(q[2]) * Sg(q[3]) * Fine3(q), TUV)
        dx2 == shape[x] * shape[x]
        dy2 == shape[y] * shape[y]
        dz2 == shape[z] * shape[z]
    IN  (Comp(x, ok, oj, 0) + Comp(x, ok, oj, 2)) \div 2
          + uxx \div 8
          + Sg(ok) * ((vxyz * dz2) \div (8 * (dx2 + dz2)))
          + Sg(oj) * ((wxyz * dy2) \div (8 * (dx2 + dy2)))

(***************************************************************************)
(* The change of a cell by the fluxes through its faces, times its volume, *)
(* Update::FluxDivHelper; a coarse face has the area of 2^(dim-1) fine     *)
(* ones                                                                    *)
(***************************************************************************)
FaceArea(shape, x) == shape[Second(x)] * shape[Third(x)]
CoarseShare(dim) == 2 ^ (dim - 1)

FluxDivHelper(dim, shape, flux, c) ==
    -MapThenSumSet(LAMBDA x : FaceArea(shape, x) * (flux[{x}][Shift(c, Step(x, 1))] - flux[{x}][c]),
                   1..dim)

(***************************************************************************)
(* The loops.  OperationRequired of each stencil selects the pairs of fine *)
(* and coarse elements; the positions of a coarse element in a box of n    *)
(* cells each way include both sides where the element lies on an edge.    *)
(***************************************************************************)
OperationRequired(op, fel, cel) ==
    CASE op = "InternalAverage" -> IsSubmanifold(fel, cel)
      [] op = "TothAndRoe"      -> cel = {} /\ fel \in Face

Positions(dim, el, n) ==
    {i \in [Axes -> 0..n] :
        \A d \in Axes : i[d] <= IF d > dim THEN 0 ELSE IF d \in el THEN n ELSE n - 1}

Below(t) == [d \in Axes |-> t[d] \div 2]
Odd(t) == [d \in Axes |-> t[d] % 2]

(* What the shared operation writes, for each element of the field *)
ProlongateSharedLoop(op, dim, field, coarse, n) ==
    LET Written(el) == UNION {{Shift(FineIndex(dim, c), o) : o \in Corners(Centred(dim, el))} :
                                 c \in Positions(dim, el, n)}
    IN  [el \in field |-> [t \in Written(el) |->
            ProlongateShared(op, dim, el, coarse[el], Below(t))[Odd(t)]]]

Normal(fel) == CHOOSE d \in Axes : fel = {d}

(* What one internal operation writes inside the coarse element at c *)
Targets(op, dim, fel, cel, c) ==
    CASE op = "InternalAverage" -> Inside(dim, fel, cel, c)
      [] op = "TothAndRoe" ->
            {Shift(FineIndex(dim, c), Permuted(dim, Normal(fel), ok, oj, 1)) :
                ok \in {0, 1}, oj \in {0, 1}}

Internal(op, dim, fel, cel, shape, fine, t) ==
    CASE op = "InternalAverage" -> InternalAverage(dim, fel, cel, fine[fel], t)
      [] op = "TothAndRoe" ->
            LET x == Normal(fel)
            IN  TothAndRoe(dim, x, fine, shape, Below(t), Odd(t)[Third(x)], Odd(t)[Second(x)])

InnerLoop(op, dim, fel, cel, shape, n, fine) ==
    LET targets == UNION {Targets(op, dim, fel, cel, c) : c \in Positions(dim, cel, n)}
    IN  [fine EXCEPT ![fel] = [t \in targets \cup DOMAIN @ |->
            IF t \in targets THEN Internal(op, dim, fel, cel, shape, fine, t) ELSE @[t]]]

(* The internal operations of a field, in the order of the loops *)
ProlongateInternalLoop(op, dim, field, shape, n, shared) ==
    FoldLeft(LAMBDA f, fel :
                IF fel \notin field THEN f
                ELSE FoldLeft(LAMBDA g, cel : IF OperationRequired(op, fel, cel)
                                              THEN InnerLoop(op, dim, fel, cel, shape, n, g)
                                              ELSE g,
                              f, CoarseOrder),
             shared, FieldOrder)

(***************************************************************************)
(* Properties of the operations, for the stencils of one coarse element    *)
(***************************************************************************)
CONSTANTS
    Unit,         \* the unit of coarse and boundary values, see RefinementAssumption
    CellShapes    \* the widths of the cells that are considered

ASSUME RefinementAssumption ==
    /\ Unit \in Nat \ {0} /\ Unit % 64 = 0
    /\ CellShapes \subseteq [Axes -> Nat \ {0}]

AllElements == SUBSET Axes
Origin == [d \in Axes |-> 0]
Cross(dim, el) == {Origin} \cup {Step(d, n) : d \in Centred(dim, el), n \in {-1, 1}}
CrossData(dim, el) == [Cross(dim, el) -> {0, Unit, 3 * Unit}]
Values(f) == {f[x] : x \in DOMAIN f}

(* Restricting what minmod or constant prolongation wrote gives the coarse *)
(* value back, so that a block that is refined and merged keeps its        *)
(* content, and no prolongation goes beyond the values it started from.    *)
SharedSound ==
    \A dim \in 1..3, el \in AllElements :
        \A coarse \in CrossData(dim, el), op \in {"SharedMinMod", "SharedLinear", "PiecewiseConstant"} :
            \E fine \in {ProlongateShared(op, dim, el, coarse, Origin)} :
                /\ op # "SharedLinear" => RestrictAverage(dim, el, fine, Origin) = coarse[Origin]
                /\ \A v \in Values(fine) : Min(Values(coarse)) <= v /\ v <= Max(Values(coarse))

(* Shared and internal prolongation together give every fine element of a  *)
(* coarse cell a value, and none outside.                                  *)
FineElements(dim, el) ==
    {t \in [Axes -> 0..2] :
        \A d \in Axes : t[d] <= IF d > dim THEN 0 ELSE IF d \in el THEN 2 ELSE 1}

EverythingFilled ==
    \A dim \in 1..3, op \in {"InternalAverage", "TothAndRoe"} :
        \A field \in IF op = "TothAndRoe" THEN {Face} ELSE {Cell, Face, Edge, Node} :
            LET flat == [el \in field |-> [c \in [Axes -> -1..2] |-> Unit]]
                shared == ProlongateSharedLoop("SharedMinMod", dim, field, flat, 1)
                cube == [d \in Axes |-> 1]
            IN  \A el \in field :
                    ProlongateInternalLoop(op, dim, field, cube, 1, shared)[el]
                        = [t \in FineElements(dim, el) |-> Unit]

(* "Implements divergence-free prolongation to internal faces": whatever   *)
(* the values on the boundary of a coarse cell are, all fine cells in it   *)
(* get the same divergence, none if the coarse field has none.  The        *)
(* operation is linear, so one boundary face with a value at a time will   *)
(* do.                                                                     *)
OnBoundary(dim, x) ==
    {t \in FineElements(dim, {x}) : x <= dim => t[x] \in {0, 2}}

SingleFaces(dim) ==
    {[el \in Face |-> [t \in OnBoundary(dim, Normal(el)) |->
         IF el = {x} /\ t = at THEN Unit ELSE 0]] : x \in 1..dim, at \in FineElements(dim, {})}

DivergenceKept ==
    \A dim \in 1..3, shape \in CellShapes : \A boundary \in SingleFaces(dim) :
        \E fine \in {ProlongateInternalLoop("TothAndRoe", dim, Face, shape, 1, boundary)} :
            \A s, t \in Corners(1..dim) :
                FluxDivHelper(dim, shape, fine, s) = FluxDivHelper(dim, shape, fine, t)

(* Flux correction: with the fluxes of a coarse face restricted from the   *)
(* fine ones behind it, what leaves the coarse cell is what enters the     *)
(* fine cells, so the sum over cells of different levels is conserved.     *)
FluxesConserved ==
    \A dim \in 1..3, shape \in CellShapes : \A x \in 1..dim :
        LET behind == {t \in FineElements(dim, {x}) : t[x] = 0}
            \* no flux but through the lower faces of the cells behind the boundary
            FineFlux(at) == [el \in Face |-> [t \in FineElements(dim, el) |->
                                IF el = {x} /\ t = at THEN Unit ELSE 0]]
            CoarseFlux(at) ==
                [el \in Face |-> [c \in [Axes -> {-1, 0, 1}] |->
                    IF el = {x} /\ c = Origin
                    THEN RestrictAverage(dim, el, FineFlux(at)[el], c) ELSE 0]]
        IN  \A at \in behind :
                CoarseShare(dim) * FluxDivHelper(dim, shape, CoarseFlux(at), Step(x, -1))
                  = -MapThenSumSet(LAMBDA t : FluxDivHelper(dim, shape, FineFlux(at), t),
                                   Corners(1..dim))
=============================================================================
