-------------------------- MODULE RefinementCriteria --------------------------
(***************************************************************************)
(* How a block is tagged for refinement (amr_criteria/amr_criteria.cpp,    *)
(* amr_criteria/refinement_package.cpp): the criteria on first and second  *)
(* derivatives of a field, and CheckAllRefinement over all packages.       *)
(*                                                                         *)
(* A block is [ndim, level, nx, fields]; a field that it has and that is   *)
(* allocated is a function on the indices of its cells, 0 .. nx + 1 with   *)
(* the ghosts.  Tolerances are fractions <<num, den>>; an index that is    *)
(* not used is 0.                                                          *)
(***************************************************************************)
LOCAL INSTANCE Integers
LOCAL INSTANCE Sequences
LOCAL INSTANCE FiniteSets
LOCAL INSTANCE SequencesExt

AmrTag == [derefine |-> -1, same |-> 0, refine |-> 1]

Abs(x) == IF x < 0 THEN -x ELSE x

(* GetBounds: the interior *)
InteriorCells(b) == [1 .. b.ndim -> 1 .. b.nx]
Shift(i, d, k)   == [i EXCEPT ![d] = @ + k]

(* d of a cell in a direction, as a fraction; TINY_NUMBER is what is left   *)
(* of a denominator that is zero                                            *)
FirstDifference(q, i, d) ==
  <<Abs(q[Shift(i, d, 1)] - q[Shift(i, d, -1)]), 2 * Abs(q[i])>>
SecondDifference(q, i, d) ==
  LET sum == q[Shift(i, d, 1)] + q[Shift(i, d, -1)]
  IN  <<Abs(sum - 2 * q[i]), Abs(sum) + 2 * Abs(q[i])>>

Exceeds(f, tol) == f[1] * tol[2] > tol[1] * f[2]
Below(f, tol)   == f[1] = 0 \/ (f[1] * tol[2] < tol[1] * f[2])

(* the comparison of maxd, the maximum over cells and directions *)
TagOf(diffs, refine_criteria, derefine_criteria) ==
  IF \E f \in diffs : Exceeds(f, refine_criteria) THEN AmrTag.refine
  ELSE IF \A f \in diffs : Below(f, derefine_criteria) THEN AmrTag.derefine ELSE AmrTag.same

FirstDerivative(b, q, crit) ==
  TagOf({FirstDifference(q, i, d) : i \in InteriorCells(b), d \in 1 .. b.ndim},
        crit.refine_criteria, crit.derefine_criteria)
SecondDerivative(b, q, crit) ==
  TagOf({SecondDifference(q, i, d) : i \in InteriorCells(b), d \in 1 .. b.ndim},
        crit.refine_criteria, crit.derefine_criteria)

(* the operator() of the criteria: nothing is said of a field that the     *)
(* block does not have or that is not allocated                            *)
Ask(b, crit) ==
  IF crit.field \notin DOMAIN b.fields THEN AmrTag.same
  ELSE CASE crit.method = "derivative_order_1" -> FirstDerivative(b, b.fields[crit.field], crit)
         [] crit.method = "derivative_order_2" -> SecondDerivative(b, b.fields[crit.field], crit)

(* AMRCriteria's constructor, and the root level that the manager adds *)
MaxLevel(asked, numlevel, root_level) ==
  (IF asked > numlevel THEN numlevel ELSE asked) + root_level

AtMostMaxLevel(b, crit, tag) ==
  IF tag = AmrTag.refine /\ b.level >= crit.max_level THEN AmrTag.same ELSE tag

(* CheckAllRefinement: packages in the order of the hash table, each with   *)
(* the answer of its own function and its criteria, up to the first one     *)
(* that refines                                                             *)
CheckAllRefinement(b, packages) ==
  LET answers == FlattenSeq([p \in DOMAIN packages |->
                   <<packages[p].check>> \o
                   [c \in DOMAIN packages[p].amr_criteria |->
                      AtMostMaxLevel(b, packages[p].amr_criteria[c], Ask(b, packages[p].amr_criteria[c]))]])
      level[n \in 0 .. Len(answers)] ==
        IF n = 0 THEN AmrTag.derefine
        ELSE IF level[n - 1] = AmrTag.refine THEN AmrTag.refine
        ELSE IF answers[n] > level[n - 1] THEN answers[n] ELSE level[n - 1]
  IN  level[Len(answers)]

-----------------------------------------------------------------------------
Half == <<1, 2>>
Small == <<1, 20>>

Criterion(field, method, max_level) ==
  [field |-> field, method |-> method, max_level |-> max_level,
   refine_criteria |-> Half, derefine_criteria |-> Small]

Methods == {"derivative_order_1", "derivative_order_2"}

(* Fields in two dimensions: smooth, sloped, with a step or a spike, or     *)
(* zero, at a place of the block that varies                                *)
Indices == [1 .. 2 -> 0 .. 3]
Fields ==
  {[i \in Indices |-> 40]}
    \cup {[i \in Indices |-> 40 + s * i[d]] : s \in {1, 16}, d \in 1 .. 2}
    \cup {[i \in Indices |-> IF i[d] >= n THEN h ELSE 40] : h \in {0, 42, 120}, n \in 0 .. 3, d \in 1 .. 2}
    \cup {[i \in Indices |-> IF i = <<n, k>> THEN 99 ELSE 0] : n \in 0 .. 3, k \in 0 .. 3}

FewFields == {[i \in Indices |-> IF i[1] >= 2 THEN h ELSE 40] : h \in {40, 50, 120}}

Swapped(q)  == [i \in Indices |-> q[<<i[2], i[1]>>]]
Mirrored(q) == [i \in Indices |-> q[[i EXCEPT ![1] = 3 - @]]]
Negated(q)  == [i \in Indices |-> -2 * q[i]]

Block2(level, fields) == [ndim |-> 2, level |-> level, nx |-> 2, fields |-> fields]

Corners == {i \in Indices : i[1] \in {0, 3} /\ i[2] \in {0, 3}}

(* The tag depends on the data alone: not on the direction it varies in,   *)
(* its scale or sign, nor on ghosts at corners, which may not be filled;   *)
(* what is constant lets a block be merged, and a field without storage    *)
(* keeps it as it is.  The answer of all criteria is the highest one,      *)
(* whatever the order of the packages, and no criterion refines beyond its *)
(* own level.                                                               *)
TagsFollowTheData ==
  /\ \A m \in Methods :
       LET crit == Criterion("q", m, 2)
           tag(q) == Ask(Block2(0, [f \in {"q"} |-> q]), crit)
       IN  /\ \A q \in Fields :
                /\ tag(Swapped(q)) = tag(q) /\ tag(Mirrored(q)) = tag(q) /\ tag(Negated(q)) = tag(q)
                /\ \A c \in Corners : tag([q EXCEPT ![c] = 1000]) = tag(q)
           /\ \A h \in {0, 7} : tag([i \in Indices |-> h]) = AmrTag.derefine
           /\ Ask(Block2(0, <<>>), crit) = AmrTag.same
  /\ \A q, r \in FewFields, level \in 0 .. 2, first \in {-1, 0, 1}, limit \in 1 .. 3 :
       LET b == Block2(level, [f \in {"q", "r"} |-> IF f = "q" THEN q ELSE r])
           a == Criterion("q", "derivative_order_1", MaxLevel(limit, 2, 0))
           c == Criterion("r", "derivative_order_2", MaxLevel(limit, 2, 0))
           p(check, crits) == [check |-> check, amr_criteria |-> crits]
           all == CheckAllRefinement(b, <<p(first, <<a>>), p(-1, <<c>>)>>)
           limited(t) == IF t = 1 /\ (level >= limit \/ level >= 2) THEN 0 ELSE t
           answers == {first, limited(Ask(b, a)), limited(Ask(b, c))}
       IN  /\ all \in answers /\ \A t \in answers : t <= all
           /\ all = CheckAllRefinement(b, <<p(-1, <<c>>), p(first, <<a>>)>>)
           /\ all = CheckAllRefinement(b, <<p(-1, <<c, a>>), p(first, <<>>)>>)
=============================================================================
