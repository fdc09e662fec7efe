----------------------------- MODULE LoopIndices -----------------------------
(***************************************************************************)
(* How loops over ranges are turned into work items and back: the wrappers *)
(* par_for, par_for_outer and par_for_inner in all their patterns, the     *)
(* Indexer of the boundary kernels, and IndexSplit, which splits the j-k   *)
(* plane of a block over an outer loop and flattens what is left.          *)
(*                                                                         *)
(* A loop is the set of calls it makes, <<work item, index>>; its bounds   *)
(* are a sequence of <<first, last>>, outermost first.                     *)
(***************************************************************************)
LOCAL INSTANCE Integers
LOCAL INSTANCE Sequences
LOCAL INSTANCE FiniteSets
LOCAL INSTANCE Functions
LOCAL INSTANCE SequencesExt

Extent(b, d) == b[d][2] - b[d][1] + 1
Product(f)   == FoldFunction(LAMBDA x, y : x * y, 1, f)
ItemCount(b) == Product([d \in DOMAIN b |-> Extent(b, d)])

(* the indices a loop with these bounds stands for *)
AllIndices(b) ==
  {i \in [DOMAIN b -> UNION {b[d][1] .. b[d][2] : d \in DOMAIN b}] :
     \A d \in DOMAIN b : b[d][1] <= i[d] /\ i[d] <= b[d][2]}

(* GetFactors: how many items one step of dimension d stands for *)
Factor(b, d) == ItemCount(SubSeq(b, d + 1, Len(b)))

(* The quotients by the factors, each of what the ones before leave *)
GetIndices(b, idx) ==
  LET quotient[d \in DOMAIN b] ==
        LET before == {e \in DOMAIN b : e < d}
            left   == idx - FoldFunctionOnSet(LAMBDA x, y : x + y, 0,
                               [e \in before |-> quotient[e] * Factor(b, e)], before)
        IN  left \div Factor(b, d)
  IN  [d \in DOMAIN b |-> quotient[d] + b[d][1]]

Indexed(b) == {<<x, GetIndices(b, x)>> : x \in 0 .. ItemCount(b) - 1}

-----------------------------------------------------------------------------
(* What Kokkos does with the policies: every index of a range is given to  *)
(* one worker, a league has that many teams of nthreads threads each, a    *)
(* TeamThreadRange or TeamVectorRange is shared by the threads of a team,  *)
(* a ThreadVectorRange belongs to the thread that meets it.                *)
MDRange(b) == {<<i, i>> : i \in AllIndices(b)}
FlatRange(b) == Indexed(b)
NestedFor(b) == {<<i, i>> : i \in AllIndices(b)}

TeamRange(outer, inner) ==
  {<<<<team[1], i>>, team[2] \o i>> : team \in Indexed(outer), i \in AllIndices(inner)}
EachThread(outer, inner, nthreads) ==
  {<<<<team[1], t, i>>, team[2] \o i>> :
     team \in Indexed(outer), t \in 1 .. nthreads, i \in AllIndices(inner)}

Outer(b, n) == SubSeq(b, 1, Len(b) - n)
Inner(b, n) == SubSeq(b, Len(b) - n + 1, Len(b))

-----------------------------------------------------------------------------
(* par_dispatch, by the number of indices and the pattern *)
Loop1D(pattern, b) == IF pattern = "simdfor" THEN NestedFor(b) ELSE MDRange(b)

Loop2D(b) == MDRange(b)

Loop3D(pattern, b) ==
  CASE pattern = "flatrange" -> FlatRange(b)
    [] pattern = "mdrange"   -> MDRange(b)
    [] pattern \in {"tpttr", "tptvr"} -> TeamRange(Outer(b, 1), Inner(b, 1))
    [] pattern = "tpttrtvr"  -> TeamRange(Outer(b, 2), Inner(b, 2))
    [] pattern = "simdfor"   -> NestedFor(b)

(* with a ThreadVectorRange directly under the league *)
Loop4D(pattern, b, nthreads) ==
  CASE pattern = "flatrange" -> FlatRange(b)
    [] pattern = "mdrange"   -> MDRange(b)
    [] pattern = "tpttr"     -> TeamRange(Outer(b, 1), Inner(b, 1))
    [] pattern = "tptvr"     -> EachThread(Outer(b, 1), Inner(b, 1), nthreads)
    [] pattern = "tpttrtvr"  -> TeamRange(Outer(b, 2), Inner(b, 2))
    [] pattern = "simdfor"   -> NestedFor(b)

Loop5D(pattern, b) ==
  CASE pattern = "mdrange"   -> MDRange(b)
    [] pattern = "flatrange" -> FlatRange(b)
    [] pattern = "simdfor"   -> NestedFor(b)

Loop6D(pattern, b) ==
  CASE pattern = "mdrange"   -> MDRange(b)
    [] pattern = "flatrange" -> FlatRange(b)
    [] pattern = "simdfor"   -> NestedFor(b)

(* the pattern ttr; with six indices the first is shifted by the lower     *)
(* bound of the third                                                      *)
InnerTTR(b) ==
  IF Len(b) = 6
  THEN {<<c[1], [c[2] EXCEPT ![1] = @ - b[1][1] + b[3][1]]>> : c \in Indexed(b)}
  ELSE Indexed(b)

(* the patterns tvr, one index only, and simdfor, whose body with four     *)
(* indices gets the last three                                             *)
InnerTVR(b) == MDRange(b)
InnerSimdFor(b) ==
  IF Len(b) = 4 THEN {<<c[1], Tail(c[2])>> : c \in NestedFor(b)} ELSE NestedFor(b)

(* par_for_outer with n outer indices and a par_for_inner over the rest *)
ParForInner(pattern, b) ==
  CASE pattern = "ttr"     -> InnerTTR(b)
    [] pattern = "tvr"     -> InnerTVR(b)
    [] pattern = "simdfor" -> InnerSimdFor(b)
ParForOuter(b, n, pattern) ==
  {<<<<team[1], c[1]>>, team[2] \o c[2]>> :
     team \in Indexed(SubSeq(b, 1, n)), c \in ParForInner(pattern, SubSeq(b, n + 1, Len(b)))}

-----------------------------------------------------------------------------
(* IndexSplit.  Numbers of parts are given as counts, 0 or one of          *)
all_outer == -100
no_outer  == -200

(* the number of parts, total being the number of indices; `auto' is what  *)
(* the build takes for 0                                                   *)
Parts(np, total, auto) ==
  LET asked == CASE np = all_outer -> total [] np = no_outer -> 1 [] OTHER -> np
  IN  CASE asked = 0 -> auto [] asked > total -> total [] OTHER -> asked

(* on a device 0 means all of k and as much of j as there is concurrency *)
NSTREAMS == 1
SplitOf(kb, jb, ib, nkp, njp, device, concurrency) ==
  LET nk  == kb[2] - kb[1] + 1
      nj  == jb[2] - jb[1] + 1
      pk  == Parts(nkp, nk, IF device THEN nk ELSE 1)
      few == concurrency \div (NSTREAMS * pk)
      pj  == Parts(njp, nj, IF ~device THEN 1 ELSE IF few < nj THEN few ELSE nj)
  IN  [kb |-> kb, jb |-> jb, ib |-> ib, nkp |-> pk, njp |-> pj]

OuterSize(s) == s.nkp * s.njp

(* the f-th multiple of total / np + 1.e-6, cut to an integer *)
Million == 1000000
Target(f, total, np) == (f * (total * Million + np)) \div (np * Million)

PartOf(r, f, np) ==
  LET total == r[2] - r[1] + 1
  IN  <<r[1] + Target(f, total, np), r[1] + Target(f + 1, total, np) - 1>>

GetBoundsK(s, p) == PartOf(s.kb, p \div s.njp, s.nkp)
GetBoundsJ(s, p) == PartOf(s.jb, p % s.njp, s.njp)

(* rows jb of entire rows of ni cells as one range, from the first cell of *)
(* ib in the first row to the last one in the last                         *)
GetInnerBounds(s, jb, ni) == <<s.ib[1], ni * (jb[2] - jb[1] + 1) - (ni - 1 - s.ib[2]) - 1>>

is_i_ghost(idx, ni, ng) == LET i == idx % ni IN i < ng \/ i - ng >= ni - 2 * ng
is_j_ghost(j, nj, ng)   == j < ng \/ j - ng >= nj - 2 * ng
get_max(n, np)          == n \div np + 1

-----------------------------------------------------------------------------
(* a loop calls its body once for each of its indices *)
Once(calls, b) ==
  /\ {c[2] : c \in calls} = AllIndices(b)
  /\ Cardinality(calls) = Cardinality(AllIndices(b))

Patterns(n) == IF n \in 3 .. 4 THEN {"flatrange", "mdrange", "tpttr", "tptvr", "tpttrtvr", "simdfor"}
               ELSE {"flatrange", "mdrange", "simdfor"}

(* Every wrapper visits every index of its bounds exactly once, empty and  *)
(* one-element ranges included (kokkos_abstraction.hpp).  Left out: teams  *)
(* of several threads under the four-index tptvr, where each thread runs   *)
(* the whole range; six indices in an inner ttr whose first and third      *)
(* bounds differ; four in an inner simdfor, whose body is not given the    *)
(* first.                                                                  *)
LoopsVisitOnce(Ranges) ==
  /\ \A b \in [1 .. 1 -> Ranges] :
       /\ \A p \in Patterns(1) : Once(Loop1D(p, b), b)
       /\ Once(InnerTTR(b), b) /\ Once(InnerTVR(b), b) /\ Once(InnerSimdFor(b), b)
  /\ \A b \in [1 .. 2 -> Ranges] :
       Once(Loop2D(b), b) /\ Once(InnerTTR(b), b) /\ Once(InnerSimdFor(b), b)
  /\ \A b \in [1 .. 3 -> Ranges] :
       /\ \A p \in Patterns(3) : Once(Loop3D(p, b), b)
       /\ \A n \in 1 .. 2, p \in {"ttr", "simdfor"} : Once(ParForOuter(b, n, p), b)
       /\ Once(InnerTTR(b), b) /\ Once(InnerSimdFor(b), b)
  /\ \A b \in [1 .. 4 -> Ranges] :
       /\ \A p \in Patterns(4) : Once(Loop4D(p, b, 1), b)
       /\ \A p \in Patterns(4) \ {"tptvr"} : Once(Loop4D(p, b, 2), b)
       /\ Once(ParForOuter(b, 3, "tvr"), b) /\ Once(InnerTTR(b), b)

DeepLoopsVisitOnce(Ranges) ==
  /\ \A b \in [1 .. 5 -> Ranges] :
       (\A p \in Patterns(5) : Once(Loop5D(p, b), b)) /\ Once(InnerTTR(b), b)
  /\ \A b \in [1 .. 6 -> Ranges] :
       /\ \A p \in Patterns(6) : Once(Loop6D(p, b), b)
       /\ b[1][1] = b[3][1] => Once(InnerTTR(b), b)

(* The parts of a split cover the plane of the block, each place once,     *)
(* none is larger than the sizes promised for scratch memory, and a part's *)
(* flattened rows hold its cells once, with the ghosts told apart          *)
(* (index_split.hpp).                                                      *)
SplitsCover(n, ng) ==
  LET domains == {<<0, n - 1>>, <<ng, n - ng - 1>>}
      counts  == {all_outer, no_outer} \cup 0 .. n + 1
  IN  \A r \in domains : \A nkp, njp \in counts : \A device \in BOOLEAN :
        LET s == SplitOf(r, r, r, nkp, njp, device, 4 * n)
            parts == 0 .. OuterSize(s) - 1
            k(p) == GetBoundsK(s, p)
            j(p) == GetBoundsJ(s, p)
            rows(p) == {<<j(p)[1] + x \div n, x % n>> :
                          x \in GetInnerBounds(s, j(p), n)[1] .. GetInnerBounds(s, j(p), n)[2]}
        IN  /\ \A x, y \in r[1] .. r[2] :
                 Cardinality({p \in parts : /\ k(p)[1] <= x /\ x <= k(p)[2]
                                            /\ j(p)[1] <= y /\ y <= j(p)[2]}) = 1
            /\ \A p \in parts :
                 /\ r[1] <= k(p)[1] /\ k(p)[2] <= r[2] /\ r[1] <= j(p)[1] /\ j(p)[2] <= r[2]
                 /\ k(p)[2] - k(p)[1] + 1 <= get_max(n, s.nkp)
                 /\ j(p)[2] - j(p)[1] + 1 <= get_max(n, s.njp)
                 /\ {c \in rows(p) : c[2] >= r[1] /\ c[2] <= r[2]}
                      = (j(p)[1] .. j(p)[2]) \X (r[1] .. r[2])
                 /\ \A c \in rows(p) :
                      ~(is_i_ghost(c[2], n, ng) \/ is_j_ghost(c[1], n, ng))
                        <=> c \in (ng .. n - ng - 1) \X (ng .. n - ng - 1)
=============================================================================
