---------------------------- MODULE SolverTasks ----------------------------
(***************************************************************************)
(* The task lists of the solvers: reductions (solver_utils.hpp), multigrid *)
(* (mg_solver.hpp), BiCGSTAB (bicgstab_solver.hpp), and of the drivers     *)
(* that call them (example/poisson_gmg) or iterate on their own            *)
(* (example/poisson).  A field of multigrid level l is f(l); the blocks of *)
(* the leaf grid are those of the finest level, 1, the coarsest is 0.      *)
(***************************************************************************)
EXTENDS DriverTasks

F(f, l) == f \o ToString(l)

StartReduce(name, dep, val) ==
  Marked({"once_per_region"}, Do(name, dep, Shared({val}), Shared({val})))

CheckReduce(name, dep, val) ==
  Marked({"once_per_region", "local_sync"},
         Returning(Retry, Do(name, dep, Shared({val}), Shared({val}))))

(* without MPI the first CheckReduce is complete *)
WithoutMPI(items) ==
  [k \in DOMAIN items |-> IF "once_per_region" \in items[k].tq
                          THEN [items[k] EXCEPT !.returns = @ \ {"incomplete"}] ELSE items[k]]

(* mutant: nobody waits for the reduction to be zeroed *)
DotProductUnordered(name, dep, a, b, val) ==
  <<Marked({"once_per_region", "local_sync"}, Do(name \o " zero", dep, {}, Shared({val}))),
    Marked({"local_sync"}, Adding(Shared({val}), Do(name \o " local", dep, Interior({a, b}), {}))),
    StartReduce(name \o " start", {name \o " local"}, val),
    CheckReduce(name, {name \o " zero"}, val)>>

DotProduct(name, dep, a, b, val) ==
  <<Marked({"once_per_region", "local_sync"}, Do(name \o " zero", dep, {}, Shared({val}))),
    Marked({"local_sync"},
           Adding(Shared({val}), Do(name \o " local", {name \o " zero"}, Interior({a, b}), {}))),
    StartReduce(name \o " start", {name \o " local"}, val),
    CheckReduce(name, {name \o " start"}, val)>>

CopyData(name, dep, in, out)   == Do(name, dep, Whole({in}), Whole({out}))
SetToZero(name, dep, var)      == Do(name, dep, {}, Interior({var}))
AddFields(name, dep, a, b, out) == Do(name, dep, Whole({a, b}), Whole({out}))

(* PoissonEquation::Ax, with flux correction on the leaf grid *)
Ax(name, dep, x, out, leaf) ==
  LET flux == {"flux of " \o x}
  IN  <<Do(name \o " flux", dep, Whole({x}), Faces(flux))>>
      \o (IF leaf
          THEN <<Do(name \o " start", {name \o " flux"}, {}, Buffers(flux)),
                 Do(name \o " send", {name \o " flux"}, SentFaces(flux), {}),
                 Receive(name \o " recv", {name \o " start"}, flux),
                 Do(name \o " flux", {name \o " recv"}, Buffers(flux), Buffers(flux) \cup SetFaces(flux))>>
          ELSE <<>>)
      \o <<Do(name, {name \o " flux"}, Faces(flux) \cup Interior({x}), Interior({out}))>>

-----------------------------------------------------------------------------
(* MGSolver.  md_comm holds u and res_err. *)
Comm(l) == {F("u", l), F("res_err", l)}

JacobiIteration(name, dep, l) ==
  AddBoundaryExchangeTasks(name \o " comm", dep, Comm(l))
    \o Ax(name \o " Ax", {name \o " comm"}, F("u", l), F("temp", l), FALSE)
    \o <<Do(name, {name \o " Ax"}, Interior({F(f, l) : f \in {"rhs", "temp", "D", "u"}}),
            Interior({F("temp", l)}))>>

(* AddSRJIteration with stages > 0 *)
SRJIteration(name, dep, stages, l) ==
  LET copy(n) == IF n = stages THEN name ELSE name \o " copy" \o ToString(n)
      jacobi  == name \o " jacobi"
  IN  <<CopyData(copy(0), dep, F("u", l), F("temp", l))>>
      \o FlattenSeq([n \in 1 .. stages |->
           JacobiIteration(jacobi, {copy(n - 1)}, l)
             \o <<CopyData(copy(n), {jacobi}, F("temp", l), F("u", l))>>])

(* AddMultiGridSetupPartitionLevel for the levels 1 and 0; a level's result *)
(* is name, followed by the level                                           *)
SetupLevel(name, dep, l) ==
  IF l = 1 THEN <<Do(F(name, l), dep, Interior({F("u", l)}), {})>>
  ELSE <<Receive("recv", dep, {F("u", l)}),
         Do(F(name, l), {"recv"}, Buffers({F("u", l)}), Whole({F("u", l)}))>>

SetupTasks(name, dep) == SetupLevel(name, dep, 1) \o SetupLevel(name, dep, 0)

SendError(name, dep, l) ==
  <<CopyData("copy_back", dep, F("u", l), F("res_err", l)),
    CopyData("copy_back2", {"copy_back"}, F("temp", l), F("u", l)),
    Do(name, {"copy_back2"}, Whole({F("res_err", l)}), {})>>

(* from the finer level: with FAS the right hand side is that of the       *)
(* restricted solution, otherwise the solution is a correction from zero   *)
FromFiner(dep, fas, l) ==
  <<Receive("recv_from_finer", dep, Comm(l)),
    Do("set_from_finer", {"recv_from_finer"}, Buffers(Comm(l)), Buffers(Comm(l)) \cup Whole(Comm(l)))>>
  \o IF fas
     THEN AddBoundaryExchangeTasks("from_finer", {"set_from_finer"}, Comm(l))
            \o <<CopyData("copy_u0", {"from_finer"}, F("u", l), F("u0", l))>>
            \o Ax("Ax_u", {"copy_u0"}, F("u", l), F("temp", l), FALSE)
            \o <<AddFields("rhs", {"Ax_u"}, F("temp", l), F("res_err", l), F("rhs", l))>>
     ELSE <<SetToZero("rhs", {"set_from_finer"}, F("u", l)),
            CopyData("copy_rhs", {"set_from_finer"}, F("res_err", l), F("rhs", l))>>

(* to the coarser level and back: residual, correction, post-smoothing *)
CoarseCorrection(stages, l) ==
  AddBoundaryExchangeTasks("comm_u", {"pre_smooth"}, Comm(l))
    \o Ax("residual Ax", {"comm_u"}, F("u", l), F("temp", l), FALSE)
    \o <<AddFields("residual", {"residual Ax"}, F("rhs", l), F("temp", l), F("res_err", l)),
         Do("to_coarse", {"residual"}, Interior(Comm(l)), {}),
         Receive("recv_from_coarser", {"to_coarse"}, Comm(l)),
         Do("set_from_coarser", {"recv_from_coarser"}, Buffers(Comm(l)),
            Buffers(Comm(l)) \cup Whole({F("res_err", l)})),
         Do("prolongate", {"set_from_coarser"}, {}, Whole({F("res_err", l)})),
         AddFields("update_sol", {"prolongate"}, F("u", l), F("res_err", l), F("u", l))>>
    \o SRJIteration("post_smooth", {"update_sol"}, stages, l)

(* to the finer level: the error, with its ghost zones filled by way of u *)
ToFiner(name, fas, l) ==
  <<IF fas THEN AddFields("copy_over", {"post_smooth"}, F("u", l), F("u0", l), F("res_err", l))
    ELSE CopyData("copy_over", {"post_smooth"}, F("u", l), F("res_err", l)),
    CopyData("copy_over1", {"copy_over"}, F("u", l), F("temp", l)),
    CopyData("copy_over2", {"copy_over1"}, F("res_err", l), F("u", l))>>
  \o AddBoundaryExchangeTasks("boundary", {"copy_over2"}, Comm(l))
  \o SendError(name, {"boundary"}, l)

(* AddMultiGridTasksPartitionLevel *)
MultiGridLevel(name, dep, stages, fas, l) ==
  LET finest == l = 1
  IN  (IF finest THEN <<CopyData("copy_u0", dep, F("u", l), F("u0", l))>>
       ELSE FromFiner(dep, fas, l))
      \o <<Do("set_D", IF finest THEN {"copy_u0"} ELSE {"rhs", "copy_rhs"}, {}, Interior({F("D", l)}))>>
      \o SRJIteration("pre_smooth", {"set_D"}, stages, l)
      \o (IF finest THEN CoarseCorrection(stages, l)
          ELSE <<CopyData("post_smooth", {"pre_smooth"}, F("u", l), F("res_err", l))>>)
      \o (IF finest THEN <<Do(F(name, l), {"post_smooth"}, {}, {})>> ELSE ToFiner(F(name, l), fas, l))

(* AddLinearOperatorTasks: the levels depend on dep, not on the task       *)
(* before them that synchronizes the lists                                 *)
LinearOperator(name, dep, stages, fas) ==
  <<Marked({"local_sync"}, Do(name \o " pre_sync", dep, {}, {}))>>
  \o MultiGridLevel(name, dep, stages, fas, 1)
  \o MultiGridLevel(name, dep, stages, fas, 0)
  \o <<Marked({"local_sync"}, Do(name, {name \o " pre_sync", F(name, 1), F(name, 0)}, {}, {}))>>

(* MGSolver::AddTasks; the result is name *)
MGTasks(name, dep, stages, fas) ==
  <<Sub(name, dep, <<1, 2>>)>>
  \o In(name,
        <<Marked({"local_sync", "once_per_region"}, Do("update_iter", {}, {}, Shared({"iter_counter"})))>>
        \o LinearOperator("mg", {"update_iter"}, stages, fas)
        \o AddBoundaryExchangeTasks("comm", {"mg"}, Comm(1))
        \o Ax("Ax_res", {"comm"}, "u1", "res_err1", TRUE)
        \o <<AddFields("calc_res", {"Ax_res"}, "rhs1", "res_err1", "res_err1")>>
        \o DotProduct("get_res", {"calc_res"}, "res_err1", "res_err1", "residual")
        \o <<Marked({"completion"}, Returning({"complete", "iterate"},
               Do("check", {"get_res"}, Shared({"residual", "iter_counter"}), {})))>>)

-----------------------------------------------------------------------------
(* BiCGSTABSolver::AddTasks; r, p, v and so on are fields of the leaf grid *)
InitTasks(dep, relative) ==
  <<SetToZero("zero_x", dep, "x"), SetToZero("zero_u_init", dep, "u1"),
    CopyData("copy_r", dep, "rhs1", "r"), CopyData("copy_p", dep, "rhs1", "p"),
    CopyData("copy_rhat0", dep, "rhs1", "rhat0")>>
  \o DotProduct("get_rhat0r_init", dep, "rhat0", "r", "rhat0r")
  \o (IF relative THEN DotProduct("get_rhs2", dep, "rhs1", "rhs1", "rhs2") ELSE <<>>)
  \o <<Marked({"once_per_region", "local_sync"},
         Do("initialize", {"zero_x", "zero_u_init", "copy_r", "copy_p", "copy_rhat0",
                           "get_rhat0r_init", "get_rhs2"}, {}, Shared({"iter_counter"}))),
       Marked({"once_per_region"}, Do("print tol", {"initialize"}, Shared({"rhs2"}), {}))>>

(* u <- M var, by multigrid or as a copy that depends on copyDep *)
Precondition(name, dep, copyDep, var, mg) ==
  IF ~mg THEN <<CopyData(name, copyDep, var, "u1")>>
  ELSE <<CopyData("set_rhs", dep, var, "rhs1"), SetToZero("zero_u", dep, "u1")>>
       \o LinearOperator(name, {"set_rhs", "zero_u"}, 1, TRUE)

(* a task with coefficients that are quotients of reductions *)
Correct(name, dep, scalars, reads, out) ==
  Do(name, dep, Shared(scalars) \cup Whole(reads), Whole({out}))

PrintResidual(name, dep) ==
  Marked({"once_per_region"}, Do(name, dep, Shared({"residual", "iter_counter"}), {}))

BiCGSTABIteration(mg) ==
  <<Marked({"local_sync"}, Do("sync", {}, {}, {})),
    Marked({"once_per_region"},
           Do("reset", {"sync"}, Shared({"rhat0r"}), Shared({"rhat0r_old", "iter_counter"})))>>
  \o Precondition("precon1", {"reset"}, {}, "p", mg)
  \o AddBoundaryExchangeTasks("comm", {"precon1"}, {"u1"})
  \o Ax("get_v", {"comm"}, "u1", "v", TRUE)
  \o DotProduct("get_rhat0v", {"get_v"}, "rhat0", "v", "rhat0v")
  \o <<Correct("correct_h", {"get_rhat0v"}, {"rhat0r_old", "rhat0v"}, {"x", "u1"}, "h"),
       Correct("correct_s", {"get_rhat0v"}, {"rhat0r_old", "rhat0v"}, {"r", "v"}, "s")>>
  \o DotProduct("get_res", {"correct_s"}, "s", "s", "residual")
  \o <<PrintResidual("print", {"get_res"})>>
  \o Precondition("precon2", {"correct_s"}, {"correct_s"}, "s", mg)
  \o AddBoundaryExchangeTasks("pre_t_comm", {"precon2"}, {"u1"})
  \o Ax("get_t", {"pre_t_comm"}, "u1", "t", TRUE)
  \o DotProduct("get_ts", {"get_t"}, "t", "s", "ts")
  \o DotProduct("get_tt", {"get_t"}, "t", "t", "tt")
  \o <<Correct("correct_x", {"get_tt", "get_ts"}, {"ts", "tt"}, {"h", "u1"}, "x"),
       Correct("correct_r", {"get_tt", "get_ts"}, {"ts", "tt"}, {"s", "t"}, "r")>>
  \o DotProduct("get_res2", {"correct_r"}, "r", "r", "residual")
  \o <<PrintResidual("get_res2", {"get_res2"})>>
  \o DotProduct("get_rhat0r", {"correct_r"}, "rhat0", "r", "rhat0r")
  \o <<Correct("update_p", {"get_rhat0r", "get_res2"},
               {"rhat0r_old", "rhat0v", "ts", "tt", "rhat0r"}, {"p", "v", "r"}, "p"),
       Marked({"completion"}, Returning({"complete", "iterate"},
         Do("check", {"update_p", "correct_x"}, Shared({"residual", "rhs2", "iter_counter"}), {})))>>

BiCGSTABTasks(name, dep, mg, relative) ==
  InitTasks(dep, relative)
  \o <<Sub("solver_id", {"initialize"}, <<1, 2>>)>>
  \o In("solver_id", BiCGSTABIteration(mg))
  \o <<CopyData(name, {"solver_id"}, "x", "u1")>>

-----------------------------------------------------------------------------
(* example/poisson_gmg, with an exact solution to compare with *)
PoissonGMG(solve) ==
  <<CopyData("copy_exact", {}, "exact", "u1")>>
  \o AddBoundaryExchangeTasks("comm", {"copy_exact"}, {"u1"})
  \o Ax("get_rhs", {"comm"}, "u1", "rhs1", TRUE)
  \o <<SetToZero("zero_u", {"get_rhs"}, "u1")>>
  \o SetupTasks("setup", {"zero_u"})
  \o solve
  \o <<AddFields("diff", {"solve"}, "exact", "u1", "u1")>>
  \o DotProduct("get_err", {"diff"}, "u1", "u1", "err")
  \o <<Do("report", {"get_err"}, Shared({"err"}), {})>>

SetupDone == {"setup1", "setup0"}

(* example/poisson: reductions of different kinds, and a loop with a       *)
(* global_sync completion task                                             *)
Reduction(name, local, val) ==
  <<StartReduce(name \o " start", {local}, val), CheckReduce(name, {name \o " start"}, val)>>

Report(name, dep, val) == Marked({"once_per_region"}, Do(name, dep, Shared({val}), {}))

Accumulate(name, dep, reads, val) == Marked({"local_sync"}, Adding(Shared({val}), Do(name, dep, reads, {})))

PoissonLoop ==
  <<StartReceive("start_recv", {"phi"}),
    Do("update", {}, Whole({"phi"}) \cup Interior({"matrix"}), Interior({"phi", "delta"}))>>
  \o <<Accumulate("norm", {"update"}, Interior({"delta"}), "update_norm"),
       StartReduce("start_norm", {"norm"}, "update_norm"),
       Marked({"once_per_region"}, Returning(Retry,
         Do("finish_norm", {"start_norm"}, Shared({"update_norm"}), Shared({"update_norm"})))),
       Marked({"once_per_region"},
         Do("report_norm", {"finish_norm"}, Shared({"update_norm"}), Shared({"update_norm"}))),
       Do("send", {"update"}, Interior({"phi"}), {}),
       Receive("recv", {"start_recv"}, {"phi"}),
       Do("setb", {"recv", "update"}, Buffers({"phi"}), Buffers({"phi"}) \cup Ghost({"phi"})),
       Marked({"completion", "global_sync"}, Returning({"complete", "iterate"},
         Do("check", {"send", "setb", "report_norm"}, Interior({"phi", "delta"}), {})))>>

Poisson ==
  <<Accumulate("loc_red", {}, Interior({"density"}), "total_mass"),
    Accumulate("rank_red", {}, {}, "max_rank")>>
  \o Reduction("finish_mass", "loc_red", "total_mass")
  \o Reduction("finish_rank", "rank_red", "max_rank")
  \o <<Report("report_mass", {"finish_mass"}, "total_mass"),
       Report("report_rank", {"finish_rank"}, "max_rank"),
       Do("mat_elem", {}, {}, Interior({"matrix"})),
       Sub("solver_id", {"mat_elem"}, <<1, 2>>)>>
  \o In("solver_id", PoissonLoop)
  \o <<Marked({"once_per_region"}, Do("print", {"solver_id"}, {}, {})),
       Accumulate("fill_vec", {}, {}, "vec_reduce")>>
  \o Reduction("finish_vec", "fill_vec", "vec_reduce")
  \o <<Report("report_vec", {"finish_vec"}, "vec_reduce"),
       StartReduce("start_view", {}, "view_reduce"),
       CheckReduce("finish_view", {"start_view"}, "view_reduce"),
       Report("report_view", {"finish_view"}, "view_reduce")>>
=============================================================================
