--------------------------- MODULE TimeIntegration ---------------------------
(***************************************************************************)
(* The low-storage integrators (time_integration/low_storage_integrator),  *)
(* the updates of interface/update.hpp that use their weights, and how the *)
(* multi-stage drivers name the containers of the stages.                  *)
(*                                                                         *)
(* Weights are in twelfths.  A container holds the state of a system of    *)
(* equations whose exact solution tests the order: t' = 1, a' = t,         *)
(* b' = t^2, c' = a.  After one step of length 1 from t = 1 and zeros, a   *)
(* method of first order has t right, of second order t and a, of third    *)
(* order all four.                                                         *)
(* Values are multiples of 1/One, so that every division is exact.  "rk4"  *)
(* has decimal weights and is left out.                                    *)
(***************************************************************************)
EXTENDS Integers, Sequences

One == 12 ^ 3

(* LowStorageIntegrator::LowStorageIntegrator *)
Weights(delta, beta, gam0, gam1) ==
    [nstages |-> Len(beta), delta |-> delta, beta |-> beta, gam0 |-> gam0, gam1 |-> gam1]

LowStorageIntegrator ==
    [rk1 |-> Weights(<<12>>, <<12>>, <<0>>, <<12>>),
     rk2 |-> Weights(<<12, 0>>, <<12, 6>>, <<0, 6>>, <<12, 6>>),
     vl2 |-> Weights(<<12, 0>>, <<6, 12>>, <<0, 0>>, <<12, 12>>),
     rk3 |-> Weights(<<12, 0, 0>>, <<12, 3, 8>>, <<0, 3, 8>>, <<12, 9, 4>>)]

Order == [rk1 |-> 1, rk2 |-> 2, vl2 |-> 2, rk3 |-> 3]

(* The right-hand side, a container full of zeros, the state at t = 1 and  *)
(* the exact solution at t = 2                                             *)
Rhs(y) == [t |-> One, a |-> y.t, b |-> (y.t * y.t) \div One, c |-> y.a]
Zero == [t |-> 0, a |-> 0, b |-> 0, c |-> 0]
Base == [Zero EXCEPT !.t = One]
Exact == [t |-> 2 * One, a |-> (3 * One) \div 2, b |-> (7 * One) \div 3, c |-> (2 * One) \div 3]

(***************************************************************************)
(* The updates.  The variables are allocated in all containers.            *)
(***************************************************************************)
WeightedSumData(x, y, w1, w2) ==
    [v \in DOMAIN x |-> (w1 * x[v] + w2 * y[v]) \div 12]
AverageData(c1, c2, wgt1) == WeightedSumData(c1, c2, wgt1, 12 - wgt1)
UpdateData(in, dudt, dt) == WeightedSumData(in, dudt, 12, dt)

UpdateWithFluxDivergence(u0, u1, gam0, gam1, beta_dt) ==
    [v \in DOMAIN u0 |-> (gam0 * u0[v] + gam1 * u1[v] + beta_dt * Rhs(u0)[v]) \div 12]

(* One stage in the registers s0 and s1 *)
Update2S(pint, s, stage, update_s1) ==
    LET s1 == IF update_s1 THEN WeightedSumData(s.s1, s.s0, 12, pint.delta[stage]) ELSE s.s1
    IN  [s0 |-> UpdateWithFluxDivergence(s.s0, s1, pint.gam0[stage], pint.gam1[stage], pint.beta[stage]),
         s1 |-> s1]

(* "if update_s1, s1 should be set at the beginning of the cycle to 0,     *)
(* otherwise ... a copy of base"                                           *)
Step2S(pint, base, update_s1) ==
    LET s[n \in 0 .. pint.nstages] ==
            IF n = 0 THEN [s0 |-> base, s1 |-> IF update_s1 THEN Zero ELSE base]
            ELSE Update2S(pint, s[n - 1], n, update_s1)
    IN  s[pint.nstages].s0

(***************************************************************************)
(* The drivers: the containers are named after the stages, the last is the *)
(* first one again (StagedIntegrator::MakePeriodicNames_), and one stage   *)
(* averages the container of the stage before with "base" in place.        *)
(***************************************************************************)
StageNameUnshared(n, i) == i
StageName(n, i) == IF i = n THEN 0 ELSE i

DriverStage(pint, data, stage) ==
    LET c0 == StageName(pint.nstages, stage - 1)
        c1 == StageName(pint.nstages, stage)
        dudt == Rhs(data[c0])
        averaged == [data EXCEPT ![c0] = AverageData(data[c0], data[0], pint.beta[stage])]
    IN  [averaged EXCEPT ![c1] = UpdateData(averaged[c0], dudt, pint.beta[stage])]

DriverStep(pint, base) ==
    LET data[n \in 0 .. pint.nstages] ==
            IF n = 0 THEN [i \in 0 .. pint.nstages |-> IF i = 0 THEN base ELSE Zero]
            ELSE DriverStage(pint, data[n - 1], n)
    IN  data[pint.nstages][0]

Accurate(y, order) ==
    /\ y.t = Exact.t
    /\ order >= 2 => y.a = Exact.a
    /\ order >= 3 => y.b = Exact.b /\ y.c = Exact.c

OrderOfUpdates ==
    \A name \in DOMAIN LowStorageIntegrator, update_s1 \in BOOLEAN :
        Accurate(Step2S(LowStorageIntegrator[name], Base, update_s1), Order[name])

(* The drivers average with beta and 1 - beta, which is what gam0 and gam1 *)
(* are for the strong-stability preserving methods; not for "vl2".         *)
OrderOfDrivers ==
    \A name \in {"rk1", "rk2", "rk3"} :
        Accurate(DriverStep(LowStorageIntegrator[name], Base), Order[name])
=============================================================================
