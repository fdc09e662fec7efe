----------------------------- MODULE DriverLoop -----------------------------
(***************************************************************************)
(* Mesh::Initialize and EvolutionDriver::Execute on every MPI rank: the    *)
(* refinement of the initial mesh, the main loop with its collective       *)
(* calls, the signals that end it, the schedule of the outputs and what a  *)
(* run started from a restart file does.  A rank that reaches a collective *)
(* call waits there until every rank has made that call.                   *)
(*                                                                         *)
(* Times and time steps are whole numbers.  What one step computes is      *)
(* represented by what the loop needs of it: the time step the blocks of   *)
(* the rank allow after it, NewDt[rank][cycle][time].                      *)
(***************************************************************************)
EXTENDS Integers, FiniteSets, SequencesExt

CONSTANTS
  Ranks,        \* MPI ranks
  Root,         \* Globals::my_rank == 0
  Adaptive,     \* refinement = adaptive
  Balancers,    \* the values of loadbalancing/balancer: subset of {"default", "manual"}; "automatic",
                \* which RegisterLoadBalancing_ refuses for now, is provided for
  Interval,     \* loadbalancing/interval
  NewDt,        \* NewDt[r][n][t]: smallest new_block_dt_ of rank r after cycle n, at time t
  FirstDt,      \* parthenon/time/dt
  Tlim, Nlim,   \* limits of the run
  Declared,     \* the output blocks of the input file, in its order: [type, dt]
  Sources,      \* the signals that may be sent: subset of {"term", "now"}
  InitRounds,   \* bound: how often the initial mesh changes the number of its blocks
  MaxCrashes,   \* bound: how often the job dies and is restarted
  FirstCycle    \* bound: restarts use the files written at or after this cycle

ASSUME DriverAssumption == Root \in Ranks /\ Interval \in Nat \ {0} /\ InitRounds \in Nat /\ MaxCrashes \in Nat

VARIABLES
  at,        \* at[r]: where rank r is in Execute
  tm,        \* tm[r]: its SimTime [time, ncycle, dt]
  flag,      \* flag[r]: its signalflag
  signal,    \* signal[r]: the OutputSignal it goes by
  lb,        \* lb[r]: its lb_flag_ and step_since_lb
  params,    \* params[r]: next_time and file_number of every output
  balancer,  \* the balancer of this run
  trigger,   \* does the file "output_now" exist
  disk,      \* restart files: [tm, params], with the run that wrote them as history
  crashes,
  late,      \* history: the ranks of this run that a signal reached after the flags were exchanged
  steps,     \* history: [run, cycle, time, dt] of the steps taken
  restarts,  \* history: [run, tm]: the run and the SimTime it was started again from
  numbered   \* history: [out, number, cycle, time, run] of the numbered files

vars == <<at, tm, flag, signal, lb, params, balancer, trigger, disk, crashes, late, steps, restarts, numbered>>
runVars == <<balancer, trigger, disk, crashes>>
historyVars == <<late, steps, restarts, numbered>>

-----------------------------------------------------------------------------
(* Outputs::Outputs: blocks with dt < 0 are disabled; restarts are moved to *)
(* the tail so that the counters of the others are up to date in them       *)
OutputList ==
  LET enabled == SelectSeq(Declared, LAMBDA o : o.dt >= 0)
  IN  SelectSeq(enabled, LAMBDA o : o.type # "rst") \o SelectSeq(enabled, LAMBDA o : o.type = "rst")

OutIds == 1 .. Len(OutputList)

(* The constructor refuses a second restart block, so that the restart, if  *)
(* there is one, is the last output.                                        *)
ASSUME OutputsAssumption ==
  /\ Len(OutputList) \in Nat
  /\ \A o \in OutIds : OutputList[o].dt \in Nat /\ (OutputList[o].type = "rst" => o = Len(OutputList))

(* the parameters of an output that are not in the input file yet *)
FreshParams(t) == [o \in OutIds |-> [next |-> t, number |-> 0]]

KeepGoing(t) == t.time < Tlim /\ (Nlim < 0 \/ t.ncycle < Nlim)

(* MakeOutputs: is output o due at time t under signal s *)
Due(o, t, p, s) ==
  \/ t.ncycle = 0
  \/ t.time >= p[o].next
  \/ t.time >= Tlim
  \/ s \in {"now", "final"}

(* mutant: `now' and `final' advance the schedule too *)
AdvanceAlways(p, o, s) ==
  [p EXCEPT ![o] = [next |-> @.next + OutputList[o].dt, number |-> @.number + 1]]

(* GenerateFilename_, and the end of the history and VTK writers, which do  *)
(* not look at the signal                                                   *)
Advance(p, o, s) ==
  IF s = "none" \/ OutputList[o].type \in {"hst", "vtk"}
  THEN [p EXCEPT ![o] = [next |-> @.next + OutputList[o].dt, number |-> @.number + 1]]
  ELSE p

(* SetGlobalTimeStep: at most twice the last step, what every block allows, *)
(* and not past the end.  d is the smallest step of all blocks.             *)
Huge == 1000000
Grown(d) == IF 10 * d < Huge THEN 2 * d ELSE d

GlobalTimeStep(t, d) ==
  LET least == IF d < Grown(t.dt) THEN d ELSE Grown(t.dt)
  IN  IF t.time < Tlim /\ Tlim - t.time < least THEN Tlim - t.time ELSE least

-----------------------------------------------------------------------------
(* Collective calls: <<name, ...>>.  at[r] is <<"call", call>> while rank r *)
(* waits in one and <<"go", label>> while it runs.                          *)
Wait(c) == <<"call", c>>
Go(l)   == <<"go", l>>
Inside(r, c)  == at[r] = Wait(c)
AllInside(c)  == \A r \in Ranks : Inside(r, c)
Calls == {at[r][2] : r \in {q \in Ranks : at[q][1] = "call"}}

(* MakeOutputs from output o on: the next output that is due, or the end.   *)
(* Writing is collective; the call is determined by the file that is opened *)
NextOutput(r, o, t, p, s, after) ==
  LET due == {i \in OutIds : i >= o /\ Due(i, t, p, s)}
  IN  IF due = {} THEN Go(after)
      ELSE LET i == CHOOSE j \in due : \A k \in due : j <= k
           IN  Wait(<<"write", i, s, IF s = "none" THEN p[i].number ELSE 0, after>>)

(* the step that all blocks allow at t *)
Allowed(t) ==
  LET S == {NewDt[r][t.ncycle][t.time] : r \in Ranks} IN CHOOSE d \in S : \A e \in S : d <= e

(* Mesh::Initialize of a new run refines the mesh round by round; that of a *)
(* restarted one is done with the first, without adapting the mesh          *)
AtStart == Wait(<<"dt", "begin">>)
AtInitialize == IF Adaptive THEN Wait(<<"init", 1>>) ELSE AtStart

(* BuildBlockList ends with ResetLoadBalanceVariables *)
LbStart == [flag |-> FALSE, since |-> 0]

Init ==
  /\ at     = [r \in Ranks |-> AtInitialize]
  /\ tm     = [r \in Ranks |-> [time |-> 0, ncycle |-> 0, dt |-> FirstDt]]
  /\ flag   = [r \in Ranks |-> {}]
  /\ signal = [r \in Ranks |-> "none"]
  /\ lb     = [r \in Ranks |-> LbStart]
  /\ params = [r \in Ranks |-> FreshParams(0)]
  /\ balancer \in Balancers
  /\ trigger = FALSE
  /\ disk = {}
  /\ crashes = 0
  /\ late = {}
  /\ steps = {}
  /\ restarts = {}
  /\ numbered = {}

(* lb_flag_ is set by SetCostForLoadBalancing under the manual balancer, on *)
(* the rank whose block it is called for, and always under the automatic    *)
CostsNew(costed) == balancer = "automatic" \/ (balancer = "manual" /\ costed)

(* the rest of the loop's condition and of what precedes the next step *)
LoopHead(r, t) == IF KeepGoing(t) THEN Go("step") ELSE Go("after")

(* A round of Mesh::Initialize: the problem is set up, ghost zones are      *)
(* filled, the blocks tagged, and the mesh adapted, balanced and            *)
(* redistributed if any rank asked for a change.  The last round is the one *)
(* that does not change the number of blocks, of which every rank has the   *)
(* same count.  The problem generator may set the cost of blocks of some    *)
(* ranks (costed).                                                          *)
InitializeRound(k, changes, costed) ==
  /\ AllInside(<<"init", k>>)
  /\ changes = "number" => k <= InitRounds
  /\ at' = [r \in Ranks |-> IF changes = "number" THEN Wait(<<"init", k + 1>>) ELSE AtStart]
  /\ lb' = [r \in Ranks |-> IF changes = "nothing" THEN [lb[r] EXCEPT !.flag = @ \/ CostsNew(r \in costed)]
                            ELSE LbStart]
  /\ UNCHANGED <<tm, flag, signal, params, runVars, historyVars>>

(* InitializeBlockTimeSteps and SetGlobalTimeStep, before the loop and at   *)
(* the end of every cycle                                                   *)
TimeStep(where) ==
  LET c == <<"dt", where>>
      new(r) == [tm[r] EXCEPT !.dt = GlobalTimeStep(tm[r], Allowed(tm[r]))]
  IN  /\ AllInside(c)
      /\ tm' = [r \in Ranks |-> new(r)]
      /\ at' = [r \in Ranks |->
                  IF where = "begin" THEN NextOutput(r, 1, tm[r], params[r], signal[r], "begin")
                  ELSE Wait(<<"signals">>)]
      /\ UNCHANGED <<flag, signal, lb, params, runVars, historyVars>>

(* one output file is written by all ranks; restart files hold the         *)
(* parameters as they are after GenerateFilename_                           *)
WriteOutput(c) ==
  /\ c \in Calls /\ c[1] = "write" /\ AllInside(c)
  /\ LET o == c[2]
         t == tm[Root]
         s == signal[Root]
     IN  /\ params' = [r \in Ranks |-> Advance(params[r], o, signal[r])]
         /\ at' = [r \in Ranks |-> NextOutput(r, o + 1, tm[r], params'[r], signal[r], c[5])]
         /\ disk' = IF OutputList[o].type = "rst"
                    THEN disk \cup {[tm |-> t, params |-> params'[Root], run |-> crashes]} ELSE disk
         /\ numbered' = IF s = "none" /\ OutputList[o].type \in {"hdf5", "rst", "histogram"}
                        THEN numbered \cup {[out |-> o, number |-> params[Root][o].number,
                                             cycle |-> t.ncycle, time |-> t.time, run |-> crashes]}
                        ELSE numbered
  /\ UNCHANGED <<tm, flag, signal, lb, balancer, trigger, crashes, late, steps, restarts>>

(* the while condition *)
TestLoop(r) ==
  /\ at[r] \in {Go("begin"), Go("loop")}
  /\ at' = [at EXCEPT ![r] = LoopHead(r, tm[r])]
  /\ UNCHANGED <<tm, flag, signal, lb, params, runVars, historyVars>>

(* Step: the tasks of one cycle, in which a package may set the cost of     *)
(* blocks of this rank (costed); time and the counters advance, then the    *)
(* mesh is adapted.                                                         *)
Step(r, costed) ==
  /\ at[r] = Go("step")
  /\ tm' = [tm EXCEPT ![r].time = @ + tm[r].dt, ![r].ncycle = @ + 1]
  /\ lb' = [lb EXCEPT ![r].flag = @ \/ CostsNew(costed), ![r].since = @ + 1]
  /\ at' = [at EXCEPT ![r] = IF Adaptive THEN Wait(<<"refine">>) ELSE Go("balance")]
  /\ steps' = steps \cup {[run |-> crashes, cycle |-> tm[r].ncycle, time |-> tm[r].time, dt |-> tm[r].dt]}
  /\ UNCHANGED <<flag, signal, params, runVars, late, restarts, numbered>>

(* UpdateMeshBlockTree gathers the flags of all ranks: the tree changes on *)
(* all of them (moved) or on none                                          *)
Refine(moved) ==
  /\ AllInside(<<"refine">>)
  /\ at' = [r \in Ranks |-> IF ~moved THEN Go("balance")
                            ELSE IF balancer = "default" THEN Wait(<<"redistribute">>)
                            ELSE Wait(<<"costs", "refined">>)]
  /\ UNCHANGED <<tm, flag, signal, lb, params, runVars, historyVars>>

(* mutant: the interval is not waited for on every rank *)
BalanceNow(r) == lb[r].flag /\ (lb[r].since >= Interval \/ r = Root)

BalanceDue(r) == lb[r].flag /\ lb[r].since >= Interval

(* LoadBalancingAndAdaptiveMeshRefinement when the tree has not changed;    *)
(* the default balancer has no costs to gather                              *)
Balance(r) ==
  /\ at[r] = Go("balance")
  /\ IF BalanceDue(r) /\ balancer # "default"
     THEN at' = [at EXCEPT ![r] = Wait(<<"costs", "interval">>)] /\ UNCHANGED lb
     ELSE /\ at' = [at EXCEPT ![r] = Wait(<<"dt", "cycle">>)]
          /\ lb' = [lb EXCEPT ![r].flag = @ /\ ~BalanceDue(r)]
  /\ UNCHANGED <<tm, flag, signal, params, runVars, historyVars>>

(* GatherCostListAndCheckBalance: all ranks see the same costs *)
GatherCosts(why, balanced) ==
  /\ AllInside(<<"costs", why>>)
  /\ lb' = [r \in Ranks |-> IF why = "interval" THEN [lb[r] EXCEPT !.flag = FALSE] ELSE lb[r]]
  /\ at' = [r \in Ranks |-> IF why = "refined" \/ ~balanced THEN Wait(<<"redistribute">>)
                            ELSE Wait(<<"dt", "cycle">>)]
  /\ UNCHANGED <<tm, flag, signal, params, runVars, historyVars>>

(* RedistributeAndRefineMeshBlocks, which ends with ResetLoadBalanceVariables *)
Redistribute ==
  /\ AllInside(<<"redistribute">>)
  /\ lb' = [r \in Ranks |-> [flag |-> FALSE, since |-> 0]]
  /\ at' = [r \in Ranks |-> Wait(<<"dt", "cycle">>)]
  /\ UNCHANGED <<tm, flag, signal, params, runVars, historyVars>>

-----------------------------------------------------------------------------
(* mutant: the flags are not exchanged *)
CombineNever(r, withNow) == flag[r] \cup (IF withNow /\ r = Root THEN {"now"} ELSE {})

(* the flags after the Allreduce with MPI_MAX *)
Combine(r, withNow) == (UNION {flag[q] : q \in Ranks}) \cup (IF withNow THEN {"now"} ELSE {})

(* CheckSignalFlags up to the unblocking of the signals *)
ExchangeSignals ==
  /\ AllInside(<<"signals">>)
  /\ flag' = [r \in Ranks |-> Combine(r, trigger)]
  /\ at' = [r \in Ranks |-> Go("flags")]
  /\ UNCHANGED <<tm, signal, lb, params, runVars, historyVars>>

(* ... and the loop over the flags, break, or MakeOutputs *)
ReadFlags(r) ==
  LET s == IF "term" \in flag[r] THEN "final" ELSE IF "now" \in flag[r] THEN "now" ELSE "none"
  IN  /\ at[r] = Go("flags")
      /\ signal' = [signal EXCEPT ![r] = s]
      /\ flag' = [flag EXCEPT ![r] = IF s = "now" THEN @ \ {"now"} ELSE @]
      /\ trigger' = IF s = "now" /\ r = Root THEN FALSE ELSE trigger
      /\ at' = [at EXCEPT ![r] = IF s = "final" THEN Go("after")
                                 ELSE IF KeepGoing(tm[r])
                                      THEN NextOutput(r, 1, tm[r], params[r], s, "loop")
                                      ELSE Go("loop")]
      /\ UNCHANGED <<tm, lb, params, balancer, disk, crashes, historyVars>>

(* the final outputs *)
AfterLoop(r) ==
  /\ at[r] = Go("after")
  /\ signal' = [signal EXCEPT ![r] = "final"]
  /\ at' = [at EXCEPT ![r] = NextOutput(r, 1, tm[r], params[r], "final", "done")]
  /\ UNCHANGED <<tm, flag, lb, params, runVars, historyVars>>

(* SetSignalFlag.  CheckSignalFlags blocks the signals until the flags have *)
(* been exchanged: one that arrives in the meantime is delivered when they  *)
(* are unblocked, like one that arrives then.  It is too late for the       *)
(* exchange, but not for the loop over the flags of this rank, which leaves *)
(* the main loop if that is not at its end anyway.                          *)
Signal(r) ==
  /\ "term" \in Sources /\ "term" \notin flag[r] /\ at[r] # Go("done")
  /\ flag' = [flag EXCEPT ![r] = @ \cup {"term"}]
  /\ late' = IF at[r] = Go("flags") /\ KeepGoing(tm[r]) THEN late \cup {r} ELSE late
  /\ UNCHANGED <<at, tm, signal, lb, params, runVars, steps, restarts, numbered>>

(* the user creates the file "output_now"; Root looks before the Allreduce *)
OutputNow ==
  /\ "now" \in Sources /\ ~trigger
  /\ \A r \in Ranks : at[r] \notin {Go("done"), Go("flags"), Wait(<<"signals">>)}
  /\ trigger' = TRUE
  /\ UNCHANGED <<at, tm, flag, signal, lb, params, balancer, disk, crashes, historyVars>>

(* mutant: the cycle is not restored *)
RestoredTimeOnly(f) == [f.tm EXCEPT !.ncycle = 0]

(* the start_time, dt and ncycle that a restart file puts into the input *)
Restored(f) == f.tm

(* The job dies, or has ended with time left, and is started again from one *)
(* of the restart files (ParthenonInitPackagesAndMesh)                       *)
Restart(f) ==
  /\ crashes < MaxCrashes /\ f.tm.ncycle >= FirstCycle
  /\ crashes' = crashes + 1
  /\ at'     = [r \in Ranks |-> AtStart]
  /\ tm'     = [r \in Ranks |-> Restored(f)]
  /\ flag'   = [r \in Ranks |-> {}]
  /\ signal' = [r \in Ranks |-> "none"]
  /\ lb'     = [r \in Ranks |-> LbStart]
  /\ params' = [r \in Ranks |-> f.params]
  /\ late' = {}
  /\ restarts' = restarts \cup {[run |-> crashes + 1, tm |-> f.tm]}
  /\ UNCHANGED <<balancer, trigger, disk, steps, numbered>>

(* what the ranks do by themselves *)
Program ==
  \/ \E k \in 1 .. InitRounds + 1, changes \in {"nothing", "number", "places"}, costed \in SUBSET Ranks :
       InitializeRound(k, changes, costed)
  \/ \E w \in {"begin", "cycle"} : TimeStep(w)
  \/ \E c \in Calls : WriteOutput(c)
  \/ \E r \in Ranks : TestLoop(r) \/ Balance(r) \/ ReadFlags(r) \/ AfterLoop(r)
  \/ \E r \in Ranks, costed \in BOOLEAN : Step(r, costed)
  \/ \E moved \in BOOLEAN : Refine(moved)
  \/ \E why \in {"refined", "interval"}, balanced \in BOOLEAN : GatherCosts(why, balanced)
  \/ Redistribute
  \/ ExchangeSignals

Next ==
  \/ Program
  \/ \E r \in Ranks : Signal(r)
  \/ OutputNow
  \/ \E f \in disk : Restart(f)

Spec == Init /\ [][Next]_vars

(* The ranks run; nothing is assumed of signals, users and crashes. *)
FairSpec == Spec /\ WF_vars(Program)

-----------------------------------------------------------------------------
(* What parts the ranks.  The first: a termination signal reached some of  *)
(* them between the Allreduce of CheckSignalFlags and their loop over the   *)
(* flags, and not the others.  The second: when the interval had passed, a  *)
(* cost had been set on some of them and not on the others.                 *)
SignalMissed == late \notin {{}, Ranks}

BalancePlaces == {Go("balance"), Wait(<<"costs", "interval">>), Wait(<<"dt", "cycle">>)}

CostsUneven ==
  \E r, q \in Ranks : /\ {at[r], at[q]} \subseteq BalancePlaces
                      /\ lb[r].since >= Interval /\ lb[r].flag /\ ~lb[q].flag

Parted == SignalMissed \/ CostsUneven

(* Ranks that wait in collective calls wait in the same one, and none has   *)
(* left the program: otherwise the job hangs or exchanges unrelated data    *)
(* (CheckSignalFlags, LoadBalancingAndAdaptiveMeshRefinement, MakeOutputs). *)
(* Nothing but a late signal and uneven costs parts them.                   *)
CollectivesMatch ==
  \/ Parted
  \/ /\ Cardinality(Calls) <= 1
     /\ Calls # {} => \A r \in Ranks : at[r] # Go("done")

(* the step that the blocks and the end of the run ask for at t *)
Wanted(t) == IF Tlim - t.time < Allowed(t) THEN Tlim - t.time ELSE Allowed(t)

(* the step at t was limited by the factor of two *)
Eased(t) == t.dt < Wanted(t)

(* Runs take the same step at the same time in a cycle that they both pass, *)
(* unless one of them was started, in that cycle or before, from a file     *)
(* whose step the factor of two had limited: SetGlobalTimeStep is called    *)
(* once more after a restart, and applies the factor to that step again.    *)
(* The first step of a restarted run is at least the one of the file and at *)
(* most twice that.                                                         *)
RestartReproduces ==
  /\ \A a, b \in steps : a.cycle = b.cycle =>
       \/ a.time = b.time /\ a.dt = b.dt
       \/ \E s \in restarts : /\ Eased(s.tm) /\ s.tm.ncycle <= a.cycle
                             /\ (s.run <= a.run \/ s.run <= b.run)
  /\ \A s \in restarts, a \in steps : a.run = s.run /\ a.cycle = s.tm.ncycle =>
       a.time = s.tm.time /\ a.dt >= s.tm.dt /\ a.dt <= 2 * s.tm.dt

(* The numbered files of an output are consecutive, in one run a later      *)
(* cycle has a higher number, none is written before its time, and a        *)
(* restart file counts all that its run had written by then, so that a run  *)
(* started from it does not write over them (Outputs::Outputs: "so file     *)
(* counters for other output types are up-to-date in restart file").        *)
OutputNumbering ==
  /\ \A e \in numbered : \A n \in 0 .. e.number :
       \E f \in numbered : f.out = e.out /\ f.number = n
  /\ \A e, f \in numbered : e.out = f.out /\ e.run = f.run =>
       (e.cycle < f.cycle <=> e.number < f.number)
  /\ \A e \in numbered : e.time < Tlim => e.time >= e.number * OutputList[e.out].dt
  /\ \A d \in disk : \A e \in numbered :
       e.run = d.run /\ e.cycle <= d.tm.ncycle => e.number < d.params[e.out].number

(* Whatever signals arrive, whatever costs are set and however often the    *)
(* job is restarted, in the end either all ranks have left the program or   *)
(* the ranks have been parted by a late signal or by uneven costs; a job    *)
(* whose ranks have been parted never ends.                                 *)
AllRanksFinish == <>[]((\A r \in Ranks : at[r] = Go("done")) <=> ~Parted)
=============================================================================
