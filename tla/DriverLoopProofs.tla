-------------------------- MODULE DriverLoopProofs --------------------------
(***************************************************************************)
(* Proofs about the main loop, for any number of ranks, outputs, limits    *)
(* and restarts: nothing but a late signal and uneven costs parts the      *)
(* ranks, nothing but the factor of two makes a restarted run take other   *)
(* steps than the run it continues, and the outputs are numbered.          *)
(*                                                                         *)
(* Between two collective calls a rank runs on its own, but what it does   *)
(* depends on its own state only.  Two ranks that are in different places  *)
(* are therefore together if they would be in the same state once each     *)
(* had gone on to its next collective call, or to the end.                 *)
(***************************************************************************)
EXTENDS DriverLoop, FiniteSetTheorems, WellFoundedInduction, TLAPS

(* The places of LoadBalancingAndAdaptiveMeshRefinement count as one: which *)
(* of them a rank is in depends on its costs, and the ranks may differ.     *)
Stop(a) == IF a \in BalancePlaces THEN Go("balance") ELSE a

(* what a rank goes by; its flags only count when it is about to read them *)
Local(r) ==
  [at |-> Stop(at[r]), tm |-> tm[r], signal |-> signal[r], since |-> lb[r].since, params |-> params[r],
   flag |-> IF at[r] = Go("flags") THEN flag[r] ELSE {}]

SignalOf(flags) == IF "term" \in flags THEN "final" ELSE IF "now" \in flags THEN "now" ELSE "none"

(* the steps of a rank on its own: TestLoop, Step, ReadFlags and AfterLoop  *)
Tested(s) == [s EXCEPT !.at = LoopHead(Root, s.tm)]

Stepped(s) ==
  [s EXCEPT !.at = IF Adaptive THEN Wait(<<"refine">>) ELSE Go("balance"),
            !.tm = [s.tm EXCEPT !.time = s.tm.time + s.tm.dt, !.ncycle = s.tm.ncycle + 1],
            !.since = s.since + 1]

FlagsRead(s) ==
  LET read == SignalOf(s.flag)
  IN  [s EXCEPT !.at = IF read = "final" THEN Go("after")
                       ELSE IF KeepGoing(s.tm)
                            THEN NextOutput(Root, 1, s.tm, s.params, read, "loop") ELSE Go("loop"),
                !.signal = read, !.flag = {}]

Left(s) ==
  [s EXCEPT !.at = NextOutput(Root, 1, s.tm, s.params, "final", "done"), !.signal = "final"]

OnItsOwn(s) ==
  IF s.at \in {Go("begin"), Go("loop")} THEN Tested(s)
  ELSE IF s.at = Go("step") THEN Stepped(s)
  ELSE IF s.at = Go("flags") THEN FlagsRead(s)
  ELSE IF s.at = Go("after") THEN Left(s)
  ELSE s

(* the state of a rank at its next stop, or at the end: it is at most four *)
(* steps away                                                              *)
Twice(s) == OnItsOwn(OnItsOwn(s))
Ahead(r) == Twice(Twice(Local(r)))

(* the state of a rank at its first final output, if it leaves the loop *)
Closing(s) ==
  [s EXCEPT !.at = NextOutput(Root, 1, s.tm, s.params, "final", "done"), !.signal = "final", !.flag = {}]

(* The ranks that a late signal reached are together, and so are the others. *)
Together == \A r, q \in Ranks : (r \in late <=> q \in late) => Ahead(r) = Ahead(q)

(* While there are ranks that have not read their flags, those that a late *)
(* signal reached are where these will be if it reaches them too.          *)
Flagged ==
  \A r \in Ranks \ late, q \in Ranks : at[r] = Go("flags") =>
    /\ q \in late => Ahead(q) = Closing(Local(r))
    /\ q \notin late /\ at[q] = Go("flags") => Closing(Local(q)) = Closing(Local(r))

(* a rank waits to write an output, and goes on after it *)
Writing(a, after) == a = Wait(a[2]) /\ a[2][1] = "write" /\ a[2][5] = after

(* a rank that a late signal reached is leaving the program *)
Leaving(a, flags) ==
  \/ a = Go("flags") /\ "term" \in flags
  \/ a \in {Go("after"), Go("done")}
  \/ Writing(a, "done")

(* Which of the places of load balancing a rank waits in follows from its   *)
(* own flag and counter.                                                    *)
Balanced(a, b) ==
  /\ a = Wait(<<"costs", "interval">>) => b.flag /\ b.since >= Interval
  /\ a = Wait(<<"dt", "cycle">>) => ~(b.flag /\ b.since >= Interval)

Labels == {"begin", "loop", "step", "balance", "flags", "after", "done"}

Place(a) ==
  \/ a \in {Go(l) : l \in Labels}
  \/ a = Wait(a[2]) /\ (a[2][1] = "write" => a[2][5] \in {"begin", "loop", "done"})

Shaped(t) == t = [time |-> t.time, ncycle |-> t.ncycle, dt |-> t.dt]

TypeOK ==
  /\ at = [r \in Ranks |-> at[r]] /\ \A r \in Ranks : Place(at[r])
  /\ tm = [r \in Ranks |-> tm[r]] /\ \A r \in Ranks : Shaped(tm[r])
  /\ flag \in [Ranks -> SUBSET {"term", "now"}]
  /\ signal \in [Ranks -> {"none", "now", "final"}]
  /\ lb \in [Ranks -> [flag : BOOLEAN, since : Nat]]
  /\ params = [r \in Ranks |-> params[r]]
  /\ \A f \in disk : Shaped(f.tm)
  /\ late \subseteq Ranks

LateLeave == \A r \in late : Leaving(at[r], flag[r])

FlagsDecide == \A r \in Ranks : Balanced(at[r], lb[r])

LoopInv == TypeOK /\ Together /\ Flagged /\ LateLeave /\ FlagsDecide


(***************************************************************************)
(* A rank on its own.                                                      *)
(***************************************************************************)
(* how far a place is from the next stop *)
Level(a) ==
  IF a = Go("flags") THEN 4
  ELSE IF a \in {Go("begin"), Go("loop")} THEN 3
  ELSE IF a \in {Go("step"), Go("after")} THEN 2 ELSE 0

IsState(s) ==
  s = [at |-> s.at, tm |-> s.tm, signal |-> s.signal, since |-> s.since, params |-> s.params,
       flag |-> s.flag]

(* Ranks that write are in a collective call. *)
LEMMA NextOutputPlace ==
  ASSUME NEW r, NEW o, NEW t, NEW p, NEW s, NEW after
  PROVE  \/ NextOutput(r, o, t, p, s, after) = Go(after)
         \/ Writing(NextOutput(r, o, t, p, s, after), after)
<1> DEFINE due == {i \in OutIds : i >= o /\ Due(i, t, p, s)}
           first == CHOOSE j \in due : \A k \in due : j <= k
           number == IF s = "none" THEN p[first].number ELSE 0
<1>1. NextOutput(r, o, t, p, s, after) =
        IF due = {} THEN Go(after) ELSE Wait(<<"write", first, s, number, after>>)
  BY Zenon DEF NextOutput
<1> HIDE DEF due, first, number
<1>2. Writing(Wait(<<"write", first, s, number, after>>), after)
  BY DEF Writing, Wait
<1>3. QED
  BY <1>1, <1>2

LEMMA NextOutputLevel ==
  ASSUME NEW r, NEW o, NEW t, NEW p, NEW s, NEW after
  PROVE  Level(NextOutput(r, o, t, p, s, after)) \in {0, Level(Go(after))}
<1>1. \A a : Writing(a, after) => Level(a) = 0
  BY DEF Level, Wait, Go, Writing
<1>2. QED
  BY <1>1, NextOutputPlace

LEMMA LoopHeadLevel ==
  ASSUME NEW r, NEW t
  PROVE  Level(LoopHead(r, t)) = 2
  BY DEF LoopHead, Level, Go

LEMMA Places ==
  ASSUME NEW l, NEW c
  PROVE  Go(l) # Wait(c) /\ \A k : Go(l) = Go(k) <=> l = k
  BY DEF Go, Wait

(* Every step brings a rank closer to its next stop. *)
LEMMA OwnStep ==
  ASSUME NEW s, IsState(s)
  PROVE  /\ IsState(OnItsOwn(s))
         /\ Level(s.at) = 0 => OnItsOwn(s) = s
         /\ Level(s.at) # 0 => Level(OnItsOwn(s).at) < Level(s.at)
<1>1. \A c : Level(Wait(c)) = 0
  BY DEF Level, Wait, Go
<1>2. /\ Level(Go("flags")) = 4 /\ Level(Go("begin")) = 3 /\ Level(Go("loop")) = 3
      /\ Level(Go("step")) = 2 /\ Level(Go("after")) = 2 /\ Level(Go("balance")) = 0
      /\ Level(Go("done")) = 0
  BY DEF Level, Go
<1>3. CASE s.at \in {Go("begin"), Go("loop")}
  <2>1. OnItsOwn(s) = Tested(s)
    BY <1>3 DEF OnItsOwn
  <2>2. IsState(OnItsOwn(s)) /\ OnItsOwn(s).at = LoopHead(Root, s.tm)
    BY <2>1 DEF IsState, Tested
  <2>3. Level(OnItsOwn(s).at) = 2 /\ Level(s.at) = 3
    BY <1>2, <1>3, <2>2, LoopHeadLevel
  <2>4. QED
    BY <2>2, <2>3
<1>4. CASE s.at = Go("step")
  <2>1. OnItsOwn(s) = Stepped(s)
    BY <1>4, Places DEF OnItsOwn
  <2>2. IsState(OnItsOwn(s)) /\ OnItsOwn(s).at = IF Adaptive THEN Wait(<<"refine">>) ELSE Go("balance")
    BY <2>1 DEF IsState, Stepped
  <2>3. QED
    BY <1>1, <1>2, <1>4, <2>2
<1>6. CASE s.at = Go("flags")
  <2> DEFINE next == NextOutput(Root, 1, s.tm, s.params, SignalOf(s.flag), "loop")
  <2>1. OnItsOwn(s) = FlagsRead(s)
    BY <1>6, Places DEF OnItsOwn
  <2>2. IsState(OnItsOwn(s)) /\ OnItsOwn(s).at \in {Go("after"), next, Go("loop")}
    BY <2>1 DEF IsState, FlagsRead
  <2>3. Level(next) \in {0, 3}
    BY <1>2, NextOutputLevel
  <2> HIDE DEF next
  <2>4. QED
    BY <1>2, <1>6, <2>2, <2>3
<1>7. CASE s.at = Go("after")
  <2> DEFINE next == NextOutput(Root, 1, s.tm, s.params, "final", "done")
  <2>1. OnItsOwn(s) = Left(s)
    BY <1>7, Places DEF OnItsOwn
  <2>2. IsState(OnItsOwn(s)) /\ OnItsOwn(s).at = next
    BY <2>1 DEF IsState, Left
  <2>3. Level(next) = 0
    BY <1>2, NextOutputLevel
  <2> HIDE DEF next
  <2>4. QED
    BY <1>2, <1>7, <2>2, <2>3
<1>8. CASE s.at \notin {Go(l) : l \in {"begin", "loop", "step", "flags", "after"}}
  <2>1. OnItsOwn(s) = s /\ Level(s.at) = 0
    BY <1>8 DEF OnItsOwn, Level
  <2>2. QED
    BY <2>1
<1>9. QED
  BY <1>3, <1>4, <1>6, <1>7, <1>8

(* ... and after four at most it is there. *)
LEMMA FourSteps ==
  ASSUME NEW s, IsState(s)
  PROVE  Twice(Twice(OnItsOwn(s))) = Twice(Twice(s))
<1> DEFINE s1 == OnItsOwn(s)
           s2 == OnItsOwn(s1)
           s3 == OnItsOwn(s2)
           s4 == OnItsOwn(s3)
<1>1. IsState(s1) /\ IsState(s2) /\ IsState(s3) /\ IsState(s4)
  BY OwnStep
<1>2. \A a : Level(a) \in 0 .. 4
  BY DEF Level
<1>3. Level(s4.at) = 0
  <2>1. Level(s1.at) <= 3
    BY <1>2, OwnStep
  <2>2. Level(s2.at) <= 2
    BY <1>1, <1>2, <2>1, OwnStep
  <2>3. Level(s3.at) <= 1
    BY <1>1, <1>2, <2>2, OwnStep
  <2>4. QED
    BY <1>1, <1>2, <2>3, OwnStep
<1>4. OnItsOwn(s4) = s4
  BY <1>1, <1>3, OwnStep
<1>5. QED
  BY <1>4 DEF Twice

(* A rank that stops is where it is going to. *)
LEMMA AheadThere ==
  ASSUME NEW s, IsState(s), Level(s.at) = 0
  PROVE  Twice(Twice(s)) = s
<1>1. OnItsOwn(s) = s
  BY OwnStep
<1>2. QED
  BY <1>1 DEF Twice

LEMMA LocalIsState == \A r : IsState(Local(r)) /\ IsState(Local(r))'
BY DEF IsState, Local

(* where a rank stops *)
LEMMA Stops ==
  /\ \A l : Stop(Go(l)) = Go(l)
  /\ \A c : Stop(Wait(c)) = Go("balance") \/ Stop(Wait(c)) = Wait(c)
  /\ \A c : Stop(Wait(c)) = Go("balance") => c \in {<<"costs", "interval">>, <<"dt", "cycle">>}
  /\ \A c : Level(Stop(Wait(c))) = 0
<1>1. Level(Go("balance")) = 0 /\ \A c : Level(Wait(c)) = 0
  BY DEF Level, Go, Wait
<1>2. \A l : Go(l) \in BalancePlaces => l = "balance"
  BY Places DEF BalancePlaces
<1>3. \A c, d : Wait(c) = Wait(d) => c = d
  BY DEF Wait
<1>4. \A c : Wait(c) \in BalancePlaces => c \in {<<"costs", "interval">>, <<"dt", "cycle">>}
  BY <1>3, Places DEF BalancePlaces
<1>5. QED
  BY <1>1, <1>2, <1>4, Places DEF Stop

(* A rank whose signal ends the loop, or whose run is at its end, goes to   *)
(* the final outputs.                                                       *)
LEMMA EndsAnyway ==
  ASSUME NEW s, IsState(s), s.at = Go("flags"), "term" \in s.flag \/ ~KeepGoing(s.tm)
  PROVE  Twice(Twice(s)) = Closing(s)
<1> DEFINE end == NextOutput(Root, 1, s.tm, s.params, "final", "done")
           s1 == OnItsOwn(s)
<1>1. s1 = FlagsRead(s)
  BY Places DEF OnItsOwn
<1>2. /\ IsState(s1) /\ s1.tm = s.tm /\ s1.params = s.params /\ s1.since = s.since /\ s1.flag = {}
      /\ s1.at = Go("after") \/ (s1.at = Go("loop") /\ ~KeepGoing(s.tm))
  BY <1>1 DEF FlagsRead, IsState, SignalOf
<1> HIDE DEF s1
<1>3. Level(end) = 0
  <2>1. Level(Go("done")) = 0
    BY DEF Level, Go
  <2>2. QED
    BY <2>1, NextOutputLevel
<1> DEFINE e == Closing(s)
<1>4. IsState(e) /\ e.at = end /\ OnItsOwn(e) = e
  <2>1. IsState(e) /\ e.at = end
    <3>1. e = [s EXCEPT !.at = end, !.signal = "final", !.flag = {}]
      BY Zenon DEF Closing
    <3> HIDE DEF e, end
    <3>2. QED
      BY <3>1 DEF IsState
  <2>2. QED
    BY <1>3, <2>1, OwnStep
<1>5. ASSUME NEW t, IsState(t), t.at = Go("after"), t.tm = s.tm, t.params = s.params,
             t.since = s.since, t.flag = {}
      PROVE  OnItsOwn(t) = e
  <2>1. OnItsOwn(t) = Left(t)
    BY <1>5, Places DEF OnItsOwn
  <2>2. Left(t) = e
    BY <1>5 DEF Left, Closing, IsState
  <2>3. QED
    BY <2>1, <2>2
<1>6. CASE s1.at = Go("after")
  BY <1>2, <1>4, <1>5, <1>6 DEF s1, Twice
<1>7. CASE s1.at = Go("loop") /\ ~KeepGoing(s.tm)
  <2> DEFINE s2 == OnItsOwn(s1)
  <2>1. s2 = Tested(s1)
    BY <1>7 DEF OnItsOwn
  <2>2. IsState(s2) /\ s2.at = Go("after") /\ s2.tm = s.tm /\ s2.params = s.params /\ s2.since = s.since
        /\ s2.flag = {}
    BY <1>2, <1>7, <2>1 DEF Tested, LoopHead, IsState
  <2> HIDE DEF s2
  <2>3. OnItsOwn(s2) = e
    BY <1>5, <2>2
  <2>4. QED
    BY <1>4, <2>3 DEF s1, s2, Twice
<1>8. QED
  BY <1>2, <1>6, <1>7

(* What a rank does on its own does not change where it is going to. *)
LEMMA StayTogether ==
  ASSUME NEW r \in Ranks, Together, Flagged, late' = late,
         Local(r)' = OnItsOwn(Local(r)), at'[r] # Go("flags"),
         \A q \in Ranks \ {r} : at'[q] = at[q] /\ Local(q)' = Local(q)
  PROVE  Together' /\ Flagged'
<1>1. Ahead(r)' = Ahead(r)
  <2>1. Ahead(r)' = Twice(Twice(OnItsOwn(Local(r))))
    BY DEF Ahead
  <2>2. QED
    BY <2>1, FourSteps, LocalIsState DEF Ahead
<1>2. \A q \in Ranks : Ahead(q)' = Ahead(q)
  BY <1>1 DEF Ahead
<1>3. Together'
  BY <1>2 DEF Together
<1>4. ASSUME NEW p \in Ranks \ late, NEW q \in Ranks, at'[p] = Go("flags")
      PROVE  /\ q \in late => Ahead(q)' = Closing(Local(p)')
             /\ q \notin late /\ at'[q] = Go("flags") => Closing(Local(q)') = Closing(Local(p)')
  <2>1. p # r /\ at[p] = Go("flags") /\ Local(p)' = Local(p)
    BY <1>4
  <2>2. at'[q] = Go("flags") => at[q] = Go("flags") /\ Local(q)' = Local(q)
    OBVIOUS
  <2>3. QED
    BY <1>2, <2>1, <2>2 DEF Flagged
<1>5. QED
  BY <1>3, <1>4 DEF Flagged

(* The outputs do not depend on the rank. *)
LEMMA AnyRank ==
  ASSUME NEW r, NEW o, NEW t, NEW p, NEW s, NEW after
  PROVE  /\ NextOutput(r, o, t, p, s, after) = NextOutput(Root, o, t, p, s, after)
         /\ LoopHead(r, t) = LoopHead(Root, t)
BY DEF NextOutput, LoopHead

(***************************************************************************)
(* The steps of one rank.                                                  *)
(***************************************************************************)
LEMMA TestLoopTogether ==
  ASSUME LoopInv, NEW r \in Ranks, TestLoop(r)
  PROVE  Together' /\ Flagged'
<1> USE DEF runVars, historyVars
<1>1. /\ at[r] \in {Go("begin"), Go("loop")} /\ at[r] # Go("flags")
      /\ at'[r] = LoopHead(Root, tm[r]) /\ at'[r] # Go("flags") /\ Stop(at'[r]) = at'[r] /\ Stop(at[r]) = at[r]
      /\ \A q \in Ranks \ {r} : at'[q] = at[q]
  BY AnyRank, Places, Stops DEF TestLoop, LoopInv, TypeOK, LoopHead
<1>2. Tested(Local(r)) = Local(r)'
  <2>1. Local(r).tm = tm[r] /\ Tested(Local(r)) = [Local(r) EXCEPT !.at = LoopHead(Root, Local(r).tm)]
    BY DEF Local, Tested
  <2>2. Tested(Local(r)) = [Local(r) EXCEPT !.at = at'[r]]
    BY <1>1, <2>1, Zenon
  <2>3. QED
    BY <1>1, <2>2 DEF Local, TestLoop
<1>3. OnItsOwn(Local(r)) = Tested(Local(r))
  <2>1. Local(r).at = at[r]
    BY <1>1 DEF Local
  <2>2. QED
    BY <1>1, <2>1 DEF OnItsOwn
<1>4. \A q \in Ranks \ {r} : Local(q)' = Local(q)
  BY <1>1 DEF Local, TestLoop
<1>5. QED
  BY <1>1, <1>2, <1>3, <1>4, StayTogether DEF LoopInv, TestLoop

LEMMA StepTogether ==
  ASSUME LoopInv, NEW r \in Ranks, NEW costed, Step(r, costed)
  PROVE  Together' /\ Flagged'
<1> USE DEF runVars
<1>1. /\ at[r] = Go("step") /\ at[r] # Go("flags")
      /\ at'[r] = (IF Adaptive THEN Wait(<<"refine">>) ELSE Go("balance")) /\ at'[r] # Go("flags")
      /\ \A q \in Ranks \ {r} : at'[q] = at[q] /\ tm'[q] = tm[q] /\ lb'[q] = lb[q]
  BY Places DEF Step, LoopInv, TypeOK
<1>2. tm'[r] = [tm[r] EXCEPT !.time = tm[r].time + tm[r].dt, !.ncycle = tm[r].ncycle + 1]
  BY DEF Step, LoopInv, TypeOK
<1>3. lb'[r].since = lb[r].since + 1
  BY DEF Step, LoopInv, TypeOK
<1>4. Stop(at[r]) = at[r] /\ Stop(at'[r]) = at'[r]
  <2>1. <<"refine">> \notin {<<"costs", "interval">>, <<"dt", "cycle">>}
    OBVIOUS
  <2>2. QED
    BY <1>1, <2>1, Stops
<1>5. Stepped(Local(r)) = Local(r)'
  <2>1. Local(r).tm = tm[r] /\ Local(r).since = lb[r].since
    BY DEF Local
  <2>2. Stepped(Local(r)) = [Local(r) EXCEPT !.at = at'[r], !.tm = tm'[r], !.since = lb'[r].since]
    BY <1>1, <1>2, <1>3, <2>1, ZenonT(40) DEF Stepped
  <2>3. QED
    BY <1>1, <1>4, <2>2 DEF Local, Step
<1>6. OnItsOwn(Local(r)) = Stepped(Local(r))
  <2>1. Local(r).at = at[r]
    BY <1>4 DEF Local
  <2>2. QED
    BY <1>1, <2>1, Places DEF OnItsOwn
<1>7. \A q \in Ranks \ {r} : Local(q)' = Local(q)
  BY <1>1 DEF Local, Step
<1>8. QED
  BY <1>1, <1>5, <1>6, <1>7, StayTogether DEF LoopInv, Step

(* Load balancing without a collective call is not seen by the others. *)
LEMMA Unseen ==
  ASSUME Together, Flagged, late' = late,
         \A q \in Ranks : Local(q)' = Local(q) /\ (at'[q] = Go("flags") <=> at[q] = Go("flags"))
  PROVE  Together' /\ Flagged'
<1>1. \A q \in Ranks : Ahead(q)' = Ahead(q)
  BY DEF Ahead
<1>2. Together'
  BY <1>1 DEF Together
<1>3. ASSUME NEW p \in Ranks \ late, NEW q \in Ranks, at'[p] = Go("flags")
      PROVE  /\ q \in late => Ahead(q)' = Closing(Local(p)')
             /\ q \notin late /\ at'[q] = Go("flags") => Closing(Local(q)') = Closing(Local(p)')
  <2>1. at[p] = Go("flags") /\ Local(p)' = Local(p) /\ Local(q)' = Local(q)
    BY <1>3
  <2>2. QED
    BY <1>1, <2>1 DEF Flagged
<1>4. QED
  BY <1>2, <1>3 DEF Flagged

LEMMA BalanceTogether ==
  ASSUME LoopInv, NEW r \in Ranks, Balance(r)
  PROVE  Together' /\ Flagged'
<1> USE DEF runVars, historyVars
<1>1. /\ at[r] = Go("balance") /\ at[r] # Go("flags") /\ at'[r] # Go("flags")
      /\ at[r] \in BalancePlaces /\ at'[r] \in BalancePlaces
      /\ \A q \in Ranks \ {r} : at'[q] = at[q] /\ lb'[q] = lb[q]
  <2>1. at[r] = Go("balance") /\ at'[r] \in {Wait(<<"costs", "interval">>), Wait(<<"dt", "cycle">>)}
    BY DEF Balance, LoopInv, TypeOK
  <2>2. \A q \in Ranks \ {r} : at'[q] = at[q] /\ lb'[q] = lb[q]
    BY DEF Balance, LoopInv, TypeOK
  <2>3. QED
    BY <2>1, <2>2, Places DEF BalancePlaces
<1>2. lb'[r].since = lb[r].since
  <2>1. lb' = lb \/ lb' = [lb EXCEPT ![r].flag = lb[r].flag /\ ~BalanceDue(r)]
    BY Zenon DEF Balance
  <2>2. QED
    BY <2>1 DEF LoopInv, TypeOK
<1>3. \A q \in Ranks : Local(q)' = Local(q)
  <2>1. ASSUME NEW q \in Ranks
        PROVE  Stop(at'[q]) = Stop(at[q]) /\ lb'[q].since = lb[q].since
    BY <1>1, <1>2 DEF Stop
  <2>2. tm' = tm /\ signal' = signal /\ params' = params /\ flag' = flag
    BY DEF Balance
  <2>3. ASSUME NEW q \in Ranks
        PROVE  at'[q] = Go("flags") <=> at[q] = Go("flags")
    BY <1>1
  <2>4. QED
    BY <2>1, <2>2, <2>3 DEF Local
<1>4. QED
  BY <1>1, <1>3, Unseen DEF LoopInv, Balance


(* Writing leads to the label that follows, not back to the flags, and      *)
(* never to load balancing.                                                 *)
LEMMA NextOutputLabel ==
  ASSUME NEW r, NEW o, NEW t, NEW p, NEW s, NEW after, after \notin {"flags", "balance"}
  PROVE  /\ NextOutput(r, o, t, p, s, after) # Go("flags")
         /\ NextOutput(r, o, t, p, s, after) \notin BalancePlaces
         /\ Stop(NextOutput(r, o, t, p, s, after)) = NextOutput(r, o, t, p, s, after)
<1>1. \A c : Wait(c)[2] = c
  BY DEF Wait
<1>2. \A a : Writing(a, after) => a # Go("flags")
  BY DEF Writing, Wait, Go
<1>3. \A a : Writing(a, after) => a \notin BalancePlaces
  <2>1. Go("balance") # Wait(1) /\ \A c : Go("balance") # Wait(c)
    BY Places
  <2>2. <<"costs", "interval">>[1] = "costs" /\ <<"dt", "cycle">>[1] = "dt"
    OBVIOUS
  <2>3. QED
    BY <1>1, <2>1, <2>2 DEF Writing, BalancePlaces
<1>4. Go(after) \notin BalancePlaces /\ Go(after) # Go("flags")
  BY Places DEF BalancePlaces
<1>5. QED
  BY <1>2, <1>3, <1>4, NextOutputPlace DEF Stop

LEMMA ReadFlagsTogether ==
  ASSUME LoopInv, NEW r \in Ranks, ReadFlags(r)
  PROVE  Together' /\ Flagged'
<1> DEFINE read == SignalOf(flag[r])
           next == NextOutput(Root, 1, tm[r], params[r], read, "loop")
<1>1. /\ at[r] = Go("flags") /\ signal'[r] = read
      /\ at'[r] = IF read = "final" THEN Go("after") ELSE IF KeepGoing(tm[r]) THEN next ELSE Go("loop")
  BY AnyRank DEF ReadFlags, SignalOf, LoopInv, TypeOK
<1>2. at'[r] # Go("flags") /\ Stop(at'[r]) = at'[r]
  <2>1. next # Go("flags") /\ Stop(next) = next
    BY NextOutputLabel
  <2> HIDE DEF next, read
  <2>2. QED
    BY <1>1, <2>1, Places, Stops
<1>3. \A q \in Ranks \ {r} : at'[q] = at[q] /\ signal'[q] = signal[q] /\ flag'[q] = flag[q]
  BY DEF ReadFlags, LoopInv, TypeOK
<1>4. FlagsRead(Local(r)) = Local(r)'
  <2>1. Local(r).flag = flag[r] /\ Local(r).tm = tm[r] /\ Local(r).params = params[r]
    BY <1>1 DEF Local
  <2>2. FlagsRead(Local(r)) = [Local(r) EXCEPT !.at = at'[r], !.signal = signal'[r], !.flag = {}]
    BY <1>1, <2>1, ZenonT(40) DEF FlagsRead
  <2>3. tm' = tm /\ lb' = lb /\ params' = params
    BY DEF ReadFlags
  <2>4. QED
    BY <1>2, <2>2, <2>3 DEF Local
<1>5. OnItsOwn(Local(r)) = FlagsRead(Local(r))
  <2>1. Local(r).at = at[r]
    BY <1>1, Stops DEF Local
  <2>2. QED
    BY <1>1, <2>1, Places DEF OnItsOwn
<1>6. \A q \in Ranks \ {r} : Local(q)' = Local(q)
  BY <1>3 DEF Local, ReadFlags
<1>7. QED
  BY <1>2, <1>3, <1>4, <1>5, <1>6, StayTogether DEF LoopInv, ReadFlags, historyVars

LEMMA AfterLoopTogether ==
  ASSUME LoopInv, NEW r \in Ranks, AfterLoop(r)
  PROVE  Together' /\ Flagged'
<1> USE DEF runVars, historyVars
<1>1. /\ at[r] = Go("after") /\ signal'[r] = "final"
      /\ at'[r] = NextOutput(Root, 1, tm[r], params[r], "final", "done")
  BY AnyRank DEF AfterLoop, LoopInv, TypeOK
<1>2. at'[r] # Go("flags") /\ at[r] # Go("flags") /\ Stop(at'[r]) = at'[r] /\ Stop(at[r]) = at[r]
  BY <1>1, NextOutputLabel, Places, Stops
<1>3. \A q \in Ranks \ {r} : at'[q] = at[q] /\ signal'[q] = signal[q]
  BY DEF AfterLoop, LoopInv, TypeOK
<1>4. Left(Local(r)) = Local(r)'
  <2>1. Local(r).tm = tm[r] /\ Local(r).params = params[r]
    BY <1>1 DEF Local
  <2>2. Left(Local(r)) = [Local(r) EXCEPT !.at = at'[r], !.signal = signal'[r]]
    BY <1>1, <2>1, ZenonT(40) DEF Left
  <2>3. QED
    BY <1>2, <2>2 DEF Local, AfterLoop
<1>5. OnItsOwn(Local(r)) = Left(Local(r))
  <2>1. Local(r).at = at[r]
    BY <1>2 DEF Local
  <2>2. QED
    BY <1>1, <2>1, Places DEF OnItsOwn
<1>6. \A q \in Ranks \ {r} : Local(q)' = Local(q)
  BY <1>3 DEF Local, AfterLoop
<1>7. QED
  BY <1>2, <1>3, <1>4, <1>5, <1>6, StayTogether DEF LoopInv, AfterLoop

(* A signal that arrives before the flags are exchanged, or at the end of   *)
(* the run, parts no rank from the others; one that arrives later puts the  *)
(* rank among those that leave the loop.                                    *)
LEMMA SignalTogether ==
  ASSUME LoopInv, NEW r \in Ranks, Signal(r)
  PROVE  Together' /\ Flagged'
<1> USE DEF runVars
<1>1. /\ \A q \in Ranks \ {r} : flag'[q] = flag[q]
      /\ flag'[r] = flag[r] \cup {"term"} /\ "term" \notin flag[r]
      /\ at' = at /\ tm' = tm /\ signal' = signal /\ lb' = lb /\ params' = params
  BY DEF Signal, LoopInv, TypeOK
<1>2. \A q \in Ranks \ {r} : Local(q)' = Local(q) /\ Ahead(q)' = Ahead(q)
  BY <1>1 DEF Local, Ahead
<1>3. CASE at[r] # Go("flags")
  <2>1. \A q \in Ranks : Local(q)' = Local(q)
    BY <1>1, <1>2, <1>3 DEF Local
  <2>2. late' = late
    BY <1>3 DEF Signal
  <2>3. QED
    BY <1>1, <2>1, <2>2, Unseen DEF LoopInv
<1>4. CASE at[r] = Go("flags")
  <2>1. Local(r).at = Go("flags") /\ Local(r).tm = tm[r] /\ Local(r).flag = flag[r]
    BY <1>4, Stops DEF Local
  <2>2. Local(r)' = [Local(r) EXCEPT !.flag = flag[r] \cup {"term"}]
    BY <1>1, <1>4 DEF Local
  <2>3. Closing(Local(r)') = Closing(Local(r))
    BY <2>2 DEF Closing, Local
  <2>4. Ahead(r)' = Closing(Local(r))
    <3>1. Local(r)'.at = Go("flags") /\ "term" \in Local(r)'.flag
      BY <2>1, <2>2 DEF Local
    <3>2. Twice(Twice(Local(r)')) = Closing(Local(r)')
      BY <3>1, EndsAnyway, LocalIsState
    <3>3. QED
      BY <2>3, <3>2 DEF Ahead
  <2>5. r \notin late
    <3>1. Go("flags") \notin {Go("after"), Go("done")} /\ ~Writing(Go("flags"), "done")
      BY Places DEF Writing
    <3>2. QED
      BY <1>1, <1>4, <3>1 DEF LoopInv, LateLeave, Leaving
  <2>6. CASE ~KeepGoing(tm[r])
    <3>1. late' = late
      BY <2>6 DEF Signal
    <3>2. Ahead(r) = Closing(Local(r))
      BY <2>1, <2>6, EndsAnyway, LocalIsState DEF Ahead
    <3>3. \A q \in Ranks : Ahead(q)' = Ahead(q) /\ Closing(Local(q)') = Closing(Local(q))
      BY <1>2, <2>3, <2>4, <3>2
    <3>4. Together'
      BY <3>1, <3>3 DEF LoopInv, Together
    <3>5. ASSUME NEW p \in Ranks \ late, NEW q \in Ranks, at'[p] = Go("flags")
          PROVE  /\ q \in late => Ahead(q)' = Closing(Local(p)')
                 /\ q \notin late /\ at'[q] = Go("flags") => Closing(Local(q)') = Closing(Local(p)')
      BY <1>1, <3>3, <3>5 DEF LoopInv, Flagged
    <3>6. QED
      BY <3>1, <3>4, <3>5 DEF Flagged
  <2>7. CASE KeepGoing(tm[r])
    <3>1. late' = late \cup {r}
      BY <1>4, <2>7 DEF Signal
    <3>2. \A q \in late : Ahead(q)' = Closing(Local(r))
      <4>1. \A q \in late : q \in Ranks /\ q # r
        BY <2>5 DEF LoopInv, TypeOK
      <4>2. QED
        BY <1>2, <1>4, <2>5, <4>1 DEF LoopInv, Flagged
    <3>3. \A q \in late' : Ahead(q)' = Closing(Local(r))
      BY <2>4, <3>1, <3>2
    <3>4. Together'
      <4>1. ASSUME NEW p \in Ranks, NEW q \in Ranks, p \notin late', q \notin late'
            PROVE  Ahead(p)' = Ahead(q)'
        BY <1>2, <3>1, <4>1 DEF LoopInv, Together
      <4>2. QED
        BY <3>3, <4>1 DEF Together
    <3>5. ASSUME NEW p \in Ranks \ late', at'[p] = Go("flags")
          PROVE  Closing(Local(p)') = Closing(Local(r))
      BY <1>1, <1>2, <1>4, <2>5, <3>1, <3>5 DEF LoopInv, Flagged
    <3>6. QED
      BY <3>3, <3>4, <3>5 DEF Flagged
  <2>8. QED
    BY <2>6, <2>7
<1>5. QED
  BY <1>3, <1>4

(***************************************************************************)
(* Collective calls: all ranks wait in the call, hence those of a group    *)
(* are alike, and its results are the same for all of them.  A rank that a *)
(* late signal reached takes part in no call but that of a final output.   *)
(***************************************************************************)
LEMMA Alike ==
  ASSUME LoopInv, NEW c, AllInside(c), NEW r \in Ranks, NEW q \in Ranks, r \in late <=> q \in late
  PROVE  /\ tm[r] = tm[q] /\ signal[r] = signal[q] /\ params[r] = params[q]
         /\ lb[r].since = lb[q].since
<1>1. Level(Local(r).at) = 0 /\ Level(Local(q).at) = 0
  BY Stops DEF AllInside, Inside, Local
<1>2. Ahead(r) = Local(r) /\ Ahead(q) = Local(q)
  BY <1>1, AheadThere, LocalIsState DEF Ahead
<1>3. Local(r) = Local(q)
  BY <1>2 DEF LoopInv, Together
<1>4. QED
  BY <1>3 DEF Local

LEMMA NoneLate ==
  ASSUME LoopInv, NEW c, AllInside(c), c[1] # "write"
  PROVE  late = {}
<1>1. \A l : Go(l) # Wait(c)
  BY Places
<1>2. Wait(c)[2] = c
  BY DEF Wait
<1>3. ASSUME NEW r \in late
      PROVE  FALSE
  <2>1. at[r] = Wait(c)
    BY DEF LoopInv, TypeOK, AllInside, Inside
  <2>2. Leaving(at[r], flag[r])
    BY DEF LoopInv, LateLeave
  <2>3. QED
    BY <1>1, <1>2, <2>1, <2>2 DEF Leaving, Writing
<1>4. QED
  BY <1>3

LEMMA AlikeTogether ==
  ASSUME late' = {},
         \A r, q \in Ranks : /\ at'[r] = at'[q] /\ tm'[r] = tm'[q] /\ signal'[r] = signal'[q]
                             /\ lb'[r].since = lb'[q].since /\ params'[r] = params'[q],
         \A r, q \in Ranks : at'[r] = Go("flags") => flag'[r] = flag'[q]
  PROVE  Together' /\ Flagged'
<1>1. \A r, q \in Ranks : Local(r)' = Local(q)'
  BY DEF Local
<1>2. QED
  BY <1>1 DEF Together, Flagged, Ahead

(* A call other than that of an output, after which all ranks are in the    *)
(* same place and no counter differs.                                       *)
LEMMA CallTogether ==
  ASSUME LoopInv, NEW c, AllInside(c), c[1] # "write", late' = late, params' = params, signal' = signal,
         \A r, q \in Ranks : tm[r] = tm[q] /\ params[r] = params[q] /\ signal[r] = signal[q]
                             => at'[r] = at'[q] /\ tm'[r] = tm'[q],
         \A r, q \in Ranks : lb[r].since = lb[q].since => lb'[r].since = lb'[q].since,
         \A r, q \in Ranks : at'[r] = Go("flags") => flag'[r] = flag'[q]
  PROVE  Together' /\ Flagged'
<1>1. late = {}
  BY NoneLate
<1>2. ASSUME NEW r \in Ranks, NEW q \in Ranks
      PROVE  /\ tm[r] = tm[q] /\ signal[r] = signal[q] /\ params[r] = params[q]
             /\ lb[r].since = lb[q].since
  BY <1>1, Alike
<1>3. QED
  BY <1>1, <1>2, AlikeTogether

LEMMA InitializeRoundTogether ==
  ASSUME LoopInv, NEW k, NEW changes, NEW costed, InitializeRound(k, changes, costed)
  PROVE  Together' /\ Flagged'
<1> USE DEF runVars, historyVars
<1> DEFINE c == <<"init", k>>
<1>1. \A r \in Ranks : at'[r] # Go("flags")
  BY Places DEF InitializeRound, AtStart
<1>2. \A r, q \in Ranks : at'[r] = at'[q]
  BY DEF InitializeRound
<1>3. ASSUME NEW r \in Ranks, NEW q \in Ranks, lb[r].since = lb[q].since
      PROVE  lb'[r].since = lb'[q].since
  <2>1. CASE changes = "nothing"
    <3>1. \A p \in Ranks : lb'[p] = [lb[p] EXCEPT !.flag = lb[p].flag \/ CostsNew(p \in costed)]
      BY <2>1, Zenon DEF InitializeRound
    <3>2. ASSUME NEW p \in Ranks, NEW new
          PROVE  [lb[p] EXCEPT !.flag = new].since = lb[p].since
      BY DEF LoopInv, TypeOK
    <3>4. ASSUME NEW p \in Ranks
          PROVE  lb'[p].since = lb[p].since
      <4> DEFINE new == lb[p].flag \/ CostsNew(p \in costed)
      <4>1. lb'[p] = [lb[p] EXCEPT !.flag = new]
        BY <3>1, Zenon
      <4> HIDE DEF new
      <4>2. QED
        BY <3>2, <4>1
    <3>3. QED
      BY <1>3, <3>4
  <2>2. CASE changes # "nothing"
    BY <2>2 DEF InitializeRound
  <2>3. QED
    BY <2>1, <2>2
<1>4. /\ AllInside(c) /\ c[1] = "init" /\ late' = late /\ params' = params /\ signal' = signal /\ tm' = tm
  BY DEF InitializeRound
<1> HIDE DEF c
<1>5. QED
  BY <1>1, <1>2, <1>3, <1>4, CallTogether

LEMMA TimeStepTogether ==
  ASSUME LoopInv, NEW where, TimeStep(where)
  PROVE  Together' /\ Flagged'
<1> USE DEF runVars, historyVars
<1> DEFINE c == <<"dt", where>>
<1>1. ASSUME NEW r \in Ranks
      PROVE  /\ at'[r] = IF where = "begin" THEN NextOutput(Root, 1, tm[r], params[r], signal[r], "begin")
                         ELSE Wait(<<"signals">>)
             /\ tm'[r] = [tm[r] EXCEPT !.dt = GlobalTimeStep(tm[r], Allowed(tm[r]))]
  BY AnyRank DEF TimeStep
<1>2. ASSUME NEW r \in Ranks
      PROVE  at'[r] # Go("flags")
  <2>1. NextOutput(Root, 1, tm[r], params[r], signal[r], "begin") # Go("flags")
    BY NextOutputLabel
  <2>2. QED
    BY <1>1, <2>1, Places
<1>3. ASSUME NEW r \in Ranks, NEW q \in Ranks,
             tm[r] = tm[q], params[r] = params[q], signal[r] = signal[q]
      PROVE  at'[r] = at'[q] /\ tm'[r] = tm'[q]
  <2> DEFINE Goes(t, p, s) == IF where = "begin" THEN NextOutput(Root, 1, t, p, s, "begin")
                              ELSE Wait(<<"signals">>)
             Steps(t) == [t EXCEPT !.dt = GlobalTimeStep(t, Allowed(t))]
  <2>1. /\ at'[r] = Goes(tm[r], params[r], signal[r]) /\ tm'[r] = Steps(tm[r])
        /\ at'[q] = Goes(tm[q], params[q], signal[q]) /\ tm'[q] = Steps(tm[q])
    BY <1>1, Zenon
  <2> HIDE DEF Goes, Steps
  <2>2. QED
    BY <1>3, <2>1
<1>4. /\ AllInside(c) /\ c[1] = "dt" /\ late' = late /\ params' = params /\ signal' = signal /\ lb' = lb
  BY DEF TimeStep
<1> HIDE DEF c
<1>5. QED
  BY <1>2, <1>3, <1>4, CallTogether

(* the places of a rank that waits in a call *)
LEMMA CallPlace ==
  ASSUME TypeOK, NEW c \in Calls, AllInside(c), c[1] = "write"
  PROVE  c[5] \in {"begin", "loop", "done"}
<1>1. PICK r \in Ranks : at[r] = Wait(c)
  BY DriverAssumption DEF AllInside, Inside
<1>2. Wait(c)[2] = c /\ \A l : Go(l) # Wait(c)
  BY Places DEF Wait
<1>3. QED
  BY <1>1, <1>2 DEF TypeOK, Place

LEMMA WriteOutputTogether ==
  ASSUME LoopInv, NEW c, WriteOutput(c)
  PROVE  Together' /\ Flagged'
<1>1. c[5] \in {"begin", "loop", "done"} /\ AllInside(c)
  BY CallPlace DEF WriteOutput, LoopInv
<1>2. ASSUME NEW r \in Ranks
      PROVE  /\ params'[r] = Advance(params[r], c[2], signal[r])
             /\ at'[r] = NextOutput(Root, c[2] + 1, tm[r], params'[r], signal[r], c[5])
  BY AnyRank DEF WriteOutput
<1>3. \A r \in Ranks : at'[r] # Go("flags")
  BY <1>1, <1>2, NextOutputLabel, Places
<1>4. tm' = tm /\ signal' = signal /\ lb' = lb /\ late' = late
  BY DEF WriteOutput
<1>5. ASSUME NEW r \in Ranks, NEW q \in Ranks, r \in late <=> q \in late
      PROVE  Local(r)' = Local(q)'
  <2>1. tm[r] = tm[q] /\ signal[r] = signal[q] /\ lb[r].since = lb[q].since /\ params[r] = params[q]
    BY <1>1, <1>5, Alike
  <2>2. params'[r] = params'[q] /\ at'[r] = at'[q]
    BY <1>2, <2>1, Zenon
  <2>3. QED
    BY <1>3, <1>4, <2>1, <2>2 DEF Local
<1>6. Together'
  BY <1>4, <1>5 DEF Together, Ahead
<1>7. QED
  BY <1>3, <1>6 DEF Flagged

LEMMA RefineTogether ==
  ASSUME LoopInv, NEW moved, Refine(moved)
  PROVE  Together' /\ Flagged'
<1> USE DEF runVars, historyVars
<1> DEFINE c == <<"refine">>
<1>1. \A r, q \in Ranks : at'[r] # Go("flags") /\ at'[r] = at'[q]
  BY Places DEF Refine
<1>2. /\ AllInside(c) /\ c[1] = "refine" /\ late' = late /\ params' = params /\ signal' = signal
      /\ lb' = lb /\ tm' = tm
  BY DEF Refine
<1> HIDE DEF c
<1>3. QED
  BY <1>1, <1>2, CallTogether

LEMMA GatherCostsTogether ==
  ASSUME LoopInv, NEW why, NEW balanced, GatherCosts(why, balanced)
  PROVE  Together' /\ Flagged'
<1> USE DEF runVars, historyVars
<1> DEFINE c == <<"costs", why>>
<1>1. \A r, q \in Ranks : at'[r] # Go("flags") /\ at'[r] = at'[q]
  BY Places DEF GatherCosts
<1>2. ASSUME NEW r \in Ranks
      PROVE  lb'[r].since = lb[r].since
  <2>1. lb'[r] \in {lb[r], [lb[r] EXCEPT !.flag = FALSE]}
    BY DEF GatherCosts
  <2>2. QED
    BY <2>1 DEF LoopInv, TypeOK
<1>3. /\ AllInside(c) /\ c[1] = "costs" /\ late' = late /\ params' = params /\ signal' = signal /\ tm' = tm
  BY DEF GatherCosts
<1> HIDE DEF c
<1>4. QED
  BY <1>1, <1>2, <1>3, CallTogether

LEMMA RedistributeTogether ==
  ASSUME LoopInv, Redistribute
  PROVE  Together' /\ Flagged'
<1> USE DEF runVars, historyVars
<1> DEFINE c == <<"redistribute">>
<1>1. \A r, q \in Ranks : at'[r] # Go("flags") /\ at'[r] = at'[q] /\ lb'[r] = lb'[q]
  BY Places DEF Redistribute
<1>2. /\ AllInside(c) /\ c[1] = "redistribute" /\ late' = late /\ params' = params /\ signal' = signal
      /\ tm' = tm
  BY DEF Redistribute
<1> HIDE DEF c
<1>3. QED
  BY <1>1, <1>2, CallTogether

(* The Allreduce gives every rank the flags of all. *)
LEMMA ExchangeSignalsTogether ==
  ASSUME LoopInv, ExchangeSignals
  PROVE  Together' /\ Flagged'
<1> USE DEF runVars, historyVars
<1> DEFINE c == <<"signals">>
<1>1. \A r, q \in Ranks : at'[r] = at'[q] /\ flag'[r] = flag'[q]
  BY DEF ExchangeSignals, Combine
<1>2. /\ AllInside(c) /\ c[1] = "signals" /\ late' = late /\ params' = params /\ signal' = signal
      /\ lb' = lb /\ tm' = tm
  BY DEF ExchangeSignals
<1> HIDE DEF c
<1>3. QED
  BY <1>1, <1>2, CallTogether

LEMMA RestartTogether ==
  ASSUME LoopInv, NEW f, Restart(f)
  PROVE  Together' /\ Flagged'
<1>1. \A r \in Ranks : at'[r] # Go("flags")
  BY Places DEF Restart, AtStart
<1>2. QED
  BY <1>1, AlikeTogether DEF Restart

(***************************************************************************)
(* The ranks that a late signal reached leave the program.                 *)
(***************************************************************************)
LEMMA LeavingStays ==
  ASSUME LoopInv, late' \subseteq late, \A r \in late : at'[r] = at[r] /\ flag[r] \subseteq flag'[r]
  PROVE  LateLeave'
BY DEF LoopInv, LateLeave, Leaving

LEMMA LateLocal ==
  ASSUME LoopInv, NEW r \in Ranks,
         \/ TestLoop(r) \/ Balance(r) \/ ReadFlags(r) \/ AfterLoop(r) \/ Signal(r)
         \/ \E costed \in BOOLEAN : Step(r, costed)
  PROVE  LateLeave'
<1> USE DEF runVars, historyVars
<1>1. ASSUME TestLoop(r) \/ Balance(r) \/ \E costed \in BOOLEAN : Step(r, costed)
      PROVE  LateLeave'
  <2>1. at[r] \in {Go("begin"), Go("loop"), Go("balance"), Go("step")}
    BY <1>1 DEF TestLoop, Balance, Step
  <2>2. r \notin late
    BY <2>1, Places DEF LoopInv, LateLeave, Leaving, Writing
  <2>3. late' = late /\ flag' = flag /\ \A q \in Ranks \ {r} : at'[q] = at[q]
    BY <1>1 DEF TestLoop, Balance, Step, LoopInv, TypeOK
  <2>4. late \subseteq Ranks
    BY DEF LoopInv, TypeOK
  <2>5. QED
    BY <2>2, <2>3, <2>4, LeavingStays
<1>2. ASSUME NEW a, at' = [at EXCEPT ![r] = a], late' = late, \A q \in Ranks \ {r} : flag'[q] = flag[q],
             r \in late => a \in {Go("after"), Go("done")} \/ Writing(a, "done")
      PROVE  LateLeave'
  <2>1. at'[r] = a /\ \A q \in Ranks \ {r} : at'[q] = at[q]
    BY <1>2 DEF LoopInv, TypeOK
  <2>2. ASSUME NEW q \in late'
        PROVE  Leaving(at'[q], flag'[q])
    <3>1. CASE q = r
      BY <1>2, <2>1, <2>2, <3>1 DEF Leaving
    <3>2. CASE q # r
      <4>1. q \in Ranks \ {r} /\ q \in late
        BY <1>2, <2>2, <3>2 DEF LoopInv, TypeOK
      <4>2. QED
        BY <1>2, <2>1, <4>1 DEF LoopInv, LateLeave
    <3>3. QED
      BY <3>1, <3>2
  <2>3. QED
    BY <2>2 DEF LateLeave
<1>3. CASE ReadFlags(r)
  <2>1. PICK a : at' = [at EXCEPT ![r] = a] /\ (SignalOf(flag[r]) = "final" => a = Go("after"))
    BY <1>3 DEF ReadFlags, SignalOf
  <2>2. r \in late => "term" \in flag[r]
    <3>1. at[r] = Go("flags") /\ Go("flags") # Go("after") /\ Go("flags") # Go("done")
          /\ ~Writing(Go("flags"), "done")
      BY <1>3, Places DEF ReadFlags, Writing
    <3>2. QED
      BY <3>1 DEF LoopInv, LateLeave, Leaving
  <2>3. late' = late /\ \A q \in Ranks \ {r} : flag'[q] = flag[q]
    BY <1>3 DEF ReadFlags, LoopInv, TypeOK
  <2>4. QED
    BY <1>2, <2>1, <2>2, <2>3 DEF SignalOf
<1>4. CASE AfterLoop(r)
  <2> DEFINE next == NextOutput(r, 1, tm[r], params[r], "final", "done")
  <2>1. next = Go("done") \/ Writing(next, "done")
    BY NextOutputPlace
  <2>2. at' = [at EXCEPT ![r] = next] /\ late' = late /\ flag' = flag
    BY <1>4 DEF AfterLoop
  <2> HIDE DEF next
  <2>3. QED
    BY <1>2, <2>1, <2>2
<1>5. CASE Signal(r)
  <2>1. at' = at /\ \A q \in Ranks : flag[q] \subseteq flag'[q]
    BY <1>5 DEF Signal, LoopInv, TypeOK
  <2>2. "term" \in flag'[r]
    BY <1>5 DEF Signal, LoopInv, TypeOK
  <2>3. \A q \in late' : q \in late \/ (q = r /\ at[r] = Go("flags"))
    BY <1>5 DEF Signal
  <2>4. late \subseteq Ranks
    BY DEF LoopInv, TypeOK
  <2>5. QED
    BY <2>1, <2>2, <2>3, <2>4 DEF LoopInv, LateLeave, Leaving
<1>6. QED
  BY <1>1, <1>3, <1>4, <1>5

LEMMA LateCollective ==
  ASSUME LoopInv,
         \/ \E k, changes, costed : InitializeRound(k, changes, costed)
         \/ \E where : TimeStep(where)
         \/ \E moved : Refine(moved)
         \/ \E why, balanced : GatherCosts(why, balanced)
         \/ Redistribute
         \/ ExchangeSignals
  PROVE  LateLeave'
<1> USE DEF historyVars
<1>1. ASSUME NEW c, c[1] # "write", AllInside(c), late' = late
      PROVE  LateLeave'
  BY <1>1, NoneLate DEF LateLeave
<1>2. late' = late
  BY DEF InitializeRound, TimeStep, Refine, GatherCosts, Redistribute, ExchangeSignals
<1>3. \E c : c[1] # "write" /\ AllInside(c)
  <2>1. \A k : <<"init", k>>[1] # "write" /\ <<"dt", k>>[1] # "write" /\ <<"costs", k>>[1] # "write"
    OBVIOUS
  <2>2. /\ <<"refine">>[1] # "write" /\ <<"redistribute">>[1] # "write"
        /\ <<"signals">>[1] # "write"
    OBVIOUS
  <2>3. \E k : \E c \in {<<"init", k>>, <<"dt", k>>, <<"costs", k>>, <<"refine">>, <<"redistribute">>,
                         <<"signals">>} : AllInside(c)
    BY Zenon DEF InitializeRound, TimeStep, Refine, GatherCosts, Redistribute, ExchangeSignals
  <2>4. QED
    BY <2>1, <2>2, <2>3
<1>4. QED
  BY <1>1, <1>2, <1>3

LEMMA LateWriteOutput ==
  ASSUME LoopInv, NEW c, WriteOutput(c)
  PROVE  LateLeave'
<1>1. ASSUME NEW r \in late
      PROVE  Leaving(at'[r], flag'[r])
  <2>1. r \in Ranks /\ at[r] = Wait(c)
    BY DEF WriteOutput, AllInside, Inside, LoopInv, TypeOK
  <2>2. c[5] = "done"
    <3>1. Wait(c)[2] = c /\ \A l : Go(l) # Wait(c)
      BY Places DEF Wait
    <3>2. QED
      BY <2>1, <3>1 DEF LoopInv, LateLeave, Leaving, Writing
  <2>3. at'[r] = Go("done") \/ Writing(at'[r], "done")
    <3>1. at'[r] = NextOutput(r, c[2] + 1, tm[r], params'[r], signal[r], "done")
      BY <2>1, <2>2 DEF WriteOutput
    <3>2. QED
      BY <3>1, NextOutputPlace
  <2>4. QED
    BY <2>3 DEF Leaving
<1>2. QED
  BY <1>1 DEF LateLeave, WriteOutput

(***************************************************************************)
(* The flag and the counter of a rank say whether it gathers the costs.    *)
(***************************************************************************)
(* the places whose rank has decided about load balancing *)
Decided == {Wait(<<"costs", "interval">>), Wait(<<"dt", "cycle">>)}

LEMMA DecidedPlaces ==
  /\ \A l : Go(l) \notin Decided
  /\ \A c : c[1] \in {"init", "write"} => Wait(c) \notin Decided
  /\ Wait(<<"refine">>) \notin Decided /\ Wait(<<"redistribute">>) \notin Decided
  /\ Wait(<<"signals">>) \notin Decided /\ Wait(<<"costs", "refined">>) \notin Decided
  /\ AtStart \notin Decided
<1>1. \A l, c : Go(l) # Wait(c)
  BY Places
<1>2. \A c, d : Wait(c) = Wait(d) => c = d
  BY DEF Wait
<1>3. \A c : Wait(c) \in Decided => c \in {<<"costs", "interval">>, <<"dt", "cycle">>}
  BY <1>1, <1>2 DEF Decided
<1>4. <<"costs", "interval">>[1] = "costs" /\ <<"dt", "cycle">>[1] = "dt"
  OBVIOUS
<1>5. /\ <<"refine">> \notin {<<"costs", "interval">>, <<"dt", "cycle">>}
      /\ <<"redistribute">> \notin {<<"costs", "interval">>, <<"dt", "cycle">>}
      /\ <<"signals">> \notin {<<"costs", "interval">>, <<"dt", "cycle">>}
      /\ <<"costs", "refined">> \notin {<<"costs", "interval">>, <<"dt", "cycle">>}
      /\ <<"dt", "begin">> \notin {<<"costs", "interval">>, <<"dt", "cycle">>}
  OBVIOUS
<1>6. QED
  BY <1>1, <1>3, <1>4, <1>5 DEF Decided, AtStart

LEMMA DecidedOutputs ==
  ASSUME NEW r, NEW o, NEW t, NEW p, NEW s, NEW after
  PROVE  NextOutput(r, o, t, p, s, after) \notin Decided
BY NextOutputPlace, DecidedPlaces DEF Writing

LEMMA BalancedElsewhere ==
  ASSUME NEW a, NEW b, a \notin Decided
  PROVE  Balanced(a, b)
BY DEF Balanced, Decided

LEMMA DecideLocal ==
  ASSUME LoopInv, NEW r \in Ranks,
         \/ TestLoop(r) \/ Balance(r) \/ ReadFlags(r) \/ AfterLoop(r) \/ Signal(r)
         \/ \E costed \in BOOLEAN : Step(r, costed)
  PROVE  FlagsDecide'
<1> USE DEF runVars, historyVars
<1>1. ASSUME Balanced(at'[r], lb'[r]), \A q \in Ranks \ {r} : at'[q] = at[q] /\ lb'[q] = lb[q]
      PROVE  FlagsDecide'
  BY <1>1 DEF LoopInv, FlagsDecide
<1>2. CASE Signal(r)
  BY <1>2 DEF Signal, LoopInv, FlagsDecide
<1>3. CASE Balance(r)
  <2>1. \A q \in Ranks \ {r} : at'[q] = at[q] /\ lb'[q] = lb[q]
    BY <1>3 DEF Balance, LoopInv, TypeOK
  <2>2. Wait(<<"costs", "interval">>) # Wait(<<"dt", "cycle">>)
    BY DEF Wait
  <2>3. CASE BalanceDue(r) /\ balancer # "default"
    <3>1. at'[r] = Wait(<<"costs", "interval">>) /\ lb' = lb
      BY <1>3, <2>3 DEF Balance, LoopInv, TypeOK
    <3>2. Balanced(at'[r], lb'[r])
      BY <2>2, <2>3, <3>1 DEF Balanced, BalanceDue
    <3>3. QED
      BY <1>1, <2>1, <3>2
  <2>4. CASE ~(BalanceDue(r) /\ balancer # "default")
    <3>1. /\ at'[r] = Wait(<<"dt", "cycle">>)
          /\ lb' = [lb EXCEPT ![r].flag = lb[r].flag /\ ~BalanceDue(r)]
      BY <1>3, <2>4 DEF Balance, LoopInv, TypeOK
    <3>2. lb'[r].flag = (lb[r].flag /\ ~BalanceDue(r)) /\ lb'[r].since = lb[r].since
      BY <3>1 DEF LoopInv, TypeOK
    <3>3. Balanced(at'[r], lb'[r])
      BY <2>2, <3>1, <3>2 DEF Balanced, BalanceDue
    <3>4. QED
      BY <1>1, <2>1, <3>3
  <2>5. QED
    BY <2>3, <2>4
<1>4. CASE TestLoop(r) \/ ReadFlags(r) \/ AfterLoop(r) \/ \E costed \in BOOLEAN : Step(r, costed)
  <2>1. \A q \in Ranks \ {r} : at'[q] = at[q] /\ lb'[q] = lb[q]
    BY <1>4 DEF TestLoop, ReadFlags, AfterLoop, Step, LoopInv, TypeOK
  <2>2. at'[r] \notin Decided
    <3>1. CASE TestLoop(r)
      BY <3>1, DecidedPlaces DEF TestLoop, LoopHead, LoopInv, TypeOK
    <3>2. CASE ReadFlags(r)
      BY <3>2, DecidedPlaces, DecidedOutputs DEF ReadFlags, LoopInv, TypeOK
    <3>3. CASE AfterLoop(r)
      BY <3>3, DecidedOutputs DEF AfterLoop, LoopInv, TypeOK
    <3>4. CASE \E costed \in BOOLEAN : Step(r, costed)
      <4>1. at'[r] \in {Wait(<<"refine">>), Go("balance")}
        BY <3>4 DEF Step, LoopInv, TypeOK
      <4>2. QED
        BY <4>1, DecidedPlaces
    <3>5. QED
      BY <1>4, <3>1, <3>2, <3>3, <3>4
  <2>3. QED
    BY <1>1, <2>1, <2>2, BalancedElsewhere
<1>5. QED
  BY <1>2, <1>3, <1>4

LEMMA DecideCollective ==
  ASSUME LoopInv,
         \/ \E k, changes, costed : InitializeRound(k, changes, costed)
         \/ \E where : TimeStep(where)
         \/ \E c : WriteOutput(c)
         \/ \E moved : Refine(moved)
         \/ \E why \in {"refined", "interval"} : \E balanced : GatherCosts(why, balanced)
         \/ Redistribute
         \/ ExchangeSignals
         \/ \E f : Restart(f)
  PROVE  FlagsDecide'
<1>1. ASSUME \A r \in Ranks : at'[r] \notin Decided \/ (~lb'[r].flag /\ at'[r] = Wait(<<"dt", "cycle">>))
      PROVE  FlagsDecide'
  <2>1. Wait(<<"costs", "interval">>) # Wait(<<"dt", "cycle">>)
    BY DEF Wait
  <2>2. QED
    BY <1>1, <2>1, BalancedElsewhere DEF FlagsDecide, Balanced
<1>2. ASSUME NEW k, NEW changes, NEW costed, InitializeRound(k, changes, costed)
      PROVE  FlagsDecide'
  <2>1. <<"init", k + 1>>[1] = "init"
    OBVIOUS
  <2>2. \A r \in Ranks : at'[r] \notin Decided
    BY <1>2, <2>1, DecidedPlaces DEF InitializeRound
  <2>3. QED
    BY <1>1, <2>2
<1>3. ASSUME NEW where, TimeStep(where)
      PROVE  FlagsDecide'
  <2>1. \A r \in Ranks : at'[r] \notin Decided
    BY <1>3, DecidedPlaces, DecidedOutputs DEF TimeStep
  <2>2. QED
    BY <1>1, <2>1
<1>4. ASSUME NEW c, WriteOutput(c)
      PROVE  FlagsDecide'
  <2>1. \A r \in Ranks : at'[r] \notin Decided
    BY <1>4, DecidedOutputs DEF WriteOutput
  <2>2. QED
    BY <1>1, <2>1
<1>5. ASSUME NEW moved, Refine(moved)
      PROVE  FlagsDecide'
  <2>1. \A r \in Ranks : at'[r] \notin Decided
    BY <1>5, DecidedPlaces DEF Refine
  <2>2. QED
    BY <1>1, <2>1
<1>6. ASSUME NEW why \in {"refined", "interval"}, NEW balanced, GatherCosts(why, balanced)
      PROVE  FlagsDecide'
  <2>1. ASSUME NEW r \in Ranks
        PROVE  at'[r] \notin Decided \/ (~lb'[r].flag /\ at'[r] = Wait(<<"dt", "cycle">>))
    <3>1. CASE why = "refined" \/ ~balanced
      <4>1. at'[r] = Wait(<<"redistribute">>)
        BY <1>6, <3>1 DEF GatherCosts
      <4>2. QED
        BY <4>1, DecidedPlaces
    <3>2. CASE why = "interval" /\ balanced
      <4>1. at'[r] = Wait(<<"dt", "cycle">>) /\ lb'[r] = [lb[r] EXCEPT !.flag = FALSE]
        BY <1>6, <3>2 DEF GatherCosts
      <4>2. QED
        BY <4>1 DEF LoopInv, TypeOK
    <3>3. QED
      BY <3>1, <3>2
  <2>2. QED
    BY <1>1, <2>1
<1>7. ASSUME Redistribute
      PROVE  FlagsDecide'
  <2>1. \A r \in Ranks : ~lb'[r].flag /\ at'[r] = Wait(<<"dt", "cycle">>)
    BY <1>7 DEF Redistribute
  <2>2. QED
    BY <1>1, <2>1
<1>8. ASSUME ExchangeSignals
      PROVE  FlagsDecide'
  <2>1. \A r \in Ranks : at'[r] \notin Decided
    BY <1>8, DecidedPlaces DEF ExchangeSignals
  <2>2. QED
    BY <1>1, <2>1
<1>9. ASSUME NEW f, Restart(f)
      PROVE  FlagsDecide'
  <2>1. \A r \in Ranks : at'[r] \notin Decided
    BY <1>9, DecidedPlaces DEF Restart
  <2>2. QED
    BY <1>1, <2>1
<1>10. QED
  BY <1>2, <1>3, <1>4, <1>5, <1>6, <1>7, <1>8, <1>9

(***************************************************************************)
(* The places of the ranks and the shape of what they keep.                *)
(***************************************************************************)
LEMMA PlacesOfCalls ==
  /\ \A w : Place(Wait(<<"init", w>>)) /\ Place(Wait(<<"dt", w>>)) /\ Place(Wait(<<"costs", w>>))
  /\ Place(Wait(<<"signals">>)) /\ Place(Wait(<<"refine">>)) /\ Place(Wait(<<"redistribute">>))
  /\ Place(AtStart) /\ Place(AtInitialize)
<1>1. \A c : Wait(c)[2] = c
  BY DEF Wait
<1>2. \A w : /\ <<"init", w>>[1] = "init" /\ <<"dt", w>>[1] = "dt" /\ <<"costs", w>>[1] = "costs"
  OBVIOUS
<1>3. /\ <<"signals">>[1] = "signals" /\ <<"refine">>[1] = "refine"
      /\ <<"redistribute">>[1] = "redistribute"
  OBVIOUS
<1>4. \A c : c[1] # "write" => Place(Wait(c))
  BY <1>1 DEF Place
<1>5. QED
  BY <1>2, <1>3, <1>4 DEF AtStart, AtInitialize

LEMMA PlacesOfLabels ==
  ASSUME NEW r, NEW t
  PROVE  (\A l \in Labels : Place(Go(l))) /\ Place(LoopHead(r, t))
<1>1. \A l \in Labels : Place(Go(l))
  BY DEF Place
<1>2. QED
  BY <1>1 DEF LoopHead, Labels

LEMMA PlacesOfOutputs ==
  ASSUME NEW r, NEW o, NEW t, NEW p, NEW s, NEW after \in {"begin", "loop", "done"}
  PROVE  Place(NextOutput(r, o, t, p, s, after))
<1>1. \A a : Writing(a, after) => Place(a)
  BY DEF Writing, Place
<1>2. Place(Go(after))
  BY PlacesOfLabels DEF Labels
<1>3. QED
  BY <1>1, <1>2, NextOutputPlace

LEMMA TypeStart == Init => TypeOK
<1> SUFFICES ASSUME Init PROVE TypeOK
  OBVIOUS
<1>1. \A r \in Ranks : Place(at[r])
  BY PlacesOfCalls DEF Init
<1>2. \A r \in Ranks : Shaped(tm[r])
  BY DEF Init, Shaped
<1>3. lb \in [Ranks -> [flag : BOOLEAN, since : Nat]]
  BY DEF Init, LbStart
<1>4. QED
  BY <1>1, <1>2, <1>3 DEF Init, TypeOK

(* what most steps leave as it is *)
LEMMA TypeFrom ==
  ASSUME TypeOK, NEW a, at' = a, a = [r \in Ranks |-> a[r]], \A r \in Ranks : Place(a[r]),
         tm' = tm, disk' = disk, params' = params,
         flag' \in [Ranks -> SUBSET {"term", "now"}],
         signal' \in [Ranks -> {"none", "now", "final"}],
         lb' \in [Ranks -> [flag : BOOLEAN, since : Nat]],
         late' \subseteq Ranks
  PROVE  TypeOK'
BY DEF TypeOK

(* a cost that is set is seen in the flag *)
LEMMA FlagSet ==
  ASSUME NEW b \in [flag : BOOLEAN, since : Nat], NEW costed
  PROVE  (b.flag \/ CostsNew(costed)) \in BOOLEAN
BY DEF CostsNew

LEMMA TypeLocal ==
  ASSUME TypeOK, NEW r \in Ranks,
         \/ TestLoop(r) \/ Balance(r) \/ ReadFlags(r) \/ AfterLoop(r) \/ Signal(r)
         \/ \E costed \in BOOLEAN : Step(r, costed)
  PROVE  TypeOK'
<1> USE DEF runVars, historyVars
<1>1. CASE TestLoop(r)
  <2>1. at' = [q \in Ranks |-> at'[q]] /\ \A q \in Ranks : Place(at'[q])
    BY <1>1, PlacesOfLabels DEF TestLoop, TypeOK
  <2>2. QED
    BY <1>1, <2>1, TypeFrom DEF TestLoop, TypeOK
<1>2. ASSUME NEW costed, Step(r, costed)
      PROVE  TypeOK'
  <2>1. at' = [q \in Ranks |-> at'[q]] /\ \A q \in Ranks : Place(at'[q])
    BY <1>2, PlacesOfLabels, PlacesOfCalls DEF Step, TypeOK, Labels
  <2>2. tm' = [q \in Ranks |-> tm'[q]] /\ \A q \in Ranks : q # r => tm'[q] = tm[q]
    BY <1>2 DEF Step, TypeOK
  <2>3. tm'[r] = [tm[r] EXCEPT !.time = tm[r].time + tm[r].dt, !.ncycle = tm[r].ncycle + 1]
    BY <1>2 DEF Step, TypeOK
  <2>4. Shaped(tm'[r])
    BY <2>3 DEF TypeOK, Shaped
  <2>5. lb' \in [Ranks -> [flag : BOOLEAN, since : Nat]]
    <3>1. lb' = [lb EXCEPT ![r].flag = lb[r].flag \/ CostsNew(costed), ![r].since = lb[r].since + 1]
      BY <1>2, Zenon DEF Step
    <3>2. \E v \in BOOLEAN : lb' = [lb EXCEPT ![r].flag = v, ![r].since = lb[r].since + 1]
      BY <3>1, FlagSet, Zenon DEF TypeOK
    <3>3. QED
      BY <3>2 DEF TypeOK
  <2>6. QED
    BY <1>2, <2>1, <2>2, <2>4, <2>5 DEF Step, TypeOK
<1>3. CASE Balance(r)
  <2>1. at' = [q \in Ranks |-> at'[q]] /\ \A q \in Ranks : Place(at'[q])
    <3>1. \E a \in {Wait(<<"costs", "interval">>), Wait(<<"dt", "cycle">>)} : at' = [at EXCEPT ![r] = a]
      BY <1>3 DEF Balance
    <3>2. PICK a : Place(a) /\ at' = [at EXCEPT ![r] = a]
      BY <3>1, PlacesOfCalls
    <3>3. QED
      BY <3>2 DEF TypeOK
  <2>2. lb' = lb \/ lb' = [lb EXCEPT ![r].flag = lb[r].flag /\ ~BalanceDue(r)]
    BY <1>3, Zenon DEF Balance
  <2>3. BalanceDue(r) \in BOOLEAN
    BY DEF BalanceDue, TypeOK
  <2>4. lb' \in [Ranks -> [flag : BOOLEAN, since : Nat]]
    <3>1. \E v \in BOOLEAN : lb' \in {lb, [lb EXCEPT ![r].flag = v]}
      BY <2>2, <2>3
    <3>2. QED
      BY <3>1 DEF TypeOK
  <2>5. tm' = tm /\ disk' = disk /\ params' = params /\ flag' = flag /\ signal' = signal /\ late' = late
    BY <1>3 DEF Balance
  <2>6. /\ flag' \in [Ranks -> SUBSET {"term", "now"}]
        /\ signal' \in [Ranks -> {"none", "now", "final"}]
        /\ late' \subseteq Ranks
    BY <2>5 DEF TypeOK
  <2>7. QED
    BY <2>1, <2>4, <2>5, <2>6, TypeFrom
<1>4. CASE ReadFlags(r)
  <2>1. at' = [q \in Ranks |-> at'[q]] /\ \A q \in Ranks : Place(at'[q])
    BY <1>4, PlacesOfLabels, PlacesOfOutputs DEF ReadFlags, TypeOK, Labels
  <2>2. flag' \in [Ranks -> SUBSET {"term", "now"}]
    <3>1. flag' \in {flag, [flag EXCEPT ![r] = flag[r] \ {"now"}]}
      BY <1>4 DEF ReadFlags, TypeOK
    <3>2. QED
      BY <3>1 DEF TypeOK
  <2>3. signal' \in [Ranks -> {"none", "now", "final"}]
    <3>1. signal' = [signal EXCEPT ![r] = SignalOf(flag[r])]
      BY <1>4 DEF ReadFlags, SignalOf
    <3>2. SignalOf(flag[r]) \in {"none", "now", "final"}
      BY DEF SignalOf
    <3>3. QED
      BY <3>1, <3>2 DEF TypeOK
  <2>4. tm' = tm /\ disk' = disk /\ params' = params /\ lb' = lb /\ late' = late
    BY <1>4 DEF ReadFlags
  <2>5. QED
    BY <2>1, <2>2, <2>3, <2>4, TypeFrom DEF TypeOK
<1>5. CASE AfterLoop(r)
  <2>1. at' = [q \in Ranks |-> at'[q]] /\ \A q \in Ranks : Place(at'[q])
    BY <1>5, PlacesOfOutputs DEF AfterLoop, TypeOK
  <2>2. signal' \in [Ranks -> {"none", "now", "final"}]
    BY <1>5 DEF AfterLoop, TypeOK
  <2>3. QED
    BY <1>5, <2>1, <2>2, TypeFrom DEF AfterLoop, TypeOK
<1>6. CASE Signal(r)
  BY <1>6 DEF Signal, TypeOK
<1>7. QED
  BY <1>1, <1>2, <1>3, <1>4, <1>5, <1>6

LEMMA TypeCollective ==
  ASSUME TypeOK,
         \/ \E k, changes, costed : InitializeRound(k, changes, costed)
         \/ \E moved : Refine(moved)
         \/ \E why, balanced : GatherCosts(why, balanced)
         \/ Redistribute
         \/ ExchangeSignals
  PROVE  TypeOK'
<1> USE DEF runVars, historyVars
<1>1. ASSUME NEW k, NEW changes, NEW costed, InitializeRound(k, changes, costed)
      PROVE  TypeOK'
  <2>1. at' = [r \in Ranks |-> at'[r]] /\ \A r \in Ranks : Place(at'[r])
    BY <1>1, PlacesOfCalls DEF InitializeRound
  <2>2. lb' = [r \in Ranks |-> lb'[r]]
    BY <1>1 DEF InitializeRound
  <2>3. ASSUME NEW r \in Ranks
        PROVE  lb'[r] \in [flag : BOOLEAN, since : Nat]
    <3>1. lb[r] \in [flag : BOOLEAN, since : Nat] /\ LbStart \in [flag : BOOLEAN, since : Nat]
      BY DEF TypeOK, LbStart
    <3>2. CASE changes = "nothing"
      <4>1. lb'[r] = [lb[r] EXCEPT !.flag = lb[r].flag \/ CostsNew(r \in costed)]
        BY <1>1, <3>2, Zenon DEF InitializeRound
      <4>2. \E v \in BOOLEAN : lb'[r] = [lb[r] EXCEPT !.flag = v]
        BY <3>1, <4>1, FlagSet
      <4>3. QED
        BY <3>1, <4>2
    <3>3. CASE changes # "nothing"
      BY <1>1, <3>1, <3>3 DEF InitializeRound
    <3>4. QED
      BY <3>2, <3>3
  <2>4. tm' = tm /\ disk' = disk /\ params' = params /\ flag' = flag /\ signal' = signal /\ late' = late
    BY <1>1 DEF InitializeRound
  <2>5. QED
    BY <2>1, <2>2, <2>3, <2>4 DEF TypeOK
<1>2. ASSUME NEW moved, Refine(moved)
      PROVE  TypeOK'
  <2>1. at' = [r \in Ranks |-> at'[r]] /\ \A r \in Ranks : Place(at'[r])
    BY <1>2, PlacesOfCalls, PlacesOfLabels DEF Refine, Labels
  <2>2. QED
    BY <1>2, <2>1 DEF Refine, TypeOK
<1>3. ASSUME NEW why, NEW balanced, GatherCosts(why, balanced)
      PROVE  TypeOK'
  <2>1. at' = [r \in Ranks |-> at'[r]] /\ \A r \in Ranks : Place(at'[r])
    <3>1. \A r \in Ranks : at'[r] \in {Wait(<<"redistribute">>), Wait(<<"dt", "cycle">>)}
      BY <1>3 DEF GatherCosts
    <3>2. \A r \in Ranks : Place(at'[r])
      BY <3>1, PlacesOfCalls
    <3>3. at' = [r \in Ranks |-> at'[r]]
      BY <1>3 DEF GatherCosts
    <3>4. QED
      BY <3>2, <3>3
  <2>2. lb' \in [Ranks -> [flag : BOOLEAN, since : Nat]]
    <3>1. lb \in [Ranks -> [flag : BOOLEAN, since : Nat]]
      BY DEF TypeOK
    <3>2. lb' = [r \in Ranks |-> IF why = "interval" THEN [lb[r] EXCEPT !.flag = FALSE] ELSE lb[r]]
      BY <1>3 DEF GatherCosts
    <3>3. ASSUME NEW r \in Ranks
          PROVE  [lb[r] EXCEPT !.flag = FALSE] \in [flag : BOOLEAN, since : Nat]
      BY <3>1
    <3>4. QED
      BY <3>1, <3>2, <3>3
  <2>3. QED
    BY <1>3, <2>1, <2>2 DEF GatherCosts, TypeOK
<1>4. ASSUME Redistribute
      PROVE  TypeOK'
  <2>1. at' = [r \in Ranks |-> at'[r]] /\ \A r \in Ranks : Place(at'[r])
    BY <1>4, PlacesOfCalls DEF Redistribute
  <2>2. lb' \in [Ranks -> [flag : BOOLEAN, since : Nat]]
    BY <1>4 DEF Redistribute
  <2>3. QED
    BY <1>4, <2>1, <2>2 DEF Redistribute, TypeOK
<1>5. ASSUME ExchangeSignals
      PROVE  TypeOK'
  <2>1. at' = [r \in Ranks |-> at'[r]] /\ \A r \in Ranks : Place(at'[r])
    BY <1>5, PlacesOfLabels DEF ExchangeSignals, Labels
  <2>2. flag' \in [Ranks -> SUBSET {"term", "now"}]
    <3>1. \A r \in Ranks : flag[r] \in SUBSET {"term", "now"}
      BY DEF TypeOK
    <3>2. \A r \in Ranks : Combine(r, trigger) \in SUBSET {"term", "now"}
      BY <3>1 DEF Combine
    <3>3. flag' = [r \in Ranks |-> Combine(r, trigger)]
      BY <1>5 DEF ExchangeSignals
    <3>4. QED
      BY <3>2, <3>3, Zenon
  <2>3. QED
    BY <1>5, <2>1, <2>2 DEF ExchangeSignals, TypeOK
<1>6. QED
  BY <1>1, <1>2, <1>3, <1>4, <1>5

LEMMA TypeTimeStep ==
  ASSUME TypeOK, NEW where, TimeStep(where)
  PROVE  TypeOK'
<1> USE DEF runVars, historyVars
<1>1. at' = [r \in Ranks |-> at'[r]] /\ \A r \in Ranks : Place(at'[r])
  BY PlacesOfCalls, PlacesOfOutputs DEF TimeStep
<1>2. tm' = [r \in Ranks |-> tm'[r]]
  BY DEF TimeStep
<1>3. ASSUME NEW r \in Ranks
      PROVE  Shaped(tm'[r])
  <2>1. tm'[r] = [tm[r] EXCEPT !.dt = GlobalTimeStep(tm[r], Allowed(tm[r]))]
    BY DEF TimeStep
  <2>2. QED
    BY <2>1 DEF TypeOK, Shaped
<1>4. QED
  BY <1>1, <1>2, <1>3 DEF TimeStep, TypeOK

LEMMA TypeWriteOutput ==
  ASSUME TypeOK, NEW c, WriteOutput(c)
  PROVE  TypeOK'
<1>1. c[5] \in {"begin", "loop", "done"}
  BY CallPlace DEF WriteOutput
<1>2. at' = [r \in Ranks |-> at'[r]] /\ \A r \in Ranks : Place(at'[r])
  BY <1>1, PlacesOfOutputs DEF WriteOutput
<1>3. params' = [r \in Ranks |-> params'[r]]
  BY DEF WriteOutput
<1>4. \A f \in disk' : Shaped(f.tm)
  <2>1. disk' \in {disk, disk \cup {[tm |-> tm[Root], params |-> params'[Root], run |-> crashes]}}
    BY DEF WriteOutput
  <2>2. Shaped(tm[Root])
    BY DriverAssumption DEF TypeOK
  <2>3. ASSUME NEW f \in disk'
        PROVE  f \in disk \/ f.tm = tm[Root]
    BY <2>1
  <2>4. QED
    BY <2>2, <2>3 DEF TypeOK
<1>5. tm' = tm /\ flag' = flag /\ signal' = signal /\ lb' = lb /\ late' = late
  BY DEF WriteOutput
<1>6. QED
  BY <1>2, <1>3, <1>4, <1>5 DEF TypeOK

LEMMA TypeRestart ==
  ASSUME TypeOK, NEW f \in disk, Restart(f)
  PROVE  TypeOK'
<1>1. \A r \in Ranks : Place(at'[r])
  BY PlacesOfCalls DEF Restart
<1>2. \A r \in Ranks : Shaped(tm'[r])
  BY DEF Restart, Restored, TypeOK
<1>3. QED
  BY <1>1, <1>2 DEF Restart, LbStart, TypeOK

LEMMA TypeStep ==
  ASSUME TypeOK, [Next]_vars
  PROVE  TypeOK'
<1>1. CASE Program
  <2>1. ASSUME NEW r \in Ranks,
               \/ TestLoop(r) \/ Balance(r) \/ ReadFlags(r) \/ AfterLoop(r)
               \/ \E costed \in BOOLEAN : Step(r, costed)
        PROVE  TypeOK'
    BY <2>1, TypeLocal
  <2>2. QED
    BY <1>1, <2>1, TypeCollective, TypeTimeStep, TypeWriteOutput DEF Program
<1>2. ASSUME NEW r \in Ranks, Signal(r)
      PROVE  TypeOK'
  BY <1>2, TypeLocal
<1>3. CASE OutputNow
  BY <1>3 DEF OutputNow, historyVars, TypeOK
<1>4. CASE UNCHANGED vars
  BY <1>4 DEF vars, TypeOK
<1>5. QED
  BY <1>1, <1>2, <1>3, <1>4, TypeRestart DEF Next

(***************************************************************************)
(* The invariant, and what follows from it.                                *)
(***************************************************************************)
LEMMA LoopStart == Init => LoopInv
<1> SUFFICES ASSUME Init PROVE LoopInv
  OBVIOUS
<1>1. \A r, q \in Ranks : Local(r) = Local(q)
  BY DEF Local, Init
<1>2. \A r \in Ranks : at[r] # Go("flags") /\ at[r] \notin Decided
  <2>1. <<"init", 1>>[1] = "init"
    OBVIOUS
  <2>2. QED
    BY <2>1, Places, DecidedPlaces DEF Init, AtInitialize, AtStart
<1>3. Together /\ Flagged /\ LateLeave
  BY <1>1, <1>2 DEF Together, Flagged, LateLeave, Ahead, Init
<1>4. FlagsDecide
  BY <1>2, BalancedElsewhere DEF FlagsDecide
<1>5. QED
  BY <1>3, <1>4, TypeStart DEF LoopInv

LEMMA LoopStep ==
  ASSUME LoopInv, [Next]_vars
  PROVE  LoopInv'
<1> SUFFICES Together' /\ Flagged' /\ LateLeave' /\ FlagsDecide'
  BY TypeStep DEF LoopInv
<1>1. CASE Program
  <2>1. ASSUME NEW r \in Ranks,
               \/ TestLoop(r) \/ Balance(r) \/ ReadFlags(r) \/ AfterLoop(r)
               \/ \E costed \in BOOLEAN : Step(r, costed)
        PROVE  Together' /\ Flagged' /\ LateLeave' /\ FlagsDecide'
    BY <2>1, TestLoopTogether, StepTogether, BalanceTogether, ReadFlagsTogether, AfterLoopTogether,
       LateLocal, DecideLocal
  <2>2. ASSUME NEW c, WriteOutput(c)
        PROVE  Together' /\ Flagged' /\ LateLeave' /\ FlagsDecide'
    BY <2>2, WriteOutputTogether, LateWriteOutput, DecideCollective
  <2>3. ASSUME \/ \E k, changes, costed : InitializeRound(k, changes, costed)
               \/ \E where : TimeStep(where)
               \/ \E moved : Refine(moved)
               \/ \E why \in {"refined", "interval"} : \E balanced : GatherCosts(why, balanced)
               \/ Redistribute
               \/ ExchangeSignals
        PROVE  Together' /\ Flagged' /\ LateLeave' /\ FlagsDecide'
    <3>1. Together' /\ Flagged'
      BY <2>3, InitializeRoundTogether, TimeStepTogether, RefineTogether, GatherCostsTogether,
         RedistributeTogether, ExchangeSignalsTogether
    <3>2. QED
      BY <2>3, <3>1, LateCollective, DecideCollective
  <2>4. QED
    BY <1>1, <2>1, <2>2, <2>3 DEF Program
<1>2. ASSUME NEW r \in Ranks, Signal(r)
      PROVE  Together' /\ Flagged' /\ LateLeave' /\ FlagsDecide'
  BY <1>2, SignalTogether, LateLocal, DecideLocal
<1>3. CASE OutputNow \/ UNCHANGED vars
  <2>1. /\ at' = at /\ tm' = tm /\ flag' = flag /\ signal' = signal /\ lb' = lb /\ params' = params
        /\ late' = late
    BY <1>3 DEF OutputNow, historyVars, vars
  <2>2. \A r \in Ranks : Local(r)' = Local(r)
    BY <2>1 DEF Local
  <2>3. QED
    BY <2>1, <2>2, Unseen DEF LoopInv, LateLeave, FlagsDecide
<1>4. ASSUME NEW f \in disk, Restart(f)
      PROVE  Together' /\ Flagged' /\ LateLeave' /\ FlagsDecide'
  <2>1. LateLeave'
    BY <1>4 DEF Restart, LateLeave
  <2>2. QED
    BY <1>4, <2>1, RestartTogether, DecideCollective
<1>5. QED
  BY <1>1, <1>2, <1>3, <1>4 DEF Next

(* Ranks that have not been parted stop in the same place. *)
LEMMA StopTogether ==
  ASSUME LoopInv, ~Parted, NEW r \in Ranks, NEW q \in Ranks,
         at[r] = Go("done") \/ \E c : at[r] = Wait(c), at[q] = Go("done") \/ \E c : at[q] = Wait(c)
  PROVE  at[r] = at[q]
<1>1. Stop(at[r]) = Stop(at[q]) /\ lb[r].since = lb[q].since
  <2>1. r \in late <=> q \in late
    BY DEF Parted, SignalMissed
  <2>2. ASSUME NEW p \in Ranks, at[p] = Go("done") \/ \E c : at[p] = Wait(c)
        PROVE  Ahead(p) = Local(p)
    <3>1. Level(Go("done")) = 0
      BY DEF Level, Go
    <3>2. Level(Local(p).at) = 0
      BY <2>2, <3>1, Stops DEF Local
    <3>3. QED
      BY <3>2, AheadThere, LocalIsState DEF Ahead
  <2>3. Local(r) = Local(q)
    BY <2>1, <2>2 DEF LoopInv, Together
  <2>4. QED
    BY <2>3 DEF Local
<1>2. CASE at[r] \notin BalancePlaces \/ at[q] \notin BalancePlaces
  <2>1. Go("balance") \in BalancePlaces
    BY DEF BalancePlaces
  <2>2. QED
    BY <1>1, <1>2, <2>1 DEF Stop
<1>3. CASE at[r] \in BalancePlaces /\ at[q] \in BalancePlaces
  <2>1. at[r] \in Decided /\ at[q] \in Decided
    BY <1>3, Places DEF BalancePlaces, Decided
  <2>2. Balanced(at[r], lb[r]) /\ Balanced(at[q], lb[q])
    BY DEF LoopInv, FlagsDecide
  <2>3. lb[r].since >= Interval /\ lb[q].since >= Interval => (lb[r].flag <=> lb[q].flag)
    <3>1. \A a, b \in Ranks : {at[a], at[b]} \subseteq BalancePlaces /\ lb[a].since >= Interval =>
            ~lb[a].flag \/ lb[b].flag
      BY DEF Parted, CostsUneven
    <3>2. QED
      BY <1>3, <3>1
  <2>4. QED
    BY <1>1, <2>1, <2>2, <2>3 DEF Balanced, Decided
<1>4. QED
  BY <1>2, <1>3

(* Ranks that wait for one another wait in the same call. *)
LEMMA TogetherMatches == LoopInv => CollectivesMatch
<1> SUFFICES ASSUME LoopInv, ~Parted
             PROVE  Cardinality(Calls) <= 1 /\ (Calls # {} => \A r \in Ranks : at[r] # Go("done"))
  BY DEF CollectivesMatch
<1>1. ASSUME NEW c \in Calls
      PROVE  \E r \in Ranks : at[r] = Wait(c)
  <2>1. PICK r \in Ranks : at[r][1] = "call" /\ at[r][2] = c
    BY DEF Calls
  <2>2. \A l : Go(l)[1] # "call"
    BY DEF Go
  <2>3. at[r] = Wait(at[r][2])
    BY <2>1, <2>2 DEF LoopInv, TypeOK, Place
  <2>4. QED
    BY <2>1, <2>3
<1>2. \A c : Wait(c)[2] = c
  BY DEF Wait
<1>3. ASSUME NEW c \in Calls, NEW d \in Calls
      PROVE  c = d
  <2>1. PICK r \in Ranks, q \in Ranks : at[r] = Wait(c) /\ at[q] = Wait(d)
    BY <1>1
  <2>2. Wait(c) = Wait(d)
    BY <2>1, StopTogether
  <2>3. QED
    BY <1>2, <2>2
<1>4. Cardinality(Calls) <= 1
  <2>1. CASE Calls = {}
    BY <2>1, FS_EmptySet
  <2>2. CASE Calls # {}
    <3>1. PICK c \in Calls : TRUE
      BY <2>2
    <3>2. Calls = {c}
      BY <1>3, <3>1
    <3>3. Cardinality(Calls) = 1
      BY <3>2, FS_Singleton, Zenon
    <3>4. QED
      BY <3>3
  <2>3. QED
    BY <2>1, <2>2
<1>5. ASSUME NEW c \in Calls, NEW r \in Ranks
      PROVE  at[r] # Go("done")
  <2>1. PICK q \in Ranks : at[q] = Wait(c)
    BY <1>1
  <2>2. Go("done") # Wait(c)
    BY Places
  <2>3. QED
    BY <2>1, <2>2, StopTogether
<1>6. QED
  BY <1>4, <1>5

(***************************************************************************)
(* Whatever the blocks allow, whatever the outputs, the balancer and the   *)
(* limits are, whatever signals arrive and however often the job is        *)
(* restarted: as long as a termination signal that comes between the       *)
(* Allreduce of CheckSignalFlags and the reading of the flags reaches all  *)
(* ranks or none, and a cost that is due to be looked at has been set on   *)
(* all or on none, no rank waits in a collective call that another rank    *)
(* will not make.  So these two are all that can part the ranks.           *)
(***************************************************************************)
THEOREM RanksStayTogether == Spec => []CollectivesMatch
<1>1. Init => LoopInv
  BY LoopStart
<1>2. LoopInv /\ [Next]_vars => LoopInv'
  BY LoopStep
<1>3. LoopInv => CollectivesMatch
  BY TogetherMatches
<1>4. QED
  BY <1>1, <1>2, <1>3, PTL DEF Spec

(***************************************************************************)
(* The times of the cycles.                                                *)
(***************************************************************************)
Cycles == {n \in Nat : Nlim < 0 \/ n <= Nlim}

(* Time passes: the blocks allow a step in every cycle, at any time. *)
StepsPositive ==
  /\ Tlim \in Nat /\ Nlim \in Int /\ FirstDt \in Nat \ {0}
  /\ \A r \in Ranks, n \in Cycles, t \in 0 .. Tlim : NewDt[r][n][t] \in Nat \ {0}

(* The step of the cycle has not been set since the last one, or since the  *)
(* start of the run.                                                        *)
Unset(a) ==
  \/ a = Go("balance")
  \/ a[1] = "call" /\ a[2][1] \in {"init", "dt", "refine", "costs", "redistribute"}

(* the step that is set at t *)
StepAt(t) == GlobalTimeStep(t, Allowed(t))

(* the first SimTime, and the one after step p *)
First == [time |-> 0, ncycle |-> 0, dt |-> FirstDt]
After(p) == [time |-> p.time + p.dt, ncycle |-> p.cycle + 1, dt |-> p.dt]

(* the SimTimes that runs 0 .. k come to without restarts; P are the steps  *)
(* taken                                                                    *)
Reached(P, k) == {First} \cup {After(p) : p \in {q \in P : q.run <= k}}

(* The restarts S have not changed what run k does up to cycle n. *)
Clean(S, n, k) == \A s \in S : s.run <= k /\ s.tm.ncycle <= n => ~Eased(s.tm)

(* d is the step that is set at the time and cycle of t if nothing has been *)
(* restarted                                                                *)
Derived(t, n, d, k, P) == \E u \in Reached(P, k) : u.time = t /\ u.ncycle = n /\ d = StepAt(u)

Timed(t, a, k, P, S) ==
  /\ t.ncycle \in Cycles /\ t.time \in 0 .. Tlim /\ t.dt \in Nat \ {0}
  /\ t.time < Tlim /\ ~Unset(a) => t.dt <= Wanted(t)
  /\ t.time < Tlim /\ Clean(S, t.ncycle, k) =>
       Derived(t.time, t.ncycle, IF Unset(a) THEN StepAt(t) ELSE t.dt, k, P)
  /\ a = Go("step") => KeepGoing(t)

Taken(p, P, S) ==
  /\ p.run \in Nat /\ p.cycle \in Nat
  /\ Clean(S, p.cycle, p.run) => Derived(p.time, p.cycle, p.dt, p.run, P)

(* a run that was started again from s takes the step of the file, or up to *)
(* twice that, first                                                        *)
StartedFrom(t, a, s) ==
  /\ s.ncycle <= t.ncycle
  /\ s.ncycle = t.ncycle =>
       /\ t.time = s.time
       /\ Unset(a) => t.dt = s.dt
       /\ ~Unset(a) /\ t.time < Tlim => s.dt <= t.dt /\ t.dt <= 2 * s.dt

(* the two parts of RestartReproduces *)
Agree(P, S) ==
  \A a, b \in P : a.cycle = b.cycle =>
    \/ a.time = b.time /\ a.dt = b.dt
    \/ \E s \in S : Eased(s.tm) /\ s.tm.ncycle <= a.cycle /\ (s.run <= a.run \/ s.run <= b.run)

FirstSteps(P, S) ==
  \A s \in S, a \in P : a.run = s.run /\ a.cycle = s.tm.ncycle =>
    a.time = s.tm.time /\ a.dt >= s.tm.dt /\ a.dt <= 2 * s.tm.dt

TimesInv ==
  /\ TypeOK
  /\ crashes \in Nat
  /\ \A r \in Ranks : Timed(tm[r], at[r], crashes, steps, restarts)
  /\ \A f \in disk : f.run \in Nat /\ f.run <= crashes /\ Timed(f.tm, Go("loop"), f.run, steps, restarts)
  /\ \A p \in steps : Taken(p, steps, restarts) /\ p.run <= crashes
  /\ \A s \in restarts :
       /\ s.run \in Nat /\ s.run <= crashes
       /\ s.tm.ncycle \in Nat /\ s.tm.dt \in Nat \ {0}
       /\ s.tm.time < Tlim => s.tm.dt <= Wanted(s.tm)
       /\ s.run = crashes => \A r \in Ranks : StartedFrom(tm[r], at[r], s.tm)
  /\ Agree(steps, restarts) /\ FirstSteps(steps, restarts)

LEMMA LeastNatural ==
  ASSUME NEW T \in SUBSET Nat, T # {}
  PROVE  \E x \in T : \A y \in T : x <= y
<1> DEFINE R == {ss \in Nat \X Nat : ss[1] < ss[2]}
<1>1. IsWellFoundedOn(R, Nat)
  BY NatLessThanWellFounded DEF OpToRel
<1> HIDE DEF R
<1>2. PICK x \in T : \A y \in T : ~(<<y, x>> \in R)
  BY <1>1, WFMin
<1>3. \A y \in T : <<y, x>> \in Nat \X Nat /\ <<y, x>>[1] = y /\ <<y, x>>[2] = x
  OBVIOUS
<1>4. \A y \in T : ~(y < x)
  BY <1>2, <1>3 DEF R
<1>5. QED
  BY <1>4

(* The smallest step of the blocks is one of theirs. *)
LEMMA AllowedPositive ==
  ASSUME StepsPositive, NEW t, t.ncycle \in Cycles, t.time \in 0 .. Tlim
  PROVE  Allowed(t) \in Nat \ {0}
<1> DEFINE S == {NewDt[r][t.ncycle][t.time] : r \in Ranks}
<1>1. S \subseteq Nat \ {0} /\ S # {}
  BY DriverAssumption DEF StepsPositive
<1>2. Allowed(t) = CHOOSE d \in S : \A e \in S : d <= e
  BY DEF Allowed
<1> HIDE DEF S
<1>3. \E d \in S : \A e \in S : d <= e
  BY <1>1, LeastNatural
<1>4. QED
  BY <1>1, <1>2, <1>3

(* What is wanted depends on the time and the cycle alone. *)
LEMMA WantedSame ==
  ASSUME NEW t, NEW u, t.time = u.time, t.ncycle = u.ncycle
  PROVE  Wanted(t) = Wanted(u)
<1> DEFINE Smallest(n, x) ==
             LET S == {NewDt[r][n][x] : r \in Ranks} IN CHOOSE d \in S : \A e \in S : d <= e
<1>1. Allowed(t) = Smallest(t.ncycle, t.time) /\ Allowed(u) = Smallest(u.ncycle, u.time)
  BY DEF Allowed
<1> HIDE DEF Smallest
<1>2. QED
  BY <1>1 DEF Wanted

(* SetGlobalTimeStep sets what is wanted, or what the factor of two leaves *)
(* of it, and never a smaller step than before that was not too large.     *)
LEMMA StepAtFits ==
  ASSUME Tlim \in Nat, NEW t, t.time \in 0 .. Tlim, t.dt \in Nat \ {0}, Allowed(t) \in Nat \ {0}
  PROVE  /\ StepAt(t) \in Nat \ {0} /\ Wanted(t) \in Int
         /\ t.time < Tlim => /\ StepAt(t) <= Wanted(t) /\ Wanted(t) <= Tlim - t.time
                             /\ StepAt(t) <= 2 * t.dt
                             /\ t.dt <= Wanted(t) => t.dt <= StepAt(t)
                             /\ ~Eased(t) => StepAt(t) = Wanted(t)
<1> DEFINE grown == Grown(t.dt)
           d == Allowed(t)
           time == t.time
           dt == t.dt
<1>1. grown \in Nat \ {0} /\ grown >= dt /\ grown <= 2 * dt
  BY DEF Grown, Huge
<1>2. StepAt(t) = LET least == IF d < grown THEN d ELSE grown
                  IN  IF time < Tlim /\ Tlim - time < least THEN Tlim - time ELSE least
  BY DEF StepAt, GlobalTimeStep
<1>3. Wanted(t) = IF Tlim - time < d THEN Tlim - time ELSE d
  BY DEF Wanted
<1>4. Eased(t) <=> dt < Wanted(t)
  BY DEF Eased
<1>5. time \in Nat /\ time <= Tlim /\ dt \in Nat \ {0} /\ d \in Nat \ {0}
  OBVIOUS
<1> HIDE DEF grown, d, time, dt
<1>6. Wanted(t) \in Int /\ (time < Tlim => Wanted(t) <= Tlim - time /\ Wanted(t) > 0)
  BY <1>3, <1>5
<1>7. StepAt(t) \in Nat \ {0}
  BY <1>1, <1>2, <1>5
<1>8. time < Tlim => StepAt(t) = IF grown < Wanted(t) THEN grown ELSE Wanted(t)
  BY <1>1, <1>2, <1>3, <1>5
<1>9. time < Tlim => /\ StepAt(t) <= Wanted(t) /\ Wanted(t) <= Tlim - time
                     /\ StepAt(t) <= 2 * dt
                     /\ dt <= Wanted(t) => dt <= StepAt(t)
                     /\ ~Eased(t) => StepAt(t) = Wanted(t)
  BY <1>1, <1>4, <1>5, <1>6, <1>8
<1>10. QED
  BY <1>6, <1>7, <1>9 DEF time, dt

(* More steps, and more restarts, take nothing back. *)
LEMMA TimedStays ==
  ASSUME NEW t, NEW a, NEW k, NEW P, NEW S, NEW Q, NEW T, P \subseteq Q, S \subseteq T, Timed(t, a, k, P, S)
  PROVE  Timed(t, a, k, Q, T)
<1>1. Clean(T, t.ncycle, k) => Clean(S, t.ncycle, k)
  BY DEF Clean
<1>2. \A x, n, d : Derived(x, n, d, k, P) => Derived(x, n, d, k, Q)
  BY DEF Derived, Reached
<1>3. QED
  BY <1>1, <1>2 DEF Timed

LEMMA TakenStays ==
  ASSUME NEW p, NEW P, NEW S, NEW Q, NEW T, P \subseteq Q, S \subseteq T, Taken(p, P, S)
  PROVE  Taken(p, Q, T)
<1>1. Clean(T, p.cycle, p.run) => Clean(S, p.cycle, p.run)
  BY DEF Clean
<1>2. \A x, n, d : Derived(x, n, d, p.run, P) => Derived(x, n, d, p.run, Q)
  BY DEF Derived, Reached
<1>3. QED
  BY <1>1, <1>2 DEF Taken

(* What is derived is the same in all runs that no restart has changed. *)
LEMMA AgreeGrows ==
  ASSUME NEW P, NEW S, NEW new, Agree(P, S),
         \A p \in P \cup {new} : Taken(p, P, S),
         \A s \in S : s.run \in Nat /\ s.tm.ncycle \in Nat
  PROVE  Agree(P \cup {new}, S)
<1> SUFFICES ASSUME NEW x \in P \cup {new}, NEW y \in P \cup {new}, x.cycle = y.cycle,
                    ~\E s \in S : Eased(s.tm) /\ s.tm.ncycle <= x.cycle /\ (s.run <= x.run \/ s.run <= y.run)
             PROVE  x.time = y.time /\ x.dt = y.dt
  BY DEF Agree
<1>1. Taken(x, P, S) /\ Taken(y, P, S)
  OBVIOUS
<1>2. Clean(S, x.cycle, x.run) /\ Clean(S, y.cycle, y.run)
  BY DEF Clean
<1>3. PICK u \in Reached(P, x.run) : u.time = x.time /\ u.ncycle = x.cycle /\ x.dt = StepAt(u)
  BY <1>1, <1>2 DEF Taken, Derived
<1>4. PICK v \in Reached(P, y.run) : v.time = y.time /\ v.ncycle = y.cycle /\ y.dt = StepAt(v)
  BY <1>1, <1>2 DEF Taken, Derived
<1>5. First.ncycle = 0 /\ \A p : /\ After(p).ncycle = p.cycle + 1 /\ After(p).time = p.time + p.dt
                                /\ After(p).dt = p.dt
  BY DEF First, After
<1>6. u = v
  <2>1. CASE u = First \/ v = First
    <3>1. \A p \in P : p.cycle + 1 # 0
      BY DEF Taken
    <3>2. u.ncycle = 0 /\ v.ncycle = 0
      BY <1>3, <1>4, <1>5, <2>1
    <3>3. u = First /\ v = First
      BY <1>5, <3>1, <3>2 DEF Reached
    <3>4. QED
      BY <3>3
  <2>2. CASE u # First /\ v # First
    <3>1. PICK p \in P : p.run <= x.run /\ u = After(p)
      BY <2>2 DEF Reached
    <3>2. PICK q \in P : q.run <= y.run /\ v = After(q)
      BY <2>2 DEF Reached
    <3>3. /\ p.run \in Nat /\ q.run \in Nat /\ x.run \in Nat /\ y.run \in Nat
          /\ p.cycle \in Nat /\ q.cycle \in Nat /\ x.cycle \in Nat
      BY <1>1 DEF Taken
    <3>4. p.cycle = q.cycle /\ p.cycle <= x.cycle
      <4>1. u.ncycle = p.cycle + 1 /\ v.ncycle = q.cycle + 1 /\ u.ncycle = x.cycle /\ v.ncycle = x.cycle
        BY <1>3, <1>4, <1>5, <3>1, <3>2
      <4>2. QED
        BY <3>3, <4>1
    <3>5. ~\E s \in S : Eased(s.tm) /\ s.tm.ncycle <= p.cycle /\ (s.run <= p.run \/ s.run <= q.run)
      <4>1. ASSUME NEW s \in S, Eased(s.tm), s.tm.ncycle <= p.cycle, s.run <= p.run \/ s.run <= q.run
            PROVE  FALSE
        <5>1. s.run \in Nat /\ s.tm.ncycle \in Nat
          OBVIOUS
        <5>2. s.tm.ncycle <= x.cycle
          BY <3>3, <3>4, <4>1, <5>1
        <5>3. s.run <= x.run \/ s.run <= y.run
          BY <3>1, <3>2, <3>3, <4>1, <5>1
        <5>4. QED
          BY <4>1, <5>2, <5>3
      <4>2. QED
        BY <4>1
    <3>6. p.time = q.time /\ p.dt = q.dt
      BY <3>4, <3>5 DEF Agree
    <3>7. QED
      BY <3>1, <3>2, <3>4, <3>6 DEF After
  <2>3. QED
    BY <2>1, <2>2
<1>7. QED
  BY <1>3, <1>4, <1>6

LEMMA UnsetPlaces ==
  /\ \A w : Unset(Wait(<<"init", w>>)) /\ Unset(Wait(<<"dt", w>>)) /\ Unset(Wait(<<"costs", w>>))
  /\ Unset(Wait(<<"refine">>)) /\ Unset(Wait(<<"redistribute">>)) /\ Unset(Go("balance"))
  /\ Unset(AtStart) /\ Unset(AtInitialize)
<1>1. \A c : Wait(c)[1] = "call" /\ Wait(c)[2] = c
  BY DEF Wait
<1>2. \A w : /\ <<"init", w>>[1] = "init" /\ <<"dt", w>>[1] = "dt" /\ <<"costs", w>>[1] = "costs"
  OBVIOUS
<1>3. <<"refine">>[1] = "refine" /\ <<"redistribute">>[1] = "redistribute"
  OBVIOUS
<1>4. \A c : c[1] \in {"init", "dt", "refine", "costs", "redistribute"} => Unset(Wait(c))
  BY <1>1 DEF Unset
<1>5. QED
  BY <1>2, <1>3, <1>4 DEF AtStart, AtInitialize, Unset

LEMMA SetPlaces ==
  /\ \A l : l # "balance" => ~Unset(Go(l))
  /\ ~Unset(Wait(<<"signals">>))
  /\ \A c : c[1] = "write" => ~Unset(Wait(c))
<1>1. \A c : Wait(c)[1] = "call" /\ Wait(c)[2] = c /\ \A l : Go(l) # Wait(c)
  BY Places DEF Wait
<1>2. \A l : Go(l)[1] = "go"
  BY DEF Go
<1>3. <<"signals">>[1] = "signals"
  OBVIOUS
<1>4. QED
  BY <1>1, <1>2, <1>3, Places DEF Unset

LEMMA SetOutputs ==
  ASSUME NEW r, NEW o, NEW t, NEW p, NEW s, NEW after \in {"begin", "loop", "done"}
  PROVE  /\ ~Unset(NextOutput(r, o, t, p, s, after))
         /\ NextOutput(r, o, t, p, s, after) # Go("step")
<1>1. \A a : Writing(a, after) => ~Unset(a) /\ a # Go("step")
  BY SetPlaces, Places DEF Writing
<1>2. ~Unset(Go(after)) /\ Go(after) # Go("step")
  BY SetPlaces, Places
<1>3. QED
  BY <1>1, <1>2, NextOutputPlace

(* Steps that leave the times alone. *)
LEMMA SameTimes ==
  ASSUME TimesInv, TypeOK', tm' = tm, steps' = steps, restarts' = restarts, crashes' = crashes,
         \A f \in disk' : f \in disk \/ (f.tm = tm[Root] /\ f.run = crashes /\ ~Unset(at[Root])),
         \A r \in Ranks : /\ Unset(at[r]) <=> Unset(at'[r])
                          /\ at'[r] = Go("step") => at'[r] = at[r] \/ KeepGoing(tm[r])
  PROVE  TimesInv'
<1>1. ASSUME NEW r \in Ranks
      PROVE  Timed(tm'[r], at'[r], crashes', steps', restarts')
  <2>1. Timed(tm[r], at[r], crashes, steps, restarts)
    BY DEF TimesInv
  <2>2. QED
    BY <2>1 DEF Timed
<1>2. ASSUME NEW f \in disk'
      PROVE  f.run \in Nat /\ f.run <= crashes' /\ Timed(f.tm, Go("loop"), f.run, steps', restarts')
  <2>1. CASE f \in disk
    BY <2>1 DEF TimesInv
  <2>2. CASE f.tm = tm[Root] /\ f.run = crashes /\ ~Unset(at[Root])
    <3>1. Timed(tm[Root], at[Root], crashes, steps, restarts) /\ crashes \in Nat
      BY DriverAssumption DEF TimesInv
    <3>2. ~Unset(Go("loop")) /\ Go("loop") # Go("step")
      BY SetPlaces, Places
    <3>3. Timed(f.tm, Go("loop"), crashes, steps, restarts)
      BY <2>2, <3>1, <3>2 DEF Timed
    <3>4. QED
      BY <2>2, <3>1, <3>3
  <2>3. QED
    BY <2>1, <2>2
<1>3. ASSUME NEW s \in restarts, NEW r \in Ranks, s.run = crashes
      PROVE  StartedFrom(tm'[r], at'[r], s.tm)
  <2>1. StartedFrom(tm[r], at[r], s.tm)
    BY <1>3 DEF TimesInv
  <2>2. QED
    BY <2>1 DEF StartedFrom
<1>4. QED
  BY <1>1, <1>2, <1>3 DEF TimesInv

LEMMA TimesCollective ==
  ASSUME TimesInv, TypeOK',
         \/ \E k, changes, costed : InitializeRound(k, changes, costed)
         \/ \E moved : Refine(moved)
         \/ \E why, balanced : GatherCosts(why, balanced)
         \/ Redistribute
         \/ ExchangeSignals
  PROVE  TimesInv'
<1> USE DEF runVars, historyVars
<1>1. /\ tm' = tm /\ steps' = steps /\ restarts' = restarts /\ crashes' = crashes /\ disk' = disk
  BY DEF InitializeRound, Refine, GatherCosts, Redistribute, ExchangeSignals
<1>2. ASSUME NEW k, NEW changes, NEW costed, InitializeRound(k, changes, costed), NEW r \in Ranks
      PROVE  Unset(at[r]) /\ Unset(at'[r]) /\ at'[r] # Go("step")
  BY <1>2, UnsetPlaces, Places DEF InitializeRound, AtStart, AllInside, Inside
<1>3. ASSUME NEW moved, Refine(moved), NEW r \in Ranks
      PROVE  Unset(at[r]) /\ Unset(at'[r]) /\ at'[r] # Go("step")
  BY <1>3, UnsetPlaces, Places DEF Refine, AllInside, Inside
<1>4. ASSUME NEW why, NEW balanced, GatherCosts(why, balanced), NEW r \in Ranks
      PROVE  Unset(at[r]) /\ Unset(at'[r]) /\ at'[r] # Go("step")
  BY <1>4, UnsetPlaces, Places DEF GatherCosts, AllInside, Inside
<1>5. ASSUME Redistribute, NEW r \in Ranks
      PROVE  Unset(at[r]) /\ Unset(at'[r]) /\ at'[r] # Go("step")
  BY <1>5, UnsetPlaces, Places DEF Redistribute, AllInside, Inside
<1>6. ASSUME ExchangeSignals, NEW r \in Ranks
      PROVE  ~Unset(at[r]) /\ ~Unset(at'[r]) /\ at'[r] # Go("step")
  BY <1>6, SetPlaces, Places DEF ExchangeSignals, AllInside, Inside
<1>7. \A r \in Ranks : (Unset(at[r]) <=> Unset(at'[r])) /\ at'[r] # Go("step")
  BY <1>2, <1>3, <1>4, <1>5, <1>6
<1>8. QED
  BY <1>1, <1>7, SameTimes

LEMMA TimesWriteOutput ==
  ASSUME TimesInv, TypeOK', NEW c, WriteOutput(c)
  PROVE  TimesInv'
<1>1. c[5] \in {"begin", "loop", "done"} /\ AllInside(c) /\ c[1] = "write"
  BY CallPlace DEF WriteOutput, TimesInv
<1>2. \A r \in Ranks : ~Unset(at[r])
  BY <1>1, SetPlaces DEF AllInside, Inside
<1>3. \A r \in Ranks : ~Unset(at'[r]) /\ at'[r] # Go("step")
  BY <1>1, SetOutputs DEF WriteOutput
<1>4. ASSUME NEW f \in disk'
      PROVE  f \in disk \/ (f.tm = tm[Root] /\ f.run = crashes)
  <2>1. disk' \in {disk, disk \cup {[tm |-> tm[Root], params |-> params'[Root], run |-> crashes]}}
    BY DEF WriteOutput
  <2>2. QED
    BY <2>1
<1>5. tm' = tm /\ steps' = steps /\ restarts' = restarts /\ crashes' = crashes
  BY DEF WriteOutput
<1>6. QED
  BY <1>2, <1>3, <1>4, <1>5, SameTimes, DriverAssumption

LEMMA TimesLocal ==
  ASSUME TimesInv, TypeOK', NEW r \in Ranks,
         TestLoop(r) \/ Balance(r) \/ ReadFlags(r) \/ AfterLoop(r) \/ Signal(r)
  PROVE  TimesInv'
<1> USE DEF runVars, historyVars
<1>1. /\ tm' = tm /\ steps' = steps /\ restarts' = restarts /\ crashes' = crashes /\ disk' = disk
      /\ \A q \in Ranks \ {r} : at'[q] = at[q]
  BY DEF TestLoop, Balance, ReadFlags, AfterLoop, Signal, TimesInv, TypeOK
<1>2. CASE TestLoop(r)
  <2>1. ~Unset(at[r])
    BY <1>2, SetPlaces DEF TestLoop
  <2>2. ~Unset(at'[r]) /\ (at'[r] = Go("step") => KeepGoing(tm[r]))
    BY <1>2, SetPlaces, Places DEF TestLoop, LoopHead, TimesInv, TypeOK
  <2>3. QED
    BY <1>1, <2>1, <2>2, SameTimes
<1>3. CASE Balance(r)
  <2>1. at[r] = Go("balance") /\ at'[r] \in {Wait(<<"costs", "interval">>), Wait(<<"dt", "cycle">>)}
    BY <1>3 DEF Balance, TimesInv, TypeOK
  <2>2. Unset(at[r]) /\ Unset(at'[r]) /\ at'[r] # Go("step")
    BY <2>1, UnsetPlaces, Places
  <2>3. QED
    BY <1>1, <2>2, SameTimes
<1>4. CASE ReadFlags(r)
  <2>1. ~Unset(at[r])
    BY <1>4, SetPlaces DEF ReadFlags
  <2>2. ~Unset(at'[r]) /\ at'[r] # Go("step")
    <3>1. \E q : at'[r] \in {Go("after"), Go("loop"), NextOutput(r, 1, tm[r], params[r], q, "loop")}
      BY <1>4 DEF ReadFlags, TimesInv, TypeOK
    <3>2. \A l \in {"after", "loop"} : Go(l) # Go("step") /\ ~Unset(Go(l))
      BY Places, SetPlaces
    <3>3. QED
      BY <3>1, <3>2, SetOutputs
  <2>3. QED
    BY <1>1, <2>1, <2>2, SameTimes
<1>5. CASE AfterLoop(r)
  <2>1. ~Unset(at[r])
    BY <1>5, SetPlaces DEF AfterLoop
  <2>2. ~Unset(at'[r]) /\ at'[r] # Go("step")
    BY <1>5, SetOutputs DEF AfterLoop, TimesInv, TypeOK
  <2>3. QED
    BY <1>1, <2>1, <2>2, SameTimes
<1>6. CASE Signal(r)
  BY <1>1, <1>6, SameTimes DEF Signal
<1>7. QED
  BY <1>2, <1>3, <1>4, <1>5, <1>6

(* The step of the cycle is set. *)
LEMMA TimesTimeStep ==
  ASSUME StepsPositive, TimesInv, TypeOK', NEW where, TimeStep(where)
  PROVE  TimesInv'
<1> USE DEF runVars, historyVars
<1>1. Tlim \in Nat /\ disk' = disk /\ steps' = steps /\ restarts' = restarts /\ crashes' = crashes
  BY DEF TimeStep, StepsPositive
<1>2. ASSUME NEW r \in Ranks
      PROVE  /\ tm'[r].time = tm[r].time /\ tm'[r].ncycle = tm[r].ncycle /\ tm'[r].dt = StepAt(tm[r])
             /\ ~Unset(at'[r]) /\ at'[r] # Go("step") /\ Unset(at[r])
             /\ Wanted(tm'[r]) = Wanted(tm[r])
  <2>1. tm'[r] = [tm[r] EXCEPT !.dt = StepAt(tm[r])]
    BY DEF TimeStep, StepAt
  <2>2. /\ tm'[r].time = tm[r].time /\ tm'[r].ncycle = tm[r].ncycle /\ tm'[r].dt = StepAt(tm[r])
    BY <2>1 DEF TimesInv, TypeOK, Shaped
  <2>3. ~Unset(at'[r]) /\ at'[r] # Go("step")
    BY SetPlaces, SetOutputs, Places DEF TimeStep
  <2>4. Unset(at[r])
    BY UnsetPlaces DEF TimeStep, AllInside, Inside
  <2>5. Wanted(tm'[r]) = Wanted(tm[r])
    BY <2>2, WantedSame
  <2>6. QED
    BY <2>2, <2>3, <2>4, <2>5
<1>3. ASSUME NEW r \in Ranks
      PROVE  /\ Timed(tm[r], at[r], crashes, steps, restarts)
             /\ tm[r].time \in 0 .. Tlim /\ tm[r].dt \in Nat \ {0} /\ Allowed(tm[r]) \in Nat \ {0}
  BY AllowedPositive DEF TimesInv, Timed
<1>4. ASSUME NEW r \in Ranks
      PROVE  Timed(tm'[r], at'[r], crashes', steps', restarts')
  <2>1. StepAt(tm[r]) \in Nat \ {0} /\ (tm[r].time < Tlim => StepAt(tm[r]) <= Wanted(tm[r]))
    BY <1>1, <1>3, StepAtFits
  <2>2. QED
    BY <1>1, <1>2, <1>3, <2>1 DEF Timed
<1>5. ASSUME NEW s \in restarts, s.run = crashes, NEW r \in Ranks
      PROVE  StartedFrom(tm'[r], at'[r], s.tm)
  <2>1. StartedFrom(tm[r], at[r], s.tm)
    BY <1>5 DEF TimesInv
  <2>2. /\ s.tm.ncycle \in Nat /\ s.tm.dt \in Nat \ {0}
        /\ s.tm.time < Tlim => s.tm.dt <= Wanted(s.tm)
    BY DEF TimesInv
  <2>3. ASSUME s.tm.ncycle = tm[r].ncycle, tm[r].time < Tlim
        PROVE  s.tm.dt <= StepAt(tm[r]) /\ StepAt(tm[r]) <= 2 * s.tm.dt
    <3>1. tm[r].time = s.tm.time /\ tm[r].dt = s.tm.dt
      BY <1>2, <2>1, <2>3 DEF StartedFrom
    <3>2. Wanted(tm[r]) = Wanted(s.tm)
      BY <2>3, <3>1, WantedSame
    <3>3. tm[r].dt <= Wanted(tm[r])
      BY <2>2, <2>3, <3>1, <3>2
    <3>4. QED
      BY <1>1, <1>3, <2>3, <3>1, <3>3, StepAtFits
  <2>4. QED
    BY <1>2, <2>1, <2>3 DEF StartedFrom
<1>6. QED
  BY <1>1, <1>4, <1>5 DEF TimesInv

(* A step is taken: it is derived, and so is the SimTime after it. *)
LEMMA TimesStep ==
  ASSUME StepsPositive, TimesInv, TypeOK', NEW r \in Ranks, NEW costed, Step(r, costed)
  PROVE  TimesInv'
<1> USE DEF runVars
<1> DEFINE t == tm[r]
           p == [run |-> crashes, cycle |-> t.ncycle, time |-> t.time, dt |-> t.dt]
<1>1. /\ at[r] = Go("step") /\ ~Unset(at[r]) /\ steps' = steps \cup {p} /\ disk' = disk
      /\ restarts' = restarts /\ crashes' = crashes /\ crashes \in Nat /\ Tlim \in Nat /\ Nlim \in Int
      /\ p.run = crashes /\ p.cycle = t.ncycle /\ p.time = t.time /\ p.dt = t.dt
  BY SetPlaces DEF Step, TimesInv, StepsPositive
<1>2. Timed(t, at[r], crashes, steps, restarts)
  BY DEF TimesInv
<1>3. /\ t.ncycle \in Cycles /\ t.time \in 0 .. Tlim /\ t.dt \in Nat \ {0} /\ KeepGoing(t)
      /\ t.time < Tlim /\ t.dt <= Wanted(t) /\ Allowed(t) \in Nat \ {0}
  BY <1>1, <1>2, AllowedPositive DEF Timed, KeepGoing
<1>4. t.ncycle \in Nat /\ t.ncycle + 1 \in Cycles /\ t.time + t.dt \in 0 .. Tlim
  <2>1. Wanted(t) <= Tlim - t.time /\ Wanted(t) \in Int
    BY <1>1, <1>3, StepAtFits
  <2>2. t.time + t.dt \in 0 .. Tlim
    BY <1>1, <1>3, <2>1
  <2>3. t.ncycle \in Nat /\ t.ncycle + 1 \in Cycles
    BY <1>1, <1>3 DEF KeepGoing, Cycles
  <2>4. QED
    BY <2>2, <2>3
<1>5. /\ tm'[r] = After(p) /\ Unset(at'[r]) /\ at'[r] # Go("step")
      /\ \A q \in Ranks \ {r} : at'[q] = at[q] /\ tm'[q] = tm[q]
  <2>1. at'[r] \in {Wait(<<"refine">>), Go("balance")}
    BY DEF Step, TimesInv, TypeOK
  <2>2. /\ tm'[r] = [tm[r] EXCEPT !.time = tm[r].time + tm[r].dt, !.ncycle = tm[r].ncycle + 1]
        /\ \A q \in Ranks \ {r} : at'[q] = at[q] /\ tm'[q] = tm[q]
    BY DEF Step, TimesInv, TypeOK
  <2>3. tm[r] = [time |-> tm[r].time, ncycle |-> tm[r].ncycle, dt |-> tm[r].dt]
    BY DEF TimesInv, TypeOK, Shaped
  <2>4. tm'[r] = After(p)
    BY <2>2, <2>3 DEF After
  <2>5. QED
    BY <2>1, <2>2, <2>4, UnsetPlaces, Places
<1> HIDE DEF p
<1>6. /\ After(p).time = t.time + t.dt /\ After(p).ncycle = t.ncycle + 1 /\ After(p).dt = t.dt
  BY <1>1 DEF After
<1>7. Timed(tm'[r], at'[r], crashes', steps', restarts')
  <2>1. After(p) \in Reached(steps', crashes)
    BY <1>1 DEF Reached
  <2>2. Derived(After(p).time, After(p).ncycle, StepAt(After(p)), crashes, steps')
    BY <2>1 DEF Derived
  <2>3. QED
    BY <1>1, <1>3, <1>4, <1>5, <1>6, <2>2 DEF Timed
<1>8. ASSUME NEW q \in Ranks \ {r}
      PROVE  Timed(tm'[q], at'[q], crashes', steps', restarts')
  <2>1. Timed(tm[q], at[q], crashes, steps, restarts)
    BY DEF TimesInv
  <2>2. Timed(tm[q], at[q], crashes, steps', restarts)
    BY <1>1, <2>1, TimedStays
  <2>3. QED
    BY <1>1, <1>5, <2>2
<1>9. ASSUME NEW f \in disk'
      PROVE  f.run \in Nat /\ f.run <= crashes' /\ Timed(f.tm, Go("loop"), f.run, steps', restarts')
  <2>1. f.run \in Nat /\ f.run <= crashes /\ Timed(f.tm, Go("loop"), f.run, steps, restarts)
    BY <1>1 DEF TimesInv
  <2>2. QED
    BY <1>1, <2>1, TimedStays
<1>10. Taken(p, steps, restarts)
  BY <1>1, <1>2, <1>3, <1>4 DEF Timed, Taken
<1>11. ASSUME NEW q \in steps'
       PROVE  Taken(q, steps', restarts') /\ q.run <= crashes'
  <2>1. Taken(q, steps, restarts) /\ q.run <= crashes
    BY <1>1, <1>10 DEF TimesInv
  <2>2. QED
    BY <1>1, <2>1, TakenStays
<1>12. ASSUME NEW s \in restarts
       PROVE  /\ s.run \in Nat /\ s.tm.ncycle \in Nat
              /\ s.run = crashes => \A q \in Ranks : StartedFrom(tm'[q], at'[q], s.tm)
  <2>1. /\ s.run \in Nat /\ s.tm.ncycle \in Nat
        /\ s.run = crashes => \A q \in Ranks : StartedFrom(tm[q], at[q], s.tm)
    BY DEF TimesInv
  <2>2. s.run = crashes => StartedFrom(tm'[r], at'[r], s.tm)
    BY <1>4, <1>5, <1>6, <2>1 DEF StartedFrom
  <2>3. QED
    BY <1>5, <2>1, <2>2
<1>13. Agree(steps', restarts')
  BY <1>1, <1>10, <1>12, AgreeGrows DEF TimesInv
<1>14. FirstSteps(steps', restarts')
  <2>1. ASSUME NEW s \in restarts, s.run = p.run, s.tm.ncycle = p.cycle
        PROVE  p.time = s.tm.time /\ p.dt >= s.tm.dt /\ p.dt <= 2 * s.tm.dt
    <3>1. StartedFrom(t, at[r], s.tm) /\ s.tm.dt \in Nat \ {0}
      BY <1>1, <2>1 DEF TimesInv
    <3>2. QED
      BY <1>1, <1>3, <2>1, <3>1 DEF StartedFrom
  <2>2. QED
    BY <1>1, <2>1 DEF TimesInv, FirstSteps
<1>15. QED
  BY <1>1, <1>7, <1>8, <1>9, <1>11, <1>12, <1>13, <1>14 DEF TimesInv

(* A run that is started again from a file whose step nothing had limited  *)
(* sets that step once more.                                               *)
LEMMA TimesRestart ==
  ASSUME StepsPositive, TimesInv, TypeOK', NEW f \in disk, Restart(f)
  PROVE  TimesInv'
<1> DEFINE k == crashes + 1
           s == [run |-> k, tm |-> f.tm]
<1>1. /\ crashes' = k /\ k \in Nat /\ crashes \in Nat /\ Tlim \in Nat
      /\ restarts' = restarts \cup {s} /\ steps' = steps /\ disk' = disk
      /\ s.run = k /\ s.tm = f.tm
      /\ \A r \in Ranks : tm'[r] = f.tm /\ Unset(at'[r]) /\ at'[r] # Go("step")
  BY UnsetPlaces, Places DEF Restart, Restored, AtStart, TimesInv, StepsPositive
<1>2. /\ f.run \in Nat /\ f.run <= crashes /\ Timed(f.tm, Go("loop"), f.run, steps, restarts)
      /\ ~Unset(Go("loop"))
  BY SetPlaces DEF TimesInv
<1>3. /\ f.tm.ncycle \in Cycles /\ f.tm.ncycle \in Nat /\ f.tm.time \in 0 .. Tlim /\ f.tm.dt \in Nat \ {0}
      /\ f.tm.time < Tlim => f.tm.dt <= Wanted(f.tm)
      /\ Allowed(f.tm) \in Nat \ {0}
  BY <1>2, AllowedPositive DEF Timed, Cycles
<1> HIDE DEF s, k
<1>4. ASSUME f.tm.time < Tlim, Clean(restarts', f.tm.ncycle, k)
      PROVE  Derived(f.tm.time, f.tm.ncycle, StepAt(f.tm), k, steps)
  <2>1. f.run <= k
    BY <1>1, <1>2 DEF k
  <2>2. ~Eased(f.tm)
    <3>1. s \in restarts' /\ s.run <= k /\ s.tm.ncycle <= f.tm.ncycle
      BY <1>1, <1>3
    <3>2. QED
      BY <1>1, <1>4, <3>1 DEF Clean
  <2>3. Clean(restarts, f.tm.ncycle, f.run)
    <3>1. ASSUME NEW e \in restarts, e.run <= f.run
          PROVE  e \in restarts' /\ e.run <= k
      <4>1. e.run \in Nat
        BY DEF TimesInv
      <4>2. QED
        BY <1>1, <1>2, <2>1, <3>1, <4>1
    <3>2. QED
      BY <1>4, <3>1 DEF Clean
  <2>4. Derived(f.tm.time, f.tm.ncycle, f.tm.dt, f.run, steps)
    BY <1>2, <1>4, <2>3 DEF Timed
  <2>5. f.tm.dt = StepAt(f.tm)
    <3>1. f.tm.dt >= Wanted(f.tm) /\ Wanted(f.tm) \in Int /\ StepAt(f.tm) = Wanted(f.tm)
      BY <1>1, <1>3, <1>4, <2>2, StepAtFits DEF Eased
    <3>2. QED
      BY <1>3, <1>4, <3>1
  <2>6. Reached(steps, f.run) \subseteq Reached(steps, k)
    <3>1. ASSUME NEW p \in steps, p.run <= f.run
          PROVE  p.run <= k
      <4>1. p.run \in Nat
        BY DEF TimesInv, Taken
      <4>2. QED
        BY <1>1, <1>2, <2>1, <3>1, <4>1
    <3>2. QED
      BY <3>1 DEF Reached
  <2>7. QED
    BY <2>4, <2>5, <2>6 DEF Derived
<1>5. ASSUME NEW r \in Ranks
      PROVE  Timed(tm'[r], at'[r], crashes', steps', restarts')
  BY <1>1, <1>3, <1>4 DEF Timed
<1>6. ASSUME NEW d \in disk'
      PROVE  d.run \in Nat /\ d.run <= crashes' /\ Timed(d.tm, Go("loop"), d.run, steps', restarts')
  <2>1. d.run \in Nat /\ d.run <= crashes /\ Timed(d.tm, Go("loop"), d.run, steps, restarts)
    BY <1>1 DEF TimesInv
  <2>2. Timed(d.tm, Go("loop"), d.run, steps', restarts')
    BY <1>1, <2>1, TimedStays
  <2>3. QED
    BY <1>1, <2>1, <2>2 DEF k
<1>7. ASSUME NEW p \in steps'
      PROVE  Taken(p, steps', restarts') /\ p.run \in Nat /\ p.run <= crashes /\ p.run <= crashes'
  <2>1. Taken(p, steps, restarts) /\ p.run <= crashes /\ p.run \in Nat
    BY <1>1 DEF TimesInv, Taken
  <2>2. Taken(p, steps', restarts')
    BY <1>1, <2>1, TakenStays
  <2>3. QED
    BY <1>1, <2>1, <2>2 DEF k
<1>8. ASSUME NEW e \in restarts'
      PROVE  /\ e.run \in Nat /\ e.run <= crashes'
             /\ e.tm.ncycle \in Nat /\ e.tm.dt \in Nat \ {0}
             /\ e.tm.time < Tlim => e.tm.dt <= Wanted(e.tm)
             /\ e.run = crashes' => \A r \in Ranks : StartedFrom(tm'[r], at'[r], e.tm)
  <2>1. CASE e \in restarts
    <3>1. /\ e.run \in Nat /\ e.run <= crashes /\ e.tm.ncycle \in Nat /\ e.tm.dt \in Nat \ {0}
          /\ e.tm.time < Tlim => e.tm.dt <= Wanted(e.tm)
      BY <2>1 DEF TimesInv
    <3>2. e.run <= crashes' /\ e.run # crashes'
      BY <1>1, <3>1 DEF k
    <3>3. QED
      BY <3>1, <3>2
  <2>2. CASE e = s
    <3>1. \A r \in Ranks : StartedFrom(tm'[r], at'[r], e.tm)
      BY <1>1, <1>3, <2>2 DEF StartedFrom
    <3>2. QED
      BY <1>1, <1>3, <2>2, <3>1
  <2>3. QED
    BY <1>1, <2>1, <2>2
<1>9. Agree(steps', restarts')
  BY <1>1 DEF TimesInv, Agree
<1>10. FirstSteps(steps', restarts')
  <2>1. ASSUME NEW p \in steps
        PROVE  p.run # k
    BY <1>1, <1>7 DEF k
  <2>2. QED
    BY <1>1, <2>1 DEF TimesInv, FirstSteps
<1>11. QED
  BY <1>1, <1>5, <1>6, <1>7, <1>8, <1>9, <1>10 DEF TimesInv

LEMMA TimesInit ==
  ASSUME StepsPositive, Init
  PROVE  TimesInv
<1>1. 0 \in Cycles
  BY DEF Cycles, StepsPositive
<1>2. ASSUME NEW r \in Ranks
      PROVE  Timed(tm[r], at[r], crashes, steps, restarts)
  <2>1. tm[r] = First /\ at[r] = AtInitialize /\ Tlim \in Nat /\ FirstDt \in Nat \ {0}
    BY DEF Init, First, StepsPositive
  <2>2. Unset(at[r]) /\ at[r] # Go("step")
    BY <2>1, UnsetPlaces, Places DEF AtInitialize, AtStart
  <2>3. First.time = 0 /\ First.ncycle = 0 /\ First.dt = FirstDt
    BY DEF First
  <2>4. Derived(First.time, First.ncycle, StepAt(First), crashes, steps)
    BY DEF Derived, Reached
  <2>5. QED
    BY <1>1, <2>1, <2>2, <2>3, <2>4 DEF Timed
<1>3. disk = {} /\ steps = {} /\ restarts = {} /\ crashes = 0
  BY DEF Init
<1>4. QED
  BY <1>2, <1>3, TypeStart DEF TimesInv, Agree, FirstSteps

LEMMA TimesNext ==
  ASSUME StepsPositive, TimesInv, [Next]_vars
  PROVE  TimesInv'
<1>1. TypeOK'
  BY TypeStep DEF TimesInv
<1>2. CASE Program
  <2>1. ASSUME NEW r \in Ranks, TestLoop(r) \/ Balance(r) \/ ReadFlags(r) \/ AfterLoop(r)
        PROVE  TimesInv'
    BY <1>1, <2>1, TimesLocal
  <2>2. ASSUME NEW r \in Ranks, NEW costed \in BOOLEAN, Step(r, costed)
        PROVE  TimesInv'
    BY <1>1, <2>2, TimesStep
  <2>3. QED
    BY <1>1, <1>2, <2>1, <2>2, TimesTimeStep, TimesCollective, TimesWriteOutput DEF Program
<1>3. ASSUME NEW f \in disk, Restart(f)
      PROVE  TimesInv'
  BY <1>1, <1>3, TimesRestart
<1>4. ASSUME NEW r \in Ranks, Signal(r)
      PROVE  TimesInv'
  BY <1>1, <1>4, TimesLocal
<1>5. CASE OutputNow \/ UNCHANGED vars
  BY <1>1, <1>5, SameTimes DEF OutputNow, vars, historyVars
<1>6. QED
  BY <1>2, <1>3, <1>4, <1>5 DEF Next

(***************************************************************************)
(* For any number of ranks, any outputs, limits and restarts, whatever the *)
(* blocks allow and whatever signals arrive: two runs take the same step   *)
(* at the same time in a cycle that both pass, unless one of them had been *)
(* started again, by then, from a file whose step the factor of two had    *)
(* limited.  The first step of a restarted run is never smaller than the   *)
(* one of the file and at most twice that.                                 *)
(***************************************************************************)
THEOREM RestartsReproduce ==
  ASSUME StepsPositive
  PROVE  Spec => []RestartReproduces
<1>1. Init => TimesInv
  BY TimesInit
<1>2. TimesInv /\ [Next]_vars => TimesInv'
  BY TimesNext
<1>3. TimesInv => RestartReproduces
  BY Zenon DEF TimesInv, RestartReproduces, Agree, FirstSteps
<1>4. QED
  BY <1>1, <1>2, <1>3, PTL DEF Spec

(***************************************************************************)
(* The numbers of the output files.                                        *)
(***************************************************************************)
NumberedTypes == {"hdf5", "rst", "histogram"}

(* a file of output o with a number can still be written in this cycle *)
Open(a, o) ==
  \/ Unset(a) \/ a = Wait(<<"signals">>) \/ a = Go("flags")
  \/ a = Wait(a[2]) /\ a[2][1] = "write" /\ a[2][3] = "none" /\ a[2][2] <= o

(* a rank waits to write an output that is due, from o on *)
Scheduled(a, o, t, p, s) ==
  /\ a = Wait(a[2]) /\ a[2][1] = "write" /\ a[2][3] = s
  /\ a[2][2] \in OutIds /\ a[2][2] >= o /\ Due(a[2][2], t, p, s)

(* MakeOutputs goes to the first output that is due. *)
LEMMA NextOutputFirst ==
  ASSUME NEW r, NEW o, NEW t, NEW p, NEW s, NEW after
  PROVE  \/ NextOutput(r, o, t, p, s, after) = Go(after)
         \/ Scheduled(NextOutput(r, o, t, p, s, after), o, t, p, s)
<1> DEFINE due == {i \in OutIds : i >= o /\ Due(i, t, p, s)}
           first == CHOOSE j \in due : \A k \in due : j <= k
           number == IF s = "none" THEN p[first].number ELSE 0
           call == <<"write", first, s, number, after>>
<1>1. NextOutput(r, o, t, p, s, after) = IF due = {} THEN Go(after) ELSE Wait(call)
  BY Zenon DEF NextOutput
<1>2. ASSUME due # {}
      PROVE  first \in due
  <2>1. due \subseteq Nat
    BY OutputsAssumption DEF OutIds
  <2> HIDE DEF due
  <2>2. \E j \in due : \A k \in due : j <= k
    BY <1>2, <2>1, LeastNatural
  <2>3. QED
    BY <2>2
<1>3. ASSUME due # {}
      PROVE  first \in OutIds /\ first >= o /\ Due(first, t, p, s)
  BY <1>2, <1>3
<1> HIDE DEF due, first, number
<1>4. Wait(call)[2] = call /\ call[1] = "write" /\ call[2] = first /\ call[3] = s
  BY DEF Wait
<1> HIDE DEF call
<1>5. ASSUME due # {}
      PROVE  Scheduled(Wait(call), o, t, p, s)
  BY <1>3, <1>4, <1>5 DEF Scheduled
<1>6. QED
  BY <1>1, <1>5

LEMMA OpenPlaces ==
  /\ \A l, o : l \notin {"flags", "balance"} => ~Open(Go(l), o)
  /\ \A a, o, i, t, p, s : Scheduled(a, i, t, p, s) /\ Open(a, o) => s = "none" /\ a[2][2] <= o
<1>1. \A l : l \notin {"flags", "balance"} => ~Unset(Go(l)) /\ Go(l) # Go("flags")
  BY SetPlaces, Places
<1>2. \A l, c : Go(l) # Wait(c)
  BY Places
<1>3. <<"signals">>[1] = "signals" /\ \A c : Wait(c)[2] = c
  BY DEF Wait
<1>4. ASSUME NEW a, NEW o, NEW i, NEW t, NEW p, NEW s, Scheduled(a, i, t, p, s), Open(a, o)
      PROVE  s = "none" /\ a[2][2] <= o
  <2>1. a = Wait(a[2]) /\ a[2][1] = "write" /\ a[2][3] = s
    BY <1>4 DEF Scheduled
  <2>2. ~Unset(a) /\ a # Go("flags") /\ a # Wait(<<"signals">>)
    BY <1>2, <1>3, <2>1, SetPlaces
  <2>3. QED
    BY <1>4, <2>1, <2>2 DEF Open
<1>5. QED
  BY <1>1, <1>2, <1>4 DEF Open

(* what the parameters of the outputs say is consistent, and counts files   *)
(* that were written                                                        *)
ParamsFit(p) ==
  /\ p \in [OutIds -> [next : Int, number : Nat]]
  /\ \A o \in OutIds : p[o].next = p[o].number * OutputList[o].dt

Complete(p, files) ==
  \A o \in OutIds : OutputList[o].type \in NumberedTypes =>
    \A n \in Nat : n < p[o].number => \E f \in files : f.out = o /\ f.number = n

(* a file that was written in this run is counted *)
Counted(e) ==
  /\ e.number < params[Root][e.out].number
  /\ e.cycle <= tm[Root].ncycle
  /\ Open(at[Root], e.out) => e.cycle < tm[Root].ncycle

Recorded(e) ==
  /\ e.out \in OutIds /\ OutputList[e.out].type \in NumberedTypes
  /\ e.number \in Nat /\ e.cycle \in Nat /\ e.run \in Nat /\ e.run <= crashes
  /\ \A n \in 0 .. e.number : \E f \in numbered : f.out = e.out /\ f.number = n
  /\ e.time < Tlim => e.time >= e.number * OutputList[e.out].dt
  /\ e.run = crashes => Counted(e)

(* A restart file that was written in this run comes last in its cycle. *)
LastOfCycle(d) ==
  /\ d.tm.ncycle <= tm[Root].ncycle
  /\ \A o \in OutIds : Open(at[Root], o) => d.tm.ncycle < tm[Root].ncycle

Filed(d) ==
  /\ ParamsFit(d.params) /\ Complete(d.params, numbered)
  /\ d.run \in Nat /\ d.run <= crashes
  /\ \A e \in numbered : e.run = d.run /\ e.cycle <= d.tm.ncycle => e.number < d.params[e.out].number
  /\ d.run = crashes => LastOfCycle(d)

Ordered ==
  \A e, f \in numbered : e.out = f.out /\ e.run = f.run => (e.cycle < f.cycle <=> e.number < f.number)

CallFits ==
  at[Root][1] = "call" /\ at[Root][2][1] = "write" =>
    Scheduled(at[Root], 1, tm[Root], params[Root], signal[Root])

FirstNumbers == \A o \in OutIds : tm[Root].ncycle = 0 /\ Open(at[Root], o) => params[Root][o].number = 0

NumberInv ==
  /\ TimesInv
  /\ crashes \in Nat
  /\ ParamsFit(params[Root]) /\ Complete(params[Root], numbered)
  /\ CallFits
  /\ FirstNumbers
  /\ \A e \in numbered : Recorded(e)
  /\ Ordered
  /\ \A d \in disk : Filed(d)

LEMMA NumbersFollow == NumberInv => OutputNumbering
BY DEF OutputNumbering, NumberInv, Recorded, Filed, Ordered

(* Steps that write nothing and leave the parameters alone. *)
LEMMA SameNumbers ==
  ASSUME NumberInv, TimesInv', CallFits',
         numbered' = numbered, disk' = disk, crashes' = crashes,
         params'[Root] = params[Root], tm'[Root].ncycle = tm[Root].ncycle,
         \A o \in OutIds : Open(at'[Root], o) => Open(at[Root], o)
  PROVE  NumberInv'
<1>1. ASSUME NEW e \in numbered
      PROVE  Recorded(e)'
  <2>1. Recorded(e)
    BY DEF NumberInv
  <2>2. e.run = crashes => Counted(e)'
    BY <2>1 DEF Counted, Recorded
  <2>3. QED
    BY <2>1, <2>2 DEF Recorded
<1>2. ASSUME NEW d \in disk
      PROVE  Filed(d)'
  BY DEF NumberInv, Filed, LastOfCycle
<1>3. FirstNumbers'
  BY DEF NumberInv, FirstNumbers
<1>4. Ordered'
  BY DEF NumberInv, Ordered
<1>5. QED
  BY <1>1, <1>2, <1>3, <1>4 DEF NumberInv

LEMMA NotWriting ==
  /\ \A l : Go(l)[1] # "call"
  /\ \A c : Wait(c)[2] = c
  /\ \A w : <<"init", w>>[1] # "write" /\ <<"dt", w>>[1] # "write" /\ <<"costs", w>>[1] # "write"
  /\ <<"signals">>[1] # "write" /\ <<"refine">>[1] # "write" /\ <<"redistribute">>[1] # "write"
BY DEF Go, Wait

LEMMA UnsetIsOpen ==
  ASSUME NEW a, NEW o, Unset(a) \/ a = Wait(<<"signals">>) \/ a = Go("flags")
  PROVE  Open(a, o)
BY DEF Open

LEMMA NumbersCollective ==
  ASSUME NumberInv, TimesInv',
         \/ \E k, changes, costed : InitializeRound(k, changes, costed)
         \/ \E moved : Refine(moved)
         \/ \E why, balanced : GatherCosts(why, balanced)
         \/ Redistribute
         \/ ExchangeSignals
  PROVE  NumberInv'
<1> USE DEF runVars, historyVars
<1>1. /\ Unset(at[Root]) \/ at[Root] = Wait(<<"signals">>)
      /\ \/ \E w : at'[Root] \in {Wait(<<"init", w>>), Wait(<<"dt", w>>), Wait(<<"costs", w>>)}
         \/ at'[Root] \in {Wait(<<"redistribute">>), Go("balance"), Go("flags")}
  <2>1. ASSUME NEW k, NEW changes, NEW costed, InitializeRound(k, changes, costed)
        PROVE  Unset(at[Root]) /\ \E w : at'[Root] \in {Wait(<<"init", w>>), Wait(<<"dt", w>>)}
    BY <2>1, UnsetPlaces, DriverAssumption DEF InitializeRound, AtStart, AllInside, Inside
  <2>2. ASSUME NEW moved, Refine(moved)
        PROVE  /\ Unset(at[Root])
               /\ \/ at'[Root] \in {Wait(<<"redistribute">>), Go("balance")}
                  \/ \E w : at'[Root] = Wait(<<"costs", w>>)
    BY <2>2, UnsetPlaces, DriverAssumption DEF Refine, AllInside, Inside
  <2>3. ASSUME NEW why, NEW balanced, GatherCosts(why, balanced)
        PROVE  /\ Unset(at[Root])
               /\ at'[Root] = Wait(<<"redistribute">>) \/ \E w : at'[Root] = Wait(<<"dt", w>>)
    BY <2>3, UnsetPlaces, DriverAssumption DEF GatherCosts, AllInside, Inside
  <2>4. ASSUME Redistribute
        PROVE  Unset(at[Root]) /\ \E w : at'[Root] = Wait(<<"dt", w>>)
    BY <2>4, UnsetPlaces, DriverAssumption DEF Redistribute, AllInside, Inside
  <2>5. ASSUME ExchangeSignals
        PROVE  at[Root] = Wait(<<"signals">>) /\ at'[Root] = Go("flags")
    BY <2>5, DriverAssumption DEF ExchangeSignals, AllInside, Inside
  <2>6. QED
    BY <2>1, <2>2, <2>3, <2>4, <2>5
<1>2. \A o : Open(at[Root], o)
  BY <1>1, UnsetIsOpen
<1>3. CallFits'
  <2>1. \A c : at'[Root] = Wait(c) => at'[Root][2] = c
    BY NotWriting
  <2>2. ~(at'[Root][1] = "call" /\ at'[Root][2][1] = "write")
    <3>1. ASSUME NEW l, at'[Root] = Go(l)
          PROVE  at'[Root][1] # "call"
      BY <3>1, NotWriting
    <3>2. ASSUME NEW c, at'[Root] = Wait(c), c[1] # "write"
          PROVE  at'[Root][2][1] # "write"
      BY <2>1, <3>2
    <3>3. CASE at'[Root] \in {Go("balance"), Go("flags")}
      BY <3>1, <3>3, Zenon
    <3>4. CASE at'[Root] = Wait(<<"redistribute">>)
      BY <3>2, <3>4, NotWriting, Zenon
    <3>5. ASSUME NEW w, at'[Root] \in {Wait(<<"init", w>>), Wait(<<"dt", w>>), Wait(<<"costs", w>>)}
          PROVE  at'[Root][2][1] # "write"
      BY <3>2, <3>5, NotWriting, Zenon
    <3>6. CASE \E w : at'[Root] \in {Wait(<<"init", w>>), Wait(<<"dt", w>>), Wait(<<"costs", w>>)}
      BY <3>5, <3>6
    <3>7. CASE at'[Root] \in {Wait(<<"redistribute">>), Go("balance"), Go("flags")}
      BY <3>3, <3>4, <3>7
    <3>8. QED
      BY <1>1, <3>6, <3>7
  <2>3. QED
    BY <2>2 DEF CallFits
<1>4. /\ numbered' = numbered /\ disk' = disk /\ crashes' = crashes
      /\ params' = params /\ tm' = tm
  BY DEF InitializeRound, Refine, GatherCosts, Redistribute, ExchangeSignals
<1>5. QED
  BY <1>2, <1>3, <1>4, SameNumbers

LEMMA NumbersTimeStep ==
  ASSUME NumberInv, TimesInv', NEW where, TimeStep(where)
  PROVE  NumberInv'
<1> USE DEF runVars, historyVars
<1>1. /\ numbered' = numbered /\ disk' = disk /\ crashes' = crashes
      /\ params' = params /\ signal' = signal
  BY DEF TimeStep
<1>2. /\ Unset(at[Root])
      /\ at'[Root] \in {NextOutput(Root, 1, tm[Root], params[Root], signal[Root], "begin"), Wait(<<"signals">>)}
  BY UnsetPlaces, DriverAssumption DEF TimeStep, AllInside, Inside
<1>3. tm'[Root].ncycle = tm[Root].ncycle /\ tm'[Root].time = tm[Root].time
  <2>1. tm'[Root] = [tm[Root] EXCEPT !.dt = GlobalTimeStep(tm[Root], Allowed(tm[Root]))]
    BY DriverAssumption DEF TimeStep
  <2>2. Shaped(tm[Root])
    BY DriverAssumption DEF NumberInv, TimesInv, TypeOK
  <2>3. QED
    BY <2>1, <2>2 DEF Shaped
<1>4. CallFits'
  <2>1. CASE at'[Root] = Wait(<<"signals">>) \/ at'[Root] = Go("begin")
    <3>1. ~(at'[Root][1] = "call" /\ at'[Root][2][1] = "write")
      BY <2>1, NotWriting
    <3>2. QED
      BY <3>1 DEF CallFits
  <2>2. CASE Scheduled(at'[Root], 1, tm[Root], params[Root], signal[Root])
    <3>1. Scheduled(at'[Root], 1, tm'[Root], params[Root], signal[Root])
      BY <1>3, <2>2 DEF Scheduled, Due
    <3>2. QED
      BY <1>1, <3>1 DEF CallFits
  <2>3. QED
    BY <1>2, <2>1, <2>2, NextOutputFirst
<1>5. \A o : Open(at[Root], o)
  BY <1>2, UnsetIsOpen
<1>6. QED
  BY <1>1, <1>3, <1>4, <1>5, SameNumbers

LEMMA NumbersLocal ==
  ASSUME NumberInv, TimesInv', NEW r \in Ranks,
         TestLoop(r) \/ Balance(r) \/ ReadFlags(r) \/ AfterLoop(r) \/ Signal(r)
  PROVE  NumberInv'
<1> USE DEF runVars, historyVars
<1>1. /\ numbered' = numbered /\ disk' = disk /\ crashes' = crashes
      /\ params' = params /\ tm' = tm
  BY DEF TestLoop, Balance, ReadFlags, AfterLoop, Signal
<1>2. at = [q \in Ranks |-> at[q]] /\ signal \in [Ranks -> {"none", "now", "final"}]
  BY DEF NumberInv, TimesInv, TypeOK
<1>3. CASE at'[Root] = at[Root] /\ signal'[Root] = signal[Root]
  <2>1. CallFits'
    BY <1>1, <1>3 DEF NumberInv, CallFits
  <2>2. QED
    BY <1>1, <1>3, <2>1, SameNumbers
<1>4. CASE ~(at'[Root] = at[Root] /\ signal'[Root] = signal[Root])
  <2>1. r = Root
    BY <1>2, <1>4, DriverAssumption DEF TestLoop, Balance, ReadFlags, AfterLoop, Signal
  <2>2. CASE TestLoop(Root)
    <3>1. at'[Root] \in {Go("step"), Go("after")}
      BY <1>2, <2>2, DriverAssumption DEF TestLoop, LoopHead
    <3>2. CallFits' /\ \A o : ~Open(at'[Root], o)
      BY <3>1, NotWriting, OpenPlaces DEF CallFits
    <3>3. QED
      BY <1>1, <3>2, SameNumbers
  <2>3. CASE Balance(Root)
    <3>1. at[Root] = Go("balance") /\ \E w : at'[Root] \in {Wait(<<"costs", w>>), Wait(<<"dt", w>>)}
      BY <1>2, <2>3, DriverAssumption DEF Balance
    <3>2. ~(at'[Root][1] = "call" /\ at'[Root][2][1] = "write")
      BY <3>1, NotWriting
    <3>3. CallFits' /\ \A o : Open(at[Root], o)
      BY <3>1, <3>2, UnsetPlaces, UnsetIsOpen DEF CallFits
    <3>4. QED
      BY <1>1, <3>3, SameNumbers
  <2>4. CASE ReadFlags(Root)
    <3>1. /\ at[Root] = Go("flags")
          /\ at'[Root] \in {Go("after"), Go("loop"),
                            NextOutput(Root, 1, tm[Root], params[Root], signal'[Root], "loop")}
      BY <1>2, <2>4, DriverAssumption DEF ReadFlags
    <3>2. CallFits'
      <4>1. CASE at'[Root] \in {Go("after"), Go("loop")}
        BY <4>1, NotWriting DEF CallFits
      <4>2. CASE Scheduled(at'[Root], 1, tm[Root], params[Root], signal'[Root])
        BY <1>1, <4>2 DEF CallFits
      <4>3. QED
        BY <3>1, <4>1, <4>2, NextOutputFirst
    <3>3. \A o : Open(at[Root], o)
      BY <3>1, UnsetIsOpen
    <3>4. QED
      BY <1>1, <3>2, <3>3, SameNumbers
  <2>5. CASE AfterLoop(Root)
    <3>1. /\ at'[Root] = NextOutput(Root, 1, tm[Root], params[Root], "final", "done")
          /\ signal'[Root] = "final"
      BY <1>2, <2>5, DriverAssumption DEF AfterLoop
    <3>2. CASE at'[Root] = Go("done")
      <4>1. CallFits' /\ \A o : ~Open(at'[Root], o)
        BY <3>2, NotWriting, OpenPlaces DEF CallFits
      <4>2. QED
        BY <1>1, <4>1, SameNumbers
    <3>3. CASE Scheduled(at'[Root], 1, tm[Root], params[Root], "final")
      <4>1. CallFits'
        BY <1>1, <3>1, <3>3 DEF CallFits
      <4>2. \A o : ~Open(at'[Root], o)
        BY <3>3, OpenPlaces
      <4>3. QED
        BY <1>1, <4>1, <4>2, SameNumbers
    <3>4. QED
      BY <3>1, <3>2, <3>3, NextOutputFirst
  <2>6. QED
    BY <1>4, <2>1, <2>2, <2>3, <2>4, <2>5 DEF Signal
<1>5. QED
  BY <1>3, <1>4

LEMMA NumbersStep ==
  ASSUME NumberInv, TimesInv', NEW r \in Ranks, NEW costed, Step(r, costed)
  PROVE  NumberInv'
<1> USE DEF runVars
<1>1. /\ numbered' = numbered /\ disk' = disk /\ crashes' = crashes
      /\ params' = params /\ signal' = signal
  BY DEF Step
<1>2. CASE r # Root
  <2>1. at'[Root] = at[Root] /\ tm'[Root] = tm[Root]
    BY <1>2, DriverAssumption DEF Step, NumberInv, TimesInv, TypeOK
  <2>2. CallFits'
    BY <1>1, <2>1 DEF NumberInv, CallFits
  <2>3. QED
    BY <1>1, <2>1, <2>2, SameNumbers
<1>3. CASE r = Root
  <2>1. tm[Root].ncycle \in Nat /\ tm'[Root].ncycle = tm[Root].ncycle + 1
    <3>1. tm'[Root] = [tm[Root] EXCEPT !.time = tm[Root].time + tm[Root].dt, !.ncycle = tm[Root].ncycle + 1]
      BY <1>3, DriverAssumption DEF Step, NumberInv, TimesInv, TypeOK
    <3>2. Shaped(tm[Root]) /\ tm[Root].ncycle \in Nat
      BY DriverAssumption DEF NumberInv, TimesInv, TypeOK, Timed, Cycles
    <3>3. QED
      BY <3>1, <3>2 DEF Shaped
  <2>2. CallFits'
    <3>1. at'[Root] \in {Wait(<<"refine">>), Go("balance")}
      BY <1>3, DriverAssumption DEF Step, NumberInv, TimesInv, TypeOK
    <3>2. QED
      BY <3>1, NotWriting DEF CallFits
  <2>3. FirstNumbers'
    BY <2>1 DEF FirstNumbers
  <2>4. ASSUME NEW e \in numbered
        PROVE  Recorded(e)'
    <3>1. Recorded(e) /\ e.cycle \in Nat
      BY DEF NumberInv, Recorded
    <3>2. e.run = crashes => Counted(e)'
      BY <1>1, <2>1, <3>1 DEF Recorded, Counted
    <3>3. QED
      BY <1>1, <3>1, <3>2 DEF Recorded
  <2>5. ASSUME NEW d \in disk
        PROVE  Filed(d)'
    <3>1. Filed(d) /\ d.tm.ncycle \in Nat
      BY DEF NumberInv, TimesInv, Timed, Cycles
    <3>2. d.run = crashes => LastOfCycle(d)'
      BY <2>1, <3>1 DEF Filed, LastOfCycle
    <3>3. QED
      BY <1>1, <3>1, <3>2 DEF Filed
  <2>6. QED
    BY <1>1, <2>2, <2>3, <2>4, <2>5 DEF NumberInv, Ordered
<1>4. QED
  BY <1>2, <1>3

LEMMA NumbersRestart ==
  ASSUME FirstCycle \in Nat \ {0}, NumberInv, TimesInv', NEW f \in disk, Restart(f)
  PROVE  NumberInv'
<1>1. /\ params'[Root] = f.params /\ tm'[Root] = f.tm /\ at'[Root] = AtStart
      /\ crashes' = crashes + 1 /\ numbered' = numbered /\ disk' = disk
  BY DriverAssumption DEF Restart, Restored
<1>2. Filed(f) /\ f.tm.ncycle \in Nat /\ f.tm.ncycle >= FirstCycle /\ crashes \in Nat
  BY DEF NumberInv, TimesInv, Timed, Cycles, Restart
<1>3. CallFits'
  BY <1>1, NotWriting DEF CallFits, AtStart
<1>4. FirstNumbers'
  BY <1>1, <1>2 DEF FirstNumbers
<1>5. ASSUME NEW e \in numbered
      PROVE  Recorded(e)'
  <2>1. Recorded(e)
    BY DEF NumberInv
  <2>2. e.run <= crashes' /\ e.run # crashes'
    BY <1>1, <1>2, <2>1 DEF Recorded
  <2>3. QED
    BY <1>1, <2>1, <2>2 DEF Recorded
<1>6. ASSUME NEW d \in disk
      PROVE  Filed(d)'
  <2>1. Filed(d)
    BY DEF NumberInv
  <2>2. d.run <= crashes' /\ d.run # crashes'
    BY <1>1, <1>2, <2>1 DEF Filed
  <2>3. QED
    BY <1>1, <2>1, <2>2 DEF Filed
<1>7. QED
  BY <1>1, <1>2, <1>3, <1>4, <1>5, <1>6 DEF NumberInv, Ordered, Filed

(* GenerateFilename_ and the writers advance the schedule by one period. *)
LEMMA AdvanceFits ==
  ASSUME NEW p, NEW i \in OutIds, NEW s, ParamsFit(p)
  PROVE  /\ ParamsFit(Advance(p, i, s))
         /\ \A o \in OutIds : o # i => Advance(p, i, s)[o] = p[o]
         /\ Advance(p, i, s)[i].number \in {p[i].number, p[i].number + 1}
         /\ s = "none" => Advance(p, i, s)[i].number = p[i].number + 1
         /\ s # "none" /\ OutputList[i].type \in NumberedTypes => Advance(p, i, s) = p
<1> DEFINE d == OutputList[i].dt
           more == [p EXCEPT ![i] = [next |-> p[i].next + d, number |-> p[i].number + 1]]
<1>1. p[i].next \in Int /\ p[i].number \in Nat /\ d \in Nat /\ p[i].next = p[i].number * d
  BY OutputsAssumption DEF ParamsFit
<1>2. p[i].next + d = (p[i].number + 1) * d
  <2>1. \A x, y \in Nat : (x + 1) * y = x * y + y
    OBVIOUS
  <2>2. QED
    BY <1>1, <2>1
<1>3. more[i] = [next |-> p[i].next + d, number |-> p[i].number + 1] /\ \A o \in OutIds : o # i => more[o] = p[o]
  BY DEF ParamsFit
<1>4. ParamsFit(more)
  <2>1. more \in [OutIds -> [next : Int, number : Nat]]
    BY <1>1 DEF ParamsFit
  <2>2. more[i].next = more[i].number * OutputList[i].dt
    BY <1>2, <1>3
  <2> HIDE DEF more
  <2>3. QED
    BY <1>3, <2>1, <2>2 DEF ParamsFit
<1>5. more[i].number = p[i].number + 1
  BY <1>3
<1>6. Advance(p, i, s) = IF s = "none" \/ OutputList[i].type \in {"hst", "vtk"} THEN more ELSE p
  BY DEF Advance
<1> HIDE DEF more
<1>7. QED
  BY <1>3, <1>4, <1>5, <1>6 DEF NumberedTypes

LEMMA NumbersWrite ==
  ASSUME Tlim \in Nat, NumberInv, TimesInv', NEW c, WriteOutput(c)
  PROVE  NumberInv'
<1> DEFINE i == c[2]
           t == tm[Root]
           p == params[Root]
           s == signal[Root]
           new == [out |-> i, number |-> p[i].number, cycle |-> t.ncycle, time |-> t.time, run |-> crashes]
           file == [tm |-> t, params |-> params'[Root], run |-> crashes]
           numbers == s = "none" /\ OutputList[i].type \in NumberedTypes
<1>1. /\ at[Root] = Wait(c) /\ c[1] = "write" /\ c[5] \in {"begin", "loop", "done"}
      /\ at[Root][1] = "call" /\ at[Root][2] = c
  <2>1. AllInside(c) /\ c[1] = "write" /\ c[5] \in {"begin", "loop", "done"}
    BY CallPlace DEF WriteOutput, NumberInv, TimesInv
  <2>2. at[Root] = Wait(c)
    BY <2>1, DriverAssumption DEF AllInside, Inside
  <2>3. QED
    BY <2>1, <2>2 DEF Wait
<1>2. i \in OutIds /\ Due(i, t, p, s) /\ c[3] = s
  <2>1. Scheduled(at[Root], 1, t, p, s)
    BY <1>1 DEF NumberInv, CallFits
  <2>2. QED
    BY <1>1, <2>1 DEF Scheduled
<1>3. /\ params'[Root] = Advance(p, i, s)
      /\ at'[Root] = NextOutput(Root, i + 1, t, params'[Root], s, c[5])
      /\ disk' = IF OutputList[i].type = "rst" THEN disk \cup {file} ELSE disk
      /\ numbered' = IF numbers THEN numbered \cup {new} ELSE numbered
      /\ tm' = tm /\ signal' = signal /\ crashes' = crashes
  BY DriverAssumption DEF WriteOutput, NumberedTypes
<1>4. /\ t.ncycle \in Nat /\ t.time \in Nat
      /\ i \in Nat /\ i <= Len(OutputList) /\ crashes \in Nat
      /\ ParamsFit(p) /\ p[i].number \in Nat /\ Complete(p, numbered)
  <2>1. /\ t.ncycle \in Nat /\ t.time \in Nat
        /\ ParamsFit(p) /\ crashes \in Nat /\ Complete(p, numbered)
    BY DriverAssumption DEF NumberInv, TimesInv, Timed, Cycles
  <2>2. i \in Nat /\ i <= Len(OutputList)
    BY <1>2, OutputsAssumption DEF OutIds
  <2> HIDE DEF i, t, p, s
  <2>3. p[i].number \in Nat
    BY <1>2, <2>1 DEF ParamsFit
  <2>4. QED
    BY <2>1, <2>2, <2>3
(* the output that is written, and the ones before it, are done *)
<1>5. ASSUME NEW o \in OutIds, Open(at'[Root], o)
      PROVE  Open(at[Root], o) /\ o # i /\ o >= i + 1 /\ s = "none"
  <2>1. Scheduled(at'[Root], i + 1, t, params'[Root], s)
    <3>1. \/ at'[Root] = Go(c[5])
          \/ Scheduled(at'[Root], i + 1, t, params'[Root], s)
      BY <1>3, NextOutputFirst
    <3>2. c[5] \notin {"flags", "balance"}
      BY <1>1
    <3>3. at'[Root] # Go(c[5])
      BY <1>5, <3>2, OpenPlaces
    <3>4. QED
      BY <3>1, <3>3
  <2>2. at'[Root][2][2] >= i + 1 /\ at'[Root][2][2] \in OutIds
    BY <2>1 DEF Scheduled
  <2>3. s = "none" /\ at'[Root][2][2] <= o
    BY <1>5, <2>1, OpenPlaces
  <2>4. o >= i + 1 /\ i <= o /\ o # i
    BY <1>4, <2>2, <2>3, OutputsAssumption DEF OutIds
  <2>5. /\ at[Root] = Wait(at[Root][2]) /\ at[Root][2][1] = "write"
        /\ at[Root][2][3] = "none" /\ at[Root][2][2] <= o
    <3>1. at[Root][2] = c /\ c[1] = "write" /\ at[Root] = Wait(c)
      BY <1>1
    <3>2. c[3] = "none" /\ c[2] <= o
      BY <1>2, <2>3, <2>4
    <3>3. QED
      BY <3>1, <3>2
  <2>6. Open(at[Root], o)
    BY <2>5, Zenon DEF Open
  <2>7. QED
    BY <2>3, <2>4, <2>6, Zenon
<1>6. s = "none" => Open(at[Root], i)
  BY <1>1, <1>2, <1>4 DEF Open
<1>7. /\ ParamsFit(params'[Root])
      /\ \A o \in OutIds : o # i => params'[Root][o] = p[o]
      /\ params'[Root][i].number \in {p[i].number, p[i].number + 1}
      /\ s = "none" => params'[Root][i].number = p[i].number + 1
      /\ s # "none" /\ OutputList[i].type \in NumberedTypes => params'[Root] = p
  <2> HIDE DEF i, t, p, s, numbers, new, file
  <2>1. /\ ParamsFit(Advance(p, i, s))
        /\ \A o \in OutIds : o # i => Advance(p, i, s)[o] = p[o]
        /\ Advance(p, i, s)[i].number \in {p[i].number, p[i].number + 1}
        /\ s = "none" => Advance(p, i, s)[i].number = p[i].number + 1
        /\ s # "none" /\ OutputList[i].type \in NumberedTypes => Advance(p, i, s) = p
    BY <1>2, <1>4, AdvanceFits
  <2>2. params'[Root] = Advance(p, i, s)
    BY <1>3
  <2>3. QED
    BY <2>1, <2>2
<1> HIDE DEF i, t, p, s
<1>8. CallFits'
  <2>1. CASE at'[Root] = Go(c[5])
    BY <2>1, NotWriting DEF CallFits
  <2>2. CASE Scheduled(at'[Root], i + 1, t, params'[Root], s)
    <3>1. at'[Root][2][2] \in OutIds => at'[Root][2][2] >= 1
      BY OutputsAssumption DEF OutIds
    <3>2. Scheduled(at'[Root], 1, t, params'[Root], s)
      BY <2>2, <3>1 DEF Scheduled
    <3>3. QED
      BY <1>3, <3>2 DEF CallFits, t, s
  <2>3. QED
    BY <1>3, <2>1, <2>2, NextOutputFirst
<1>9. FirstNumbers'
  <2>1. ASSUME NEW o \in OutIds, tm'[Root].ncycle = 0, Open(at'[Root], o)
        PROVE  params'[Root][o].number = 0
    <3>1. Open(at[Root], o) /\ params'[Root][o] = params[Root][o] /\ tm[Root].ncycle = 0
      BY <1>3, <1>5, <1>7, <2>1 DEF p
    <3>2. QED
      BY <3>1 DEF NumberInv, FirstNumbers
  <2>2. QED
    BY <2>1 DEF FirstNumbers
<1>10. Complete(params'[Root], numbered')
  <2>1. ASSUME NEW o \in OutIds, OutputList[o].type \in NumberedTypes,
               NEW n \in Nat, n < params'[Root][o].number
        PROVE  \E f \in numbered' : f.out = o /\ f.number = n
    <3>1. numbered \subseteq numbered'
      BY <1>3
    <3>2. CASE n < p[o].number
      BY <1>4, <2>1, <3>1, <3>2 DEF Complete
    <3>3. CASE ~(n < p[o].number)
      <4>1. o = i /\ params'[Root] # p
        BY <1>7, <2>1, <3>3
      <4>2. s = "none" /\ n = p[i].number
        BY <1>4, <1>7, <2>1, <3>3, <4>1
      <4>3. new \in numbered' /\ new.out = i /\ new.number = p[i].number
        BY <1>3, <2>1, <4>1, <4>2
      <4>4. QED
        BY <4>1, <4>2, <4>3
    <3>4. QED
      BY <3>2, <3>3
  <2>2. QED
    BY <2>1 DEF Complete
(* the files that were there *)
<1>11. ASSUME NEW e \in numbered
       PROVE  Recorded(e)' /\ (e.run = crashes => Counted(e)' /\ (s = "none" /\ e.out = i =>
                                 e.number < p[i].number /\ e.cycle < t.ncycle))
  <2>1. Recorded(e)
    BY DEF NumberInv
  <2>2. ASSUME e.run = crashes
        PROVE  Counted(e)' /\ (s = "none" /\ e.out = i => e.number < p[i].number /\ e.cycle < t.ncycle)
    <3>1. Counted(e) /\ e.out \in OutIds /\ e.number \in Nat
      BY <2>1, <2>2 DEF Recorded
    <3>2. p[e.out].number <= params'[Root][e.out].number
      <4>1. p[e.out].number \in Nat
        BY <1>4, <3>1 DEF ParamsFit
      <4>2. QED
        BY <1>4, <1>7, <3>1, <4>1
    <3>3. e.number < params'[Root][e.out].number
      <4>1. p[e.out].number \in Nat /\ params'[Root][e.out].number \in Nat
        BY <1>4, <1>7, <3>1 DEF ParamsFit
      <4>2. QED
        BY <3>1, <3>2, <4>1 DEF Counted, p
    <3>4. QED
      BY <1>3, <1>5, <1>6, <3>1, <3>3 DEF Counted, p, t
  <2>3. numbered \subseteq numbered'
    BY <1>3
  <2>4. QED
    BY <1>3, <2>1, <2>2, <2>3 DEF Recorded
(* the new file *)
<1>12. ASSUME NEW e, e = new, numbers
       PROVE  Recorded(e)' /\ Counted(e)'
  <2>1. /\ e.out = i /\ e.number = p[i].number /\ e.cycle = t.ncycle /\ e.run = crashes
        /\ e.time = t.time /\ e \in numbered' /\ numbered \subseteq numbered'
    BY <1>3, <1>12
  <2> HIDE DEF new, file
  <2>2. Counted(e)'
    <3>1. ~Open(at'[Root], i)
      BY <1>2, <1>5
    <3>2. p[i].number < params'[Root][i].number
      BY <1>4, <1>7, <1>12
    <3>3. QED
      BY <1>3, <1>4, <2>1, <3>1, <3>2 DEF Counted, t
  <2>3. ASSUME NEW n \in 0 .. p[i].number
        PROVE  \E f \in numbered' : f.out = i /\ f.number = n
    <3>1. CASE n < p[i].number
      BY <1>2, <1>4, <1>12, <2>1, <3>1 DEF Complete
    <3>2. CASE n = p[i].number
      BY <2>1, <3>2
    <3>3. QED
      BY <1>4, <3>1, <3>2
  <2>4. t.time < Tlim => t.time >= p[i].number * OutputList[i].dt
    <3>1. CASE t.ncycle = 0
      <4>1. p[i].number = 0
        BY <1>2, <1>6, <1>12, <3>1 DEF NumberInv, FirstNumbers, p, t
      <4>2. OutputList[i].dt \in Nat
        BY <1>2, OutputsAssumption
      <4>3. p[i].number * OutputList[i].dt = 0
        BY <4>1, <4>2
      <4>4. QED
        BY <1>4, <4>3
    <3>2. CASE t.time >= p[i].next
      BY <1>2, <1>4, <3>2 DEF ParamsFit
    <3>3. CASE t.ncycle # 0 /\ ~(t.time >= p[i].next)
      <4>1. s = "none"
        BY <1>12
      <4>2. t.time >= Tlim
        BY <1>2, <3>3, <4>1 DEF Due
      <4>3. QED
        BY <1>4, <4>2
    <3>4. QED
      BY <3>1, <3>2, <3>3
  <2>5. e.time < Tlim => e.time >= e.number * OutputList[e.out].dt
    BY <2>1, <2>4
  <2>6. \A n \in 0 .. e.number : \E f \in numbered' : f.out = e.out /\ f.number = n
    BY <2>1, <2>3
  <2>7. /\ e.out \in OutIds /\ OutputList[e.out].type \in NumberedTypes
        /\ e.number \in Nat /\ e.cycle \in Nat /\ e.run \in Nat /\ e.run <= crashes'
    BY <1>2, <1>3, <1>4, <1>12, <2>1
  <2>8. QED
    BY <2>2, <2>5, <2>6, <2>7 DEF Recorded
<1>13. Ordered'
  <2>1. ASSUME NEW e \in numbered, numbers, e.out = i, e.run = crashes
        PROVE  /\ e.number < p[i].number /\ e.cycle < t.ncycle
               /\ e.number \in Nat /\ e.cycle \in Nat
    BY <1>11, <2>1 DEF NumberInv, Recorded
  <2>2. new.out = i /\ new.number = p[i].number /\ new.cycle = t.ncycle /\ new.run = crashes
    OBVIOUS
  <2>3. \A e \in numbered' : e \in numbered \/ (numbers /\ e = new)
    BY <1>3
  <2> HIDE DEF new
  <2>4. ASSUME NEW e \in numbered', NEW f \in numbered', e.out = f.out, e.run = f.run
        PROVE  e.cycle < f.cycle <=> e.number < f.number
    <3>1. CASE e \in numbered /\ f \in numbered
      BY <2>4, <3>1 DEF NumberInv, Ordered
    <3>2. CASE e = new /\ f \in numbered /\ numbers
      BY <1>4, <2>1, <2>2, <2>4, <3>2
    <3>3. CASE f = new /\ e \in numbered /\ numbers
      BY <1>4, <2>1, <2>2, <2>4, <3>3
    <3>4. CASE e = new /\ f = new
      BY <1>4, <2>2, <3>4
    <3>5. QED
      BY <2>3, <3>1, <3>2, <3>3, <3>4
  <2>5. QED
    BY <2>4 DEF Ordered
(* the restart files that were there *)
<1>14. ASSUME NEW d \in disk
       PROVE  Filed(d)'
  <2>1. Filed(d) /\ d.tm.ncycle \in Nat
    BY DEF NumberInv, TimesInv, Timed, Cycles
  <2>2. Complete(d.params, numbered')
    BY <1>3, <2>1 DEF Filed, Complete
  <2>3. d.run = crashes => LastOfCycle(d)'
    BY <1>3, <1>5, <2>1 DEF Filed, LastOfCycle
  <2>4. new.cycle = t.ncycle /\ new.run = crashes
    OBVIOUS
  <2> HIDE DEF new
  <2>5. ASSUME NEW e \in numbered', e.run = d.run, e.cycle <= d.tm.ncycle
        PROVE  e.number < d.params[e.out].number
    <3>1. CASE e \in numbered
      BY <2>1, <2>5, <3>1 DEF Filed
    <3>2. CASE e = new /\ numbers
      <4>1. d.tm.ncycle < t.ncycle
        BY <1>2, <1>6, <2>1, <2>4, <2>5, <3>2 DEF Filed, LastOfCycle, t
      <4>2. QED
        BY <1>4, <2>1, <2>4, <2>5, <3>2, <4>1
    <3>3. QED
      BY <1>3, <3>1, <3>2
  <2>6. QED
    BY <1>3, <2>1, <2>2, <2>3, <2>5 DEF Filed
(* the new restart file, which is the last output of its cycle *)
<1>15. ASSUME NEW d, d = file, OutputList[i].type = "rst"
       PROVE  Filed(d)'
  <2>1. d.tm = t /\ d.params = params'[Root] /\ d.run = crashes
    BY <1>15
  <2> HIDE DEF file, new
  <2>2. \A o \in OutIds : ~Open(at'[Root], o)
    <3>1. i = Len(OutputList)
      BY <1>2, <1>15, OutputsAssumption
    <3>2. QED
      BY <1>4, <1>5, <3>1, OutputsAssumption DEF OutIds
  <2>3. LastOfCycle(d)'
    BY <1>3, <1>4, <2>1, <2>2 DEF LastOfCycle, t
  <2>4. ASSUME NEW e \in numbered', e.run = crashes
        PROVE  e.number < params'[Root][e.out].number
    <3>1. Counted(e)'
      BY <1>3, <1>11, <1>12, <2>4
    <3>2. QED
      BY <3>1 DEF Counted
  <2>5. QED
    BY <1>3, <1>4, <1>7, <1>10, <2>1, <2>3, <2>4 DEF Filed
<1> HIDE DEF new, file, numbers
<1>16. \A e \in numbered' : Recorded(e)'
  BY <1>3, <1>11, <1>12
<1>17. \A d \in disk' : Filed(d)'
  BY <1>3, <1>14, <1>15
<1>18. QED
  BY <1>3, <1>4, <1>7, <1>8, <1>9, <1>10, <1>13, <1>16, <1>17 DEF NumberInv

LEMMA NumbersInit ==
  ASSUME TimesInv, Init
  PROVE  NumberInv
<1>1. params[Root] = FreshParams(0) /\ tm[Root].ncycle = 0 /\ at[Root] = AtInitialize
  BY DriverAssumption DEF Init
<1>2. \A o \in OutIds : FreshParams(0)[o].next = 0 /\ FreshParams(0)[o].number = 0 /\ OutputList[o].dt \in Nat
  BY OutputsAssumption DEF FreshParams
<1>3. ParamsFit(params[Root])
  <2>1. FreshParams(0) \in [OutIds -> [next : Int, number : Nat]]
    BY DEF FreshParams
  <2>2. \A n \in Nat : 0 * n = 0
    OBVIOUS
  <2>3. QED
    BY <1>1, <1>2, <2>1, <2>2 DEF ParamsFit
<1>4. Complete(params[Root], numbered) /\ FirstNumbers
  BY <1>1, <1>2 DEF Complete, FirstNumbers
<1>5. CallFits
  <2>1. \E w : at[Root] \in {Wait(<<"init", w>>), Wait(<<"dt", w>>)}
    BY <1>1 DEF AtInitialize, AtStart
  <2>2. QED
    BY <2>1, NotWriting DEF CallFits
<1>6. QED
  BY <1>3, <1>4, <1>5 DEF Init, NumberInv, Ordered

(***************************************************************************)
(* For any number of ranks, any outputs of which at most one writes        *)
(* restarts, any limits and signals, and any number of restarts from files *)
(* that were written after the first cycle began: the numbers of the       *)
(* output files are consecutive, ordered and never early, and a restart    *)
(* file counts what its run has written.  A run that is started again from *)
(* the files of cycle 0 writes all its outputs once more, because          *)
(* MakeOutputs finds every output due in cycle 0.                          *)
(***************************************************************************)
THEOREM OutputsAreNumbered ==
  ASSUME StepsPositive, FirstCycle \in Nat \ {0}
  PROVE  Spec => []OutputNumbering
<1>1. Init => NumberInv
  BY TimesInit, NumbersInit
<1>2. NumberInv /\ [Next]_vars => NumberInv'
  <2> SUFFICES ASSUME NumberInv, [Next]_vars PROVE NumberInv'
    OBVIOUS
  <2>1. TimesInv'
    BY TimesNext DEF NumberInv
  <2>2. CASE Program
    <3>1. ASSUME NEW r \in Ranks, TestLoop(r) \/ Balance(r) \/ ReadFlags(r) \/ AfterLoop(r)
          PROVE  NumberInv'
      BY <2>1, <3>1, NumbersLocal
    <3>2. Tlim \in Nat
      BY DEF StepsPositive
    <3>3. QED
      BY <2>1, <2>2, <3>1, <3>2, NumbersCollective, NumbersTimeStep, NumbersWrite, NumbersStep DEF Program
  <2>3. ASSUME NEW r \in Ranks, Signal(r)
        PROVE  NumberInv'
    BY <2>1, <2>3, NumbersLocal
  <2>4. ASSUME NEW f \in disk, Restart(f)
        PROVE  NumberInv'
    BY <2>1, <2>4, NumbersRestart
  <2>5. CASE OutputNow \/ UNCHANGED vars
    <3>1. /\ numbered' = numbered /\ disk' = disk /\ crashes' = crashes
          /\ params' = params /\ tm' = tm /\ at' = at /\ signal' = signal
      BY <2>5 DEF OutputNow, vars, historyVars
    <3>2. CallFits'
      BY <3>1 DEF NumberInv, CallFits
    <3>3. QED
      BY <2>1, <3>1, <3>2, SameNumbers
  <2>6. QED
    BY <2>2, <2>3, <2>4, <2>5 DEF Next
<1>3. NumberInv => OutputNumbering
  BY NumbersFollow
<1>4. QED
  BY <1>1, <1>2, <1>3, PTL DEF Spec

=============================================================================
