---------------------------- MODULE SwarmExchange ----------------------------
(***************************************************************************)
(* Particles on a line of blocks that several ranks share, and a cycle of  *)
(* an application with particles: communication is reset, particles move,  *)
(* every block sends and then polls until it has heard from all its        *)
(* neighbors, some particles are destroyed, pools are compacted, and the   *)
(* ranks agree on the next time step.                                      *)
(*                                                                         *)
(* A position is a whole number that counts half blocks, the unit in which *)
(* the code looks up the neighbor a position belongs to.  Block b covers   *)
(* 2 b and 2 b + 1; its buffers are "L" and "R", one per neighbor.         *)
(***************************************************************************)
EXTENDS SwarmPool, FiniteSets

CONSTANTS NumBlocks, RankOf, InitialPool,
          Births,                     \* where particles are created, and how they move
          MaxParticles, MaxRounds     \* bounds

ASSUME BlocksAssumption == NumBlocks \in Nat \ {0, 1} /\ InitialPool \in Nat \ {0}

VARIABLES periodic,   \* the boundary flag of the mesh: periodic or outflow
          pool,       \* block |-> its pool
          flag, recv, \* block |-> buffer |-> BoundaryStatus, contents
          request,    \* block |-> buffer |-> a send request is held
          wire,       \* block |-> buffer |-> messages sent and not received
          todo,       \* block |-> the next task of its list
          phase,      \* rank |-> where it is in the cycle
          round,      \* cycles begun
          born,       \* particles created, who are numbered
          alive       \* those that have not been destroyed or left the mesh

vars == <<periodic, pool, flag, recv, request, wire, todo, phase, round, born, alive>>
comms == <<flag, recv, request, wire>>

Blocks == 0 .. NumBlocks - 1
Ranks == {RankOf[b] : b \in Blocks}
BlocksOf(r) == {b \in Blocks : RankOf[b] = r}
Buffers == {"L", "R"}
Opposite(n) == IF n = "L" THEN "R" ELSE "L"
XMax == 2 * NumBlocks

(* pmb->neighbors and the buffer of the neighbor that answers this one.    *)
At(b, n) == IF n = "L" THEN b - 1 ELSE b + 1
NeighborsOf(b) == {n \in Buffers : periodic \/ At(b, n) \in Blocks}
Neighbor(b, n) == At(b, n) % NumBlocks
IsLocal(b, n) == RankOf[Neighbor(b, n)] = RankOf[b]

(***************************************************************************)
(* SetNeighborIndices_ and GetNeighborBlockIndex: the halo of a block has  *)
(* four half-block regions; the middle two are the block, and the center   *)
(* of each other, wrapped at a periodic boundary, lies in a neighbor or in *)
(* none.                                                                   *)
(***************************************************************************)
ThisBlock == "this"
NoBlock == "none"

(* A mutated form: the test point is not wrapped.                          *)
Unwrapped(b, x) == x

Wrapped(b, x) ==
  CASE periodic /\ b = 0 /\ x < 0 -> XMax + x
    [] periodic /\ b = NumBlocks - 1 /\ x >= XMax -> x - XMax
    [] OTHER -> x

NeighborIndex(b, i) ==
  LET x == Wrapped(b, 2 * b - 1 + i)
      holding == {n \in NeighborsOf(b) : x \div 2 = Neighbor(b, n)}
  IN IF holding # {} THEN IF "L" \in holding THEN "L" ELSE "R"
     ELSE IF i \in {1, 2} THEN ThisBlock ELSE NoBlock

GetNeighborBlockIndex(b, x) == NeighborIndex(b, x - 2 * b + 1)

(***************************************************************************)
(* The cycle.                                                              *)
(***************************************************************************)
None == [n \in Buffers |-> <<>>]

Init ==
  /\ periodic \in BOOLEAN
  /\ pool = [b \in Blocks |-> NewPool(InitialPool)]
  /\ flag = [b \in Blocks |-> [n \in Buffers |-> "waiting"]]
  /\ recv = [b \in Blocks |-> None]
  /\ request = [b \in Blocks |-> [n \in Buffers |-> FALSE]]
  /\ wire = [b \in Blocks |-> None]
  /\ todo = [b \in Blocks |-> "done"]
  /\ phase = [r \in Ranks |-> "start"]
  /\ round = 1 /\ born = 0 /\ alive = {}

(* An application creates particles in its blocks.                         *)
CreateParticles(b) ==
  /\ phase[RankOf[b]] = "start" /\ born < MaxParticles
  /\ \E birth \in Births :
       /\ birth.x \div 2 = b
       /\ pool' = [pool EXCEPT ![b] =
                     Filled(@, <<[id |-> born + 1, x |-> birth.x, v |-> birth.v]>>)]
  /\ born' = born + 1 /\ alive' = alive \cup {born + 1}
  /\ UNCHANGED <<periodic, comms, todo, phase, round>>

(* The first region of the cycle: Swarm::ResetCommunication on every block *)
(* of the rank.  Requests are given back whether or not what was sent has  *)
(* been received.                                                          *)
ResetCommunication(r) ==
  /\ phase[r] = "start"
  /\ request' = [b \in Blocks |-> IF b \in BlocksOf(r) THEN [n \in Buffers |-> FALSE]
                                  ELSE request[b]]
  /\ flag' = [b \in Blocks |-> IF b \in BlocksOf(r)
                               THEN [n \in Buffers |-> IF n \in NeighborsOf(b) THEN "waiting"
                                                       ELSE flag[b][n]]
                               ELSE flag[b]]
  /\ todo' = [b \in Blocks |-> IF b \in BlocksOf(r) THEN "transport" ELSE todo[b]]
  /\ phase' = [phase EXCEPT ![r] = "exchange"]
  /\ UNCHANGED <<periodic, pool, recv, wire, round, born, alive>>

(* The application moves its particles, at most half a block each.         *)
Transport(b) ==
  /\ todo[b] = "transport"
  /\ pool' = [pool EXCEPT ![b].data = [s \in DOMAIN @ |->
       IF s \in pool[b].mask THEN [@[s] EXCEPT !.x = @ + pool[b].data[s].v] ELSE @[s]]]
  /\ todo' = [todo EXCEPT ![b] = "send"]
  /\ UNCHANGED <<periodic, comms, phase, round, born, alive>>

(* CountParticlesToSend_: the slots for each neighbor, in their order.     *)
IndicesToSend(b, n) ==
  Sorted({s \in pool[b].mask : /\ s <= pool[b].max_active
                               /\ GetNeighborBlockIndex(b, pool[b].data[s].x) = n})

(* LoadBuffers_ and BoundarySwarm::Send.  A message that is still on its   *)
(* way is read from the buffer the next one is loaded into.                *)
Outgoing(b) == [n \in NeighborsOf(b) |-> IndicesToSend(b, n)]
Packed(b, indices) == [i \in DOMAIN indices |-> pool[b].data[indices[i]]]

(* A mutated form: nothing is sent to a neighbor no particle goes to.      *)
WithParticles(b) == {n \in NeighborsOf(b) : ~IsLocal(b, n) /\ IndicesToSend(b, n) # <<>>}

Remote(b) == {n \in NeighborsOf(b) : ~IsLocal(b, n)}

FromHere(b, c, m) == m \in NeighborsOf(c) /\ Neighbor(c, m) = b /\ IsLocal(c, m)

Send(b) ==
  /\ todo[b] = "send"
  /\ \A n \in Remote(b) : ~request[b][n]
  /\ \E out \in {Outgoing(b)} :
     \E sent \in {[n \in NeighborsOf(b) |-> Packed(b, out[n])]} :
       /\ pool' = [pool EXCEPT ![b] = RemoveMarkedParticles(MarkParticleForRemoval(@,
                      UNION {RangeOf(out[n]) : n \in NeighborsOf(b)}))]
       /\ wire' = [wire EXCEPT ![b] = [n \in Buffers |->
            IF n \in Remote(b) THEN Append([i \in DOMAIN @[n] |-> sent[n]], sent[n]) ELSE @[n]]]
       /\ recv' = [c \in Blocks |-> [m \in Buffers |->
            IF FromHere(b, c, m) THEN sent[Opposite(m)] ELSE recv[c][m]]]
       /\ flag' = [c \in Blocks |-> [m \in Buffers |->
            IF ~FromHere(b, c, m) THEN flag[c][m]
            ELSE IF sent[Opposite(m)] # <<>> THEN "arrived" ELSE "completed"]]
  /\ request' = [request EXCEPT ![b] = [n \in Buffers |-> n \in Remote(b) \/ @[n]]]
  /\ todo' = [todo EXCEPT ![b] = "receive"]
  /\ UNCHANGED <<periodic, phase, round, born, alive>>

(* BoundarySwarm::Receive: a message that has come is taken, once.         *)
Message(b, n) == wire[Neighbor(b, n)][Opposite(n)]
Polled(b) == {n \in NeighborsOf(b) : ~IsLocal(b, n) /\ flag[b][n] # "completed"}

Arrived(b, now) == {n \in NeighborsOf(b) : now[n] = "arrived"}

(* GenericSwarmBC: positions are wrapped, or particles outside are marked. *)
Outside(x) == x < 0 \/ x >= XMax
BoundaryBlock(b) == b = 0 \/ b = NumBlocks - 1

ApplySwarmBoundaryConditions(b, q) ==
  LET back(x) == CASE b = 0 /\ x >= XMax -> x - XMax
                   [] b = NumBlocks - 1 /\ x < 0 -> XMax + x
                   [] OTHER -> x
      out == {s \in q.mask : \/ b = 0 /\ q.data[s].x < 0
                             \/ b = NumBlocks - 1 /\ q.data[s].x >= XMax}
  IN IF ~BoundaryBlock(b) THEN q
     ELSE IF periodic
     THEN [q EXCEPT !.data = [s \in DOMAIN @ |-> IF s \in q.mask THEN [@[s] EXCEPT !.x = back(@)]
                                                 ELSE @[s]]]
     ELSE MarkParticleForRemoval(q, out)

(* Swarm::Receive and SwarmContainer::Receive, polled until complete.      *)
HasCome(b, n) == n \in Polled(b) /\ Message(b, n) # <<>>

StatusNow(b) ==
  [n \in Buffers |-> IF HasCome(b, n) THEN "arrived"
                     ELSE IF n \in Polled(b) THEN "waiting" ELSE flag[b][n]]

Unloaded(b, now, buf) ==
  LET from(n) == IF n \in Arrived(b, now) THEN buf[n] ELSE <<>>
  IN Filled(pool[b], from("L") \o from("R"))

(* SwarmContainer::Receive: once a swarm has all its messages.             *)
Received(b, unloaded, success) ==
  IF success THEN RemoveMarkedParticles(ApplySwarmBoundaryConditions(b, unloaded)) ELSE unloaded

Receive(b) ==
  /\ todo[b] = "receive"
  /\ \E now \in {StatusNow(b)},
        buf \in {[n \in Buffers |-> IF HasCome(b, n) THEN Head(Message(b, n)) ELSE recv[b][n]]} :
     \E unloaded \in {Unloaded(b, now, buf)},
        success \in {\A n \in NeighborsOf(b) : now[n] # "waiting"} :
       /\ recv' = [recv EXCEPT ![b] = buf]
       /\ wire' = [c \in Blocks |-> [m \in Buffers |->
            IF \E n \in Buffers : HasCome(b, n) /\ c = Neighbor(b, n) /\ m = Opposite(n)
            THEN Tail(wire[c][m]) ELSE wire[c][m]]]
       /\ flag' = [flag EXCEPT ![b] = [n \in Buffers |->
            IF n \in NeighborsOf(b) /\ now[n] = "arrived" THEN "completed" ELSE now[n]]]
       /\ pool' = [pool EXCEPT ![b] = Received(b, unloaded, success)]
       /\ todo' = [todo EXCEPT ![b] = IF success THEN "destroy" ELSE @]
       /\ alive' = IF success /\ ~periodic /\ BoundaryBlock(b)
                   THEN alive \ {unloaded.data[s].id : s \in {t \in unloaded.mask :
                                                           Outside(unloaded.data[t].x)}}
                   ELSE alive
  /\ UNCHANGED <<periodic, request, phase, round, born>>

(* The region after the exchange is entered once every list of the rank is *)
(* done; the application removes any of its particles.                     *)
Exchanged(r) == \A b \in BlocksOf(r) : todo[b] \in {"destroy", "defrag", "done"}

DestroyParticles(b) ==
  /\ todo[b] = "destroy" /\ Exchanged(RankOf[b])
  /\ \E S \in SUBSET pool[b].mask :
       /\ pool' = [pool EXCEPT ![b] = RemoveMarkedParticles(MarkParticleForRemoval(@, S))]
       /\ alive' = alive \ {pool[b].data[s].id : s \in S}
  /\ todo' = [todo EXCEPT ![b] = "defrag"]
  /\ UNCHANGED <<periodic, comms, phase, round, born>>

DefragTask(b) ==
  /\ todo[b] = "defrag"
  /\ pool' = [pool EXCEPT ![b] = DefragBelow(@, <<9, 10>>)]
  /\ todo' = [todo EXCEPT ![b] = "done"]
  /\ UNCHANGED <<periodic, comms, phase, round, born, alive>>

EndCycle(r) ==
  /\ phase[r] = "exchange" /\ \A b \in BlocksOf(r) : todo[b] = "done"
  /\ phase' = [phase EXCEPT ![r] = "reduce"]
  /\ UNCHANGED <<periodic, pool, comms, todo, round, born, alive>>

(* SetGlobalTimeStep: the reduction of the time step, which every rank     *)
(* leaves after all have come to it.                                       *)
ReduceTimeStep ==
  /\ \A r \in Ranks : phase[r] = "reduce"
  /\ round < MaxRounds
  /\ phase' = [r \in Ranks |-> "start"] /\ round' = round + 1
  /\ UNCHANGED <<periodic, pool, comms, todo, born, alive>>

Task(b) == Transport(b) \/ Send(b) \/ Receive(b) \/ DestroyParticles(b) \/ DefragTask(b)

Next == \/ \E b \in Blocks : CreateParticles(b)
        \/ \E b \in Blocks : Transport(b)
        \/ \E b \in Blocks : Send(b)
        \/ \E b \in Blocks : Receive(b)
        \/ \E b \in Blocks : DestroyParticles(b)
        \/ \E b \in Blocks : DefragTask(b)
        \/ \E r \in Ranks : ResetCommunication(r)
        \/ \E r \in Ranks : EndCycle(r)
        \/ ReduceTimeStep

Fairness == /\ \A b \in Blocks : WF_vars(Task(b))
            /\ \A r \in Ranks : WF_vars(ResetCommunication(r)) /\ WF_vars(EndCycle(r))

Spec == Init /\ [][Next]_vars /\ Fairness

(***************************************************************************)
(* Properties.                                                             *)
(***************************************************************************)
Count(seq, id) == Cardinality({i \in DOMAIN seq : seq[i].id = id})
Held(b, id) == Cardinality({s \in pool[b].mask : pool[b].data[s].id = id})
OnTheWay(b, n, id) ==
  FoldSeq(+, 0, [i \in DOMAIN wire[b][n] |-> Count(wire[b][n][i], id)])
    + IF flag[b][n] = "arrived" THEN Count(recv[b][n], id) ELSE 0
Copies(id) ==
  FoldSet(LAMBDA b, n : n + Held(b, id) + OnTheWay(b, "L", id) + OnTheWay(b, "R", id), 0, Blocks)

NoneLostNoneTwice ==
  \A id \in 1 .. born : Copies(id) = IF id \in alive THEN 1 ELSE 0

AllAtHome ==
  \A b \in Blocks : todo[b] \in {"destroy", "defrag", "done"} =>
    \A s \in pool[b].mask : pool[b].data[s].x \in {2 * b, 2 * b + 1}

(* Every particle that was not destroyed and has not left the mesh is in   *)
(* one place, a slot of one pool or one message, and no other is anywhere: *)
(* Send, Receive and AddEmptyParticles move particles, Defrag copies them, *)
(* and buffers are used again in the next cycle.  A block that has heard   *)
(* from its neighbors holds only particles that are in it, whatever        *)
(* boundary they crossed.                                                  *)
ParticlesAtHome == NoneLostNoneTwice /\ AllAtHome

(* The index by cell lists for each cell of a compact pool, ghost cells    *)
(* included, the particles in it.                                          *)
InCell(b, c) == {s \in pool[b].mask : pool[b].data[s].x - 2 * b + 1 = c}
CellOf(b) == [s \in 0 .. pool[b].max_active |-> pool[b].data[s].x - 2 * b + 1]
CellLists(b) == SortParticlesByCell(pool[b], 4, CellOf(b))

(* The free list, the mask, the count and the largest index of a pool      *)
(* agree, loops over particles stop at the largest index, and the index by *)
(* cell of a compact pool lists exactly the particles of each cell.        *)
PoolsConsistent ==
  \A b \in Blocks :
    /\ PoolConsistent(pool[b]) /\ pool[b].marked = {}
    /\ todo[b] = "done" /\ Compact(pool[b]) =>
         CellLists(b) = [c \in 0 .. 3 |-> InCell(b, c)]

(* The exchange of every rank ends: each message that a block waits for is *)
(* sent, also by a neighbor with no particle to send, and only once.       *)
ExchangeEnds == \A r \in Ranks : phase[r] = "exchange" ~> phase[r] = "reduce"
=============================================================================
