----------------------- MODULE BoundaryExchangeProofs -----------------------
(***************************************************************************)
(* Proofs about the boundary exchange, for any ranks, MeshData, links and  *)
(* number of exchanges: it implements HaloExchange, and data in a buffer   *)
(* has storage for as long as it is needed.                                *)
(***************************************************************************)
EXTENDS BoundaryExchange, TLAPS

Kinds    == {"start", "send", "receive", "set", "compute"}
TaskType == [part : Parts, kind : Kinds]
Sendable == [version : Nat, null : BOOLEAN]

(* Buffer, without a bound on the versions *)
AnyBuffer == [state : BufferState, active : BOOLEAN, request : BOOLEAN,
              started_irecv : BOOLEAN, data : Sendable]

TypeOK ==
  /\ sparse \in BOOLEAN
  /\ version \in [Parts -> Nat]
  /\ allocated \in [Parts -> BOOLEAN]
  /\ nonzero \in [Parts -> BOOLEAN]
  /\ queue \in [Ranks -> Seq(TaskType)]
  /\ buffer \in [Ends -> AnyBuffer]
  /\ flight \in [Channels -> Seq(Sendable)]

(***************************************************************************)
(* What the queues hold.  A rank runs the tasks of its own MeshData.  Of   *)
(* one MeshData, a list has one task that sends, or is past it, and one    *)
(* that receives, sets or computes; Send may have to be repeated until     *)
(* after Receive, but never until after Set.                               *)
(***************************************************************************)
Compatible(s, t) ==
  s.part = t.part /\ s.kind # "start" /\ t.kind # "start" =>
    <<s.kind, t.kind>> \in {<<"send", "receive">>, <<"receive", "send">>, <<"send", "set">>}

InOrder(q) == \A m, n \in DOMAIN q : m < n => Compatible(q[m], q[n])

QueuesInOrder ==
  \A r \in Ranks : InOrder(queue[r]) /\ \A n \in DOMAIN queue[r] : Rank[queue[r][n].part] = r

Pending(p, kind) == \E n \in DOMAIN queue[Rank[p]] : queue[Rank[p]][n] = Task(p, kind)

(* the last version that p has sent, and that has been taken from c *)
Sent(p)  == IF Pending(p, "send") THEN version[p] - 1 ELSE version[p]
Taken(c) == IF Pending(c[2], "receive") /\ buffer[RecvEnd(c)].state \notin Received
            THEN version[c[2]] - 1 ELSE version[c[2]]

(* what is under way on a channel is what was sent and not yet taken *)
NonlocalInv(c) ==
  /\ Len(flight[c]) = Sent(c[1]) - Taken(c)
  /\ \A i \in DOMAIN flight[c] : flight[c][i].version = Taken(c) + i
  /\ buffer[RecvEnd(c)].state \in Received \cup {"stale"}

LocalInv(c) ==
  IF buffer[SendEnd(c)].state \in {"sending", "sending_null"}
  THEN Sent(c[1]) = Taken(c) + 1 /\ buffer[SendEnd(c)].data.version = Sent(c[1])
  ELSE Sent(c[1]) = Taken(c)

ChannelInv(c) == IF Nonlocal(c) THEN NonlocalInv(c) ELSE LocalInv(c)

(* what the receiver has in its buffers and in its ghost zones *)
ReceiverInv(c) ==
  /\ buffer[RecvEnd(c)].state \in Received =>
       /\ Pending(c[2], "receive") \/ Pending(c[2], "set")
       /\ buffer[RecvEnd(c)].data.version = version[c[2]]
  /\ Pending(c[2], "set") => buffer[RecvEnd(c)].state \in Received

Filled(p) == IF Pending(p, "receive") \/ Pending(p, "set") THEN version[p] - 1 ELSE version[p]

GhostInv == ghost = [p \in Parts |-> [q \in Neighbors(p) |-> Filled(p)]]

ExchangeInv ==
  /\ TypeOK /\ QueuesInOrder
  /\ GhostInv
  /\ \A c \in Links : ChannelInv(c) /\ ReceiverInv(c)

(***************************************************************************)
(* Where the data is.                                                      *)
(***************************************************************************)
(* what a MeshData has sent last keeps its variable allocated until it is  *)
(* sure that it was received                                               *)
SenderStorage(c) ==
  ~buffer[SendEnd(c)].data.null =>
    /\ buffer[SendEnd(c)].active /\ allocated[c[1]]
    /\ ~Pending(c[1], "send") => nonzero[c[1]]

(* the state of a buffer says whether its message is null *)
NullInv(b) ==
  /\ b.state \in {"sending", "received"} => ~b.data.null
  /\ b.state \in {"sending_null", "received_null"} => b.data.null

ReceiverStorage(c) == buffer[RecvEnd(c)].state = "received" => allocated[c[2]]

StorageInv ==
  /\ \A p \in Parts : (nonzero[p] => allocated[p]) /\ (~sparse => nonzero[p])
  /\ \A c \in Links : /\ NullInv(buffer[SendEnd(c)]) /\ NullInv(buffer[RecvEnd(c)])
                      /\ SenderStorage(c) /\ ReceiverStorage(c)

-----------------------------------------------------------------------------
(***************************************************************************)
(* The ranks and the ends of the channels.                                 *)
(***************************************************************************)
(* Every MeshData belongs to the rank that has it in its list. *)
LEMMA RankOfPart ==
  ASSUME NEW r \in Ranks, NEW n \in DOMAIN Lists[r]
  PROVE  Lists[r][n] \in Parts /\ Rank[Lists[r][n]] = r
<1>1. Lists[r][n] \in ToSet(Lists[r])
  BY DEF ToSet
<1>2. Lists[r][n] \in Parts
  BY <1>1 DEF Parts
<1>3. ASSUME NEW s \in Ranks, Lists[r][n] \in ToSet(Lists[s])
      PROVE  s = r
  <2>1. PICK m \in DOMAIN Lists[s] : Lists[s][m] = Lists[r][n]
    BY <1>3 DEF ToSet
  <2>2. QED
    BY <2>1, ListsAssumption
<1>4. Rank[Lists[r][n]] = CHOOSE s \in Ranks : Lists[r][n] \in ToSet(Lists[s])
  BY <1>2 DEF Rank
<1>5. QED
  BY <1>1, <1>2, <1>3, <1>4

LEMMA RankType ==
  ASSUME NEW p \in Parts
  PROVE  Rank[p] \in Ranks
<1>1. PICK r \in Ranks : p \in ToSet(Lists[r])
  BY DEF Parts
<1>2. PICK n \in DOMAIN Lists[r] : Lists[r][n] = p
  BY <1>1 DEF ToSet
<1>3. QED
  BY <1>2, RankOfPart

(* A link joins two MeshData, and the other way round, too. *)
LEMMA LinkFacts ==
  ASSUME NEW c \in Links
  PROVE  /\ c[1] \in Parts /\ c[2] \in Parts /\ c = <<c[1], c[2]>>
         /\ <<c[2], c[1]>> \in Links
  BY LinksAssumption

(* The ends of a channel, and whose caches they are in. *)
LEMMA EndFacts ==
  ASSUME NEW c \in Links
  PROVE  /\ SendEnd(c) \in Ends /\ RecvEnd(c) \in Ends
         /\ SendEnd(c)[1] = c /\ RecvEnd(c)[1] = c
         /\ SendEnd(c) = RecvEnd(c) <=> ~Nonlocal(c)
         /\ c \in Channels <=> Nonlocal(c)
         /\ \A p \in Parts :
              /\ SendEnd(c) \in SendEnds[p] <=> c[1] = p
              /\ RecvEnd(c) \in RecvEnds[p] <=> c[2] = p
              /\ RecvEnd(c) \in SendEnds[p] <=> c[1] = p /\ ~Nonlocal(c)
              /\ SendEnd(c) \in RecvEnds[p] <=> c[2] = p /\ ~Nonlocal(c)
<1>1. SendEnd(c)[1] = c /\ RecvEnd(c)[1] = c /\ (SendEnd(c) = RecvEnd(c) <=> ~Nonlocal(c))
  BY DEF SendEnd, RecvEnd
<1>2. c \in Channels <=> Nonlocal(c)
  BY DEF Channels
<1>3. ASSUME NEW d \in Links
      PROVE  (SendEnd(d) = SendEnd(c) => d = c) /\ (RecvEnd(d) = RecvEnd(c) => d = c)
             /\ (SendEnd(d) = RecvEnd(c) => d = c)  /\ (RecvEnd(d) = SendEnd(c) => d = c)
  BY DEF SendEnd, RecvEnd
<1>4. ASSUME NEW p \in Parts
      PROVE  /\ SendEnd(c) \in SendEnds[p] <=> c[1] = p
             /\ RecvEnd(c) \in RecvEnds[p] <=> c[2] = p
             /\ RecvEnd(c) \in SendEnds[p] <=> c[1] = p /\ ~Nonlocal(c)
             /\ SendEnd(c) \in RecvEnds[p] <=> c[2] = p /\ ~Nonlocal(c)
  BY <1>1, <1>3 DEF SendEnds, RecvEnds, Outgoing, Incoming
<1>5. SendEnd(c) \in Ends /\ RecvEnd(c) \in Ends
  <2>1. c[1] \in Parts /\ c[2] \in Parts
    BY LinkFacts
  <2>2. SendEnd(c) \in SendEnds[c[1]] /\ RecvEnd(c) \in RecvEnds[c[2]]
    BY <1>4, <2>1
  <2>3. QED
    BY <2>1, <2>2 DEF Ends
<1>6. QED
  BY <1>1, <1>2, <1>4, <1>5

(* There are no other ends. *)
LEMMA EveryEnd ==
  ASSUME NEW e \in Ends
  PROVE  e[1] \in Links /\ (e = SendEnd(e[1]) \/ e = RecvEnd(e[1]))
<1>1. PICK p \in Parts : e \in SendEnds[p] \cup RecvEnds[p]
  BY DEF Ends
<1>2. PICK c \in Links : e = SendEnd(c) \/ e = RecvEnd(c)
  BY <1>1 DEF SendEnds, RecvEnds, Outgoing, Incoming
<1>3. QED
  BY <1>2, EndFacts

(***************************************************************************)
(* A queue after its head has run and left behind the tasks in next.       *)
(***************************************************************************)
LEMMA QueueAfter ==
  ASSUME NEW S, NEW q \in Seq(S), q # <<>>, NEW next \in Seq(S)
  PROVE  /\ Tail(q) \o next \in Seq(S)
         /\ Len(Tail(q) \o next) = Len(q) - 1 + Len(next)
         /\ Len(q) \in Nat \ {0} /\ Len(next) \in Nat
         /\ \A n \in 1 .. Len(q) - 1 : (Tail(q) \o next)[n] = q[n + 1]
         /\ \A n \in 1 .. Len(next) : (Tail(q) \o next)[Len(q) - 1 + n] = next[n]
         /\ \A n \in Len(q) .. Len(q) - 1 + Len(next) :
              n - (Len(q) - 1) \in 1 .. Len(next) /\ (Tail(q) \o next)[n] = next[n - (Len(q) - 1)]
<1>1. Len(q) \in Nat \ {0} /\ Len(next) \in Nat
  OBVIOUS
<1>2. /\ Tail(q) \in Seq(S) /\ Len(Tail(q)) = Len(q) - 1
      /\ \A n \in 1 .. Len(q) - 1 : Tail(q)[n] = q[n + 1]
  BY <1>1
<1>3. QED
  BY <1>1, <1>2

(* The order is kept if what is left behind may follow what is still there. *)
LEMMA InOrderAfter ==
  ASSUME NEW q \in Seq(TaskType), q # <<>>, NEW next \in Seq(TaskType),
         InOrder(q), InOrder(next),
         \A m \in 2 .. Len(q), n \in DOMAIN next : Compatible(q[m], next[n])
  PROVE  InOrder(Tail(q) \o next)
<1> DEFINE after == Tail(q) \o next
<1>1. /\ after \in Seq(TaskType)
      /\ Len(after) = Len(q) - 1 + Len(next)
      /\ Len(q) \in Nat \ {0} /\ Len(next) \in Nat
      /\ \A n \in 1 .. Len(q) - 1 : after[n] = q[n + 1]
      /\ \A n \in 1 .. Len(next) : after[Len(q) - 1 + n] = next[n]
  BY QueueAfter
<1>2. DOMAIN after = 1 .. Len(q) - 1 + Len(next) /\ DOMAIN q = 1 .. Len(q)
      /\ DOMAIN next = 1 .. Len(next)
  BY <1>1
<1>3. \A n \in 1 .. Len(q) - 1 + Len(next) :
        n >= Len(q) => n - (Len(q) - 1) \in 1 .. Len(next) /\ after[n] = next[n - (Len(q) - 1)]
  BY <1>1
<1>4. SUFFICES ASSUME NEW m \in 1 .. Len(q) - 1 + Len(next), NEW n \in 1 .. Len(q) - 1 + Len(next),
                      m < n
               PROVE  Compatible(after[m], after[n])
  BY <1>2 DEF InOrder
<1>5. CASE n < Len(q)
  <2>1. m + 1 \in DOMAIN q /\ n + 1 \in DOMAIN q /\ m + 1 < n + 1
    BY <1>1, <1>2, <1>4, <1>5
  <2>2. Compatible(q[m + 1], q[n + 1])
    BY <2>1 DEF InOrder
  <2>3. QED
    BY <1>1, <1>4, <1>5, <2>2
<1>6. CASE m < Len(q) /\ n >= Len(q)
  <2>1. m + 1 \in 2 .. Len(q) /\ n - (Len(q) - 1) \in DOMAIN next
    BY <1>1, <1>2, <1>3, <1>6
  <2>2. Compatible(q[m + 1], next[n - (Len(q) - 1)])
    BY <2>1
  <2>3. QED
    BY <1>1, <1>3, <1>6, <2>2
<1>7. CASE m >= Len(q)
  <2>1. /\ m - (Len(q) - 1) \in DOMAIN next /\ n - (Len(q) - 1) \in DOMAIN next
        /\ m - (Len(q) - 1) < n - (Len(q) - 1)
    BY <1>1, <1>2, <1>3, <1>4, <1>7
  <2>2. Compatible(next[m - (Len(q) - 1)], next[n - (Len(q) - 1)])
    BY <2>1 DEF InOrder
  <2>3. QED
    BY <1>1, <1>3, <1>4, <1>7, <2>2
<1>8. QED
  BY <1>1, <1>5, <1>6, <1>7

(* The first task of a queue, and what else of its MeshData the queue has. *)
LEMMA HeadFacts ==
  ASSUME TypeOK, QueuesInOrder, NEW r \in Ranks, NEW p, NEW kind, AtHead(r, Task(p, kind))
  PROVE  /\ p \in Parts /\ kind \in Kinds /\ Rank[p] = r
         /\ queue[r] \in Seq(TaskType) /\ queue[r] # <<>> /\ queue[r][1] = Task(p, kind)
         /\ \A n \in 2 .. Len(queue[r]) : Compatible(Task(p, kind), queue[r][n])
         /\ Pending(p, kind)
<1>1. queue[r] \in Seq(TaskType) /\ queue[r] # <<>> /\ queue[r][1] = Task(p, kind)
  BY DEF TypeOK, AtHead
<1>2. 1 \in DOMAIN queue[r] /\ DOMAIN queue[r] = 1 .. Len(queue[r]) /\ Len(queue[r]) \in Nat
  BY <1>1
<1>3. Task(p, kind) \in TaskType
  BY <1>1, <1>2
<1>4. p \in Parts /\ kind \in Kinds
  BY <1>3 DEF TaskType, Task
<1>5. Rank[p] = r
  BY <1>1, <1>2 DEF QueuesInOrder, Task
<1>6. \A n \in 2 .. Len(queue[r]) : Compatible(Task(p, kind), queue[r][n])
  BY <1>1, <1>2 DEF QueuesInOrder, InOrder
<1>7. Pending(p, kind)
  BY <1>1, <1>2, <1>5 DEF Pending
<1>8. QED
  BY <1>1, <1>4, <1>5, <1>6, <1>7

(* The tasks of its MeshData that can be behind one that is about to run. *)
LEMMA BehindHead ==
  ASSUME TypeOK, QueuesInOrder, NEW r \in Ranks, NEW p, NEW kind, AtHead(r, Task(p, kind)),
         kind # "start", NEW k, k \notin {"start", kind}, Pending(p, k)
  PROVE  <<kind, k>> \in {<<"send", "receive">>, <<"receive", "send">>, <<"send", "set">>}
<1>1. PICK n \in DOMAIN queue[r] : queue[r][n] = Task(p, k)
  BY HeadFacts DEF Pending
<1>2. n # 1 /\ n \in 2 .. Len(queue[r])
  <2>1. queue[r] \in Seq(TaskType) /\ queue[r][1] = Task(p, kind)
    BY HeadFacts
  <2>2. n # 1
    BY <1>1, <2>1 DEF Task
  <2>3. n \in 1 .. Len(queue[r]) /\ Len(queue[r]) \in Nat
    BY <2>1
  <2>4. QED
    BY <2>2, <2>3
<1>3. Compatible(Task(p, kind), Task(p, k))
  BY <1>1, <1>2, HeadFacts
<1>4. QED
  BY <1>3 DEF Compatible, Task

(* What is pending when the task kind of p has run and left behind next. *)
LEMMA PendingAfter ==
  ASSUME TypeOK, QueuesInOrder, NEW r \in Ranks, NEW p, NEW kind, NEW next \in Seq(TaskType),
         Run(r, Task(p, kind), next), \A n \in DOMAIN next : next[n].part = p
  PROVE  \A q \in Parts, k \in Kinds \ {"start"} :
           Pending(q, k)' <=> \/ Pending(q, k) /\ (q = p => k # kind)
                              \/ q = p /\ \E n \in DOMAIN next : next[n].kind = k
<1> DEFINE old == queue[r]
           new == Tail(old) \o next
<1>1. /\ AtHead(r, Task(p, kind)) /\ queue' = [queue EXCEPT ![r] = new]
      /\ queue \in [Ranks -> Seq(TaskType)]
  BY DEF Run, TypeOK
<1>2. /\ p \in Parts /\ kind \in Kinds /\ Rank[p] = r
      /\ old \in Seq(TaskType) /\ old # <<>> /\ old[1] = Task(p, kind)
      /\ \A n \in 2 .. Len(old) : Compatible(Task(p, kind), old[n])
  BY <1>1, HeadFacts
<1>3. /\ new \in Seq(TaskType)
      /\ Len(new) = Len(old) - 1 + Len(next)
      /\ Len(old) \in Nat \ {0} /\ Len(next) \in Nat
      /\ \A n \in 1 .. Len(old) - 1 : new[n] = old[n + 1]
      /\ \A n \in 1 .. Len(next) : new[Len(old) - 1 + n] = next[n]
      /\ \A n \in Len(old) .. Len(old) - 1 + Len(next) :
           n - (Len(old) - 1) \in 1 .. Len(next) /\ new[n] = next[n - (Len(old) - 1)]
  <2>1. old \in Seq(TaskType) /\ old # <<>> /\ next \in Seq(TaskType)
    BY <1>2
  <2> HIDE DEF old
  <2>2. QED
    BY <2>1, QueueAfter
<1>4. queue'[r] = new /\ \A s \in Ranks : s # r => queue'[s] = queue[s]
  BY <1>1
<1> HIDE DEF new
<1>5. SUFFICES ASSUME NEW q \in Parts, NEW k \in Kinds \ {"start"}
               PROVE  Pending(q, k)' <=> \/ Pending(q, k) /\ (q = p => k # kind)
                                         \/ q = p /\ \E n \in DOMAIN next : next[n].kind = k
  OBVIOUS
<1> DEFINE t == Task(q, k)
<1>6. CASE Rank[q] # r
  BY <1>2, <1>4, <1>6, RankType DEF Pending
<1>7. CASE Rank[q] = r
  <2>1. Pending(q, k) <=> \E n \in 1 .. Len(old) : old[n] = t
    BY <1>2, <1>7 DEF Pending
  <2>2. Pending(q, k)' <=> \E n \in 1 .. Len(new) : new[n] = t
    BY <1>3, <1>4, <1>7 DEF Pending
  <2>3. \A n \in DOMAIN next : next[n] = t <=> q = p /\ next[n].kind = k
    <3>1. \A n \in DOMAIN next : next[n] \in TaskType
      OBVIOUS
    <3>2. QED
      BY <3>1 DEF TaskType, Task
  <2>4. (\E n \in 1 .. Len(new) : new[n] = t)
          <=> (\E n \in 2 .. Len(old) : old[n] = t) \/ (\E n \in 1 .. Len(next) : next[n] = t)
    <3>1. ASSUME NEW n \in 1 .. Len(new), new[n] = t
          PROVE  (\E i \in 2 .. Len(old) : old[i] = t) \/ (\E i \in 1 .. Len(next) : next[i] = t)
      <4>1. CASE n < Len(old)
        <5>1. n + 1 \in 2 .. Len(old) /\ old[n + 1] = t
          BY <1>3, <3>1, <4>1
        <5>2. QED
          BY <5>1
      <4>2. CASE n >= Len(old)
        <5>1. n \in Len(old) .. Len(old) - 1 + Len(next)
          BY <1>3, <4>2
        <5>2. n - (Len(old) - 1) \in 1 .. Len(next) /\ next[n - (Len(old) - 1)] = t
          BY <1>3, <3>1, <5>1
        <5>3. QED
          BY <5>2
      <4>3. QED
        BY <1>3, <4>1, <4>2
    <3>2. ASSUME NEW n \in 2 .. Len(old), old[n] = t
          PROVE  \E i \in 1 .. Len(new) : new[i] = t
      <4>1. n - 1 \in 1 .. Len(new) /\ new[n - 1] = t
        BY <1>3, <3>2
      <4>2. QED
        BY <4>1
    <3>3. ASSUME NEW n \in 1 .. Len(next), next[n] = t
          PROVE  \E i \in 1 .. Len(new) : new[i] = t
      <4>1. Len(old) - 1 + n \in 1 .. Len(new) /\ new[Len(old) - 1 + n] = t
        BY <1>3, <3>3
      <4>2. QED
        BY <4>1
    <3>4. QED
      BY <3>1, <3>2, <3>3
  <2>5. (\E n \in 2 .. Len(old) : old[n] = t) <=> Pending(q, k) /\ (q = p => k # kind)
    <3>1. ASSUME NEW n \in 2 .. Len(old), old[n] = t
          PROVE  Pending(q, k) /\ (q = p => k # kind)
      <4>1. Compatible(Task(p, kind), t)
        BY <1>2, <3>1
      <4>2. q = p => k # kind
        BY <4>1 DEF Compatible, Task
      <4>3. QED
        BY <1>3, <2>1, <3>1, <4>2
    <3>2. ASSUME Pending(q, k), q = p => k # kind
          PROVE  \E n \in 2 .. Len(old) : old[n] = t
      <4>1. PICK n \in 1 .. Len(old) : old[n] = t
        BY <2>1, <3>2
      <4>2. n # 1
        BY <1>2, <3>2, <4>1 DEF Task
      <4>3. QED
        BY <1>3, <4>1, <4>2
    <3>3. QED
      BY <3>1, <3>2
  <2>6. QED
    BY <1>3, <2>2, <2>3, <2>4, <2>5
<1>8. QED
  BY <1>6, <1>7

(* The queues stay in order if what a task leaves behind may follow the    *)
(* other tasks of its MeshData that are pending.                           *)
LEMMA QueuesAfter ==
  ASSUME TypeOK, QueuesInOrder, NEW r \in Ranks, NEW p, NEW kind, NEW next \in Seq(TaskType),
         Run(r, Task(p, kind), next), \A n \in DOMAIN next : next[n].part = p,
         InOrder(next),
         \A k \in Kinds : Pending(p, k) /\ (k = kind => kind = "start") =>
           \A n \in DOMAIN next : Compatible(Task(p, k), next[n])
  PROVE  QueuesInOrder' /\ queue' \in [Ranks -> Seq(TaskType)]
<1> DEFINE old == queue[r]
           new == Tail(old) \o next
<1>1. /\ AtHead(r, Task(p, kind)) /\ queue' = [queue EXCEPT ![r] = new]
      /\ queue \in [Ranks -> Seq(TaskType)]
  BY DEF Run, TypeOK
<1>2. /\ p \in Parts /\ kind \in Kinds /\ Rank[p] = r
      /\ old \in Seq(TaskType) /\ old # <<>>
      /\ \A n \in 2 .. Len(old) : Compatible(Task(p, kind), old[n])
  BY <1>1, HeadFacts
<1>3. /\ new \in Seq(TaskType)
      /\ Len(new) = Len(old) - 1 + Len(next)
      /\ Len(old) \in Nat \ {0} /\ Len(next) \in Nat
      /\ \A n \in 1 .. Len(old) - 1 : new[n] = old[n + 1]
      /\ \A n \in 1 .. Len(next) : new[Len(old) - 1 + n] = next[n]
      /\ \A n \in Len(old) .. Len(old) - 1 + Len(next) :
           n - (Len(old) - 1) \in 1 .. Len(next) /\ new[n] = next[n - (Len(old) - 1)]
  <2>1. old \in Seq(TaskType) /\ old # <<>> /\ next \in Seq(TaskType)
    BY <1>2
  <2> HIDE DEF old
  <2>2. QED
    BY <2>1, QueueAfter
<1>4. queue'[r] = new /\ \A s \in Ranks : s # r => queue'[s] = queue[s]
  BY <1>1
<1>5. queue' \in [Ranks -> Seq(TaskType)]
  BY <1>1, <1>3
<1> HIDE DEF new
<1>6. ASSUME NEW m \in 2 .. Len(old), NEW n \in DOMAIN next
      PROVE  Compatible(old[m], next[n])
  <2>1. old[m] \in TaskType /\ m \in DOMAIN old
    BY <1>2, <1>3
  <2>2. CASE old[m].part # p \/ old[m].kind = "start"
    BY <2>2 DEF Compatible
  <2>3. CASE old[m].part = p /\ old[m].kind # "start"
    <3>1. old[m] = Task(p, old[m].kind) /\ old[m].kind \in Kinds
      BY <2>1, <2>3 DEF TaskType, Task
    <3>2. Pending(p, old[m].kind)
      BY <1>2, <2>1, <3>1 DEF Pending
    <3>3. old[m].kind = kind => kind = "start"
      <4>1. Compatible(Task(p, kind), old[m])
        BY <1>2
      <4>2. QED
        BY <2>3, <4>1 DEF Compatible, Task
    <3>4. QED
      BY <3>1, <3>2, <3>3
  <2>4. QED
    BY <2>2, <2>3
<1>7. InOrder(new)
  <2>1. InOrder(old)
    BY DEF QueuesInOrder
  <2>2. QED
    BY <1>2, <1>6, <2>1, InOrderAfter DEF new
<1>8. ASSUME NEW n \in DOMAIN new
      PROVE  Rank[new[n].part] = r
  <2>1. n \in 1 .. Len(old) - 1 + Len(next)
    BY <1>3
  <2>2. CASE n < Len(old)
    <3>1. n + 1 \in DOMAIN old /\ new[n] = old[n + 1]
      <4>1. ASSUME NEW l \in Nat, NEW m \in Nat, n \in 1 .. l - 1 + m, n < l
            PROVE  n \in 1 .. l - 1 /\ n + 1 \in 1 .. l
        BY <4>1
      <4>2. n \in 1 .. Len(old) - 1 /\ n + 1 \in 1 .. Len(old)
        BY <1>3, <2>1, <2>2, <4>1
      <4>3. DOMAIN old = 1 .. Len(old)
        BY <1>2
      <4>4. new[n] = old[n + 1]
        BY <1>3, <4>2
      <4>5. QED
        BY <4>2, <4>3, <4>4
    <3>a. \A m \in DOMAIN old : Rank[old[m].part] = r
      BY Zenon DEF QueuesInOrder
    <3>2. Rank[old[n + 1].part] = r
      BY <3>1, <3>a, Zenon
    <3>3. QED
      BY <3>1, <3>2
  <2>3. CASE n >= Len(old)
    <3>1. n \in Len(old) .. Len(old) - 1 + Len(next)
      BY <1>3, <2>1, <2>3
    <3>2. n - (Len(old) - 1) \in 1 .. Len(next) /\ new[n] = next[n - (Len(old) - 1)]
      BY <1>3, <3>1
    <3>3. DOMAIN next = 1 .. Len(next)
      OBVIOUS
    <3>4. QED
      BY <1>2, <3>2, <3>3
  <2>4. QED
    BY <1>3, <2>1, <2>2, <2>3
<1>9. QueuesInOrder'
  BY <1>4, <1>7, <1>8 DEF QueuesInOrder
<1>10. QED
  BY <1>5, <1>9

(* The tasks of one exchange. *)
LEMMA ExchangeFacts ==
  ASSUME NEW p \in Parts
  PROVE  /\ Exchange(p) \in Seq(TaskType)
         /\ Len(Exchange(p)) = IF EarlyReceives THEN 3 ELSE 2
         /\ \A n \in DOMAIN Exchange(p) : Exchange(p)[n].part = p
         /\ InOrder(Exchange(p))
         /\ \A k \in Kinds \ {"start"} :
              (\E n \in DOMAIN Exchange(p) : Exchange(p)[n].kind = k) <=> k \in {"send", "receive"}
<1>1. \A k \in Kinds : Task(p, k) \in TaskType /\ Task(p, k).part = p /\ Task(p, k).kind = k
  BY DEF TaskType, Task
<1>2. "start" \in Kinds /\ "send" \in Kinds /\ "receive" \in Kinds
  BY DEF Kinds
<1>3. CASE EarlyReceives
  <2>1. Exchange(p) = <<Task(p, "start"), Task(p, "send"), Task(p, "receive")>>
    BY <1>3 DEF Exchange
  <2>2. /\ Exchange(p) \in Seq(TaskType) /\ Len(Exchange(p)) = 3 /\ DOMAIN Exchange(p) = 1 .. 3
        /\ Exchange(p)[1] = Task(p, "start") /\ Exchange(p)[2] = Task(p, "send")
        /\ Exchange(p)[3] = Task(p, "receive")
    BY <1>1, <1>2, <2>1
  <2>3. InOrder(Exchange(p))
    BY <1>1, <1>2, <2>2 DEF InOrder, Compatible
  <2>4. \A k \in Kinds \ {"start"} :
          (\E n \in DOMAIN Exchange(p) : Exchange(p)[n].kind = k) <=> k \in {"send", "receive"}
    BY <1>1, <1>2, <2>2
  <2>5. QED
    BY <1>1, <1>2, <1>3, <2>2, <2>3, <2>4
<1>4. CASE ~EarlyReceives
  <2>1. Exchange(p) = <<Task(p, "send"), Task(p, "receive")>>
    BY <1>4 DEF Exchange
  <2>2. /\ Exchange(p) \in Seq(TaskType) /\ Len(Exchange(p)) = 2 /\ DOMAIN Exchange(p) = 1 .. 2
        /\ Exchange(p)[1] = Task(p, "send") /\ Exchange(p)[2] = Task(p, "receive")
    BY <1>1, <1>2, <2>1
  <2>3. InOrder(Exchange(p))
    BY <1>1, <1>2, <2>2 DEF InOrder, Compatible
  <2>4. \A k \in Kinds \ {"start"} :
          (\E n \in DOMAIN Exchange(p) : Exchange(p)[n].kind = k) <=> k \in {"send", "receive"}
    BY <1>1, <1>2, <2>2
  <2>5. QED
    BY <1>1, <1>2, <1>4, <2>2, <2>3, <2>4
<1>5. QED
  BY <1>3, <1>4

(* Where the tasks of L exchanges of K tasks each are in a sequence. *)
LEMMA Positions ==
  ASSUME NEW K \in {2, 3}, NEW L \in Nat
  PROVE  /\ K * L \in Nat
         /\ \A n \in 1 .. K * L : ((n - 1) \div K) + 1 \in 1 .. L /\ ((n - 1) % K) + 1 \in 1 .. K
         /\ \A m, n \in 1 .. K * L :
              m < n /\ (m - 1) \div K = (n - 1) \div K => (m - 1) % K < (n - 1) % K
         /\ \A i \in 1 .. L, j \in 1 .. K :
              /\ K * (i - 1) + j \in 1 .. K * L
              /\ ((K * (i - 1) + j - 1) \div K) + 1 = i
              /\ ((K * (i - 1) + j - 1) % K) + 1 = j
<1>1. CASE K = 2
  BY <1>1
<1>2. CASE K = 3
  BY <1>2
<1>3. QED
  BY <1>1, <1>2

(* The queues initially: one exchange of every MeshData. *)
LEMMA FirstTasksFacts ==
  ASSUME NEW r \in Ranks
  PROVE  /\ FirstTasks(r) \in Seq(TaskType)
         /\ InOrder(FirstTasks(r))
         /\ \A n \in DOMAIN FirstTasks(r) : Rank[FirstTasks(r)[n].part] = r
         /\ \A p \in Parts, k \in {"send", "receive"} : Rank[p] = r =>
              \E n \in DOMAIN FirstTasks(r) : FirstTasks(r)[n] = Task(p, k)
         /\ \A n \in DOMAIN FirstTasks(r) : FirstTasks(r)[n].kind \in {"start", "send", "receive"}
<1> DEFINE K == IF EarlyReceives THEN 3 ELSE 2
           L == Len(Lists[r])
           list(n) == ((n - 1) \div K) + 1
           task(n) == ((n - 1) % K) + 1
<1>1. Lists[r] \in Seq(Parts) /\ L \in Nat /\ DOMAIN Lists[r] = 1 .. L
  BY ListsAssumption
<1>2. \A i \in 1 .. L : Lists[r][i] \in Parts /\ Rank[Lists[r][i]] = r
  BY <1>1, RankOfPart
<1>3. EarlyReceives \in BOOLEAN /\ K \in {2, 3}
  BY LinksAssumption
<1>4. FirstTasks(r) = [n \in 1 .. K * L |-> Exchange(Lists[r][list(n)])[task(n)]]
  BY DEF FirstTasks
<1>5. /\ K * L \in Nat
      /\ \A n \in 1 .. K * L : list(n) \in 1 .. L /\ task(n) \in 1 .. K
      /\ \A i \in 1 .. L, j \in 1 .. K :
           /\ K * (i - 1) + j \in 1 .. K * L
           /\ list(K * (i - 1) + j) = i /\ task(K * (i - 1) + j) = j
  <2> HIDE DEF K, L
  <2>1. QED
    BY <1>1, <1>3, Positions
<1>6. \A m, n \in 1 .. K * L : m < n /\ list(m) = list(n) => task(m) < task(n)
  <2> HIDE DEF K, L
  <2>1. QED
    BY <1>1, <1>3, Positions
<1>7. ASSUME NEW i \in 1 .. L
      PROVE  /\ Exchange(Lists[r][i]) \in Seq(TaskType) /\ DOMAIN Exchange(Lists[r][i]) = 1 .. K
             /\ \A j \in 1 .. K : /\ Exchange(Lists[r][i])[j].part = Lists[r][i]
                                  /\ Exchange(Lists[r][i])[j] \in TaskType
                                  /\ Exchange(Lists[r][i])[j].kind \in {"start", "send", "receive"}
             /\ InOrder(Exchange(Lists[r][i]))
  <2>1. Exchange(Lists[r][i]) \in Seq(TaskType) /\ Len(Exchange(Lists[r][i])) = K
        /\ InOrder(Exchange(Lists[r][i]))
        /\ \A j \in DOMAIN Exchange(Lists[r][i]) : Exchange(Lists[r][i])[j].part = Lists[r][i]
    BY <1>2, <1>3, ExchangeFacts
  <2>2. \A j \in 1 .. K : Exchange(Lists[r][i])[j].kind \in {"start", "send", "receive"}
    BY <1>3 DEF Exchange, Task
  <2>3. QED
    BY <1>3, <2>1, <2>2
<1> HIDE DEF K, L, list, task
<1>8. FirstTasks(r) \in Seq(TaskType) /\ DOMAIN FirstTasks(r) = 1 .. K * L
  <2>1. \A n \in 1 .. K * L : Exchange(Lists[r][list(n)])[task(n)] \in TaskType
    BY <1>5, <1>7
  <2>2. FirstTasks(r) \in [1 .. K * L -> TaskType]
    BY <1>4, <2>1
  <2>3. ASSUME NEW N \in Nat, FirstTasks(r) \in [1 .. N -> TaskType]
        PROVE  FirstTasks(r) \in Seq(TaskType)
    BY <2>3
  <2>4. FirstTasks(r) \in Seq(TaskType)
    BY <1>5, <2>2, <2>3
  <2>5. DOMAIN FirstTasks(r) = 1 .. K * L
    BY <2>2, Zenon
  <2>6. QED
    BY <2>4, <2>5
<1>9. ASSUME NEW m \in 1 .. K * L, NEW n \in 1 .. K * L, m < n
       PROVE  Compatible(FirstTasks(r)[m], FirstTasks(r)[n])
  <2>1. /\ FirstTasks(r)[m] = Exchange(Lists[r][list(m)])[task(m)]
        /\ FirstTasks(r)[n] = Exchange(Lists[r][list(n)])[task(n)]
        /\ FirstTasks(r)[m].part = Lists[r][list(m)] /\ FirstTasks(r)[n].part = Lists[r][list(n)]
    <3>1. ASSUME NEW k \in 1 .. K * L
          PROVE  /\ FirstTasks(r)[k] = Exchange(Lists[r][list(k)])[task(k)]
                 /\ FirstTasks(r)[k].part = Lists[r][list(k)]
      <4>1. FirstTasks(r)[k] = Exchange(Lists[r][list(k)])[task(k)]
        BY <1>4
      <4>2. list(k) \in 1 .. L /\ task(k) \in 1 .. K
        BY <1>5
      <4>3. QED
        BY <1>7, <4>1, <4>2
    <3>2. QED
      BY <3>1
  <2>2. CASE list(m) = list(n)
    <3>1. task(m) < task(n) /\ task(m) \in DOMAIN Exchange(Lists[r][list(m)])
          /\ task(n) \in DOMAIN Exchange(Lists[r][list(m)])
      BY <1>5, <1>6, <1>7, <1>9, <2>2
    <3>2. QED
      BY <1>5, <1>7, <2>1, <2>2, <3>1 DEF InOrder
  <2>3. CASE list(m) # list(n)
    <3>1. Lists[r][list(m)] # Lists[r][list(n)]
      BY <1>1, <1>5, <2>3, ListsAssumption
    <3>2. QED
      BY <2>1, <3>1 DEF Compatible
  <2>4. QED
    BY <2>2, <2>3
<1>10. ASSUME NEW p \in Parts, NEW k \in {"send", "receive"}, Rank[p] = r
       PROVE  \E n \in DOMAIN FirstTasks(r) : FirstTasks(r)[n] = Task(p, k)
  <2>1. PICK i \in 1 .. L : Lists[r][i] = p
    <3>1. PICK s \in Ranks : p \in ToSet(Lists[s])
      BY DEF Parts
    <3>2. PICK m \in DOMAIN Lists[s] : Lists[s][m] = p
      BY <3>1 DEF ToSet
    <3>3. s = r
      BY <1>10, <3>2, RankOfPart
    <3>4. QED
      BY <1>1, <3>2, <3>3
  <2>2. PICK j \in 1 .. K : Exchange(p)[j] = Task(p, k)
    <3>1. CASE EarlyReceives
      BY <3>1 DEF K, Exchange
    <3>2. CASE ~EarlyReceives
      BY <3>2 DEF K, Exchange
    <3>3. QED
      BY <3>1, <3>2
  <2>3. QED
    BY <1>4, <1>5, <1>8, <2>1, <2>2
<1>11. QED
  <2>1. InOrder(FirstTasks(r))
    BY <1>8, <1>9 DEF InOrder
  <2>2. \A n \in DOMAIN FirstTasks(r) :
          /\ Rank[FirstTasks(r)[n].part] = r
          /\ FirstTasks(r)[n].kind \in {"start", "send", "receive"}
    BY <1>2, <1>4, <1>5, <1>7, <1>8
  <2>3. QED
    BY <1>8, <1>10, <2>1, <2>2

(* What is pending when a task has run and left behind one other, or none. *)
LEMMA RunOne ==
  ASSUME TypeOK, QueuesInOrder, NEW r \in Ranks, NEW p, NEW kind, kind # "start",
         NEW next \in Kinds \ {"start"}, Run(r, Task(p, kind), <<Task(p, next)>>),
         \A k \in Kinds \ {"start", kind} : Pending(p, k) =>
           <<k, next>> \in {<<"send", "receive">>, <<"receive", "send">>, <<"send", "set">>}
  PROVE  /\ QueuesInOrder' /\ queue' \in [Ranks -> Seq(TaskType)]
         /\ \A q \in Parts, k \in Kinds \ {"start"} :
              Pending(q, k)' <=> \/ Pending(q, k) /\ (q = p => k # kind)
                                 \/ q = p /\ k = next
<1> DEFINE left == <<Task(p, next)>>
<1>1. p \in Parts /\ kind \in Kinds
  BY HeadFacts DEF Run
<1>2. /\ left \in Seq(TaskType) /\ DOMAIN left = {1}
      /\ left[1] = Task(p, next) /\ Task(p, next).part = p /\ Task(p, next).kind = next
  BY <1>1 DEF TaskType, Task
<1>3. InOrder(left) /\ \A n \in DOMAIN left : left[n].part = p
  BY <1>2 DEF InOrder
<1>4. ASSUME NEW k \in Kinds, Pending(p, k), k = kind => kind = "start"
      PROVE  Compatible(Task(p, k), Task(p, next))
  BY <1>4 DEF Compatible, Task
<1>5. \A k \in Kinds \ {"start"} : (\E n \in DOMAIN left : left[n].kind = k) <=> k = next
  BY <1>2
<1>6. Run(r, Task(p, kind), left)
  OBVIOUS
<1> HIDE DEF left
<1>7. QueuesInOrder' /\ queue' \in [Ranks -> Seq(TaskType)]
  BY <1>2, <1>3, <1>4, <1>6, QueuesAfter
<1>8. \A q \in Parts, k \in Kinds \ {"start"} :
        Pending(q, k)' <=> \/ Pending(q, k) /\ (q = p => k # kind)
                           \/ q = p /\ \E n \in DOMAIN left : left[n].kind = k
  BY <1>2, <1>3, <1>6, PendingAfter
<1>9. QED
  BY <1>5, <1>7, <1>8

LEMMA RunNone ==
  ASSUME TypeOK, QueuesInOrder, NEW r \in Ranks, NEW p, NEW kind, Run(r, Task(p, kind), <<>>)
  PROVE  /\ QueuesInOrder' /\ queue' \in [Ranks -> Seq(TaskType)]
         /\ \A q \in Parts, k \in Kinds \ {"start"} :
              Pending(q, k)' <=> Pending(q, k) /\ (q = p => k # kind)
<1> DEFINE left == <<>>
<1>1. left \in Seq(TaskType)
  OBVIOUS
<1>2. DOMAIN left = {}
  OBVIOUS
<1>3. InOrder(left)
  BY <1>2 DEF InOrder
<1>4. \A n \in DOMAIN left : left[n].part = p
  BY <1>2
<1>5. Run(r, Task(p, kind), left)
  OBVIOUS
<1>6. \A k \in Kinds : Pending(p, k) /\ (k = kind => kind = "start") =>
        \A n \in DOMAIN left : Compatible(Task(p, k), left[n])
  BY <1>2
<1> HIDE DEF left
<1>7. QueuesInOrder' /\ queue' \in [Ranks -> Seq(TaskType)]
  BY <1>1, <1>3, <1>4, <1>5, <1>6, QueuesAfter
<1>8. \A q \in Parts, k \in Kinds \ {"start"} :
        Pending(q, k)' <=> \/ Pending(q, k) /\ (q = p => k # kind)
                           \/ q = p /\ \E n \in DOMAIN left : left[n].kind = k
  BY <1>1, <1>4, <1>5, PendingAfter
<1>9. QED
  BY <1>2, <1>7, <1>8

(* A send cannot be blocked while SetBounds is pending: all that p needs   *)
(* has come, so its neighbours have taken what p sent before.              *)
LEMMA NotBlocked ==
  ASSUME ExchangeInv, NEW p \in Parts, Pending(p, "send"), Pending(p, "set"),
         NEW done, Completed(p) \subseteq done
  PROVE  Available(p, done)
<1>1. SUFFICES ASSUME NEW c \in Outgoing(p)
               PROVE  IsAvailableForWrite(buffer[SendEnd(c)], Nonlocal(c), c \in done)
  BY DEF Available
<1> DEFINE q == c[2]
           d == <<q, p>>
<1>2. c \in Links /\ c[1] = p /\ d \in Links /\ d[1] = q /\ d[2] = p /\ q \in Parts
  BY <1>1, LinkFacts DEF Outgoing
<1>3. /\ ChannelInv(c) /\ ReceiverInv(c) /\ ChannelInv(d) /\ ReceiverInv(d)
      /\ version \in [Parts -> Nat]
      /\ buffer[SendEnd(c)] \in AnyBuffer
  BY <1>2, EndFacts DEF ExchangeInv, TypeOK
<1>4. Taken(d) = version[p] /\ Sent(p) = version[p] - 1
  <2>1. buffer[RecvEnd(d)].state \in Received
    BY <1>2, <1>3 DEF ReceiverInv
  <2>2. QED
    BY <1>2, <2>1 DEF Taken, Sent
<1>5. Taken(d) <= Sent(q)
  <2>1. CASE Nonlocal(d)
    <3>1. flight[d] \in Seq(Sendable)
      BY <1>2, <2>1, EndFacts DEF ExchangeInv, TypeOK
    <3>2. Len(flight[d]) = Sent(q) - Taken(d) /\ Len(flight[d]) \in Nat
      BY <1>2, <1>3, <2>1, <3>1 DEF ChannelInv, NonlocalInv
    <3>3. QED
      BY <1>2, <1>3, <3>2 DEF Sent, Taken
  <2>2. CASE ~Nonlocal(d)
    BY <1>2, <1>3, <2>2 DEF ChannelInv, LocalInv, Sent, Taken
  <2>3. QED
    BY <2>1, <2>2
<1>6. version[q] >= version[p] /\ Taken(c) >= Sent(p)
      /\ (Taken(c) = Sent(p) => buffer[RecvEnd(c)].state \notin Received)
  BY <1>2, <1>3, <1>4, <1>5 DEF Sent, Taken
<1>7. CASE Nonlocal(c)
  <2>1. c \in Channels /\ flight[c] \in Seq(Sendable)
    BY <1>2, <1>7, EndFacts DEF ExchangeInv, TypeOK
  <2>2. Len(flight[c]) = Sent(p) - Taken(c) /\ Len(flight[c]) \in Nat
    BY <1>2, <1>3, <1>7, <2>1 DEF ChannelInv, NonlocalInv
  <2>3. flight[c] = <<>>
    BY <1>2, <1>3, <1>6, <2>1, <2>2 DEF Sent, Taken
  <2>4. c \in done
    BY <1>1, <2>1, <2>3 DEF Completed
  <2>5. QED
    BY <1>7, <2>4 DEF IsAvailableForWrite
<1>8. CASE ~Nonlocal(c)
  <2>1. SendEnd(c) = RecvEnd(c)
    BY <1>2, <1>8, EndFacts
  <2>2. buffer[SendEnd(c)].state \notin {"sending", "sending_null"} /\ Taken(c) = Sent(p)
    BY <1>2, <1>3, <1>6, <1>8 DEF ChannelInv, LocalInv, Sent, Taken
  <2>3. buffer[SendEnd(c)].state \notin Received
    BY <1>6, <2>1, <2>2
  <2>4. buffer[SendEnd(c)].state = "stale"
    BY <1>3, <2>2, <2>3 DEF AnyBuffer, BufferState, Received
  <2>5. QED
    BY <2>4 DEF IsAvailableForWrite
<1>9. QED
  BY <1>7, <1>8

-----------------------------------------------------------------------------
(***************************************************************************)
(* ExchangeInv is inductive.                                               *)
(***************************************************************************)
LEMMA ExchangeInit == Init => ExchangeInv
<1> SUFFICES ASSUME Init PROVE ExchangeInv
  OBVIOUS
<1>1. \A r \in Ranks : queue[r] = FirstTasks(r)
  BY DEF Init
<1>2. QueuesInOrder /\ queue \in [Ranks -> Seq(TaskType)]
  BY <1>1, FirstTasksFacts DEF Init, QueuesInOrder
<1>3. ASSUME NEW p \in Parts
      PROVE  /\ Pending(p, "send") /\ Pending(p, "receive")
             /\ ~Pending(p, "set") /\ ~Pending(p, "compute")
  <2>1. Rank[p] \in Ranks
    BY RankType
  <2>2. Pending(p, "send") /\ Pending(p, "receive")
    <3>1. queue[Rank[p]] = FirstTasks(Rank[p])
      BY <1>1, <2>1
    <3>2. \A k \in {"send", "receive"} :
            \E n \in DOMAIN FirstTasks(Rank[p]) : FirstTasks(Rank[p])[n] = Task(p, k)
      BY <2>1, FirstTasksFacts
    <3>3. QED
      BY <3>1, <3>2 DEF Pending
  <2>3. \A n \in DOMAIN queue[Rank[p]] : queue[Rank[p]][n].kind \in {"start", "send", "receive"}
    BY <1>1, <2>1, FirstTasksFacts
  <2>4. QED
    BY <2>2, <2>3 DEF Pending, Task
<1>4. NewBuffer \in AnyBuffer
  BY DEF NewBuffer, AnyBuffer, BufferState, Sendable
<1>5. TypeOK
  BY <1>2, <1>4 DEF TypeOK, Init
<1>6. GhostInv
  BY <1>3 DEF GhostInv, Filled, Init
<1>7. ASSUME NEW c \in Links
      PROVE  ChannelInv(c) /\ ReceiverInv(c)
  <2>1. /\ c[1] \in Parts /\ c[2] \in Parts /\ SendEnd(c) \in Ends /\ RecvEnd(c) \in Ends
        /\ c \in Channels <=> Nonlocal(c)
    BY LinkFacts, EndFacts
  <2>2. buffer[SendEnd(c)].state = "stale" /\ buffer[RecvEnd(c)].state = "stale"
    BY <2>1 DEF Init, NewBuffer
  <2>3. version[c[1]] = 1 /\ version[c[2]] = 1
    BY <2>1 DEF Init
  <2>4. Sent(c[1]) = 0 /\ Taken(c) = 0
    BY <1>3, <2>1, <2>2, <2>3 DEF Sent, Taken, Received
  <2>5. Nonlocal(c) => flight[c] = <<>>
    BY <2>1 DEF Init
  <2>6. QED
    BY <1>3, <2>1, <2>2, <2>4, <2>5 DEF ChannelInv, NonlocalInv, LocalInv, ReceiverInv, Received
<1>8. QED
  BY <1>2, <1>5, <1>6, <1>7 DEF ExchangeInv, Init

(* A buffer remains one, whatever is done to its state or its storage. *)
LEMMA TestedFits ==
  ASSUME NEW b \in AnyBuffer, NEW d
  PROVE  Tested(b, d) \in AnyBuffer
<1>1. CASE b.request /\ d
  BY <1>1 DEF Tested, AnyBuffer, BufferState
<1>2. CASE ~(b.request /\ d)
  BY <1>2 DEF Tested
<1>3. QED
  BY <1>1, <1>2

LEMMA StorageFits ==
  ASSUME NEW b \in AnyBuffer, NEW a \in BOOLEAN
  PROVE  Storage(b, a) \in AnyBuffer
BY DEF Storage, AnyBuffer

LEMMA StaleFits ==
  ASSUME NEW b \in AnyBuffer
  PROVE  Stale(b) \in AnyBuffer /\ Stale(b).data = b.data /\ Stale(b).state = "stale"
BY DEF Stale, AnyBuffer, BufferState

(* Asking whether the buffers are available changes neither the data in    *)
(* them nor what is received.                                              *)
LEMMA CheckEffect ==
  ASSUME TypeOK, NEW p \in Parts, NEW done \in SUBSET (Outgoing(p) \cap Channels),
         NEW after, after = CheckSendBufferCache(p, done)
  PROVE  /\ after \in [Ends -> AnyBuffer]
         /\ \A c \in Links :
              /\ after[RecvEnd(c)].state = buffer[RecvEnd(c)].state
              /\ after[RecvEnd(c)].data = buffer[RecvEnd(c)].data
              /\ after[SendEnd(c)].data = buffer[SendEnd(c)].data
              /\ after[SendEnd(c)].state \in {buffer[SendEnd(c)].state, "stale"}
              /\ c[1] = p => after[SendEnd(c)].active = allocated[p]
              /\ c[1] # p => after[SendEnd(c)] = buffer[SendEnd(c)]
              /\ ~Nonlocal(c) => after[SendEnd(c)].state = buffer[SendEnd(c)].state
<1>1. allocated[p] \in BOOLEAN /\ buffer \in [Ends -> AnyBuffer]
  BY DEF TypeOK
<1>2. after \in [Ends -> AnyBuffer]
  <2>1. \A e \in Ends : after[e] = IF e \in SendEnds[p]
                                   THEN Storage(Tested(buffer[e], e[1] \in done), allocated[p])
                                   ELSE buffer[e]
    BY DEF CheckSendBufferCache
  <2>2. ASSUME NEW e \in Ends
        PROVE  after[e] \in AnyBuffer
    <3>1. buffer[e] \in AnyBuffer
      BY <1>1
    <3>2. CASE e \in SendEnds[p]
      BY <1>1, <2>1, <3>1, <3>2, TestedFits, StorageFits
    <3>3. QED
      BY <2>1, <3>1, <3>2
  <2>3. QED
    BY <2>2 DEF CheckSendBufferCache
<1>3. ASSUME NEW c \in Links
      PROVE  /\ after[RecvEnd(c)].state = buffer[RecvEnd(c)].state
             /\ after[RecvEnd(c)].data = buffer[RecvEnd(c)].data
             /\ after[SendEnd(c)].data = buffer[SendEnd(c)].data
             /\ after[SendEnd(c)].state \in {buffer[SendEnd(c)].state, "stale"}
             /\ c[1] = p => after[SendEnd(c)].active = allocated[p]
             /\ c[1] # p => after[SendEnd(c)] = buffer[SendEnd(c)]
             /\ ~Nonlocal(c) => after[SendEnd(c)].state = buffer[SendEnd(c)].state
  <2>1. /\ SendEnd(c) \in Ends /\ RecvEnd(c) \in Ends /\ SendEnd(c)[1] = c
        /\ SendEnd(c) \in SendEnds[p] <=> c[1] = p
        /\ RecvEnd(c) \in SendEnds[p] <=> c[1] = p /\ ~Nonlocal(c)
        /\ SendEnd(c) = RecvEnd(c) <=> ~Nonlocal(c)
        /\ c \in done => Nonlocal(c)
    BY EndFacts
  <2>2. CASE c[1] # p
    BY <2>1, <2>2 DEF CheckSendBufferCache
  <2>3. CASE c[1] = p
    <3>1. after[SendEnd(c)] = Storage(Tested(buffer[SendEnd(c)], c \in done), allocated[p])
      BY <2>1, <2>3 DEF CheckSendBufferCache
    <3>2. /\ after[SendEnd(c)].data = buffer[SendEnd(c)].data
          /\ after[SendEnd(c)].state \in {buffer[SendEnd(c)].state, "stale"}
          /\ after[SendEnd(c)].active = allocated[p]
          /\ c \notin done => after[SendEnd(c)].state = buffer[SendEnd(c)].state
      BY <1>1, <2>1, <3>1 DEF Storage, Tested, AnyBuffer, BufferState
    <3>3. Nonlocal(c) => after[RecvEnd(c)] = buffer[RecvEnd(c)]
      BY <2>1 DEF CheckSendBufferCache
    <3>4. QED
      BY <2>1, <2>3, <3>2, <3>3
  <2>4. QED
    BY <2>2, <2>3
<1>4. QED
  BY <1>2, <1>3

(* A blocked Send goes to the end of the queue, and nothing else changes. *)
LEMMA SendBlockedStep ==
  ASSUME ExchangeInv, NEW r \in Ranks, NEW p, SendBlocked(r, p)
  PROVE  ExchangeInv'
<1>1. /\ TypeOK /\ QueuesInOrder /\ Run(r, Task(p, "send"), <<Task(p, "send")>>)
      /\ p \in Parts /\ Pending(p, "send")
  BY HeadFacts DEF ExchangeInv, SendBlocked, Run
<1>2. PICK early_done \in SUBSET MayComplete(p) :
        /\ ~Available(p, early_done \cup Completed(p))
        /\ buffer' = CheckSendBufferCache(p, early_done \cup Completed(p))
  BY DEF SendBlocked
<1> DEFINE done == early_done \cup Completed(p)
<1>3. done \in SUBSET (Outgoing(p) \cap Channels) /\ Completed(p) \subseteq done
  BY DEF MayComplete, Completed
<1>4. ~Pending(p, "set")
  BY <1>1, <1>2, <1>3, NotBlocked
<1>5. ~Pending(p, "compute")
  BY <1>1, BehindHead DEF Run
<1>6. /\ QueuesInOrder' /\ queue' \in [Ranks -> Seq(TaskType)]
      /\ \A q \in Parts, k \in Kinds \ {"start"} : Pending(q, k)' <=> Pending(q, k)
  <2>1. \A k \in Kinds \ {"start", "send"} : Pending(p, k) =>
          <<k, "send">> \in {<<"send", "receive">>, <<"receive", "send">>, <<"send", "set">>}
    BY <1>4, <1>5 DEF Kinds
  <2>2. "send" \in Kinds \ {"start"}
    BY DEF Kinds
  <2>3. /\ QueuesInOrder' /\ queue' \in [Ranks -> Seq(TaskType)]
        /\ \A q \in Parts, k \in Kinds \ {"start"} :
             Pending(q, k)' <=> \/ Pending(q, k) /\ (q = p => k # "send")
                                \/ q = p /\ k = "send"
    BY <1>1, <2>1, <2>2, RunOne
  <2>4. QED
    BY <1>1, <2>3
<1>7. /\ buffer' \in [Ends -> AnyBuffer]
      /\ \A c \in Links :
           /\ buffer'[RecvEnd(c)].state = buffer[RecvEnd(c)].state
           /\ buffer'[RecvEnd(c)].data = buffer[RecvEnd(c)].data
           /\ buffer'[SendEnd(c)].data = buffer[SendEnd(c)].data
           /\ ~Nonlocal(c) => buffer'[SendEnd(c)].state = buffer[SendEnd(c)].state
  BY <1>1, <1>2, <1>3, CheckEffect
<1>8. UNCHANGED <<sparse, version, allocated, nonzero, ghost, flight>>
  BY DEF SendBlocked, dataVars
<1>9. TypeOK'
  BY <1>1, <1>6, <1>7, <1>8 DEF TypeOK
<1>10. {"send", "receive", "set"} \subseteq Kinds \ {"start"}
  BY DEF Kinds
<1>11. GhostInv'
  BY <1>6, <1>8, <1>10 DEF ExchangeInv, GhostInv, Filled
<1>12. ASSUME NEW c \in Links
       PROVE  ChannelInv(c)' /\ ReceiverInv(c)'
  <2>1. c[1] \in Parts /\ c[2] \in Parts /\ ChannelInv(c) /\ ReceiverInv(c)
    BY LinkFacts DEF ExchangeInv
  <2>2. Sent(c[1])' = Sent(c[1]) /\ Taken(c)' = Taken(c)
    BY <1>6, <1>7, <1>8, <1>10, <2>1 DEF Sent, Taken
  <2>3. ChannelInv(c)'
    BY <1>7, <1>8, <2>1, <2>2 DEF ChannelInv, NonlocalInv, LocalInv
  <2>4. ReceiverInv(c)'
    BY <1>6, <1>7, <1>8, <1>10, <2>1 DEF ReceiverInv
  <2>5. QED
    BY <2>3, <2>4
<1>13. QED
  BY <1>6, <1>8, <1>9, <1>11, <1>12 DEF ExchangeInv

(* Starting a receive changes neither a state nor the data of a buffer. *)
LEMMA StartChanges ==
  ASSUME TypeOK, NEW r \in Ranks, NEW p \in Parts, StartReceiveBoundBufs(r, p)
  PROVE  /\ buffer' \in [Ends -> AnyBuffer]
         /\ \A e \in Ends : buffer'[e].state = buffer[e].state /\ buffer'[e].data = buffer[e].data
         /\ \A c \in Links : buffer'[SendEnd(c)].active = buffer[SendEnd(c)].active
<1>1. PICK found \in SUBSET {c \in Incoming(p) \cap Channels : flight[c] # <<>>} :
        buffer' = [e \in Ends |->
          IF e \in RecvEnds[p] /\ e[1] \in Channels THEN Started(e[1], found) ELSE buffer[e]]
  BY DEF StartReceiveBoundBufs
<1>2. ASSUME NEW e \in Ends
      PROVE  /\ buffer'[e] \in AnyBuffer
             /\ buffer'[e].state = buffer[e].state /\ buffer'[e].data = buffer[e].data
  <2>1. buffer[e] \in AnyBuffer
    BY DEF TypeOK
  <2>2. CASE e \in RecvEnds[p] /\ e[1] \in Channels
    <3>1. e[1] \in Links /\ Nonlocal(e[1]) /\ (e = SendEnd(e[1]) \/ e = RecvEnd(e[1]))
      BY <2>2, EveryEnd DEF Channels
    <3>2. SendEnd(e[1]) \notin RecvEnds[p]
      BY <3>1, EndFacts
    <3>3. e = RecvEnd(e[1])
      BY <2>2, <3>1, <3>2
    <3>4. buffer'[e] = TryStartReceive(buffer[e], sparse, e[1] \in found, Head(flight[e[1]]))
      BY <1>1, <2>2, <3>3 DEF Started
    <3>5. CASE e[1] \in found
      <4>1. e[1] \in Channels /\ flight[e[1]] # <<>> /\ flight[e[1]] \in Seq(Sendable)
        BY <3>5 DEF TypeOK
      <4>2. Head(flight[e[1]]) \in Sendable
        BY <4>1
      <4>3. Head(flight[e[1]]).null \in BOOLEAN
        BY <4>2 DEF Sendable
      <4>4. QED
        BY <2>1, <3>4, <4>3 DEF TryStartReceive, AnyBuffer
    <3>6. CASE e[1] \notin found
      BY <2>1, <3>4, <3>6 DEF TryStartReceive, AnyBuffer
    <3>7. QED
      BY <3>5, <3>6
  <2>3. CASE ~(e \in RecvEnds[p] /\ e[1] \in Channels)
    BY <1>1, <2>1, <2>3
  <2>4. QED
    BY <2>2, <2>3
<1>3. ASSUME NEW c \in Links
      PROVE  buffer'[SendEnd(c)].active = buffer[SendEnd(c)].active
  <2>1. /\ SendEnd(c) \in Ends /\ SendEnd(c)[1] = c
        /\ SendEnd(c) \in RecvEnds[p] => ~Nonlocal(c)
        /\ c \in Channels <=> Nonlocal(c)
    BY EndFacts
  <2>2. QED
    BY <1>1, <2>1
<1>4. QED
  BY <1>1, <1>2, <1>3

(* A receive that is started early takes no message yet. *)
LEMMA StartStep ==
  ASSUME ExchangeInv, NEW r \in Ranks, NEW p, StartReceiveBoundBufs(r, p)
  PROVE  ExchangeInv'
<1>1. /\ TypeOK /\ QueuesInOrder /\ Run(r, Task(p, "start"), <<>>)
      /\ p \in Parts
  BY HeadFacts DEF ExchangeInv, StartReceiveBoundBufs, Run
<1>2. /\ QueuesInOrder' /\ queue' \in [Ranks -> Seq(TaskType)]
      /\ \A q \in Parts, k \in Kinds \ {"start"} : Pending(q, k)' <=> Pending(q, k)
  BY <1>1, RunNone
<1>3. /\ buffer' \in [Ends -> AnyBuffer]
      /\ \A e \in Ends : buffer'[e].state = buffer[e].state /\ buffer'[e].data = buffer[e].data
  BY <1>1, StartChanges
<1>4. UNCHANGED <<sparse, version, allocated, nonzero, ghost, flight>>
  BY DEF StartReceiveBoundBufs, dataVars
<1>5. TypeOK'
  BY <1>1, <1>2, <1>3, <1>4 DEF TypeOK
<1>6. {"send", "receive", "set"} \subseteq Kinds \ {"start"}
  BY DEF Kinds
<1>7. GhostInv'
  BY <1>2, <1>4, <1>6 DEF ExchangeInv, GhostInv, Filled
<1>8. ASSUME NEW c \in Links
       PROVE  ChannelInv(c)' /\ ReceiverInv(c)'
  <2>1. c[1] \in Parts /\ c[2] \in Parts /\ ChannelInv(c) /\ ReceiverInv(c)
    BY LinkFacts DEF ExchangeInv
  <2>2. SendEnd(c) \in Ends /\ RecvEnd(c) \in Ends
    BY EndFacts
  <2>3. Sent(c[1])' = Sent(c[1]) /\ Taken(c)' = Taken(c)
    BY <1>2, <1>3, <1>4, <1>6, <2>1, <2>2 DEF Sent, Taken
  <2>4. ChannelInv(c)'
    BY <1>3, <1>4, <2>1, <2>2, <2>3 DEF ChannelInv, NonlocalInv, LocalInv
  <2>5. ReceiverInv(c)'
    BY <1>2, <1>3, <1>4, <1>6, <2>1, <2>2 DEF ReceiverInv
  <2>6. QED
    BY <2>4, <2>5
<1>9. QED
  BY <1>2, <1>4, <1>5, <1>7, <1>8 DEF ExchangeInv

(* CommBuffer::Send: a buffer without storage sends a null message. *)
LEMMA SendFacts ==
  ASSUME NEW b \in AnyBuffer, NEW m \in Sendable, NEW nonlocal \in BOOLEAN
  PROVE  /\ Send(b, m, nonlocal) \in AnyBuffer
         /\ Send(b, m, nonlocal).active = b.active
         /\ Send(b, m, nonlocal).data.version = m.version
         /\ Send(b, m, nonlocal).data.null <=> m.null \/ ~b.active
         /\ Send(b, m, nonlocal).state =
              IF Send(b, m, nonlocal).data.null THEN "sending_null" ELSE "sending"
<1> DEFINE sent == [m EXCEPT !.null = @ \/ ~b.active]
<1>1. m.null \in BOOLEAN /\ b.active \in BOOLEAN
  BY DEF AnyBuffer, Sendable
<1>2. sent \in Sendable /\ sent.version = m.version
  BY <1>1 DEF Sendable
<1>3. sent.null <=> m.null \/ ~b.active
  BY <1>1 DEF Sendable
<1>4. Send(b, m, nonlocal) = [b EXCEPT !.state = IF sent.null THEN "sending_null" ELSE "sending",
                                       !.data = sent, !.request = nonlocal]
  BY DEF Send
<1> HIDE DEF sent
<1>5. QED
  BY <1>2, <1>3, <1>4 DEF AnyBuffer, BufferState

(* What a Send leaves in the buffers and gives to MPI. *)
LEMMA SendEffect ==
  ASSUME TypeOK, NEW p \in Parts, NEW done \in SUBSET (Outgoing(p) \cap Channels),
         NEW message \in [Links -> Sendable], \A c \in Links : message[c].version = version[p],
         NEW checked, checked = CheckSendBufferCache(p, done),
         NEW after, \A e \in Ends : after[e] =
           IF e \in SendEnds[p] THEN Send(checked[e], message[e[1]], Nonlocal(e[1])) ELSE checked[e]
  PROVE  /\ \A e \in Ends : after[e] \in AnyBuffer
         /\ \A c \in Links :
              /\ c[1] = p =>
                   /\ after[SendEnd(c)].state \in {"sending", "sending_null"}
                   /\ after[SendEnd(c)].data.version = version[p]
                   /\ after[SendEnd(c)].active = allocated[p]
                   /\ after[SendEnd(c)].data.null <=> message[c].null \/ ~allocated[p]
                   /\ after[SendEnd(c)].data.null <=> after[SendEnd(c)].state = "sending_null"
              /\ c[1] # p => after[SendEnd(c)] = buffer[SendEnd(c)]
              /\ c[1] # p \/ Nonlocal(c) =>
                   /\ after[RecvEnd(c)].state = buffer[RecvEnd(c)].state
                   /\ after[RecvEnd(c)].data = buffer[RecvEnd(c)].data
<1>1. /\ checked \in [Ends -> AnyBuffer]
      /\ \A c \in Links :
           /\ checked[RecvEnd(c)].state = buffer[RecvEnd(c)].state
           /\ checked[RecvEnd(c)].data = buffer[RecvEnd(c)].data
           /\ c[1] = p => checked[SendEnd(c)].active = allocated[p]
           /\ c[1] # p => checked[SendEnd(c)] = buffer[SendEnd(c)]
  BY CheckEffect
<1>2. version[p] \in Nat /\ allocated[p] \in BOOLEAN
  BY DEF TypeOK
<1>3. ASSUME NEW e \in Ends, e \in SendEnds[p]
      PROVE  /\ after[e] \in AnyBuffer
             /\ after[e].state \in {"sending", "sending_null"}
             /\ after[e].data.version = version[p]
             /\ after[e].active = checked[e].active
             /\ after[e].data.null <=> message[e[1]].null \/ ~checked[e].active
             /\ after[e].data.null <=> after[e].state = "sending_null"
  <2>1. after[e] = Send(checked[e], message[e[1]], Nonlocal(e[1]))
    BY <1>3
  <2>2. checked[e] \in AnyBuffer /\ Nonlocal(e[1]) \in BOOLEAN
    BY <1>1 DEF Nonlocal
  <2>3. e[1] \in Links
    BY EveryEnd
  <2>4. message[e[1]] \in Sendable /\ message[e[1]].version = version[p]
    BY <2>3
  <2>5. QED
    BY <2>1, <2>2, <2>4, SendFacts
<1>4. \A e \in Ends : after[e] \in AnyBuffer
  BY <1>1, <1>3
<1>5. ASSUME NEW c \in Links
      PROVE  /\ c[1] = p =>
                  /\ after[SendEnd(c)].state \in {"sending", "sending_null"}
                  /\ after[SendEnd(c)].data.version = version[p]
                  /\ after[SendEnd(c)].active = allocated[p]
                  /\ after[SendEnd(c)].data.null <=> message[c].null \/ ~allocated[p]
                  /\ after[SendEnd(c)].data.null <=> after[SendEnd(c)].state = "sending_null"
             /\ c[1] # p => after[SendEnd(c)] = buffer[SendEnd(c)]
             /\ c[1] # p \/ Nonlocal(c) =>
                  /\ after[RecvEnd(c)].state = buffer[RecvEnd(c)].state
                  /\ after[RecvEnd(c)].data = buffer[RecvEnd(c)].data
  <2>1. /\ SendEnd(c) \in Ends /\ RecvEnd(c) \in Ends /\ SendEnd(c)[1] = c
        /\ SendEnd(c) \in SendEnds[p] <=> c[1] = p
        /\ RecvEnd(c) \in SendEnds[p] <=> c[1] = p /\ ~Nonlocal(c)
    BY EndFacts
  <2>2. /\ c[1] = p => SendEnd(c) \in SendEnds[p] /\ checked[SendEnd(c)].active = allocated[p]
        /\ c[1] # p => SendEnd(c) \notin SendEnds[p] /\ checked[SendEnd(c)] = buffer[SendEnd(c)]
    BY <1>1, <2>1
  <2>3. c[1] # p \/ Nonlocal(c) => after[RecvEnd(c)] = checked[RecvEnd(c)]
    BY <2>1
  <2>4. c[1] # p => after[SendEnd(c)] = checked[SendEnd(c)]
    BY <2>1, <2>2
  <2>5. QED
    BY <1>1, <1>3, <2>1, <2>2, <2>3, <2>4
<1>6. QED
  BY <1>4, <1>5

(* Everything that SendBoundBufs changes but the queue. *)
LEMMA SendChanges ==
  ASSUME TypeOK, NEW r \in Ranks, NEW p \in Parts, SendBoundBufs(r, p)
  PROVE  /\ buffer' \in [Ends -> AnyBuffer] /\ flight' \in [Channels -> Seq(Sendable)]
         /\ \A c \in Links :
              /\ c[1] = p =>
                   /\ ~Nonlocal(c) => buffer[SendEnd(c)].state = "stale"
                   /\ buffer'[SendEnd(c)].state \in {"sending", "sending_null"}
                   /\ buffer'[SendEnd(c)].data.version = version[p]
                   /\ buffer'[SendEnd(c)].active = allocated[p]
                   /\ ~buffer'[SendEnd(c)].data.null => allocated[p] /\ nonzero[p]
                   /\ buffer'[SendEnd(c)].data.null <=> buffer'[SendEnd(c)].state = "sending_null"
              /\ c[1] # p => buffer'[SendEnd(c)] = buffer[SendEnd(c)]
              /\ c[1] # p \/ Nonlocal(c) =>
                   /\ buffer'[RecvEnd(c)].state = buffer[RecvEnd(c)].state
                   /\ buffer'[RecvEnd(c)].data = buffer[RecvEnd(c)].data
         /\ \A c \in Channels :
              /\ c[1] = p => \E m \in Sendable :
                              m.version = version[p] /\ flight'[c] = Append(flight[c], m)
              /\ c[1] # p => flight'[c] = flight[c]
<1>1. PICK early_done \in SUBSET MayComplete(p), loud \in SUBSET Outgoing(p) :
        /\ Available(p, early_done \cup Completed(p))
        /\ loud # {} => nonzero[p]
        /\ buffer' = [e \in Ends |->
             IF e \in SendEnds[p]
             THEN Send(CheckSendBufferCache(p, early_done \cup Completed(p))[e],
                       [version |-> version[p], null |-> e[1] \notin loud], Nonlocal(e[1]))
             ELSE CheckSendBufferCache(p, early_done \cup Completed(p))[e]]
        /\ flight' = [c \in Channels |->
             IF c \in Outgoing(p)
             THEN Append(flight[c], [version |-> version[p], null |-> c \notin loud]) ELSE flight[c]]
  BY DEF SendBoundBufs
<1> DEFINE done    == early_done \cup Completed(p)
           checked == CheckSendBufferCache(p, done)
           message == [c \in Links |-> [version |-> version[p], null |-> c \notin loud]]
<1>2. done \in SUBSET (Outgoing(p) \cap Channels)
  BY DEF MayComplete, Completed
<1>3. /\ message \in [Links -> Sendable]
      /\ \A c \in Links : message[c].version = version[p] /\ (message[c].null <=> c \notin loud)
  BY DEF TypeOK, Sendable
<1>4. /\ \A e \in Ends : buffer'[e] = IF e \in SendEnds[p]
                                      THEN Send(checked[e], message[e[1]], Nonlocal(e[1]))
                                      ELSE checked[e]
      /\ buffer' = [e \in Ends |-> buffer'[e]]
  <2>1. ASSUME NEW e \in Ends
        PROVE  buffer'[e] = IF e \in SendEnds[p]
                            THEN Send(checked[e], message[e[1]], Nonlocal(e[1])) ELSE checked[e]
    BY <1>1, EveryEnd
  <2>2. buffer' = [e \in Ends |-> buffer'[e]]
    BY <1>1
  <2>3. QED
    BY <2>1, <2>2
<1>5. \A c \in Channels : flight'[c] = IF c[1] = p THEN Append(flight[c], message[c]) ELSE flight[c]
  BY <1>1 DEF Outgoing, Channels
<1>6. flight' \in [Channels -> Seq(Sendable)]
  <2> HIDE DEF message
  <2>1. ASSUME NEW c \in Channels
        PROVE  flight'[c] \in Seq(Sendable)
    <3>1. flight[c] \in Seq(Sendable) /\ message[c] \in Sendable
      BY <1>3 DEF TypeOK, Channels
    <3>2. Append(flight[c], message[c]) \in Seq(Sendable)
      BY <3>1
    <3>3. CASE c[1] = p
      BY <1>5, <3>2, <3>3
    <3>4. CASE c[1] # p
      BY <1>5, <3>1, <3>4
    <3>5. QED
      BY <3>3, <3>4
  <2>2. QED
    BY <1>1, <2>1
<1>7. \A c \in Links : c[1] = p /\ ~Nonlocal(c) => buffer[SendEnd(c)].state = "stale"
  BY <1>1 DEF Available, Outgoing, IsAvailableForWrite
<1>8. checked = CheckSendBufferCache(p, done)
  OBVIOUS
<1> HIDE DEF checked, done, message
<1>9. \A e \in Ends : buffer'[e] \in AnyBuffer
  BY <1>2, <1>3, <1>4, <1>8, SendEffect
<1>10. ASSUME NEW c \in Links
       PROVE  /\ c[1] = p =>
                   /\ buffer'[SendEnd(c)].state \in {"sending", "sending_null"}
                   /\ buffer'[SendEnd(c)].data.version = version[p]
                   /\ buffer'[SendEnd(c)].active = allocated[p]
                   /\ buffer'[SendEnd(c)].data.null <=> message[c].null \/ ~allocated[p]
                   /\ buffer'[SendEnd(c)].data.null <=> buffer'[SendEnd(c)].state = "sending_null"
              /\ c[1] # p => buffer'[SendEnd(c)] = buffer[SendEnd(c)]
              /\ c[1] # p \/ Nonlocal(c) =>
                   /\ buffer'[RecvEnd(c)].state = buffer[RecvEnd(c)].state
                   /\ buffer'[RecvEnd(c)].data = buffer[RecvEnd(c)].data
  BY <1>2, <1>3, <1>4, <1>8, SendEffect
<1>11. \A c \in Links : ~message[c].null => nonzero[p]
  BY <1>1, <1>3
<1>12. \A c \in Channels :
         /\ c[1] = p => \E m \in Sendable :
                         m.version = version[p] /\ flight'[c] = Append(flight[c], m)
         /\ c[1] # p => flight'[c] = flight[c]
  BY <1>3, <1>5 DEF Channels
<1>13. QED
  BY <1>4, <1>6, <1>7, <1>9, <1>10, <1>11, <1>12

(* A Send adds its message to what is under way on every channel. *)
LEMMA SendStep ==
  ASSUME ExchangeInv, NEW r \in Ranks, NEW p, SendBoundBufs(r, p)
  PROVE  ExchangeInv'
<1>1. /\ TypeOK /\ QueuesInOrder /\ Run(r, Task(p, "send"), <<>>)
      /\ p \in Parts /\ Pending(p, "send") /\ version[p] \in Nat
  BY HeadFacts DEF ExchangeInv, TypeOK, SendBoundBufs, Run
<1>2. /\ QueuesInOrder' /\ queue' \in [Ranks -> Seq(TaskType)]
      /\ \A q \in Parts, k \in Kinds \ {"start"} :
           Pending(q, k)' <=> Pending(q, k) /\ (q = p => k # "send")
  BY <1>1, RunNone
<1>3. /\ buffer' \in [Ends -> AnyBuffer] /\ flight' \in [Channels -> Seq(Sendable)]
      /\ \A c \in Links :
           /\ c[1] = p => /\ ~Nonlocal(c) => buffer[SendEnd(c)].state = "stale"
                          /\ buffer'[SendEnd(c)].state \in {"sending", "sending_null"}
                          /\ buffer'[SendEnd(c)].data.version = version[p]
           /\ c[1] # p => buffer'[SendEnd(c)] = buffer[SendEnd(c)]
           /\ c[1] # p \/ Nonlocal(c) =>
                /\ buffer'[RecvEnd(c)].state = buffer[RecvEnd(c)].state
                /\ buffer'[RecvEnd(c)].data = buffer[RecvEnd(c)].data
  BY <1>1, SendChanges
<1>4. UNCHANGED <<sparse, version, allocated, nonzero, ghost>>
  BY DEF SendBoundBufs, dataVars
<1>5. \A c \in Channels :
        /\ flight[c] \in Seq(Sendable)
        /\ c[1] = p => \E m \in Sendable :
                        m.version = version[p] /\ flight'[c] = Append(flight[c], m)
        /\ c[1] # p => flight'[c] = flight[c]
  BY <1>1, SendChanges DEF TypeOK
<1>6. TypeOK'
  BY <1>1, <1>2, <1>3, <1>4 DEF TypeOK
<1>7. {"send", "receive", "set"} \subseteq Kinds \ {"start"}
  BY DEF Kinds
<1>8. GhostInv'
  BY <1>2, <1>4, <1>7 DEF ExchangeInv, GhostInv, Filled
<1>9. ASSUME NEW c \in Links
       PROVE  ChannelInv(c)' /\ ReceiverInv(c)'
  <2>1. /\ c[1] \in Parts /\ c[2] \in Parts /\ ChannelInv(c) /\ ReceiverInv(c)
        /\ SendEnd(c) = RecvEnd(c) <=> ~Nonlocal(c)
        /\ c \in Channels <=> Nonlocal(c)
    BY LinkFacts, EndFacts DEF ExchangeInv
  <2>2. version[c[1]] \in Nat /\ version[c[2]] \in Nat
    BY <1>1, <2>1 DEF TypeOK
  <2>3. CASE c[1] # p
    <3>1. Sent(c[1])' = Sent(c[1]) /\ Taken(c)' = Taken(c)
      BY <1>2, <1>3, <1>4, <1>7, <2>1, <2>3 DEF Sent, Taken
    <3>2. ChannelInv(c)'
      BY <1>3, <1>5, <2>1, <2>3, <3>1 DEF ChannelInv, NonlocalInv, LocalInv
    <3>3. ReceiverInv(c)'
      BY <1>2, <1>3, <1>4, <1>7, <2>1, <2>3 DEF ReceiverInv
    <3>4. QED
      BY <3>2, <3>3
  <2>4. CASE c[1] = p /\ Nonlocal(c)
    <3>1. Sent(p)' = Sent(p) + 1 /\ Sent(p) + 1 = version[p] /\ Taken(c)' = Taken(c)
      BY <1>1, <1>2, <1>3, <1>4, <1>7, <2>1, <2>2, <2>4 DEF Sent, Taken
    <3>2. /\ Len(flight'[c]) = Len(flight[c]) + 1 /\ Len(flight[c]) \in Nat
          /\ \A i \in 1 .. Len(flight[c]) : flight'[c][i] = flight[c][i]
          /\ flight'[c][Len(flight[c]) + 1].version = version[p]
          /\ DOMAIN flight'[c] = 1 .. Len(flight[c]) + 1 /\ DOMAIN flight[c] = 1 .. Len(flight[c])
      <4>1. PICK m \in Sendable : m.version = version[p] /\ flight'[c] = Append(flight[c], m)
        BY <1>5, <2>1, <2>4
      <4>2. flight[c] \in Seq(Sendable)
        BY <1>5, <2>1, <2>4
      <4>3. QED
        BY <4>1, <4>2
    <3>3. /\ Len(flight[c]) = Sent(p) - Taken(c)
          /\ \A i \in 1 .. Len(flight[c]) : flight[c][i].version = Taken(c) + i
          /\ buffer[RecvEnd(c)].state \in Received \cup {"stale"}
      BY <2>1, <2>4, <3>2 DEF ChannelInv, NonlocalInv
    <3>4. Taken(c) \in Int /\ Sent(p) \in Int
      BY <2>2, <2>4 DEF Taken, Sent
    <3>5. \A i \in 1 .. Len(flight[c]) + 1 : flight'[c][i].version = Taken(c) + i
      <4>1. ASSUME NEW i \in 1 .. Len(flight[c]) + 1
            PROVE  flight'[c][i].version = Taken(c) + i
        <5>1. CASE i = Len(flight[c]) + 1
          BY <3>1, <3>2, <3>3, <3>4, <5>1
        <5>2. CASE i # Len(flight[c]) + 1
          <6>1. i \in 1 .. Len(flight[c])
            BY <3>2, <5>2
          <6>2. QED
            BY <3>2, <3>3, <6>1
        <5>3. QED
          BY <5>1, <5>2
      <4>2. QED
        BY <4>1
    <3>6. NonlocalInv(c)'
      <4>1. Len(flight'[c]) = Sent(c[1])' - Taken(c)'
        BY <2>4, <3>1, <3>2, <3>3, <3>4
      <4>2. \A i \in DOMAIN flight'[c] : flight'[c][i].version = Taken(c)' + i
        BY <3>1, <3>2, <3>5
      <4>3. buffer'[RecvEnd(c)].state \in Received \cup {"stale"}
        BY <1>3, <2>4, <3>3
      <4>4. QED
        BY <4>1, <4>2, <4>3 DEF NonlocalInv
    <3>7. ReceiverInv(c)'
      BY <1>2, <1>3, <1>4, <1>7, <2>1, <2>4 DEF ReceiverInv
    <3>8. QED
      BY <2>4, <3>6, <3>7 DEF ChannelInv
  <2>5. CASE c[1] = p /\ ~Nonlocal(c)
    <3>1. buffer[SendEnd(c)].state = "stale" /\ RecvEnd(c) = SendEnd(c)
      BY <1>3, <2>1, <2>5
    <3>2. Sent(p)' = Sent(p) + 1 /\ Sent(p) + 1 = version[p] /\ Taken(c)' = Taken(c)
      <4>1. Sent(p)' = Sent(p) + 1 /\ Sent(p) + 1 = version[p]
        BY <1>1, <1>2, <1>4, <1>7 DEF Sent
      <4>2. /\ buffer[RecvEnd(c)].state \notin Received
            /\ buffer'[RecvEnd(c)].state \notin Received
        BY <1>3, <2>5, <3>1 DEF Received
      <4>3. Pending(c[2], "receive")' <=> Pending(c[2], "receive")
        BY <1>2, <1>7, <2>1
      <4>4. Taken(c)' = Taken(c)
        BY <1>4, <4>2, <4>3 DEF Taken
      <4>5. QED
        BY <4>1, <4>4
    <3>3. Sent(p) = Taken(c)
      BY <2>1, <2>5, <3>1 DEF ChannelInv, LocalInv
    <3>4. LocalInv(c)'
      BY <1>3, <2>5, <3>2, <3>3 DEF LocalInv
    <3>5. ReceiverInv(c)'
      BY <1>2, <1>3, <1>4, <1>7, <2>1, <2>5, <3>1 DEF ReceiverInv, Received
    <3>6. QED
      BY <2>5, <3>4, <3>5 DEF ChannelInv
  <2>6. QED
    BY <2>3, <2>4, <2>5
<1>10. QED
  BY <1>2, <1>4, <1>6, <1>8, <1>9 DEF ExchangeInv

(* What ReceiveBoundBufs takes from the channels to p: in a buffer that     *)
(* both sides share the message is in place, and MPI delivers the messages *)
(* of a channel in order.                                                  *)
ReceivedFrom(c) ==
  /\ buffer[RecvEnd(c)].state = "stale" /\ flight[c] # <<>>
  /\ buffer'[RecvEnd(c)].state = IF Head(flight[c]).null THEN "received_null" ELSE "received"
  /\ buffer'[RecvEnd(c)].data = Head(flight[c])
  /\ flight'[c] = Tail(flight[c])

NotReceivedFrom(c) ==
  /\ buffer'[RecvEnd(c)].state = buffer[RecvEnd(c)].state
  /\ buffer'[RecvEnd(c)].data = buffer[RecvEnd(c)].data
  /\ flight'[c] = flight[c]

LEMMA ReceiveChanges ==
  ASSUME ExchangeInv, NEW r \in Ranks, NEW p \in Parts, ReceiveBoundBufs(r, p)
  PROVE  /\ buffer' \in [Ends -> AnyBuffer] /\ flight' \in [Channels -> Seq(Sendable)]
         /\ \A c \in Links :
              /\ c[2] # p /\ Nonlocal(c) => NotReceivedFrom(c)
              /\ c[2] = p /\ Nonlocal(c) => ReceivedFrom(c) \/ NotReceivedFrom(c)
              /\ c[2] # p \/ Nonlocal(c) => buffer'[SendEnd(c)] = buffer[SendEnd(c)]
              /\ c[2] = p /\ ~Nonlocal(c) => buffer'[SendEnd(c)] = TryReceiveBoth(buffer[SendEnd(c)])
         /\ allocated' = [allocated EXCEPT ![p] =
              @ \/ \E c \in Incoming(p) : buffer'[RecvEnd(c)].state = "received"]
         /\ LET all == \A c \in Incoming(p) : buffer'[RecvEnd(c)].state \in Received
            IN  Run(r, Task(p, "receive"), <<Task(p, IF all THEN "set" ELSE "receive")>>)
<1>1. PICK found \in SUBSET {c \in Waiting(p) : flight[c] # <<>>} :
      \E arrived \in SUBSET {c \in Waiting(p) : flight[c] # <<>> /\ Started(c, found).started_irecv} :
         LET tried == [e \in Ends |-> Tried(p, e, found, arrived)]
             all   == \A c \in Incoming(p) : tried[RecvEnd(c)].state \in Received
         IN  /\ Run(r, Task(p, "receive"), <<Task(p, IF all THEN "set" ELSE "receive")>>)
             /\ buffer' = tried
             /\ flight' = [c \in Channels |->
                             IF c \in arrived THEN Tail(flight[c]) ELSE flight[c]]
             /\ AllocateReceived(p, tried)
  BY DEF ReceiveBoundBufs
<1>2. PICK arrived \in SUBSET {c \in Waiting(p) : flight[c] # <<>> /\ Started(c, found).started_irecv} :
        /\ buffer' = [e \in Ends |-> Tried(p, e, found, arrived)]
        /\ flight' = [c \in Channels |-> IF c \in arrived THEN Tail(flight[c]) ELSE flight[c]]
        /\ AllocateReceived(p, buffer')
        /\ Run(r, Task(p, "receive"),
               <<Task(p, IF \A c \in Incoming(p) : buffer'[RecvEnd(c)].state \in Received
                         THEN "set" ELSE "receive")>>)
  BY <1>1
<1>3. /\ buffer \in [Ends -> AnyBuffer] /\ flight \in [Channels -> Seq(Sendable)]
      /\ arrived \subseteq Channels
  BY DEF ExchangeInv, TypeOK, Waiting
<1>4. \A c \in Channels : flight[c] # <<>> =>
        Head(flight[c]) \in Sendable /\ Tail(flight[c]) \in Seq(Sendable)
  BY <1>3
<1>5. flight' \in [Channels -> Seq(Sendable)]
  BY <1>2, <1>3, <1>4
<1>6. ASSUME NEW c \in Links, Nonlocal(c)
      PROVE  /\ buffer'[RecvEnd(c)] \in AnyBuffer
             /\ c[2] # p => NotReceivedFrom(c)
             /\ c[2] = p => ReceivedFrom(c) \/ NotReceivedFrom(c)
  <2>1. /\ RecvEnd(c) \in Ends /\ RecvEnd(c)[1] = c /\ c \in Channels
        /\ RecvEnd(c) \in RecvEnds[p] <=> c[2] = p
    BY <1>6, EndFacts
  <2>2. /\ buffer'[RecvEnd(c)] = Tried(p, RecvEnd(c), found, arrived)
        /\ buffer[RecvEnd(c)] \in AnyBuffer
        /\ flight'[c] = IF c \in arrived THEN Tail(flight[c]) ELSE flight[c]
    BY <1>2, <1>3, <2>1
  <2>3. CASE c[2] # p
    <3>1. c \notin arrived /\ buffer'[RecvEnd(c)] = buffer[RecvEnd(c)]
      BY <2>1, <2>2, <2>3 DEF Tried, Waiting, Incoming
    <3>2. QED
      BY <2>2, <2>3, <3>1 DEF NotReceivedFrom
  <2>4. CASE c[2] = p /\ c \notin Waiting(p)
    <3>1. c \notin arrived /\ buffer'[RecvEnd(c)] = buffer[RecvEnd(c)]
      BY <2>1, <2>2, <2>4 DEF Tried
    <3>2. QED
      BY <2>2, <2>4, <3>1 DEF NotReceivedFrom
  <2>5. CASE c[2] = p /\ c \in Waiting(p)
    <3> DEFINE start == Started(c, found)
    <3>1. start \in AnyBuffer /\ start.state = buffer[RecvEnd(c)].state
          /\ start.data = buffer[RecvEnd(c)].data
      <4>1. c \in found => Head(flight[c]).null \in BOOLEAN
        BY <1>4, <2>1 DEF Sendable
      <4>2. CASE c \in found
        BY <2>2, <4>1, <4>2 DEF Started, TryStartReceive, AnyBuffer
      <4>3. CASE c \notin found
        BY <2>2, <4>3 DEF Started, TryStartReceive, AnyBuffer
      <4>4. QED
        BY <4>2, <4>3
    <3>2. CASE c \notin arrived
      <4>1. buffer'[RecvEnd(c)] = start
        BY <2>1, <2>2, <2>5, <3>2 DEF Tried
      <4>2. QED
        BY <2>2, <2>5, <3>1, <3>2, <4>1 DEF NotReceivedFrom
    <3>3. CASE c \in arrived
      <4>1. buffer'[RecvEnd(c)] = TryReceiveMessage(start, Head(flight[c]))
        BY <2>1, <2>2, <2>5, <3>3 DEF Tried
      <4>2. flight[c] # <<>> /\ Head(flight[c]) \in Sendable /\ Head(flight[c]).null \in BOOLEAN
        BY <1>4, <2>1, <3>3 DEF Sendable
      <4>3. buffer[RecvEnd(c)].state = "stale"
        <5>1. buffer[RecvEnd(c)].state \in Received \cup {"stale"}
          BY <1>6 DEF ExchangeInv, ChannelInv, NonlocalInv
        <5>2. QED
          BY <2>5, <5>1 DEF Waiting
      <4> HIDE DEF start
      <4>4. /\ buffer'[RecvEnd(c)] \in AnyBuffer
            /\ buffer'[RecvEnd(c)].state =
                 IF Head(flight[c]).null THEN "received_null" ELSE "received"
            /\ buffer'[RecvEnd(c)].data = Head(flight[c])
        BY <3>1, <4>1, <4>2 DEF TryReceiveMessage, AnyBuffer, BufferState
      <4>5. QED
        BY <2>2, <2>5, <3>3, <4>2, <4>3, <4>4 DEF ReceivedFrom
    <3>4. QED
      BY <3>2, <3>3
  <2>6. QED
    BY <2>3, <2>4, <2>5
<1>7. ASSUME NEW c \in Links
      PROVE  /\ buffer'[SendEnd(c)] \in AnyBuffer
             /\ c[2] # p \/ Nonlocal(c) => buffer'[SendEnd(c)] = buffer[SendEnd(c)]
             /\ c[2] = p /\ ~Nonlocal(c) => buffer'[SendEnd(c)] = TryReceiveBoth(buffer[SendEnd(c)])
  <2>1. /\ SendEnd(c) \in Ends /\ SendEnd(c)[1] = c
        /\ SendEnd(c) \in RecvEnds[p] <=> c[2] = p /\ ~Nonlocal(c)
        /\ c \in Channels <=> Nonlocal(c)
    BY EndFacts
  <2>2. /\ buffer'[SendEnd(c)] = Tried(p, SendEnd(c), found, arrived)
        /\ buffer[SendEnd(c)] \in AnyBuffer
    BY <1>2, <1>3, <2>1
  <2>3. TryReceiveBoth(buffer[SendEnd(c)]) \in AnyBuffer
    BY <2>2 DEF TryReceiveBoth, AnyBuffer, BufferState
  <2>4. CASE c[2] = p /\ ~Nonlocal(c)
    BY <2>1, <2>2, <2>3, <2>4 DEF Tried
  <2>5. CASE c[2] # p \/ Nonlocal(c)
    BY <2>1, <2>2, <2>5 DEF Tried
  <2>6. QED
    BY <2>4, <2>5
<1>8. buffer' \in [Ends -> AnyBuffer]
  <2>1. ASSUME NEW e \in Ends
        PROVE  buffer'[e] \in AnyBuffer
    <3>1. e[1] \in Links /\ (e = SendEnd(e[1]) \/ e = RecvEnd(e[1]))
      BY EveryEnd
    <3>2. CASE e = SendEnd(e[1])
      BY <1>7, <3>1, <3>2
    <3>3. CASE e = RecvEnd(e[1]) /\ e # SendEnd(e[1])
      <4>1. Nonlocal(e[1])
        BY <3>1, <3>3, EndFacts
      <4>2. QED
        BY <1>6, <3>1, <3>3, <4>1
    <3>4. QED
      BY <3>1, <3>2, <3>3
  <2>2. QED
    BY <1>2, <2>1
<1>9. QED
  BY <1>2, <1>5, <1>6, <1>7, <1>8 DEF AllocateReceived

(* What is pending after ReceiveBoundBufs: itself or SetBounds. *)
LEMMA ReceivePending ==
  ASSUME TypeOK, QueuesInOrder, NEW r \in Ranks, NEW p, NEW all \in BOOLEAN,
         Run(r, Task(p, "receive"), <<Task(p, IF all THEN "set" ELSE "receive")>>)
  PROVE  /\ QueuesInOrder' /\ queue' \in [Ranks -> Seq(TaskType)]
         /\ Pending(p, "receive")' <=> ~all
         /\ Pending(p, "set")' <=> all
         /\ \A q \in Parts, k \in Kinds \ {"start"} :
              q # p \/ k \notin {"receive", "set"} => (Pending(q, k)' <=> Pending(q, k))
<1> DEFINE next == IF all THEN "set" ELSE "receive"
<1>1. AtHead(r, Task(p, "receive")) /\ Run(r, Task(p, "receive"), <<Task(p, next)>>)
  BY DEF Run
<1>2. p \in Parts
  BY <1>1, HeadFacts
<1>3. \A k \in Kinds \ {"start", "receive"} : Pending(p, k) => k = "send"
  BY <1>1, BehindHead
<1>4. next \in Kinds \ {"start"} /\ "receive" \in Kinds /\ "set" \in Kinds
      /\ next \in {"set", "receive"} /\ (next = "set" <=> all)
  BY DEF Kinds
<1> HIDE DEF next
<1>5. /\ QueuesInOrder' /\ queue' \in [Ranks -> Seq(TaskType)]
      /\ \A q \in Parts, k \in Kinds \ {"start"} :
           Pending(q, k)' <=> \/ Pending(q, k) /\ (q = p => k # "receive")
                              \/ q = p /\ k = next
  <2>1. \A k \in Kinds \ {"start", "receive"} : Pending(p, k) =>
          <<k, next>> \in {<<"send", "receive">>, <<"receive", "send">>, <<"send", "set">>}
    BY <1>3, <1>4
  <2>2. QED
    BY <1>1, <1>4, <2>1, RunOne
<1>6. QED
  BY <1>2, <1>3, <1>4, <1>5

(* ReceiveBoundBufs takes at most one message from every channel, the one   *)
(* for this exchange, and becomes SetBounds when it has taken them all.    *)
LEMMA ReceiveStep ==
  ASSUME ExchangeInv, NEW r \in Ranks, NEW p, ReceiveBoundBufs(r, p)
  PROVE  ExchangeInv'
<1> DEFINE all == \A c \in Incoming(p) : buffer'[RecvEnd(c)].state \in Received
<1>1. /\ TypeOK /\ QueuesInOrder /\ AtHead(r, Task(p, "receive"))
      /\ p \in Parts /\ Pending(p, "receive") /\ version[p] \in Nat
  BY HeadFacts DEF ExchangeInv, TypeOK, ReceiveBoundBufs
<1>2. /\ buffer' \in [Ends -> AnyBuffer] /\ flight' \in [Channels -> Seq(Sendable)]
      /\ \A c \in Links :
           /\ c[2] # p /\ Nonlocal(c) => NotReceivedFrom(c)
           /\ c[2] = p /\ Nonlocal(c) => ReceivedFrom(c) \/ NotReceivedFrom(c)
           /\ c[2] # p \/ Nonlocal(c) => buffer'[SendEnd(c)] = buffer[SendEnd(c)]
           /\ c[2] = p /\ ~Nonlocal(c) => buffer'[SendEnd(c)] = TryReceiveBoth(buffer[SendEnd(c)])
  BY <1>1, ReceiveChanges
<1>3. Run(r, Task(p, "receive"), <<Task(p, IF all THEN "set" ELSE "receive")>>)
  BY <1>1, ReceiveChanges
<1>4. allocated' \in [Parts -> BOOLEAN]
  <2>1. allocated' = [allocated EXCEPT ![p] =
          @ \/ \E c \in Incoming(p) : buffer'[RecvEnd(c)].state = "received"]
    BY <1>1, ReceiveChanges
  <2>2. QED
    BY <1>1, <2>1 DEF TypeOK
<1>5. UNCHANGED <<sparse, version, nonzero, ghost>>
  BY DEF ReceiveBoundBufs
<1>6. /\ QueuesInOrder' /\ queue' \in [Ranks -> Seq(TaskType)]
      /\ Pending(p, "receive")' <=> ~all
      /\ Pending(p, "set")' <=> all
      /\ \A q \in Parts, k \in Kinds \ {"start"} :
           q # p \/ k \notin {"receive", "set"} => (Pending(q, k)' <=> Pending(q, k))
  <2>1. all \in BOOLEAN
    OBVIOUS
  <2>2. Run(r, Task(p, "receive"), <<Task(p, IF all THEN "set" ELSE "receive")>>)
    BY <1>3
  <2> HIDE DEF all
  <2>3. QED
    BY <1>1, <2>1, <2>2, ReceivePending
<1> HIDE DEF all
<1>7. {"send", "receive", "set"} \subseteq Kinds \ {"start"}
  BY DEF Kinds
<1>8. TypeOK'
  BY <1>1, <1>2, <1>4, <1>5, <1>6 DEF TypeOK
<1>9. GhostInv'
  <2>1. \A q \in Parts : Filled(q)' = Filled(q)
    BY <1>1, <1>5, <1>6, <1>7 DEF Filled
  <2>2. QED
    BY <1>5, <2>1 DEF ExchangeInv, GhostInv
<1>10. ASSUME NEW c \in Links
       PROVE  ChannelInv(c)' /\ ReceiverInv(c)'
  <2>1. /\ c[1] \in Parts /\ c[2] \in Parts /\ ChannelInv(c) /\ ReceiverInv(c)
        /\ SendEnd(c) = RecvEnd(c) <=> ~Nonlocal(c)
        /\ c \in Channels <=> Nonlocal(c)
        /\ SendEnd(c) \in Ends
    BY LinkFacts, EndFacts DEF ExchangeInv
  <2>2. version[c[1]] \in Nat /\ version[c[2]] \in Nat /\ Sent(c[1]) \in Int
        /\ buffer[SendEnd(c)] \in AnyBuffer
    BY <1>1, <2>1 DEF TypeOK, Sent
  <2>3. Sent(c[1])' = Sent(c[1])
    BY <1>5, <1>6, <1>7, <2>1 DEF Sent
  <2>4. CASE c[2] # p
    <3>1. /\ buffer'[RecvEnd(c)].state = buffer[RecvEnd(c)].state
          /\ buffer'[RecvEnd(c)].data = buffer[RecvEnd(c)].data
          /\ buffer'[SendEnd(c)] = buffer[SendEnd(c)]
          /\ Nonlocal(c) => flight'[c] = flight[c]
      BY <1>2, <2>1, <2>4 DEF NotReceivedFrom
    <3>2. Taken(c)' = Taken(c)
      BY <1>5, <1>6, <1>7, <2>1, <2>4, <3>1 DEF Taken
    <3>3. ChannelInv(c)'
      BY <2>1, <2>3, <3>1, <3>2 DEF ChannelInv, NonlocalInv, LocalInv
    <3>4. ReceiverInv(c)'
      BY <1>5, <1>6, <1>7, <2>1, <2>4, <3>1 DEF ReceiverInv
    <3>5. QED
      BY <3>3, <3>4
  <2>5. ASSUME c[2] = p
        PROVE  /\ Pending(p, "set")' => buffer'[RecvEnd(c)].state \in Received
               /\ Pending(p, "receive")' \/ Pending(p, "set")'
               /\ Taken(c) = IF buffer[RecvEnd(c)].state \in Received
                             THEN version[p] ELSE version[p] - 1
               /\ Taken(c)' = IF buffer'[RecvEnd(c)].state \in Received
                              THEN version[p] ELSE version[p] - 1
    <3>1. all => buffer'[RecvEnd(c)].state \in Received
      BY <2>5 DEF all, Incoming
    <3>2. QED
      BY <1>1, <1>5, <1>6, <2>5, <3>1 DEF Taken
  <2>6. CASE c[2] = p /\ Nonlocal(c) /\ NotReceivedFrom(c)
    <3>1. Taken(c)' = Taken(c)
      BY <2>5, <2>6 DEF NotReceivedFrom
    <3>2. ChannelInv(c)'
      BY <2>1, <2>3, <2>6, <3>1 DEF ChannelInv, NonlocalInv, NotReceivedFrom
    <3>3. ReceiverInv(c)'
      BY <1>5, <2>1, <2>5, <2>6 DEF ReceiverInv, NotReceivedFrom
    <3>4. QED
      BY <3>2, <3>3
  <2>7. CASE c[2] = p /\ Nonlocal(c) /\ ReceivedFrom(c)
    <3>1. /\ flight[c] \in Seq(Sendable) /\ flight[c] # <<>>
          /\ buffer[RecvEnd(c)].state \notin Received /\ buffer'[RecvEnd(c)].state \in Received
          /\ buffer'[RecvEnd(c)].data = Head(flight[c]) /\ flight'[c] = Tail(flight[c])
      BY <1>1, <2>1, <2>7 DEF TypeOK, ReceivedFrom, Received
    <3>2. Taken(c) = version[p] - 1 /\ Taken(c)' = version[p]
      BY <2>5, <2>7, <3>1
    <3>3. /\ Len(flight[c]) = Sent(c[1]) - Taken(c)
          /\ \A i \in DOMAIN flight[c] : flight[c][i].version = Taken(c) + i
      BY <2>1, <2>7 DEF ChannelInv, NonlocalInv
    <3>4. /\ Len(flight'[c]) = Len(flight[c]) - 1 /\ Head(flight[c]) = flight[c][1]
          /\ 1 \in DOMAIN flight[c]
          /\ \A i \in DOMAIN flight'[c] :
               i \in Nat /\ i + 1 \in DOMAIN flight[c] /\ flight'[c][i] = flight[c][i + 1]
      BY <3>1
    <3>5. Len(flight'[c]) = Sent(c[1])' - Taken(c)'
      BY <1>1, <2>2, <2>3, <3>2, <3>3, <3>4
    <3>6. ASSUME NEW i \in DOMAIN flight'[c]
          PROVE  flight'[c][i].version = Taken(c)' + i
      <4>1. i \in Nat /\ i + 1 \in DOMAIN flight[c] /\ flight'[c][i] = flight[c][i + 1]
        BY <3>4
      <4>2. flight[c][i + 1].version = version[p] - 1 + (i + 1)
        BY <3>2, <3>3, <4>1
      <4>3. QED
        BY <1>1, <3>2, <4>1, <4>2
    <3>7. buffer'[RecvEnd(c)].data.version = version[p]
      BY <1>1, <3>1, <3>2, <3>3, <3>4
    <3>8. ChannelInv(c)'
      BY <2>7, <3>1, <3>5, <3>6 DEF ChannelInv, NonlocalInv
    <3>9. ReceiverInv(c)'
      BY <1>5, <2>5, <2>7, <3>7 DEF ReceiverInv
    <3>10. QED
      BY <3>8, <3>9
  <2>8. CASE c[2] = p /\ ~Nonlocal(c)
    <3> DEFINE b == buffer[SendEnd(c)]
               after == buffer'[SendEnd(c)]
    <3>1. /\ after = TryReceiveBoth(b) /\ b \in AnyBuffer
          /\ buffer[RecvEnd(c)] = b /\ buffer'[RecvEnd(c)] = after
      BY <1>2, <2>1, <2>2, <2>8
    <3>2. /\ after.data = b.data
          /\ b.state \in {"sending", "sending_null"} => after.state \in Received
          /\ b.state \notin {"sending", "sending_null"} => after.state = b.state
          /\ after.state \notin {"sending", "sending_null"}
      BY <3>1 DEF TryReceiveBoth, AnyBuffer, Received
    <3>3. LocalInv(c)'
      BY <1>1, <2>1, <2>2, <2>3, <2>5, <2>8, <3>1, <3>2
      DEF ChannelInv, LocalInv, Received
    <3>4. after.state \in Received => after.data.version = version[p]
      BY <1>1, <2>1, <2>2, <2>5, <2>8, <3>1, <3>2
      DEF ChannelInv, LocalInv, ReceiverInv, Received
    <3>5. ReceiverInv(c)'
      BY <1>5, <2>5, <2>8, <3>1, <3>4 DEF ReceiverInv
    <3>6. QED
      BY <2>8, <3>3, <3>5 DEF ChannelInv
  <2>9. QED
    BY <1>2, <2>4, <2>6, <2>7, <2>8
<1>11. QED
  BY <1>5, <1>6, <1>8, <1>9, <1>10 DEF ExchangeInv

(* SetBounds fills the ghost zones with what all channels have brought. *)
LEMMA SetStep ==
  ASSUME ExchangeInv, NEW r \in Ranks, NEW p, SetBounds(r, p)
  PROVE  ExchangeInv' /\ \A q \in Neighbors(p) : buffer[RecvEnd(<<q, p>>)].data.version = version[p]
<1>1. /\ TypeOK /\ QueuesInOrder /\ AtHead(r, Task(p, "set"))
      /\ p \in Parts /\ Pending(p, "set") /\ version[p] \in Nat
  BY HeadFacts DEF ExchangeInv, TypeOK, SetBounds, Run
<1>2. \A k \in Kinds \ {"start", "set"} : ~Pending(p, k)
  BY <1>1, BehindHead
<1>3. {"send", "receive", "set"} \subseteq Kinds \ {"start"} /\ "compute" \in Kinds
  BY DEF Kinds
<1>4. /\ QueuesInOrder' /\ queue' \in [Ranks -> Seq(TaskType)]
      /\ \A q \in Parts, k \in {"send", "receive", "set"} :
           Pending(q, k)' <=> Pending(q, k) /\ (q = p => k # "set")
  <2>1. CASE version[p] < MaxExchanges
    <3>1. Run(r, Task(p, "set"), <<Task(p, "compute")>>)
      BY <2>1 DEF SetBounds
    <3>2. \A k \in Kinds \ {"start", "set"} : Pending(p, k) =>
            <<k, "compute">> \in {<<"send", "receive">>, <<"receive", "send">>, <<"send", "set">>}
      BY <1>2
    <3>3. /\ QueuesInOrder' /\ queue' \in [Ranks -> Seq(TaskType)]
          /\ \A q \in Parts, k \in Kinds \ {"start"} :
               Pending(q, k)' <=> \/ Pending(q, k) /\ (q = p => k # "set")
                                  \/ q = p /\ k = "compute"
      BY <1>1, <1>3, <3>1, <3>2, RunOne
    <3>4. QED
      BY <1>3, <3>3
  <2>2. CASE ~(version[p] < MaxExchanges)
    <3>1. Run(r, Task(p, "set"), <<>>)
      BY <2>2 DEF SetBounds
    <3>2. /\ QueuesInOrder' /\ queue' \in [Ranks -> Seq(TaskType)]
          /\ \A q \in Parts, k \in Kinds \ {"start"} :
               Pending(q, k)' <=> Pending(q, k) /\ (q = p => k # "set")
      BY <1>1, <3>1, RunNone
    <3>3. QED
      BY <1>3, <3>2
  <2>3. QED
    BY <2>1, <2>2
<1>5. /\ UNCHANGED <<sparse, version, allocated, flight>>
      /\ buffer' = [e \in Ends |-> IF e \in RecvEnds[p] THEN Stale(buffer[e]) ELSE buffer[e]]
      /\ ghost' = [ghost EXCEPT ![p] =
           [q \in Neighbors(p) |-> buffer[RecvEnd(<<q, p>>)].data.version]]
      /\ nonzero' \in [Parts -> BOOLEAN]
  BY <1>1 DEF SetBounds, TypeOK
<1>6. \A e \in Ends : /\ buffer'[e] \in AnyBuffer /\ buffer'[e].data = buffer[e].data
                      /\ buffer'[e].state = IF e \in RecvEnds[p] THEN "stale" ELSE buffer[e].state
  BY <1>1, <1>5, StaleFits DEF TypeOK
<1>7. TypeOK'
  <2>1. buffer' \in [Ends -> AnyBuffer]
    BY <1>5, <1>6
  <2>2. QED
    BY <1>1, <1>4, <1>5, <2>1 DEF TypeOK
<1>8. ASSUME NEW q \in Neighbors(p)
      PROVE  buffer[RecvEnd(<<q, p>>)].data.version = version[p]
  <2>1. <<q, p>> \in Links
    BY LinkFacts DEF Neighbors, Incoming
  <2>2. ReceiverInv(<<q, p>>)
    BY <2>1 DEF ExchangeInv
  <2>3. QED
    BY <1>1, <2>2 DEF ReceiverInv
<1>9. GhostInv'
  <2>1. ghost' = [ghost EXCEPT ![p] = [q \in Neighbors(p) |-> version[p]]]
    BY <1>5, <1>8
  <2>2. Filled(p)' = version[p]
    BY <1>1, <1>2, <1>3, <1>4, <1>5 DEF Filled
  <2>3. \A q \in Parts : q # p => Filled(q)' = Filled(q)
    BY <1>4, <1>5 DEF Filled
  <2>4. ghost = [q \in Parts |-> [s \in Neighbors(q) |-> Filled(q)]]
    BY DEF ExchangeInv, GhostInv
  <2>5. ghost' = [q \in Parts |-> [s \in Neighbors(q) |-> Filled(q)']]
    BY <1>1, <2>1, <2>2, <2>3, <2>4
  <2>6. QED
    BY <2>5 DEF GhostInv
<1>10. ASSUME NEW c \in Links
       PROVE  ChannelInv(c)' /\ ReceiverInv(c)'
  <2>1. /\ c[1] \in Parts /\ c[2] \in Parts /\ ChannelInv(c) /\ ReceiverInv(c)
        /\ SendEnd(c) = RecvEnd(c) <=> ~Nonlocal(c)
        /\ SendEnd(c) \in Ends /\ RecvEnd(c) \in Ends
        /\ RecvEnd(c) \in RecvEnds[p] <=> c[2] = p
    BY <1>1, LinkFacts, EndFacts DEF ExchangeInv
  <2>2. /\ buffer'[RecvEnd(c)].data = buffer[RecvEnd(c)].data
        /\ buffer'[SendEnd(c)].data = buffer[SendEnd(c)].data
        /\ buffer'[RecvEnd(c)].state = IF c[2] = p THEN "stale" ELSE buffer[RecvEnd(c)].state
    BY <1>6, <2>1
  <2>3. Sent(c[1])' = Sent(c[1]) /\ Taken(c)' = Taken(c)
    BY <1>2, <1>3, <1>4, <1>5, <2>1, <2>2 DEF Sent, Taken
  <2>4. c[2] = p => buffer[RecvEnd(c)].state \in Received
    BY <1>1, <2>1 DEF ReceiverInv
  <2>5. ChannelInv(c)'
    BY <1>5, <2>1, <2>2, <2>3, <2>4 DEF ChannelInv, NonlocalInv, LocalInv, Received
  <2>6. ReceiverInv(c)'
    BY <1>4, <1>5, <2>1, <2>2 DEF ReceiverInv, Received
  <2>7. QED
    BY <2>5, <2>6
<1>11. ExchangeInv'
  BY <1>4, <1>5, <1>7, <1>9, <1>10 DEF ExchangeInv
<1>12. QED
  BY <1>8, <1>11

(* Compute starts the next exchange: nothing of the last one is left. *)
LEMMA ComputeStep ==
  ASSUME ExchangeInv, NEW r \in Ranks, NEW p, Compute(r, p)
  PROVE  ExchangeInv' /\ \A q \in Neighbors(p) : ghost[p][q] = version[p]
<1>1. /\ TypeOK /\ QueuesInOrder /\ Run(r, Task(p, "compute"), Exchange(p))
      /\ AtHead(r, Task(p, "compute"))
      /\ p \in Parts /\ Pending(p, "compute") /\ version[p] \in Nat
  BY HeadFacts DEF ExchangeInv, TypeOK, Compute, Run
<1>2. \A k \in Kinds \ {"start", "compute"} : ~Pending(p, k)
  BY <1>1, BehindHead
<1>3. {"send", "receive", "set"} \subseteq Kinds \ {"start", "compute"}
  BY DEF Kinds
<1>4. /\ QueuesInOrder' /\ queue' \in [Ranks -> Seq(TaskType)]
      /\ \A q \in Parts, k \in {"send", "receive", "set"} :
           Pending(q, k)' <=> Pending(q, k) \/ (q = p /\ k \in {"send", "receive"})
  <2>1. /\ Exchange(p) \in Seq(TaskType) /\ InOrder(Exchange(p))
        /\ \A n \in DOMAIN Exchange(p) : Exchange(p)[n].part = p
        /\ \A k \in Kinds \ {"start"} :
             (\E n \in DOMAIN Exchange(p) : Exchange(p)[n].kind = k) <=> k \in {"send", "receive"}
    BY <1>1, ExchangeFacts
  <2>2. \A k \in Kinds : Pending(p, k) /\ (k = "compute" => "compute" = "start") =>
          \A n \in DOMAIN Exchange(p) : Compatible(Task(p, k), Exchange(p)[n])
    BY <1>2 DEF Compatible, Task
  <2>3. QueuesInOrder' /\ queue' \in [Ranks -> Seq(TaskType)]
    BY <1>1, <2>1, <2>2, QueuesAfter
  <2>4. \A q \in Parts, k \in Kinds \ {"start"} :
          Pending(q, k)' <=> \/ Pending(q, k) /\ (q = p => k # "compute")
                             \/ q = p /\ \E n \in DOMAIN Exchange(p) : Exchange(p)[n].kind = k
    BY <1>1, <2>1, PendingAfter
  <2>5. QED
    BY <1>3, <2>1, <2>3, <2>4
<1>5. /\ UNCHANGED <<sparse, ghost, buffer, flight>>
      /\ version' = [version EXCEPT ![p] = @ + 1]
      /\ allocated' \in [Parts -> BOOLEAN] /\ nonzero' \in [Parts -> BOOLEAN]
  BY <1>1 DEF Compute, SparseDealloc, TypeOK
<1>6. /\ version' \in [Parts -> Nat] /\ version'[p] = version[p] + 1
      /\ \A q \in Parts : q # p => version'[q] = version[q]
  BY <1>1, <1>5 DEF TypeOK
<1>7. TypeOK'
  BY <1>1, <1>4, <1>5, <1>6 DEF TypeOK
<1>8. ghost = [q \in Parts |-> [s \in Neighbors(q) |-> Filled(q)]]
  BY DEF ExchangeInv, GhostInv
<1>9. Filled(p) = version[p] /\ \A q \in Parts : Filled(q)' = Filled(q)
  BY <1>1, <1>2, <1>3, <1>4, <1>6 DEF Filled
<1>10. GhostInv' /\ \A q \in Neighbors(p) : ghost[p][q] = version[p]
  <2>1. ghost' = [q \in Parts |-> [s \in Neighbors(q) |-> Filled(q)']]
    BY <1>5, <1>8, <1>9
  <2>2. QED
    BY <1>1, <1>8, <1>9, <2>1 DEF GhostInv
<1>11. ASSUME NEW c \in Links
       PROVE  ChannelInv(c)' /\ ReceiverInv(c)'
  <2>1. /\ c[1] \in Parts /\ c[2] \in Parts /\ ChannelInv(c) /\ ReceiverInv(c)
        /\ version[c[1]] \in Nat /\ version[c[2]] \in Nat
    BY <1>1, LinkFacts DEF ExchangeInv, TypeOK
  <2>2. c[2] = p => buffer[RecvEnd(c)].state \notin Received
    BY <1>2, <1>3, <2>1 DEF ReceiverInv
  <2>3. Sent(c[1])' = Sent(c[1])
    <3>1. CASE c[1] = p
      BY <1>2, <1>3, <1>4, <1>6, <2>1, <3>1 DEF Sent
    <3>2. CASE c[1] # p
      BY <1>3, <1>4, <1>6, <2>1, <3>2 DEF Sent
    <3>3. QED
      BY <3>1, <3>2
  <2>4. Taken(c)' = Taken(c)
    BY <1>2, <1>3, <1>4, <1>5, <1>6, <2>1, <2>2 DEF Taken
  <2>5. ChannelInv(c)'
    BY <1>5, <2>1, <2>3, <2>4 DEF ChannelInv, NonlocalInv, LocalInv
  <2>6. ReceiverInv(c)'
    BY <1>2, <1>3, <1>4, <1>5, <1>6, <2>1, <2>2 DEF ReceiverInv
  <2>7. QED
    BY <2>5, <2>6
<1>12. ExchangeInv'
  BY <1>4, <1>7, <1>10, <1>11 DEF ExchangeInv
<1>13. QED
  BY <1>10, <1>12

(* Every step keeps ExchangeInv. *)
LEMMA ExchangeInvStep == ExchangeInv /\ [Next]_vars => ExchangeInv'
<1> SUFFICES ASSUME ExchangeInv, [Next]_vars PROVE ExchangeInv'
  OBVIOUS
<1>1. CASE Next
  <2>1. PICK r \in Ranks : RunTask(r)
    BY <1>1 DEF Next
  <2>2. PICK p : \/ SendBlocked(r, p) \/ SendBoundBufs(r, p)
                 \/ StartReceiveBoundBufs(r, p) \/ ReceiveBoundBufs(r, p) \/ SetBounds(r, p)
                 \/ Compute(r, p)
    BY <2>1 DEF RunTask
  <2>3. QED
    BY <2>2, SendBlockedStep, SendStep, StartStep, ReceiveStep, SetStep, ComputeStep
<1>2. CASE UNCHANGED vars
  <2>1. UNCHANGED <<sparse, version, allocated, nonzero, ghost, queue, buffer, flight>>
    BY <1>2 DEF vars, dataVars
  <2>2. \A p, k : Pending(p, k)' <=> Pending(p, k)
    BY <2>1 DEF Pending
  <2>3. \A c : Taken(c)' = Taken(c)
    BY <2>1, <2>2 DEF Taken
  <2>4. \A p : Sent(p)' = Sent(p) /\ Filled(p)' = Filled(p)
    BY <2>1, <2>2 DEF Sent, Filled
  <2>5. TypeOK' /\ QueuesInOrder' /\ GhostInv'
    BY <2>1, <2>4 DEF ExchangeInv, TypeOK, QueuesInOrder, GhostInv
  <2>6. ASSUME NEW c \in Links
        PROVE  ChannelInv(c)' /\ ReceiverInv(c)'
    BY <2>1, <2>2, <2>3, <2>4
    DEF ExchangeInv, ChannelInv, NonlocalInv, LocalInv, ReceiverInv
  <2>7. QED
    BY <2>5, <2>6 DEF ExchangeInv
<1>3. QED
  BY <1>1, <1>2

(* What is under way is what was sent and not yet taken, for any number of *)
(* ranks, MeshData and exchanges.                                          *)
THEOREM ExchangeInvariant == Spec => []ExchangeInv
<1>1. Init => ExchangeInv
  BY ExchangeInit
<1>2. ExchangeInv /\ [Next]_vars => ExchangeInv'
  BY ExchangeInvStep
<1>3. QED
  BY <1>1, <1>2, PTL DEF Spec

-----------------------------------------------------------------------------
(***************************************************************************)
(* The refinement of HaloExchange.                                         *)
(***************************************************************************)
(* Both have the same neighbours. *)
LEMMA SameNeighbors ==
  ASSUME NEW p \in Parts
  PROVE  Halo!Neighbors(p) = Neighbors(p)
<1>1. ASSUME NEW q
      PROVE  q \in Halo!Neighbors(p) <=> q \in Neighbors(p)
  <2>1. CASE <<q, p>> \in Links
    BY <2>1, LinkFacts DEF Halo!Neighbors, Neighbors, Incoming
  <2>2. CASE <<q, p>> \notin Links
    BY <2>2, LinkFacts DEF Halo!Neighbors, Neighbors, Incoming
  <2>3. QED
    BY <2>1, <2>2
<1>2. QED
  BY <1>1

(* No neighbour of a MeshData that is about to set its ghost zones is       *)
(* behind, or more than one exchange ahead.                                *)
LEMMA NeighborsInStep ==
  ASSUME ExchangeInv, NEW p \in Parts, Pending(p, "set"), ~Pending(p, "receive"),
         NEW q \in Neighbors(p)
  PROVE  version[q] \in {version[p], version[p] + 1}
<1> DEFINE c == <<p, q>>
           d == <<q, p>>
<1>1. c \in Links /\ d \in Links /\ q \in Parts /\ c[1] = p /\ c[2] = q /\ d[1] = q /\ d[2] = p
  BY LinkFacts DEF Neighbors, Incoming
<1>2. version[p] \in Nat /\ version[q] \in Nat
  BY <1>1 DEF ExchangeInv, TypeOK
<1>3. ASSUME NEW e \in Links
      PROVE  Taken(e) <= Sent(e[1])
  <2>1. ChannelInv(e) /\ e[1] \in Parts /\ e[2] \in Parts
    BY LinkFacts DEF ExchangeInv
  <2>2. version[e[1]] \in Nat /\ version[e[2]] \in Nat
    BY <2>1 DEF ExchangeInv, TypeOK
  <2>3. Taken(e) \in Int /\ Sent(e[1]) \in Int
    BY <2>2 DEF Taken, Sent
  <2>4. CASE Nonlocal(e)
    <3>1. flight[e] \in Seq(Sendable)
      BY <2>4, EndFacts DEF ExchangeInv, TypeOK
    <3>2. Len(flight[e]) \in Nat /\ Len(flight[e]) = Sent(e[1]) - Taken(e)
      BY <2>1, <2>4, <3>1 DEF ChannelInv, NonlocalInv
    <3>3. QED
      BY <2>3, <3>2
  <2>5. CASE ~Nonlocal(e)
    BY <2>1, <2>3, <2>5 DEF ChannelInv, LocalInv
  <2>6. QED
    BY <2>4, <2>5
<1>4. Taken(d) = version[p] /\ Sent(q) <= version[q]
  BY <1>1, <1>2 DEF Taken, Sent
<1>5. Taken(c) >= version[q] - 1 /\ Sent(p) <= version[p]
  BY <1>1, <1>2 DEF Taken, Sent
<1>6. version[p] <= version[q] /\ version[q] - 1 <= version[p]
  <2>1. Taken(d) <= Sent(q) /\ Taken(c) <= Sent(p)
    BY <1>1, <1>3
  <2>2. Sent(q) \in Int /\ Sent(p) \in Int /\ Taken(c) \in Int
    BY <1>1, <1>2 DEF Sent, Taken
  <2>3. QED
    BY <1>2, <1>4, <1>5, <2>1, <2>2
<1>7. QED
  BY <1>2, <1>6

(* Every step is a step of HaloExchange, or leaves version and ghost alone. *)
LEMMA HaloStep == ExchangeInv /\ [Next]_vars => [Halo!Next]_(Halo!vars)
<1> SUFFICES ASSUME ExchangeInv, [Next]_vars PROVE [Halo!Next]_(Halo!vars)
  OBVIOUS
<1>1. CASE UNCHANGED vars
  BY <1>1 DEF vars, dataVars, Halo!vars
<1>2. CASE Next
  <2>1. PICK r \in Ranks : RunTask(r)
    BY <1>2 DEF Next
  <2>2. PICK p : \/ SendBlocked(r, p) \/ SendBoundBufs(r, p)
                 \/ StartReceiveBoundBufs(r, p) \/ ReceiveBoundBufs(r, p) \/ SetBounds(r, p)
                 \/ Compute(r, p)
    BY <2>1 DEF RunTask
  <2>3. CASE SendBlocked(r, p)
    BY <2>3 DEF SendBlocked, dataVars, Halo!vars
  <2>4. CASE SendBoundBufs(r, p)
    BY <2>4 DEF SendBoundBufs, dataVars, Halo!vars
  <2>5. CASE StartReceiveBoundBufs(r, p)
    BY <2>5 DEF StartReceiveBoundBufs, dataVars, Halo!vars
  <2>6. CASE ReceiveBoundBufs(r, p)
    BY <2>6 DEF ReceiveBoundBufs, Halo!vars
  <2>7. CASE SetBounds(r, p)
    <3>1. /\ TypeOK /\ QueuesInOrder /\ AtHead(r, Task(p, "set"))
          /\ p \in Parts /\ Pending(p, "set") /\ version[p] \in Nat
      BY <2>7, HeadFacts DEF ExchangeInv, TypeOK, SetBounds, Run
    <3>2. ~Pending(p, "receive")
      BY <3>1, BehindHead
    <3>3. /\ version' = version
          /\ ghost' = [ghost EXCEPT ![p] =
               [q \in Neighbors(p) |-> buffer[RecvEnd(<<q, p>>)].data.version]]
      BY <2>7 DEF SetBounds
    <3>4. ghost' = [ghost EXCEPT ![p] = [q \in Neighbors(p) |-> version[p]]]
      BY <2>7, <3>3, SetStep
    <3>5. ghost = [q \in Parts |-> [s \in Neighbors(q) |-> Filled(q)]]
      BY DEF ExchangeInv, GhostInv
    <3>6. ghost[p] = [s \in Neighbors(p) |-> version[p] - 1]
      BY <3>1, <3>5 DEF Filled
    <3>7. CASE Neighbors(p) = {}
      <4>1. ghost[p] = [q \in Neighbors(p) |-> version[p]]
        BY <3>6, <3>7
      <4>2. ghost' = ghost
        BY <3>1, <3>4, <3>5, <4>1
      <4>3. QED
        BY <3>3, <4>2 DEF Halo!vars
    <3>8. CASE Neighbors(p) # {}
      <4>1. \E q \in Neighbors(p) : ghost[p][q] # version[p]
        BY <3>1, <3>6, <3>8
      <4>2. \A q \in Neighbors(p) : version[q] \in {version[p], version[p] + 1}
        BY <3>1, <3>2, NeighborsInStep
      <4>3. Halo!Fill(p)
        BY <3>1, <3>3, <3>4, <4>1, <4>2, SameNeighbors DEF Halo!Fill
      <4>4. QED
        BY <3>1, <4>3 DEF Halo!Next
    <3>9. QED
      BY <3>7, <3>8
  <2>8. CASE Compute(r, p)
    <3>1. p \in Parts
      BY <2>8, HeadFacts DEF ExchangeInv, Compute, Run
    <3>2. \A q \in Neighbors(p) : ghost[p][q] = version[p]
      BY <2>8, ComputeStep
    <3>3. Halo!Compute(p)
      BY <2>8, <3>1, <3>2, SameNeighbors DEF Compute, Halo!Compute
    <3>4. QED
      BY <3>1, <3>3 DEF Halo!Next
  <2>9. QED
    BY <2>2, <2>3, <2>4, <2>5, <2>6, <2>7, <2>8
<1>3. QED
  BY <1>1, <1>2

(* Every exchange fills the ghost zones of a MeshData with its neighbours'  *)
(* data for that exchange (SendBoundBufs, ReceiveBoundBufs, SetBounds):    *)
(* the boundary communication implements HaloExchange, for any ranks,      *)
(* lists, links and number of exchanges.                                   *)
THEOREM HaloRefinement == Spec => ImplementsHaloExchange
<1>1. Init => Halo!Init
  BY SameNeighbors DEF Init, Halo!Init
<1>2. ExchangeInv /\ [Next]_vars => [Halo!Next]_(Halo!vars)
  BY HaloStep
<1>3. QED
  BY <1>1, <1>2, ExchangeInvariant, PTL DEF Spec, ImplementsHaloExchange, Halo!Spec

-----------------------------------------------------------------------------
(***************************************************************************)
(* StorageInv is inductive, too.                                           *)
(***************************************************************************)
LEMMA StorageInit == Init => StorageInv
<1> SUFFICES ASSUME Init PROVE StorageInv
  OBVIOUS
<1>1. \A p \in Parts : (nonzero[p] => allocated[p]) /\ (~sparse => nonzero[p])
  BY DEF Init
<1>2. ASSUME NEW c \in Links
      PROVE  /\ NullInv(buffer[SendEnd(c)]) /\ NullInv(buffer[RecvEnd(c)])
             /\ SenderStorage(c) /\ ReceiverStorage(c)
  <2>1. buffer[SendEnd(c)] = NewBuffer /\ buffer[RecvEnd(c)] = NewBuffer
    BY EndFacts DEF Init
  <2>2. QED
    BY <2>1 DEF NewBuffer, NullInv, SenderStorage, ReceiverStorage
<1>3. QED
  BY <1>1, <1>2 DEF StorageInv

(* What the steps of the other tasks leave of the storage of a channel.    *)
LEMMA StorageKept ==
  ASSUME NEW c \in Links, NullInv(buffer[SendEnd(c)]), NullInv(buffer[RecvEnd(c)]),
         SenderStorage(c), ReceiverStorage(c),
         buffer'[SendEnd(c)].state \in {buffer[SendEnd(c)].state, "stale"},
         buffer'[SendEnd(c)].data = buffer[SendEnd(c)].data,
         buffer'[RecvEnd(c)].state \in {buffer[RecvEnd(c)].state, "stale"},
         buffer'[RecvEnd(c)].data = buffer[RecvEnd(c)].data,
         buffer[SendEnd(c)].active /\ allocated[c[1]] => buffer'[SendEnd(c)].active,
         allocated[c[1]] => allocated'[c[1]], allocated[c[2]] => allocated'[c[2]],
         nonzero[c[1]] => nonzero'[c[1]],
         Pending(c[1], "send") => Pending(c[1], "send")'
  PROVE  /\ NullInv(buffer'[SendEnd(c)]) /\ NullInv(buffer'[RecvEnd(c)])
         /\ SenderStorage(c)' /\ ReceiverStorage(c)'
  BY DEF NullInv, SenderStorage, ReceiverStorage

(* Only a Send takes a Send from a queue. *)
LEMMA SendStaysPending ==
  ASSUME ExchangeInv, NEW r \in Ranks, NEW p,
         \/ SendBlocked(r, p) \/ StartReceiveBoundBufs(r, p) \/ ReceiveBoundBufs(r, p)
         \/ SetBounds(r, p) \/ Compute(r, p)
  PROVE  \A q \in Parts : Pending(q, "send") => Pending(q, "send")'
<1>1. TypeOK /\ QueuesInOrder
  BY DEF ExchangeInv
<1>2. PICK kind, next :
        /\ Run(r, Task(p, kind), next)
        /\ next \in {<<>>, Exchange(p)} \cup {<<Task(p, k)>> : k \in Kinds}
        /\ kind = "send" => next = <<Task(p, "send")>>
  <2>1. CASE SendBlocked(r, p)
    BY <2>1 DEF SendBlocked, Kinds
  <2>2. CASE StartReceiveBoundBufs(r, p)
    BY <2>2 DEF StartReceiveBoundBufs
  <2>3. CASE ReceiveBoundBufs(r, p)
    BY <2>3 DEF ReceiveBoundBufs, Kinds
  <2>4. CASE SetBounds(r, p)
    BY <2>4 DEF SetBounds, Kinds
  <2>5. CASE Compute(r, p)
    BY <2>5 DEF Compute
  <2>6. QED
    BY <2>1, <2>2, <2>3, <2>4, <2>5
<1>3. p \in Parts
  BY <1>1, <1>2, HeadFacts DEF Run
<1>4. next \in Seq(TaskType) /\ \A n \in DOMAIN next : next[n].part = p
  <2>1. CASE next = <<>>
    BY <2>1
  <2>2. CASE next = Exchange(p)
    BY <1>3, <2>2, ExchangeFacts
  <2>3. CASE \E k \in Kinds : next = <<Task(p, k)>>
    BY <1>3, <2>3 DEF TaskType, Task
  <2>4. QED
    BY <1>2, <2>1, <2>2, <2>3
<1>5. "send" \in Kinds \ {"start"}
  BY DEF Kinds
<1>6. \A q \in Parts :
        Pending(q, "send")' <=> \/ Pending(q, "send") /\ (q = p => "send" # kind)
                                \/ q = p /\ \E n \in DOMAIN next : next[n].kind = "send"
  BY <1>1, <1>2, <1>4, <1>5, PendingAfter
<1>7. kind = "send" => \E n \in DOMAIN next : next[n].kind = "send"
  <2>1. SUFFICES ASSUME next = <<Task(p, "send")>>
                 PROVE  \E n \in DOMAIN next : next[n].kind = "send"
    BY <1>2
  <2>2. 1 \in DOMAIN next /\ next[1].kind = "send"
    BY <2>1 DEF Task
  <2>3. QED
    BY <2>2
<1>8. QED
  BY <1>6, <1>7

(* A blocked Send lets the storage of its buffers follow the variable. *)
LEMMA StorageSendBlocked ==
  ASSUME ExchangeInv, StorageInv, NEW r \in Ranks, NEW p, SendBlocked(r, p)
  PROVE  StorageInv'
<1>1. TypeOK /\ QueuesInOrder /\ p \in Parts
  BY HeadFacts DEF ExchangeInv, SendBlocked, Run
<1>2. UNCHANGED <<sparse, version, allocated, nonzero, ghost>>
  BY DEF SendBlocked, dataVars
<1>3. PICK early_done \in SUBSET MayComplete(p) :
        buffer' = CheckSendBufferCache(p, early_done \cup Completed(p))
  BY DEF SendBlocked
<1>4. early_done \cup Completed(p) \in SUBSET (Outgoing(p) \cap Channels)
  BY DEF MayComplete, Completed
<1>5. ASSUME NEW c \in Links
      PROVE  /\ NullInv(buffer[SendEnd(c)])' /\ NullInv(buffer[RecvEnd(c)])'
             /\ SenderStorage(c)' /\ ReceiverStorage(c)'
  <2>1. /\ buffer'[RecvEnd(c)].state = buffer[RecvEnd(c)].state
        /\ buffer'[RecvEnd(c)].data = buffer[RecvEnd(c)].data
        /\ buffer'[SendEnd(c)].data = buffer[SendEnd(c)].data
        /\ buffer'[SendEnd(c)].state \in {buffer[SendEnd(c)].state, "stale"}
        /\ c[1] = p => buffer'[SendEnd(c)].active = allocated[p]
        /\ c[1] # p => buffer'[SendEnd(c)] = buffer[SendEnd(c)]
    BY <1>1, <1>3, <1>4, CheckEffect
  <2>2. c[1] \in Parts /\ (Pending(c[1], "send") => Pending(c[1], "send")')
    BY LinkFacts, SendStaysPending
  <2>3. buffer[SendEnd(c)].active /\ allocated[c[1]] => buffer'[SendEnd(c)].active
    BY <2>1
  <2>4. QED
    BY <1>2, <2>1, <2>2, <2>3, StorageKept DEF StorageInv
<1>6. QED
  BY <1>2, <1>5 DEF StorageInv

(* A Send only sends data that has storage. *)
LEMMA StorageSend ==
  ASSUME ExchangeInv, StorageInv, NEW r \in Ranks, NEW p, SendBoundBufs(r, p)
  PROVE  StorageInv'
<1>1. TypeOK /\ QueuesInOrder /\ Run(r, Task(p, "send"), <<>>) /\ p \in Parts
  BY HeadFacts DEF ExchangeInv, SendBoundBufs, Run
<1>2. UNCHANGED <<sparse, version, allocated, nonzero, ghost>>
  BY DEF SendBoundBufs, dataVars
<1>3. "send" \in Kinds \ {"start"}
  BY DEF Kinds
<1>4. \A q \in Parts : Pending(q, "send")' <=> Pending(q, "send") /\ q # p
  BY <1>1, <1>3, RunNone
<1>5. ASSUME NEW c \in Links
      PROVE  /\ NullInv(buffer[SendEnd(c)])' /\ NullInv(buffer[RecvEnd(c)])'
             /\ SenderStorage(c)' /\ ReceiverStorage(c)'
  <2>1. /\ c[1] = p =>
             /\ buffer'[SendEnd(c)].state \in {"sending", "sending_null"}
             /\ buffer'[SendEnd(c)].active = allocated[p]
             /\ ~buffer'[SendEnd(c)].data.null => allocated[p] /\ nonzero[p]
             /\ buffer'[SendEnd(c)].data.null <=> buffer'[SendEnd(c)].state = "sending_null"
        /\ c[1] # p => buffer'[SendEnd(c)] = buffer[SendEnd(c)]
        /\ c[1] # p \/ Nonlocal(c) =>
             /\ buffer'[RecvEnd(c)].state = buffer[RecvEnd(c)].state
             /\ buffer'[RecvEnd(c)].data = buffer[RecvEnd(c)].data
    BY <1>1, SendChanges
  <2>2. /\ c[1] \in Parts /\ c[2] \in Parts
        /\ SendEnd(c) = RecvEnd(c) <=> ~Nonlocal(c)
        /\ NullInv(buffer[SendEnd(c)]) /\ NullInv(buffer[RecvEnd(c)])
        /\ SenderStorage(c) /\ ReceiverStorage(c)
    BY LinkFacts, EndFacts DEF StorageInv
  <2>3. CASE c[1] = p
    <3>1. NullInv(buffer[SendEnd(c)])' /\ SenderStorage(c)'
      BY <1>2, <2>1, <2>3 DEF NullInv, SenderStorage
    <3>2. CASE Nonlocal(c)
      BY <1>2, <2>1, <2>2, <3>1, <3>2 DEF NullInv, ReceiverStorage
    <3>3. CASE ~Nonlocal(c)
      BY <1>2, <2>1, <2>2, <2>3, <3>1, <3>3 DEF NullInv, ReceiverStorage
    <3>4. QED
      BY <3>1, <3>2, <3>3
  <2>4. CASE c[1] # p
    <3>1. Pending(c[1], "send") => Pending(c[1], "send")'
      BY <1>4, <2>2, <2>4
    <3>2. QED
      BY <1>2, <2>1, <2>2, <2>4, <3>1, StorageKept
  <2>5. QED
    BY <2>3, <2>4
<1>6. QED
  BY <1>2, <1>5 DEF StorageInv

(* A receive that is started early has no data yet. *)
LEMMA StorageStart ==
  ASSUME ExchangeInv, StorageInv, NEW r \in Ranks, NEW p, StartReceiveBoundBufs(r, p)
  PROVE  StorageInv'
<1>1. TypeOK /\ QueuesInOrder /\ p \in Parts
  BY HeadFacts DEF ExchangeInv, StartReceiveBoundBufs, Run
<1>2. UNCHANGED <<sparse, version, allocated, nonzero, ghost>>
  BY DEF StartReceiveBoundBufs, dataVars
<1>3. ASSUME NEW c \in Links
      PROVE  /\ NullInv(buffer[SendEnd(c)])' /\ NullInv(buffer[RecvEnd(c)])'
             /\ SenderStorage(c)' /\ ReceiverStorage(c)'
  <2>1. /\ buffer'[SendEnd(c)].state = buffer[SendEnd(c)].state
        /\ buffer'[SendEnd(c)].data = buffer[SendEnd(c)].data
        /\ buffer'[SendEnd(c)].active = buffer[SendEnd(c)].active
        /\ buffer'[RecvEnd(c)].state = buffer[RecvEnd(c)].state
        /\ buffer'[RecvEnd(c)].data = buffer[RecvEnd(c)].data
    BY <1>1, StartChanges, EndFacts
  <2>2. c[1] \in Parts /\ (Pending(c[1], "send") => Pending(c[1], "send")')
    BY LinkFacts, SendStaysPending
  <2>3. QED
    BY <1>2, <2>1, <2>2, StorageKept DEF StorageInv
<1>4. QED
  BY <1>2, <1>3 DEF StorageInv

(* A variable that receives data is allocated by ReceiveBoundBufs. *)
LEMMA StorageReceive ==
  ASSUME ExchangeInv, StorageInv, NEW r \in Ranks, NEW p, ReceiveBoundBufs(r, p)
  PROVE  StorageInv'
<1>1. TypeOK /\ QueuesInOrder /\ p \in Parts /\ allocated[p] \in BOOLEAN
  BY HeadFacts DEF ExchangeInv, TypeOK, ReceiveBoundBufs
<1>2. UNCHANGED <<sparse, version, nonzero, ghost>>
  BY DEF ReceiveBoundBufs
<1>3. allocated' = [allocated EXCEPT ![p] =
        @ \/ \E c \in Incoming(p) : buffer'[RecvEnd(c)].state = "received"]
  BY <1>1, ReceiveChanges
<1>4. \A q \in Parts : allocated[q] => allocated'[q]
  BY <1>1, <1>3 DEF TypeOK
<1>5. \A c \in Incoming(p) : buffer'[RecvEnd(c)].state = "received" => allocated'[p]
  BY <1>1, <1>3 DEF TypeOK
<1>6. ASSUME NEW c \in Links
      PROVE  /\ NullInv(buffer[SendEnd(c)])' /\ NullInv(buffer[RecvEnd(c)])'
             /\ SenderStorage(c)' /\ ReceiverStorage(c)'
  <2>1. /\ c[2] # p /\ Nonlocal(c) => NotReceivedFrom(c)
        /\ c[2] = p /\ Nonlocal(c) => ReceivedFrom(c) \/ NotReceivedFrom(c)
        /\ c[2] # p \/ Nonlocal(c) => buffer'[SendEnd(c)] = buffer[SendEnd(c)]
        /\ c[2] = p /\ ~Nonlocal(c) => buffer'[SendEnd(c)] = TryReceiveBoth(buffer[SendEnd(c)])
    BY <1>1, ReceiveChanges
  <2>2. /\ c[1] \in Parts /\ c[2] \in Parts
        /\ SendEnd(c) = RecvEnd(c) <=> ~Nonlocal(c)
        /\ NullInv(buffer[SendEnd(c)]) /\ NullInv(buffer[RecvEnd(c)])
        /\ SenderStorage(c) /\ ReceiverStorage(c)
        /\ buffer[SendEnd(c)] \in AnyBuffer
    BY <1>1, LinkFacts, EndFacts DEF StorageInv, TypeOK
  <2>3. Pending(c[1], "send") => Pending(c[1], "send")'
    BY <2>2, SendStaysPending
  <2>4. allocated[c[1]] => allocated'[c[1]]
    BY <1>4, <2>2
  <2>5. ReceiverStorage(c)'
    <3>1. CASE c[2] = p
      BY <1>5, <3>1 DEF ReceiverStorage, Incoming
    <3>2. CASE c[2] # p
      BY <1>4, <2>1, <2>2, <3>2 DEF ReceiverStorage, NotReceivedFrom
    <3>3. QED
      BY <3>1, <3>2
  <2>6. NullInv(buffer[SendEnd(c)])' /\ SenderStorage(c)'
    <3>1. /\ buffer'[SendEnd(c)].data = buffer[SendEnd(c)].data
          /\ buffer'[SendEnd(c)].active = buffer[SendEnd(c)].active
          /\ NullInv(buffer'[SendEnd(c)])
      <4>1. CASE c[2] # p \/ Nonlocal(c)
        BY <2>1, <2>2, <4>1
      <4>2. CASE c[2] = p /\ ~Nonlocal(c)
        BY <2>1, <2>2, <4>2 DEF TryReceiveBoth, AnyBuffer, NullInv
      <4>3. QED
        BY <4>1, <4>2
    <3>2. QED
      BY <1>2, <2>2, <2>3, <2>4, <3>1 DEF SenderStorage
  <2>7. NullInv(buffer[RecvEnd(c)])'
    <3>1. CASE ~Nonlocal(c)
      BY <2>2, <2>6, <3>1
    <3>2. CASE Nonlocal(c) /\ NotReceivedFrom(c)
      BY <2>2, <3>2 DEF NullInv, NotReceivedFrom
    <3>3. CASE Nonlocal(c) /\ ReceivedFrom(c)
      BY <3>3 DEF NullInv, ReceivedFrom
    <3>4. QED
      BY <2>1, <3>1, <3>2, <3>3
  <2>8. QED
    BY <2>5, <2>6, <2>7
<1>7. QED
  BY <1>2, <1>4, <1>6 DEF StorageInv

(* SetBounds writes where there is storage. *)
LEMMA StorageSet ==
  ASSUME ExchangeInv, StorageInv, NEW r \in Ranks, NEW p, SetBounds(r, p)
  PROVE  StorageInv'
<1>1. TypeOK /\ QueuesInOrder /\ p \in Parts
  BY HeadFacts DEF ExchangeInv, SetBounds, Run
<1>2. /\ UNCHANGED <<sparse, version, allocated, flight>>
      /\ buffer' = [e \in Ends |-> IF e \in RecvEnds[p] THEN Stale(buffer[e]) ELSE buffer[e]]
      /\ nonzero' = [nonzero EXCEPT ![p] =
           @ \/ \E c \in Incoming(p) : buffer[RecvEnd(c)].state = "received"]
  BY DEF SetBounds
<1>3. \A e \in Ends : /\ buffer'[e].data = buffer[e].data /\ buffer'[e].active = buffer[e].active
                      /\ buffer'[e].state \in {buffer[e].state, "stale"}
  BY <1>1, <1>2 DEF TypeOK, Stale, AnyBuffer
<1>4. \A q \in Parts : nonzero[q] => nonzero'[q]
  BY <1>1, <1>2 DEF TypeOK
<1>5. \A q \in Parts : nonzero'[q] => allocated[q]
  <2>1. \A c \in Incoming(p) : buffer[RecvEnd(c)].state = "received" => allocated[p]
    BY DEF Incoming, StorageInv, ReceiverStorage
  <2>2. \A q \in Parts : nonzero[q] => allocated[q]
    BY DEF StorageInv
  <2>3. QED
    BY <1>1, <1>2, <2>1, <2>2 DEF TypeOK
<1>6. ASSUME NEW c \in Links
      PROVE  /\ NullInv(buffer[SendEnd(c)])' /\ NullInv(buffer[RecvEnd(c)])'
             /\ SenderStorage(c)' /\ ReceiverStorage(c)'
  <2>1. /\ c[1] \in Parts /\ c[2] \in Parts /\ SendEnd(c) \in Ends /\ RecvEnd(c) \in Ends
        /\ Pending(c[1], "send") => Pending(c[1], "send")'
    BY LinkFacts, EndFacts, SendStaysPending
  <2>2. QED
    BY <1>2, <1>3, <1>4, <2>1, StorageKept DEF StorageInv
<1>7. \A q \in Parts : (nonzero'[q] => allocated'[q]) /\ (~sparse' => nonzero'[q])
  BY <1>2, <1>4, <1>5 DEF StorageInv
<1>8. QED
  BY <1>6, <1>7 DEF StorageInv

(* SparseDealloc drops nothing that a neighbour may still have to read: it  *)
(* comes after the Send, and what was sent was above the threshold.        *)
LEMMA StorageCompute ==
  ASSUME ExchangeInv, StorageInv, NEW r \in Ranks, NEW p, Compute(r, p)
  PROVE  StorageInv'
<1>1. /\ TypeOK /\ QueuesInOrder /\ AtHead(r, Task(p, "compute"))
      /\ Run(r, Task(p, "compute"), Exchange(p)) /\ p \in Parts
  BY HeadFacts DEF ExchangeInv, Compute, Run
<1>2. ~Pending(p, "send") /\ ~Pending(p, "receive") /\ ~Pending(p, "set")
  BY <1>1, BehindHead
<1>3. UNCHANGED <<sparse, ghost, buffer, flight>>
  BY DEF Compute
<1>4. PICK kept \in SparseDealloc(p), a \in BOOLEAN, z \in BOOLEAN :
        /\ a \in {kept, TRUE}
        /\ allocated' = [allocated EXCEPT ![p] = a]
        /\ nonzero' = [nonzero EXCEPT ![p] = z]
        /\ (z => a) /\ (~sparse => z)
  <2>1. PICK kept \in SparseDealloc(p) : \E a \in {kept, TRUE} :
          /\ allocated' = [allocated EXCEPT ![p] = a]
          /\ \E z \in {FALSE, TRUE} :
               /\ z => a
               /\ ~sparse => z
               /\ nonzero' = [nonzero EXCEPT ![p] = z]
    BY DEF Compute
  <2>2. kept \in BOOLEAN
    BY <1>1 DEF SparseDealloc, TypeOK
  <2>3. QED
    BY <2>1, <2>2
<1>5. /\ \A q \in Parts \ {p} : allocated'[q] = allocated[q] /\ nonzero'[q] = nonzero[q]
      /\ allocated'[p] = a /\ nonzero'[p] = z
  BY <1>1, <1>4 DEF TypeOK
<1>6. nonzero[p] => allocated'[p]
  <2>1. SUFFICES ASSUME nonzero[p] PROVE a = TRUE
    BY <1>5
  <2>2. allocated[p] = TRUE
    BY <1>1, <2>1 DEF StorageInv, TypeOK
  <2>3. kept = TRUE
    BY <1>4, <2>1, <2>2 DEF SparseDealloc
  <2>4. QED
    BY <1>4, <2>3
<1>7. Pending(p, "send")'
  <2>1. Exchange(p) \in Seq(TaskType) /\ \A n \in DOMAIN Exchange(p) : Exchange(p)[n].part = p
    BY <1>1, ExchangeFacts
  <2>2. "send" \in Kinds \ {"start"}
    BY DEF Kinds
  <2>3. \E n \in DOMAIN Exchange(p) : Exchange(p)[n].kind = "send"
    BY <1>1, <2>2, ExchangeFacts
  <2>4. QED
    BY <1>1, <2>1, <2>2, <2>3, PendingAfter
<1>8. ASSUME NEW c \in Links
      PROVE  /\ NullInv(buffer[SendEnd(c)])' /\ NullInv(buffer[RecvEnd(c)])'
             /\ SenderStorage(c)' /\ ReceiverStorage(c)'
  <2>1. /\ c[1] \in Parts /\ c[2] \in Parts
        /\ NullInv(buffer[SendEnd(c)]) /\ NullInv(buffer[RecvEnd(c)])
        /\ SenderStorage(c) /\ ReceiverStorage(c) /\ ReceiverInv(c)
    BY LinkFacts DEF StorageInv, ExchangeInv
  <2>2. SenderStorage(c)'
    <3>1. CASE c[1] = p
      BY <1>2, <1>3, <1>6, <1>7, <2>1, <3>1 DEF SenderStorage
    <3>2. CASE c[1] # p
      BY <1>3, <1>5, <2>1, <3>2, SendStaysPending DEF SenderStorage
    <3>3. QED
      BY <3>1, <3>2
  <2>3. ReceiverStorage(c)'
    <3>1. CASE c[2] = p
      <4>1. buffer[RecvEnd(c)].state \notin Received
        BY <1>2, <2>1, <3>1 DEF ReceiverInv
      <4>2. QED
        BY <1>3, <4>1 DEF ReceiverStorage, Received
    <3>2. CASE c[2] # p
      BY <1>3, <1>5, <2>1, <3>2 DEF ReceiverStorage
    <3>3. QED
      BY <3>1, <3>2
  <2>4. QED
    BY <1>3, <2>1, <2>2, <2>3
<1>9. \A q \in Parts : (nonzero'[q] => allocated'[q]) /\ (~sparse' => nonzero'[q])
  BY <1>3, <1>4, <1>5 DEF StorageInv
<1>10. QED
  BY <1>8, <1>9 DEF StorageInv

(* Every step keeps StorageInv. *)
LEMMA StorageInvStep == ExchangeInv /\ StorageInv /\ [Next]_vars => StorageInv'
<1> SUFFICES ASSUME ExchangeInv, StorageInv, [Next]_vars PROVE StorageInv'
  OBVIOUS
<1>1. CASE Next
  <2>1. PICK r \in Ranks : RunTask(r)
    BY <1>1 DEF Next
  <2>2. PICK p : \/ SendBlocked(r, p) \/ SendBoundBufs(r, p)
                 \/ StartReceiveBoundBufs(r, p) \/ ReceiveBoundBufs(r, p) \/ SetBounds(r, p)
                 \/ Compute(r, p)
    BY <2>1 DEF RunTask
  <2>3. QED
    BY <2>2, StorageSendBlocked, StorageSend, StorageStart, StorageReceive, StorageSet,
       StorageCompute
<1>2. CASE UNCHANGED vars
  <2>1. UNCHANGED <<sparse, version, allocated, nonzero, ghost, queue, buffer, flight>>
    BY <1>2 DEF vars, dataVars
  <2>2. \A p, k : Pending(p, k)' <=> Pending(p, k)
    BY <2>1 DEF Pending
  <2>3. ASSUME NEW c \in Links
        PROVE  /\ NullInv(buffer[SendEnd(c)])' /\ NullInv(buffer[RecvEnd(c)])'
               /\ SenderStorage(c)' /\ ReceiverStorage(c)'
    BY <2>1, <2>2, StorageKept DEF StorageInv
  <2>4. QED
    BY <2>1, <2>3 DEF StorageInv
<1>3. QED
  BY <1>1, <1>2

(* What is sent and not null is in a message that is under way, in the      *)
(* sender's buffer, or received; both invariants say where its storage is. *)
LEMMA StorageIsKept == ExchangeInv /\ StorageInv => DataKept
<1> SUFFICES ASSUME ExchangeInv, StorageInv PROVE DataKept
  OBVIOUS
<1>1. ASSUME NEW c \in Links, Unread(c)
      PROVE  buffer[SendEnd(c)].active
  <2>1. SenderStorage(c) /\ NullInv(buffer[SendEnd(c)])
    BY DEF StorageInv
  <2>2. ~buffer[SendEnd(c)].data.null
    BY <1>1, <2>1 DEF Unread, NullInv
  <2>3. QED
    BY <2>1, <2>2 DEF SenderStorage
<1>2. ASSUME NEW r \in Ranks, NEW n \in DOMAIN queue[r], queue[r][n].kind = "set",
             NEW c \in Incoming(queue[r][n].part)
      PROVE  /\ buffer[RecvEnd(c)].state \in Received
             /\ ~buffer[RecvEnd(c)].data.null => allocated[queue[r][n].part]
  <2> DEFINE p == queue[r][n].part
  <2>1. c \in Links /\ c[2] = p
    BY DEF Incoming
  <2>2. Pending(p, "set")
    <3>1. queue[r] \in Seq(TaskType)
      BY DEF ExchangeInv, TypeOK
    <3>2. queue[r][n] \in TaskType
      BY <3>1
    <3>3. queue[r][n] = Task(p, "set")
      BY <1>2, <3>2 DEF TaskType, Task
    <3>4. Rank[p] = r
      BY DEF ExchangeInv, QueuesInOrder
    <3>5. QED
      BY <3>3, <3>4 DEF Pending
  <2>3. ReceiverInv(c) /\ NullInv(buffer[RecvEnd(c)]) /\ ReceiverStorage(c)
    BY <2>1 DEF ExchangeInv, StorageInv
  <2>4. buffer[RecvEnd(c)].state \in Received
    BY <2>1, <2>2, <2>3 DEF ReceiverInv
  <2>5. QED
    BY <2>1, <2>3, <2>4 DEF NullInv, ReceiverStorage, Received
<1>3. QED
  BY <1>1, <1>2 DEF DataKept

(* Data in a buffer has storage until MPI or the receiver has read it, and  *)
(* SetBounds finds storage for what was received (CommBuffer, the buffer   *)
(* pool and SparseDealloc), in every run of any instance.                  *)
THEOREM DataKeptAlways == Spec => []DataKept
<1>1. Init => StorageInv
  BY StorageInit
<1>2. ExchangeInv /\ StorageInv /\ [Next]_vars => StorageInv'
  BY StorageInvStep
<1>3. ExchangeInv /\ StorageInv => DataKept
  BY StorageIsKept
<1>4. QED
  BY <1>1, <1>2, <1>3, ExchangeInvariant, PTL DEF Spec

=============================================================================
