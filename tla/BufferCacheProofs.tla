-------------------------- MODULE BufferCacheProofs --------------------------
(***************************************************************************)
(* Proofs about the storage and the caches of the boundary exchange, for   *)
(* any ranks, MeshData, links, chunk size and number of exchanges: they    *)
(* leave the exchange as it is, no two buffers ever share storage, and     *)
(* what is copied uses the storage that the variable and the buffer have.  *)
(***************************************************************************)
EXTENDS BufferCache, BoundaryExchangeProofs, FiniteSetTheorems, WellFoundedInduction

(***************************************************************************)
(* What holds of a pool within its operations, too: W[x] is the handle     *)
(* that x holds, be it an owner or the temporary that Allocate makes.      *)
(***************************************************************************)
Temporary == CHOOSE x : x \notin Owners
Holding   == Owners \cup {Temporary}
Handles   == [key : Nat, object : Nat]
Uses      == [object : Nat, count : Nat]

Claims(W, k) == {x \in Holding : W[x].key = k}

PoolRecord(p) ==
  /\ DOMAIN p = {"available", "inuse", "keyc", "made", "owner"}
  /\ p.keyc \in Nat /\ p.made \in Nat
  /\ p.available \in Seq(Nat)
  /\ DOMAIN p.inuse \subseteq 1 .. p.keyc
  /\ p.inuse \in [DOMAIN p.inuse -> Uses]

(* an object is in one place *)
Apart(p) ==
  /\ IsInjective(p.available)
  /\ \A k \in DOMAIN p.inuse : p.inuse[k].object \notin ToSet(p.available)
  /\ \A k, l \in DOMAIN p.inuse : p.inuse[k].object = p.inuse[l].object => k = l
  /\ ToSet(p.available) \cup {p.inuse[k].object : k \in DOMAIN p.inuse} = 1 .. p.made

Claimed(p, W) ==
  /\ W \in [Holding -> Handles]
  /\ \A k \in DOMAIN p.inuse : p.inuse[k].count = Cardinality(Claims(W, k))
  /\ \A x \in Holding : W[x] # Nobody =>
       W[x].key \in DOMAIN p.inuse /\ p.inuse[W[x].key].object = W[x].object

(* what is claimed by no one is on the stack *)
InDemand(p, K) == \A k \in K : p.inuse[k].count > 0

PoolInv(p, W) == PoolRecord(p) /\ Apart(p) /\ Claimed(p, W) /\ InDemand(p, DOMAIN p.inuse)

(* q is p but for the count of key, which is c *)
Recounted(p, q, key, c) ==
  /\ DOMAIN q = DOMAIN p /\ q.available = p.available
  /\ q.keyc = p.keyc /\ q.made = p.made /\ q.owner = p.owner
  /\ DOMAIN q.inuse = DOMAIN p.inuse /\ q.inuse \in [DOMAIN p.inuse -> Uses]
  /\ \A k \in DOMAIN p.inuse :
       /\ q.inuse[k].object = p.inuse[k].object
       /\ q.inuse[k].count = IF k = key THEN c ELSE p.inuse[k].count

(* the keys that q shares with p, and what only their owners change *)
Keeps(p, q, key) ==
  /\ q.owner = p.owner /\ q.keyc = p.keyc
  /\ \A k \in DOMAIN p.inuse \ {key} : k \in DOMAIN q.inuse /\ q.inuse[k].object = p.inuse[k].object

-----------------------------------------------------------------------------
(***************************************************************************)
(* The holders.                                                            *)
(***************************************************************************)
LEMMA TemporaryIsNew == Temporary \notin Owners
  BY NoSetContainsEverything DEF Temporary

LEMMA HoldingIsFinite == IsFiniteSet(Holding)
  BY PoolAssumption, FS_AddElement DEF Holding

(* The claims are finite sets, and one changes when a holder does. *)
LEMMA ClaimsFacts ==
  ASSUME NEW W, NEW k
  PROVE  IsFiniteSet(Claims(W, k)) /\ Cardinality(Claims(W, k)) \in Nat
<1>1. Claims(W, k) \in SUBSET Holding
  BY DEF Claims
<1>2. IsFiniteSet(Claims(W, k))
  BY <1>1, HoldingIsFinite, FS_Subset
<1>3. QED
  BY <1>2, FS_CardinalityType

LEMMA ClaimsAfter ==
  ASSUME NEW W, NEW V, NEW x \in Holding, \A y \in Holding : y # x => V[y] = W[y], NEW k
  PROVE  /\ V[x].key = k => Claims(V, k) = Claims(W, k) \cup {x}
         /\ V[x].key # k => Claims(V, k) = Claims(W, k) \ {x}
  BY DEF Claims

(* A handle without a key is that of no storage. *)
LEMMA NobodyFacts ==
  ASSUME NEW p, NEW W, PoolInv(p, W), NEW x \in Holding
  PROVE  /\ Nobody \in Handles /\ Nobody.key = 0 /\ W[x] \in Handles
         /\ W[x].key = 0 <=> W[x] = Nobody
         /\ W[x].key \in 0 .. p.keyc
<1>1. Nobody \in Handles /\ Nobody.key = 0
  BY DEF Nobody, Handles
<1>2. W[x] \in Handles
  BY DEF PoolInv, Claimed
<1>3. p.keyc \in Nat /\ DOMAIN p.inuse \subseteq 1 .. p.keyc
  BY DEF PoolInv, PoolRecord
<1>4. W[x] # Nobody => W[x].key \in DOMAIN p.inuse
  BY DEF PoolInv, Claimed
<1>5. QED
  BY <1>1, <1>2, <1>3, <1>4

-----------------------------------------------------------------------------
(***************************************************************************)
(* The operations of a pool.                                               *)
(***************************************************************************)
LEMMA RecountedKeeps ==
  ASSUME NEW p, NEW q, NEW key \in DOMAIN p.inuse, NEW c,
         PoolRecord(p), Apart(p), Recounted(p, q, key, c)
  PROVE  PoolRecord(q) /\ Apart(q) /\ Keeps(p, q, key)
<1>1. PoolRecord(q)
  BY DEF PoolRecord, Recounted
<1>2. {q.inuse[k].object : k \in DOMAIN q.inuse} = {p.inuse[k].object : k \in DOMAIN p.inuse}
  BY DEF Recounted
<1>3. Apart(q)
  BY <1>2 DEF Apart, Recounted
<1>4. Keeps(p, q, key)
  BY DEF Keeps, Recounted
<1>5. QED
  BY <1>1, <1>3, <1>4

LEMMA CountChanged ==
  ASSUME NEW p, PoolRecord(p), NEW key \in DOMAIN p.inuse, NEW c \in Nat
  PROVE  Recounted(p, [p EXCEPT !.inuse[key].count = c], key, c)
<1> DEFINE q == [p EXCEPT !.inuse[key].count = c]
<1>1. /\ DOMAIN q = DOMAIN p /\ q.available = p.available
      /\ q.keyc = p.keyc /\ q.made = p.made /\ q.owner = p.owner
      /\ q.inuse = [p.inuse EXCEPT ![key] = [p.inuse[key] EXCEPT !.count = c]]
  BY DEF PoolRecord
<1>2. p.inuse \in [DOMAIN p.inuse -> Uses]
  BY DEF PoolRecord
<1> HIDE DEF q
<1>3. DOMAIN q.inuse = DOMAIN p.inuse
  BY <1>1, <1>2
<1>4. ASSUME NEW k \in DOMAIN p.inuse
      PROVE  /\ q.inuse[k].object = p.inuse[k].object
             /\ q.inuse[k].count = IF k = key THEN c ELSE p.inuse[k].count
  <2>1. p.inuse[k] \in Uses
    BY <1>2
  <2>2. q.inuse[k] = IF k = key THEN [p.inuse[key] EXCEPT !.count = c] ELSE p.inuse[k]
    BY <1>1, <1>2
  <2>3. QED
    BY <2>1, <2>2 DEF Uses
<1>5. q.inuse \in [DOMAIN p.inuse -> Uses]
  <2>1. p.inuse[key] \in Uses
    BY <1>2
  <2>2. [p.inuse[key] EXCEPT !.count = c] \in Uses
    BY <2>1 DEF Uses
  <2>3. QED
    BY <1>1, <1>2, <2>2
<1>6. Recounted(p, q, key, c)
  BY <1>1, <1>3, <1>4, <1>5 DEF Recounted
<1>7. QED
  BY <1>6 DEF q

LEMMA Appended ==
  ASSUME NEW s \in Seq(Nat), NEW x \in Nat
  PROVE  /\ Append(s, x) \in Seq(Nat) /\ Len(Append(s, x)) = Len(s) + 1
         /\ DOMAIN Append(s, x) = 1 .. Len(s) + 1
         /\ Append(s, x)[Len(s) + 1] = x /\ \A i \in 1 .. Len(s) : Append(s, x)[i] = s[i]
  OBVIOUS

(* What is put on the stack, if it is not there, is there once. *)
LEMMA Pushed ==
  ASSUME NEW s \in Seq(Nat), IsInjective(s), NEW x \in Nat, x \notin ToSet(s)
  PROVE  /\ Append(s, x) \in Seq(Nat) /\ IsInjective(Append(s, x))
         /\ ToSet(Append(s, x)) = ToSet(s) \cup {x}
<1> DEFINE t == Append(s, x)
<1>1. /\ t \in Seq(Nat) /\ Len(t) = Len(s) + 1 /\ DOMAIN t = 1 .. Len(s) + 1
      /\ t[Len(s) + 1] = x /\ \A i \in 1 .. Len(s) : t[i] = s[i]
  BY Appended
<1>2. DOMAIN s = 1 .. Len(s) /\ Len(s) \in Nat
  OBVIOUS
<1> HIDE DEF t
<1>3. \A i \in 1 .. Len(s) : s[i] # x
  BY <1>2 DEF ToSet
<1>4. \A i \in 1 .. Len(s) + 1 : i \in 1 .. Len(s) \/ i = Len(s) + 1
  BY <1>2
<1>5. IsInjective(t)
  BY <1>1, <1>2, <1>3, <1>4 DEF IsInjective
<1>6. ToSet(t) = ToSet(s) \cup {x}
  BY <1>1, <1>2, <1>4 DEF ToSet
<1>7. QED
  BY <1>1, <1>5, <1>6 DEF t

(* The top of the stack is nowhere else in it. *)
LEMMA Popped ==
  ASSUME NEW s \in Seq(Nat), IsInjective(s), s # <<>>
  PROVE  /\ Front(s) \in Seq(Nat) /\ IsInjective(Front(s))
         /\ Last(s) \in Nat /\ Last(s) \notin ToSet(Front(s))
         /\ ToSet(s) = ToSet(Front(s)) \cup {Last(s)}
<1> DEFINE t == Front(s)
<1>1. DOMAIN s = 1 .. Len(s) /\ Len(s) \in Nat \ {0}
  OBVIOUS
<1>2. /\ t \in Seq(Nat) /\ DOMAIN t = 1 .. Len(s) - 1
      /\ \A i \in 1 .. Len(s) - 1 : t[i] = s[i]
  BY <1>1 DEF Front
<1>3. Last(s) = s[Len(s)] /\ s[Len(s)] \in Nat
  BY <1>1 DEF Last
<1> HIDE DEF t
<1>4. ASSUME NEW n \in Nat, NEW i \in 1 .. n - 1
      PROVE  i \in 1 .. n /\ i # n
  OBVIOUS
<1>5. ASSUME NEW n \in Nat, NEW i \in 1 .. n
      PROVE  i \in 1 .. n - 1 \/ i = n
  OBVIOUS
<1>6. IsInjective(t)
  BY <1>1, <1>2, <1>4 DEF IsInjective
<1>7. Len(s) \in DOMAIN s
  BY <1>1
<1>8. ASSUME NEW i \in DOMAIN t
      PROVE  t[i] # Last(s)
  <2>1. t[i] = s[i] /\ i \in DOMAIN s /\ i # Len(s)
    BY <1>1, <1>2, <1>4
  <2>2. s[i] # s[Len(s)]
    BY <1>7, <2>1 DEF IsInjective
  <2>3. QED
    BY <1>3, <2>1, <2>2
<1>9. ASSUME NEW x
      PROVE  x \in ToSet(s) <=> x \in ToSet(t) \/ x = Last(s)
  <2>1. x \in ToSet(s) <=> \E i \in 1 .. Len(s) : s[i] = x
    BY <1>1 DEF ToSet
  <2>2. x \in ToSet(t) <=> \E i \in 1 .. Len(s) - 1 : s[i] = x
    BY <1>2 DEF ToSet
  <2>3. QED
    BY <1>1, <1>3, <1>4, <1>5, <1>7, <2>1, <2>2
<1>10. Last(s) \notin ToSet(t) /\ ToSet(s) = ToSet(t) \cup {Last(s)}
  BY <1>8, <1>9 DEF ToSet
<1>11. QED
  BY <1>2, <1>3, <1>6, <1>10 DEF t

(* An object whose last owner lets go goes back on the stack. *)
LEMMA PutBackFacts ==
  ASSUME NEW p, PoolRecord(p), Apart(p), NEW key \in DOMAIN p.inuse
  PROVE  /\ PoolRecord(PutBack(p, key)) /\ Apart(PutBack(p, key))
         /\ Keeps(p, PutBack(p, key), key)
         /\ DOMAIN PutBack(p, key).inuse = DOMAIN p.inuse \ {key}
         /\ \A k \in DOMAIN p.inuse \ {key} : PutBack(p, key).inuse[k] = p.inuse[k]
<1> DEFINE q == PutBack(p, key)
           x == p.inuse[key].object
<1>1. /\ DOMAIN q = DOMAIN p /\ q.available = Append(p.available, x)
      /\ q.keyc = p.keyc /\ q.made = p.made /\ q.owner = p.owner
      /\ q.inuse = Restrict(p.inuse, DOMAIN p.inuse \ {key})
  BY DEF PutBack, PoolRecord
<1>2. /\ DOMAIN q.inuse = DOMAIN p.inuse \ {key}
      /\ \A k \in DOMAIN p.inuse \ {key} : q.inuse[k] = p.inuse[k]
  BY <1>1 DEF Restrict
<1>3. /\ p.available \in Seq(Nat) /\ IsInjective(p.available)
      /\ x \in Nat /\ x \notin ToSet(p.available)
  BY DEF PoolRecord, Apart, Uses
<1> HIDE DEF q, x
<1>4. /\ q.available \in Seq(Nat) /\ IsInjective(q.available)
      /\ ToSet(q.available) = ToSet(p.available) \cup {x}
  BY <1>1, <1>3, Pushed
<1>5. q.inuse \in [DOMAIN q.inuse -> Uses]
  <2>1. \A k \in DOMAIN q.inuse : q.inuse[k] \in Uses
    BY <1>2 DEF PoolRecord
  <2>2. q.inuse = [k \in DOMAIN q.inuse |-> q.inuse[k]]
    BY <1>1 DEF Restrict
  <2>3. QED
    BY <2>1, <2>2
<1>6. PoolRecord(q)
  BY <1>1, <1>2, <1>4, <1>5 DEF PoolRecord
<1>7. {p.inuse[k].object : k \in DOMAIN p.inuse} = {q.inuse[k].object : k \in DOMAIN q.inuse} \cup {x}
  BY <1>2 DEF x
<1>8. ToSet(q.available) \cup {q.inuse[k].object : k \in DOMAIN q.inuse} = 1 .. q.made
  BY <1>1, <1>4, <1>7 DEF Apart
<1>9. \A k \in DOMAIN q.inuse : q.inuse[k].object \notin ToSet(q.available)
  BY <1>2, <1>4 DEF Apart, x
<1>10. \A k, l \in DOMAIN q.inuse : q.inuse[k].object = q.inuse[l].object => k = l
  BY <1>2 DEF Apart
<1>11. Apart(q)
  BY <1>4, <1>8, <1>9, <1>10 DEF Apart
<1>12. Keeps(p, q, key)
  BY <1>1, <1>2 DEF Keeps
<1>13. QED
  BY <1>2, <1>6, <1>11, <1>12 DEF q

(* a chunk of objects after the first m, and the stack made of it *)
IsChunk(c, m) ==
  c \in Seq(Nat) /\ Len(c) = ChunkSize /\ \A n \in 1 .. ChunkSize : c[n] = m + n

IsChunkStack(t, m) ==
  /\ t \in Seq(Nat) /\ Len(t) = ChunkSize
  /\ \A n \in 1 .. ChunkSize : t[n] = IF n = ChunkSize THEN m + 1 ELSE m + n + 1

LEMMA NewChunk ==
  ASSUME NEW m \in Nat
  PROVE  IsChunk([n \in 1 .. ChunkSize |-> m + n], m)
<1>1. ChunkSize \in Nat
  BY PoolAssumption
<1>2. \A n \in 1 .. ChunkSize : m + n \in Nat
  OBVIOUS
<1>3. QED
  BY <1>1, <1>2 DEF IsChunk

LEMMA ChunkStack ==
  ASSUME NEW m \in Nat, NEW chunk, IsChunk(chunk, m), NEW t, t = Append(Tail(chunk), chunk[1])
  PROVE  IsChunkStack(t, m)
<1>1. ChunkSize \in Nat /\ ChunkSize > 0
  BY PoolAssumption
<1>2. /\ 1 \in 1 .. ChunkSize
      /\ chunk \in Seq(Nat) /\ Len(chunk) = ChunkSize /\ \A n \in 1 .. ChunkSize : chunk[n] = m + n
  BY <1>1 DEF IsChunk
<1>3. chunk # <<>> /\ chunk[1] = m + 1 /\ chunk[1] \in Nat
  BY <1>1, <1>2
<1>4. /\ Tail(chunk) \in Seq(Nat) /\ Len(Tail(chunk)) = ChunkSize - 1
      /\ \A n \in 1 .. ChunkSize - 1 : Tail(chunk)[n] = chunk[n + 1]
  BY <1>1, <1>2, <1>3
<1>5. \A n \in 1 .. ChunkSize - 1 : Tail(chunk)[n] = m + n + 1
  BY <1>1, <1>2, <1>4
<1>6. /\ t \in Seq(Nat) /\ Len(t) = ChunkSize - 1 + 1 /\ t[ChunkSize - 1 + 1] = m + 1
      /\ \A n \in 1 .. ChunkSize - 1 : t[n] = Tail(chunk)[n]
  BY <1>3, <1>4, Appended
<1>7. ChunkSize - 1 + 1 = ChunkSize
  BY <1>1
<1>8. \A n \in 1 .. ChunkSize : n # ChunkSize => n \in 1 .. ChunkSize - 1
  BY <1>1
<1>9. QED
  BY <1>5, <1>6, <1>7, <1>8 DEF IsChunkStack

(* A new chunk holds objects that no one has seen, each once. *)
LEMMA ChunkFacts ==
  ASSUME NEW m \in Nat, NEW t, IsChunkStack(t, m)
  PROVE  t \in Seq(Nat) /\ t # <<>> /\ IsInjective(t) /\ ToSet(t) = m + 1 .. m + ChunkSize
<1>1. ChunkSize \in Nat /\ ChunkSize > 0
  BY PoolAssumption
<1>2. /\ t \in Seq(Nat) /\ Len(t) = ChunkSize /\ DOMAIN t = 1 .. ChunkSize
      /\ \A n \in 1 .. ChunkSize : t[n] = IF n = ChunkSize THEN m + 1 ELSE m + n + 1
  BY DEF IsChunkStack
<1>3. t # <<>>
  BY <1>1, <1>2
<1>4. IsInjective(t)
  BY <1>1, <1>2 DEF IsInjective
<1>5. ASSUME NEW i \in m + 1 .. m + ChunkSize
      PROVE  \E n \in 1 .. ChunkSize : t[n] = i
  <2>1. CASE i = m + 1
    BY <1>1, <1>2, <2>1
  <2>2. CASE i # m + 1
    <3>1. i - m - 1 \in 1 .. ChunkSize /\ i - m - 1 # ChunkSize /\ m + (i - m - 1) + 1 = i
      BY <1>1, <2>2
    <3>2. QED
      BY <1>2, <3>1
  <2>3. QED
    BY <2>1, <2>2
<1>6. ASSUME NEW n \in 1 .. ChunkSize
      PROVE  t[n] \in m + 1 .. m + ChunkSize
  <2>1. m + 1 \in m + 1 .. m + ChunkSize /\ (n # ChunkSize => m + n + 1 \in m + 1 .. m + ChunkSize)
    BY <1>1
  <2>2. QED
    BY <1>2, <2>1
<1>7. ToSet(t) = {t[n] : n \in 1 .. ChunkSize}
  BY <1>2 DEF ToSet
<1>8. QED
  BY <1>2, <1>3, <1>4, <1>5, <1>6, <1>7

LEMMA StockedFacts ==
  ASSUME NEW p, PoolRecord(p), Apart(p)
  PROVE  /\ PoolRecord(Stocked(p)) /\ Apart(Stocked(p)) /\ Stocked(p).available # <<>>
         /\ Stocked(p).inuse = p.inuse /\ Stocked(p).keyc = p.keyc /\ Stocked(p).owner = p.owner
<1>1. CASE p.available # <<>>
  BY <1>1 DEF Stocked
<1>2. CASE p.available = <<>>
  <2> DEFINE q == Stocked(p)
             chunk == [n \in 1 .. ChunkSize |-> p.made + n]
             t == Append(Tail(chunk), chunk[1])
  <2>1. /\ DOMAIN q = DOMAIN p /\ q.available = t /\ q.made = p.made + ChunkSize
        /\ q.inuse = p.inuse /\ q.keyc = p.keyc /\ q.owner = p.owner
    BY <1>2 DEF Stocked, PoolRecord
  <2>2. p.made \in Nat /\ ChunkSize \in Nat
    BY PoolAssumption DEF PoolRecord
  <2> HIDE DEF q
  <2>3. t \in Seq(Nat) /\ t # <<>> /\ IsInjective(t) /\ ToSet(t) = p.made + 1 .. p.made + ChunkSize
    <3>1. IsChunk(chunk, p.made) /\ t = Append(Tail(chunk), chunk[1])
      BY <2>2, NewChunk
    <3> HIDE DEF chunk, t
    <3>2. IsChunkStack(t, p.made)
      BY <2>2, <3>1, ChunkStack
    <3>3. QED
      BY <2>2, <3>2, ChunkFacts
  <2> HIDE DEF t
  <2>4. PoolRecord(q)
    BY <2>1, <2>2, <2>3 DEF PoolRecord
  <2>5. ToSet(p.available) = {}
    BY <1>2 DEF ToSet
  <2>6. {p.inuse[k].object : k \in DOMAIN p.inuse} = 1 .. p.made
    BY <2>5 DEF Apart
  <2>7. 1 .. p.made + ChunkSize = (1 .. p.made) \cup (p.made + 1 .. p.made + ChunkSize)
    BY <2>2
  <2>8. \A k \in DOMAIN p.inuse : p.inuse[k].object \in 1 .. p.made
    BY <2>6
  <2>9. \A i \in 1 .. p.made : i \notin p.made + 1 .. p.made + ChunkSize
    BY <2>2
  <2>10. Apart(q)
    BY <2>1, <2>3, <2>6, <2>7, <2>8, <2>9 DEF Apart
  <2>11. QED
    BY <2>1, <2>3, <2>4, <2>10 DEF q
<1>3. QED
  BY <1>1, <1>2

(* What is handed out was on the stack, and its key is new. *)
LEMMA GetFacts ==
  ASSUME NEW p, PoolRecord(p), Apart(p), NEW key, key = p.keyc + 1
  PROVE  /\ PoolRecord(Get(p)) /\ Apart(Get(p))
         /\ Get(p).owner = p.owner /\ Get(p).keyc = key
         /\ key \notin DOMAIN p.inuse /\ DOMAIN Get(p).inuse = DOMAIN p.inuse \cup {key}
         /\ \A k \in DOMAIN p.inuse : Get(p).inuse[k] = p.inuse[k]
         /\ Get(p).inuse[key] \in Uses /\ Get(p).inuse[key].count = 0
<1> DEFINE stock == Stocked(p)
           q == Get(p)
           x == Last(stock.available)
<1>1. /\ PoolRecord(stock) /\ Apart(stock) /\ stock.available # <<>>
      /\ stock.inuse = p.inuse /\ stock.keyc = p.keyc /\ stock.owner = p.owner
  BY StockedFacts
<1>2. /\ DOMAIN q = DOMAIN stock /\ q.available = Front(stock.available) /\ q.keyc = key
      /\ q.made = stock.made /\ q.owner = stock.owner
      /\ q.inuse = [k \in DOMAIN p.inuse \cup {key} |->
                      IF k = key THEN [object |-> x, count |-> 0] ELSE p.inuse[k]]
  <2> HIDE DEF stock
  <2>1. DOMAIN stock = {"available", "inuse", "keyc", "made", "owner"}
    BY <1>1 DEF PoolRecord
  <2>2. QED
    BY <2>1 DEF Get, stock
<1> HIDE DEF stock, q, x
<1>3. p.keyc \in Nat /\ DOMAIN p.inuse \subseteq 1 .. p.keyc
  BY DEF PoolRecord
<1>4. key \in 1 .. key /\ key \in Nat /\ key \notin DOMAIN p.inuse /\ DOMAIN p.inuse \subseteq 1 .. key
  BY <1>3
<1>5. /\ q.available \in Seq(Nat) /\ IsInjective(q.available)
      /\ x \in Nat /\ x \notin ToSet(q.available)
      /\ ToSet(stock.available) = ToSet(q.available) \cup {x}
  BY <1>1, <1>2, Popped DEF PoolRecord, Apart, x
<1>6. /\ DOMAIN q.inuse = DOMAIN p.inuse \cup {key}
      /\ \A k \in DOMAIN p.inuse : q.inuse[k] = p.inuse[k]
      /\ q.inuse[key] = [object |-> x, count |-> 0]
  BY <1>2, <1>4
<1>7. q.inuse[key] \in Uses /\ q.inuse[key].count = 0 /\ q.inuse[key].object = x
  BY <1>5, <1>6 DEF Uses
<1>8. PoolRecord(q)
  <2>1. \A k \in DOMAIN p.inuse : p.inuse[k] \in Uses
    BY DEF PoolRecord
  <2>2. \A k \in DOMAIN q.inuse : q.inuse[k] \in Uses
    BY <1>6, <1>7, <2>1
  <2>3. q.inuse \in [DOMAIN q.inuse -> Uses]
    BY <1>2, <1>6, <2>2
  <2>4. QED
    BY <1>1, <1>2, <1>4, <1>5, <1>6, <2>3 DEF PoolRecord
<1>9. \A k \in DOMAIN p.inuse : p.inuse[k].object # x /\ p.inuse[k].object \notin ToSet(q.available)
  BY <1>1, <1>5 DEF Apart
<1>10. \A k \in DOMAIN q.inuse : q.inuse[k].object \notin ToSet(q.available)
  BY <1>5, <1>6, <1>7, <1>9
<1>11. \A k, l \in DOMAIN q.inuse : q.inuse[k].object = q.inuse[l].object => k = l
  BY <1>6, <1>7, <1>9 DEF Apart
<1>12. {q.inuse[k].object : k \in DOMAIN q.inuse} = {p.inuse[k].object : k \in DOMAIN p.inuse} \cup {x}
  BY <1>6, <1>7
<1>13. ToSet(q.available) \cup {q.inuse[k].object : k \in DOMAIN q.inuse} = 1 .. q.made
  <2>1. ToSet(stock.available) \cup {p.inuse[k].object : k \in DOMAIN p.inuse} = 1 .. stock.made
    BY <1>1 DEF Apart
  <2>2. \A A, B, C, y : A = B \cup {y} => B \cup (C \cup {y}) = A \cup C
    OBVIOUS
  <2>3. QED
    BY <1>2, <1>5, <1>12, <2>1, <2>2
<1>14. Apart(q)
  BY <1>5, <1>10, <1>11, <1>13 DEF Apart
<1>15. q.owner = p.owner
  BY <1>1, <1>2
<1>16. QED
  BY <1>2, <1>4, <1>6, <1>7, <1>8, <1>14, <1>15 DEF q

-----------------------------------------------------------------------------
(***************************************************************************)
(* Who holds what.                                                         *)
(***************************************************************************)
(* A holder that has nothing takes a handle: one more claims it. *)
LEMMA HandleTaken ==
  ASSUME NEW p, NEW W, PoolRecord(p), Apart(p), Claimed(p, W),
         NEW x \in Holding, W[x] = Nobody, NEW h \in Handles, InDemand(p, DOMAIN p.inuse \ {h.key}),
         h.key \in DOMAIN p.inuse, p.inuse[h.key].object = h.object
  PROVE  /\ PoolInv(AddCount(p, h.key), [W EXCEPT ![x] = h])
         /\ Recounted(p, AddCount(p, h.key), h.key, p.inuse[h.key].count + 1)
<1> DEFINE q == AddCount(p, h.key)
           V == [W EXCEPT ![x] = h]
<1>1. W \in [Holding -> Handles]
  BY DEF Claimed
<1>2. DOMAIN p.inuse \subseteq 1 .. p.keyc /\ p.keyc \in Nat
  BY DEF PoolRecord
<1>3. p.inuse[h.key].count \in Nat
  BY DEF PoolRecord, Uses
<1>4. Recounted(p, q, h.key, p.inuse[h.key].count + 1)
  BY <1>3, CountChanged DEF AddCount
<1>5. V \in [Holding -> Handles] /\ V[x] = h /\ \A y \in Holding : y # x => V[y] = W[y]
  BY <1>1
<1>6. W[x].key = 0
  BY DEF Nobody
<1> HIDE DEF q, V
<1>7. ASSUME NEW k \in DOMAIN p.inuse
      PROVE  q.inuse[k].count = Cardinality(Claims(V, k)) /\ q.inuse[k].count > 0
  <2>1. k # 0 /\ x \notin Claims(W, k)
    BY <1>2, <1>6 DEF Claims
  <2>2. /\ h.key = k => Claims(V, k) = Claims(W, k) \cup {x}
        /\ h.key # k => Claims(V, k) = Claims(W, k) \ {x}
    BY <1>5, ClaimsAfter
  <2>3. /\ p.inuse[k].count = Cardinality(Claims(W, k))
        /\ h.key # k => p.inuse[k].count > 0
    BY DEF Claimed, InDemand
  <2>4. IsFiniteSet(Claims(W, k)) /\ Cardinality(Claims(W, k)) \in Nat
    BY ClaimsFacts
  <2>5. CASE h.key = k
    <3>1. Cardinality(Claims(W, k) \cup {x}) = Cardinality(Claims(W, k)) + 1
      BY <2>1, <2>4, FS_AddElement
    <3>2. q.inuse[k].count = p.inuse[k].count + 1
      BY <1>4, <2>5 DEF Recounted
    <3>3. Claims(V, k) = Claims(W, k) \cup {x}
      BY <2>2, <2>5
    <3>4. \A n \in Nat : n + 1 > 0
      OBVIOUS
    <3>5. QED
      BY <2>3, <2>4, <3>1, <3>2, <3>3, <3>4
  <2>6. CASE h.key # k
    <3>1. Claims(V, k) = Claims(W, k)
      BY <2>1, <2>2, <2>6
    <3>2. q.inuse[k].count = p.inuse[k].count
      BY <1>4, <2>6 DEF Recounted
    <3>3. QED
      BY <2>3, <2>6, <3>1, <3>2
  <2>7. QED
    BY <2>5, <2>6
<1>8. ASSUME NEW y \in Holding, V[y] # Nobody
      PROVE  V[y].key \in DOMAIN q.inuse /\ q.inuse[V[y].key].object = V[y].object
  <2>1. V[y].key \in DOMAIN p.inuse /\ p.inuse[V[y].key].object = V[y].object
    BY <1>5, <1>8 DEF Claimed
  <2>2. QED
    BY <1>4, <2>1 DEF Recounted
<1>9. DOMAIN q.inuse = DOMAIN p.inuse
  BY <1>4 DEF Recounted
<1>10. Claimed(q, V) /\ InDemand(q, DOMAIN q.inuse)
  BY <1>5, <1>7, <1>8, <1>9 DEF Claimed, InDemand
<1>11. PoolRecord(q) /\ Apart(q)
  BY <1>4, RecountedKeeps
<1>12. QED
  BY <1>4, <1>10, <1>11 DEF PoolInv, q, V

(* A holder lets go: the object goes back when no one else claims it. *)
LEMMA Dropped ==
  ASSUME NEW p, NEW W, PoolInv(p, W), NEW x \in Holding, W[x] # Nobody
  PROVE  /\ PoolInv(ReferenceCountedFree(p, W[x].key), [W EXCEPT ![x] = Nobody])
         /\ Keeps(p, ReferenceCountedFree(p, W[x].key), W[x].key)
<1> DEFINE key == W[x].key
           q == ReferenceCountedFree(p, key)
           V == [W EXCEPT ![x] = Nobody]
<1>1. W \in [Holding -> Handles] /\ PoolRecord(p) /\ Apart(p)
  BY DEF PoolInv, Claimed
<1>2. key \in DOMAIN p.inuse
  BY DEF PoolInv, Claimed
<1>3. DOMAIN p.inuse \subseteq 1 .. p.keyc /\ p.keyc \in Nat
  BY <1>1 DEF PoolRecord
<1>4. Nobody \in Handles /\ Nobody.key = 0
  BY DEF Nobody, Handles
<1>5. V \in [Holding -> Handles] /\ V[x] = Nobody /\ \A y \in Holding : y # x => V[y] = W[y]
  BY <1>1, <1>4
<1> HIDE DEF V
<1>6. ASSUME NEW k \in DOMAIN p.inuse
      PROVE  /\ p.inuse[k].count = Cardinality(Claims(W, k)) /\ p.inuse[k].count > 0
             /\ p.inuse[k].count \in Nat
             /\ k # key => Claims(V, k) = Claims(W, k)
             /\ k = key => Cardinality(Claims(V, k)) = p.inuse[k].count - 1
  <2>1. p.inuse[k].count = Cardinality(Claims(W, k)) /\ p.inuse[k].count > 0
    BY DEF PoolInv, Claimed, InDemand
  <2>2. IsFiniteSet(Claims(W, k)) /\ Cardinality(Claims(W, k)) \in Nat
    BY ClaimsFacts
  <2>3. 0 # k
    BY <1>3
  <2>4. Claims(V, k) = Claims(W, k) \ {x}
    BY <1>4, <1>5, <2>3, ClaimsAfter
  <2>5. k # key => x \notin Claims(W, k)
    BY DEF Claims
  <2>6. k = key => x \in Claims(W, k)
    BY DEF Claims
  <2>7. x \in Claims(W, k) => Cardinality(Claims(W, k) \ {x}) = Cardinality(Claims(W, k)) - 1
    BY <2>2, FS_RemoveElement
  <2>8. QED
    BY <2>1, <2>2, <2>4, <2>5, <2>6, <2>7
<1>7. CASE p.inuse[key].count <= 1
  <2>1. q = PutBack(p, key)
    BY <1>2, <1>7 DEF ReferenceCountedFree, IsValid
  <2> HIDE DEF q
  <2>2. /\ PoolRecord(q) /\ Apart(q) /\ Keeps(p, q, key)
        /\ DOMAIN q.inuse = DOMAIN p.inuse \ {key}
        /\ \A k \in DOMAIN p.inuse \ {key} : q.inuse[k] = p.inuse[k]
    BY <1>1, <1>2, <2>1, PutBackFacts
  <2>3. \A k \in DOMAIN q.inuse :
          q.inuse[k].count = Cardinality(Claims(V, k)) /\ q.inuse[k].count > 0
    BY <1>6, <2>2
  <2>4. Claims(V, key) = {}
    <3>1. Cardinality(Claims(V, key)) = 0
      BY <1>2, <1>6, <1>7
    <3>2. QED
      BY <3>1, ClaimsFacts, FS_EmptySet
  <2>5. ASSUME NEW y \in Holding, V[y] # Nobody
        PROVE  V[y].key \in DOMAIN q.inuse /\ q.inuse[V[y].key].object = V[y].object
    <3>1. V[y] = W[y]
      BY <1>5, <2>5
    <3>2. W[y].key \in DOMAIN p.inuse /\ p.inuse[W[y].key].object = W[y].object
      BY <2>5, <3>1 DEF PoolInv, Claimed
    <3>3. V[y].key # key
      BY <2>4 DEF Claims
    <3>4. QED
      BY <2>2, <3>1, <3>2, <3>3
  <2>6. Claimed(q, V) /\ InDemand(q, DOMAIN q.inuse)
    BY <1>5, <2>3, <2>5 DEF Claimed, InDemand
  <2>7. QED
    BY <2>2, <2>6 DEF PoolInv, q, V
<1>8. CASE ~(p.inuse[key].count <= 1)
  <2>1. q = [p EXCEPT !.inuse[key].count = p.inuse[key].count - 1]
    BY <1>2, <1>8 DEF ReferenceCountedFree, IsValid
  <2>2. p.inuse[key].count - 1 \in Nat /\ p.inuse[key].count - 1 > 0
    BY <1>2, <1>6, <1>8
  <2> HIDE DEF q
  <2>3. Recounted(p, q, key, p.inuse[key].count - 1)
    BY <1>1, <1>2, <2>1, <2>2, CountChanged
  <2>4. PoolRecord(q) /\ Apart(q) /\ Keeps(p, q, key)
    BY <1>1, <1>2, <2>3, RecountedKeeps
  <2>5. DOMAIN q.inuse = DOMAIN p.inuse
    BY <2>3 DEF Recounted
  <2>6. ASSUME NEW k \in DOMAIN p.inuse
        PROVE  q.inuse[k].count = Cardinality(Claims(V, k)) /\ q.inuse[k].count > 0
    BY <1>6, <2>2, <2>3 DEF Recounted
  <2>7. ASSUME NEW y \in Holding, V[y] # Nobody
        PROVE  V[y].key \in DOMAIN q.inuse /\ q.inuse[V[y].key].object = V[y].object
    <3>1. V[y] = W[y]
      BY <1>5, <2>7
    <3>2. W[y].key \in DOMAIN p.inuse /\ p.inuse[W[y].key].object = W[y].object
      BY <2>7, <3>1 DEF PoolInv, Claimed
    <3>3. QED
      BY <2>3, <3>1, <3>2 DEF Recounted
  <2>8. Claimed(q, V) /\ InDemand(q, DOMAIN q.inuse)
    BY <1>5, <2>5, <2>6, <2>7 DEF Claimed, InDemand
  <2>9. QED
    BY <2>4, <2>8 DEF PoolInv, q, V
<1>9. QED
  BY <1>7, <1>8

(* owner_t(Get()): a new handle is taken by one that has nothing. *)
LEMMA Handed ==
  ASSUME NEW p, NEW W, PoolInv(p, W), NEW x \in Holding, W[x] = Nobody,
         NEW h, h = [key |-> p.keyc + 1, object |-> Get(p).inuse[p.keyc + 1].object]
  PROVE  /\ h \in Handles /\ PoolInv(AddCount(Get(p), h.key), [W EXCEPT ![x] = h])
         /\ AddCount(Get(p), h.key).owner = p.owner
         /\ AddCount(Get(p), h.key).keyc = p.keyc + 1
<1> DEFINE got == Get(p)
           key == p.keyc + 1
<1>1. PoolRecord(p) /\ Apart(p) /\ Claimed(p, W) /\ InDemand(p, DOMAIN p.inuse)
  BY DEF PoolInv
<1>2. /\ PoolRecord(got) /\ Apart(got) /\ got.owner = p.owner /\ got.keyc = key
      /\ key \notin DOMAIN p.inuse /\ DOMAIN got.inuse = DOMAIN p.inuse \cup {key}
      /\ \A k \in DOMAIN p.inuse : got.inuse[k] = p.inuse[k]
      /\ got.inuse[key] \in Uses /\ got.inuse[key].count = 0
  BY <1>1, GetFacts
<1>3. p.keyc \in Nat /\ key \in Nat /\ key # 0 /\ \A k \in 0 .. p.keyc : k # key
  BY <1>1 DEF PoolRecord
<1> HIDE DEF got, key
<1>4. h \in Handles /\ h.key = key /\ h.object = got.inuse[key].object
  BY <1>2, <1>3 DEF Handles, Uses, got, key
<1>5. Claims(W, key) = {}
  BY <1>3, NobodyFacts DEF Claims
<1>6. Cardinality(Claims(W, key)) = 0
  BY <1>5, FS_EmptySet
<1>7. \A k \in DOMAIN got.inuse : got.inuse[k].count = Cardinality(Claims(W, k))
  BY <1>1, <1>2, <1>6 DEF Claimed
<1>8. Claimed(got, W)
  BY <1>1, <1>2, <1>7 DEF Claimed
<1>9. InDemand(got, DOMAIN got.inuse \ {h.key})
  BY <1>1, <1>2, <1>4 DEF InDemand
<1>10. h.key \in DOMAIN got.inuse /\ got.inuse[h.key].object = h.object
  BY <1>2, <1>4
<1>11. /\ PoolInv(AddCount(got, h.key), [W EXCEPT ![x] = h])
       /\ Recounted(got, AddCount(got, h.key), h.key, got.inuse[h.key].count + 1)
  BY <1>2, <1>4, <1>8, <1>9, <1>10, HandleTaken
<1>12. AddCount(got, h.key).owner = p.owner /\ AddCount(got, h.key).keyc = key
  BY <1>2, <1>11 DEF Recounted
<1>13. QED
  BY <1>4, <1>11, <1>12 DEF got, key

(* what the owners of p hold, and the temporary *)
Registered(p, t) == [x \in Holding |-> IF x \in Owners THEN p.owner[x] ELSE t]

PoolOK(p) == p.owner \in [Owners -> Handles] /\ PoolInv(p, Registered(p, Nobody))

(* the invariant does not look at the owners that the record names *)
LEMMA OwnerNamed ==
  ASSUME NEW p, NEW W, PoolInv(p, W), NEW o \in Owners, NEW h
  PROVE  /\ PoolInv([p EXCEPT !.owner[o] = h], W)
         /\ [p EXCEPT !.owner[o] = h].owner = [p.owner EXCEPT ![o] = h]
         /\ [p EXCEPT !.owner[o] = h].keyc = p.keyc
<1> DEFINE q == [p EXCEPT !.owner[o] = h]
<1>1. /\ DOMAIN q = DOMAIN p /\ q.available = p.available /\ q.inuse = p.inuse
      /\ q.keyc = p.keyc /\ q.made = p.made /\ q.owner = [p.owner EXCEPT ![o] = h]
  BY DEF PoolInv, PoolRecord
<1> HIDE DEF q
<1>2. PoolRecord(q)
  BY <1>1 DEF PoolInv, PoolRecord
<1>3. Apart(q)
  BY <1>1 DEF PoolInv, Apart
<1>4. Claimed(q, W) /\ InDemand(q, DOMAIN q.inuse)
  BY <1>1 DEF PoolInv, Claimed, InDemand
<1>5. QED
  BY <1>1, <1>2, <1>3, <1>4 DEF PoolInv, q

(* An owner lets go of what it held and takes another handle. *)
LEMMA AssignFacts ==
  ASSUME NEW p, NEW t, p.owner \in [Owners -> Handles], PoolInv(p, Registered(p, t)),
         NEW o \in Owners, NEW h \in Handles,
         h # Nobody => h.key \in DOMAIN p.inuse /\ p.inuse[h.key].object = h.object
  PROVE  /\ PoolInv(Assign(p, o, h), Registered(Assign(p, o, h), t))
         /\ Assign(p, o, h).owner = [p.owner EXCEPT ![o] = h]
         /\ Assign(p, o, h).keyc = p.keyc
<1> DEFINE W == Registered(p, t)
           old == p.owner[o]
           freed == IF old.key # 0 THEN ReferenceCountedFree(p, old.key) ELSE p
           W1 == [W EXCEPT ![o] = Nobody]
           taken == IF h.key # 0 THEN AddCount(freed, h.key) ELSE freed
           W2 == [W1 EXCEPT ![o] = h]
           q == Assign(p, o, h)
<1>1. /\ o \in Holding /\ W \in [Holding -> Handles] /\ W[o] = old /\ old \in Handles
      /\ Nobody \in Handles /\ Nobody.key = 0
  BY DEF PoolInv, Claimed, Registered, Holding, Nobody, Handles
<1>2. old.key = 0 <=> old = Nobody
  <2> HIDE DEF W
  <2>1. PoolInv(p, W)
    BY DEF W
  <2>2. QED
    BY <1>1, <2>1, NobodyFacts
<1>3. h.key = 0 <=> h = Nobody
  <2>1. DOMAIN p.inuse \subseteq 1 .. p.keyc /\ p.keyc \in Nat
    BY DEF PoolInv, PoolRecord
  <2>2. QED
    BY <1>1, <2>1
<1>4. CASE old = h
  <2>1. q = p
    BY <1>4 DEF Assign
  <2>2. [p.owner EXCEPT ![o] = h] = p.owner
    BY <1>4
  <2>3. QED
    BY <2>1, <2>2
<1>5. CASE old # h
  <2>1. q = [taken EXCEPT !.owner[o] = h]
    BY <1>5 DEF Assign
  <2> HIDE DEF q, W, W1, W2, taken, old
  <2>2. /\ PoolInv(freed, W1) /\ freed.owner = p.owner /\ freed.keyc = p.keyc
        /\ h # Nobody => h.key \in DOMAIN freed.inuse /\ freed.inuse[h.key].object = h.object
    <3>0. PoolInv(p, W)
      BY DEF W
    <3>1. CASE old = Nobody
      <4>1. freed = p /\ W1 = W
        BY <1>1, <1>2, <3>1 DEF W1
      <4>2. QED
        BY <3>0, <4>1
    <3>2. CASE old # Nobody
      <4>1. freed = ReferenceCountedFree(p, old.key)
        BY <1>2, <3>2
      <4> HIDE DEF freed
      <4>2. PoolInv(freed, W1) /\ Keeps(p, freed, old.key)
        BY <1>1, <3>0, <3>2, <4>1, Dropped DEF W1
      <4>3. old.key \in DOMAIN p.inuse /\ p.inuse[old.key].object = old.object
        BY <1>1, <3>0, <3>2 DEF PoolInv, Claimed
      <4>4. h # Nobody => h.key # old.key
        <5>1. h # Nobody /\ h.key = old.key => h.object = old.object
          BY <4>3
        <5>2. h.key = old.key /\ h.object = old.object => h = old
          BY <1>1 DEF Handles
        <5>3. QED
          BY <1>5, <5>1, <5>2
      <4>5. QED
        BY <4>2, <4>4 DEF Keeps
    <3>3. QED
      BY <3>1, <3>2
  <2> HIDE DEF freed
  <2>3. W1 \in [Holding -> Handles] /\ W1[o] = Nobody
    BY <1>1 DEF W1
  <2>4. PoolInv(taken, W2) /\ taken.owner = p.owner /\ taken.keyc = p.keyc
    <3>1. CASE h = Nobody
      <4>1. taken = freed /\ W2 = W1
        BY <1>3, <2>3, <3>1 DEF taken, W2
      <4>2. QED
        BY <2>2, <4>1
    <3>2. CASE h # Nobody
      <4>1. taken = AddCount(freed, h.key)
        BY <1>3, <3>2 DEF taken
      <4>2. PoolRecord(freed) /\ Apart(freed) /\ Claimed(freed, W1)
            /\ InDemand(freed, DOMAIN freed.inuse \ {h.key})
        BY <2>2 DEF PoolInv, InDemand
      <4>3. /\ PoolInv(taken, W2)
            /\ Recounted(freed, taken, h.key, freed.inuse[h.key].count + 1)
        BY <1>1, <2>2, <2>3, <3>2, <4>1, <4>2, HandleTaken DEF W2
      <4>4. QED
        BY <2>2, <4>3 DEF Recounted
    <3>3. QED
      BY <3>1, <3>2
  <2>5. PoolInv(q, W2) /\ q.owner = [p.owner EXCEPT ![o] = h] /\ q.keyc = p.keyc
    BY <2>1, <2>4, OwnerNamed
  <2>6. W2 = Registered(q, t)
    <3>1. \A x \in Holding : W2[x] = IF x = o THEN h ELSE W[x]
      BY <1>1 DEF W1, W2
    <3>2. \A x \in Owners : q.owner[x] = IF x = o THEN h ELSE p.owner[x]
      BY <2>5
    <3>3. \A x \in Holding : W2[x] = IF x \in Owners THEN q.owner[x] ELSE t
      BY <3>1, <3>2 DEF W, Registered
    <3>4. W2 = [x \in Holding |-> W2[x]]
      BY <1>1 DEF W1, W2
    <3>5. QED
      BY <3>3, <3>4 DEF Registered
  <2>7. QED
    BY <2>5, <2>6 DEF q
<1>6. QED
  BY <1>4, <1>5

(* CommBuffer::Allocate leaves its owner with storage of its own. *)
LEMMA AllocateFacts ==
  ASSUME NEW p, PoolOK(p), NEW o \in Owners
  PROVE  /\ PoolOK(AllocateFor(p, o)) /\ AllocateFor(p, o).keyc = p.keyc + 1
         /\ \E h \in Handles : h.key = p.keyc + 1 /\ AllocateFor(p, o).owner = [p.owner EXCEPT ![o] = h]
<1> DEFINE got == Get(p)
           h   == [key |-> p.keyc + 1, object |-> got.inuse[p.keyc + 1].object]
           W   == Registered(p, Nobody)
           a   == AddCount(got, h.key)
           b   == Assign(a, o, h)
           c   == ReferenceCountedFree(b, h.key)
<1>1. /\ Temporary \in Holding /\ Temporary \notin Owners /\ Owners \subseteq Holding
      /\ W[Temporary] = Nobody /\ PoolInv(p, W) /\ p.owner \in [Owners -> Handles]
  BY TemporaryIsNew DEF PoolOK, Registered, Holding
<1>2. p.keyc \in Nat /\ PoolRecord(p) /\ Apart(p)
  BY DEF PoolOK, PoolInv, PoolRecord
<1>3. got.keyc = p.keyc + 1
  BY <1>2, GetFacts
<1>4. AllocateFor(p, o) = c
  BY <1>3 DEF AllocateFor
<1>5. h.key = p.keyc + 1 /\ h.key # 0
  BY <1>2
<1>6. h # Nobody
  BY <1>5 DEF Nobody
<1>7. /\ h \in Handles /\ PoolInv(a, [W EXCEPT ![Temporary] = h])
      /\ a.owner = p.owner /\ a.keyc = p.keyc + 1
  <2> HIDE DEF W
  <2>1. \A g : g = h => /\ g \in Handles /\ PoolInv(AddCount(Get(p), g.key), [W EXCEPT ![Temporary] = g])
                       /\ AddCount(Get(p), g.key).owner = p.owner
                       /\ AddCount(Get(p), g.key).keyc = p.keyc + 1
    BY <1>1, Handed
  <2> HIDE DEF h
  <2>2. QED
    BY <2>1
<1> HIDE DEF a, h, got
<1>8. [W EXCEPT ![Temporary] = h] = Registered(a, h)
  BY <1>1, <1>7 DEF Registered, Holding
<1>9. W \in [Holding -> Handles]
  BY <1>1 DEF PoolInv, Claimed
<1> HIDE DEF W
<1>10. h.key \in DOMAIN a.inuse /\ a.inuse[h.key].object = h.object
  <2>1. [W EXCEPT ![Temporary] = h][Temporary] = h
    BY <1>1, <1>9
  <2>2. QED
    BY <1>1, <1>6, <1>7, <2>1 DEF PoolInv, Claimed
<1>11. /\ PoolInv(b, Registered(b, h)) /\ b.owner = [p.owner EXCEPT ![o] = h] /\ b.keyc = p.keyc + 1
  <2>1. a.owner \in [Owners -> Handles] /\ PoolInv(a, Registered(a, h))
    BY <1>1, <1>7, <1>8
  <2>2. /\ PoolInv(b, Registered(b, h)) /\ b.owner = [a.owner EXCEPT ![o] = h] /\ b.keyc = a.keyc
    BY <1>7, <1>10, <2>1, AssignFacts
  <2>3. QED
    BY <1>7, <2>2
<1> HIDE DEF b
<1>12. Registered(b, h)[Temporary] = h
  BY <1>1 DEF Registered
<1>13. PoolInv(c, [Registered(b, h) EXCEPT ![Temporary] = Nobody]) /\ Keeps(b, c, h.key)
  BY <1>1, <1>6, <1>11, <1>12, Dropped
<1>14. c.owner = b.owner /\ c.keyc = b.keyc
  BY <1>13 DEF Keeps
<1> HIDE DEF c
<1>15. [Registered(b, h) EXCEPT ![Temporary] = Nobody] = Registered(c, Nobody)
  <2>1. DOMAIN Registered(b, h) = Holding /\ \A x \in Owners : Registered(b, h)[x] = b.owner[x]
    BY <1>1 DEF Registered
  <2>2. \A x \in Holding : x \notin Owners => x = Temporary
    BY DEF Holding
  <2> DEFINE V == [Registered(b, h) EXCEPT ![Temporary] = Nobody]
  <2>3. DOMAIN V = Holding /\ V = [x \in Holding |-> V[x]]
    BY <2>1
  <2>4. V[Temporary] = Nobody /\ \A x \in Owners : V[x] = b.owner[x]
    BY <1>1, <2>1
  <2> HIDE DEF V
  <2>5. \A x \in Holding : V[x] = IF x \in Owners THEN c.owner[x] ELSE Nobody
    BY <1>1, <1>14, <2>2, <2>4
  <2>6. V = Registered(c, Nobody)
    BY <2>3, <2>5 DEF Registered
  <2>7. QED
    BY <2>6 DEF V
<1>16. c.owner = [p.owner EXCEPT ![o] = h] /\ c.owner \in [Owners -> Handles]
  BY <1>1, <1>7, <1>11, <1>14
<1>17. PoolOK(c)
  BY <1>13, <1>15, <1>16 DEF PoolOK
<1>18. QED
  BY <1>4, <1>5, <1>7, <1>11, <1>14, <1>16, <1>17

(* CommBuffer::Free leaves its owner with nothing. *)
LEMMA ReleaseFacts ==
  ASSUME NEW p, PoolOK(p), NEW o \in Owners
  PROVE  /\ PoolOK(Release(p, o)) /\ Release(p, o).keyc = p.keyc
         /\ Release(p, o).owner = [p.owner EXCEPT ![o] = Nobody]
<1> DEFINE q == Assign(p, o, Nobody)
<1>1. Nobody \in Handles /\ p.owner \in [Owners -> Handles]
  BY DEF PoolOK, Nobody, Handles
<1>2. /\ PoolInv(q, Registered(q, Nobody)) /\ q.keyc = p.keyc
      /\ q.owner = [p.owner EXCEPT ![o] = Nobody]
  BY <1>1, AssignFacts DEF PoolOK
<1> HIDE DEF q
<1>3. q.owner \in [Owners -> Handles]
  BY <1>1, <1>2
<1>4. QED
  BY <1>2, <1>3 DEF PoolOK, Release, q

(***************************************************************************)
(* What a BndInfo remembers of a buffer: a key that its end has again only *)
(* with the same storage, because no key is used twice.                    *)
(***************************************************************************)
Remembers(p, e, buf) ==
  /\ buf.key \in 0 .. p.keyc /\ (buf.key = 0 => buf = Nobody)
  /\ p.owner[e].key = buf.key => p.owner[e] = buf

KeepsMemories(p, q) ==
  \A e \in Owners : \A buf : Remembers(p, e, buf) => Remembers(q, e, buf)

LEMMA AllocateKeepsMemories ==
  ASSUME NEW p, PoolOK(p), NEW o \in Owners
  PROVE  KeepsMemories(p, AllocateFor(p, o))
<1> DEFINE q == AllocateFor(p, o)
<1>1. PICK h \in Handles : h.key = p.keyc + 1 /\ q.owner = [p.owner EXCEPT ![o] = h]
  BY AllocateFacts
<1>2. q.keyc = p.keyc + 1 /\ p.keyc \in Nat /\ p.owner \in [Owners -> Handles]
  BY AllocateFacts DEF PoolOK, PoolInv, PoolRecord
<1> HIDE DEF q
<1>3. ASSUME NEW e \in Owners, NEW buf, Remembers(p, e, buf)
      PROVE  Remembers(q, e, buf)
  <2>1. buf.key \in 0 .. q.keyc /\ buf.key # p.keyc + 1
    BY <1>2, <1>3 DEF Remembers
  <2>2. q.owner[e] = IF e = o THEN h ELSE p.owner[e]
    BY <1>1, <1>2
  <2>3. QED
    BY <1>1, <1>3, <2>1, <2>2 DEF Remembers
<1>4. QED
  BY <1>3 DEF KeepsMemories, q

LEMMA ReleaseKeepsMemories ==
  ASSUME NEW p, PoolOK(p), NEW o \in Owners
  PROVE  KeepsMemories(p, Release(p, o))
<1> DEFINE q == Release(p, o)
<1>1. q.owner = [p.owner EXCEPT ![o] = Nobody] /\ q.keyc = p.keyc
  BY ReleaseFacts
<1>2. p.owner \in [Owners -> Handles]
  BY DEF PoolOK
<1> HIDE DEF q
<1>3. ASSUME NEW e \in Owners, NEW buf, Remembers(p, e, buf)
      PROVE  Remembers(q, e, buf)
  <2>1. q.owner[e] = IF e = o THEN Nobody ELSE p.owner[e]
    BY <1>1, <1>2
  <2>2. Nobody.key = 0
    BY DEF Nobody
  <2>3. QED
    BY <1>1, <1>3, <2>1, <2>2 DEF Remembers
<1>4. QED
  BY <1>3 DEF KeepsMemories, q

-----------------------------------------------------------------------------
(***************************************************************************)
(* The buffers of a rank, one after the other.                             *)
(***************************************************************************)
LEMMA LeastOf ==
  ASSUME NEW T, T \subseteq Nat, T # {}
  PROVE  \E n \in T : \A m \in T : ~(m < n)
<1>1. IsWellFoundedOn({ss \in Nat \X Nat : ss[1] < ss[2]}, Nat)
  BY NatLessThanWellFounded DEF OpToRel
<1>2. PICK n \in T : \A m \in T : ~(<<m, n>> \in {ss \in Nat \X Nat : ss[1] < ss[2]})
  BY <1>1, WFMin
<1>3. QED
  BY <1>2

(* A finite set is enumerated by a sequence of its elements. *)
LEMMA OrderFacts ==
  ASSUME NEW S, IsFiniteSet(S)
  PROVE  SetToSeq(S) \in Seq(S)
<1>1. Cardinality(S) \in Nat /\ ExistsBijection(1 .. Cardinality(S), S)
  BY FS_CardinalityType
<1>2. \E f \in [1 .. Cardinality(S) -> S] : IsInjective(f)
  BY <1>1 DEF ExistsBijection, Bijection, Injection
<1>3. SetToSeq(S) \in [1 .. Cardinality(S) -> S]
  BY <1>2 DEF SetToSeq
<1>4. QED
  BY <1>1, <1>3

(* The recursive function of FollowAll exists. *)
FollowedBy(f, n, p, order, after) ==
  f = [i \in 0 .. n |-> IF i = 0 THEN p ELSE Follow(f[i - 1], order[i], after)]

LEMMA FollowedExists ==
  ASSUME NEW n \in Nat, NEW p, NEW order, NEW after
  PROVE  \E f : FollowedBy(f, n, p, order, after)
<1> DEFINE Bad == {m \in Nat : ~\E f : FollowedBy(f, m, p, order, after)}
<1>1. ASSUME NEW m \in Bad, \A k \in Bad : ~(k < m)
      PROVE  FALSE
  <2>1. m \in Nat /\ ~\E f : FollowedBy(f, m, p, order, after)
    OBVIOUS
  <2>2. CASE m = 0
    <3> DEFINE f == [i \in 0 .. 0 |-> p]
    <3>1. f = [i \in 0 .. 0 |-> IF i = 0 THEN p ELSE Follow(f[i - 1], order[i], after)]
      OBVIOUS
    <3>2. QED
      BY <2>1, <2>2, <3>1 DEF FollowedBy
  <2>3. CASE m # 0
    <3>1. m - 1 \in Nat /\ m - 1 < m
      BY <2>1, <2>3
    <3>2. m - 1 \notin Bad
      BY <1>1, <3>1
    <3>3. PICK g : FollowedBy(g, m - 1, p, order, after)
      BY <3>1, <3>2
    <3> DEFINE f == [i \in 0 .. m |-> IF i = m THEN Follow(g[m - 1], order[m], after) ELSE g[i]]
    <3>4. \A i \in 0 .. m : i # m => i \in 0 .. m - 1 /\ (i # 0 => i - 1 \in 0 .. m /\ i - 1 # m)
      BY <2>1
    <3>5. m - 1 \in 0 .. m /\ m - 1 # m /\ m \in 0 .. m
      BY <2>1, <3>1
    <3>6. \A i \in 0 .. m - 1 : g[i] = IF i = 0 THEN p ELSE Follow(g[i - 1], order[i], after)
      BY <3>3 DEF FollowedBy
    <3>7. f[m - 1] = g[m - 1]
      BY <3>5
    <3>8. \A i \in 0 .. m : i # m /\ i # 0 => f[i - 1] = g[i - 1]
      BY <3>4
    <3>9. \A i \in 0 .. m : f[i] = IF i = 0 THEN p ELSE Follow(f[i - 1], order[i], after)
      <4>1. f[m] = Follow(f[m - 1], order[m], after)
        BY <3>5, <3>7
      <4>2. \A i \in 0 .. m : i # m => f[i] = g[i]
        OBVIOUS
      <4> HIDE DEF f
      <4>3. QED
        BY <2>3, <3>4, <3>6, <3>8, <4>1, <4>2
    <3>10. f = [i \in 0 .. m |-> f[i]]
      OBVIOUS
    <3> HIDE DEF f
    <3>11. FollowedBy(f, m, p, order, after)
      BY <3>9, <3>10 DEF FollowedBy
    <3>12. QED
      BY <2>1, <3>11
  <2>4. QED
    BY <2>2, <2>3
<1>2. Bad = {}
  <2>1. Bad \subseteq Nat
    OBVIOUS
  <2> HIDE DEF Bad
  <2>2. QED
    BY <1>1, <2>1, LeastOf
<1>3. QED
  BY <1>2

(* Whichever buffers get storage or give it back, the pool stays in order. *)
LEMMA FollowAllFacts ==
  ASSUME NEW p, PoolOK(p), NEW order \in Seq(Owners), NEW after
  PROVE  PoolOK(FollowAll(p, order, after)) /\ KeepsMemories(p, FollowAll(p, order, after))
<1> DEFINE N == Len(order)
           f == CHOOSE f : FollowedBy(f, N, p, order, after)
           Sound(q) == PoolOK(q) /\ KeepsMemories(p, q)
           Bad == {m \in 0 .. N : ~Sound(f[m])}
<1>1. N \in Nat
  OBVIOUS
<1>2. FollowAll(p, order, after) = f[N]
  BY DEF FollowAll, FollowedBy
<1>3. FollowedBy(f, N, p, order, after)
  BY <1>1, FollowedExists
<1> HIDE DEF f
<1>4. \A m \in 0 .. N : f[m] = IF m = 0 THEN p ELSE Follow(f[m - 1], order[m], after)
  BY <1>3 DEF FollowedBy
<1>5. ASSUME NEW m \in Bad, \A k \in Bad : ~(k < m)
      PROVE  FALSE
  <2>1. m \in 0 .. N /\ ~Sound(f[m])
    OBVIOUS
  <2>2. CASE m = 0
    <3>1. f[m] = p
      BY <1>4, <2>1, <2>2
    <3>2. Sound(p)
      BY DEF KeepsMemories
    <3>3. QED
      BY <2>1, <3>1, <3>2
  <2>3. CASE m # 0
    <3>1. m - 1 \in 0 .. N /\ m - 1 < m /\ m \in 1 .. N
      BY <1>1, <2>1, <2>3
    <3>2. Sound(f[m - 1])
      BY <1>5, <3>1
    <3>3. order[m] \in Owners
      BY <3>1
    <3>4. f[m] = AllocateFor(f[m - 1], order[m]) \/ f[m] = Release(f[m - 1], order[m])
      BY <1>4, <2>1, <2>3 DEF Follow
    <3>5. PoolOK(f[m]) /\ KeepsMemories(f[m - 1], f[m])
      <4>1. ASSUME NEW q, PoolOK(q), NEW o \in Owners
            PROVE  /\ PoolOK(AllocateFor(q, o)) /\ KeepsMemories(q, AllocateFor(q, o))
                   /\ PoolOK(Release(q, o)) /\ KeepsMemories(q, Release(q, o))
        <5>1. PoolOK(AllocateFor(q, o)) /\ PoolOK(Release(q, o))
          BY <4>1, AllocateFacts, ReleaseFacts
        <5>2. QED
          BY <4>1, <5>1, AllocateKeepsMemories, ReleaseKeepsMemories
      <4>2. QED
        BY <3>2, <3>3, <3>4, <4>1
    <3>6. KeepsMemories(p, f[m])
      BY <3>2, <3>5 DEF KeepsMemories
    <3>7. QED
      BY <2>1, <3>5, <3>6
  <2>4. QED
    BY <2>2, <2>3
<1>6. Bad = {}
  <2>1. Bad \subseteq Nat
    BY <1>1
  <2> HIDE DEF Bad
  <2>2. QED
    BY <1>5, <2>1, LeastOf
<1>7. N \in 0 .. N
  BY <1>1
<1>8. QED
  BY <1>2, <1>6, <1>7

-----------------------------------------------------------------------------
(***************************************************************************)
(* The caches.                                                             *)
(***************************************************************************)
SendingEnds   == UNION {SendEnds[p] : p \in Parts}
ReceivingEnds == UNION {RecvEnds[p] : p \in Parts}

InfoOK(info, e) == info.data = info.status /\ Remembers(pool[Home(e)], e, info.buf)

CacheInv ==
  /\ DOMAIN pool = Ranks /\ \A r \in Ranks : PoolOK(pool[r])
  /\ DOMAIN sendInfo = SendingEnds /\ \A e \in SendingEnds : InfoOK(sendInfo[e], e)
  /\ DOMAIN setInfo = ReceivingEnds
  /\ \A e \in ReceivingEnds : InfoOK(setInfo[e], e) /\ setInfo[e].buf_allocated \in BOOLEAN

(* The storage of a buffer is from the pool of the rank that fills it, or  *)
(* that reads it.                                                          *)
LEMMA HomeFacts ==
  ASSUME NEW p \in Parts
  PROVE  /\ Rank[p] \in Ranks
         /\ \A e \in SendEnds[p] : e \in Owners /\ e \in SendingEnds /\ Home(e) = Rank[p]
         /\ \A e \in RecvEnds[p] : e \in Owners /\ e \in ReceivingEnds /\ Home(e) = Rank[p]
<1>1. Rank[p] \in Ranks
  BY RankType
<1>2. ASSUME NEW e \in SendEnds[p]
      PROVE  e \in Owners /\ e \in SendingEnds /\ Home(e) = Rank[p]
  <2>1. PICK c \in Links : c[1] = p /\ e = SendEnd(c)
    BY DEF SendEnds, Outgoing
  <2>2. e \in Owners /\ e \in SendingEnds
    BY PoolAssumption DEF Ends, SendingEnds
  <2>3. Home(e) = Rank[p]
    BY <2>1 DEF Home, SendEnd
  <2>4. QED
    BY <2>2, <2>3
<1>3. ASSUME NEW e \in RecvEnds[p]
      PROVE  e \in Owners /\ e \in ReceivingEnds /\ Home(e) = Rank[p]
  <2>1. PICK c \in Links : c[2] = p /\ e = RecvEnd(c)
    BY DEF RecvEnds, Incoming
  <2>2. e \in Owners /\ e \in ReceivingEnds
    BY PoolAssumption DEF Ends, ReceivingEnds
  <2>3. Home(e) = Rank[p]
    BY <2>1 DEF Home, RecvEnd, Nonlocal
  <2>4. QED
    BY <2>2, <2>3
<1>4. QED
  BY <1>1, <1>2, <1>3

LEMMA InfoHome ==
  ASSUME NEW e \in SendingEnds \cup ReceivingEnds
  PROVE  e \in Owners /\ Home(e) \in Ranks
  BY HomeFacts DEF SendingEnds, ReceivingEnds

(* What a buffer holds now is something that can be remembered of it. *)
LEMMA HandleRemembered ==
  ASSUME NEW p, PoolOK(p), NEW e \in Owners
  PROVE  Remembers(p, e, p.owner[e])
<1> DEFINE W == Registered(p, Nobody)
<1>1. e \in Holding /\ W[e] = p.owner[e] /\ PoolInv(p, W)
  BY DEF Holding, Registered, PoolOK
<1> HIDE DEF W
<1>2. (p.owner[e].key = 0 <=> p.owner[e] = Nobody) /\ p.owner[e].key \in 0 .. p.keyc
  BY <1>1, NobodyFacts
<1>3. QED
  BY <1>2 DEF Remembers

(* The pool of a rank follows its buffers; the others stay as they are. *)
LEMMA FollowFacts ==
  ASSUME CacheInv, NEW r \in Ranks, FollowBuffers(r)
  PROVE  /\ DOMAIN pool' = Ranks /\ \A s \in Ranks : PoolOK(pool'[s]) /\ KeepsMemories(pool[s], pool'[s])
<1> DEFINE changed == {e \in Ends : Home(e) = r /\ buffer'[e].active # buffer[e].active}
           q == FollowAll(pool[r], SetToSeq(changed), buffer')
<1>1. pool' = [pool EXCEPT ![r] = q]
  BY DEF FollowBuffers
<1>2. changed \subseteq Owners /\ IsFiniteSet(changed)
  <2>1. changed \subseteq Owners /\ IsFiniteSet(Owners)
    BY PoolAssumption
  <2> HIDE DEF changed
  <2>2. QED
    BY <2>1, FS_Subset
<1> HIDE DEF changed
<1>3. SetToSeq(changed) \in Seq(Owners)
  <2>1. SetToSeq(changed) \in Seq(changed)
    BY <1>2, OrderFacts
  <2>2. QED
    BY <1>2, <2>1
<1>4. DOMAIN pool = Ranks /\ \A s \in Ranks : PoolOK(pool[s])
  BY DEF CacheInv
<1>5. PoolOK(q) /\ KeepsMemories(pool[r], q)
  BY <1>3, <1>4, FollowAllFacts
<1> HIDE DEF q
<1>6. \A s : KeepsMemories(pool[s], pool[s])
  BY DEF KeepsMemories
<1>7. DOMAIN pool' = Ranks /\ pool'[r] = q /\ \A s \in Ranks : s # r => pool'[s] = pool[s]
  BY <1>1, <1>4
<1>8. QED
  BY <1>4, <1>5, <1>6, <1>7

(* A BndInfo stays valid when the pools change. *)
LEMMA InfoKept ==
  ASSUME CacheInv, \A s \in Ranks : KeepsMemories(pool[s], pool'[s]),
         NEW e \in SendingEnds \cup ReceivingEnds, NEW info, InfoOK(info, e)
  PROVE  info.data = info.status /\ Remembers(pool'[Home(e)], e, info.buf)
  BY InfoHome DEF InfoOK, KeepsMemories

-----------------------------------------------------------------------------
(***************************************************************************)
(* The exchange with its caches is an exchange.                            *)
(***************************************************************************)
LEMMA CacheStepRuns == [CacheNext]_<<vars, cacheVars>> => [Next]_vars
<1>1. ASSUME NEW r \in Ranks, CachedTask(r)
      PROVE  RunTask(r)
  BY <1>1 DEF CachedTask, RunTask, CachedSend, CachedSet, OtherTask, CachedCompute
<1>2. CacheNext => Next
  BY <1>1 DEF CacheNext, Next
<1>3. UNCHANGED <<vars, cacheVars>> => UNCHANGED vars
  OBVIOUS
<1>4. QED
  BY <1>2, <1>3

(* A step with the caches is one of BoundaryExchange, by the way CacheSpec  *)
(* is put together: the invariants proved there are at hand here.          *)
LEMMA CachesKeepExchange == CacheSpec => Spec
<1>1. CacheInit => Init
  BY DEF CacheInit
<1>2. QED
  BY <1>1, CacheStepRuns, PTL DEF CacheSpec, Spec

-----------------------------------------------------------------------------
(***************************************************************************)
(* The invariant of the pools and the caches.                              *)
(***************************************************************************)
LEMMA NewPoolFacts == PoolOK(NewPool) /\ NewPool.owner = [o \in Owners |-> Nobody] /\ NewPool.keyc = 0
<1> DEFINE p == NewPool
           W == Registered(p, Nobody)
<1>1. /\ DOMAIN p = {"available", "inuse", "keyc", "made", "owner"}
      /\ p.available = <<>> /\ p.keyc = 0 /\ p.made = 0
      /\ p.inuse = [key \in {} |-> Nobody] /\ p.owner = [o \in Owners |-> Nobody]
  BY DEF NewPool
<1> HIDE DEF p
<1>2. DOMAIN p.inuse = {} /\ p.inuse \in [DOMAIN p.inuse -> Uses]
  BY <1>1
<1>3. PoolRecord(p)
  BY <1>1, <1>2 DEF PoolRecord
<1>4. DOMAIN p.available = {} /\ ToSet(p.available) = {}
  BY <1>1 DEF ToSet
<1>5. Apart(p)
  <2>1. 1 .. p.made = {}
    BY <1>1
  <2>2. IsInjective(p.available)
    BY <1>4 DEF IsInjective
  <2>3. QED
    BY <1>2, <1>4, <2>1, <2>2 DEF Apart
<1>6. Nobody \in Handles
  BY DEF Nobody, Handles
<1>7. W \in [Holding -> Handles] /\ \A x \in Holding : W[x] = Nobody
  BY <1>1, <1>6 DEF Registered
<1> HIDE DEF W
<1>8. Claimed(p, W) /\ InDemand(p, DOMAIN p.inuse)
  BY <1>2, <1>7 DEF Claimed, InDemand
<1>9. PoolOK(p)
  BY <1>1, <1>3, <1>5, <1>6, <1>8 DEF PoolOK, PoolInv, W
<1>10. QED
  BY <1>1, <1>9 DEF p

LEMMA CacheInvInit == CacheInit => CacheInv
<1> SUFFICES ASSUME CacheInit PROVE CacheInv
  OBVIOUS
<1>1. /\ pool = [r \in Ranks |-> NewPool]
      /\ sendInfo = [e \in SendingEnds |-> NoInfo] /\ setInfo = [e \in ReceivingEnds |-> NoInfo]
  BY DEF CacheInit, SendingEnds, ReceivingEnds
<1>2. NoInfo.data = NoInfo.status /\ NoInfo.buf = Nobody /\ NoInfo.buf_allocated \in BOOLEAN
  BY DEF NoInfo
<1>3. ASSUME NEW e \in SendingEnds \cup ReceivingEnds
      PROVE  InfoOK(NoInfo, e)
  <2>1. e \in Owners /\ pool[Home(e)] = NewPool
    BY <1>1, InfoHome
  <2>2. NewPool.owner[e] = Nobody
    BY <2>1, NewPoolFacts
  <2>3. Remembers(NewPool, e, Nobody)
    BY <2>1, <2>2, NewPoolFacts, HandleRemembered
  <2>4. QED
    BY <1>2, <2>1, <2>3 DEF InfoOK
<1>4. QED
  BY <1>1, <1>2, <1>3, NewPoolFacts DEF CacheInv

(* A BndInfo that is built now has the storage of now. *)
LEMMA BuiltFacts ==
  ASSUME NEW p, NEW handle, NEW received
  PROVE  /\ BndInfo(p, handle, received).data = DataOf(p)
         /\ BndInfo(p, handle, received).status = DataOf(p)
         /\ BndInfo(p, handle, received).buf = handle
  BY DEF BndInfo, DataOf, GetAllocationStatus

LEMMA CachedSendStep ==
  ASSUME ExchangeInv, CacheInv, NEW r \in Ranks, NEW p, CachedSend(r, p)
  PROVE  /\ CacheInv'
         /\ \A e \in SendEnds[p] : sendInfo'[e].data = DataOf(p) /\ sendInfo'[e].buf = pool'[r].owner[e]
<1>1. p \in Parts /\ Rank[p] = r
  <2>1. AtHead(r, Task(p, "send")) /\ TypeOK /\ QueuesInOrder
    BY DEF CachedSend, SendBoundBufs, Run, ExchangeInv
  <2>2. QED
    BY <2>1, HeadFacts
<1>2. DOMAIN pool' = Ranks /\ \A s \in Ranks : PoolOK(pool'[s]) /\ KeepsMemories(pool[s], pool'[s])
  BY FollowFacts DEF CachedSend
<1>3. \A e \in SendEnds[p] : e \in Owners /\ e \in SendingEnds /\ Home(e) = r
  BY <1>1, HomeFacts
<1>4. DOMAIN sendInfo = SendingEnds
  BY DEF CacheInv
<1> DEFINE handle == [e \in SendEnds[p] |-> pool'[r].owner[e]]
<1>5. sendInfo' = IF RebuildSend(p, handle)
                  THEN [e \in SendingEnds |->
                          IF e \in SendEnds[p] THEN BndInfo(p, handle[e], TRUE) ELSE sendInfo[e]]
                  ELSE sendInfo
  BY <1>4 DEF CachedSend
<1>6. \A e \in SendEnds[p] : handle[e] = pool'[r].owner[e]
  OBVIOUS
<1> HIDE DEF handle
<1>7. DOMAIN sendInfo' = SendingEnds
  BY <1>4, <1>5
<1>8. ASSUME NEW e \in SendingEnds
      PROVE  /\ sendInfo'[e].data = sendInfo'[e].status
             /\ Remembers(pool'[Home(e)], e, sendInfo'[e].buf)
             /\ e \in SendEnds[p] =>
                  sendInfo'[e].data = DataOf(p) /\ sendInfo'[e].buf = pool'[r].owner[e]
  <2>1. sendInfo[e].data = sendInfo[e].status /\ Remembers(pool'[Home(e)], e, sendInfo[e].buf)
    <3>1. InfoOK(sendInfo[e], e)
      BY DEF CacheInv
    <3>2. QED
      BY <1>2, <3>1, InfoKept
  <2>2. CASE e \notin SendEnds[p]
    <3>1. sendInfo'[e] = sendInfo[e]
      BY <1>5, <2>2
    <3>2. QED
      BY <2>1, <2>2, <3>1
  <2>3. CASE e \in SendEnds[p] /\ RebuildSend(p, handle)
    <3>1. sendInfo'[e] = BndInfo(p, pool'[r].owner[e], TRUE)
      BY <1>5, <1>6, <2>3
    <3>2. /\ sendInfo'[e].data = DataOf(p) /\ sendInfo'[e].status = DataOf(p)
          /\ sendInfo'[e].buf = pool'[r].owner[e]
      BY <3>1 DEF BndInfo, DataOf, GetAllocationStatus
    <3>3. Remembers(pool'[Home(e)], e, pool'[r].owner[e])
      BY <1>2, <1>3, <2>3, HandleRemembered
    <3>4. QED
      BY <3>2, <3>3
  <2>4. CASE e \in SendEnds[p] /\ ~RebuildSend(p, handle)
    <3>1. sendInfo'[e] = sendInfo[e]
      BY <1>5, <2>4
    <3>2. sendInfo[e].status = GetAllocationStatus(p) /\ sendInfo[e].buf.key = handle[e].key
      BY <2>4 DEF RebuildSend
    <3>3. sendInfo[e].buf = pool'[r].owner[e]
      <4>1. Remembers(pool'[r], e, sendInfo[e].buf) /\ handle[e] = pool'[r].owner[e]
        BY <1>3, <1>6, <2>1, <2>4
      <4>2. QED
        BY <3>2, <4>1 DEF Remembers
    <3>4. sendInfo[e].data = DataOf(p)
      BY <2>1, <3>2 DEF GetAllocationStatus, DataOf
    <3>5. QED
      BY <2>1, <3>1, <3>3, <3>4
  <2>5. QED
    BY <2>2, <2>3, <2>4
<1>9. /\ DOMAIN setInfo' = ReceivingEnds
      /\ \A e \in ReceivingEnds : setInfo'[e].buf_allocated \in BOOLEAN
      /\ \A e \in ReceivingEnds : setInfo'[e].data = setInfo'[e].status
                                /\ Remembers(pool'[Home(e)], e, setInfo'[e].buf)
  <2>1. setInfo' = setInfo
    BY DEF CachedSend
  <2>2. QED
    BY <1>2, <2>1, InfoKept DEF CacheInv
<1>10. \A e : Home(e)' = Home(e)
  BY DEF Home
<1>11. CacheInv'
  BY <1>2, <1>7, <1>8, <1>9, <1>10 DEF CacheInv, InfoOK
<1>12. QED
  BY <1>3, <1>8, <1>11

LEMMA CachedSetStep ==
  ASSUME ExchangeInv, DataKept, CacheInv, NEW r \in Ranks, NEW p, CachedSet(r, p)
  PROVE  /\ CacheInv'
         /\ \A e \in RecvEnds[p] :
              /\ setInfo'[e].data = DataOf(p) /\ setInfo'[e].buf = Handle(e)
              /\ setInfo'[e].buf_allocated <=> buffer[e].state = "received"
<1>1. AtHead(r, Task(p, "set")) /\ TypeOK /\ QueuesInOrder
  BY DEF CachedSet, SetBounds, Run, ExchangeInv
<1>2. p \in Parts /\ Rank[p] = r /\ queue[r] \in Seq(TaskType) /\ queue[r] # <<>>
      /\ queue[r][1] = Task(p, "set")
  BY <1>1, HeadFacts
<1>3. \A e \in RecvEnds[p] : e \in Owners /\ e \in ReceivingEnds /\ Home(e) = r
  BY <1>2, HomeFacts
<1>4. ASSUME NEW e \in RecvEnds[p]
      PROVE  buffer[e].state \in Received
  <2>1. PICK c \in Incoming(p) : e = RecvEnd(c)
    BY <1>2 DEF RecvEnds
  <2>2. 1 \in DOMAIN queue[r] /\ queue[r][1].kind = "set" /\ queue[r][1].part = p
    BY <1>2 DEF Task
  <2>3. QED
    BY <2>1, <2>2 DEF DataKept
<1>5. /\ pool' = pool /\ sendInfo' = sendInfo
      /\ DOMAIN setInfo = ReceivingEnds
  BY DEF CachedSet, CacheInv
<1>6. setInfo' = IF RebuildSet(p)
                 THEN [e \in ReceivingEnds |->
                         IF e \in RecvEnds[p] THEN BndInfo(p, Handle(e), buffer[e].state = "received")
                         ELSE setInfo[e]]
                 ELSE setInfo
  BY <1>5 DEF CachedSet
<1>7. DOMAIN setInfo' = ReceivingEnds
  BY <1>5, <1>6
<1>8. ASSUME NEW e \in ReceivingEnds
      PROVE  /\ setInfo'[e].data = setInfo'[e].status
             /\ Remembers(pool[Home(e)], e, setInfo'[e].buf)
             /\ setInfo'[e].buf_allocated \in BOOLEAN
             /\ e \in RecvEnds[p] =>
                  /\ setInfo'[e].data = DataOf(p) /\ setInfo'[e].buf = Handle(e)
                  /\ setInfo'[e].buf_allocated <=> buffer[e].state = "received"
  <2>1. /\ setInfo[e].data = setInfo[e].status /\ Remembers(pool[Home(e)], e, setInfo[e].buf)
        /\ setInfo[e].buf_allocated \in BOOLEAN
    BY DEF CacheInv, InfoOK
  <2>2. CASE e \notin RecvEnds[p]
    <3>1. setInfo'[e] = setInfo[e]
      BY <1>6, <2>2
    <3>2. QED
      BY <2>1, <2>2, <3>1
  <2>3. CASE e \in RecvEnds[p] /\ RebuildSet(p)
    <3>1. setInfo'[e] = BndInfo(p, Handle(e), buffer[e].state = "received")
      BY <1>6, <2>3
    <3>2. /\ setInfo'[e].data = DataOf(p) /\ setInfo'[e].status = DataOf(p)
          /\ setInfo'[e].buf = Handle(e)
      BY <3>1, BuiltFacts
    <3>3. setInfo'[e].buf_allocated = (buffer[e].state = "received")
      BY <3>1 DEF BndInfo
    <3>4. Remembers(pool[Home(e)], e, Handle(e))
      BY InfoHome, HandleRemembered DEF CacheInv, Handle
    <3>5. setInfo'[e].buf_allocated \in BOOLEAN /\ (setInfo'[e].buf_allocated <=> buffer[e].state = "received")
      BY <3>3
    <3>6. QED
      BY <3>2, <3>4, <3>5
  <2>4. CASE e \in RecvEnds[p] /\ ~RebuildSet(p)
    <3>1. setInfo'[e] = setInfo[e]
      BY <1>6, <2>4
    <3>2. /\ setInfo[e].status = GetAllocationStatus(p) /\ setInfo[e].buf.key = Handle(e).key
          /\ buffer[e].state = "received" => setInfo[e].buf_allocated
          /\ buffer[e].state = "received_null" => ~setInfo[e].buf_allocated
      BY <2>4 DEF RebuildSet
    <3>3. setInfo[e].buf = Handle(e)
      BY <2>1, <3>2 DEF Remembers, Handle
    <3>4. setInfo[e].data = DataOf(p)
      BY <2>1, <3>2 DEF GetAllocationStatus, DataOf
    <3>5. setInfo[e].buf_allocated <=> buffer[e].state = "received"
      BY <1>4, <2>4, <3>2 DEF Received
    <3>6. QED
      BY <2>1, <3>1, <3>3, <3>4, <3>5
  <2>5. QED
    BY <2>2, <2>3, <2>4
<1>9. \A e : Home(e)' = Home(e)
  BY DEF Home
<1>10. CacheInv'
  BY <1>5, <1>7, <1>8, <1>9 DEF CacheInv, InfoOK
<1>11. QED
  BY <1>3, <1>8, <1>10

(* The other tasks do not touch the caches. *)
LEMMA OtherStep ==
  ASSUME CacheInv, NEW r \in Ranks, FollowBuffers(r) \/ pool' = pool,
         UNCHANGED <<sendInfo, setInfo>>
  PROVE  CacheInv'
<1>1. DOMAIN pool' = Ranks /\ \A s \in Ranks : PoolOK(pool'[s]) /\ KeepsMemories(pool[s], pool'[s])
  <2>1. CASE FollowBuffers(r)
    BY <2>1, FollowFacts
  <2>2. CASE pool' = pool
    BY <2>2 DEF CacheInv, KeepsMemories
  <2>3. QED
    BY <2>1, <2>2
<1>2. \A e \in SendingEnds : /\ sendInfo[e].data = sendInfo[e].status
                             /\ Remembers(pool'[Home(e)], e, sendInfo[e].buf)
  BY <1>1, InfoKept DEF CacheInv
<1>3. \A e \in ReceivingEnds : /\ setInfo[e].data = setInfo[e].status
                               /\ Remembers(pool'[Home(e)], e, setInfo[e].buf)
  BY <1>1, InfoKept DEF CacheInv
<1>4. \A e : Home(e)' = Home(e)
  BY DEF Home
<1>5. QED
  BY <1>1, <1>2, <1>3, <1>4 DEF CacheInv, InfoOK

LEMMA CacheInvStep ==
  ExchangeInv /\ DataKept /\ CacheInv /\ [CacheNext]_<<vars, cacheVars>> => CacheInv'
<1> SUFFICES ASSUME ExchangeInv, DataKept, CacheInv, [CacheNext]_<<vars, cacheVars>>
             PROVE  CacheInv'
  OBVIOUS
<1>1. CASE CacheNext
  <2>1. PICK r \in Ranks : CachedTask(r)
    BY <1>1 DEF CacheNext
  <2>2. PICK p : CachedSend(r, p) \/ CachedSet(r, p) \/ OtherTask(r, p) \/ CachedCompute(r, p)
    BY <2>1 DEF CachedTask
  <2>3. CASE CachedSend(r, p)
    BY <2>3, CachedSendStep
  <2>4. CASE CachedSet(r, p)
    BY <2>4, CachedSetStep
  <2>5. CASE OtherTask(r, p)
    <3>1. FollowBuffers(r) /\ UNCHANGED <<sendInfo, setInfo>>
      BY <2>5 DEF OtherTask
    <3>2. QED
      BY <3>1, OtherStep
  <2>6. CASE CachedCompute(r, p)
    <3>1. UNCHANGED <<pool, sendInfo, setInfo>>
      BY <2>6 DEF CachedCompute
    <3>2. QED
      BY <3>1, OtherStep
  <2>7. QED
    BY <2>2, <2>3, <2>4, <2>5, <2>6
<1>2. CASE UNCHANGED <<vars, cacheVars>>
  <2>1. UNCHANGED <<pool, sendInfo, setInfo>>
    BY <1>2 DEF cacheVars
  <2>2. \A e : Home(e)' = Home(e)
    BY DEF Home
  <2>3. QED
    BY <2>1, <2>2 DEF CacheInv, InfoOK
<1>3. QED
  BY <1>1, <1>2

THEOREM CacheInvariant == CacheSpec => [](ExchangeInv /\ DataKept /\ CacheInv)
<1>1. CacheInit => CacheInv
  BY CacheInvInit
<1>2. ExchangeInv /\ DataKept /\ CacheInv /\ [CacheNext]_<<vars, cacheVars>> => CacheInv'
  BY CacheInvStep
<1>3. QED
  BY <1>1, <1>2, CachesKeepExchange, ExchangeInvariant, DataKeptAlways, PTL DEF CacheSpec

(* The count of an object is the number of its owners. *)
LEMMA PoolsSound ==
  ASSUME NEW p, PoolOK(p)
  PROVE  HandedOutOnce(p) /\ CountsAreOwners(p)
<1> DEFINE W == Registered(p, Nobody)
<1>1. PoolRecord(p) /\ Apart(p) /\ Claimed(p, W) /\ InDemand(p, DOMAIN p.inuse)
  BY DEF PoolOK, PoolInv
<1>2. /\ Owners \subseteq Holding /\ Temporary \in Holding /\ Temporary \notin Owners
      /\ \A x \in Holding : x \in Owners \/ x = Temporary
  BY TemporaryIsNew DEF Holding
<1>3. W[Temporary] = Nobody /\ \A o \in Owners : W[o] = p.owner[o]
  BY <1>2 DEF Registered
<1> HIDE DEF W
<1>4. ASSUME NEW k \in DOMAIN p.inuse
      PROVE  p.inuse[k].count = Cardinality(Holders(p, k)) /\ p.inuse[k].count > 0
  <2>1. k # 0 /\ Nobody.key = 0
    BY <1>1 DEF PoolRecord, Nobody
  <2>2. Claims(W, k) = Holders(p, k)
    BY <1>2, <1>3, <2>1 DEF Claims, Holders
  <2>3. QED
    BY <1>1, <2>2 DEF Claimed, InDemand
<1>5. HandedOutOnce(p)
  BY <1>1, <1>2, <1>3 DEF HandedOutOnce, Apart, Claimed, IsValid
<1>6. CountsAreOwners(p)
  BY <1>1, <1>4 DEF CountsAreOwners, Apart
<1>7. QED
  BY <1>5, <1>6

(* Every object of a pool is on the stack once, or held under one key by as *)
(* many owners as its count says (ObjectPool, get_resource_method), in every *)
(* run of any instance: no two channels ever share storage, and none is     *)
(* lost.                                                                    *)
THEOREM StorageOnceAlways == CacheSpec => []StorageHandedOutOnce
<1>1. CacheInv => StorageHandedOutOnce
  BY PoolsSound DEF CacheInv, StorageHandedOutOnce
<1>2. QED
  BY <1>1, CacheInvariant, PTL

(***************************************************************************)
(* What is copied.                                                         *)
(***************************************************************************)
Copies(r, p) ==
  /\ AtHead(r, Task(p, "send")) /\ Len(queue'[r]) < Len(queue[r]) =>
       \A e \in SendEnds[p] : sendInfo'[e].data = DataOf(p) /\ sendInfo'[e].buf = Handle(e)'
  /\ AtHead(r, Task(p, "set")) /\ queue'[r] # queue[r] =>
       \A e \in RecvEnds[p] :
         /\ setInfo'[e].data = DataOf(p) /\ setInfo'[e].buf = Handle(e)
         /\ setInfo'[e].buf_allocated <=> buffer[e].state = "received"

(* Only the rank that runs a task changes its queue. *)
LEMMA QueueOfOthers ==
  ASSUME TypeOK, NEW r \in Ranks, NEW s \in Ranks, s # r, RunTask(r)
  PROVE  queue'[s] = queue[s]
<1>1. PICK task, next : queue' = [queue EXCEPT ![r] = Tail(@) \o next]
  BY DEF RunTask, SendBlocked, SendBoundBufs, StartReceiveBoundBufs, ReceiveBoundBufs, SetBounds,
         Compute, Run
<1>2. DOMAIN queue = Ranks
  BY DEF TypeOK
<1>3. QED
  BY <1>1, <1>2

LEMMA CopiesStep ==
  ASSUME ExchangeInv, DataKept, CacheInv, CacheNext, NEW r \in Ranks, NEW p \in Parts
  PROVE  Copies(r, p)
<1>1. PICK s \in Ranks : CachedTask(s)
  BY DEF CacheNext
<1>2. TypeOK /\ QueuesInOrder
  BY DEF ExchangeInv
<1>3. CASE s # r
  <2>1. RunTask(s)
    BY <1>1 DEF CachedTask, RunTask, CachedSend, CachedSet, OtherTask, CachedCompute
  <2>2. queue'[r] = queue[r]
    BY <1>2, <1>3, <2>1, QueueOfOthers
  <2>3. Len(queue[r]) \in Nat
    BY <1>2 DEF TypeOK
  <2>4. QED
    BY <2>2, <2>3 DEF Copies
<1>4. CASE s = r
  <2>1. ASSUME AtHead(r, Task(p, "send")), Len(queue'[r]) < Len(queue[r]), NEW e \in SendEnds[p]
        PROVE  sendInfo'[e].data = DataOf(p) /\ sendInfo'[e].buf = Handle(e)'
    <3>1. Head(queue[r]) = Task(p, "send") /\ Head(queue[r]).part = p
      BY <2>1 DEF AtHead, Task
    <3>2. CachedSend(r, p) \/ CachedSet(r, p) \/ OtherTask(r, p) \/ CachedCompute(r, p)
      BY <1>1, <1>4, <3>1 DEF CachedTask
    <3>3. ASSUME NEW kind, kind # "send"
          PROVE  ~AtHead(r, Task(p, kind))
      BY <3>1, <3>3 DEF AtHead, Task
    <3>4. CachedSend(r, p) \/ SendBlocked(r, p)
      <4>1. ~SetBounds(r, p) /\ ~StartReceiveBoundBufs(r, p) /\ ~ReceiveBoundBufs(r, p) /\ ~Compute(r, p)
        BY <3>3 DEF SetBounds, StartReceiveBoundBufs, ReceiveBoundBufs, Compute, Run
      <4>2. QED
        BY <3>2, <4>1 DEF CachedSet, OtherTask, CachedCompute
    <3>5. ~SendBlocked(r, p)
      <4>1. SUFFICES ASSUME SendBlocked(r, p) PROVE FALSE
        OBVIOUS
      <4>2. /\ queue \in [Ranks -> Seq(TaskType)]
            /\ queue' = [queue EXCEPT ![r] = Tail(@) \o <<Task(p, "send")>>]
        BY <1>2, <4>1 DEF TypeOK, SendBlocked, Run
      <4>3. queue'[r] = Tail(queue[r]) \o <<Task(p, "send")>>
        BY <4>2
      <4>4. queue[r] \in Seq(TaskType) /\ queue[r] # <<>> /\ Task(p, "send") \in TaskType
        BY <1>2, <2>1, HeadFacts DEF Task, TaskType
      <4>5. Len(queue'[r]) = Len(queue[r])
        BY <4>3, <4>4
      <4>6. QED
        BY <2>1, <4>4, <4>5
    <3>6. sendInfo'[e].data = DataOf(p) /\ sendInfo'[e].buf = pool'[r].owner[e]
      BY <3>4, <3>5, CachedSendStep
    <3>7. Home(e) = r
      BY <1>2, <2>1, HeadFacts, HomeFacts
    <3>8. QED
      BY <3>6, <3>7 DEF Handle, Home
  <2>2. ASSUME AtHead(r, Task(p, "set")), NEW e \in RecvEnds[p]
        PROVE  /\ setInfo'[e].data = DataOf(p) /\ setInfo'[e].buf = Handle(e)
               /\ setInfo'[e].buf_allocated <=> buffer[e].state = "received"
    <3>1. Head(queue[r]) = Task(p, "set") /\ Head(queue[r]).part = p
      BY <2>2 DEF AtHead, Task
    <3>2. CachedSend(r, p) \/ CachedSet(r, p) \/ OtherTask(r, p) \/ CachedCompute(r, p)
      BY <1>1, <1>4, <3>1 DEF CachedTask
    <3>3. ASSUME NEW kind, kind # "set"
          PROVE  ~AtHead(r, Task(p, kind))
      BY <3>1, <3>3 DEF AtHead, Task
    <3>4. ~SendBoundBufs(r, p) /\ ~SendBlocked(r, p) /\ ~StartReceiveBoundBufs(r, p)
          /\ ~ReceiveBoundBufs(r, p) /\ ~Compute(r, p)
      BY <3>3 DEF SendBoundBufs, SendBlocked, StartReceiveBoundBufs, ReceiveBoundBufs, Compute, Run
    <3>5. CachedSet(r, p)
      BY <3>2, <3>4 DEF CachedSend, OtherTask, CachedCompute
    <3>6. QED
      BY <3>5, CachedSetStep
  <2>3. QED
    BY <2>1, <2>2 DEF Copies
<1>5. QED
  BY <1>3, <1>4

(* What SendBoundBufs loads and SetBounds copies goes through the storage   *)
(* that the variable and the buffer have now, whatever became of those of   *)
(* the exchange that the BndInfo were built for (the checks for rebuild in  *)
(* bvals_utils.hpp), in every run of any instance.                          *)
THEOREM CopiesAreCurrent == CacheSpec => CopiesUseCurrentStorage
<1> DEFINE Inv == ExchangeInv /\ DataKept /\ CacheInv
           Copy == \A r \in Ranks, p \in Parts : Copies(r, p)
<1>1. Inv /\ [CacheNext]_<<vars, cacheVars>> => [Copy]_<<vars, cacheVars>>
  BY CopiesStep
<1>2. CacheSpec => []Inv
  BY CacheInvariant
<1>3. [][Copy]_<<vars, cacheVars>> => CopiesUseCurrentStorage
  BY PTL DEF CopiesUseCurrentStorage, Copies
<1> HIDE DEF Inv, Copy
<1>4. QED
  BY <1>1, <1>2, <1>3, PTL DEF CacheSpec
=============================================================================
