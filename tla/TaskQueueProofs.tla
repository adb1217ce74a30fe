--------------------------- MODULE TaskQueueProofs ---------------------------
(***************************************************************************)
(* Proofs about TaskQueue: as long as nobody calls clear or clear_all, the *)
(* lock and the rename make the queue atomic and always readable, however  *)
(* many processes there are and whenever they die.                         *)
(***************************************************************************)
EXTENDS TaskQueue, FiniteSetTheorems, TLAPS

OnlyLocked == Callable \cap UnlockedOps = {}

Inside(p) == pc[p] \in {"read", "open", "fill", "replace"}

LockType ==
  /\ json \in Inodes \cup {None} /\ tmp \in Inodes \cup {None}
  /\ DOMAIN text = Inodes /\ whole \in [Inodes -> BOOLEAN]
  /\ text = [n \in Inodes |-> text[n]]
  /\ lock \in Procs \cup {None}
  /\ pc \in [Procs -> Steps] /\ file \in [Procs -> Inodes \cup {None}]
  /\ op \in [Procs -> Operations \cup {NoOp}]
  /\ DOMAIN new = Procs /\ new = [p \in Procs |-> new[p]]

(* Who is inside holds the lock, and no inside call is an unlocked one.      *)
Holder ==
  \A p \in Procs :
    /\ Inside(p) => lock = p
    /\ (pc[p] = "lock" \/ Inside(p)) => op[p] \in LockedOps

(* What the holder will write follows from what the file still holds, and it *)
(* goes into a file that is not yet queue.json.                              *)
Working ==
  \A p \in Procs :
    /\ pc[p] \in {"open", "fill", "replace"} => new[p] \in Effect(op[p], Current)
    /\ pc[p] \in {"fill", "replace"} => tmp # None /\ file[p] = tmp
    /\ pc[p] = "fill" => ~whole[tmp]
    /\ pc[p] = "replace" => whole[tmp] /\ text[tmp] = new[p]

Files == json # None => whole[json] /\ tmp # json

LockInv == LockType /\ Holder /\ Working /\ Files

LEMMA OpKinds ==
  /\ \A o \in LockedOps : o.kind \notin {"clear", "clearAll", "next", "none"}
  /\ \A o \in Operations : o \notin LockedOps /\ o \notin UnlockedOps => o.kind = "next"
  /\ \A o \in UnlockedOps : o \notin LockedOps
<1>1. \A o \in LockedOps : o.kind \in {"enqueue", "update", "skip", "pause", "resume"}
  BY DEF LockedOps, Op
<1>2. \A o \in UnlockedOps : o.kind \in {"clear", "clearAll"}
  BY DEF UnlockedOps, Op
<1>3. \A o \in Operations : o \notin LockedOps /\ o \notin UnlockedOps => o.kind = "next"
  BY DEF Operations, Op
<1> QED
  BY <1>1, <1>2, <1>3

(* The instance of the atomic queue has definitions of its own for the       *)
(* operations; they are the same.                                            *)
LEMMA SameEffect ==
  ASSUME NEW o \in LockedOps, NEW q
  PROVE  o \in Atomic!LockedOps /\ Atomic!Effect(o, q) = Effect(o, q)
<1>1. o \in Atomic!LockedOps
  BY DEF LockedOps, Atomic!LockedOps, Op, Atomic!Op, ItemStates, Atomic!ItemStates
<1>2. o.kind \in {"enqueue", "update", "skip", "pause", "resume"}
  BY DEF LockedOps, Op
<1>3. CASE o.kind = "enqueue"
  <2>1. Atomic!Depth(q) = Depth(q)
    BY Zenon DEF Depth, Atomic!Depth, Positions, Atomic!Positions, Cardinality, Atomic!Cardinality
  <2>2. Atomic!Enqueue(q, o.item) = Enqueue(q, o.item)
    BY <2>1, Zenon DEF Enqueue, Atomic!Enqueue
  <2>3. Effect(o, q) = Enqueue(q, o.item) /\ Atomic!Effect(o, q) = Atomic!Enqueue(q, o.item)
    BY <1>3 DEF Effect, Atomic!Effect
  <2> QED
    BY <1>1, <2>2, <2>3
<1>4. CASE o.kind = "update"
  <2>1. Atomic!Update(q, o.item, o.state) = Update(q, o.item, o.state)
    BY Zenon DEF Update, Atomic!Update
  <2>2. /\ Effect(o, q) = Update(q, o.item, o.state)
        /\ Atomic!Effect(o, q) = Atomic!Update(q, o.item, o.state)
    BY <1>4 DEF Effect, Atomic!Effect
  <2> QED
    BY <1>1, <2>1, <2>2
<1>5. CASE o.kind = "skip"
  <2>1. Atomic!SkipActive(q) = SkipActive(q)
    BY Zenon DEF SkipActive, Atomic!SkipActive, First, Atomic!First, Positions, Atomic!Positions
  <2>2. Effect(o, q) = SkipActive(q) /\ Atomic!Effect(o, q) = Atomic!SkipActive(q)
    BY <1>5 DEF Effect, Atomic!Effect
  <2> QED
    BY <1>1, <2>1, <2>2
<1>6. CASE o.kind \in {"pause", "resume"}
  BY <1>1, <1>6 DEF Effect, Atomic!Effect
<1> QED
  BY <1>2, <1>3, <1>4, <1>5, <1>6

LEMMA LockInit == Init => LockInv
  BY TaskQueueAssumption
  DEF Init, LockInv, LockType, Holder, Working, Files, Inside, Steps, NoOp, EmptyQueue

LEMMA LockStep ==
  ASSUME OnlyLocked, LockInv, [Next]_vars
  PROVE  LockInv'
<1> USE TaskQueueAssumption
    DEF LockInv, LockType, Holder, Working, Files, Inside, Current, Readable, Steps, files, procs, vars, Finish
<1>1. ASSUME NEW p \in Procs, NEW o \in Callable, Call(p, o) PROVE LockInv'
  <2>1. o \in Operations /\ o \notin UnlockedOps
    BY DEF OnlyLocked
  <2>2. o \in LockedOps \/ o.kind = "next"
    BY <2>1, OpKinds
  <2> QED
    BY <1>1, <2>1, <2>2, OpKinds DEF Call
<1>2. ASSUME NEW p \in Procs, Acquire(p) PROVE LockInv'
  BY <1>2 DEF Acquire
<1>3. ASSUME NEW p \in Procs, Read(p) PROVE LockInv'
  BY <1>3 DEF Read
<1>4. ASSUME NEW p \in Procs, ReadReturns(p) PROVE LockInv'
  BY <1>4 DEF ReadReturns
<1>5. ASSUME NEW p \in Procs, Open(p) PROVE LockInv'
  BY <1>5 DEF Open
<1>6. ASSUME NEW p \in Procs, Fill(p) PROVE LockInv'
  BY <1>6 DEF Fill
<1>7. ASSUME NEW p \in Procs, Replace(p) PROVE LockInv'
  BY <1>7 DEF Replace
<1>8. ASSUME NEW p \in Procs, ReplaceFails(p) PROVE LockInv'
  BY <1>8 DEF ReplaceFails
<1>9. ASSUME NEW p \in Procs, Ask(p) PROVE LockInv'
  BY <1>9 DEF Ask
<1>10. ASSUME NEW p \in Procs, Pick(p) PROVE LockInv'
  BY <1>10 DEF Pick
<1>11. ASSUME NEW p \in Procs, LockTimeout(p) PROVE LockInv'
  BY <1>11 DEF LockTimeout
<1>12. ASSUME NEW p \in Procs, Crash(p) PROVE LockInv'
  BY <1>12 DEF Crash
<1>13. CASE UNCHANGED vars
  BY <1>13
<1> QED
  BY <1>1, <1>2, <1>3, <1>4, <1>5, <1>6, <1>7, <1>8, <1>9, <1>10, <1>11, <1>12, <1>13 DEF Next, Step

(* Every step of a process is a step of the atomic queue or leaves it alone. *)
LEMMA QueueStep ==
  ASSUME LockInv, [Next]_vars
  PROVE  [Atomic!QueueNext]_Current
<1> USE TaskQueueAssumption
    DEF LockInv, LockType, Holder, Working, Files, Inside, Current, files, procs, vars
<1>1. ASSUME NEW p \in Procs, Replace(p) PROVE Atomic!QueueNext
  <2>1. Current' = new[p] /\ op[p] \in LockedOps /\ new[p] \in Effect(op[p], Current)
    BY <1>1 DEF Replace
  <2> QED
    BY <2>1, SameEffect DEF Atomic!QueueNext
<1>2. ASSUME NEW p \in Procs, Fill(p) PROVE Current' = Current
  BY <1>2 DEF Fill
<1>3. ASSUME NEW p \in Procs, Open(p) PROVE Current' = Current
  BY <1>3 DEF Open
<1>4. CASE UNCHANGED <<json, text>>
  BY <1>4
<1>5. \/ \E p \in Procs : Replace(p) \/ Fill(p) \/ Open(p)
      \/ UNCHANGED <<json, text>>
  BY DEF Next, Step, Call, Acquire, Read, ReadReturns, ReplaceFails, Ask, Pick, LockTimeout, Crash, Finish
<1> QED
  BY <1>1, <1>2, <1>3, <1>4, <1>5

(* queue.json always parses.                                                 *)
THEOREM LockedReadable ==
  ASSUME OnlyLocked
  PROVE  Spec => []AlwaysReadable
<1>1. LockInv => AlwaysReadable
  BY DEF LockInv, Files, AlwaysReadable, Readable
<1>2. LockInv /\ [Next]_vars => LockInv'
  BY LockStep
<1> QED
  BY LockInit, <1>1, <1>2, PTL DEF Spec

(* The operations that take the lock implement the atomic queue.             *)
THEOREM LockedImplements ==
  ASSUME OnlyLocked
  PROVE  Spec => ImplementsQueue
<1>1. Init => Atomic!QueueInit
  BY DEF Init, Atomic!QueueInit, Current, EmptyQueue, Atomic!EmptyQueue
<1>2. LockInv /\ [Next]_vars => LockInv'
  BY LockStep
<1>3. LockInv /\ [Next]_vars => [Atomic!QueueNext]_Current
  BY QueueStep
<1> QED
  BY LockInit, <1>1, <1>2, <1>3, PTL DEF Spec, ImplementsQueue, Atomic!QueueSpec
-----------------------------------------------------------------------------
(* The bounds, with clear and clear_all overlapping the rest as they may.    *)

QueueType == [paused : BOOLEAN, items : Seq([id : Items, state : ItemStates])]

Unique(q) == \A j, k \in DOMAIN q.items : q.items[j].id = q.items[k].id => j = k

Sound(q) == q \in QueueType /\ Depth(q) <= MaxDepth /\ Unique(q)

LEMMA OpArguments ==
  \A o \in Operations :
    /\ o.kind = "enqueue" => o.item \in Items
    /\ o.kind = "update" => o.state \in ItemStates \ {"waiting"}
<1>1. \A o \in LockedOps : /\ o.kind = "enqueue" => o.item \in Items
                           /\ o.kind = "update" => o.state \in ItemStates \ {"waiting"}
  BY DEF LockedOps, Op
<1>2. \A o \in Operations : o \in LockedOps \/ o.kind \in {"clear", "clearAll", "next"}
  BY DEF Operations, UnlockedOps, Op
<1> QED
  BY <1>1, <1>2

LEMMA PositionsFinite ==
  ASSUME NEW q \in QueueType, NEW st
  PROVE  IsFiniteSet(Positions(q, st)) /\ Cardinality(Positions(q, st)) \in Nat
<1>1. Positions(q, st) \in SUBSET (1 .. Len(q.items)) /\ Len(q.items) \in Nat
  BY DEF Positions, QueueType
<1>2. IsFiniteSet(1 .. Len(q.items))
  BY <1>1, FS_Interval
<1> QED
  BY <1>1, <1>2, FS_Subset, FS_CardinalityType

(* No deeper with no more waiting.                                           *)
LEMMA NoDeeper ==
  ASSUME NEW q \in QueueType, NEW r, Depth(q) <= MaxDepth,
         Positions(r, "waiting") \subseteq Positions(q, "waiting")
  PROVE  Depth(r) <= MaxDepth
<1>1. IsFiniteSet(Positions(q, "waiting")) /\ Cardinality(Positions(q, "waiting")) \in Nat
  BY PositionsFinite
<1>2. /\ IsFiniteSet(Positions(r, "waiting"))
      /\ Cardinality(Positions(r, "waiting")) <= Cardinality(Positions(q, "waiting"))
  BY <1>1, FS_Subset
<1>3. Cardinality(Positions(r, "waiting")) \in Nat
  BY <1>2, FS_CardinalityType
<1> QED
  BY <1>1, <1>2, <1>3, QueueAssumption DEF Depth

LEMMA EnqueueSound ==
  ASSUME NEW q, Sound(q), NEW i \in Items, i \notin Known(q), NEW r \in Enqueue(q, i)
  PROVE  Sound(r) /\ Known(r) \subseteq Known(q) \cup {i}
<1> DEFINE e == [id |-> i, state |-> "waiting"]
<1> DEFINE n == Len(q.items) + 1
<1>1. Depth(q) < MaxDepth /\ r = [q EXCEPT !.items = Append(q.items, e)]
  <2>1. Depth(q) \in Nat
    BY PositionsFinite DEF Sound, Depth
  <2> QED
    BY <2>1, QueueAssumption DEF Enqueue
<1>2. /\ r \in QueueType /\ DOMAIN r.items = (DOMAIN q.items) \cup {n} /\ n \notin DOMAIN q.items
      /\ r.items[n] = e /\ \A k \in DOMAIN q.items : r.items[k] = q.items[k]
  <2>1. q.items \in Seq([id : Items, state : ItemStates]) /\ e \in [id : Items, state : ItemStates]
        /\ q \in QueueType
    BY DEF Sound, QueueType, ItemStates
  <2>2. r.items = Append(q.items, e)
    BY <1>1, <2>1 DEF QueueType
  <2>3. r \in QueueType
    <3>1. Append(q.items, e) \in Seq([id : Items, state : ItemStates])
      BY <2>1
    <3> QED
      BY <1>1, <2>1, <3>1 DEF QueueType
  <2> HIDE DEF e
  <2> QED
    BY <2>1, <2>2, <2>3
<1>3. Positions(r, "waiting") = Positions(q, "waiting") \cup {n}
  BY <1>2 DEF Positions
<1>4. Depth(r) <= Depth(q) + 1 /\ Depth(q) \in Nat /\ Depth(r) \in Nat
  <2>1. IsFiniteSet(Positions(q, "waiting")) /\ Depth(q) \in Nat
    BY PositionsFinite DEF Sound, Depth
  <2>2. Depth(r) = IF n \in Positions(q, "waiting") THEN Depth(q) ELSE Depth(q) + 1
    BY <1>3, <2>1, FS_AddElement, Zenon DEF Depth
  <2> QED
    BY <2>1, <2>2
<1>5. Unique(r)
  <2>1. \A k \in DOMAIN q.items : q.items[k].id # i
    BY DEF Known
  <2> QED
    BY <1>2, <2>1 DEF Unique, Sound
<1>6. Known(r) \subseteq Known(q) \cup {i}
  BY <1>2 DEF Known
<1>7. Depth(r) <= MaxDepth
  BY <1>1, <1>4, QueueAssumption
<1> QED
  BY <1>2, <1>5, <1>6, <1>7 DEF Sound

(* One item's state changes, to one that does not wait.                      *)
LEMMA ChangeSound ==
  ASSUME NEW q, Sound(q), NEW k \in DOMAIN q.items, NEW st \in ItemStates \ {"waiting"}
  PROVE  LET r == [q EXCEPT !.items[k].state = st]
         IN  Sound(r) /\ Known(r) \subseteq Known(q)
<1> DEFINE r == [q EXCEPT !.items[k].state = st]
<1>1. q \in QueueType /\ q.items \in Seq([id : Items, state : ItemStates])
  BY DEF Sound, QueueType
<1>2. q.items[k] \in [id : Items, state : ItemStates]
  <2> DEFINE T == [id : Items, state : ItemStates]
  <2>1. q.items \in Seq(T)
    BY <1>1
  <2> HIDE DEF T
  <2>2. q.items[k] \in T
    BY <2>1
  <2> QED
    BY <2>2 DEF T
<1>3. [q.items[k] EXCEPT !.state = st] \in [id : Items, state : ItemStates]
  BY <1>2
<1>4. r.items = [q.items EXCEPT ![k] = [q.items[k] EXCEPT !.state = st]] /\ r.paused = q.paused
      /\ r = [paused |-> r.paused, items |-> r.items]
  <2> DEFINE items == [q.items EXCEPT ![k] = [q.items[k] EXCEPT !.state = st]]
  <2>1. r = [q EXCEPT !.items = items]
    OBVIOUS
  <2>2. DOMAIN q = {"paused", "items"} /\ q = [paused |-> q.paused, items |-> q.items]
    BY <1>1 DEF QueueType
  <2> HIDE DEF items, r
  <2>3. r = [paused |-> q.paused, items |-> items]
    BY <2>1, <2>2
  <2> QED
    BY <2>3 DEF items
<1> HIDE DEF r
<1>5. r.items \in Seq([id : Items, state : ItemStates]) /\ DOMAIN r.items = DOMAIN q.items
  BY <1>1, <1>3, <1>4
<1>6. r \in QueueType
  BY <1>1, <1>4, <1>5 DEF QueueType
<1>7. /\ \A j \in DOMAIN q.items : r.items[j].id = q.items[j].id
      /\ \A j \in DOMAIN q.items : r.items[j].state = "waiting" => q.items[j].state = "waiting"
  BY <1>2, <1>4
<1>8. Depth(r) <= MaxDepth
  <2>1. Positions(r, "waiting") \subseteq Positions(q, "waiting")
    BY <1>5, <1>7 DEF Positions
  <2> QED
    BY <2>1, NoDeeper DEF Sound
<1>9. Unique(r)
  BY <1>5, <1>7 DEF Unique, Sound
<1>10. Known(r) \subseteq Known(q)
  BY <1>5, <1>7 DEF Known
<1>11. Sound(r)
  BY <1>6, <1>8, <1>9 DEF Sound
<1> QED
  BY <1>10, <1>11 DEF r

(* The places of a set of positions are counted from 1 on, so each has one.  *)
LEMMA NthIn ==
  ASSUME NEW n \in Nat, NEW K \in SUBSET (1..n)
  PROVE  /\ Cardinality(K) \in Nat
         /\ \A k \in 1..Cardinality(K) :
              Nth(K, k) \in K /\ Cardinality({j \in K : j <= Nth(K, k)}) = k
<1> DEFINE m == Cardinality(K)
           upto(i) == {j \in K : j <= i}
           rank == [i \in K |-> Cardinality(upto(i))]
<1>1. IsFiniteSet(K) /\ m \in Nat /\ IsFiniteSet(1..m) /\ Cardinality(1..m) = m
  <2>1. IsFiniteSet(1..n)
    BY FS_Interval
  <2>2. IsFiniteSet(K) /\ m \in Nat
    BY <2>1, FS_Subset, FS_CardinalityType
  <2> QED
    BY <2>2, FS_Interval
<1>2. \A i \in K : /\ i \in upto(i) /\ upto(i) \in SUBSET K
                   /\ \A l \in K : i < l => upto(i) \in SUBSET upto(l) /\ l \notin upto(i)
  <2>1. \A i, l, j \in K : i <= i /\ (i < l => (j <= i => j <= l) /\ ~(l <= i))
    OBVIOUS
  <2> QED
    BY <2>1
<1> HIDE DEF upto, m
<1>3. \A i \in K : Cardinality(upto(i)) \in 1..m /\ IsFiniteSet(upto(i))
  BY <1>1, <1>2, FS_Subset, FS_CardinalityType, FS_EmptySet DEF m
<1>4. \A i, l \in K : i < l => rank[i] # rank[l]
  BY <1>2, <1>3, FS_Subset
<1>5. rank \in Injection(K, 1..m)
  <2>1. rank \in [K -> 1..m]
    BY <1>3
  <2> HIDE DEF rank
  <2> QED
    BY <1>4, <2>1 DEF Injection, IsInjective
<1>6. rank \in Surjection(K, 1..m)
  <2> HIDE DEF rank
  <2> QED
    BY <1>1, <1>5, FS_Injection DEF m
<1>7. \A k \in 1..m : \E i \in K : Cardinality(upto(i)) = k
  BY <1>6 DEF Surjection
<1> QED
  BY <1>1, <1>7 DEF Nth, upto, m

(* A selection's elements are the selected ones, each once.                  *)
LEMMA SelectedFrom ==
  ASSUME NEW T, NEW s \in Seq(T), NEW K \in SUBSET DOMAIN s
  PROVE  /\ Selected(s, K) \in Seq(T)
         /\ DOMAIN Selected(s, K) = 1..Cardinality(K) /\ Cardinality(K) \in Nat
         /\ \A i \in 1..Cardinality(K) : Nth(K, i) \in K /\ Selected(s, K)[i] = s[Nth(K, i)]
         /\ \A i, j \in 1..Cardinality(K) : Nth(K, i) = Nth(K, j) => i = j
<1> DEFINE n == Cardinality(K)
<1>1. n \in Nat /\ \A k \in 1..n : Nth(K, k) \in K /\ Cardinality({j \in K : j <= Nth(K, k)}) = k
  <2>1. Len(s) \in Nat /\ DOMAIN s = 1..Len(s)
    OBVIOUS
  <2> QED
    BY <2>1, NthIn
<1>2. Selected(s, K) = [k \in 1..n |-> s[Nth(K, k)]]
  BY DEF Selected
<1>3. \A i, j \in 1..n : Nth(K, i) = Nth(K, j) => i = j
  BY <1>1
<1> HIDE DEF n
<1>4. Selected(s, K) \in Seq(T)
  <2>1. \A i \in DOMAIN s : s[i] \in T
    OBVIOUS
  <2>2. \A k \in 1..n : s[Nth(K, k)] \in T
    BY <1>1, <2>1
  <2> QED
    BY <1>1, <1>2, <2>2
<1> QED
  BY <1>1, <1>2, <1>3, <1>4 DEF n

(* clear leaves none that waits.                                             *)
LEMMA ClearSound ==
  ASSUME NEW q, Sound(q), NEW r \in Clear(q)
  PROVE  Sound(r) /\ Known(r) \subseteq Known(q)
<1> DEFINE K == DOMAIN q.items \ Positions(q, "waiting")
<1> DEFINE T == [id : Items, state : ItemStates]
<1> DEFINE s == Selected(q.items, K)
<1>1. r = [q EXCEPT !.items = s]
  BY DEF Clear
<1>2. q \in QueueType /\ q.items \in Seq(T)
  BY DEF Sound, QueueType
<1> HIDE DEF s
<1>3. r.items = s /\ r.paused = q.paused /\ r = [paused |-> r.paused, items |-> r.items]
  BY <1>1, <1>2 DEF QueueType
<1>4. K \in SUBSET DOMAIN q.items /\ \A k \in K : q.items[k].state # "waiting"
  BY DEF Positions
<1> HIDE DEF K, T
<1>6. /\ s \in Seq(T) /\ DOMAIN s = 1..Cardinality(K)
      /\ \A i \in 1..Cardinality(K) : Nth(K, i) \in K /\ s[i] = q.items[Nth(K, i)]
      /\ \A i, j \in 1..Cardinality(K) : Nth(K, i) = Nth(K, j) => i = j
  BY <1>2, <1>4, SelectedFrom DEF s
<1>7. r \in QueueType
  BY <1>2, <1>3, <1>6 DEF QueueType, T
<1>8. Depth(r) <= MaxDepth
  <2>1. Positions(r, "waiting") = {}
    BY <1>3, <1>4, <1>6 DEF Positions
  <2> QED
    BY <1>2, <2>1, NoDeeper DEF Sound
<1>9. Unique(r)
  BY <1>3, <1>4, <1>6 DEF Unique, Sound
<1>10. Known(r) \subseteq Known(q)
  BY <1>3, <1>4, <1>6 DEF Known
<1> QED
  BY <1>7, <1>8, <1>9, <1>10 DEF Sound

LEMMA EmptySound == Sound(EmptyQueue) /\ Known(EmptyQueue) = {}
<1>1. EmptyQueue \in QueueType
  BY DEF EmptyQueue, QueueType
<1>2. Positions(EmptyQueue, "waiting") = {} /\ Unique(EmptyQueue) /\ Known(EmptyQueue) = {}
  BY DEF EmptyQueue, Positions, Unique, Known
<1>3. Depth(EmptyQueue) = 0
  BY <1>2, FS_EmptySet DEF Depth
<1> QED
  BY <1>1, <1>2, <1>3, QueueAssumption DEF Sound

(* Every operation keeps the bounds, and only enqueue adds an id.            *)
LEMMA EffectSound ==
  ASSUME NEW q, Sound(q), NEW o \in Operations, o.kind = "enqueue" => o.item \notin Known(q),
         NEW r \in Effect(o, q)
  PROVE  Sound(r) /\ Known(r) \subseteq Known(q) \cup (IF o.kind = "enqueue" THEN {o.item} ELSE {})
<1>1. CASE o.kind = "enqueue"
  BY <1>1, EnqueueSound, OpArguments DEF Effect
<1>2. CASE o.kind = "update"
  <2>1. PICK k \in DOMAIN q.items : r = [q EXCEPT !.items[k].state = o.state]
    BY <1>2 DEF Effect, Update
  <2> QED
    BY <1>2, <2>1, ChangeSound, OpArguments
<1>3. CASE o.kind = "skip"
  <2>1. PICK k \in DOMAIN q.items : r = [q EXCEPT !.items[k].state = "skipped"]
    BY <1>3 DEF Effect, SkipActive, First, Positions
  <2>2. "skipped" \in ItemStates \ {"waiting"}
    BY DEF ItemStates
  <2> QED
    BY <1>3, <2>1, <2>2, ChangeSound
<1>4. CASE o.kind \in {"pause", "resume"}
  <2>1. PICK b \in BOOLEAN : r = [q EXCEPT !.paused = b]
    BY <1>4 DEF Effect
  <2>2. r \in QueueType /\ r.items = q.items
    BY <2>1 DEF Sound, QueueType
  <2>3. Positions(r, "waiting") = Positions(q, "waiting") /\ Known(r) = Known(q) /\ Unique(r)
    BY <2>2 DEF Positions, Known, Unique, Sound
  <2> QED
    BY <1>4, <2>2, <2>3 DEF Sound, Depth
<1>5. CASE o.kind = "clear"
  BY <1>5, ClearSound DEF Effect
<1>6. CASE o.kind = "clearAll"
  <2>1. r = [q EXCEPT !.items = <<>>]
    BY <1>6 DEF Effect, ClearAll
  <2>2. r \in QueueType /\ r.items = <<>>
    <3>1. <<>> \in Seq([id : Items, state : ItemStates])
      OBVIOUS
    <3> QED
      BY <2>1, <3>1 DEF Sound, QueueType
  <2>3. Positions(r, "waiting") = {} /\ Known(r) = {} /\ Unique(r)
    BY <2>2 DEF Positions, Known, Unique
  <2> QED
    BY <1>6, <2>2, <2>3, NoDeeper DEF Sound
<1> QED
  BY <1>1, <1>2, <1>3, <1>4, <1>5, <1>6 DEF Effect
-----------------------------------------------------------------------------
(* The invariant of all calls: every queue that is written down or about to  *)
(* be is sound, and an id that waits to be enqueued is in none of them.      *)

Queues == {text[n] : n \in Inodes} \cup {new[p] : p \in Procs} \cup {EmptyQueue}

Types ==
  /\ json \in Inodes \cup {None} /\ tmp \in Inodes \cup {None}
  /\ DOMAIN text = Inodes /\ whole \in [Inodes -> BOOLEAN]
  /\ text = [n \in Inodes |-> text[n]]
  /\ lock \in Procs \cup {None} /\ ids \subseteq Items /\ calls \in Nat
  /\ pc \in [Procs -> Steps] /\ op \in [Procs -> Operations \cup {NoOp}]
  /\ DOMAIN new = Procs /\ new = [p \in Procs |-> new[p]]
  /\ file \in [Procs -> Inodes \cup {None}]
  /\ picked \in [Procs -> Items \cup {None}]
  /\ json # None => tmp # json

Running == \A p \in Procs : pc[p] # "idle" => op[p] \in Operations

AllSound == \A q \in Queues : Sound(q) /\ Known(q) \subseteq ids

Enqueues(p) == pc[p] \in {"lock", "read"} /\ op[p].kind = "enqueue"

Fresh ==
  /\ \A p \in Procs : Enqueues(p) => op[p].item \in ids /\ \A q \in Queues : op[p].item \notin Known(q)
  /\ \A p, r \in Procs : Enqueues(p) /\ Enqueues(r) /\ op[p].item = op[r].item => p = r

QueueInv == Types /\ Running /\ AllSound /\ Fresh

LEMMA QueueInit == Init => QueueInv
<1> SUFFICES ASSUME Init PROVE QueueInv
  OBVIOUS
<1>1. Queues \subseteq {EmptyQueue}
  BY DEF Init, Queues
<1>2. Types /\ Running /\ \A p \in Procs : ~Enqueues(p)
  BY TaskQueueAssumption DEF Init, Types, Running, Enqueues, Steps
<1> QED
  BY <1>1, <1>2, EmptySound DEF QueueInv, AllSound, Fresh

LEMMA CurrentKnown == Types => Current \in Queues
  BY DEF Types, Current, Queues

(* No new queue, no new call: nothing to show but the types.                 *)
LEMMA NothingNew ==
  ASSUME QueueInv, Types', Queues' \subseteq Queues, ids' = ids, op' = op,
         \A p \in Procs : pc'[p] # "idle" => pc[p] # "idle",
         \A p \in Procs : pc'[p] \in {"lock", "read"} => pc[p] \in {"lock", "read"}
  PROVE  QueueInv'
<1>1. Running' /\ AllSound'
  BY DEF QueueInv, Running, AllSound
<1>2. \A p \in Procs : Enqueues(p)' => Enqueues(p)
  BY DEF Enqueues
<1>3. Fresh'
  BY <1>2 DEF QueueInv, Fresh
<1> QED
  BY <1>1, <1>3 DEF QueueInv

LEMMA QueueInvStep == QueueInv /\ [Next]_vars => QueueInv'
<1> SUFFICES ASSUME QueueInv, [Next]_vars PROVE QueueInv'
  OBVIOUS
<1> USE TaskQueueAssumption
<1>1. ASSUME NEW p \in Procs, NEW o \in Callable, Call(p, o) PROVE QueueInv'
  <2>1. /\ o \in Operations /\ op' = [op EXCEPT ![p] = o] /\ Queues' = Queues
        /\ ids \subseteq ids' /\ \A r \in Procs : r # p => pc'[r] = pc[r] /\ op'[r] = op[r]
    BY <1>1 DEF Call, QueueInv, Types, Queues, files
  <2>2. op'[p] = o /\ (o.kind = "enqueue" => o.item \notin ids /\ o.item \in ids' /\ o.item \in Items)
    BY <1>1, <2>1, OpArguments DEF Call, QueueInv, Types
  <2>3. Types'
    <3>1. ids' \subseteq Items /\ calls' \in Nat
      BY <1>1, <2>2 DEF Call, QueueInv, Types
    <3>2. pc' \in [Procs -> Steps]
      BY <1>1 DEF Call, QueueInv, Types, Steps
    <3>3. op' \in [Procs -> Operations \cup {NoOp}]
      BY <2>1 DEF QueueInv, Types
    <3> QED
      BY <1>1, <3>1, <3>2, <3>3 DEF Call, QueueInv, Types, files
  <2>4. Running' /\ AllSound'
    BY <2>1, <2>2 DEF QueueInv, Running, AllSound
  <2>5. Fresh'
    <3>1. \A r \in Procs : r # p => (Enqueues(r)' <=> Enqueues(r))
      BY <2>1 DEF Enqueues
    <3>2. \A q \in Queues : Known(q) \subseteq ids
      BY DEF QueueInv, AllSound
    <3>3. \A r \in Procs : Enqueues(r) => op[r].item \in ids /\ \A q \in Queues : op[r].item \notin Known(q)
      BY DEF QueueInv, Fresh
    <3>4. Enqueues(p)' => o.kind = "enqueue"
      BY <2>2 DEF Enqueues
    <3>5. \A r \in Procs : Enqueues(r)' =>
            op'[r].item \in ids' /\ \A q \in Queues' : op'[r].item \notin Known(q)
      BY <2>1, <2>2, <3>1, <3>2, <3>3, <3>4
    <3>6. \A r, s \in Procs : Enqueues(r)' /\ Enqueues(s)' /\ op'[r].item = op'[s].item => r = s
      BY <2>1, <2>2, <3>1, <3>3, <3>4 DEF QueueInv, Fresh
    <3> QED
      BY <3>5, <3>6 DEF Fresh
  <2> QED
    BY <2>3, <2>4, <2>5 DEF QueueInv
<1>2. ASSUME NEW p \in Procs, Read(p) PROVE QueueInv'
  <2>1. PICK q \in Effect(op[p], Current) : new' = [new EXCEPT ![p] = q]
    BY <1>2 DEF Read
  <2>2. pc[p] = "read" /\ pc' = [pc EXCEPT ![p] = "open"] /\ UNCHANGED <<files, lock, ids, calls, op, file, picked>>
    BY <1>2 DEF Read
  <2>3. op[p] \in Operations
    BY <2>2 DEF QueueInv, Running
  <2>4. Current \in Queues
    BY CurrentKnown DEF QueueInv
  <2>5. /\ op[p].kind = "enqueue" => Enqueues(p) /\ op[p].item \in ids /\ op[p].item \notin Known(Current)
        /\ Sound(Current) /\ Known(Current) \subseteq ids
    BY <2>2, <2>4 DEF QueueInv, AllSound, Fresh, Enqueues
  <2>6. Sound(q) /\ Known(q) \subseteq Known(Current) \cup (IF op[p].kind = "enqueue" THEN {op[p].item} ELSE {})
    BY <2>3, <2>5, EffectSound
  <2>7. Queues' \subseteq Queues \cup {q}
    BY <2>1, <2>2 DEF Queues, QueueInv, Types, files
  <2>8. Types'
    BY <2>1, <2>2 DEF QueueInv, Types, files, Steps
  <2>9. AllSound' /\ Running'
    BY <2>2, <2>5, <2>6, <2>7 DEF QueueInv, AllSound, Running
  <2>10. Fresh'
    <3>1. \A r \in Procs : Enqueues(r)' => r # p /\ Enqueues(r) /\ op'[r] = op[r]
      BY <2>2 DEF Enqueues, QueueInv, Types
    <3>2. \A r \in Procs : Enqueues(r) /\ r # p => op[r].item \notin Known(q)
      BY <2>4, <2>5, <2>6 DEF QueueInv, Fresh
    <3>3. ids' = ids
      BY <2>2
    <3> QED
      BY <2>7, <3>1, <3>2, <3>3 DEF QueueInv, Fresh
  <2> QED
    BY <2>8, <2>9, <2>10 DEF QueueInv
<1>3. ASSUME NEW p \in Procs, Pick(p) PROVE QueueInv'
  <2>1. /\ pc' = [pc EXCEPT ![p] = "idle"]
        /\ UNCHANGED <<files, lock, ids, calls, op, new, file>>
    BY <1>3 DEF Pick
  <2>2. Sound(Current)
    BY CurrentKnown DEF QueueInv, AllSound
  <2>3. \A k \in DOMAIN Current.items : Current.items[k].id \in Items
    <3> DEFINE T == [id : Items, state : ItemStates]
    <3>1. Current.items \in Seq(T)
      BY <2>2 DEF Sound, QueueType
    <3>2. \A e \in T : e.id \in Items
      OBVIOUS
    <3> HIDE DEF T
    <3>3. \A k \in DOMAIN Current.items : Current.items[k] \in T
      BY <3>1
    <3> QED
      BY <3>2, <3>3
  <2>4. {Current.items[k].id : k \in NextWaiting(Current)} \subseteq Items
    BY <2>3 DEF NextWaiting, Positions
  <2>5. PICK i \in Items \cup {None} : picked' = [picked EXCEPT ![p] = i]
    BY <1>3, <2>4 DEF Pick
  <2>6. Types'
    BY <2>1, <2>5 DEF QueueInv, Types, files, Steps
  <2>7. Queues' = Queues
    BY <2>1 DEF Queues, files
  <2> QED
    BY <2>1, <2>6, <2>7, NothingNew DEF QueueInv, Types
<1>4. ASSUME NEW p \in Procs, Fill(p) PROVE QueueInv'
  <2>1. Types'
    <3>1. DOMAIN text' = Inodes /\ text' = [n \in Inodes |-> text'[n]]
      BY <1>4 DEF Fill, QueueInv, Types
    <3>2. whole' \in [Inodes -> BOOLEAN]
      <4>1. PICK clean \in BOOLEAN : whole' = [whole EXCEPT ![file[p]] = clean]
        BY <1>4 DEF Fill
      <4> QED
        BY <4>1 DEF QueueInv, Types
    <3>3. pc' \in [Procs -> Steps]
      BY <1>4 DEF Fill, QueueInv, Types, Steps
    <3> QED
      BY <1>4, <3>1, <3>2, <3>3 DEF Fill, QueueInv, Types
  <2>2. Queues' \subseteq Queues
    BY <1>4 DEF Fill, Queues, QueueInv, Types
  <2> QED
    BY <1>4, <2>1, <2>2, NothingNew DEF Fill, QueueInv, Types
<1>5. ASSUME NEW p \in Procs, Acquire(p) \/ LockTimeout(p) \/ Ask(p) PROVE QueueInv'
  <2>1. Types'
    BY <1>5 DEF Acquire, LockTimeout, Ask, QueueInv, Types, files, Steps
  <2>2. Queues' = Queues
    BY <1>5 DEF Acquire, LockTimeout, Ask, Queues, files
  <2> QED
    BY <1>5, <2>1, <2>2, NothingNew DEF Acquire, LockTimeout, Ask, QueueInv, Types
<1>6. ASSUME NEW p \in Procs, ReadReturns(p) \/ ReplaceFails(p) \/ Crash(p) PROVE QueueInv'
  <2>1. Types'
    BY <1>6 DEF ReadReturns, ReplaceFails, Crash, Finish, QueueInv, Types, files, Steps
  <2>2. Queues' = Queues
    BY <1>6 DEF ReadReturns, ReplaceFails, Crash, Queues, files
  <2> QED
    BY <1>6, <2>1, <2>2, NothingNew DEF ReadReturns, ReplaceFails, Crash, Finish, QueueInv, Types
<1>7. ASSUME NEW p \in Procs, Open(p) PROVE QueueInv'
  <2>1. Types'
    BY <1>7 DEF Open, QueueInv, Types, Steps
  <2>2. Queues' = Queues
    BY <1>7 DEF Open, Queues
  <2> QED
    BY <1>7, <2>1, <2>2, NothingNew DEF Open, QueueInv, Types
<1>8. ASSUME NEW p \in Procs, Replace(p) PROVE QueueInv'
  <2>1. Types'
    BY <1>8 DEF Replace, Finish, QueueInv, Types, Steps
  <2>2. Queues' = Queues
    BY <1>8 DEF Replace, Queues
  <2> QED
    BY <1>8, <2>1, <2>2, NothingNew DEF Replace, Finish, QueueInv, Types
<1>9. CASE UNCHANGED vars
  <2>1. Types' /\ Queues' = Queues
    BY <1>9 DEF vars, files, procs, QueueInv, Types, Queues
  <2> QED
    BY <1>9, <2>1, NothingNew DEF vars, procs
<1> QED
  BY <1>1, <1>2, <1>3, <1>4, <1>5, <1>6, <1>7, <1>8, <1>9 DEF Next, Step

(* Every variable keeps its type, and queue.tmp is never queue.json: only a  *)
(* rename gives that name away, even while clear writes beside the lock.     *)
THEOREM QueueTyped == Spec => []TypeOK
<1>1. QueueInv => TypeOK
  BY DEF QueueInv, Types, TypeOK
<1> QED
  BY QueueInit, QueueInvStep, <1>1, PTL DEF Spec

(* Whatever overlaps and whoever dies, what can be read of the queue has at  *)
(* most QUEUE_MAX_DEPTH waiting tasks and no task twice.                     *)
THEOREM QueueAlwaysBounded == Spec => []QueueBounded
<1>1. QueueInv => QueueBounded
  <2> SUFFICES ASSUME QueueInv PROVE QueueBounded
    OBVIOUS
  <2>1. Sound(Current)
    BY CurrentKnown DEF QueueInv, AllSound
  <2> DEFINE n == Len(Current.items)
  <2> DEFINE f == [k \in 1..n |-> Current.items[k].id]
  <2>2. n \in Nat /\ DOMAIN Current.items = 1..n
    BY <2>1 DEF Sound, QueueType
  <2>3. f \in Bijection(1..n, Known(Current))
    <3>1. \A j, k \in 1..n : f[j] = f[k] => j = k
      BY <2>1, <2>2 DEF Sound, Unique
    <3>2. Known(Current) = {f[k] : k \in 1..n}
      BY <2>2 DEF Known
    <3> HIDE DEF f, n
    <3>3. f = [k \in 1..n |-> f[k]]
      BY DEF f
    <3>4. f \in [1..n -> Known(Current)]
      BY <3>2, <3>3
    <3>5. f \in Injection(1..n, Known(Current))
      BY <3>1, <3>4 DEF Injection, IsInjective
    <3>6. \A i \in Known(Current) : \E k \in 1..n : f[k] = i
      BY <3>2
    <3>7. f \in Surjection(1..n, Known(Current))
      BY <3>4, <3>6 DEF Surjection
    <3> QED
      BY <3>5, <3>7 DEF Bijection
  <2> HIDE DEF f
  <2>4. Cardinality(Known(Current)) = n
    BY <2>2, <2>3, FS_CountingElements DEF ExistsBijection
  <2> QED
    BY <2>1, <2>4 DEF QueueBounded, Sound
<1> QED
  BY QueueInit, QueueInvStep, <1>1, PTL DEF Spec
=============================================================================
