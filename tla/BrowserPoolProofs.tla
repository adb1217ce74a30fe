-------------------------- MODULE BrowserPoolProofs --------------------------
(***************************************************************************)
(* Proofs about BrowserPool: its types, whatever happens to browsers and   *)
(* recordings, and the limits as long as only pages are asked for and      *)
(* nothing is cleaned up or shut down.                                     *)
(***************************************************************************)
EXTENDS BrowserPool, FiniteSetTheorems, TLAPS

Entries == [name : Names, browser : Nat, count : 0 .. MaxPages, healthy : BOOLEAN]

Distinct(d) == \A j, k \in DOMAIN d : d[j].name = d[k].name => j = k
Born(d, n) == \A k \in DOMAIN d : d[k].browser \in 1 .. n

-----------------------------------------------------------------------------
(* What Nth and Selected return.                                            *)

(* The places of a set of positions are counted from 1 on, so each has one.  *)
LEMMA NthIn ==
  ASSUME NEW n \in Nat, NEW K \in SUBSET (1..n)
  PROVE  /\ Cardinality(K) \in Nat
         /\ \A k \in 1..Cardinality(K) :
              Nth(K, k) \in K /\ Cardinality({j \in K : j <= Nth(K, k)}) = k
<1> DEFINE m == Cardinality(K)
           upto(i) == {j \in K : j <= i}
           rank == [i \in K |-> Cardinality(upto(i))]
<1>1. IsFiniteSet(K) /\ m \in Nat /\ IsFiniteSet(1..m) /\ Cardinality(1..m) = m
  <2>1. IsFiniteSet(1..n)
    BY FS_Interval
  <2>2. IsFiniteSet(K) /\ m \in Nat
    BY <2>1, FS_Subset, FS_CardinalityType
  <2> QED
    BY <2>2, FS_Interval
<1>2. \A i \in K : /\ i \in upto(i) /\ upto(i) \in SUBSET K
                   /\ \A l \in K : i < l => upto(i) \in SUBSET upto(l) /\ l \notin upto(i)
  <2>1. \A i, l, j \in K : i <= i /\ (i < l => (j <= i => j <= l) /\ ~(l <= i))
    OBVIOUS
  <2> QED
    BY <2>1
<1> HIDE DEF upto, m
<1>3. \A i \in K : Cardinality(upto(i)) \in 1..m /\ IsFiniteSet(upto(i))
  BY <1>1, <1>2, FS_Subset, FS_CardinalityType, FS_EmptySet DEF m
<1>4. \A i, l \in K : i < l => rank[i] # rank[l]
  BY <1>2, <1>3, FS_Subset
<1>5. rank \in Injection(K, 1..m)
  <2>1. rank \in [K -> 1..m]
    BY <1>3
  <2> HIDE DEF rank
  <2> QED
    BY <1>4, <2>1 DEF Injection, IsInjective
<1>6. rank \in Surjection(K, 1..m)
  <2> HIDE DEF rank
  <2> QED
    BY <1>1, <1>5, FS_Injection DEF m
<1>7. \A k \in 1..m : \E i \in K : Cardinality(upto(i)) = k
  BY <1>6 DEF Surjection
<1> QED
  BY <1>1, <1>7 DEF Nth, upto, m

(* A selection's elements are the selected ones, each once.                  *)
LEMMA SelectedFrom ==
  ASSUME NEW T, NEW s \in Seq(T), NEW K \in SUBSET DOMAIN s
  PROVE  /\ Selected(s, K) \in Seq(T)
         /\ DOMAIN Selected(s, K) = 1..Cardinality(K) /\ Cardinality(K) \in Nat
         /\ \A i \in 1..Cardinality(K) : Nth(K, i) \in K /\ Selected(s, K)[i] = s[Nth(K, i)]
         /\ \A i, j \in 1..Cardinality(K) : Nth(K, i) = Nth(K, j) => i = j
<1> DEFINE n == Cardinality(K)
<1>1. n \in Nat /\ \A k \in 1..n : Nth(K, k) \in K /\ Cardinality({j \in K : j <= Nth(K, k)}) = k
  <2>1. Len(s) \in Nat /\ DOMAIN s = 1..Len(s)
    OBVIOUS
  <2> QED
    BY <2>1, NthIn
<1>2. Selected(s, K) = [k \in 1..n |-> s[Nth(K, k)]]
  BY DEF Selected
<1>3. \A i, j \in 1..n : Nth(K, i) = Nth(K, j) => i = j
  BY <1>1
<1> HIDE DEF n
<1>4. Selected(s, K) \in Seq(T)
  <2>1. \A i \in DOMAIN s : s[i] \in T
    OBVIOUS
  <2>2. \A k \in 1..n : s[Nth(K, k)] \in T
    BY <1>1, <2>1
  <2> QED
    BY <1>1, <1>2, <2>2
<1> QED
  BY <1>1, <1>2, <1>3, <1>4 DEF n

-----------------------------------------------------------------------------
(* The registry.                                                             *)

(* Putting keeps names apart.                                                *)
LEMMA PutKeeps ==
  ASSUME NEW T \in SUBSET Entries, NEW d \in Seq(T), NEW e \in T, Distinct(d)
  PROVE  /\ Put(d, e) \in Seq(T) /\ Distinct(Put(d, e))
         /\ \A k \in DOMAIN Put(d, e) : Put(d, e)[k] = e \/ (k \in DOMAIN d /\ Put(d, e)[k] = d[k])
<1>1. CASE \E k \in DOMAIN d : d[k].name = e.name
  <2> DEFINE c == [k \in DOMAIN d |-> IF d[k].name = e.name THEN e ELSE d[k]]
  <2>1. Put(d, e) = c
    BY <1>1 DEF Put
  <2>2. c \in Seq(T)
    BY SMT
  <2>3. \A k \in DOMAIN c : k \in DOMAIN d /\ c[k].name = d[k].name /\ (c[k] = e \/ c[k] = d[k])
    OBVIOUS
  <2>4. Distinct(c)
    BY <2>3 DEF Distinct
  <2> QED
    BY <2>1, <2>2, <2>3, <2>4
<1>2. CASE ~ \E k \in DOMAIN d : d[k].name = e.name
  <2>1. Put(d, e) = Append(d, e)
    BY <1>2, Zenon DEF Put
  <2>2. /\ Append(d, e) \in Seq(T) /\ DOMAIN Append(d, e) = 1 .. Len(d) + 1
        /\ DOMAIN d = 1 .. Len(d) /\ Append(d, e)[Len(d) + 1] = e
        /\ \A k \in DOMAIN d : Append(d, e)[k] = d[k]
    OBVIOUS
  <2>3. Distinct(Append(d, e))
    BY <1>2, <2>2 DEF Distinct
  <2> QED
    BY <2>1, <2>2, <2>3
<1> QED
  BY <1>1, <1>2

(* Taking out leaves entries as they were.                                   *)
LEMMA WithoutKeeps ==
  ASSUME NEW T \in SUBSET Entries, NEW d \in Seq(T), NEW gone, Distinct(d)
  PROVE  /\ Without(d, gone) \in Seq(T) /\ Distinct(Without(d, gone))
         /\ \A k \in DOMAIN Without(d, gone) : \E j \in DOMAIN d : Without(d, gone)[k] = d[j]
<1> DEFINE K == {k \in DOMAIN d : d[k].name \notin gone}
           r == Selected(d, K)
<1>1. Without(d, gone) = r
  BY DEF Without
<1>2. K \in SUBSET DOMAIN d
  OBVIOUS
<1> HIDE DEF K, r
<1>3. /\ r \in Seq(T) /\ DOMAIN r = 1..Cardinality(K)
      /\ \A i \in 1..Cardinality(K) : Nth(K, i) \in K /\ r[i] = d[Nth(K, i)]
      /\ \A i, j \in 1..Cardinality(K) : Nth(K, i) = Nth(K, j) => i = j
  BY <1>2, SelectedFrom DEF r
<1>4. Distinct(r)
  BY <1>2, <1>3 DEF Distinct
<1> QED
  BY <1>1, <1>2, <1>3, <1>4

-----------------------------------------------------------------------------
(* Types.                                                                    *)

Filed == pool \in Seq(Entries) /\ Distinct(pool) /\ Born(pool, born)

Typed ==
  /\ lock \in Tasks \cup {None} /\ up \in BOOLEAN /\ born \in Nat
  /\ usable \subseteq running /\ running \subseteq 1 .. born
  /\ pc \in [Tasks -> Steps] /\ at \in [Tasks -> (1 .. born) \cup {None}]
  /\ name \in [Tasks -> Names] /\ second \in Nat /\ uses \in Nat

Types == Filed /\ Typed

LEMMA TypesInit == Init => Types
  BY PoolAssumption DEF Init, Types, Filed, Typed, Distinct, Born, Steps, Names

LEMMA Corrected ==
  ASSUME NEW e \in Entries
  PROVE  /\ \A n \in 0 .. MaxPages : [e EXCEPT !.count = n] \in Entries
         /\ \A b \in BOOLEAN : [e EXCEPT !.healthy = b] \in Entries
BY DEF Entries

(* A count changed within its bounds.                                        *)
LEMMA Recounted ==
  ASSUME Filed, NEW k \in DOMAIN pool, NEW n \in 0 .. MaxPages, pool' = [pool EXCEPT ![k].count = n],
         born' = born
  PROVE  Filed'
<1>0. pool[k] \in Entries
  BY DEF Filed
<1>1. pool' \in Seq(Entries) /\ DOMAIN pool' = DOMAIN pool
  BY <1>0, Corrected DEF Filed
<1>2. \A j \in DOMAIN pool : pool'[j].name = pool[j].name /\ pool'[j].browser = pool[j].browser
  BY DEF Filed, Entries
<1> QED
  BY <1>1, <1>2 DEF Filed, Distinct, Born

(* A browser launched and filed.                                             *)
LEMMA PutIn ==
  ASSUME Types, NEW n \in Names, born' = born + 1, pool' = Put(pool, Entry(n, born'))
  PROVE  Filed'
<1>1. Entry(n, born') \in Entries /\ Entry(n, born').browser = born + 1
  BY PoolAssumption DEF Entry, Entries, Types, Typed
<1>2. /\ pool' \in Seq(Entries) /\ Distinct(pool)'
      /\ \A k \in DOMAIN pool' : pool'[k] = Entry(n, born') \/ (k \in DOMAIN pool /\ pool'[k] = pool[k])
  BY <1>1, PutKeeps DEF Types, Filed, Distinct
<1> QED
  BY <1>1, <1>2 DEF Types, Typed, Filed, Born

(* Entries taken out.                                                        *)
LEMMA TakenOut ==
  ASSUME Types, NEW gone, pool' = Without(pool, gone), born' = born
  PROVE  Filed'
<1>1. /\ pool' \in Seq(Entries) /\ Distinct(pool)'
      /\ \A k \in DOMAIN pool' : \E j \in DOMAIN pool : pool'[k] = pool[j]
  BY WithoutKeeps DEF Types, Filed, Distinct
<1> QED
  BY <1>1 DEF Types, Filed, Born

LEMMA ReuseTypes ==
  ASSUME Types, NEW t \in Tasks, Reuse(t), UNCHANGED <<browsers, name, second, uses>>,
         lock' \in Tasks \cup {None}
  PROVE  Types'
<1>1. PICK k \in First(Room) :
        /\ pool' = [pool EXCEPT ![k].count = @ + 1] /\ at' = [at EXCEPT ![t] = pool[k].browser]
        /\ Go(t, "open")
  BY DEF Reuse
<1>2. k \in DOMAIN pool /\ pool[k].count < MaxPages /\ pool[k] \in Entries
  BY DEF First, Room, Types, Filed
<1>3. pool[k].count + 1 \in 0 .. MaxPages /\ pool' = [pool EXCEPT ![k].count = pool[k].count + 1]
  BY <1>1, <1>2, PoolAssumption DEF Entries
<1>4. Filed'
  BY <1>2, <1>3, Recounted DEF Types, browsers
<1>5. pool[k].browser \in 1 .. born
  BY <1>2 DEF Types, Filed, Born
<1> QED
  BY <1>1, <1>4, <1>5 DEF Types, Typed, Go, Steps, browsers

LEMMA TypesStep == Types /\ [Next]_vars => Types'
<1> SUFFICES ASSUME Types, [Next]_vars PROVE Types'
  OBVIOUS
<1> USE PoolAssumption
<1>1. ASSUME NEW t \in Tasks, AskPage(t) \/ AskRecording(t) \/ DonePage(t) PROVE Types'
  <2>1. UNCHANGED <<pool, lock, browsers, at, name, second>> /\ uses' \in Nat
    BY <1>1 DEF AskPage, AskRecording, DonePage, Types, Typed
  <2>2. pc' \in [Tasks -> Steps]
    BY <1>1 DEF AskPage, AskRecording, DonePage, Go, Steps, Types, Typed
  <2> QED
    BY <2>1, <2>2 DEF Types, Typed, Filed, browsers
<1>16. ASSUME NEW t \in Tasks, OpenPage(t) \/ ClosePage(t) \/ GetRecording(t) PROVE Types'
  BY <1>16 DEF Types, Typed, Filed, OpenPage, ClosePage, GetRecording, Leave, Go, Steps, browsers
<1>2. ASSUME NEW t \in Tasks, GetPage(t) PROVE Types'
  <2>1. CASE Room # {}
    BY <1>2, <2>1, ReuseTypes DEF GetPage
  <2>2. CASE Room = {}
    BY <1>2, <2>2 DEF GetPage, Types, Typed, Filed, Go, Steps, browsers
  <2> QED
    BY <2>1, <2>2
<1>3. ASSUME NEW t \in Tasks, WaitForBrowser(t) PROVE Types'
  BY <1>3, ReuseTypes DEF WaitForBrowser, Types, Typed
<1>4. ASSUME NEW t \in Tasks, CreateBrowser(t) PROVE Types'
  <2>1. <<"page", Len(pool)>> \in Names
    BY DEF Names, Types, Filed
  <2>2. Filed'
    BY <1>4, <2>1, PutIn DEF CreateBrowser
  <2> QED
    BY <1>4, <2>2 DEF CreateBrowser, Types, Typed, Go, Steps
<1>5. ASSUME NEW t \in Tasks, CreateFails(t) PROVE Types'
  <2>1. born' \in Nat /\ running \subseteq running' /\ running' \subseteq 1 .. born'
        /\ 1 .. born \subseteq 1 .. born'
    <3>1. CASE UNCHANGED <<born, running>>
      BY <3>1 DEF Types, Typed
    <3>2. CASE born' = born + 1 /\ running' = running \cup {born'}
      BY <3>2 DEF Types, Typed
    <3> QED
      BY <1>5, <3>1, <3>2 DEF CreateFails
  <2>2. Filed'
    BY <1>5, <2>1 DEF CreateFails, Types, Filed, Distinct, Born
  <2> QED
    BY <1>5, <2>1, <2>2 DEF CreateFails, Types, Typed, Leave, Go, Steps
<1>6. ASSUME NEW t \in Tasks, ReleasePage(t) PROVE Types'
  <2>1. Filed'
    <3>1. CASE Counted = {}
      BY <1>6, <3>1 DEF ReleasePage, Types, Filed, browsers
    <3>2. CASE Counted # {}
      <4>1. PICK k \in First(Counted) : pool' = [pool EXCEPT ![k].count = @ - 1]
        BY <1>6, <3>2 DEF ReleasePage
      <4>2. k \in DOMAIN pool /\ pool[k].count > 0 /\ pool[k] \in Entries
        BY DEF First, Counted, Types, Filed
      <4>3. pool[k].count - 1 \in 0 .. MaxPages /\ pool' = [pool EXCEPT ![k].count = pool[k].count - 1]
        BY <4>1, <4>2 DEF Entries
      <4> QED
        BY <1>6, <4>2, <4>3, Recounted DEF ReleasePage, Types, browsers
    <3> QED
      BY <3>1, <3>2
  <2> QED
    BY <1>6, <2>1 DEF ReleasePage, Types, Typed, Go, Steps, browsers
<1>7. ASSUME NEW t \in Tasks, StartRecording(t) PROVE Types'
  <2>1. <<"recording", second>> \in Names
    BY DEF Names, Types, Typed
  <2>2. Filed'
    BY <1>7, <2>1, PutIn DEF StartRecording
  <2> QED
    BY <1>7, <2>1, <2>2 DEF StartRecording, Types, Typed, Go, Steps
<1>8. ASSUME NEW t \in Tasks, EndRecording(t) PROVE Types'
  BY <1>8 DEF EndRecording, Types, Typed, Filed, Go, Steps
<1>9. ASSUME NEW t \in Tasks, PopRecording(t) PROVE Types'
  <2>1. Filed'
    BY <1>9, TakenOut DEF PopRecording
  <2> QED
    BY <1>9, <2>1 DEF PopRecording, Types, Typed, Go, Steps
<1>10. ASSUME NEW k \in DOMAIN pool, HealthCheck(k) PROVE Types'
  <2>1. PICK opens \in BOOLEAN : pool' = [pool EXCEPT ![k].healthy = opens]
    <3>1. (pool[k].browser \in usable) \in BOOLEAN
      OBVIOUS
    <3> QED
      BY <1>10, <3>1, Zenon DEF HealthCheck
  <2>2. pool[k] \in Entries
    BY DEF Types, Filed
  <2>4. pool' \in Seq(Entries) /\ DOMAIN pool' = DOMAIN pool
    BY <2>1, <2>2, Corrected DEF Types, Filed
  <2>3. \A j \in DOMAIN pool : pool'[j].name = pool[j].name /\ pool'[j].browser = pool[j].browser
    BY <2>1 DEF Types, Filed, Entries
  <2> QED
    BY <1>10, <2>4, <2>3 DEF HealthCheck, Types, Typed, Filed, Distinct, Born, browsers
<1>11. ASSUME NEW idle \in SUBSET DOMAIN pool, CleanupIdle(idle) PROVE Types'
  <2>1. Filed'
    BY <1>11, TakenOut DEF CleanupIdle
  <2> QED
    BY <1>11, <2>1 DEF CleanupIdle, Types, Typed
<1>12. CASE Shutdown
  <2>1. pool' = <<>> /\ <<>> \in Seq(Entries) /\ DOMAIN pool' = {}
    BY <1>12 DEF Shutdown
  <2>2. Filed'
    BY <2>1 DEF Filed, Distinct, Born
  <2> QED
    BY <1>12, <2>2 DEF Shutdown, Types, Typed
<1>13. ASSUME NEW b \in running, BrowserDies(b) PROVE Types'
  BY <1>13 DEF BrowserDies, Types, Typed, Filed
<1>14. CASE Tick
  BY <1>14 DEF Tick, Types, Typed, Filed, browsers
<1>15. CASE UNCHANGED vars
  BY <1>15 DEF vars, Types, Typed, Filed, browsers
<1> QED
  BY <1>1, <1>2, <1>3, <1>4, <1>5, <1>6, <1>7, <1>8, <1>9, <1>10, <1>11, <1>12, <1>13, <1>14, <1>15, <1>16
  DEF Next, Step

(* The pool's registry names every browser once and counts no more pages on  *)
(* one than it may have, whatever dies, is cleaned up or shut down, although *)
(* recordings come and go without the lock.                                  *)
THEOREM PoolTyped == Spec => []TypeOK
<1>1. Types => TypeOK
  <2> SUFFICES ASSUME Types PROVE TypeOK
    OBVIOUS
  <2>1. \A k \in DOMAIN pool : pool[k] \in Entries /\ pool[k].browser \in 1 .. born
    BY DEF Types, Filed, Born
  <2>2. \A k \in DOMAIN pool :
          pool[k] \in [name : Names, browser : 1 .. born, count : 0 .. MaxPages, healthy : BOOLEAN]
    BY <2>1 DEF Entries
  <2> QED
    BY <2>2 DEF Types, Typed, Filed, Distinct, TypeOK
<1> QED
  BY TypesInit, TypesStep, <1>1, PTL DEF Spec
-----------------------------------------------------------------------------
(* The limits.                                                               *)

PagesOnly == Hazards \subseteq {"launch", "die", "health"}

(* Whoever is being given a page, or gives one back, has the lock, so a free *)
(* place in the registry is still free when the browser for it is launched.  *)
LockedSteps ==
  \A t \in Tasks :
    /\ pc[t] \notin {"record_lock", "record_launch", "recording", "record_pop"}
    /\ pc[t] \in {"launch", "spin", "open", "close"} => lock = t
    /\ pc[t] = "launch" => Len(pool) < MaxBrowsers

(* Nothing leaves the registry, so the names follow the places and a new one *)
(* takes no other's; every open context is filed there.                      *)
Places ==
  /\ \A k \in DOMAIN pool : pool[k].name = <<"page", k - 1>>
  /\ Len(pool) <= MaxBrowsers
  /\ usable \subseteq {pool[k].browser : k \in DOMAIN pool}

Counts == IsFiniteSet(Users) /\ Cardinality(Users) <= Cardinality(Slots)

Limits == LockedSteps /\ Places /\ Counts

LEMMA SlotsFinite == ASSUME Types PROVE IsFiniteSet(Slots) /\ Cardinality(Slots) \in Nat
<1>1. IsFiniteSet(DOMAIN pool) /\ IsFiniteSet(1 .. MaxPages)
  BY FS_Interval, PoolAssumption DEF Types, Filed
<1>2. IsFiniteSet((DOMAIN pool) \X (1 .. MaxPages))
  BY <1>1, FS_Product
<1>3. Slots \in SUBSET ((DOMAIN pool) \X (1 .. MaxPages))
  BY DEF Slots
<1> QED
  BY <1>2, <1>3, FS_Subset, FS_CardinalityType

(* One page more on a browser is one slot more.                              *)
LEMMA SlotMore ==
  ASSUME Types, NEW k \in DOMAIN pool, pool[k].count < MaxPages,
         pool' = [pool EXCEPT ![k].count = @ + 1]
  PROVE  Cardinality(Slots') = Cardinality(Slots) + 1
<1> DEFINE c == pool[k].count + 1
<1>0. pool[k] \in Entries
  BY DEF Types, Filed
<1>1. c \in 1 .. MaxPages /\ pool[k].count \in Nat
  BY <1>0, PoolAssumption DEF Entries
<1>2. DOMAIN pool' = DOMAIN pool /\ pool'[k].count = c
  BY <1>0 DEF Entries
<1>3. \A j \in DOMAIN pool : j # k => pool'[j].count = pool[j].count
  OBVIOUS
<1>4. Slots' = Slots \cup {<<k, c>>}
  <2>1. ASSUME NEW s \in (DOMAIN pool) \X (1 .. MaxPages)
        PROVE  s \in Slots' <=> s \in Slots \/ s = <<k, c>>
    <3>1. s = <<s[1], s[2]>> /\ s[1] \in DOMAIN pool /\ s[2] \in 1 .. MaxPages
      OBVIOUS
    <3>2. s[2] <= pool'[s[1]].count <=> s[2] <= pool[s[1]].count \/ (s[1] = k /\ s[2] = c)
      BY <1>1, <1>2, <1>3, <3>1
    <3>3. s = <<k, c>> <=> s[1] = k /\ s[2] = c
      BY <3>1
    <3> QED
      BY <1>2, <3>2, <3>3 DEF Slots
  <2>2. <<k, c>> \in (DOMAIN pool) \X (1 .. MaxPages)
    BY <1>1
  <2>3. Slots \subseteq (DOMAIN pool) \X (1 .. MaxPages) /\ Slots' \subseteq (DOMAIN pool) \X (1 .. MaxPages)
    BY <1>2 DEF Slots
  <2> QED
    BY <2>1, <2>2, <2>3
<1>5. <<k, c>> \notin Slots
  BY <1>1 DEF Slots
<1> QED
  BY <1>4, <1>5, SlotsFinite, FS_AddElement

(* One page fewer is one slot fewer.                                         *)
LEMMA SlotLess ==
  ASSUME Types, NEW k \in DOMAIN pool, pool[k].count > 0,
         pool' = [pool EXCEPT ![k].count = @ - 1]
  PROVE  Cardinality(Slots') = Cardinality(Slots) - 1
<1> DEFINE c == pool[k].count
<1>0. pool[k] \in Entries
  BY DEF Types, Filed
<1>1. c \in 1 .. MaxPages
  BY <1>0, PoolAssumption DEF Entries
<1>2. DOMAIN pool' = DOMAIN pool /\ pool'[k].count = c - 1
  BY <1>0 DEF Entries
<1>3. \A j \in DOMAIN pool : j # k => pool'[j].count = pool[j].count
  OBVIOUS
<1>4. Slots' = Slots \ {<<k, c>>}
  <2>1. ASSUME NEW s \in (DOMAIN pool) \X (1 .. MaxPages)
        PROVE  s \in Slots' <=> s \in Slots /\ s # <<k, c>>
    <3>1. s = <<s[1], s[2]>> /\ s[1] \in DOMAIN pool /\ s[2] \in 1 .. MaxPages
      OBVIOUS
    <3>2. s[2] <= pool'[s[1]].count <=> s[2] <= pool[s[1]].count /\ ~(s[1] = k /\ s[2] = c)
      BY <1>1, <1>2, <1>3, <3>1
    <3>3. s = <<k, c>> <=> s[1] = k /\ s[2] = c
      BY <3>1
    <3> QED
      BY <1>2, <3>2, <3>3 DEF Slots
  <2>3. Slots \subseteq (DOMAIN pool) \X (1 .. MaxPages) /\ Slots' \subseteq (DOMAIN pool) \X (1 .. MaxPages)
    BY <1>2 DEF Slots
  <2> QED
    BY <2>1, <2>3
<1>5. <<k, c>> \in Slots
  BY <1>1 DEF Slots
<1> QED
  BY <1>4, <1>5, SlotsFinite, FS_RemoveElement

(* A new browser has one slot, for the page it was launched for.             *)
LEMMA SlotFirst ==
  ASSUME Types, NEW e, e.count = 1, pool' = Append(pool, e)
  PROVE  Cardinality(Slots') = Cardinality(Slots) + 1
<1> DEFINE n == Len(pool) + 1
<1>1. /\ DOMAIN pool = 1 .. Len(pool) /\ Len(pool) \in Nat
      /\ DOMAIN pool' = (DOMAIN pool) \cup {n} /\ n \notin DOMAIN pool
      /\ pool'[n] = e /\ \A j \in DOMAIN pool : pool'[j] = pool[j]
  BY DEF Types, Filed
<1>2. Slots' = Slots \cup {<<n, 1>>} /\ <<n, 1>> \notin Slots
  BY <1>1, PoolAssumption DEF Slots
<1> QED
  BY <1>2, SlotsFinite, FS_AddElement

(* A task more, or fewer, with a page.                                       *)
LEMMA UserMore ==
  ASSUME Counts, NEW t \in Tasks, Users' \subseteq Users \cup {t},
         Cardinality(Slots') = Cardinality(Slots) + 1, Cardinality(Slots) \in Nat
  PROVE  Counts'
<1>1. IsFiniteSet(Users \cup {t}) /\ Cardinality(Users \cup {t}) <= Cardinality(Users) + 1
      /\ Cardinality(Users) \in Nat
  <2>1. IsFiniteSet(Users)
    BY DEF Counts
  <2>2. Cardinality(Users) \in Nat
    BY <2>1, FS_CardinalityType
  <2>3. /\ IsFiniteSet(Users \cup {t})
        /\ Cardinality(Users \cup {t}) = IF t \in Users THEN Cardinality(Users) ELSE Cardinality(Users) + 1
    BY <2>1, FS_AddElement, Zenon
  <2> QED
    BY <2>2, <2>3
<1>2. IsFiniteSet(Users') /\ Cardinality(Users') <= Cardinality(Users \cup {t})
  BY <1>1, FS_Subset
<1>3. Cardinality(Users') \in Nat /\ Cardinality(Users \cup {t}) \in Nat
  BY <1>1, <1>2, FS_CardinalityType
<1> QED
  BY <1>1, <1>2, <1>3 DEF Counts

LEMMA UserLess ==
  ASSUME Counts, Cardinality(Slots) \in Nat, Users' \subseteq Users,
         \/ Slots' = Slots
         \/ \E t \in Users : t \notin Users' /\ Cardinality(Slots') = Cardinality(Slots) - 1
  PROVE  Counts'
<1>1. IsFiniteSet(Users') /\ Cardinality(Users') <= Cardinality(Users)
      /\ Cardinality(Users) \in Nat /\ Cardinality(Users') \in Nat
  BY FS_Subset, FS_CardinalityType DEF Counts
<1>2. CASE Slots' = Slots
  BY <1>1, <1>2 DEF Counts
<1>3. ASSUME NEW t \in Users, t \notin Users', Cardinality(Slots') = Cardinality(Slots) - 1 PROVE Counts'
  <2>1. Cardinality(Users) # Cardinality(Users')
    BY <1>3, FS_Subset DEF Counts
  <2> QED
    BY <1>1, <1>3, <2>1 DEF Counts
<1> QED
  BY <1>2, <1>3

LEMMA LimitsInit == Init => Limits
<1> SUFFICES ASSUME Init PROVE Limits
  OBVIOUS
<1>1. Users = {} /\ Slots = {}
  BY DEF Init, Users, Slots
<1>2. LockedSteps /\ Places
  BY PoolAssumption DEF Init, LockedSteps, Places
<1> QED
  BY <1>1, <1>2, FS_EmptySet DEF Limits, Counts
LEMMA ReuseLimits ==
  ASSUME Types, Limits, NEW t \in Tasks, Reuse(t), UNCHANGED usable, lock' = t,
         \A u \in Tasks : u # t => lock # u
  PROVE  Limits'
<1>1. PICK k \in First(Room) : pool' = [pool EXCEPT ![k].count = @ + 1] /\ Go(t, "open")
  BY DEF Reuse
<1>2. k \in DOMAIN pool /\ pool[k].count < MaxPages /\ pool[k] \in Entries
  BY DEF First, Room, Types, Filed
<1>3. DOMAIN pool' = DOMAIN pool /\ Len(pool') = Len(pool)
      /\ \A j \in DOMAIN pool : pool'[j].name = pool[j].name /\ pool'[j].browser = pool[j].browser
  BY <1>1, <1>2 DEF Types, Filed, Entries
<1>4. LockedSteps'
  BY <1>1, <1>3 DEF Limits, LockedSteps, Go, Types, Typed
<1>5. Places'
  BY <1>3 DEF Limits, Places
<1>6. Users' \subseteq Users \cup {t}
  BY <1>1 DEF Users, Go, Types, Typed
<1>7. Counts'
  BY <1>1, <1>2, <1>6, SlotMore, SlotsFinite, UserMore DEF Limits
<1> QED
  BY <1>4, <1>5, <1>7 DEF Limits

LEMMA LimitsStep == PagesOnly /\ Types /\ Limits /\ [Next]_vars => Limits'
<1> SUFFICES ASSUME PagesOnly, Types, Limits, [Next]_vars PROVE Limits'
  OBVIOUS
<1> USE PoolAssumption
<1>0. Cardinality(Slots) \in Nat
  BY SlotsFinite
<1>1. ASSUME NEW t \in Tasks, AskPage(t) \/ DonePage(t) \/ OpenPage(t) \/ ClosePage(t) \/ CreateFails(t)
      PROVE  Limits'
  <2>1. pool' = pool /\ usable' = usable
    BY <1>1 DEF AskPage, DonePage, OpenPage, ClosePage, CreateFails, browsers
  <2>2. LockedSteps'
    BY <1>1, <2>1 DEF AskPage, DonePage, OpenPage, ClosePage, CreateFails, Limits, LockedSteps, Leave, Go, Types, Typed
  <2>3. Users' \subseteq Users /\ Slots' = Slots
    BY <1>1, <2>1 DEF AskPage, DonePage, OpenPage, ClosePage, CreateFails, Users, Slots, Leave, Go, Types, Typed
  <2> QED
    BY <1>0, <2>1, <2>2, <2>3, UserLess DEF Limits, Places
<1>2. ASSUME NEW t \in Tasks, GetPage(t) PROVE Limits'
  <2>1. CASE Room # {}
    BY <1>2, <2>1, ReuseLimits DEF GetPage, browsers
  <2>2. CASE Room = {}
    <3>1. pool' = pool /\ usable' = usable
      BY <1>2, <2>2 DEF GetPage, browsers
    <3>2. LockedSteps'
      BY <1>2, <2>2, <3>1 DEF GetPage, Limits, LockedSteps, Go, Types, Typed, Filed
    <3>3. Users' \subseteq Users /\ Slots' = Slots
      BY <1>2, <2>2, <3>1 DEF GetPage, Users, Slots, Go, Types, Typed
    <3> QED
      BY <1>0, <3>1, <3>2, <3>3, UserLess DEF Limits, Places
  <2> QED
    BY <2>1, <2>2
<1>3. ASSUME NEW t \in Tasks, WaitForBrowser(t) PROVE Limits'
  <2>1. lock = t /\ lock' = t /\ Reuse(t) /\ UNCHANGED usable
    BY <1>3 DEF WaitForBrowser, Limits, LockedSteps, browsers
  <2> QED
    BY <2>1, ReuseLimits
<1>4. ASSUME NEW t \in Tasks, CreateBrowser(t) PROVE Limits'
  <2> DEFINE e == Entry(<<"page", Len(pool)>>, born')
  <2>1. lock = t /\ Len(pool) < MaxBrowsers /\ Len(pool) \in Nat
    BY <1>4 DEF CreateBrowser, Limits, LockedSteps, Types, Filed
  <2>2. e.name = <<"page", Len(pool)>> /\ e.browser = born' /\ e.count = 1
    BY DEF Entry
  <2> HIDE DEF e
  <2>3. \A k \in DOMAIN pool : pool[k].name # e.name
    <3>1. \A k \in DOMAIN pool : pool[k].name = <<"page", k - 1>> /\ k - 1 # Len(pool)
      BY <2>1 DEF Limits, Places, Types, Filed
    <3> QED
      BY <2>2, <3>1
  <2>4. pool' = Append(pool, e)
    BY <1>4, <2>3 DEF CreateBrowser, Put, e
  <2>5. /\ DOMAIN pool = 1 .. Len(pool) /\ DOMAIN pool' = (DOMAIN pool) \cup {Len(pool) + 1}
        /\ Len(pool') = Len(pool) + 1
        /\ pool'[Len(pool) + 1] = e /\ \A k \in DOMAIN pool : pool'[k] = pool[k]
    BY <2>1, <2>4 DEF Types, Filed
  <2>6. LockedSteps'
    BY <1>4, <2>1 DEF CreateBrowser, Limits, LockedSteps, Go, Types, Typed
  <2>7. Places'
    <3>1. \A k \in DOMAIN pool' : pool'[k].name = <<"page", k - 1>>
      BY <2>1, <2>2, <2>5 DEF Limits, Places
    <3>2. usable' = usable \cup {born'} /\ Len(pool') <= MaxBrowsers
      BY <1>4, <2>1, <2>5 DEF CreateBrowser
    <3>3. \A b \in usable : \E k \in DOMAIN pool' : pool'[k].browser = b
      BY <2>5 DEF Limits, Places
    <3>4. pool'[Len(pool) + 1].browser = born' /\ Len(pool) + 1 \in DOMAIN pool'
      BY <2>2, <2>5
    <3>5. \A b \in usable' : \E k \in DOMAIN pool' : pool'[k].browser = b
      BY <3>2, <3>3, <3>4
    <3> QED
      BY <3>1, <3>2, <3>5 DEF Places
  <2>8. Users' \subseteq Users \cup {t}
    BY <1>4 DEF CreateBrowser, Users, Go, Types, Typed
  <2>9. Counts'
    BY <1>0, <2>2, <2>4, <2>8, SlotFirst, UserMore DEF Limits
  <2> QED
    BY <2>6, <2>7, <2>9 DEF Limits
<1>5. ASSUME NEW t \in Tasks, ReleasePage(t) PROVE Limits'
  <2>1. t \in Users /\ t \notin Users' /\ Users' \subseteq Users /\ usable' = usable
    BY <1>5 DEF ReleasePage, Users, Go, Types, Typed, browsers
  <2>2. CASE Counted = {}
    <3>1. pool' = pool
      BY <1>5, <2>2 DEF ReleasePage
    <3>2. LockedSteps'
      BY <1>5, <3>1 DEF ReleasePage, Limits, LockedSteps, Go, Types, Typed
    <3>3. Slots' = Slots
      BY <3>1 DEF Slots
    <3> QED
      BY <1>0, <2>1, <3>1, <3>2, <3>3, UserLess DEF Limits, Places
  <2>3. CASE Counted # {}
    <3>1. PICK k \in First(Counted) : pool' = [pool EXCEPT ![k].count = @ - 1]
      BY <1>5, <2>3 DEF ReleasePage
    <3>2. k \in DOMAIN pool /\ pool[k].count > 0 /\ pool[k] \in Entries
      BY DEF First, Counted, Types, Filed
    <3>3. DOMAIN pool' = DOMAIN pool /\ Len(pool') = Len(pool)
          /\ \A j \in DOMAIN pool : pool'[j].name = pool[j].name /\ pool'[j].browser = pool[j].browser
      BY <3>1, <3>2 DEF Types, Filed, Entries
    <3>4. LockedSteps'
      BY <1>5, <3>3 DEF ReleasePage, Limits, LockedSteps, Go, Types, Typed
    <3>5. Places'
      BY <2>1, <3>3 DEF Limits, Places
    <3>6. Cardinality(Slots') = Cardinality(Slots) - 1
      BY <3>1, <3>2, SlotLess
    <3> QED
      BY <1>0, <2>1, <3>4, <3>5, <3>6, UserLess DEF Limits
  <2> QED
    BY <2>2, <2>3
<1>6. ASSUME NEW k \in DOMAIN pool, HealthCheck(k) PROVE Limits'
  <2>1. PICK opens \in {pool[k].browser \in usable, FALSE} : pool' = [pool EXCEPT ![k].healthy = opens]
    BY <1>6, Zenon DEF HealthCheck
  <2>2. pool[k] \in Entries
    BY DEF Types, Filed
  <2>3. DOMAIN pool' = DOMAIN pool /\ Len(pool') = Len(pool)
        /\ \A j \in DOMAIN pool : /\ pool'[j].name = pool[j].name /\ pool'[j].browser = pool[j].browser
                                  /\ pool'[j].count = pool[j].count
    BY <2>1, <2>2 DEF Types, Filed, Entries
  <2>4. lock' = lock /\ pc' = pc /\ usable' = usable
    BY <1>6 DEF HealthCheck, browsers
  <2>5. Users' = Users /\ Slots' = Slots
    BY <2>3, <2>4 DEF Users, Slots
  <2> QED
    BY <2>3, <2>4, <2>5 DEF Limits, LockedSteps, Places, Counts
<1>7. CASE (\E b \in running : BrowserDies(b)) \/ Tick \/ UNCHANGED vars
  <2>1. pool' = pool /\ lock' = lock /\ pc' = pc /\ usable' \subseteq usable
    BY <1>7 DEF BrowserDies, Tick, vars, browsers
  <2>2. Users' = Users /\ Slots' = Slots
    BY <2>1 DEF Users, Slots
  <2> QED
    BY <2>1, <2>2 DEF Limits, LockedSteps, Places, Counts
<1>8. ASSUME NEW t \in Tasks
      PROVE  ~AskRecording(t) /\ ~GetRecording(t) /\ ~StartRecording(t) /\ ~EndRecording(t) /\ ~PopRecording(t)
  BY DEF PagesOnly, Limits, LockedSteps, AskRecording, GetRecording, StartRecording, EndRecording, PopRecording
<1>9. ~Shutdown /\ \A idle \in SUBSET DOMAIN pool : ~CleanupIdle(idle)
  BY DEF PagesOnly, Shutdown, CleanupIdle
<1> QED
  BY <1>1, <1>2, <1>3, <1>4, <1>5, <1>6, <1>7, <1>8, <1>9 DEF Next, Step

(* However many tasks ask, whatever fails to launch or dies in between and   *)
(* whichever browser release_page takes a page off: the pages in use never   *)
(* exceed what the registry counts, nor the open browsers max_browsers.      *)
THEOREM LimitsHold ==
  ASSUME PagesOnly
  PROVE  Spec => []PoolWithinLimits
<1>1. Types /\ Limits => PoolWithinLimits
  <2> SUFFICES ASSUME Types, Limits PROVE Cardinality(usable) <= MaxBrowsers
    BY DEF Limits, Counts, PoolWithinLimits
  <2> DEFINE D == {pool[k].browser : k \in DOMAIN pool}
  <2> DEFINE f == [k \in 1 .. Len(pool) |-> pool[k].browser]
  <2>1. Len(pool) \in Nat /\ DOMAIN pool = 1 .. Len(pool)
    BY DEF Types, Filed
  <2>2. IsFiniteSet(1 .. Len(pool)) /\ Cardinality(1 .. Len(pool)) = Len(pool)
    <3>1. /\ IsFiniteSet(1 .. Len(pool))
          /\ Cardinality(1 .. Len(pool)) = IF 1 > Len(pool) THEN 0 ELSE Len(pool) - 1 + 1
      BY <2>1, FS_Interval
    <3> QED
      BY <2>1, <3>1
  <2>3. f \in Surjection(1 .. Len(pool), D)
    BY <2>1 DEF Surjection
  <2>4. IsFiniteSet(D) /\ Cardinality(D) <= Len(pool)
    BY <2>2, <2>3, FS_Surjection
  <2>5. IsFiniteSet(usable) /\ Cardinality(usable) <= Cardinality(D)
    BY <2>4, FS_Subset DEF Limits, Places
  <2>6. Cardinality(D) \in Nat /\ Cardinality(usable) \in Nat
    BY <2>4, <2>5, FS_CardinalityType
  <2>7. Len(pool) <= MaxBrowsers
    BY DEF Limits, Places
  <2> HIDE DEF D
  <2> QED
    BY <2>1, <2>4, <2>5, <2>6, <2>7, PoolAssumption
<1>2. Types /\ Limits /\ [Next]_vars => Limits'
  BY LimitsStep
<1> QED
  BY TypesInit, TypesStep, LimitsInit, <1>1, <1>2, PTL DEF Spec
=============================================================================
