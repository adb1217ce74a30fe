----------------------------- MODULE MemoryProofs -----------------------------
(***************************************************************************)
(* Proofs about MemoryStore, for any threads, processes, files, calls and  *)
(* crashes: a file that the threads of one process write under its lock is *)
(* an atomic memory, however the calls overlap and whoever dies.           *)
(***************************************************************************)
EXTENDS MemoryStore, SequenceTheorems, FiniteSetTheorems, TLAPS

Places == {"idle", "lock", "read", "open", "flush", "replace"}

(* The types of what the proof looks at.                                     *)
Types ==
  /\ DOMAIN stored = Files /\ DOMAIN tmp = Files /\ DOMAIN data = Threads /\ DOMAIN fd = Threads
  /\ lock \in [Processes -> Threads \cup {None}]
  /\ at \in [Threads -> Places]
  /\ todo \in [Threads -> Seq(Op)] /\ calls \in Nat
  /\ \A f \in Guarded : stored[f] \in Seq(Entries) \cup {Missing}

(* What is left of a call is of the call: its operations are on files of     *)
(* their own, and more than one only to clear all.                           *)
Asked(t, op) == \E c \in Calls[t] : \E k \in DOMAIN c : c[k].file = op.file /\ c[k].kind = op.kind
Rest(t) ==
  /\ at[t] = "idle" <=> todo[t] = <<>>
  /\ \A i \in DOMAIN todo[t] : Asked(t, todo[t][i])
  /\ \A i \in DOMAIN todo[t] : \A k \in DOMAIN todo[t] : todo[t][i].file = todo[t][k].file => i = k
  /\ at[t] # "idle" =>
       Len(todo[t]) = 1 \/ \E kind \in {"clear", "wipe"} : \A i \in DOMAIN todo[t] : todo[t][i].kind = kind

Works(t) == at[t] \in {"read", "open", "flush", "replace"}

(* Who works on a guarded file has the lock, will write what the operation   *)
(* makes of the file as it is, and has its temporary file for itself.        *)
Held(t) ==
  LET op == Now(t) IN
  /\ Works(t) => lock[ProcessOf[t]] = t
  /\ at[t] = "read" => op.kind \in Whole
  /\ at[t] \in {"open", "flush", "replace"} => data[t] = Changed(op, AsRead(stored[op.file]))
  /\ at[t] = "flush" => IF Shared(op) THEN fd[t] = "tmp" /\ tmp[op.file] = Torn ELSE fd[t] = "own"
  /\ at[t] = "replace" /\ Shared(op) => tmp[op.file] = data[t]

Fine(t) ==
  /\ Rest(t)
  /\ at[t] = "read" => Now(t).kind \notin {"clear", "wipe"}
  /\ at[t] # "idle" /\ Now(t).file \in Guarded => Held(t)

MemoryInv == Types /\ \A t \in Threads : Fine(t)

-----------------------------------------------------------------------------
(* The operators.                                                            *)
LEMMA GuardedOps ==
  ASSUME NEW t \in Threads, NEW op, op.file \in Guarded, Asked(t, op)
  PROVE  op.kind \in Whole \cup Blind
<1>1. PICK c \in Calls[t] : \E k \in DOMAIN c : c[k].file = op.file /\ c[k].kind = op.kind
  BY DEF Asked
<1>2. PICK k \in DOMAIN c : c[k].file = op.file /\ c[k].kind = op.kind
  BY <1>1
<1>3. c[k] \in OpsOn(op.file, t)
  BY <1>2 DEF OpsOn
<1> QED BY <1>2, <1>3 DEF Guarded

LEMMA OneProcess ==
  ASSUME NEW t \in Threads, NEW u \in Threads, NEW op, NEW oq, op.file \in Guarded,
         op.file = oq.file, Asked(t, op), Asked(u, oq)
  PROVE  ProcessOf[t] = ProcessOf[u]
<1>1. OpsOn(op.file, t) # {}
  BY DEF Asked, OpsOn
<1>2. OpsOn(op.file, u) # {}
  BY DEF Asked, OpsOn
<1> QED BY <1>1, <1>2 DEF Guarded

LEMMA ChangedIsWhole ==
  ASSUME NEW op \in Op, op.kind \in Whole \cup Blind, NEW c \in Seq(Entries)
  PROVE  Changed(op, c) \in Seq(Entries)
<1> DEFINE e == <<op.key, op.id>>
<1>1. e \in Entries /\ <<e>> \in Seq(Entries)
  BY DEF Entries, Op
<1>2. <<>> \in Seq(Entries)
  OBVIOUS
<1>3. With(c, e) \in Seq(Entries)
  <2> HIDE DEF e
  <2>1. CASE Has(c, e[1])
    <3>1. [k \in DOMAIN c |-> IF c[k][1] = e[1] THEN e ELSE c[k]] \in [1..Len(c) -> Entries]
      BY <1>1
    <3> QED BY <2>1, <3>1 DEF With
  <2>2. CASE ~Has(c, e[1])
    BY <1>1, <2>2 DEF With
  <2> QED BY <2>1, <2>2
<1>4. Newest(<<e>> \o c) \in Seq(Entries)
  <2> DEFINE d == <<e>> \o c
             n == IF Len(d) < HistoryMax THEN Len(d) ELSE HistoryMax
  <2>1. d \in Seq(Entries)
    BY <1>1
  <2> HIDE DEF d
  <2>2. n \in 0..Len(d)
    BY <2>1, MemoryAssumption
  <2>3. SubSeq(d, 1, n) \in Seq(Entries)
    <3> HIDE DEF n
    <3>1. n \in Int /\ 1 \in Int /\ \A i \in 1..n : d[i] \in Entries
      BY <2>1, <2>2
    <3> QED BY <3>1, SubSeqProperties
  <2> QED BY <2>3 DEF Newest, d
<1> QED BY <1>1, <1>2, <1>3, <1>4 DEF Changed, Whole, Blind, Empty

LEMMA BlindIgnores ==
  ASSUME NEW op, op.kind \in Blind, NEW c
  PROVE  Changed(op, <<>>) = Changed(op, c)
BY DEF Changed, Blind, Empty

LEMMA NotSpecial ==
  ASSUME NEW c \in Seq(Entries)
  PROVE  c # Torn /\ c # Wiped /\ c # Missing /\ AsRead(c) = c
BY MemoryAssumption DEF AsRead

LEMMA AsReadTyped ==
  ASSUME NEW c \in Seq(Entries) \cup {Missing}
  PROVE  AsRead(c) \in Seq(Entries) /\ c # Torn /\ c # Wiped
<1>1. <<>> \in Seq(Entries)
  OBVIOUS
<1> QED BY <1>1, MemoryAssumption DEF AsRead

(* The first operation left.                                                 *)
LEMMA NowTyped ==
  ASSUME MemoryInv, NEW t \in Threads, at[t] # "idle"
  PROVE  /\ todo[t] # <<>> /\ 1 \in DOMAIN todo[t] /\ Now(t) = todo[t][1]
         /\ Now(t) \in Op /\ Asked(t, Now(t)) /\ Now(t).file \in Files
<1>1. todo[t] \in Seq(Op) /\ todo[t] # <<>> /\ Rest(t)
  BY DEF MemoryInv, Fine, Rest, Types
<1>2. 1 \in DOMAIN todo[t] /\ Head(todo[t]) = todo[t][1] /\ todo[t][1] \in Op
  BY <1>1
<1> QED BY <1>1, <1>2 DEF Rest, Now, Op

(* One thread at a time works on a guarded file.                             *)
LEMMA Alone ==
  ASSUME MemoryInv, NEW t \in Threads, NEW u \in Threads, Works(t), Works(u),
         Now(t).file = Now(u).file, Now(t).file \in Guarded
  PROVE  t = u
<1>1. at[t] # "idle" /\ at[u] # "idle"
  BY DEF Works
<1>2. ProcessOf[t] = ProcessOf[u]
  BY <1>1, NowTyped, OneProcess
<1>3. lock[ProcessOf[t]] = t /\ lock[ProcessOf[u]] = u
  BY <1>1 DEF MemoryInv, Fine, Held
<1> QED BY <1>2, <1>3

-----------------------------------------------------------------------------
(* Who is not stepping.                                                      *)
LEMMA OthersStayFine ==
  ASSUME MemoryInv, NEW u \in Threads,
         at'[u] = at[u], todo'[u] = todo[u], data'[u] = data[u],
         lock[ProcessOf[u]] = u => lock'[ProcessOf[u]] = u,
         Works(u) /\ Now(u).file \in Guarded =>
           /\ stored'[Now(u).file] = stored[Now(u).file] /\ tmp'[Now(u).file] = tmp[Now(u).file]
           /\ fd'[u] = fd[u]
  PROVE  Fine(u)'
<1>1. Rest(u)' /\ Now(u)' = Now(u)
  BY DEF MemoryInv, Fine, Rest, Asked, Now
<1>2. at[u] # "idle" /\ Now(u).file \in Guarded => Held(u)
  BY DEF MemoryInv, Fine
<1>3. at'[u] # "idle" /\ Now(u).file \in Guarded => Held(u)'
  BY <1>1, <1>2 DEF Held, Works
<1>4. Guarded' = Guarded
  BY DEF Guarded, OpsOn
<1> QED BY <1>1, <1>3, <1>4 DEF MemoryInv, Fine

LEMMA Elsewhere ==
  ASSUME MemoryInv, NEW t \in Threads, NEW u \in Threads, u # t, Works(t), Works(u),
         Now(u).file \in Guarded
  PROVE  Now(u).file # Now(t).file
BY Alone

LEMMA UnlockedKeeps ==
  ASSUME MemoryInv, NEW t \in Threads, NEW u \in Threads, u # t, lock' = Unlocked(t)
  PROVE  lock[ProcessOf[u]] = u => lock'[ProcessOf[u]] = u
BY DEF Unlocked, MemoryInv, Types, Processes

(* The operations that are to take effect.                                   *)
Pend(t) == {todo[t][k] : k \in {i \in DOMAIN todo[t] : todo[t][i].file \in Guarded}}

(* A call goes on to its next operation, or ends.                            *)
LEMMA EndsFine ==
  ASSUME MemoryInv, NEW t \in Threads, at[t] # "idle", Ends(t),
         Len(todo[t]) = 1 \/ \A i \in DOMAIN todo[t] : todo[t][i].kind = "wipe"
  PROVE  /\ at' \in [Threads -> Places] /\ todo' \in [Threads -> Seq(Op)]
         /\ lock' \in [Processes -> Threads \cup {None}] /\ DOMAIN data' = Threads
         /\ Fine(t)' /\ Pend(t)' = Pend(t) \ {Now(t)}
         /\ lock' = Unlocked(t)
         /\ \A u \in Threads : u # t => at'[u] = at[u] /\ todo'[u] = todo[u] /\ data'[u] = data[u]
<1> USE DEF MemoryInv, Types
<1>1. /\ at' = [at EXCEPT ![t] = "idle"] /\ todo' = [todo EXCEPT ![t] = <<>>]
      /\ data' = [data EXCEPT ![t] = <<>>] /\ lock' = Unlocked(t)
  BY DEF Ends
<1>2. at'[t] = "idle" /\ todo'[t] = <<>> /\ <<>> \in Seq(Op)
  BY <1>1
<1>3. lock' \in [Processes -> Threads \cup {None}]
  BY <1>1 DEF Unlocked
<1>4. DOMAIN <<>> = {}
  OBVIOUS
<1>5. Fine(t)' /\ Pend(t)' = {}
  BY <1>2, <1>4 DEF Fine, Rest, Pend
<1>6. Pend(t) \subseteq {Now(t)}
  <2>1. CASE Len(todo[t]) = 1
    <3>1. DOMAIN todo[t] = {1} /\ Now(t) = todo[t][1]
      BY <2>1, NowTyped
    <3> QED BY <3>1 DEF Pend
  <2>2. CASE \A i \in DOMAIN todo[t] : todo[t][i].kind = "wipe"
    <3>1. \A i \in DOMAIN todo[t] : Asked(t, todo[t][i])
      BY DEF Fine, Rest
    <3>2. \A i \in DOMAIN todo[t] : todo[t][i].file \notin Guarded
      BY <2>2, <3>1, GuardedOps DEF Whole, Blind
    <3> QED BY <3>2 DEF Pend
  <2> QED BY <2>1, <2>2
<1>7. at' \in [Threads -> Places] /\ todo' \in [Threads -> Seq(Op)] /\ DOMAIN data' = Threads
  BY <1>1, <1>2 DEF Places
<1> QED BY <1>1, <1>3, <1>5, <1>6, <1>7

LEMMA FinishesFine ==
  ASSUME MemoryInv, NEW t \in Threads, at[t] # "idle", Finishes(t)
  PROVE  /\ at' \in [Threads -> Places] /\ todo' \in [Threads -> Seq(Op)]
         /\ lock' \in [Processes -> Threads \cup {None}] /\ DOMAIN data' = Threads
         /\ Fine(t)' /\ Pend(t)' = Pend(t) \ {Now(t)}
         /\ lock' = Unlocked(t)
         /\ \A u \in Threads : u # t => at'[u] = at[u] /\ todo'[u] = todo[u] /\ data'[u] = data[u]
<1>1. CASE Len(todo[t]) = 1
  BY <1>1, EndsFine DEF Finishes
<1>2. CASE Len(todo[t]) # 1
  <2>1. /\ todo' = [todo EXCEPT ![t] = Tail(todo[t])] /\ at' = [at EXCEPT ![t] = First(todo[t][2])]
        /\ data' = [data EXCEPT ![t] = <<>>] /\ lock' = Unlocked(t)
    BY <1>2 DEF Finishes
  <2>t. /\ todo \in [Threads -> Seq(Op)] /\ at \in [Threads -> Places] /\ DOMAIN data = Threads
        /\ lock \in [Processes -> Threads \cup {None}] /\ Rest(t)
    BY DEF MemoryInv, Types, Fine
  <2>2. PICK kind \in {"clear", "wipe"} : \A i \in DOMAIN todo[t] : todo[t][i].kind = kind
    BY <1>2, <2>t DEF Rest
  <2>3. todo[t] \in Seq(Op) /\ todo[t] # <<>> /\ Now(t) = todo[t][1] /\ Rest(t)
    BY <2>t, NowTyped
  <2> DEFINE n == Len(todo[t])
  <2>4. n \in Nat /\ n >= 2 /\ DOMAIN todo[t] = 1..n
    <3>1. Len(todo[t]) \in Nat /\ DOMAIN todo[t] = 1..Len(todo[t]) /\ Len(todo[t]) # 0
      BY <2>3, EmptySeq
    <3>2. \A m \in Nat : m # 0 /\ m # 1 => m >= 2
      OBVIOUS
    <3> HIDE DEF n
    <3>3. n = Len(todo[t])
      BY DEF n
    <3> QED BY <1>2, <3>1, <3>2, <3>3
  <2>5. /\ Tail(todo[t]) \in Seq(Op) /\ DOMAIN Tail(todo[t]) = 1..(n - 1) /\ Len(Tail(todo[t])) = n - 1
        /\ \A i \in 1..(n - 1) : Tail(todo[t])[i] = todo[t][i + 1]
        /\ Tail(todo[t]) # <<>> /\ Head(Tail(todo[t])) = todo[t][2]
    <3> DEFINE rest == Tail(todo[t])
    <3>1. /\ rest \in Seq(Op) /\ Len(rest) = n - 1 /\ \A i \in 1..Len(rest) : rest[i] = todo[t][i + 1]
      BY <2>3, HeadTailProperties
    <3> HIDE DEF n, rest
    <3>2. DOMAIN rest = 1..(n - 1) /\ \A i \in 1..(n - 1) : rest[i] = todo[t][i + 1]
      BY <3>1
    <3>3. Len(rest) # 0 /\ 1 \in 1..(n - 1)
      BY <2>4, <3>1
    <3>4. rest # <<>>
      BY <3>3
    <3>5. Head(rest) = rest[1] /\ rest[1] = todo[t][2]
      BY <3>1, <3>2, <3>3, <3>4
    <3> QED BY <3>1, <3>2, <3>4, <3>5 DEF rest
  <2>6. /\ todo'[t] = Tail(todo[t]) /\ at'[t] = IF kind = "clear" THEN "lock" ELSE "open"
        /\ todo' \in [Threads -> Seq(Op)]
    <3>1. todo[t][2].kind = kind
      BY <2>2, <2>4
    <3>2. First(todo[t][2]) = IF kind = "clear" THEN "lock" ELSE "open"
      BY <2>2, <3>1 DEF First, Whole, Blind
    <3> QED BY <2>1, <2>5, <2>t, <3>2
  <2>7. at' \in [Threads -> Places] /\ DOMAIN data' = Threads
    BY <2>1, <2>6, <2>t DEF Places
  <2>8. lock' \in [Processes -> Threads \cup {None}]
    BY <2>1, <2>t DEF Unlocked
  <2> HIDE DEF n
  <2>9. Rest(t)'
    <3>1. \A i \in DOMAIN todo'[t] : i + 1 \in DOMAIN todo[t] /\ todo'[t][i] = todo[t][i + 1] /\ i \in Nat
      BY <2>4, <2>5, <2>6
    <3>2. \A i \in DOMAIN todo'[t] : Asked(t, todo'[t][i]) /\ todo'[t][i].kind = kind
      BY <2>2, <2>3, <3>1 DEF Rest
    <3>3. \A i \in DOMAIN todo'[t] : \A k \in DOMAIN todo'[t] : todo'[t][i].file = todo'[t][k].file => i = k
      <4>1. \A i \in DOMAIN todo'[t] : \A k \in DOMAIN todo'[t] :
              todo[t][i + 1].file = todo[t][k + 1].file => i + 1 = k + 1
        BY <2>3, <3>1 DEF Rest
      <4>2. \A i \in Nat : \A k \in Nat : i + 1 = k + 1 => i = k
        OBVIOUS
      <4> QED BY <3>1, <4>1, <4>2
    <3>4. at'[t] # "idle" /\ todo'[t] # <<>>
      BY <2>5, <2>6
    <3> QED BY <2>2, <3>2, <3>3, <3>4 DEF Rest, Asked
  <2>10. Now(t)' = todo[t][2] /\ Asked(t, todo[t][2]) /\ todo[t][2].kind = kind
    <3>1. 2 \in DOMAIN todo[t]
      BY <2>4
    <3>2. Now(t)' = todo[t][2]
      BY <2>5, <2>6 DEF Now
    <3> QED BY <2>2, <2>3, <3>1, <3>2 DEF Rest
  <2>11. Fine(t)'
    <3>1. todo[t][2].file \in Guarded => kind # "wipe"
      BY <2>10, GuardedOps DEF Whole, Blind
    <3>2. todo[t][2].file \in Guarded => Held(t)'
      BY <2>6, <3>1 DEF Held, Works
    <3>3. Guarded' = Guarded /\ at'[t] # "read"
      BY <2>6 DEF Guarded, OpsOn
    <3> QED BY <2>9, <2>10, <3>2, <3>3 DEF Fine
  <2>12. Pend(t)' = Pend(t) \ {Now(t)}
    <3>1. \A i \in 1..n : i # 1 => todo[t][i].file # todo[t][1].file
      <4>1. 1 \in 1..n /\ DOMAIN todo[t] = 1..n
        BY <2>4
      <4> QED BY <2>3, <4>1 DEF Rest
    <3>2. Pend(t) \ {todo[t][1]} = {todo[t][k] : k \in {i \in 2..n : todo[t][i].file \in Guarded}}
      <4>1. /\ \A k \in 1..n : k = 1 \/ k \in 2..n
            /\ \A k \in 2..n : k \in 1..n /\ k # 1
        BY <2>4
      <4>2. \A k \in 2..n : todo[t][k] # todo[t][1]
        BY <3>1, <4>1
      <4>3. DOMAIN todo[t] = 1..n
        BY <2>4
      <4> QED BY <4>1, <4>2, <4>3 DEF Pend
    <3>3. Pend(t)' = {todo[t][k + 1] : k \in {i \in 1..(n - 1) : todo[t][i + 1].file \in Guarded}}
      <4>1. Guarded' = Guarded
        BY DEF Guarded, OpsOn
      <4>2. /\ DOMAIN todo'[t] = 1..(n - 1)
            /\ \A k \in 1..(n - 1) : todo'[t][k] = todo[t][k + 1]
        BY <2>5, <2>6
      <4>3. Pend(t)' = {todo'[t][k] : k \in {i \in DOMAIN todo'[t] : todo'[t][i].file \in Guarded}}
        BY <4>1 DEF Pend
      <4>4. {i \in DOMAIN todo'[t] : todo'[t][i].file \in Guarded}
              = {i \in 1..(n - 1) : todo[t][i + 1].file \in Guarded}
        BY <4>2
      <4> QED BY <4>2, <4>3, <4>4
    <3>4. \A k \in 2..n : k - 1 \in 1..(n - 1) /\ (k - 1) + 1 = k
      BY <2>4
    <3>5. \A k \in 1..(n - 1) : k + 1 \in 2..n
      BY <2>4
    <3>6. {todo[t][k + 1] : k \in {i \in 1..(n - 1) : todo[t][i + 1].file \in Guarded}}
            = {todo[t][k] : k \in {i \in 2..n : todo[t][i].file \in Guarded}}
      BY <3>4, <3>5
    <3> QED BY <2>3, <3>2, <3>3, <3>6
  <2> QED BY <2>1, <2>6, <2>7, <2>8, <2>11, <2>12
<1> QED BY <1>1, <1>2

-----------------------------------------------------------------------------
(* What a step does to the guarded files and to what is to take effect.      *)
Reads(f) == AsRead(stored[f])

Quiet ==
  /\ \A f \in Guarded : Reads(f)' = Reads(f)
  /\ \A u \in Threads : Pend(u)' = Pend(u)

Effected(t) ==
  /\ Now(t) \in Pend(t) /\ Now(t).file \in Guarded
  /\ \A f \in Guarded : Reads(f)' = IF f = Now(t).file THEN Changed(Now(t), Reads(f)) ELSE Reads(f)
  /\ Pend(t)' = Pend(t) \ {Now(t)} /\ \A u \in Threads : u # t => Pend(u)' = Pend(u)

Called(t) ==
  /\ \A f \in Guarded : Reads(f)' = Reads(f)
  /\ Pend(t) = {} /\ Pend(t)' \subseteq {op \in Op : op.file \in Guarded}
  /\ \A u \in Threads : u # t => Pend(u)' = Pend(u)

Lost(p) ==
  /\ \A f \in Guarded : Reads(f)' = Reads(f)
  /\ \A u \in Threads : Pend(u)' = IF ProcessOf[u] = p THEN {} ELSE Pend(u)

LEMMA SameGuarded == Guarded' = Guarded
BY DEF Guarded, OpsOn

LEMMA SamePend ==
  ASSUME NEW u \in Threads, todo'[u] = todo[u] PROVE Pend(u)' = Pend(u)
BY SameGuarded DEF Pend

LEMMA NowPends ==
  ASSUME MemoryInv, NEW t \in Threads, at[t] # "idle"
  PROVE  Now(t) \in Pend(t) <=> Now(t).file \in Guarded
<1>1. 1 \in DOMAIN todo[t] /\ Now(t) = todo[t][1]
  BY NowTyped
<1> QED BY <1>1 DEF Pend

LEMMA KindOfNow ==
  ASSUME MemoryInv, NEW t \in Threads, at[t] # "idle", Now(t).file \in Guarded
  PROVE  Now(t).kind \in Whole \cup Blind /\ Now(t).kind \notin ReadFirst /\ Held(t)
<1>1. Now(t).kind \in Whole \cup Blind
  BY NowTyped, GuardedOps
<1> QED BY <1>1 DEF Whole, Blind, ReadFirst, MemoryInv, Fine

LEMMA GuardedTyped ==
  ASSUME MemoryInv, NEW f \in Guarded
  PROVE  /\ Reads(f) \in Seq(Entries) /\ stored[f] # Torn /\ stored[f] # Wiped /\ f \in Files
         /\ stored[f] \in Seq(Entries) \cup {Missing}
BY AsReadTyped DEF MemoryInv, Types, Reads, Guarded

(* One thread moves on within its operation.                                 *)
LEMMA OneSteps ==
  ASSUME MemoryInv, NEW t \in Threads, Types', Fine(t)', UNCHANGED <<stored, todo>>,
         \A u \in Threads : u # t => at'[u] = at[u] /\ data'[u] = data[u] /\ fd'[u] = fd[u],
         \A u \in Threads : u # t /\ lock[ProcessOf[u]] = u => lock'[ProcessOf[u]] = u,
         UNCHANGED tmp \/ (Works(t) /\ \A f \in Files : f # Now(t).file => tmp'[f] = tmp[f])
  PROVE  MemoryInv' /\ Quiet
<1>1. ASSUME NEW u \in Threads, u # t PROVE Fine(u)'
  <2>1. Works(u) /\ Now(u).file \in Guarded => tmp'[Now(u).file] = tmp[Now(u).file]
    <3> SUFFICES ASSUME Works(u), Now(u).file \in Guarded, ~UNCHANGED tmp
                 PROVE  tmp'[Now(u).file] = tmp[Now(u).file]
      OBVIOUS
    <3>1. Now(u).file # Now(t).file
      BY <1>1, Elsewhere
    <3> QED BY <3>1, GuardedTyped
  <2> QED BY <1>1, <2>1, OthersStayFine
<1>2. Quiet
  BY SamePend DEF Quiet, Reads
<1> QED BY <1>1, <1>2 DEF MemoryInv

LEMMA AcquireStep ==
  ASSUME MemoryInv, NEW t \in Threads, Acquire(t) PROVE MemoryInv' /\ Quiet
<1>1. /\ at[t] = "lock" /\ lock[ProcessOf[t]] = None /\ ProcessOf[t] \in Processes
      /\ lock' = [lock EXCEPT ![ProcessOf[t]] = t]
      /\ at' = [at EXCEPT ![t] = IF Now(t).kind \in Whole THEN "read" ELSE "open"]
      /\ data' = [data EXCEPT ![t] = IF Now(t).kind \in Blind THEN Changed(Now(t), <<>>) ELSE data[t]]
      /\ UNCHANGED <<stored, tmp, todo, fd, calls>>
  BY DEF Acquire, Processes
<1>2. Types'
  BY <1>1, SameGuarded DEF MemoryInv, Types, Places
<1>3. /\ lock'[ProcessOf[t]] = t /\ Now(t)' = Now(t) /\ stored' = stored
      /\ at'[t] = IF Now(t).kind \in Whole THEN "read" ELSE "open"
      /\ data'[t] = IF Now(t).kind \in Blind THEN Changed(Now(t), <<>>) ELSE data[t]
  BY <1>1 DEF MemoryInv, Types, Now
<1>4. Fine(t)'
  <2>1. Rest(t)'
    BY <1>1, <1>3 DEF MemoryInv, Fine, Rest, Asked
  <2>2. at'[t] = "read" => Now(t).kind \notin {"clear", "wipe"}
    BY <1>3 DEF Whole
  <2>3. ASSUME Now(t).file \in Guarded PROVE Held(t)'
    <3>1. Now(t).kind \in Whole \cup Blind
      BY <1>1, <2>3, KindOfNow
    <3>2. at'[t] = "open" => data'[t] = Changed(Now(t), AsRead(stored[Now(t).file]))
      BY <1>3, <3>1, BlindIgnores DEF Whole, Blind
    <3>3. at'[t] \in {"read", "open"} /\ (at'[t] = "read" => Now(t).kind \in Whole)
      BY <1>3
    <3> QED BY <1>3, <3>2, <3>3 DEF Held, Works
  <2> QED BY <1>3, <2>1, <2>2, <2>3, SameGuarded DEF Fine
<1>5. \A u \in Threads : u # t => at'[u] = at[u] /\ data'[u] = data[u]
  BY <1>1 DEF MemoryInv, Types
<1>6. \A u \in Threads : u # t /\ lock[ProcessOf[u]] = u => lock'[ProcessOf[u]] = u
  BY <1>1, MemoryAssumption DEF MemoryInv, Types, Processes
<1> QED BY <1>1, <1>2, <1>4, <1>5, <1>6, OneSteps

LEMMA ReadStep ==
  ASSUME MemoryInv, NEW t \in Threads, Read(t) PROVE MemoryInv' /\ Quiet
<1> DEFINE op == Now(t)
           c == stored[op.file]
<1>1. at[t] = "read" /\ UNCHANGED <<stored, tmp, fd, calls>> /\ op.kind \notin {"clear", "wipe"}
  BY DEF Read, MemoryInv, Fine
<1>2. CASE Ends(t) /\ (Unreadable(op, c) \/ op.kind = "once")
  <2>1. op.file \notin Guarded
    <3> SUFFICES ASSUME op.file \in Guarded PROVE FALSE
      OBVIOUS
    <3>1. op.kind \in Whole \cup Blind /\ c # Torn /\ c # Wiped
      BY <1>1, KindOfNow, GuardedTyped
    <3> QED BY <1>2, <3>1 DEF Unreadable, Whole, Blind
  <2>2. Len(todo[t]) = 1
    <3>1. op = todo[t][1] /\ 1 \in DOMAIN todo[t]
      BY <1>1, NowTyped
    <3> QED BY <1>1, <3>1 DEF MemoryInv, Fine, Rest
  <2>3. /\ at' \in [Threads -> Places] /\ todo' \in [Threads -> Seq(Op)]
        /\ lock' \in [Processes -> Threads \cup {None}] /\ DOMAIN data' = Threads
        /\ Fine(t)' /\ Pend(t)' = Pend(t) \ {Now(t)} /\ lock' = Unlocked(t)
        /\ \A u \in Threads : u # t => at'[u] = at[u] /\ todo'[u] = todo[u] /\ data'[u] = data[u]
    BY <1>1, <1>2, <2>2, EndsFine
  <2>4. Types'
    BY <1>1, <2>3, SameGuarded DEF MemoryInv, Types
  <2>5. \A u \in Threads : u # t => Fine(u)'
    BY <1>1, <2>3, UnlockedKeeps, OthersStayFine
  <2>6. Pend(t)' = Pend(t)
    BY <1>1, <2>1, <2>3, NowPends
  <2>7. Quiet
    BY <1>1, <2>3, <2>6, SamePend DEF Quiet, Reads
  <2> QED BY <2>3, <2>4, <2>5, <2>7 DEF MemoryInv
<1>3. CASE /\ data' = [data EXCEPT ![t] = Changed(op, AsRead(c))]
           /\ at' = [at EXCEPT ![t] = IF op.kind \in ReadFirst THEN "lock" ELSE "open"]
           /\ UNCHANGED <<todo, lock>>
  <2>1. Types'
    BY <1>1, <1>3, SameGuarded DEF MemoryInv, Types, Places
  <2>2. /\ Now(t)' = Now(t) /\ data'[t] = Changed(op, AsRead(c))
        /\ at'[t] = IF op.kind \in ReadFirst THEN "lock" ELSE "open"
    BY <1>3 DEF MemoryInv, Types, Now
  <2>3. Rest(t)'
    BY <1>1, <1>3, <2>2 DEF MemoryInv, Fine, Rest, Asked
  <2>4. ASSUME op.file \in Guarded PROVE Held(t)'
    <3>1. at'[t] = "open" /\ lock[ProcessOf[t]] = t
      BY <1>1, <2>2, <2>4, KindOfNow DEF Held, Works
    <3> QED BY <1>1, <1>3, <2>2, <3>1 DEF Held, Works
  <2>5. Fine(t)'
    BY <2>2, <2>3, <2>4, SameGuarded DEF Fine
  <2>6. \A u \in Threads : u # t => at'[u] = at[u] /\ data'[u] = data[u]
    BY <1>3 DEF MemoryInv, Types
  <2> QED BY <1>1, <1>3, <2>1, <2>5, <2>6, OneSteps
<1> QED BY <1>2, <1>3 DEF Read

LEMMA OpenStep ==
  ASSUME MemoryInv, NEW t \in Threads, Open(t) PROVE MemoryInv' /\ Quiet
<1> DEFINE op == Now(t)
<1>1. at[t] = "open" /\ UNCHANGED <<stored, calls>> /\ Works(t)
  BY DEF Open, Works
<1>2. CASE Skipped(t) /\ Finishes(t) /\ UNCHANGED <<tmp, fd>>
  <2>1. op.file \notin Guarded
    BY <1>1, <1>2, KindOfNow DEF Skipped, Whole, Blind
  <2>2. /\ at' \in [Threads -> Places] /\ todo' \in [Threads -> Seq(Op)]
        /\ lock' \in [Processes -> Threads \cup {None}] /\ DOMAIN data' = Threads
        /\ Fine(t)' /\ Pend(t)' = Pend(t) \ {Now(t)} /\ lock' = Unlocked(t)
        /\ \A u \in Threads : u # t => at'[u] = at[u] /\ todo'[u] = todo[u] /\ data'[u] = data[u]
    BY <1>1, <1>2, FinishesFine
  <2>3. Types'
    BY <1>1, <1>2, <2>2, SameGuarded DEF MemoryInv, Types
  <2>4. \A u \in Threads : u # t => Fine(u)'
    BY <1>1, <1>2, <2>2, UnlockedKeeps, OthersStayFine
  <2>5. Pend(t)' = Pend(t)
    BY <1>1, <2>1, <2>2, NowPends
  <2>6. Quiet
    BY <1>1, <2>2, <2>5, SamePend DEF Quiet, Reads
  <2> QED BY <2>2, <2>3, <2>4, <2>6 DEF MemoryInv
<1>3. CASE ~Skipped(t) /\ Opened(t) /\ UNCHANGED <<lock, todo>>
  <2>1. /\ tmp' = IF Shared(op) THEN [tmp EXCEPT ![op.file] = Torn] ELSE tmp
        /\ fd' = [fd EXCEPT ![t] = IF Shared(op) THEN "tmp" ELSE "own"]
        /\ data' = [data EXCEPT ![t] = IF op.kind = "wipe" THEN Wiped ELSE data[t]]
        /\ at' = [at EXCEPT ![t] = "flush"]
    BY <1>3 DEF Opened
  <2>2. Types'
    BY <1>1, <1>3, <2>1, SameGuarded DEF MemoryInv, Types, Places
  <2>3. /\ Now(t)' = Now(t) /\ at'[t] = "flush"
        /\ fd'[t] = IF Shared(op) THEN "tmp" ELSE "own"
        /\ op.kind # "wipe" => data'[t] = data[t]
        /\ Shared(op) => tmp'[op.file] = Torn
        /\ \A f \in Files : f # op.file => tmp'[f] = tmp[f]
    BY <1>1, <1>3, <2>1, NowTyped DEF MemoryInv, Types, Now
  <2>4. Rest(t)'
    BY <1>1, <1>3, <2>3 DEF MemoryInv, Fine, Rest, Asked
  <2>5. ASSUME op.file \in Guarded PROVE Held(t)'
    <3>1. Held(t) /\ op.kind # "wipe"
      BY <1>1, <2>5, KindOfNow DEF Whole, Blind
    <3> QED BY <1>1, <1>3, <2>3, <3>1 DEF Held, Works, Shared
  <2>6. Fine(t)'
    BY <2>3, <2>4, <2>5, SameGuarded DEF Fine
  <2>7. \A u \in Threads : u # t => at'[u] = at[u] /\ data'[u] = data[u] /\ fd'[u] = fd[u]
    BY <2>1 DEF MemoryInv, Types
  <2> QED BY <1>1, <1>3, <2>2, <2>3, <2>6, <2>7, OneSteps
<1> QED BY <1>2, <1>3 DEF Open

LEMMA FlushStep ==
  ASSUME MemoryInv, NEW t \in Threads, Flush(t) PROVE MemoryInv' /\ Quiet
<1> DEFINE op == Now(t)
           f == op.file
<1>1. /\ at[t] = "flush" /\ Works(t) /\ UNCHANGED <<lock, todo, data, calls>>
      /\ tmp' = IF fd[t] = "tmp" THEN [tmp EXCEPT ![f] = Overlaid(tmp[f], data[t])] ELSE tmp
      /\ stored' = IF fd[t] = "path" THEN [stored EXCEPT ![f] = Overlaid(stored[f], data[t])] ELSE stored
      /\ fd' = [fd EXCEPT ![t] = "none"] /\ at' = [at EXCEPT ![t] = "replace"]
  BY DEF Flush, Works
<1>2. f \in Guarded => fd[t] # "path"
  BY <1>1, KindOfNow DEF Held
<1>3. \A g \in Guarded : stored'[g] = stored[g]
  BY <1>1, <1>2, GuardedTyped DEF MemoryInv, Types
<1>4. Types'
  BY <1>1, <1>3, SameGuarded DEF MemoryInv, Types, Places
<1>5. /\ Now(t)' = Now(t) /\ at'[t] = "replace"
      /\ fd[t] = "tmp" => tmp'[f] = Overlaid(tmp[f], data[t])
      /\ \A g \in Files : g # f => tmp'[g] = tmp[g]
  BY <1>1, NowTyped DEF MemoryInv, Types, Now
<1>6. Fine(t)'
  <2>1. Rest(t)'
    BY <1>1, <1>5 DEF MemoryInv, Fine, Rest, Asked
  <2>2. ASSUME f \in Guarded PROVE Held(t)'
    <3>1. Held(t)
      BY <1>1, <2>2, KindOfNow
    <3>2. Shared(op) => tmp'[f] = data[t]
      BY <1>1, <1>5, <3>1 DEF Held, Overlaid
    <3> QED BY <1>1, <1>3, <1>5, <2>2, <3>1, <3>2 DEF Held, Works, Shared
  <2> QED BY <1>5, <2>1, <2>2, SameGuarded DEF Fine
<1>7. ASSUME NEW u \in Threads, u # t PROVE Fine(u)'
  <2>1. at'[u] = at[u] /\ fd'[u] = fd[u]
    BY <1>1, <1>7 DEF MemoryInv, Types
  <2>2. Works(u) /\ Now(u).file \in Guarded => tmp'[Now(u).file] = tmp[Now(u).file]
    BY <1>1, <1>5, <1>7, Elsewhere, GuardedTyped
  <2> QED BY <1>1, <1>3, <2>1, <2>2, OthersStayFine
<1>8. Quiet
  BY <1>1, <1>3, SamePend, SameGuarded DEF Quiet, Reads
<1> QED BY <1>4, <1>6, <1>7, <1>8 DEF MemoryInv

LEMMA ReplaceStep ==
  ASSUME MemoryInv, NEW t \in Threads, Replace(t) PROVE MemoryInv' /\ (Quiet \/ Effected(t))
<1> DEFINE op == Now(t)
           f == op.file
<1>1. at[t] = "replace" /\ Works(t) /\ f \in Files /\ at[t] # "idle" /\ UNCHANGED calls
  BY NowTyped DEF Replace, Works
<1>2. f \in Guarded => /\ Held(t) /\ data[t] = Changed(op, Reads(f)) /\ data[t] \in Seq(Entries)
                       /\ data[t] # Missing
  <2> SUFFICES ASSUME f \in Guarded
               PROVE  /\ Held(t) /\ data[t] = Changed(op, Reads(f)) /\ data[t] \in Seq(Entries)
                      /\ data[t] # Missing
    OBVIOUS
  <2>1. Held(t) /\ op.kind \in Whole \cup Blind /\ op \in Op
    BY <1>1, KindOfNow, NowTyped
  <2>2. data[t] = Changed(op, Reads(f)) /\ Reads(f) \in Seq(Entries)
    BY <1>1, <2>1, GuardedTyped DEF Held, Reads
  <2>3. data[t] \in Seq(Entries)
    BY <2>1, <2>2, ChangedIsWhole
  <2> QED BY <2>1, <2>2, <2>3, NotSpecial
<1>3. CASE Shared(op) /\ tmp[f] = Missing /\ Ends(t) /\ UNCHANGED <<stored, tmp, fd>>
  <2>1. f \notin Guarded
    BY <1>1, <1>2, <1>3 DEF Held
  <2>2. Len(todo[t]) = 1 \/ \A i \in DOMAIN todo[t] : todo[t][i].kind = "wipe"
    <3>1. op = todo[t][1] /\ 1 \in DOMAIN todo[t] /\ op.kind # "clear"
      BY <1>1, <1>3, NowTyped DEF Shared, SharedTmp
    <3> QED BY <1>1, <3>1 DEF MemoryInv, Fine, Rest
  <2>3. /\ at' \in [Threads -> Places] /\ todo' \in [Threads -> Seq(Op)]
        /\ lock' \in [Processes -> Threads \cup {None}] /\ DOMAIN data' = Threads
        /\ Fine(t)' /\ Pend(t)' = Pend(t) \ {Now(t)} /\ lock' = Unlocked(t)
        /\ \A u \in Threads : u # t => at'[u] = at[u] /\ todo'[u] = todo[u] /\ data'[u] = data[u]
    BY <1>1, <1>3, <2>2, EndsFine
  <2>4. Types'
    BY <1>1, <1>3, <2>3, SameGuarded DEF MemoryInv, Types
  <2>5. \A u \in Threads : u # t => Fine(u)'
    BY <1>3, <2>3, UnlockedKeeps, OthersStayFine
  <2>6. Pend(t)' = Pend(t)
    BY <1>1, <2>1, <2>3, NowPends
  <2>7. Quiet
    BY <1>3, <2>3, <2>6, SamePend DEF Quiet, Reads
  <2> QED BY <2>3, <2>4, <2>5, <2>7 DEF MemoryInv
<1>4. CASE /\ stored' = [stored EXCEPT ![f] = IF Shared(op) THEN tmp[f] ELSE data[t]]
           /\ tmp' = IF Shared(op) THEN [tmp EXCEPT ![f] = Missing] ELSE tmp
           /\ fd' = [q \in Threads |-> Moved(q, f, Shared(op))]
           /\ Finishes(t)
  <2>1. /\ at' \in [Threads -> Places] /\ todo' \in [Threads -> Seq(Op)]
        /\ lock' \in [Processes -> Threads \cup {None}] /\ DOMAIN data' = Threads
        /\ Fine(t)' /\ Pend(t)' = Pend(t) \ {Now(t)} /\ lock' = Unlocked(t)
        /\ \A u \in Threads : u # t => at'[u] = at[u] /\ todo'[u] = todo[u] /\ data'[u] = data[u]
    BY <1>1, <1>4, FinishesFine
  <2>2. \A g \in Files : g # f => stored'[g] = stored[g] /\ tmp'[g] = tmp[g]
    BY <1>4 DEF MemoryInv, Types
  <2>3. f \in Guarded => stored'[f] = data[t]
    BY <1>1, <1>2, <1>4 DEF Held, MemoryInv, Types
  <2>4. Types'
    <3>1. \A g \in Guarded : stored'[g] \in Seq(Entries) \cup {Missing}
      BY <1>2, <2>2, <2>3, GuardedTyped
    <3> QED BY <1>1, <1>4, <2>1, <3>1, SameGuarded DEF MemoryInv, Types
  <2>5. ASSUME NEW u \in Threads, u # t PROVE Fine(u)'
    <3> SUFFICES ASSUME Works(u), Now(u).file \in Guarded PROVE fd'[u] = fd[u] /\ Now(u).file # f
      BY <2>1, <2>2, <2>5, UnlockedKeeps, OthersStayFine, GuardedTyped
    <3>1. Now(u).file # f
      BY <1>1, <2>5, Elsewhere
    <3>2. Moved(u, f, Shared(op)) = fd[u]
      BY <3>1 DEF Moved, Uses
    <3> QED BY <1>4, <3>1, <3>2
  <2>6. CASE f \in Guarded
    <3>1. AsRead(stored'[f]) = Changed(op, Reads(f))
      BY <1>2, <2>3, <2>6, NotSpecial
    <3>2. \A g \in Guarded : g # f => Reads(g)' = Reads(g)
      BY <2>2, GuardedTyped DEF Reads
    <3>3. \A g \in Guarded : Reads(g)' = IF g = f THEN Changed(op, Reads(g)) ELSE Reads(g)
      BY <3>1, <3>2 DEF Reads
    <3>4. \A u \in Threads : u # t => Pend(u)' = Pend(u)
      BY <2>1, SamePend
    <3>5. Effected(t)
      BY <1>1, <2>1, <2>6, <3>3, <3>4, NowPends DEF Effected
    <3> QED BY <2>1, <2>4, <2>5, <3>5 DEF MemoryInv
  <2>7. CASE f \notin Guarded
    <3>1. \A g \in Guarded : Reads(g)' = Reads(g)
      BY <2>2, <2>7, GuardedTyped DEF Reads
    <3>2. Pend(t)' = Pend(t)
      BY <1>1, <2>1, <2>7, NowPends
    <3>3. Quiet
      BY <2>1, <3>1, <3>2, SamePend DEF Quiet
    <3> QED BY <2>1, <2>4, <2>5, <3>3 DEF MemoryInv
  <2> QED BY <2>6, <2>7
<1> QED BY <1>3, <1>4 DEF Replace

LEMMA CallStep ==
  ASSUME MemoryInv, NEW t \in Threads, Call(t) PROVE MemoryInv' /\ Called(t)
<1>1. PICK c \in Calls[t] :
        LET ops == [k \in DOMAIN c |-> [file |-> c[k].file, kind |-> c[k].kind, key |-> c[k].key,
                                       id |-> calls + 1]]
        IN /\ todo' = [todo EXCEPT ![t] = ops]
           /\ at' = [at EXCEPT ![t] = First(ops[1])]
  BY DEF Call
<1> DEFINE ops == [k \in DOMAIN c |-> [file |-> c[k].file, kind |-> c[k].kind, key |-> c[k].key,
                                      id |-> calls + 1]]
<1>2. /\ at[t] = "idle" /\ calls < MaxCalls /\ calls' = calls + 1
      /\ UNCHANGED <<stored, tmp, lock, data, fd>>
  BY DEF Call
<1>3. c \in Seq([file : Files, kind : Kinds, key : Keys]) /\ c # <<>>
  BY MemoryAssumption
<1>4. calls + 1 \in 1..MaxCalls
  BY <1>2, MemoryAssumption DEF MemoryInv, Types
<1>5. Len(c) \in Nat /\ DOMAIN c = 1..Len(c) /\ Len(c) # 0
  BY <1>3, EmptySeq
<1>6. \A k \in DOMAIN c : ops[k] \in Op
  <2> SUFFICES ASSUME NEW k \in DOMAIN c PROVE ops[k] \in Op
    OBVIOUS
  <2>1. c[k] \in [file : Files, kind : Kinds, key : Keys]
    <3> HIDE DEF ops
    <3> QED BY <1>3, <1>5, ElementOfSeq
  <2>2. ops[k] = [file |-> c[k].file, kind |-> c[k].kind, key |-> c[k].key, id |-> calls + 1]
    OBVIOUS
  <2> QED BY <1>4, <2>1, <2>2 DEF Op
<1>7. ops \in Seq(Op) /\ DOMAIN ops = DOMAIN c /\ Len(ops) = Len(c) /\ 1 \in DOMAIN c /\ ops # <<>>
  <2>1. ops \in [1..Len(c) -> Op]
    BY <1>5, <1>6
  <2> HIDE DEF ops
  <2>2. ops \in Seq(Op) /\ DOMAIN ops = 1..Len(c)
    BY <1>5, <2>1
  <2>3. Len(ops) = Len(c)
    BY <1>5, <2>2
  <2>4. 1 \in 1..Len(c)
    BY <1>5
  <2> QED BY <1>5, <2>2, <2>3, <2>4
<1>8. \A k \in DOMAIN c : ops[k].file = c[k].file /\ ops[k].kind = c[k].kind
  OBVIOUS
<1>9. todo' = [todo EXCEPT ![t] = ops] /\ at' = [at EXCEPT ![t] = First(ops[1])]
  BY <1>1
<1> HIDE DEF ops
<1>10. /\ todo'[t] = ops /\ at'[t] = First(ops[1]) /\ at'[t] \in {"lock", "open", "read"}
       /\ Now(t)' = ops[1] /\ todo' \in [Threads -> Seq(Op)] /\ at' \in [Threads -> Places]
  BY <1>7, <1>9 DEF MemoryInv, Types, First, Now, Places
<1>11. Types'
  BY <1>2, <1>10, SameGuarded DEF MemoryInv, Types
<1>12. Rest(t)'
  <2>1. \A i \in DOMAIN c : Asked(t, ops[i])
    BY <1>8 DEF Asked
  <2>2. \A i \in DOMAIN c : \A k \in DOMAIN c : ops[i].file = ops[k].file => i = k
    BY <1>8, MemoryAssumption
  <2>3. Len(ops) = 1 \/ \E kind \in {"clear", "wipe"} : \A k \in DOMAIN c : ops[k].kind = kind
    BY <1>7, <1>8, MemoryAssumption
  <2> QED BY <1>7, <1>10, <2>1, <2>2, <2>3 DEF Rest, Asked
<1>13. Fine(t)'
  <2>1. at'[t] = "read" => ops[1].kind \notin {"clear", "wipe"}
    BY <1>10 DEF First, Blind, Whole
  <2>2. ASSUME ops[1].file \in Guarded PROVE Held(t)'
    <3>1. Asked(t, ops[1])
      BY <1>7, <1>8 DEF Asked
    <3>2. ops[1].kind \in Whole \cup Blind
      BY <2>2, <3>1, GuardedOps
    <3>3. at'[t] = "lock"
      BY <1>10, <3>2 DEF First
    <3> QED BY <3>3 DEF Held, Works
  <2> QED BY <1>10, <1>12, <2>1, <2>2, SameGuarded DEF Fine
<1>14. \A u \in Threads : u # t => at'[u] = at[u] /\ todo'[u] = todo[u]
  BY <1>9 DEF MemoryInv, Types
<1>15. \A u \in Threads : u # t => Fine(u)'
  BY <1>2, <1>14, OthersStayFine
<1>16. Called(t)
  <2>1. Pend(t) = {}
    <3>1. todo[t] = <<>>
      BY <1>2 DEF MemoryInv, Fine, Rest
    <3>2. DOMAIN <<>> = {}
      OBVIOUS
    <3> QED BY <3>1, <3>2 DEF Pend
  <2>2. Pend(t)' \subseteq {op \in Op : op.file \in Guarded}
    BY <1>6, <1>7, <1>10, SameGuarded DEF Pend
  <2> QED BY <1>2, <1>14, <2>1, <2>2, SamePend DEF Called, Reads
<1> QED BY <1>11, <1>13, <1>15, <1>16 DEF MemoryInv

LEMMA CrashStep ==
  ASSUME MemoryInv, NEW p \in Processes, Crash(p) PROVE MemoryInv' /\ Lost(p)
<1>1. /\ at' = [u \in Threads |-> IF ProcessOf[u] = p THEN "idle" ELSE at[u]]
      /\ todo' = [u \in Threads |-> IF ProcessOf[u] = p THEN <<>> ELSE todo[u]]
      /\ data' = [u \in Threads |-> IF ProcessOf[u] = p THEN <<>> ELSE data[u]]
      /\ fd' = [u \in Threads |-> IF ProcessOf[u] = p THEN "none" ELSE fd[u]]
      /\ lock' = [lock EXCEPT ![p] = None] /\ UNCHANGED <<stored, tmp, calls>>
  BY DEF Crash
<1>2. <<>> \in Seq(Op) /\ DOMAIN <<>> = {}
  OBVIOUS
<1>3. Types'
  BY <1>1, <1>2, SameGuarded DEF MemoryInv, Types, Places
<1>4. ASSUME NEW u \in Threads PROVE Fine(u)' /\ Pend(u)' = IF ProcessOf[u] = p THEN {} ELSE Pend(u)
  <2>1. CASE ProcessOf[u] = p
    <3>1. at'[u] = "idle" /\ todo'[u] = <<>>
      BY <1>1, <2>1
    <3> QED BY <1>2, <2>1, <3>1 DEF Fine, Rest, Pend
  <2>2. CASE ProcessOf[u] # p
    <3>1. at'[u] = at[u] /\ todo'[u] = todo[u] /\ data'[u] = data[u] /\ fd'[u] = fd[u]
      BY <1>1, <2>2
    <3>2. lock'[ProcessOf[u]] = lock[ProcessOf[u]]
      BY <1>1, <2>2 DEF MemoryInv, Types, Processes
    <3> QED BY <1>1, <2>2, <3>1, <3>2, OthersStayFine, SamePend
  <2> QED BY <2>1, <2>2
<1> QED BY <1>1, <1>3, <1>4 DEF MemoryInv, Lost, Reads

-----------------------------------------------------------------------------
LEMMA MemoryInit == Init => MemoryInv
<1> SUFFICES ASSUME Init PROVE MemoryInv
  OBVIOUS
<1>1. <<>> \in Seq(Op) /\ DOMAIN <<>> = {}
  OBVIOUS
<1>2. Types
  BY <1>1 DEF Init, Types, Places, Guarded
<1>3. \A t \in Threads : Fine(t)
  BY <1>1 DEF Init, Fine, Rest
<1> QED BY <1>2, <1>3 DEF MemoryInv

LEMMA MemoryNext ==
  MemoryInv /\ [Next]_vars =>
    /\ MemoryInv'
    /\ Quiet \/ (\E t \in Threads : Effected(t) \/ Called(t)) \/ \E p \in Processes : Lost(p)
<1> SUFFICES ASSUME MemoryInv, [Next]_vars
             PROVE  /\ MemoryInv'
                    /\ \/ Quiet \/ (\E t \in Threads : Effected(t) \/ Called(t))
                       \/ \E p \in Processes : Lost(p)
  OBVIOUS
<1>1. ASSUME NEW t \in Threads, Call(t) PROVE MemoryInv' /\ Called(t)
  BY <1>1, CallStep
<1>2. ASSUME NEW t \in Threads, Step(t) PROVE MemoryInv' /\ (Quiet \/ Effected(t))
  BY <1>2, AcquireStep, ReadStep, OpenStep, FlushStep, ReplaceStep DEF Step
<1>3. ASSUME NEW p \in Processes, Crash(p) PROVE MemoryInv' /\ Lost(p)
  BY <1>3, CrashStep
<1>4. CASE UNCHANGED vars
  <2>1. Types'
    BY <1>4, SameGuarded DEF MemoryInv, Types, vars
  <2>2. \A u \in Threads : Fine(u)'
    BY <1>4, OthersStayFine DEF vars
  <2>3. Quiet
    BY <1>4, SamePend DEF vars, Quiet, Reads
  <2> QED BY <2>1, <2>2, <2>3 DEF MemoryInv
<1> QED BY <1>1, <1>2, <1>3, <1>4 DEF Next

(* A file that the threads of one process write under _WRITE_LOCK is an      *)
(* atomic memory: each save takes effect at once and once, none is lost and  *)
(* none comes back, whatever overlaps and whoever dies (core/memory.py).     *)
THEOREM GuardedFilesAreAtomic == Spec => ImplementsAtomicMemory
<1> DEFINE mem == [f \in Guarded |-> AsRead(stored[f])]
           pend == [t \in Threads |-> Pend(t)]
<1>1. Init => Memory!AtomicInit
  <2> SUFFICES ASSUME Init PROVE Memory!AtomicInit
    OBVIOUS
  <2>1. \A f \in Guarded : AsRead(stored[f]) = <<>>
    BY DEF Init, AsRead, Guarded
  <2>2. DOMAIN <<>> = {}
    OBVIOUS
  <2>3. \A t \in Threads : {todo[t][k] : k \in {i \in DOMAIN todo[t] : todo[t][i].file \in Guarded}} = {}
    BY <2>2 DEF Init
  <2> QED BY <2>1, <2>3 DEF Memory!AtomicInit
<1>2. ASSUME MemoryInv, [Next]_vars
      PROVE  [Memory!AtomicNext]_<<mem, pend>>
  <2>1. mem' = [f \in Guarded |-> Reads(f)'] /\ pend' = [t \in Threads |-> Pend(t)']
    BY SameGuarded DEF Reads
  <2>2. CASE Quiet
    BY <2>1, <2>2 DEF Quiet, Reads
  <2>3. ASSUME NEW t \in Threads, Effected(t) PROVE Memory!AtomicNext
    <3>1. mem' = [mem EXCEPT ![Now(t).file] = Changed(Now(t), mem[Now(t).file])]
      BY <2>1, <2>3 DEF Effected, Reads
    <3>2. pend' = [pend EXCEPT ![t] = pend[t] \ {Now(t)}] /\ Now(t) \in pend[t]
      BY <2>1, <2>3 DEF Effected
    <3>3. [u \in Threads |-> {todo[u][k] : k \in {i \in DOMAIN todo[u] : todo[u][i].file \in Guarded}}]
            = pend
      BY DEF Pend
    <3>4. \E op \in pend[t] : Memory!AtomicEffect(t, op)
      <4>1. PICK op : op = Now(t) /\ op \in pend[t]
        BY <3>2
      <4>2. Memory!AtomicEffect(t, op)
        BY <4>1, <3>1, <3>2 DEF Memory!AtomicEffect, Pend
      <4> QED BY <4>1, <4>2 DEF Memory!AtomicEffect
    <3> HIDE DEF pend
    <3> QED BY <3>3, <3>4 DEF Memory!AtomicNext
  <2>4. ASSUME NEW t \in Threads, Called(t) PROVE Memory!AtomicNext
    <3>1. mem' = mem /\ pend[t] = {}
      BY <2>1, <2>4 DEF Called, Reads
    <3>2. pend'[t] \in SUBSET {op \in Op : op.file \in Guarded} /\ pend' = [pend EXCEPT ![t] = pend'[t]]
      BY <2>1, <2>4 DEF Called
    <3>3. Memory!AtomicCall(t)
      BY <3>1, <3>2 DEF Memory!AtomicCall, Pend
    <3> QED BY <3>3 DEF Memory!AtomicNext
  <2>5. ASSUME NEW p \in Processes, Lost(p)
        PROVE  Memory!AtomicNext
    <3>1. mem' = mem /\ pend' = [t \in Threads |-> IF ProcessOf[t] = p THEN {} ELSE pend[t]]
      BY <2>1, <2>5 DEF Lost, Reads
    <3>2. Memory!AtomicLoss({t \in Threads : ProcessOf[t] = p})
      BY <3>1 DEF Memory!AtomicLoss, Pend
    <3> QED BY <3>2 DEF Memory!AtomicNext
  <2>6. \/ Quiet \/ (\E t \in Threads : Effected(t) \/ Called(t))
        \/ \E p \in Processes : Lost(p)
    BY <1>2, MemoryNext
  <2> QED BY <2>2, <2>3, <2>4, <2>5, <2>6
<1>3. MemoryInv /\ [Next]_vars => MemoryInv'
  BY MemoryNext
<1> QED BY <1>1, <1>2, <1>3, MemoryInit, PTL DEF Spec, ImplementsAtomicMemory, Memory!AtomicSpec,
   Pend

-----------------------------------------------------------------------------
(* What the files hold, and what the threads are to write to them.           *)
(* The files that only record_scan writes.                                   *)
Pushed == {f \in Files : \A t \in Threads : \A op \in OpsOn(f, t) : op.kind = "push"}
Short(c) == Size(AsRead(c)) <= HistoryMax

(* {} is written only to clear all, the shared temporary file only by who    *)
(* opened it, and a history no longer than it may be.                        *)
Written(t) ==
  /\ Content(data[t])
  /\ data[t] = Wiped => at[t] \in {"flush", "replace"} /\ Now(t).kind = "wipe"
  /\ fd[t] \in {"none", "own", "tmp", "path", "gone"}
  /\ fd[t] \in {"tmp", "path"} => at[t] = "flush" /\ Shared(Now(t))
  /\ at[t] \in {"open", "flush", "replace"} /\ Now(t).file \in Pushed => Short(data[t])

OnDisk(f) ==
  /\ stored[f] \in {Torn, Missing} \/ Content(stored[f])
  /\ tmp[f] \in {Torn, Missing} \/ Content(tmp[f])
  /\ f \in OwnTmp => stored[f] # Torn /\ stored[f] # Wiped
  /\ f \in Pushed => Short(stored[f]) /\ Short(tmp[f])

StoreInv ==
  /\ \A t \in Threads : Written(t)
  /\ \A f \in Files : OnDisk(f)
  /\ calls \in 0..MaxCalls

LEMMA SameFiles == OwnTmp' = OwnTmp /\ Pushed' = Pushed
BY DEF OwnTmp, Pushed, OpsOn

LEMMA EmptyIsShort == <<>> \in Seq(Entries) /\ Short(<<>>) /\ Short(Torn) /\ Short(Missing) /\ Short(Wiped)
<1>1. <<>> \in Seq(Entries) /\ Len(<<>>) = 0
  OBVIOUS
<1>2. Size(<<>>) = 0
  BY <1>1, NotSpecial DEF Size
<1>3. \A c \in {<<>>, Torn, Missing, Wiped} : AsRead(c) = <<>>
  BY <1>1, NotSpecial DEF AsRead
<1> QED
  BY <1>1, <1>2, <1>3, MemoryAssumption DEF Short

LEMMA ReadWhole ==
  ASSUME NEW c, c \in {Torn, Missing} \/ Content(c)
  PROVE  AsRead(c) \in Seq(Entries)
BY EmptyIsShort, NotSpecial DEF Content, AsRead

(* The places of a set of positions are counted from 1 on, so each has one.  *)
LEMMA NthIn ==
  ASSUME NEW n \in Nat, NEW K \in SUBSET (1..n)
  PROVE  /\ Cardinality(K) \in Nat
         /\ \A k \in 1..Cardinality(K) :
              Nth(K, k) \in K /\ Cardinality({j \in K : j <= Nth(K, k)}) = k
<1> DEFINE m == Cardinality(K)
           upto(i) == {j \in K : j <= i}
           rank == [i \in K |-> Cardinality(upto(i))]
<1>1. IsFiniteSet(K) /\ m \in Nat /\ IsFiniteSet(1..m) /\ Cardinality(1..m) = m
  <2>1. IsFiniteSet(1..n)
    BY FS_Interval
  <2>2. IsFiniteSet(K) /\ m \in Nat
    BY <2>1, FS_Subset, FS_CardinalityType
  <2> QED
    BY <2>2, FS_Interval
<1>2. \A i \in K : /\ i \in upto(i) /\ upto(i) \in SUBSET K
                   /\ \A l \in K : i < l => upto(i) \in SUBSET upto(l) /\ l \notin upto(i)
  <2>1. \A i, l, j \in K : i <= i /\ (i < l => (j <= i => j <= l) /\ ~(l <= i))
    OBVIOUS
  <2> QED
    BY <2>1
<1> HIDE DEF upto, m
<1>3. \A i \in K : Cardinality(upto(i)) \in 1..m /\ IsFiniteSet(upto(i))
  BY <1>1, <1>2, FS_Subset, FS_CardinalityType, FS_EmptySet DEF m
<1>4. \A i, l \in K : i < l => rank[i] # rank[l]
  BY <1>2, <1>3, FS_Subset
<1>5. rank \in Injection(K, 1..m)
  <2>1. rank \in [K -> 1..m]
    BY <1>3
  <2> HIDE DEF rank
  <2> QED
    BY <1>4, <2>1 DEF Injection, IsInjective
<1>6. rank \in Surjection(K, 1..m)
  <2> HIDE DEF rank
  <2> QED
    BY <1>1, <1>5, FS_Injection DEF m
<1>7. \A k \in 1..m : \E i \in K : Cardinality(upto(i)) = k
  BY <1>6 DEF Surjection
<1> QED
  BY <1>1, <1>7 DEF Nth, upto, m

(* A selection's elements are the selected ones, each once.                  *)
LEMMA SelectedFrom ==
  ASSUME NEW T, NEW s \in Seq(T), NEW K \in SUBSET DOMAIN s
  PROVE  /\ Selected(s, K) \in Seq(T)
         /\ DOMAIN Selected(s, K) = 1..Cardinality(K) /\ Cardinality(K) \in Nat
         /\ \A i \in 1..Cardinality(K) : Nth(K, i) \in K /\ Selected(s, K)[i] = s[Nth(K, i)]
         /\ \A i, j \in 1..Cardinality(K) : Nth(K, i) = Nth(K, j) => i = j
<1> DEFINE n == Cardinality(K)
<1>1. n \in Nat /\ \A k \in 1..n : Nth(K, k) \in K /\ Cardinality({j \in K : j <= Nth(K, k)}) = k
  <2>1. Len(s) \in Nat /\ DOMAIN s = 1..Len(s)
    OBVIOUS
  <2> QED
    BY <2>1, NthIn
<1>2. Selected(s, K) = [k \in 1..n |-> s[Nth(K, k)]]
  BY DEF Selected
<1>3. \A i, j \in 1..n : Nth(K, i) = Nth(K, j) => i = j
  BY <1>1
<1> HIDE DEF n
<1>4. Selected(s, K) \in Seq(T)
  <2>1. \A i \in DOMAIN s : s[i] \in T
    OBVIOUS
  <2>2. \A k \in 1..n : s[Nth(K, k)] \in T
    BY <1>1, <2>1
  <2> QED
    BY <1>1, <1>2, <2>2
<1> QED
  BY <1>1, <1>2, <1>3, <1>4 DEF n

(* What an operation writes, whatever it is.                                 *)
LEMMA ChangedTyped ==
  ASSUME NEW op \in Op, NEW c \in Seq(Entries)
  PROVE  /\ Content(Changed(op, c))
         /\ Changed(op, c) = Wiped => op.kind = "wipe"
         /\ op.kind = "push" => Short(Changed(op, c))
<1> DEFINE e == <<op.key, op.id>>
<1>1. e \in Entries /\ <<e>> \in Seq(Entries)
  BY DEF Entries, Op
<1>2. op.kind \in Whole \cup Blind => Changed(op, c) \in Seq(Entries)
  BY ChangedIsWhole
<1>3. op.kind = "mark" => Changed(op, c) \in Seq(Entries)
  <2>1. Changed(op, c) = With(c, e) \/ op.kind # "mark"
    BY DEF Changed
  <2> HIDE DEF e
  <2>2. CASE Has(c, e[1])
    <3>1. [k \in DOMAIN c |-> IF c[k][1] = e[1] THEN e ELSE c[k]] \in [1..Len(c) -> Entries]
      BY <1>1
    <3>2. [k \in DOMAIN c |-> IF c[k][1] = e[1] THEN e ELSE c[k]] \in Seq(Entries)
      BY <3>1
    <3> QED
      BY <2>1, <2>2, <3>2 DEF With
  <2>3. CASE ~Has(c, e[1])
    BY <1>1, <2>1, <2>3 DEF With
  <2> QED
    BY <2>2, <2>3
<1>4. op.kind \in {"append", "once", "count"} => Changed(op, c) \in Seq(Entries)
  <2>1. Append(c, e) \in Seq(Entries)
    BY <1>1
  <2> QED
    BY <2>1 DEF Changed
<1>5. op.kind = "remove" => Changed(op, c) \in Seq(Entries)
  <2>1. {k \in DOMAIN c : c[k][1] # op.key} \in SUBSET DOMAIN c
    OBVIOUS
  <2>2. Without(c, op.key) \in Seq(Entries)
    BY <2>1, SelectedFrom DEF Without
  <2> QED
    BY <2>2 DEF Changed
<1>6. op.kind = "wipe" => Changed(op, c) = Wiped
  BY DEF Changed
<1>7. op.kind \in Whole \cup Blind \cup ReadFirst \cup {"count", "wipe"}
  BY DEF Op, Kinds
<1>8. op.kind # "wipe" => Changed(op, c) \in Seq(Entries)
  BY <1>2, <1>3, <1>4, <1>5, <1>7 DEF ReadFirst
<1>9. op.kind = "push" => Short(Changed(op, c))
  <2> SUFFICES ASSUME op.kind = "push" PROVE Short(Changed(op, c))
    OBVIOUS
  <2> DEFINE d == <<e>> \o c
             n == IF Len(d) < HistoryMax THEN Len(d) ELSE HistoryMax
  <2>1. Changed(op, c) = SubSeq(d, 1, n)
    BY DEF Changed, Newest
  <2>2. d \in Seq(Entries)
    BY <1>1
  <2> HIDE DEF d, e
  <2>3. n \in Nat /\ n <= HistoryMax
    BY <2>2, MemoryAssumption
  <2> HIDE DEF n
  <2>4. Len(SubSeq(d, 1, n)) = n
    BY <2>2, <2>3
  <2>5. Changed(op, c) \in Seq(Entries)
    BY <1>8
  <2>6. AsRead(Changed(op, c)) = Changed(op, c) /\ Size(Changed(op, c)) = Len(Changed(op, c))
    BY <2>5, NotSpecial DEF Size
  <2> QED
    BY <2>1, <2>3, <2>4, <2>6 DEF Short
<1> QED
  BY <1>6, <1>8, <1>9, NotSpecial DEF Content

(* Whoever works on one of these files is to do what is done to it.          *)
KindsKept ==
  \A t \in Threads : at[t] # "idle" =>
    /\ Now(t).file \in OwnTmp => ~Shared(Now(t)) /\ Now(t).kind # "wipe"
    /\ Now(t).file \in Pushed => Now(t).kind = "push"

LEMMA KindsAlwaysKept == MemoryInv => KindsKept
<1> SUFFICES ASSUME MemoryInv, NEW t \in Threads, at[t] # "idle"
             PROVE  /\ Now(t).file \in OwnTmp => ~Shared(Now(t)) /\ Now(t).kind # "wipe"
                    /\ Now(t).file \in Pushed => Now(t).kind = "push"
  BY DEF KindsKept
<1>1. PICK c \in Calls[t] : \E k \in DOMAIN c : c[k].file = Now(t).file /\ c[k].kind = Now(t).kind
  BY NowTyped DEF Asked
<1>2. PICK k \in DOMAIN c : c[k].file = Now(t).file /\ c[k].kind = Now(t).kind
  BY <1>1
<1>3. c[k] \in OpsOn(Now(t).file, t)
  BY <1>2 DEF OpsOn
<1> QED
  BY <1>2, <1>3 DEF OwnTmp, Pushed, Shared, SharedTmp

LEMMA OthersWritten ==
  ASSUME NEW u \in Threads, Written(u), at'[u] = at[u], todo'[u] = todo[u], data'[u] = data[u],
         fd'[u] \in {fd[u], "gone"} \/ (fd[u] = "tmp" /\ fd'[u] = "path")
  PROVE  Written(u)'
<1>1. Now(u)' = Now(u) /\ Pushed' = Pushed
  BY SameFiles DEF Now
<1> QED
  BY <1>1 DEF Written, Content, Shared, Short, Size, AsRead

LEMMA AtRestWritten ==
  ASSUME NEW t \in Threads, data'[t] = <<>>, fd'[t] \in {"none", "own", "gone"}
  PROVE  Written(t)'
BY EmptyIsShort, NotSpecial DEF Written, Content, Short, Size, AsRead

LEMMA SameOnDisk ==
  ASSUME NEW f \in Files, OnDisk(f), stored'[f] = stored[f], tmp'[f] = tmp[f]
  PROVE  OnDisk(f)'
BY SameFiles DEF OnDisk, Content, Short, Size, AsRead

(* A call goes on to its next operation or ends, with nothing to write.      *)
LEMMA FinishesWritten ==
  ASSUME MemoryInv, NEW t \in Threads, Finishes(t) \/ Ends(t), fd'[t] \in {"none", "own", "gone"}
  PROVE  /\ Written(t)'
         /\ \A u \in Threads : u # t => at'[u] = at[u] /\ todo'[u] = todo[u] /\ data'[u] = data[u]
<1>1. DOMAIN data = Threads /\ DOMAIN at = Threads /\ DOMAIN todo = Threads
  BY DEF MemoryInv, Types
<1>2. data' = [data EXCEPT ![t] = <<>>]
  BY DEF Finishes, Ends
<1>3. \A u \in Threads : u # t => at'[u] = at[u] /\ todo'[u] = todo[u]
  BY <1>1 DEF Finishes, Ends
<1> QED
  BY <1>1, <1>2, <1>3, AtRestWritten

LEMMA CallStores ==
  ASSUME MemoryInv, StoreInv, MemoryInv', NEW t \in Threads, Call(t)
  PROVE  StoreInv'
<1>1. PICK c \in Calls[t] :
        LET ops == [k \in DOMAIN c |-> [file |-> c[k].file, kind |-> c[k].kind, key |-> c[k].key,
                                       id |-> calls + 1]]
        IN /\ todo' = [todo EXCEPT ![t] = ops]
           /\ at' = [at EXCEPT ![t] = First(ops[1])]
  BY DEF Call
<1> DEFINE op == [file |-> c[1].file, kind |-> c[1].kind, key |-> c[1].key, id |-> calls + 1]
           ops == [k \in DOMAIN c |-> [file |-> c[k].file, kind |-> c[k].kind, key |-> c[k].key,
                                      id |-> calls + 1]]
<1>2. /\ at[t] = "idle" /\ calls < MaxCalls /\ calls' = calls + 1
      /\ UNCHANGED <<stored, tmp, lock, data, fd>>
  BY DEF Call
<1>3. DOMAIN at = Threads /\ DOMAIN todo = Threads
  BY DEF MemoryInv, Types
<1>4. /\ todo'[t] = ops /\ at'[t] = First(ops[1])
      /\ \A u \in Threads : u # t => at'[u] = at[u] /\ todo'[u] = todo[u]
  BY <1>1, <1>3
<1> HIDE DEF ops
<1>5. Now(t)' = ops[1]
  BY <1>4 DEF Now
<1>6. at'[t] \in {"lock", "open", "read"} /\ at'[t] = "open" => ops[1].kind = "wipe"
  BY <1>4 DEF First
<1>7. KindsKept'
  BY KindsAlwaysKept, PTL
<1>8. ~(at'[t] = "open" /\ Now(t)'.file \in Pushed')
  BY <1>5, <1>6, <1>7 DEF KindsKept
<1>9. Written(t)'
  BY <1>2, <1>4, <1>6, <1>8 DEF StoreInv, Written, Content, First
<1>10. \A u \in Threads : u # t => Written(u)'
  BY <1>2, <1>4, OthersWritten DEF StoreInv
<1>11. \A f \in Files : OnDisk(f)'
  BY <1>2, SameOnDisk DEF StoreInv
<1>12. calls' \in 0..MaxCalls
  BY <1>2, MemoryAssumption DEF StoreInv
<1> QED
  BY <1>9, <1>10, <1>11, <1>12 DEF StoreInv

LEMMA AcquireStores ==
  ASSUME MemoryInv, StoreInv, NEW t \in Threads, Acquire(t)
  PROVE  StoreInv'
<1>1. /\ at[t] = "lock"
      /\ at' = [at EXCEPT ![t] = IF Now(t).kind \in Whole THEN "read" ELSE "open"]
      /\ data' = [data EXCEPT ![t] = IF Now(t).kind \in Blind THEN Changed(Now(t), <<>>) ELSE data[t]]
      /\ UNCHANGED <<stored, tmp, todo, fd, calls>>
  BY DEF Acquire
<1>2. DOMAIN at = Threads /\ DOMAIN data = Threads
  BY DEF MemoryInv, Types
<1>3. /\ Now(t) \in Op /\ Now(t)' = Now(t) /\ Pushed' = Pushed /\ KindsKept
  BY <1>1, NowTyped, KindsAlwaysKept, SameFiles DEF Now
<1>4. /\ Content(Changed(Now(t), <<>>))
      /\ Now(t).kind \in Blind => Changed(Now(t), <<>>) # Wiped
  BY <1>3, ChangedTyped, EmptyIsShort DEF Blind
<1>5. Written(t)'
  <2>1. at'[t] \in {"read", "open"} /\ ~(at'[t] = "open" /\ Now(t).file \in Pushed)
    BY <1>1, <1>2, <1>3 DEF KindsKept, Whole
  <2>2. Content(data'[t]) /\ data'[t] # Wiped
    BY <1>1, <1>2, <1>4 DEF StoreInv, Written
  <2>3. fd'[t] \in {"none", "own", "gone"}
    BY <1>1 DEF StoreInv, Written
  <2>4. Content(data[t])' = Content(data'[t])
    BY DEF Content
  <2> QED
    BY <1>3, <2>1, <2>2, <2>3, <2>4 DEF Written
<1>6. \A u \in Threads : u # t => Written(u)'
  BY <1>1, <1>2, OthersWritten DEF StoreInv
<1>7. \A f \in Files : OnDisk(f)'
  BY <1>1, SameOnDisk DEF StoreInv
<1> QED
  BY <1>1, <1>5, <1>6, <1>7 DEF StoreInv

LEMMA ReadStores ==
  ASSUME MemoryInv, StoreInv, NEW t \in Threads, Read(t)
  PROVE  StoreInv'
<1> DEFINE op == Now(t)
           c == stored[op.file]
<1>1. /\ at[t] = "read" /\ UNCHANGED <<stored, tmp, fd, calls>>
      /\ \/ Ends(t)
         \/ /\ data' = [data EXCEPT ![t] = Changed(op, AsRead(c))]
            /\ at' = [at EXCEPT ![t] = IF op.kind \in ReadFirst THEN "lock" ELSE "open"]
            /\ UNCHANGED <<todo, lock>>
  BY DEF Read
<1>2. DOMAIN at = Threads /\ DOMAIN data = Threads /\ Fine(t)
  BY DEF MemoryInv, Types
<1>3. /\ op \in Op /\ op.file \in Files /\ KindsKept /\ op.kind # "wipe"
  BY <1>1, <1>2, NowTyped, KindsAlwaysKept DEF Fine
<1>4. fd'[t] \in {"none", "own", "gone"}
  BY <1>1 DEF StoreInv, Written
<1>5. \A f \in Files : OnDisk(f)'
  BY <1>1, SameOnDisk DEF StoreInv
<1>6. CASE Ends(t)
  <2>1. \A u \in Threads : u # t => Written(u)'
    BY <1>1, <1>4, <1>6, FinishesWritten, OthersWritten DEF StoreInv
  <2> QED
    BY <1>1, <1>4, <1>5, <1>6, <2>1, FinishesWritten DEF StoreInv
<1>7. CASE ~Ends(t)
  <2>1. AsRead(c) \in Seq(Entries)
    BY <1>3, ReadWhole DEF StoreInv, OnDisk
  <2> DEFINE new == Changed(op, AsRead(c))
  <2>2. Content(new) /\ new # Wiped /\ (op.kind = "push" => Short(new))
    BY <1>3, <2>1, ChangedTyped
  <2> HIDE DEF new
  <2>3. /\ data'[t] = new /\ at'[t] \in {"lock", "open"} /\ Now(t)' = op
        /\ \A u \in Threads : u # t => at'[u] = at[u] /\ todo'[u] = todo[u] /\ data'[u] = data[u]
    BY <1>1, <1>2, <1>7 DEF new, Now
  <2>4. Content(data[t])' = Content(data'[t]) /\ Short(data[t])' = Short(data'[t])
    BY DEF Content, Short, Size, AsRead
  <2>5. op.file \in Pushed => Short(new)
    BY <1>1, <1>3, <2>2 DEF KindsKept
  <2>6. Written(t)'
    BY <1>4, <2>2, <2>3, <2>4, <2>5, SameFiles DEF Written
  <2>7. \A u \in Threads : u # t => Written(u)'
    BY <1>1, <2>3, OthersWritten DEF StoreInv
  <2> QED
    BY <1>1, <1>5, <2>6, <2>7 DEF StoreInv
<1> QED
  BY <1>6, <1>7

LEMMA OpenStores ==
  ASSUME MemoryInv, StoreInv, NEW t \in Threads, Open(t)
  PROVE  StoreInv'
<1> DEFINE op == Now(t)
<1>1. at[t] = "open" /\ UNCHANGED <<stored, calls>>
  BY DEF Open
<1>2. /\ DOMAIN at = Threads /\ DOMAIN data = Threads /\ DOMAIN fd = Threads /\ DOMAIN tmp = Files
      /\ op \in Op /\ op.file \in Files /\ KindsKept /\ Written(t)
  BY <1>1, NowTyped, KindsAlwaysKept DEF MemoryInv, Types, StoreInv
<1>3. CASE Finishes(t) /\ UNCHANGED <<tmp, fd>>
  <2>1. fd'[t] \in {"none", "own", "gone"}
    BY <1>1, <1>2, <1>3 DEF Written
  <2>2. \A u \in Threads : Written(u)'
    BY <1>3, <2>1, FinishesWritten, OthersWritten DEF StoreInv
  <2>3. \A f \in Files : OnDisk(f)'
    BY <1>1, <1>3, SameOnDisk DEF StoreInv
  <2> QED
    BY <1>1, <2>2, <2>3 DEF StoreInv
<1>4. CASE Opened(t) /\ UNCHANGED <<lock, todo>>
  <2>1. /\ tmp' = IF Shared(op) THEN [tmp EXCEPT ![op.file] = Torn] ELSE tmp
        /\ fd' = [fd EXCEPT ![t] = IF Shared(op) THEN "tmp" ELSE "own"]
        /\ data' = [data EXCEPT ![t] = IF op.kind = "wipe" THEN Wiped ELSE data[t]]
        /\ at' = [at EXCEPT ![t] = "flush"]
    BY <1>4 DEF Opened
  <2>2. Now(t)' = op
    BY <1>4 DEF Now
  <2>3. /\ at'[t] = "flush" /\ fd'[t] = IF Shared(op) THEN "tmp" ELSE "own"
        /\ data'[t] = IF op.kind = "wipe" THEN Wiped ELSE data[t]
    BY <1>2, <2>1
  <2>4. \A u \in Threads : u # t => at'[u] = at[u] /\ data'[u] = data[u] /\ fd'[u] = fd[u]
    BY <1>2, <2>1
  <2>5. Content(data[t])' = Content(data'[t]) /\ Short(data[t])' = Short(data'[t])
        /\ Shared(op)' = Shared(op)
    BY <2>2 DEF Content, Short, Size, AsRead, Shared
  <2>6. Written(t)'
    <3>1. Content(data'[t]) /\ (data'[t] = Wiped => op.kind = "wipe")
      BY <1>1, <1>2, <2>3 DEF Written, Content
    <3>2. op.file \in Pushed => Short(data'[t])
      BY <1>1, <1>2, <2>3, EmptyIsShort DEF Written
    <3>3. fd'[t] \in {"tmp", "own"} /\ (fd'[t] = "tmp" => Shared(op))
      BY <2>3
    <3>4. Now(t).file' = op.file /\ Now(t).kind' = op.kind /\ Shared(Now(t))' = Shared(op)
      BY <2>2 DEF Shared
    <3> HIDE DEF op
    <3> QED
      BY <2>3, <2>5, <3>1, <3>2, <3>3, <3>4, SameFiles DEF Written
  <2>7. \A u \in Threads : u # t => Written(u)'
    BY <1>4, <2>4, OthersWritten DEF StoreInv
  <2>8. ASSUME NEW f \in Files PROVE OnDisk(f)'
    <3>1. OnDisk(f) /\ stored'[f] = stored[f] /\ tmp'[f] \in {tmp[f], Torn}
      BY <1>1, <1>2, <2>1 DEF StoreInv
    <3>2. Short(Torn)
      BY EmptyIsShort
    <3> QED
      BY <3>1, <3>2, SameFiles DEF OnDisk, Content, Short, Size, AsRead
  <2> QED
    BY <1>1, <2>6, <2>7, <2>8 DEF StoreInv
<1> QED
  BY <1>3, <1>4 DEF Open

LEMMA FlushStores ==
  ASSUME MemoryInv, StoreInv, NEW t \in Threads, Flush(t)
  PROVE  StoreInv'
<1> DEFINE g == Now(t).file
<1>1. /\ at[t] = "flush" /\ UNCHANGED <<lock, todo, data, calls>>
      /\ tmp' = IF fd[t] = "tmp" THEN [tmp EXCEPT ![g] = Overlaid(tmp[g], data[t])] ELSE tmp
      /\ stored' = IF fd[t] = "path" THEN [stored EXCEPT ![g] = Overlaid(stored[g], data[t])] ELSE stored
      /\ fd' = [fd EXCEPT ![t] = "none"] /\ at' = [at EXCEPT ![t] = "replace"]
  BY DEF Flush
<1>2. /\ DOMAIN at = Threads /\ DOMAIN data = Threads /\ DOMAIN fd = Threads
      /\ DOMAIN tmp = Files /\ DOMAIN stored = Files
      /\ g \in Files /\ KindsKept /\ Written(t)
  BY <1>1, NowTyped, KindsAlwaysKept DEF MemoryInv, Types, StoreInv
<1>3. Written(t)'
  <2>1. at'[t] = "replace" /\ fd'[t] = "none" /\ Now(t)' = Now(t) /\ data' = data
    BY <1>1, <1>2 DEF Now
  <2> QED
    BY <1>1, <1>2, <2>1, SameFiles DEF Written, Content, Short, Size, AsRead
<1>4. \A u \in Threads : u # t => Written(u)'
  <2>1. \A u \in Threads : u # t => at'[u] = at[u] /\ fd'[u] = fd[u]
    BY <1>1, <1>2
  <2> QED
    BY <1>1, <2>1, OthersWritten DEF StoreInv
<1>5. ASSUME NEW f \in Files PROVE OnDisk(f)'
  <2>1. OnDisk(f)
    BY DEF StoreInv
  <2>2. CASE f # g
    <3>1. stored'[f] = stored[f] /\ tmp'[f] = tmp[f]
      BY <1>1, <1>2, <2>2
    <3> QED
      BY <2>1, <3>1, SameOnDisk
  <2>3. CASE f = g
    <3>1. /\ tmp'[f] \in {tmp[f], Torn, data[t]}
          /\ stored'[f] = stored[f] \/ (fd[t] = "path" /\ stored'[f] \in {Torn, data[t]})
      BY <1>1, <1>2, <2>3 DEF Overlaid
    <3>2. f \in OwnTmp => stored'[f] = stored[f]
      BY <1>1, <1>2, <2>3, <3>1 DEF KindsKept, Written
    <3>3. f \in Pushed => Short(data[t]) /\ Short(Torn)
      BY <1>1, <1>2, <2>3, EmptyIsShort DEF Written
    <3>4. Content(data[t])
      BY <1>2 DEF Written
    <3> HIDE DEF g
    <3>5. /\ stored'[f] \in {Torn, Missing} \/ Content(stored'[f])
          /\ tmp'[f] \in {Torn, Missing} \/ Content(tmp'[f])
          /\ f \in OwnTmp => stored'[f] # Torn /\ stored'[f] # Wiped
          /\ f \in Pushed => Short(stored'[f]) /\ Short(tmp'[f])
      BY <2>1, <3>1, <3>2, <3>3, <3>4 DEF OnDisk
    <3>6. /\ Content(stored[f])' = Content(stored'[f]) /\ Content(tmp[f])' = Content(tmp'[f])
          /\ Short(stored[f])' = Short(stored'[f]) /\ Short(tmp[f])' = Short(tmp'[f])
      BY DEF Content, Short, Size, AsRead
    <3> QED
      BY <3>5, <3>6, SameFiles DEF OnDisk
  <2> QED
    BY <2>2, <2>3
<1> QED
  BY <1>1, <1>3, <1>4, <1>5 DEF StoreInv

LEMMA ReplaceStores ==
  ASSUME MemoryInv, StoreInv, NEW t \in Threads, Replace(t)
  PROVE  StoreInv'
<1> DEFINE g == Now(t).file
           shared == Shared(Now(t))
<1>1. /\ at[t] = "replace" /\ UNCHANGED calls
      /\ \/ Ends(t) /\ UNCHANGED <<stored, tmp, fd>>
         \/ /\ ~(shared /\ tmp[g] = Missing)
            /\ stored' = [stored EXCEPT ![g] = IF shared THEN tmp[g] ELSE data[t]]
            /\ tmp' = IF shared THEN [tmp EXCEPT ![g] = Missing] ELSE tmp
            /\ fd' = [q \in Threads |-> Moved(q, g, shared)]
            /\ Finishes(t)
  BY DEF Replace
<1>2. /\ DOMAIN stored = Files /\ DOMAIN tmp = Files /\ g \in Files /\ KindsKept /\ Written(t)
  BY <1>1, NowTyped, KindsAlwaysKept DEF MemoryInv, Types, StoreInv
<1>3. fd[t] \in {"none", "own", "gone"}
  BY <1>1, <1>2 DEF Written
<1>4. CASE Ends(t) /\ UNCHANGED <<stored, tmp, fd>>
  <2>1. \A u \in Threads : Written(u)'
    BY <1>3, <1>4, FinishesWritten, OthersWritten DEF StoreInv
  <2>2. \A f \in Files : OnDisk(f)'
    BY <1>4, SameOnDisk DEF StoreInv
  <2> QED
    BY <1>1, <2>1, <2>2 DEF StoreInv
<1>5. CASE /\ stored' = [stored EXCEPT ![g] = IF shared THEN tmp[g] ELSE data[t]]
           /\ tmp' = IF shared THEN [tmp EXCEPT ![g] = Missing] ELSE tmp
           /\ fd' = [q \in Threads |-> Moved(q, g, shared)]
           /\ Finishes(t)
  <2>1. \A u \in Threads : fd'[u] \in {fd[u], "gone"} \/ (fd[u] = "tmp" /\ fd'[u] = "path")
    BY <1>5 DEF Moved
  <2>2. fd'[t] \in {"none", "own", "gone"}
    BY <1>3, <2>1
  <2>3. \A u \in Threads : Written(u)'
    BY <1>5, <2>1, <2>2, FinishesWritten, OthersWritten DEF StoreInv
  <2>4. ASSUME NEW f \in Files PROVE OnDisk(f)'
    <3>1. OnDisk(f)
      BY DEF StoreInv
    <3>2. CASE f # g
      <4>1. stored'[f] = stored[f] /\ tmp'[f] = tmp[f]
        BY <1>2, <1>5, <3>2
      <4> QED
        BY <3>1, <4>1, SameOnDisk
    <3>3. CASE f = g
      <4>1. /\ stored'[f] = IF shared THEN tmp[f] ELSE data[t]
            /\ tmp'[f] \in {tmp[f], Missing}
        BY <1>2, <1>5, <3>3
      <4>2. f \in OwnTmp => ~shared /\ Now(t).kind # "wipe"
        BY <1>1, <1>2, <3>3 DEF KindsKept
      <4>3. Content(data[t]) /\ (data[t] = Wiped => Now(t).kind = "wipe")
            /\ (f \in Pushed => Short(data[t])) /\ Short(Missing)
        BY <1>1, <1>2, <3>3, EmptyIsShort DEF Written
      <4>4. Content(data[t]) => data[t] # Torn
        BY NotSpecial, MemoryAssumption DEF Content
      <4> HIDE DEF g, shared
      <4>5. /\ stored'[f] \in {Torn, Missing} \/ Content(stored'[f])
            /\ tmp'[f] \in {Torn, Missing} \/ Content(tmp'[f])
            /\ f \in OwnTmp => stored'[f] # Torn /\ stored'[f] # Wiped
            /\ f \in Pushed => Short(stored'[f]) /\ Short(tmp'[f])
        BY <3>1, <4>1, <4>2, <4>3, <4>4 DEF OnDisk
      <4>6. /\ Content(stored[f])' = Content(stored'[f]) /\ Content(tmp[f])' = Content(tmp'[f])
            /\ Short(stored[f])' = Short(stored'[f]) /\ Short(tmp[f])' = Short(tmp'[f])
        BY DEF Content, Short, Size, AsRead
      <4> QED
        BY <4>5, <4>6, SameFiles DEF OnDisk
    <3> QED
      BY <3>2, <3>3
  <2> QED
    BY <1>1, <2>3, <2>4 DEF StoreInv
<1> QED
  BY <1>1, <1>4, <1>5

LEMMA CrashStores ==
  ASSUME MemoryInv, StoreInv, NEW p \in Processes, Crash(p)
  PROVE  StoreInv'
<1>1. /\ at' = [u \in Threads |-> IF ProcessOf[u] = p THEN "idle" ELSE at[u]]
      /\ todo' = [u \in Threads |-> IF ProcessOf[u] = p THEN <<>> ELSE todo[u]]
      /\ data' = [u \in Threads |-> IF ProcessOf[u] = p THEN <<>> ELSE data[u]]
      /\ fd' = [u \in Threads |-> IF ProcessOf[u] = p THEN "none" ELSE fd[u]]
      /\ UNCHANGED <<stored, tmp, calls>>
  BY DEF Crash
<1>2. ASSUME NEW u \in Threads PROVE Written(u)'
  <2>1. CASE ProcessOf[u] = p
    BY <1>1, <2>1, AtRestWritten
  <2>2. CASE ProcessOf[u] # p
    BY <1>1, <2>2, OthersWritten DEF StoreInv
  <2> QED
    BY <2>1, <2>2
<1> QED
  BY <1>1, <1>2, SameOnDisk DEF StoreInv

-----------------------------------------------------------------------------
LEMMA StoreInit == Init => StoreInv
<1> SUFFICES ASSUME Init PROVE StoreInv
  OBVIOUS
<1>1. \A t \in Threads : Written(t)
  BY EmptyIsShort, NotSpecial DEF Init, Written, Content
<1>2. \A f \in Files : OnDisk(f)
  BY EmptyIsShort, MemoryAssumption DEF Init, OnDisk
<1>3. calls \in 0..MaxCalls
  BY MemoryAssumption DEF Init
<1> QED
  BY <1>1, <1>2, <1>3 DEF StoreInv

LEMMA StoreNext == MemoryInv /\ MemoryInv' /\ StoreInv /\ [Next]_vars => StoreInv'
<1> SUFFICES ASSUME MemoryInv, MemoryInv', StoreInv, [Next]_vars PROVE StoreInv'
  OBVIOUS
<1>1. ASSUME NEW t \in Threads, Step(t) PROVE StoreInv'
  BY <1>1, AcquireStores, ReadStores, OpenStores, FlushStores, ReplaceStores DEF Step
<1>2. CASE UNCHANGED vars
  <2>1. \A u \in Threads : Written(u)'
    BY <1>2, OthersWritten DEF vars, StoreInv
  <2> QED
    BY <1>2, <2>1, SameOnDisk DEF vars, StoreInv
<1> QED
  BY <1>1, <1>2, CallStores, CrashStores DEF Next

LEMMA StoreAlways == Spec => [](MemoryInv /\ StoreInv)
BY MemoryInit, MemoryNext, StoreInit, StoreNext, PTL DEF Spec

(* Every thread has a file open or none.                                     *)
FilesOpen == fd = [t \in Threads |-> fd[t]]

LEMMA FilesAlwaysOpen == Spec => []FilesOpen
<1>1. Init => FilesOpen
  BY DEF Init, FilesOpen
<1>2. ASSUME FilesOpen, [Next]_vars PROVE FilesOpen'
  <2>1. \/ fd' = fd
        \/ \E t \in Threads : \E s \in {"none", "tmp", "own"} : fd' = [fd EXCEPT ![t] = s]
        \/ \E f, shared : fd' = [q \in Threads |-> Moved(q, f, shared)]
        \/ \E p : fd' = [t \in Threads |-> IF t \in {u \in Threads : ProcessOf[u] = p} THEN "none"
                                            ELSE fd[t]]
    <3>1. ASSUME NEW t \in Threads, Call(t) \/ Acquire(t) \/ Read(t) PROVE fd' = fd
      BY <3>1 DEF Call, Acquire, Read
    <3>2. ASSUME NEW t \in Threads, Open(t) \/ Flush(t)
          PROVE  fd' = fd \/ \E s \in {"none", "tmp", "own"} : fd' = [fd EXCEPT ![t] = s]
      BY <3>2 DEF Open, Opened, Flush
    <3>3. ASSUME NEW t \in Threads, Replace(t)
          PROVE  fd' = fd \/ \E f, shared : fd' = [q \in Threads |-> Moved(q, f, shared)]
      BY <3>3 DEF Replace
    <3>4. ASSUME NEW p \in Processes, Crash(p)
          PROVE  fd' = [t \in Threads |-> IF t \in {u \in Threads : ProcessOf[u] = p} THEN "none"
                                          ELSE fd[t]]
      BY <3>4 DEF Crash
    <3>5. CASE UNCHANGED vars
      BY <3>5 DEF vars
    <3> QED
      BY <1>2, <3>1, <3>2, <3>3, <3>4, <3>5 DEF Next, Step
  <2>2. DOMAIN fd = Threads
    BY <1>2 DEF FilesOpen
  <2> QED
    BY <1>2, <2>1, <2>2 DEF FilesOpen
<1> QED
  BY <1>1, <1>2, PTL DEF Spec

(* Every variable has its type, and the history that only record_scan writes *)
(* is never longer than SCAN_HISTORY_MAX, though its writers overlay each    *)
(* other's temporary file (core/memory.py).                                  *)
THEOREM MemoryTyped == Spec => []TypeOK
<1>1. ASSUME MemoryInv, StoreInv, FilesOpen PROVE TypeOK
  <2>1. /\ \A f \in Files : stored[f] \in {Torn, Missing} \/ Content(stored[f])
        /\ \A f \in Files : tmp[f] \in {Torn, Missing} \/ Content(tmp[f])
    BY <1>1 DEF StoreInv, OnDisk
  <2>2. /\ lock \in [Processes -> Threads \cup {None}] /\ calls \in 0..MaxCalls
        /\ at \in [Threads -> {"idle", "lock", "read", "open", "flush", "replace"}]
    BY <1>1 DEF MemoryInv, Types, Places, StoreInv
  <2>3. \A t \in Threads : todo[t] \in Seq(Op) /\ Content(data[t])
    BY <1>1 DEF MemoryInv, Types, StoreInv, Written
  <2>4. fd \in [Threads -> {"none", "own", "tmp", "path", "gone"}]
    BY <1>1 DEF StoreInv, Written, FilesOpen
  <2>5. \A f \in Files : (\A t \in Threads : \A op \in OpsOn(f, t) : op.kind = "push") =>
          Size(AsRead(stored[f])) <= HistoryMax
    BY <1>1 DEF StoreInv, OnDisk, Pushed, Short
  <2> QED
    BY <2>1, <2>2, <2>3, <2>4, <2>5 DEF TypeOK
<1> QED
  BY <1>1, StoreAlways, FilesAlwaysOpen, PTL

(* A file written under the lock of one process, or through temporary files  *)
(* of one writer each, is never cut short, whatever overlaps and whoever     *)
(* dies half-way.                                                            *)
THEOREM ReadableAlways == Spec => []AlwaysReadable
<1>1. MemoryInv /\ StoreInv => AlwaysReadable
  BY GuardedTyped DEF StoreInv, OnDisk, AlwaysReadable, OwnTmp
<1> QED
  BY <1>1, StoreAlways, PTL

(* save_patch, save_failed and save_issue find something to append to, as    *)
(* long as the files they append to are not also cleared by clear_all or     *)
(* written by record_scan or record_rejection.                               *)
AppendsApart == \A t \in Threads : \A f \in Files \ OwnTmp : \A op \in OpsOn(f, t) : op.kind # "append"

THEOREM AppendsFindAFile ==
  ASSUME AppendsApart
  PROVE  Spec => []SavesAppend
<1>1. ASSUME MemoryInv, StoreInv, NEW t \in Threads, at[t] = "read", Now(t).kind = "append"
      PROVE  ~Unreadable(Now(t), stored[Now(t).file])
  <2>1. PICK c \in Calls[t] : \E k \in DOMAIN c : c[k].file = Now(t).file /\ c[k].kind = Now(t).kind
    BY <1>1, NowTyped DEF Asked
  <2>2. PICK k \in DOMAIN c : c[k].file = Now(t).file /\ c[k].kind = Now(t).kind
    BY <2>1
  <2>3. c[k] \in OpsOn(Now(t).file, t)
    BY <2>2 DEF OpsOn
  <2>4. Now(t).file \in OwnTmp
    BY <1>1, <2>2, <2>3, NowTyped DEF AppendsApart
  <2>5. stored[Now(t).file] # Torn /\ stored[Now(t).file] # Wiped
    BY <1>1, <2>4, NowTyped DEF StoreInv, OnDisk
  <2> QED
    BY <2>5 DEF Unreadable
<1>2. MemoryInv /\ StoreInv => SavesAppend
  BY <1>1 DEF SavesAppend
<1> QED
  BY <1>2, StoreAlways, PTL
=============================================================================
