----------------------------- MODULE MemoryStore ------------------------------
(***************************************************************************)
(* core/memory.py and atomic.py: the JSON files under .patchi, read and    *)
(* written by threads of several processes.  A call is a sequence of       *)
(* operations on one file each (of more than one to clear all).  Some      *)
(* operations hold the process's lock while they read and write, some only *)
(* while they write, some never; some write through a temporary file of    *)
(* their own, some through one that all share.                             *)
(***************************************************************************)
EXTENDS Selection, Integers

CONSTANTS
  Threads,    \* the threads that call the store
  ProcessOf,  \* thread -> its process
  Files,      \* the files
  Lists,      \* the files of _list_categories()
  Calls,      \* thread -> what it may call: sequences of [file, kind, key]
  None,       \* no thread
  Torn, Wiped, Missing,  \* what a file is that holds no entries: cut short or mixed, {}, absent
  Keys,       \* scanner names, record ids, token names
  HistoryMax, \* SCAN_HISTORY_MAX
  MaxCalls,   \* bound: calls
  Hazards     \* "crash": a process dies

Whole == {"put", "push"}                       \* save_scan_result; record_scan
Blind == {"save", "clear"}                     \* save_brain, _layers, _charter; delete
ReadFirst == {"append", "once", "remove", "mark"}
   \* save_patch, _failed, _issue; save_token; resolve_issue, remove_token; mark_brain_stale
Kinds == Whole \cup Blind \cup ReadFirst \cup {"count", "wipe"}   \* record_rejection; clear_all
SharedTmp == {"push", "count", "wipe"}
Tolerant == {"push", "count"}                  \* an unreadable file counts as an empty one

Op == [file : Files, kind : Kinds, key : Keys, id : 1..MaxCalls]
Processes == {ProcessOf[t] : t \in Threads}
Entries == Keys \X (1..MaxCalls)

ASSUME MemoryAssumption ==
  /\ Lists \subseteq Files /\ HistoryMax \in Nat \ {0} /\ MaxCalls \in Nat
  /\ None \notin Threads
  /\ Torn # Wiped /\ Torn # Missing /\ Wiped # Missing
  /\ {Torn, Wiped, Missing} \cap Seq(Entries) = {}
  /\ Hazards \subseteq {"crash"}
  /\ \A t \in Threads : Calls[t] \subseteq Seq([file : Files, kind : Kinds, key : Keys]) \ {<<>>}
  /\ \A t \in Threads : \A c \in Calls[t] :     \* delete_all and clear_all take many files
       /\ \A i, k \in DOMAIN c : c[i].file = c[k].file => i = k
       /\ Len(c) = 1 \/ \E kind \in {"clear", "wipe"} : \A k \in DOMAIN c : c[k].kind = kind

VARIABLES
  stored,  \* file -> its entries, or Torn, Wiped or Missing
  tmp,     \* file -> what the shared temporary file holds, or Missing
  lock,    \* process -> the thread that holds _WRITE_LOCK, or None
  at,      \* thread -> its next step
  todo,    \* thread -> the operations left of its call, the one under way first
  data,    \* thread -> what it read, then what it is to write
  fd,      \* thread -> the file it has open: "none", its "own", the shared "tmp", a "path" the
           \* shared file has become since, or one that is "gone"
  calls

vars == <<stored, tmp, lock, at, todo, data, fd, calls>>

Init ==
  /\ stored = [f \in Files |-> Missing] /\ tmp = [f \in Files |-> Missing]
  /\ lock = [p \in Processes |-> None]
  /\ at = [t \in Threads |-> "idle"] /\ todo = [t \in Threads |-> <<>>]
  /\ data = [t \in Threads |-> <<>>] /\ fd = [t \in Threads |-> "none"]
  /\ calls = 0

-----------------------------------------------------------------------------
(* What an operation makes of what it read.                                  *)
Without(c, key) == Selected(c, {k \in DOMAIN c : c[k][1] # key})
Has(c, key) == \E k \in DOMAIN c : c[k][1] = key
With(c, e) ==
  IF Has(c, e[1]) THEN [k \in DOMAIN c |-> IF c[k][1] = e[1] THEN e ELSE c[k]] ELSE Append(c, e)

(* Mutation: one too many.                                                  *)
NewestAndOne(c) == SubSeq(c, 1, IF Len(c) <= HistoryMax THEN Len(c) ELSE HistoryMax + 1)

Newest(c) == SubSeq(c, 1, IF Len(c) < HistoryMax THEN Len(c) ELSE HistoryMax)

(* Mutation: delete writes {}, whatever the category.                       *)
EmptyDict == Wiped

(* delete: an empty list or dict, as the file's category has it.             *)
Empty == <<>>

Changed(op, c) ==
  LET e == <<op.key, op.id>>
  IN CASE op.kind \in {"put", "mark"} -> With(c, e)
       [] op.kind \in {"append", "once", "count"} -> Append(c, e)
       [] op.kind = "push" -> Newest(<<e>> \o c)
       [] op.kind = "remove" -> Without(c, op.key)
       [] op.kind = "save" -> <<e>>
       [] op.kind = "clear" -> Empty
       [] op.kind = "wipe" -> Wiped

(* Reading: a missing file is an empty one, and {} is an empty dict, not an  *)
(* empty list to append to.                                                  *)
Unreadable(op, c) ==
  \/ c = Torn /\ op.kind \notin Tolerant
  \/ c = Wiped /\ op.file \in Lists /\ op.kind \in {"append", "once"}
AsRead(c) == IF c \in {Torn, Wiped, Missing} THEN <<>> ELSE c

-----------------------------------------------------------------------------
Now(t) == Head(todo[t])
First(op) ==
  IF op.kind \in Whole \cup Blind THEN "lock" ELSE IF op.kind = "wipe" THEN "open" ELSE "read"

Call(t) ==
  /\ at[t] = "idle" /\ calls < MaxCalls
  /\ \E c \in Calls[t] :
       LET ops == [k \in DOMAIN c |-> [file |-> c[k].file, kind |-> c[k].kind, key |-> c[k].key,
                                       id |-> calls + 1]]
       IN /\ todo' = [todo EXCEPT ![t] = ops]
          /\ at' = [at EXCEPT ![t] = First(ops[1])]
  /\ calls' = calls + 1
  /\ UNCHANGED <<stored, tmp, lock, data, fd>>

(* Mutation: a lock of the call's own.                                      *)
AcquireItsOwn(t) ==
  /\ at[t] = "lock"
  /\ lock' = [lock EXCEPT ![ProcessOf[t]] = t]
  /\ at' = [at EXCEPT ![t] = IF Now(t).kind \in Whole THEN "read" ELSE "open"]
  /\ data' = [data EXCEPT ![t] = IF Now(t).kind \in Blind THEN Changed(Now(t), <<>>) ELSE @]
  /\ UNCHANGED <<stored, tmp, todo, fd, calls>>

Acquire(t) ==
  /\ at[t] = "lock" /\ lock[ProcessOf[t]] = None
  /\ lock' = [lock EXCEPT ![ProcessOf[t]] = t]
  /\ at' = [at EXCEPT ![t] = IF Now(t).kind \in Whole THEN "read" ELSE "open"]
  /\ data' = [data EXCEPT ![t] = IF Now(t).kind \in Blind THEN Changed(Now(t), <<>>) ELSE @]
  /\ UNCHANGED <<stored, tmp, todo, fd, calls>>

Unlocked(t) == [p \in Processes |-> IF lock[p] = t THEN None ELSE lock[p]]

(* Mutation: the lock is not given back.                                    *)
EndsLocked(t) ==
  /\ at' = [at EXCEPT ![t] = "idle"] /\ todo' = [todo EXCEPT ![t] = <<>>]
  /\ data' = [data EXCEPT ![t] = <<>>]
  /\ UNCHANGED lock

(* The call ends: with what it was to do, or with an error.                  *)
Ends(t) ==
  /\ at' = [at EXCEPT ![t] = "idle"] /\ todo' = [todo EXCEPT ![t] = <<>>]
  /\ data' = [data EXCEPT ![t] = <<>>]
  /\ lock' = Unlocked(t)

Read(t) ==
  /\ at[t] = "read"
  /\ LET op == Now(t)
         c == stored[op.file]
     IN IF Unreadable(op, c) \/ (op.kind = "once" /\ Has(AsRead(c), op.key))
          THEN Ends(t)
          ELSE /\ data' = [data EXCEPT ![t] = Changed(op, AsRead(c))]
               /\ at' = [at EXCEPT ![t] = IF op.kind \in ReadFirst THEN "lock" ELSE "open"]
               /\ UNCHANGED <<todo, lock>>
  /\ UNCHANGED <<stored, tmp, fd, calls>>

Finishes(t) ==
  IF Len(todo[t]) = 1 THEN Ends(t)
  ELSE /\ todo' = [todo EXCEPT ![t] = Tail(@)]
       /\ at' = [at EXCEPT ![t] = First(todo[t][2])]
       /\ data' = [data EXCEPT ![t] = <<>>]
       /\ lock' = Unlocked(t)

-----------------------------------------------------------------------------
(* Writing.  Opening truncates, and what is written overlays what another    *)
(* writer left there meanwhile: it is whole only when it covers it.  A wipe  *)
(* takes the files that exist.                                               *)
(* Mutation: one temporary file for all writers of a file.                  *)
SharedAlways(op) == TRUE

Shared(op) == op.kind \in SharedTmp

Skipped(t) == Now(t).kind = "wipe" /\ stored[Now(t).file] = Missing

Opened(t) ==
  LET op == Now(t)
      shared == Shared(op)
  IN /\ tmp' = IF shared THEN [tmp EXCEPT ![op.file] = Torn] ELSE tmp
     /\ fd' = [fd EXCEPT ![t] = IF shared THEN "tmp" ELSE "own"]
     /\ data' = [data EXCEPT ![t] = IF op.kind = "wipe" THEN Wiped ELSE @]
     /\ at' = [at EXCEPT ![t] = "flush"]

Open(t) ==
  /\ at[t] = "open"
  /\ IF Skipped(t) THEN Finishes(t) /\ UNCHANGED <<tmp, fd>>
                   ELSE Opened(t) /\ UNCHANGED <<lock, todo>>
  /\ UNCHANGED <<stored, calls>>

Size(c) == IF c = Wiped THEN 0 ELSE Len(c)
Overlaid(old, new) ==
  IF old \in {Torn, Missing} THEN new ELSE IF Size(new) >= Size(old) THEN new ELSE Torn

Flush(t) ==
  /\ at[t] = "flush"
  /\ LET f == Now(t).file
     IN /\ tmp' = IF fd[t] = "tmp" THEN [tmp EXCEPT ![f] = Overlaid(@, data[t])] ELSE tmp
        /\ stored' = IF fd[t] = "path" THEN [stored EXCEPT ![f] = Overlaid(@, data[t])] ELSE stored
  /\ fd' = [fd EXCEPT ![t] = "none"]
  /\ at' = [at EXCEPT ![t] = "replace"]
  /\ UNCHANGED <<lock, todo, data, calls>>

(* A file is replaced: who has the old one open writes to no file any more,  *)
(* and who has the shared one open when that takes its place writes to it.   *)
Uses(q, f) == todo[q] # <<>> /\ Now(q).file = f

Moved(q, f, shared) ==
  CASE Uses(q, f) /\ fd[q] = "path" -> "gone"
    [] Uses(q, f) /\ fd[q] = "tmp" /\ shared -> "path"
    [] OTHER -> fd[q]

Replace(t) ==
  /\ at[t] = "replace"
  /\ LET f == Now(t).file
         shared == Shared(Now(t))
     IN IF shared /\ tmp[f] = Missing           \* FileNotFoundError
          THEN Ends(t) /\ UNCHANGED <<stored, tmp, fd>>
          ELSE /\ stored' = [stored EXCEPT ![f] = IF shared THEN tmp[f] ELSE data[t]]
               /\ tmp' = IF shared THEN [tmp EXCEPT ![f] = Missing] ELSE tmp
               /\ fd' = [q \in Threads |-> Moved(q, f, shared)]
               /\ Finishes(t)
  /\ UNCHANGED calls

Step(t) == Acquire(t) \/ Read(t) \/ Open(t) \/ Flush(t) \/ Replace(t)

Crash(p) ==
  /\ "crash" \in Hazards
  /\ LET mine == {t \in Threads : ProcessOf[t] = p}
     IN /\ \E t \in mine : at[t] # "idle"
        /\ at' = [t \in Threads |-> IF t \in mine THEN "idle" ELSE at[t]]
        /\ todo' = [t \in Threads |-> IF t \in mine THEN <<>> ELSE todo[t]]
        /\ data' = [t \in Threads |-> IF t \in mine THEN <<>> ELSE data[t]]
        /\ fd' = [t \in Threads |-> IF t \in mine THEN "none" ELSE fd[t]]
  /\ lock' = [lock EXCEPT ![p] = None]
  /\ UNCHANGED <<stored, tmp, calls>>

Next ==
  \/ \E t \in Threads : Call(t) \/ Step(t)
  \/ \E p \in Processes : Crash(p)

Spec == Init /\ [][Next]_vars

(* A thread runs on; who waits for the lock gets it, for the calls end.      *)
FairSpec == Spec /\ \A t \in Threads : WF_vars(Step(t))

-----------------------------------------------------------------------------
(* Properties.                                                               *)

Content(c) == c = Wiped \/ c \in Seq(Entries)

OpsOn(f, t) == UNION {{c[k] : k \in {i \in DOMAIN c : c[i].file = f}} : c \in Calls[t]}

(* Every variable has its type, and a history its length.                    *)
TypeOK ==
  /\ \A f \in Files : stored[f] \in {Torn, Missing} \/ Content(stored[f])
  /\ \A f \in Files : tmp[f] \in {Torn, Missing} \/ Content(tmp[f])
  /\ lock \in [Processes -> Threads \cup {None}]
  /\ at \in [Threads -> {"idle", "lock", "read", "open", "flush", "replace"}]
  /\ \A t \in Threads : todo[t] \in Seq(Op) /\ Content(data[t])
  /\ fd \in [Threads -> {"none", "own", "tmp", "path", "gone"}]
  /\ calls \in 0..MaxCalls
  /\ \A f \in Files : (\A t \in Threads : \A op \in OpsOn(f, t) : op.kind = "push") =>
       Size(AsRead(stored[f])) <= HistoryMax

(* The files that only threads of one process write, and under its lock.     *)
Guarded ==
  {f \in Files :
     /\ \A t \in Threads, u \in Threads :
          OpsOn(f, t) # {} /\ OpsOn(f, u) # {} => ProcessOf[t] = ProcessOf[u]
     /\ \A t \in Threads : \A op \in OpsOn(f, t) : op.kind \in Whole \cup Blind}

(* The files nobody writes through the shared temporary file.                *)
OwnTmp == {f \in Files : \A t \in Threads : \A op \in OpsOn(f, t) : op.kind \notin SharedTmp}

(* A reader, with a lock or without, finds whole JSON in a file that is      *)
(* written under the lock of one process or through temporary files of one   *)
(* writer each, whatever overlaps and whoever dies half-way.                 *)
AlwaysReadable == \A f \in Guarded \cup OwnTmp : stored[f] # Torn

(* The guarded files are an atomic memory: parallel agents that save their   *)
(* results lose none and no saved entry comes back.                          *)
Memory == INSTANCE AtomicMemory WITH
  Files <- Guarded,
  Groups <- {{t \in Threads : ProcessOf[t] = p} : p \in Processes},
  Ops <- {op \in Op : op.file \in Guarded},
  Effect <- Changed,
  memory <- [f \in Guarded |-> AsRead(stored[f])],
  pending <- [t \in Threads |-> {todo[t][k] : k \in {i \in DOMAIN todo[t] : todo[t][i].file \in Guarded}}]

ImplementsAtomicMemory == Memory!AtomicSpec

(* A call returns: nobody keeps the lock.                                    *)
CallsReturn == \A t \in Threads : at[t] # "idle" ~> at[t] = "idle"

(* Stated by the docstring of save_patch, "Append a patch record": a save    *)
(* that goes ahead finds something to append to.                             *)
SavesAppend ==
  \A t \in Threads : at[t] = "read" /\ Now(t).kind = "append" => ~Unreadable(Now(t), stored[Now(t).file])

(* Stated by the docstring of core/memory.py: every write is atomic, so no   *)
(* file is ever cut short.                                                   *)
EveryWriteAtomic == \A f \in Files : stored[f] # Torn
=============================================================================
