------------------------------ MODULE TaskQueue ------------------------------
(***************************************************************************)
(* core/queue.py under several processes (CLI commands, the web server):   *)
(* queue.json is read, changed in memory, written to queue.tmp and moved   *)
(* over the old file.  Most operations hold queue.lock (flock) throughout; *)
(* clear and clear_all do not.  A name is a link to an inode, so a process *)
(* that still has queue.tmp open writes wherever that inode has gone.      *)
(***************************************************************************)
EXTENDS QueueOps

CONSTANTS
  Procs,      \* the processes
  Inodes,     \* enough of them for every file that is linked or open
  None,       \* no process, no inode, no item
  Callable,   \* the operations callers use in this instance
  MaxCalls,   \* bound on the calls
  Hazards     \* "crash": a process dies; "timeout": Windows gives up on the lock

ASSUME TaskQueueAssumption ==
  /\ None \notin Procs \cup Inodes \cup Items
  /\ Callable \subseteq Operations
  /\ MaxCalls \in Nat
  /\ Hazards \subseteq {"crash", "timeout"}

VARIABLES
  json,    \* the inode queue.json names, or None
  tmp,     \* the inode queue.tmp names, or None
  text,    \* inode -> the queue written into it
  whole,   \* inode -> it holds that text and nothing else (it parses)
  lock,    \* who holds queue.lock
  ids,     \* ids drawn so far (uuid4: never twice)
  calls,   \* calls made so far
  pc, op, new, file,  \* of each process: next step, operation, what it will write, open file
  picked              \* what next_waiting last gave it

files == <<json, tmp, text, whole>>
procs == <<pc, op, new, file, picked>>
vars  == <<files, lock, ids, calls, procs>>

Steps == {"idle", "lock", "read", "open", "fill", "replace", "ask", "pick"}

Init ==
  /\ json = None /\ tmp = None
  /\ text = [n \in Inodes |-> EmptyQueue] /\ whole = [n \in Inodes |-> FALSE]
  /\ lock = None /\ ids = {} /\ calls = 0
  /\ pc = [p \in Procs |-> "idle"] /\ op = [p \in Procs |-> NoOp]
  /\ new = [p \in Procs |-> EmptyQueue] /\ file = [p \in Procs |-> None]
  /\ picked = [p \in Procs |-> None]

(* _read: a queue that was never written is empty.                           *)
Current == IF json = None THEN EmptyQueue ELSE text[json]
Readable == json # None => whole[json]

(* The call returns or raises; the lock, if it has one, is released.         *)
Finish(p) ==
  /\ pc' = [pc EXCEPT ![p] = "idle"] /\ file' = [file EXCEPT ![p] = None]
  /\ lock' = IF lock = p THEN None ELSE lock

Call(p, o) ==
  /\ pc[p] = "idle" /\ calls < MaxCalls /\ o \in Callable
  /\ o.kind = "enqueue" => o.item \notin ids
  /\ o.kind = "update" => o.item \in ids
  /\ ids' = IF o.kind = "enqueue" THEN ids \cup {o.item} ELSE ids
  /\ calls' = calls + 1
  /\ op' = [op EXCEPT ![p] = o]
  /\ pc' = [pc EXCEPT ![p] = CASE o \in LockedOps -> "lock"
                               [] o.kind = "next"  -> "ask"
                               [] OTHER            -> "read"]
  /\ UNCHANGED <<files, lock, new, file, picked>>

(* Mutation: the lock file is opened but not locked.                          *)
AcquireUnguarded(p) ==
  /\ pc[p] = "lock"
  /\ lock' = p /\ pc' = [pc EXCEPT ![p] = "read"]
  /\ UNCHANGED <<files, ids, calls, op, new, file, picked>>

(* flock(LOCK_EX) waits until nobody else holds it.                          *)
Acquire(p) ==
  /\ pc[p] = "lock" /\ lock = None
  /\ lock' = p /\ pc' = [pc EXCEPT ![p] = "read"]
  /\ UNCHANGED <<files, ids, calls, op, new, file, picked>>

(* msvcrt's LK_LOCK raises after ten tries.                                  *)
LockTimeout(p) ==
  /\ "timeout" \in Hazards
  /\ pc[p] = "lock" /\ lock # None
  /\ pc' = [pc EXCEPT ![p] = "idle"]
  /\ UNCHANGED <<files, lock, ids, calls, op, new, file, picked>>

(* The operation is worked out on what was read.                             *)
Read(p) ==
  /\ pc[p] = "read" /\ Readable
  /\ \E q \in Effect(op[p], Current) : new' = [new EXCEPT ![p] = q]
  /\ pc' = [pc EXCEPT ![p] = "open"]
  /\ UNCHANGED <<files, lock, ids, calls, op, file, picked>>

(* Mutation: a refused call leaves the lock behind.                           *)
ReadReturnsLocked(p) ==
  /\ pc[p] = "read"
  /\ ~Readable \/ Effect(op[p], Current) = {}
  /\ pc' = [pc EXCEPT ![p] = "idle"]
  /\ UNCHANGED <<files, lock, ids, calls, op, new, file, picked>>

(* The file does not parse, the queue is full, or nothing is to be changed.  *)
ReadReturns(p) ==
  /\ pc[p] = "read"
  /\ ~Readable \/ Effect(op[p], Current) = {}
  /\ Finish(p)
  /\ UNCHANGED <<files, ids, calls, op, new, picked>>

(* Mutation: queue.json itself is opened for writing.                         *)
OpenInPlace(p) ==
  /\ pc[p] = "open"
  /\ \E n \in Inodes :
       /\ IF json # None THEN n = json ELSE \A r \in Procs : file[r] # n
       /\ json' = n /\ whole' = [whole EXCEPT ![n] = FALSE]
       /\ file' = [file EXCEPT ![p] = n]
  /\ pc' = [pc EXCEPT ![p] = "fill"]
  /\ UNCHANGED <<tmp, text, lock, ids, calls, op, new, picked>>

(* open("w"): queue.tmp is created, or the one that is there is emptied.     *)
Open(p) ==
  /\ pc[p] = "open"
  /\ \E n \in Inodes :
       /\ IF tmp # None THEN n = tmp
          ELSE n # json /\ \A r \in Procs : file[r] # n
       /\ tmp' = n /\ whole' = [whole EXCEPT ![n] = FALSE]
       /\ file' = [file EXCEPT ![p] = n]
  /\ pc' = [pc EXCEPT ![p] = "fill"]
  /\ UNCHANGED <<json, text, lock, ids, calls, op, new, picked>>

(* The text is flushed; over another's text only the longer one stays whole. *)
Fill(p) ==
  /\ pc[p] = "fill"
  /\ text' = [text EXCEPT ![file[p]] = new[p]]
  /\ \E clean \in BOOLEAN :
       /\ ~whole[file[p]] => clean
       /\ whole' = [whole EXCEPT ![file[p]] = clean]
  /\ pc' = [pc EXCEPT ![p] = "replace"]
  /\ UNCHANGED <<json, tmp, lock, ids, calls, op, new, file, picked>>

(* Mutation: queue.tmp is linked to queue.json and not removed.               *)
ReplaceByLink(p) ==
  /\ pc[p] = "replace" /\ tmp # None
  /\ json' = tmp /\ UNCHANGED tmp
  /\ Finish(p)
  /\ UNCHANGED <<text, whole, ids, calls, op, new, picked>>

(* queue.tmp becomes queue.json, and the lock is released.                   *)
Replace(p) ==
  /\ pc[p] = "replace" /\ tmp # None
  /\ json' = tmp /\ tmp' = None
  /\ Finish(p)
  /\ UNCHANGED <<text, whole, ids, calls, op, new, picked>>

(* Another process has moved it already: FileNotFoundError.                  *)
ReplaceFails(p) ==
  /\ pc[p] = "replace" /\ tmp = None
  /\ Finish(p)
  /\ UNCHANGED <<files, ids, calls, op, new, picked>>

(* next_waiting reads the file twice: is the queue paused, and what waits?   *)
Ask(p) ==
  /\ pc[p] = "ask"
  /\ IF Readable /\ ~Current.paused
       THEN pc' = [pc EXCEPT ![p] = "pick"] /\ UNCHANGED picked
       ELSE pc' = [pc EXCEPT ![p] = "idle"] /\ picked' = [picked EXCEPT ![p] = None]
  /\ UNCHANGED <<files, lock, ids, calls, op, new, file>>

Pick(p) ==
  /\ pc[p] = "pick"
  /\ LET offered == IF Readable THEN {Current.items[k].id : k \in NextWaiting(Current)} ELSE {}
     IN  \E i \in IF offered = {} THEN {None} ELSE offered : picked' = [picked EXCEPT ![p] = i]
  /\ pc' = [pc EXCEPT ![p] = "idle"]
  /\ UNCHANGED <<files, lock, ids, calls, op, new, file>>

(* The process dies: the kernel closes its files and drops its lock.         *)
Crash(p) ==
  /\ "crash" \in Hazards /\ pc[p] # "idle"
  /\ Finish(p)
  /\ UNCHANGED <<files, ids, calls, op, new, picked>>

Step(p) ==
  \/ Acquire(p) \/ Read(p) \/ ReadReturns(p) \/ Open(p) \/ Fill(p)
  \/ Replace(p) \/ ReplaceFails(p) \/ Ask(p) \/ Pick(p)

Next ==
  \E p \in Procs :
    \/ \E o \in Callable : Call(p, o)
    \/ Step(p) \/ LockTimeout(p) \/ Crash(p)

Spec == Init /\ [][Next]_vars

(* A process that runs goes on running.                                      *)
FairSpec == Spec /\ \A p \in Procs : WF_vars(Step(p))
-----------------------------------------------------------------------------
TypeOK ==
  /\ json \in Inodes \cup {None} /\ tmp \in Inodes \cup {None}
  /\ DOMAIN text = Inodes /\ whole \in [Inodes -> BOOLEAN]
  /\ lock \in Procs \cup {None} /\ ids \subseteq Items /\ calls \in Nat
  /\ pc \in [Procs -> Steps] /\ op \in [Procs -> Operations \cup {NoOp}]
  /\ DOMAIN new = Procs /\ file \in [Procs -> Inodes \cup {None}]
  /\ picked \in [Procs -> Items \cup {None}]
  /\ json # None => tmp # json

(* The operations that take the lock act one at a time and whole, whoever
   crashes or times out in between: "File-locked task queue"
   (docs/ARCHITECTURE.md:91), "Crash-safe ... queue" (README.md:502).        *)
Atomic == INSTANCE AtomicQueue WITH queue <- Current
ImplementsQueue == Atomic!QueueSpec

(* queue.json never reads as garbage.                                        *)
AlwaysReadable == Readable

(* The queue never holds more waiting tasks than QUEUE_MAX_DEPTH nor a task
   twice, whatever overlaps: not even an unlocked clear brings back more than
   was there when it read.                                                   *)
QueueBounded ==
  Readable =>
    /\ Depth(Current) <= MaxDepth
    /\ Cardinality(Known(Current)) = Len(Current.items)

(* Whoever holds the lock gives it back: no call waits for ever on a process
   that is alive, and a dead one holds nothing.                              *)
LockReleased == \A p \in Procs : lock = p ~> lock # p

(* "Remove all WAITING items. Active/done/failed are preserved for history."
   (queue.py:299): a task that has left the waiting state stays in the queue
   and never waits again, unless clear_all is asked for.                     *)
Started(i) == \E k \in DOMAIN Current.items :
                Current.items[k].id = i /\ Current.items[k].state \in {"active", "done", "failed"}
Waits(i) == \E k \in DOMAIN Current.items :
                Current.items[k].id = i /\ Current.items[k].state = "waiting"
HistoryKept == [][\A i \in Items : Started(i) => i \in Known(Current)' /\ ~Waits(i)']_vars

(* next_waiting "returns None if queue is empty or paused" (queue.py:350).   *)
PausedGivesNothing ==
  [][\A p \in Procs : pc[p] = "pick" /\ picked'[p] # picked[p] /\ picked'[p] # None
       => ~Current.paused]_vars
=============================================================================
