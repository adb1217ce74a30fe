------------------------------ MODULE QueueOps ------------------------------
(***************************************************************************)
(* The task queue's data and what each operation of core/queue.py does to  *)
(* it: a paused flag and the list of items that .patchi/queue.json holds.  *)
(***************************************************************************)
EXTENDS Selection

CONSTANTS
  Items,     \* ids of the tasks that can be enqueued
  Priority,  \* Items -> Nat
  MaxDepth   \* QUEUE_MAX_DEPTH

ASSUME QueueAssumption == Priority \in [Items -> Nat] /\ MaxDepth \in Nat

ItemStates == {"waiting", "active", "done", "failed", "skipped"}

EmptyQueue == [paused |-> FALSE, items |-> <<>>]

Positions(q, st) == {k \in DOMAIN q.items : q.items[k].state = st}
Depth(q) == Cardinality(Positions(q, "waiting"))
Known(q) == {q.items[k].id : k \in DOMAIN q.items}

(* What the queue may become; no value at all when the operation is refused  *)
(* or finds nothing to change.                                               *)

(* Mutation: one more than QUEUE_MAX_DEPTH gets in.                           *)
EnqueueOverfull(q, i) ==
  IF Depth(q) > MaxDepth THEN {}
  ELSE {[q EXCEPT !.items = Append(@, [id |-> i, state |-> "waiting"])]}

Enqueue(q, i) ==
  IF Depth(q) >= MaxDepth THEN {}    \* QueueFullError
  ELSE {[q EXCEPT !.items = Append(@, [id |-> i, state |-> "waiting"])]}

Update(q, i, st) ==
  {[q EXCEPT !.items[k].state = st] : k \in {k \in DOMAIN q.items : q.items[k].id = i}}

First(S) == {k \in S : \A j \in S : k <= j}

SkipActive(q) == {[q EXCEPT !.items[k].state = "skipped"] : k \in First(Positions(q, "active"))}

Clear(q) == {[q EXCEPT !.items = Selected(@, DOMAIN @ \ Positions(q, "waiting"))]}
ClearAll(q) == {[q EXCEPT !.items = <<>>]}

(* The operations: what a caller asks for.                                   *)
Op(kind, i, st) == [kind |-> kind, item |-> i, state |-> st]
NoOp == Op("none", "none", "none")
LockedOps ==
  {Op("enqueue", i, "waiting") : i \in Items}
  \cup {Op("update", i, st) : i \in Items, st \in ItemStates \ {"waiting"}}
  \cup {Op("skip", "none", "none"), Op("pause", "none", "none"), Op("resume", "none", "none")}
UnlockedOps == {Op("clear", "none", "none"), Op("clearAll", "none", "none")}

Operations == LockedOps \cup UnlockedOps \cup {Op("next", "none", "none")}

Effect(op, q) ==
  CASE op.kind = "enqueue"  -> Enqueue(q, op.item)
    [] op.kind = "update"   -> Update(q, op.item, op.state)
    [] op.kind = "skip"     -> SkipActive(q)
    [] op.kind = "pause"    -> {[q EXCEPT !.paused = TRUE]}
    [] op.kind = "resume"   -> {[q EXCEPT !.paused = FALSE]}
    [] op.kind = "clear"    -> Clear(q)
    [] op.kind = "clearAll" -> ClearAll(q)
    [] OTHER                -> {}

(* next_waiting: highest priority first, then first in, first out.           *)
NextWaiting(q) ==
  {k \in Positions(q, "waiting") : \A j \in Positions(q, "waiting") :
     \/ Priority[q.items[j].id] < Priority[q.items[k].id]
     \/ Priority[q.items[j].id] = Priority[q.items[k].id] /\ k <= j}
=============================================================================
