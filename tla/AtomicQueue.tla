----------------------------- MODULE AtomicQueue -----------------------------
(***************************************************************************)
(* The task queue as its callers are meant to see it: one operation at a   *)
(* time takes it from one whole value to the next.                         *)
(***************************************************************************)
EXTENDS QueueOps

VARIABLE queue

QueueInit == queue = EmptyQueue
QueueNext == \E op \in LockedOps \cup UnlockedOps : queue' \in Effect(op, queue)
QueueSpec == QueueInit /\ [][QueueNext]_queue
=============================================================================
