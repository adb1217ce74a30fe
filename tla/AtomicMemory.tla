----------------------------- MODULE AtomicMemory -----------------------------
(***************************************************************************)
(* What core/memory.py promises of a file all of whose writers are threads *)
(* of one process that go through its lock: each operation of a call takes *)
(* effect at once, exactly once unless the process dies, and before the    *)
(* call returns.                                                           *)
(***************************************************************************)
CONSTANTS
  Threads, Files,
  Groups,         \* the threads that die together
  Ops,            \* the operations
  Effect(_, _)    \* what an operation makes of what the file holds

VARIABLES
  memory,   \* file -> what it holds
  pending   \* thread -> the operations of its call that have not taken effect

AtomicInit ==
  memory = [f \in Files |-> <<>>] /\ pending = [t \in Threads |-> {}]

AtomicCall(t) ==
  /\ pending[t] = {}
  /\ pending'[t] \in SUBSET Ops /\ pending' = [pending EXCEPT ![t] = pending'[t]]
  /\ UNCHANGED memory

AtomicEffect(t, op) ==
  /\ op \in pending[t]
  /\ memory' = [memory EXCEPT ![op.file] = Effect(op, @)]
  /\ pending' = [pending EXCEPT ![t] = @ \ {op}]

AtomicLoss(g) ==
  /\ pending' = [t \in Threads |-> IF t \in g THEN {} ELSE pending[t]]
  /\ UNCHANGED memory

AtomicNext ==
  \/ \E t \in Threads : AtomicCall(t) \/ \E op \in pending[t] : AtomicEffect(t, op)
  \/ \E g \in Groups : AtomicLoss(g)

AtomicSpec == AtomicInit /\ [][AtomicNext]_<<memory, pending>>
=============================================================================
