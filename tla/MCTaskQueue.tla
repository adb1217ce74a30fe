----------------------------- MODULE MCTaskQueue -----------------------------
(* Instances of TaskQueue.                                                    *)
EXTENDS TaskQueue

CONSTANTS a, b, w1, w2

MCPriority == [i \in Items |-> IF i = b THEN 1 ELSE 0]
Skip == Op("skip", "none", "none")
Mark(i, st) == Op("update", i, st)
Locked == {Op("enqueue", i, "waiting") : i \in Items} \cup {Mark(i, "active") : i \in Items}
          \cup {Mark(a, "done"), Skip, Op("pause", "none", "none"), Op("resume", "none", "none")}
Overlapping == {Op("enqueue", i, "waiting") : i \in Items} \cup UnlockedOps
               \cup {Mark(a, "active"), Skip, Op("next", "none", "none")}
Pausing == {Op("enqueue", a, "waiting"), Op("pause", "none", "none"), Op("next", "none", "none")}
=============================================================================
