---------------------------- MODULE MCMemoryStore -----------------------------
(* Instances of MemoryStore: two threads of a scan, the threads of another   *)
(* process.                                                                  *)
EXTENDS MemoryStore, TLC

CONSTANTS a1, a2, b1, scan, cli, k1, k2

MCProcessOf == (a1 :> scan @@ a2 :> scan @@ b1 :> cli)
MCOwner == (a1 :> scan @@ b1 :> cli)

One(kind, f, key) == <<[file |-> f, kind |-> kind, key |-> key]>>

(* Agents save their results and a scan its summary; commands save, resolve, *)
(* reject and delete.                                                        *)
MCCalls ==
  (a1 :> {One("put", "scans", k1), One("push", "history", k1), One("append", "issues", k1),
          One("clear", "scans", k1) \o One("clear", "issues", k1)}
   @@ a2 :> {One("put", "scans", k1), One("put", "scans", k2), One("push", "history", k2),
             One("mark", "brain", k1), One("count", "rejections", k1)}
   @@ b1 :> {One("append", "issues", k2), One("remove", "issues", k1), One("once", "tokens", k1),
             One("save", "brain", k2), One("count", "rejections", k2)})

MCWiping ==
  (a1 :> {One("wipe", "issues", k1) \o One("wipe", "history", k1)}
   @@ b1 :> {One("append", "issues", k1), One("push", "history", k1)})
=============================================================================
