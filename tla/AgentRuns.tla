------------------------------ MODULE AgentRuns -------------------------------
(***************************************************************************)
(* core/agents/coordinator.py, agents/cache.py and scan_bus.py: a process  *)
(* with one Coordinator makes one call of _run_classes after another while *)
(* the project's files change.  An agent of a call is served from the      *)
(* cache or run on a worker thread, a shardable agent on several, each on  *)
(* a part of the files; results arrive in any order.  A report stands for  *)
(* the findings of one worker: the part of the files it read, and what     *)
(* the files held then.                                                    *)
(***************************************************************************)
EXTENDS Naturals, Sequences, FiniteSets

CONSTANTS
  Agents,     \* the agents
  Shardable,  \* the agents that run as several copies when there are many files
  Shards,     \* the parts the files are split into, numbered from 1
  None,       \* nothing yet
  Cached,     \* the agents an earlier process left an entry for
  Threshold,  \* _CB_THRESHOLD
  Contents,   \* what the project's files may hold: an edit may bring back what they held
  MaxCalls,   \* bound: calls
  Hazards     \* "fail": an agent raises; "hang": an agent never returns; "pool": the process
              \* pool breaks; "restart": the process ends or is killed; "during": files
              \* are edited while agents run, too

(* What an agent may have answered.                                          *)
AgentResults ==
  [agent : Agents, status : {"done", "failed"}, reports : Seq((1..Shards) \X Contents)]

ASSUME RunsAssumption ==
  /\ Shardable \subseteq Agents /\ Cached \subseteq Agents
  /\ {Shards, Threshold, MaxCalls} \subseteq Nat /\ Shards > 0 /\ Threshold > 0
  /\ None \notin Contents \cup AgentResults
  /\ Hazards \subseteq {"fail", "hang", "pool", "restart", "during"}

VARIABLES
  source,    \* what the project's files hold
  cache,     \* agent -> its entry: the fingerprint and the result, or None
  stored,    \* agent -> the result in the scan memory, or None
  breaker,   \* agent -> failures in a row, of this process
  step,      \* what the call does next
  pool,      \* the call runs on a process pool
  called,    \* the agents of the call that the breaker let through
  fp,        \* the fingerprint the call's AgentCache remembers, or None
  served,    \* agent -> the result the cache gave it in this call, or None
  jobs,      \* worker -> what it read, or None before it starts
  hung,      \* the workers that never return
  results,   \* the results the workers returned, in the order they came
  returned,  \* what the last call returned
  streak,    \* agent -> how often its last runs failed in a row: observed, not in the code
  calls

vars == <<source, cache, stored, breaker, step, pool, called, fp, served, jobs, hung, results,
          returned, streak, calls>>
memory == <<cache, stored, breaker, streak>>

Result(a, status, reports) == [agent |-> a, status |-> status, reports |-> reports]
Entry(v, r) == [fp |-> v, result |-> r]
NoJobs == [j \in {} |-> None]
Nobody == [a \in Agents |-> None]

Parts(a) == IF a \in Shardable /\ ~pool THEN 1..Shards ELSE {1}
JobsOf(as) == {j \in as \X (1..Shards) : j[2] \in Parts(j[1])}

Init ==
  /\ source \in Contents
  /\ cache = [a \in Agents |->
                IF a \in Cached THEN Entry(source, Result(a, "done", <<<<1, source>>>>)) ELSE None]
  /\ stored = Nobody /\ breaker = [a \in Agents |-> 0] /\ streak = [a \in Agents |-> 0]
  /\ step = "idle" /\ pool = FALSE /\ called = {} /\ fp = None /\ served = Nobody
  /\ jobs = NoJobs /\ hung = {} /\ results = <<>> /\ returned = <<>> /\ calls = 0

-----------------------------------------------------------------------------
(* The circuit breaker, and on_done: every result is counted and stored.     *)
IsCircuitBroken(a) == breaker[a] >= Threshold

(* Mutation: a success takes one failure back.                              *)
CountedDown(n, r) == IF r.status = "failed" THEN n + 1 ELSE n - 1

Counted(n, r) == IF r.status = "failed" THEN n + 1 ELSE 0

(* on_done of several results of different agents.                           *)
AllDone(rs) ==
  /\ breaker' = [a \in Agents |-> IF rs[a] = None THEN breaker[a] ELSE Counted(breaker[a], rs[a])]
  /\ stored' = [a \in Agents |-> IF rs[a] = None THEN stored[a] ELSE rs[a]]

-----------------------------------------------------------------------------
(* A call: the broken agents are left out, then the cache is asked.  The     *)
(* project is hashed when the first entry is compared.                       *)
Call(as) ==
  /\ step = "idle" /\ calls < MaxCalls
  /\ called' = {a \in as : ~IsCircuitBroken(a)}
  /\ pool' \in {FALSE} \cup (IF "pool" \in Hazards THEN {TRUE} ELSE {})
  /\ step' = "lookup" /\ calls' = calls + 1
  /\ fp' = None /\ results' = <<>> /\ served' = Nobody /\ returned' = <<>>
  /\ UNCHANGED <<source, memory, jobs, hung>>

(* Mutation: an entry is served as it is.                                   *)
ValidAlways(a) == cache[a] # None

Valid(a) == cache[a] # None /\ cache[a].fp = source

Lookup ==
  /\ step = "lookup"
  /\ fp' = IF \E a \in called : cache[a] # None THEN source ELSE None
  /\ served' = [a \in Agents |-> IF a \in called /\ Valid(a) THEN cache[a].result ELSE None]
  /\ AllDone(served')
  /\ LET run == {a \in called : served'[a] = None}
     IN /\ jobs' = [j \in JobsOf(run) |-> None]
        /\ step' = IF run = {} THEN "merge" ELSE "running"
  /\ UNCHANGED <<source, cache, pool, called, hung, results, returned, streak, calls>>

-----------------------------------------------------------------------------
(* The workers.                                                              *)
Read(j) ==
  /\ step = "running" /\ j \in DOMAIN jobs /\ jobs[j] = None
  /\ jobs' = [jobs EXCEPT ![j] = source]
  /\ UNCHANGED <<source, memory, step, pool, called, fp, served, hung, results, returned, calls>>

(* as_completed gives a finished worker, so its timeout never counts: a      *)
(* worker that hangs is waited for.                                          *)
Hang(j) ==
  /\ "hang" \in Hazards
  /\ j \in DOMAIN jobs \ hung /\ jobs[j] # None
  /\ hung' = hung \cup {j}
  /\ UNCHANGED <<source, memory, step, pool, called, fp, served, jobs, results, returned, calls>>

Without(j) == [i \in DOMAIN jobs \ {j} |-> jobs[i]]

(* Mutation: a failure is not noticed to be the last answer.                *)
OnDoneMissingFailures(j, r) ==
  /\ AllDone([Nobody EXCEPT ![j[1]] = r])
  /\ results' = Append(results, r)
  /\ jobs' = Without(j)
  /\ step' = IF DOMAIN jobs = {j} /\ r.status = "done" THEN "merge" ELSE "running"

OnDone(j, r) ==
  /\ AllDone([Nobody EXCEPT ![j[1]] = r])
  /\ results' = Append(results, r)
  /\ jobs' = Without(j)
  /\ step' = IF DOMAIN jobs = {j} THEN "merge" ELSE "running"

(* Observed: a run of an agent fails when one of its workers does.           *)
RunFailed(a) == \E k \in DOMAIN results' : results'[k].agent = a /\ results'[k].status = "failed"
Observe(j) ==
  streak' = IF \E i \in DOMAIN jobs \ {j} : i[1] = j[1] THEN streak
            ELSE [streak EXCEPT ![j[1]] = IF RunFailed(j[1]) THEN @ + 1 ELSE 0]

Finish(j) ==
  /\ j \in DOMAIN jobs \ hung /\ jobs[j] # None
  /\ \/ OnDone(j, Result(j[1], "done", <<<<j[2], jobs[j]>>>>))
     \/ "fail" \in Hazards /\ OnDone(j, Result(j[1], "failed", <<>>))
  /\ Observe(j)
  /\ UNCHANGED <<source, cache, pool, called, fp, served, hung, returned, calls>>

(* The process pool breaks: every agent of the call runs again, on threads.  *)
ThreadJobs ==
  {j \in called \X (1..Shards) : served[j[1]] = None /\ (j[2] = 1 \/ j[1] \in Shardable)}

(* Mutation: the results of the broken pool are kept.                       *)
PoolBreaksKeeping ==
  /\ step = "running" /\ pool
  /\ pool' = FALSE /\ hung' = {}
  /\ jobs' = [j \in ThreadJobs |-> None]
  /\ UNCHANGED <<source, memory, step, called, fp, served, results, returned, calls>>

PoolBreaks ==
  /\ step = "running" /\ pool
  /\ pool' = FALSE /\ results' = <<>> /\ hung' = {}
  /\ jobs' = [j \in ThreadJobs |-> None]
  /\ UNCHANGED <<source, memory, step, called, fp, served, returned, calls>>

-----------------------------------------------------------------------------
(* The end of a call.  Of the results of a sharded agent the first that came *)
(* stands for every worker.                                                  *)
IsFirst(a, k) == results[k].agent = a /\ \A i \in 1..(k - 1) : results[i].agent # a
First(a) == results[CHOOSE k \in DOMAIN results : IsFirst(a, k)]

Repeated(reports, n) == [k \in 1..(n * Len(reports)) |-> reports[1 + ((k - 1) % Len(reports))]]

MergeShardResults(a) ==
  Result(a, First(a).status, Repeated(First(a).reports, Cardinality(Parts(a))))

Ran == {results[k].agent : k \in DOMAIN results}
Merged(a) == IF Cardinality(Parts(a)) = 1 THEN First(a) ELSE MergeShardResults(a)

Merge ==
  /\ step = "merge"
  /\ returned' = [a \in called |-> IF served[a] # None THEN served[a] ELSE Merged(a)]
  /\ step' = IF Ran = {} THEN "idle" ELSE "caching"
  /\ UNCHANGED <<source, memory, pool, called, fp, served, jobs, hung, results, calls>>

(* put: hashes the project now when no lookup did.                           *)
Put ==
  /\ step = "caching"
  /\ LET v == IF fp = None THEN source ELSE fp
     IN cache' = [a \in Agents |-> IF a \in Ran THEN Entry(v, returned[a]) ELSE cache[a]]
  /\ step' = "idle"
  /\ UNCHANGED <<source, stored, breaker, streak, pool, called, fp, served, jobs, hung, results,
                 returned, calls>>

(* The process ends or is killed, and the next makes a Coordinator of its    *)
(* own.                                                                      *)
Restart ==
  /\ "restart" \in Hazards /\ calls > 0
  /\ step' = "idle" /\ breaker' = [a \in Agents |-> 0] /\ pool' = FALSE /\ fp' = None
  /\ returned' = <<>> /\ called' = {} /\ served' = Nobody /\ results' = <<>>
  /\ jobs' = NoJobs /\ hung' = {}
  /\ UNCHANGED <<source, cache, stored, streak, calls>>

(* Somebody edits a file.                                                    *)
Edit ==
  /\ step = "idle" \/ "during" \in Hazards
  /\ \E c \in Contents \ {source} : source' = c
  /\ UNCHANGED <<memory, step, pool, called, fp, served, jobs, hung, results, returned, calls>>

Coordinate == Lookup \/ Merge \/ Put
Work(j) == Read(j) \/ Finish(j)

Next ==
  \/ \E as \in (SUBSET Agents) \ {{}} : Call(as)
  \/ Coordinate \/ PoolBreaks \/ Restart \/ Edit
  \/ \E j \in Agents \X (1..Shards) : Work(j) \/ Hang(j)

Spec == Init /\ [][Next]_vars

(* Every thread that has not hung runs on.                                   *)
FairSpec ==
  /\ Spec /\ WF_vars(Coordinate)
  /\ \A j \in Agents \X (1..Shards) : WF_vars(Work(j))

-----------------------------------------------------------------------------
(* Properties.                                                               *)
(* Every variable has its type.                                              *)
TypeOK ==
  /\ source \in Contents /\ calls \in 0..MaxCalls
  /\ cache \in [Agents -> [fp : Contents, result : AgentResults] \cup {None}]
  /\ stored \in [Agents -> AgentResults \cup {None}]
  /\ breaker \in [Agents -> Nat] /\ streak \in [Agents -> Nat]
  /\ step \in {"idle", "lookup", "running", "merge", "caching"} /\ pool \in BOOLEAN
  /\ called \subseteq Agents /\ fp \in Contents \cup {None}
  /\ served \in [Agents -> AgentResults \cup {None}]
  /\ DOMAIN jobs \subseteq Agents \X (1..Shards) /\ jobs \in [DOMAIN jobs -> Contents \cup {None}]
  /\ hung \subseteq DOMAIN jobs
  /\ results \in Seq(AgentResults)

(* What the cache serves was found in the files as they are now: no edit and *)
(* no edit back makes the result of other files look current.                *)
ServedIsCurrent ==
  step = "lookup" => \A a \in called : Valid(a) =>
    \A k \in DOMAIN cache[a].result.reports : cache[a].result.reports[k][2] = source

(* A call answers for every agent the breaker let through, with what that    *)
(* agent found: the report of its own run or of the cache, whatever the      *)
(* order of the answers and however often the pool broke, and the scan       *)
(* memory holds the same.                                                    *)
AnswersForAll ==
  step = "caching" \/ (step = "idle" /\ called # {}) =>
    \A a \in called :
      /\ a \in DOMAIN returned /\ returned[a].agent = a
      /\ a \notin Shardable => stored[a] = returned[a]

(* A call ends, unless an agent of it never returns.                         *)
CallsEnd == step # "idle" ~> step = "idle" \/ hung # {}

(* Stated by _merge_shard_results: it merges the results from the parallel   *)
(* shard copies into one, so each part of the files is reported once.        *)
ShardsAreMerged ==
  step = "caching" => \A a \in Ran \cap Shardable :
    returned[a].status = "done" /\ Cardinality(Parts(a)) = Shards =>
      {returned[a].reports[k][1] : k \in DOMAIN returned[a].reports} = 1..Shards

(* Stated by docs/USAGE.md: an agent is skipped when it fails 3 consecutive  *)
(* times.                                                                    *)
BrokenAfterThreeFailures == \A a \in Agents : IsCircuitBroken(a) => streak[a] >= Threshold
=============================================================================
