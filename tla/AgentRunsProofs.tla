---------------------------- MODULE AgentRunsProofs ----------------------------
(***************************************************************************)
(* Theorems about AgentRuns: its type invariant, that every agent is       *)
(* answered for, and that the cache serves what the files say, as long as  *)
(* nobody edits them while agents run.                                     *)
(***************************************************************************)
EXTENDS AgentRuns, TLAPS, FiniteSetTheorems, SequenceTheorems, WellFoundedInduction

(* The agents of the call that run.                                          *)
ToRun == {a \in called : served[a] = None}
Pending(a) == \E j \in DOMAIN jobs : j[1] = a
Answered(a) == \E k \in DOMAIN results : results[k].agent = a
OneWorker(a) == Parts(a) = {1}

(* Between two calls, and before the agents of a call start, no worker runs. *)
Quiet ==
  /\ step # "running" => DOMAIN jobs = {}
  /\ step = "lookup" => results = <<>>

(* Every agent that runs has a worker or an answer, and the answer of an     *)
(* agent with one worker is the last stored.                                 *)
Running ==
  step \in {"running", "merge", "caching"} =>
    /\ \A j \in DOMAIN jobs : j[1] \in ToRun /\ j[2] \in Parts(j[1])
    /\ \A k \in DOMAIN results : results[k].agent \in ToRun
    /\ \A a \in ToRun : Pending(a) \/ Answered(a)
    /\ \A a \in called : served[a] # None => served[a].agent = a /\ stored[a] = served[a]
    /\ \A a \in ToRun : OneWorker(a) =>
         \A k \in DOMAIN results : results[k].agent = a => ~Pending(a) /\ stored[a] = results[k]

(* What a call returns and the cache keeps are results, each its agent's.    *)
Returned ==
  /\ step = "caching" => \A a \in called : returned[a] \in AgentResults
  /\ \A a \in Agents : cache[a] # None => cache[a].result.agent = a

(* When files are edited only between calls, what a call finds is what the   *)
(* files hold, and an entry says what its reports found.                     *)
Reports(r, v) == \A k \in DOMAIN r.reports : r.reports[k][2] = v
Current ==
  /\ \A a \in Agents : cache[a] # None => Reports(cache[a].result, cache[a].fp)
  /\ step # "idle" =>
       /\ fp \in {None, source} /\ \A j \in DOMAIN jobs : jobs[j] \in {None, source}
       /\ \A k \in DOMAIN results : Reports(results[k], source)
       /\ \A a \in called : served[a] # None => Reports(served[a], source)
  /\ step = "caching" => \A a \in Ran : Reports(returned[a], source)

CallsInv == TypeOK /\ Quiet /\ Running /\ Returned /\ AnswersForAll

-----------------------------------------------------------------------------
(* Numbers and sequences.                                                    *)
LEMMA Smallest ==
  ASSUME NEW S, S \subseteq Nat, S # {}
  PROVE  \E n \in S : \A m \in S : n <= m
<1> DEFINE R == OpToRel(<, Nat)
<1>1. IsWellFoundedOn(R, Nat)
  BY NatLessThanWellFounded
<1>2. R = {ss \in Nat \X Nat : ss[1] < ss[2]}
  BY DEF OpToRel
<1> HIDE DEF R
<1>3. PICK n \in S : \A y \in S : ~ (<<y, n>> \in R)
  BY <1>1, WFMin
<1>4. \A y \in S : ~ (y < n)
  BY <1>2, <1>3
<1> QED BY <1>4

(* What Repeated returns is what it was given, again and again.              *)
LEMMA RepeatedIs ==
  ASSUME NEW S, NEW r \in Seq(S), NEW n \in Nat
  PROVE  /\ Repeated(r, n) \in Seq(S)
         /\ \A k \in DOMAIN Repeated(r, n) : \E i \in DOMAIN r : Repeated(r, n)[k] = r[i]
<1> DEFINE m == Len(r)
<1>1. m \in Nat /\ DOMAIN r = 1..m /\ n * m \in Nat
  BY LenProperties
<1>2. ASSUME NEW k \in 1..(n * m) PROVE 1 + ((k - 1) % m) \in 1..m
  <2>1. m # 0
    <3> SUFFICES ASSUME m = 0 PROVE FALSE
      OBVIOUS
    <3>1. n * m = 0
      BY <1>1
    <3> QED BY <1>2, <3>1
  <2>2. (k - 1) \in Nat /\ m \in Nat /\ m > 0
    BY <1>1, <1>2, <2>1
  <2> HIDE DEF m
  <2>3. (k - 1) % m \in 0..(m - 1)
    BY <2>2
  <2> QED BY <2>2, <2>3
<1>3. Repeated(r, n) = [k \in 1..(n * m) |-> r[1 + ((k - 1) % m)]]
  BY DEF Repeated
<1> HIDE DEF m
<1>4. \A k \in 1..(n * m) : r[1 + ((k - 1) % m)] \in S
  BY <1>1, <1>2, ElementOfSeq DEF m
<1>5. Repeated(r, n) \in Seq(S)
  BY <1>1, <1>3, <1>4, IsASeq
<1>6. \A k \in DOMAIN Repeated(r, n) : \E i \in DOMAIN r : Repeated(r, n)[k] = r[i]
  BY <1>1, <1>2, <1>3
<1> QED BY <1>5, <1>6

-----------------------------------------------------------------------------
(* The parts of an agent's files, and its answer.                            *)
LEMMA PartsAre ==
  ASSUME NEW a \in Agents
  PROVE  /\ Parts(a) \subseteq 1..Shards /\ 1 \in Parts(a)
         /\ Cardinality(Parts(a)) \in Nat /\ (Cardinality(Parts(a)) = 1 <=> OneWorker(a))
<1>1. Shards \in Nat /\ Shards > 0
  BY RunsAssumption
<1>2. Parts(a) = 1..Shards \/ Parts(a) = {1}
  BY DEF Parts
<1>5. Parts(a) \subseteq 1..Shards /\ 1 \in Parts(a)
  BY <1>1, <1>2
<1>7. IsFiniteSet(1..Shards)
  BY <1>1, FS_Interval
<1>8. IsFiniteSet(Parts(a))
  BY <1>5, <1>7, FS_Subset
<1>3. Cardinality(Parts(a)) \in Nat
  BY <1>8, FS_CardinalityType
<1>4. Cardinality(Parts(a)) = 1 <=> \E x : Parts(a) = {x}
  BY <1>8, FS_Singleton
<1>6. (\E x : Parts(a) = {x}) <=> Parts(a) = {1}
  BY <1>5
<1> QED BY <1>3, <1>4, <1>5, <1>6 DEF OneWorker

LEMMA FirstIs ==
  ASSUME results \in Seq(AgentResults), NEW a, Answered(a)
  PROVE  \E k \in DOMAIN results : First(a) = results[k] /\ results[k].agent = a
<1> DEFINE S == {k \in DOMAIN results : results[k].agent = a}
<1>1. DOMAIN results = 1..Len(results) /\ Len(results) \in Nat
  BY LenProperties
<1>2. S \subseteq Nat /\ S # {}
  BY <1>1 DEF Answered
<1>3. PICK n \in S : \A m \in S : n <= m
  BY <1>2, Smallest
<1>4. n \in DOMAIN results /\ results[n].agent = a
  BY <1>3
<1>5. ASSUME NEW i \in 1..(n - 1) PROVE results[i].agent # a
  <2> SUFFICES ASSUME results[i].agent = a PROVE FALSE
    OBVIOUS
  <2>1. n \in 1..Len(results)
    BY <1>1, <1>4
  <2>2. i \in DOMAIN results /\ i < n
    BY <1>1, <2>1
  <2> QED BY <1>3, <2>1, <2>2
<1>6. \E k \in DOMAIN results : IsFirst(a, k)
  BY <1>4, <1>5 DEF IsFirst
<1>7. PICK k \in DOMAIN results : First(a) = results[k] /\ IsFirst(a, k)
  BY <1>6 DEF First
<1> QED BY <1>7 DEF IsFirst

(* A result whose reports are repeated is a result of the same agent.        *)
LEMMA RepeatedResult ==
  ASSUME NEW r \in AgentResults, NEW n \in Nat
  PROVE  /\ Result(r.agent, r.status, Repeated(r.reports, n)) \in AgentResults
         /\ \A k \in DOMAIN Repeated(r.reports, n) :
              \E l \in DOMAIN r.reports : Repeated(r.reports, n)[k] = r.reports[l]
<1>1. PICK R : AgentResults = [agent : Agents, status : {"done", "failed"}, reports : Seq(R)]
  BY DEF AgentResults
<1>2. r.agent \in Agents /\ r.status \in {"done", "failed"} /\ r.reports \in Seq(R)
  BY <1>1
<1>3. PICK q : q = r.reports
  OBVIOUS
<1>6. q \in Seq(R)
  BY <1>2, <1>3
<1>4. /\ Repeated(q, n) \in Seq(R)
      /\ \A k \in DOMAIN Repeated(q, n) : \E l \in DOMAIN q : Repeated(q, n)[k] = q[l]
  BY <1>6, RepeatedIs
<1>5. Result(r.agent, r.status, Repeated(q, n)) \in AgentResults
  BY <1>1, <1>2, <1>4 DEF Result
<1> QED BY <1>3, <1>4, <1>5

LEMMA MergedIs ==
  ASSUME results \in Seq(AgentResults), NEW a \in Agents, Answered(a)
  PROVE  /\ Merged(a) \in AgentResults /\ Merged(a).agent = a
         /\ OneWorker(a) => \E k \in DOMAIN results : Merged(a) = results[k] /\ results[k].agent = a
         /\ \E i \in DOMAIN results : \A k \in DOMAIN Merged(a).reports :
              \E l \in DOMAIN results[i].reports : Merged(a).reports[k] = results[i].reports[l]
<1>1. PICK i \in DOMAIN results : First(a) = results[i] /\ results[i].agent = a
  BY FirstIs
<1>2. First(a) \in AgentResults
  BY <1>1, ElementOfSeq, LenProperties
<1>3. CASE OneWorker(a)
  <2>1. Merged(a) = results[i]
    BY <1>1, <1>3, PartsAre DEF Merged
  <2> QED BY <1>1, <1>2, <1>3, <2>1
<1>4. CASE ~OneWorker(a)
  <2>1. PICK r \in AgentResults, n \in Nat : r = results[i] /\ n = Cardinality(Parts(a))
    BY <1>1, <1>2, PartsAre
  <2>2. Merged(a) = Result(r.agent, r.status, Repeated(r.reports, n))
    BY <1>1, <1>4, <2>1, PartsAre DEF Merged, MergeShardResults
  <2>3. Merged(a).agent = a /\ Merged(a).reports = Repeated(r.reports, n)
    BY <1>1, <2>1, <2>2 DEF Result
  <2>4. \A k \in DOMAIN Repeated(r.reports, n) :
          \E l \in DOMAIN r.reports : Repeated(r.reports, n)[k] = r.reports[l]
    BY RepeatedResult
  <2>5. Merged(a) \in AgentResults
    BY <2>2, RepeatedResult
  <2>6. \A k \in DOMAIN Merged(a).reports :
          \E l \in DOMAIN results[i].reports : Merged(a).reports[k] = results[i].reports[l]
    BY <2>1, <2>3, <2>4
  <2> QED BY <1>4, <2>3, <2>5, <2>6
<1> QED BY <1>3, <1>4

-----------------------------------------------------------------------------
(* Every step keeps CallsInv, one action after another.                      *)
LEMMA NoneIsNew == None \notin AgentResults /\ None \notin Contents
BY RunsAssumption

(* on_done keeps the types of what it counts and stores.                     *)
LEMMA AllDoneTypes ==
  ASSUME TypeOK, NEW rs \in [Agents -> AgentResults \cup {None}], AllDone(rs)
  PROVE  breaker' \in [Agents -> Nat] /\ stored' \in [Agents -> AgentResults \cup {None}]
BY DEF TypeOK, AllDone, Counted

LEMMA InitInv == Init => CallsInv
<1> SUFFICES ASSUME Init PROVE CallsInv
  OBVIOUS
<1>1. Cached \subseteq Agents /\ Shards \in Nat /\ Shards > 0 /\ MaxCalls \in Nat
  BY RunsAssumption
<1>2. DOMAIN jobs = {} /\ jobs \in [DOMAIN jobs -> Contents \cup {None}]
  BY DEF Init, NoJobs
<1>3. results \in Seq(AgentResults)
  BY EmptySeq DEF Init
<1>4. <<<<1, source>>>> \in Seq((1..Shards) \X Contents)
  BY <1>1 DEF Init
<1>5. \A a \in Agents : Result(a, "done", <<<<1, source>>>>) \in AgentResults
  BY <1>4 DEF Result, AgentResults
<1>6. \A a \in Agents : cache[a] # None =>
        cache[a] = Entry(source, Result(a, "done", <<<<1, source>>>>))
  BY DEF Init
<1>7. \A a \in Agents : cache[a] \in [fp : Contents, result : AgentResults] \cup {None}
  BY <1>5, <1>6 DEF Init, Entry
<1>8. TypeOK
  <2>1. cache \in [Agents -> [fp : Contents, result : AgentResults] \cup {None}]
    BY <1>7 DEF Init
  <2>2. /\ stored \in [Agents -> AgentResults \cup {None}]
        /\ served \in [Agents -> AgentResults \cup {None}]
    BY DEF Init, Nobody
  <2>3. breaker \in [Agents -> Nat] /\ streak \in [Agents -> Nat] /\ calls \in 0..MaxCalls
    BY <1>1 DEF Init
  <2> QED BY <1>2, <1>3, <2>1, <2>2, <2>3 DEF Init, TypeOK
<1>9. Returned
  BY <1>6 DEF Init, Returned, Entry, Result
<1> QED BY <1>2, <1>8, <1>9 DEF Init, CallsInv, Quiet, Running, AnswersForAll

LEMMA CallKeeps ==
  ASSUME CallsInv, NEW as \in SUBSET Agents, Call(as)
  PROVE  CallsInv'
<1>1. TypeOK'
  <2>1. results' \in Seq(AgentResults)
    BY EmptySeq DEF Call
  <2>2. pool' \in BOOLEAN
    BY DEF Call
  <2>3. calls' \in 0..MaxCalls
    BY RunsAssumption DEF CallsInv, TypeOK, Call
  <2> QED BY <2>1, <2>2, <2>3 DEF CallsInv, TypeOK, Call, memory, Nobody
<1> QED BY <1>1 DEF CallsInv, Call, Quiet, Running, Returned, AnswersForAll, memory

LEMMA LookupKeeps ==
  ASSUME CallsInv, Lookup
  PROVE  CallsInv'
<1> DEFINE run == {a \in called : served'[a] = None}
<1>1. /\ TypeOK /\ step = "lookup" /\ called \subseteq Agents
      /\ results = <<>> /\ called' = called /\ pool' = pool
  BY DEF CallsInv, TypeOK, Quiet, Lookup
<1>2. \A a \in Agents : served'[a] # None =>
        /\ a \in called /\ cache[a] # None /\ served'[a] = cache[a].result
        /\ served'[a] \in AgentResults /\ served'[a].agent = a
  BY <1>1 DEF Lookup, Valid, TypeOK, CallsInv, Returned
<1>3. served' \in [Agents -> AgentResults \cup {None}]
  BY <1>2 DEF Lookup
<1>4. AllDone(served')
  BY DEF Lookup
<1>5. breaker' \in [Agents -> Nat] /\ stored' \in [Agents -> AgentResults \cup {None}]
  BY <1>1, <1>3, <1>4, AllDoneTypes
<1>6. jobs' = [j \in JobsOf(run) |-> None] /\ step' = IF run = {} THEN "merge" ELSE "running"
  BY DEF Lookup
<1>7. DOMAIN jobs' = JobsOf(run) /\ JobsOf(run) \subseteq Agents \X (1..Shards)
  BY <1>1, <1>6 DEF JobsOf
<1>8. TypeOK'
  <2>1. hung' = {}
    BY <1>1 DEF Lookup, TypeOK, CallsInv, Quiet
  <2>2. jobs' \in [DOMAIN jobs' -> Contents \cup {None}]
    BY <1>6
  <2>3. fp' \in Contents \cup {None}
    BY <1>1 DEF Lookup, TypeOK
  <2> QED BY <1>1, <1>3, <1>5, <1>6, <1>7, <2>1, <2>2, <2>3 DEF TypeOK, Lookup
<1>9. Quiet'
  BY <1>6, <1>7 DEF Quiet, JobsOf
<1>10. Running'
  <2>1. ToRun' = run /\ results' = <<>> /\ \A a : Parts(a)' = Parts(a)
    BY <1>1 DEF ToRun, Lookup, Parts
  <2>2. \A j \in DOMAIN jobs' : j[1] \in run /\ j[2] \in Parts(j[1])
    BY <1>7 DEF JobsOf
  <2>3. \A a \in run : Pending(a)'
    <3> SUFFICES ASSUME NEW a \in run PROVE \E j \in DOMAIN jobs' : j[1] = a
      BY DEF Pending
    <3>1. <<a, 1>> \in JobsOf(run)
      BY <1>1, PartsAre DEF JobsOf
    <3> HIDE DEF run
    <3>2. <<a, 1>> \in DOMAIN jobs' /\ <<a, 1>>[1] = a
      BY <1>7, <3>1
    <3> QED BY <3>2
  <2>4. \A a \in called : served'[a] # None => stored'[a] = served'[a]
    BY <1>1, <1>4 DEF AllDone
  <2> HIDE DEF run
  <2> QED BY <1>1, <1>2, <2>1, <2>2, <2>3, <2>4 DEF Running
<1>11. Returned' /\ AnswersForAll'
  BY <1>6 DEF Lookup, Returned, AnswersForAll, CallsInv
<1> QED BY <1>8, <1>9, <1>10, <1>11 DEF CallsInv

(* Reading and hanging change no answer.                                     *)
LEMMA WorkersKeep ==
  ASSUME CallsInv, NEW j \in Agents \X (1..Shards), Read(j) \/ Hang(j)
  PROVE  CallsInv'
<1>1. DOMAIN jobs' = DOMAIN jobs /\ j \in DOMAIN jobs
  BY DEF Read, Hang
<1>2. jobs' \in [DOMAIN jobs' -> Contents \cup {None}] /\ hung' \subseteq DOMAIN jobs'
  BY <1>1 DEF Read, Hang, CallsInv, TypeOK
<1>3. /\ \A a : Parts(a)' = Parts(a) /\ Pending(a)' = Pending(a) /\ OneWorker(a)' = OneWorker(a)
      /\ \A a : Answered(a)' = Answered(a)
      /\ ToRun' = ToRun
  BY <1>1 DEF Read, Hang, Parts, Pending, OneWorker, Answered, ToRun, memory
<1>4. TypeOK'
  BY <1>1, <1>2 DEF Read, Hang, CallsInv, TypeOK, memory
<1>5. UNCHANGED <<step, results, called, served, stored, returned, cache>>
  BY DEF Read, Hang, memory
<1>6. Quiet' /\ Returned' /\ AnswersForAll'
  BY <1>1, <1>5 DEF CallsInv, Quiet, Returned, AnswersForAll
<1>7. Running'
  BY <1>1, <1>3, <1>5 DEF CallsInv, Running
<1> QED BY <1>4, <1>6, <1>7 DEF CallsInv

(* An answer is the last of its worker, and the only one of an agent that    *)
(* has one worker.                                                           *)
LEMMA FinishKeeps ==
  ASSUME CallsInv, NEW j \in Agents \X (1..Shards), Finish(j)
  PROVE  CallsInv'
<1>1. PICK r : OnDone(j, r) /\ r \in AgentResults /\ r.agent = j[1]
  <2>1. jobs[j] \in Contents
    BY DEF Finish, CallsInv, TypeOK
  <2>2. <<<<j[2], jobs[j]>>>> \in Seq((1..Shards) \X Contents)
    BY <2>1
  <2>3. <<>> \in Seq((1..Shards) \X Contents)
    BY EmptySeq
  <2>4. /\ Result(j[1], "done", <<<<j[2], jobs[j]>>>>) \in AgentResults
        /\ Result(j[1], "failed", <<>>) \in AgentResults
    BY <2>2, <2>3 DEF Result, AgentResults
  <2>5. \A s, q : Result(j[1], s, q).agent = j[1]
    BY DEF Result
  <2> QED BY <2>4, <2>5 DEF Finish
<1>2. /\ TypeOK /\ step = "running" /\ j \in DOMAIN jobs /\ j \notin hung
      /\ results \in Seq(AgentResults)
  BY DEF CallsInv, TypeOK, Quiet, Finish
<1>3. /\ results' = Append(results, r) /\ results' \in Seq(AgentResults)
      /\ Len(results) \in Nat /\ DOMAIN results = 1..Len(results)
      /\ DOMAIN results' = 1..(Len(results) + 1)
      /\ results'[Len(results) + 1] = r
      /\ \A k \in DOMAIN results : k \in DOMAIN results' /\ results'[k] = results[k]
  BY <1>1, <1>2, AppendProperties, LenProperties DEF OnDone
<1>4. \A k \in DOMAIN results' : k \notin DOMAIN results => results'[k] = r
  BY <1>3
<1>5. /\ DOMAIN jobs' = DOMAIN jobs \ {j} /\ \A i \in DOMAIN jobs' : jobs'[i] = jobs[i]
      /\ jobs' \in [DOMAIN jobs' -> Contents \cup {None}]
      /\ step' = IF DOMAIN jobs = {j} THEN "merge" ELSE "running"
  BY <1>1, <1>2 DEF OnDone, Without, TypeOK
<1>6. stored' = [stored EXCEPT ![j[1]] = r] /\ r # None
  <2>1. r # None
    BY <1>1, NoneIsNew
  <2> QED BY <1>1, <1>2, <2>1 DEF OnDone, AllDone, Nobody, TypeOK
<1>7. breaker' \in [Agents -> Nat] /\ stored' \in [Agents -> AgentResults \cup {None}]
  <2>1. [Nobody EXCEPT ![j[1]] = r] \in [Agents -> AgentResults \cup {None}]
    BY <1>1 DEF Nobody
  <2> QED BY <1>1, <1>2, <2>1, AllDoneTypes DEF OnDone
<1>8. streak' \in [Agents -> Nat]
  BY <1>2 DEF Finish, Observe, TypeOK
<1>9. UNCHANGED <<source, cache, pool, called, fp, served, hung, returned, calls>>
  BY DEF Finish
<1>10. TypeOK'
  BY <1>2, <1>3, <1>5, <1>7, <1>8, <1>9 DEF TypeOK
<1>11. Quiet' /\ Returned' /\ AnswersForAll'
  BY <1>2, <1>5, <1>9 DEF CallsInv, Quiet, Returned, AnswersForAll
<1>12. Running'
  <2>1. /\ \A a : Parts(a)' = Parts(a) /\ OneWorker(a)' = OneWorker(a)
        /\ ToRun' = ToRun /\ called' = called /\ served' = served
    BY <1>9 DEF Parts, OneWorker, ToRun
  <2>2. /\ \A i \in DOMAIN jobs : i[1] \in ToRun /\ i[2] \in Parts(i[1])
        /\ \A k \in DOMAIN results : results[k].agent \in ToRun
        /\ \A a \in ToRun : Pending(a) \/ Answered(a)
        /\ \A a \in called : served[a] # None => served[a].agent = a /\ stored[a] = served[a]
        /\ \A a \in ToRun : OneWorker(a) =>
             \A k \in DOMAIN results : results[k].agent = a => ~Pending(a) /\ stored[a] = results[k]
    BY <1>2 DEF CallsInv, Running
  <2>3. j[1] \in ToRun /\ j[2] \in Parts(j[1])
    BY <1>2, <2>2
  <2>4. \A k \in DOMAIN results' : results'[k].agent \in ToRun
    BY <1>1, <1>3, <1>4, <2>2, <2>3
  <2>5. ASSUME NEW a \in ToRun PROVE Pending(a)' \/ Answered(a)'
    <3>1. CASE Answered(a)
      BY <1>3, <3>1 DEF Answered
    <3>2. CASE a = j[1]
      BY <1>1, <1>3, <3>2 DEF Answered
    <3>3. CASE a # j[1] /\ Pending(a)
      BY <1>5, <3>3 DEF Pending
    <3> QED BY <2>2, <3>1, <3>2, <3>3
  <2>6. \A a \in called : served[a] # None => stored'[a] = served[a]
    BY <1>6, <2>2, <2>3 DEF ToRun
  <2>7. ASSUME NEW a \in ToRun, OneWorker(a), NEW k \in DOMAIN results', results'[k].agent = a
        PROVE  ~Pending(a)' /\ stored'[a] = results'[k]
    <3>1. CASE a = j[1]
      <4>5. \A i \in DOMAIN jobs : i = <<i[1], i[2]>>
        BY <1>2 DEF TypeOK
      <4>6. \A i \in DOMAIN jobs : i[1] = a => i[2] = 1
        BY <2>2, <2>7 DEF OneWorker
      <4>1. \A i \in DOMAIN jobs : i[1] = a => i = j
        BY <1>2, <3>1, <4>5, <4>6
      <4>2. Pending(a)
        BY <1>2, <3>1 DEF Pending
      <4>3. results'[k] = r
        BY <1>3, <1>4, <2>2, <2>7, <4>2
      <4>4. stored'[a] = r
        BY <1>2, <1>6, <3>1 DEF TypeOK
      <4> QED BY <1>5, <4>1, <4>3, <4>4 DEF Pending
    <3>2. CASE a # j[1]
      <4>1. k \in DOMAIN results /\ results'[k] = results[k]
        BY <1>1, <1>3, <1>4, <2>7, <3>2
      <4>2. ~Pending(a) /\ stored[a] = results[k]
        BY <2>2, <2>7, <4>1
      <4> QED BY <1>5, <1>6, <3>2, <4>1, <4>2 DEF Pending
    <3> QED BY <3>1, <3>2
  <2>8. \A i \in DOMAIN jobs' : i[1] \in ToRun /\ i[2] \in Parts(i[1])
    BY <1>5, <2>2
  <2> QED BY <2>1, <2>2, <2>4, <2>5, <2>6, <2>7, <2>8 DEF Running
<1> QED BY <1>10, <1>11, <1>12 DEF CallsInv

(* A broken pool's agents all run again.                                     *)
LEMMA PoolBreaksKeeps ==
  ASSUME CallsInv, PoolBreaks
  PROVE  CallsInv'
<1>1. TypeOK /\ Running /\ step = "running" /\ step' = "running" /\ pool' = FALSE
  BY DEF CallsInv, PoolBreaks
<1>2. /\ jobs' = [j \in ThreadJobs |-> None] /\ DOMAIN jobs' = ThreadJobs
      /\ jobs' \in [DOMAIN jobs' -> Contents \cup {None}] /\ hung' = {}
  BY DEF PoolBreaks
<1>3. ThreadJobs \subseteq Agents \X (1..Shards)
  BY <1>1 DEF ThreadJobs, TypeOK
<1>4. results' = <<>> /\ results' \in Seq(AgentResults)
  BY EmptySeq DEF PoolBreaks
<1>5. UNCHANGED <<source, cache, stored, breaker, streak, called, fp, served, returned, calls>>
  BY DEF PoolBreaks, memory
<1>6. TypeOK'
  BY <1>1, <1>2, <1>3, <1>4, <1>5 DEF TypeOK
<1>7. Quiet' /\ Returned' /\ AnswersForAll'
  BY <1>1, <1>5 DEF CallsInv, Quiet, Returned, AnswersForAll
<1>8. Running'
  <2>1. ToRun' = ToRun
    BY <1>5 DEF ToRun
  <2>2. \A i \in ThreadJobs : i[1] \in ToRun /\ i[2] \in Parts(i[1])'
    BY <1>1 DEF ThreadJobs, ToRun, Parts
  <2>3. ASSUME NEW a \in ToRun PROVE Pending(a)'
    <3>1. Shards \in Nat /\ Shards > 0
      BY RunsAssumption
    <3>2. <<a, 1>> \in ThreadJobs /\ <<a, 1>>[1] = a
      BY <3>1 DEF ThreadJobs, ToRun
    <3> QED BY <1>2, <3>2 DEF Pending
  <2> QED BY <1>1, <1>2, <1>4, <1>5, <2>1, <2>2, <2>3 DEF Running
<1> QED BY <1>6, <1>7, <1>8 DEF CallsInv

(* Every agent that ran is answered for by its merged results.               *)
LEMMA MergeKeeps ==
  ASSUME CallsInv, Merge
  PROVE  CallsInv'
<1>1. /\ TypeOK /\ Running /\ step = "merge" /\ called \subseteq Agents
      /\ results \in Seq(AgentResults) /\ DOMAIN jobs = {}
  BY DEF CallsInv, TypeOK, Quiet, Merge
<1>2. /\ UNCHANGED <<source, cache, stored, breaker, streak, pool, called, fp, served, jobs, hung,
                     results, calls>>
      /\ step' \in {"idle", "caching"}
  BY DEF Merge, memory
<1>3. \A a \in called : served[a] # None =>
        /\ served[a] \in AgentResults /\ served[a].agent = a /\ stored[a] = served[a]
  BY <1>1 DEF TypeOK, Running
<1>4. \A a \in ToRun : Answered(a) /\ ~Pending(a)
  BY <1>1 DEF Running, Pending
<1>5. \A a \in ToRun : Merged(a) \in AgentResults /\ Merged(a).agent = a
  BY <1>1, <1>4, MergedIs DEF ToRun
<1>6. \A a \in ToRun : a \notin Shardable => stored[a] = Merged(a)
  <2> SUFFICES ASSUME NEW a \in ToRun, a \notin Shardable PROVE stored[a] = Merged(a)
    OBVIOUS
  <2>1. OneWorker(a) /\ a \in Agents
    BY <1>1 DEF OneWorker, Parts, ToRun
  <2>2. \E k \in DOMAIN results : Merged(a) = results[k] /\ results[k].agent = a
    BY <1>1, <1>4, <2>1, MergedIs
  <2> QED BY <1>1, <2>1, <2>2 DEF Running
<1>7. /\ DOMAIN returned' = called
      /\ \A a \in called : returned'[a] = IF served[a] # None THEN served[a] ELSE Merged(a)
  BY DEF Merge
<1>8. \A a \in called :
        /\ returned'[a] \in AgentResults /\ returned'[a].agent = a
        /\ a \notin Shardable => stored[a] = returned'[a]
  BY <1>3, <1>5, <1>6, <1>7 DEF ToRun
<1>9. TypeOK'
  BY <1>1, <1>2 DEF TypeOK
<1>10. Quiet' /\ AnswersForAll'
  BY <1>1, <1>2, <1>7, <1>8 DEF Quiet, AnswersForAll
<1>11. Returned'
  BY <1>2, <1>8 DEF CallsInv, Returned
<1>12. Running'
  <2>1. /\ ToRun' = ToRun /\ \A a : Parts(a)' = Parts(a) /\ OneWorker(a)' = OneWorker(a)
        /\ \A a : Pending(a)' = Pending(a) /\ Answered(a)' = Answered(a)
    BY <1>2 DEF ToRun, Parts, OneWorker, Pending, Answered
  <2> QED BY <1>1, <1>2, <2>1 DEF Running
<1> QED BY <1>9, <1>10, <1>11, <1>12 DEF CallsInv

LEMMA PutKeeps ==
  ASSUME CallsInv, Put
  PROVE  CallsInv'
<1>1. TypeOK /\ step = "caching" /\ DOMAIN jobs = {}
  BY DEF CallsInv, Quiet, Put
<1>2. \A a \in Ran : a \in called
  BY <1>1 DEF Ran, CallsInv, Running, ToRun
<1>3. \A a \in Ran : returned[a] \in AgentResults /\ returned[a].agent = a
  BY <1>1, <1>2 DEF CallsInv, Returned, AnswersForAll
<1>4. PICK v \in Contents :
        cache' = [a \in Agents |-> IF a \in Ran THEN Entry(v, returned[a]) ELSE cache[a]]
  BY <1>1 DEF Put, TypeOK
<1>5. cache' \in [Agents -> [fp : Contents, result : AgentResults] \cup {None}]
  BY <1>1, <1>3, <1>4 DEF TypeOK, Entry
<1>6. /\ UNCHANGED <<source, stored, breaker, streak, pool, called, fp, served, jobs, hung,
                     results, returned, calls>>
      /\ step' = "idle"
  BY DEF Put
<1>7. TypeOK'
  BY <1>1, <1>5, <1>6 DEF TypeOK
<1>8. Returned'
  BY <1>3, <1>4, <1>6 DEF CallsInv, Returned, Entry
<1>9. Quiet' /\ Running' /\ AnswersForAll'
  BY <1>1, <1>6 DEF CallsInv, Quiet, Running, AnswersForAll
<1> QED BY <1>7, <1>8, <1>9 DEF CallsInv

LEMMA RestartKeeps ==
  ASSUME CallsInv, Restart
  PROVE  CallsInv'
<1>1. DOMAIN jobs' = {} /\ jobs' \in [DOMAIN jobs' -> Contents \cup {None}]
  BY DEF Restart, NoJobs
<1>2. results' = <<>> /\ results' \in Seq(AgentResults)
  BY EmptySeq DEF Restart
<1>3. TypeOK'
  BY <1>1, <1>2 DEF Restart, CallsInv, TypeOK, Nobody
<1> QED BY <1>1, <1>2, <1>3
        DEF Restart, CallsInv, Quiet, Running, Returned, AnswersForAll

(* An edit changes the files, and nothing else the invariant speaks of.      *)
LEMMA RestKeeps ==
  ASSUME CallsInv, Edit \/ UNCHANGED vars
  PROVE  CallsInv'
<1>1. /\ UNCHANGED <<cache, stored, breaker, streak, step, pool, called, fp, served, jobs, hung,
                     results, returned, calls>>
      /\ source' \in Contents
  BY DEF Edit, vars, memory, CallsInv, TypeOK
<1>2. /\ ToRun' = ToRun /\ \A a : Parts(a)' = Parts(a) /\ OneWorker(a)' = OneWorker(a)
      /\ \A a : Pending(a)' = Pending(a) /\ Answered(a)' = Answered(a)
  BY <1>1 DEF ToRun, Parts, OneWorker, Pending, Answered
<1>3. TypeOK'
  BY <1>1 DEF CallsInv, TypeOK
<1>4. Quiet' /\ Returned' /\ AnswersForAll'
  BY <1>1 DEF CallsInv, Quiet, Returned, AnswersForAll
<1>5. Running'
  BY <1>1, <1>2 DEF CallsInv, Running
<1> QED BY <1>3, <1>4, <1>5 DEF CallsInv

LEMMA NextKeeps == CallsInv /\ [Next]_vars => CallsInv'
BY CallKeeps, LookupKeeps, WorkersKeep, FinishKeeps, PoolBreaksKeeps, MergeKeeps, PutKeeps,
   RestartKeeps, RestKeeps DEF Next, Coordinate, Work

LEMMA Calls == Spec => []CallsInv
<1>1. Init => CallsInv
  BY InitInv
<1>2. CallsInv /\ [Next]_vars => CallsInv'
  BY NextKeeps
<1> QED BY <1>1, <1>2, PTL DEF Spec

-----------------------------------------------------------------------------
(* Every variable has its type.                                              *)
THEOREM AgentRunsTypes == Spec => []TypeOK
<1>1. CallsInv => TypeOK
  BY DEF CallsInv
<1> QED BY <1>1, Calls, PTL

(* A call answers for every agent the breaker let through, with its own run  *)
(* or the cache's answer, in whatever order the workers of _run_classes      *)
(* answer, and the scan memory holds the same.                               *)
THEOREM EveryAgentAnswered == Spec => []AnswersForAll
<1>1. CallsInv => AnswersForAll
  BY DEF CallsInv
<1> QED BY <1>1, Calls, PTL

-----------------------------------------------------------------------------
(* What the cache serves.                                                    *)
LEMMA InitCurrent == Init => Current
<1> SUFFICES ASSUME Init PROVE Current
  OBVIOUS
<1>1. \A a \in Agents : cache[a] # None =>
        cache[a].fp = source /\ cache[a].result.reports = <<<<1, source>>>>
  BY DEF Init, Entry, Result
<1>2. \A a \in Agents : cache[a] # None => Reports(cache[a].result, cache[a].fp)
  BY <1>1 DEF Reports
<1> QED BY <1>2 DEF Init, Current

(* An answer reports what its worker read.                                   *)
LEMMA FinishCurrent ==
  ASSUME CallsInv, Current, NEW j \in Agents \X (1..Shards), Finish(j)
  PROVE  Current'
<1>1. PICK r : OnDone(j, r) /\ r.reports \in {<<<<j[2], jobs[j]>>>>, <<>>}
  BY DEF Finish, Result
<1>2. /\ step = "running" /\ step' # "idle" /\ step' # "caching" /\ j \in DOMAIN jobs
      /\ results \in Seq(AgentResults)
  BY <1>1 DEF CallsInv, TypeOK, Quiet, Finish, OnDone
<1>3. jobs[j] = source
  BY <1>2 DEF Current, Finish
<1>4. Reports(r, source)
  BY <1>1, <1>3 DEF Reports
<1>5. \A k \in DOMAIN results' :
        results'[k] = r \/ (k \in DOMAIN results /\ results'[k] = results[k])
  BY <1>1, <1>2, AppendProperties, LenProperties DEF OnDone
<1>6. DOMAIN jobs' = DOMAIN jobs \ {j} /\ \A i \in DOMAIN jobs' : jobs'[i] = jobs[i]
  BY <1>1 DEF OnDone, Without
<1>7. UNCHANGED <<source, cache, called, fp, served>>
  BY DEF Finish
<1>8. \A k \in DOMAIN results' : Reports(results'[k], source)
  BY <1>2, <1>4, <1>5 DEF Current
<1> QED BY <1>2, <1>6, <1>7, <1>8 DEF Current

LEMMA LookupCurrent ==
  ASSUME CallsInv, Current, Lookup
  PROVE  Current'
<1>1. /\ UNCHANGED <<source, cache, called, results>> /\ results = <<>>
      /\ step' \in {"merge", "running"} /\ called \subseteq Agents
  BY DEF Lookup, CallsInv, Quiet, TypeOK
<1>2. \A a \in called : served'[a] # None =>
        cache[a] # None /\ cache[a].fp = source /\ served'[a] = cache[a].result
  BY <1>1 DEF Lookup, Valid
<1>3. \A a \in called : served'[a] # None => Reports(served'[a], source)
  BY <1>1, <1>2 DEF Current
<1>4. \A j \in DOMAIN jobs' : jobs'[j] = None
  BY DEF Lookup
<1>5. fp' \in {None, source}
  BY DEF Lookup
<1>6. \A a \in Agents : cache'[a] # None => Reports(cache'[a].result, cache'[a].fp)
  BY <1>1 DEF Current
<1> QED BY <1>1, <1>3, <1>4, <1>5, <1>6 DEF Current

(* The merged result of an agent reports what one of its workers did.        *)
LEMMA MergeCurrent ==
  ASSUME CallsInv, Current, Merge
  PROVE  Current'
<1>1. /\ UNCHANGED <<source, cache, called, results, fp, served, jobs>>
      /\ step = "merge" /\ results \in Seq(AgentResults) /\ step' \in {"idle", "caching"}
      /\ called \subseteq Agents
  BY DEF Merge, memory, CallsInv, TypeOK
<1>2. ASSUME NEW a \in Ran PROVE Reports(returned'[a], source)
  <2>1. a \in called /\ served[a] = None /\ Answered(a)
    BY <1>1, <1>2 DEF CallsInv, Running, Ran, ToRun, Answered
  <2>2. returned'[a] = Merged(a)
    BY <2>1 DEF Merge
  <2>3. \E i \in DOMAIN results : \A k \in DOMAIN Merged(a).reports :
          \E l \in DOMAIN results[i].reports : Merged(a).reports[k] = results[i].reports[l]
    BY <1>1, <2>1, MergedIs
  <2>4. \A i \in DOMAIN results :
          \A l \in DOMAIN results[i].reports : results[i].reports[l][2] = source
    BY <1>1 DEF Current, Reports
  <2>5. \A k \in DOMAIN Merged(a).reports : Merged(a).reports[k][2] = source
    BY <2>3, <2>4
  <2> QED BY <2>2, <2>5 DEF Reports
<1>3. Ran' = Ran
  BY <1>1 DEF Ran
<1> QED BY <1>1, <1>2, <1>3 DEF Current

LEMMA PutCurrent ==
  ASSUME CallsInv, Current, Put
  PROVE  Current'
<1>1. /\ step = "caching" /\ step' = "idle" /\ fp \in {None, source}
      /\ \A a \in Ran : Reports(returned[a], source)
      /\ \A a \in Agents : cache[a] # None => Reports(cache[a].result, cache[a].fp)
  BY DEF Put, Current
<1>2. cache' = [a \in Agents |-> IF a \in Ran THEN Entry(source, returned[a]) ELSE cache[a]]
  BY <1>1 DEF Put
<1>3. \A a \in Agents : cache'[a] # None => Reports(cache'[a].result, cache'[a].fp)
  BY <1>1, <1>2 DEF Entry
<1> QED BY <1>1, <1>3 DEF Current

(* The other steps change no result, and an edit waits for the agents.       *)
LEMMA OthersCurrent ==
  ASSUME CallsInv, Current, "during" \notin Hazards,
         \/ \E as \in SUBSET Agents : Call(as)
         \/ \E j \in Agents \X (1..Shards) : Read(j) \/ Hang(j)
         \/ PoolBreaks \/ Restart \/ Edit \/ UNCHANGED vars
  PROVE  Current'
<1>1. cache' = cache
  BY DEF Call, Read, Hang, PoolBreaks, Restart, Edit, vars, memory
<1>2. \A a \in Agents : cache'[a] # None => Reports(cache'[a].result, cache'[a].fp)
  BY <1>1 DEF Current
<1>3. ASSUME NEW as \in SUBSET Agents, Call(as) PROVE Current'
  <2>1. DOMAIN jobs' = {} /\ DOMAIN results' = {} /\ fp' = None /\ step' = "lookup"
    BY <1>3 DEF Call, CallsInv, Quiet
  <2>2. \A a \in called' : served'[a] = None
    BY <1>3 DEF Call, Nobody
  <2> QED BY <1>2, <2>1, <2>2 DEF Current
<1>4. ASSUME NEW j \in Agents \X (1..Shards), Read(j) \/ Hang(j) PROVE Current'
  <2>1. /\ UNCHANGED <<source, step, fp, results, called, served, returned>>
        /\ DOMAIN jobs' = DOMAIN jobs
        /\ \A i \in DOMAIN jobs : jobs'[i] = jobs[i] \/ jobs'[i] = source
    BY <1>4 DEF Read, Hang, memory
  <2> QED BY <1>2, <2>1 DEF Current, Ran
<1>5. CASE PoolBreaks
  BY <1>2, <1>5 DEF PoolBreaks, Current, memory
<1>6. CASE Restart
  BY <1>2, <1>6 DEF Restart, Current
<1>7. CASE Edit
  BY <1>2, <1>7 DEF Edit, Current, memory
<1>8. CASE UNCHANGED vars
  <2>1. UNCHANGED <<source, step, fp, jobs, results, called, served, returned>>
    BY <1>8 DEF vars
  <2> QED BY <1>2, <2>1 DEF Current, Ran
<1> QED BY <1>3, <1>4, <1>5, <1>6, <1>7, <1>8

(* What the cache serves was found in the files as they are now, as long as  *)
(* nobody edits them while the agents of a call run: AgentCache compares     *)
(* what the files held when an entry was put, not when its agent read them.  *)
THEOREM CacheServesCurrent ==
  ASSUME "during" \notin Hazards
  PROVE  Spec => []ServedIsCurrent
<1>1. Init => Current
  BY InitCurrent
<1>2. CallsInv /\ Current /\ [Next]_vars => Current'
  BY FinishCurrent, LookupCurrent, MergeCurrent, PutCurrent, OthersCurrent
     DEF Next, Coordinate, Work
<1>3. CallsInv /\ Current => ServedIsCurrent
  BY DEF CallsInv, TypeOK, Current, ServedIsCurrent, Valid, Reports
<1> QED BY <1>1, <1>2, <1>3, Calls, PTL DEF Spec
=============================================================================
