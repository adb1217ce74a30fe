---------------------------- MODULE WebScansProofs ----------------------------
(***************************************************************************)
(* Proofs about WebScans, for any number of agents, clients, tasks and     *)
(* threads and under every set of hazards: one tracked scan runs at a      *)
(* time, complete means complete, and cancelled is the last word.          *)
(***************************************************************************)
EXTENDS WebScans, FiniteSetTheorems, TLAPS

Steps == {"off", "new", "announced", "launch", "gather", "results", "complete", "to_fix", "fix",
          "fixed", "alone", "cancelled", "dropped", "over"}
Events == {"started", "progress", "complete", "cancelled"}

(* The types of what the properties look at.                                 *)
Types ==
  /\ running \in BOOLEAN
  /\ kind \in Seq(Kinds) /\ Len(kind) <= MaxTasks
  /\ at \in [Tasks -> Steps]
  /\ todo \in [Tasks -> SUBSET Agents] /\ batch \in [Tasks -> SUBSET Agents]
  /\ answered \in [Tasks -> SUBSET Agents]
  /\ sends \in Seq(Tasks \X Events \X BOOLEAN)
  /\ heard \in [Clients -> Seq(Events \X Tasks)]
  /\ left # None => sends # <<>>

Before == {"new", "announced", "launch", "gather"}
After == {"results", "complete", "to_fix", "fix", "fixed"}

(* A task that runs exists, is at a step of its kind, and is the current one *)
(* if it is tracked; an agent of a scan is still to start, in the batch or   *)
(* answered.                                                                 *)
Sound(s) ==
  /\ Alive(s) => s \in DOMAIN kind
  /\ s \in DOMAIN kind =>
       /\ at[s] \notin {"off", "new", "alone", "over"} => Tracked(s)
       /\ at[s] = "alone" => ~Tracked(s)
       /\ Alive(s) /\ Tracked(s) => running /\ current = s
       /\ at[s] = "launch" => todo[s] # {}
       /\ Tracked(s) /\ at[s] \in Before => Agents \subseteq todo[s] \cup batch[s] \cup answered[s]
       /\ Tracked(s) /\ at[s] \in After => answered[s] = Agents

(* The current scan is the latest.                                           *)
Latest ==
  running =>
    /\ current \in DOMAIN kind /\ Tracked(current)
    /\ \A q \in DOMAIN kind : Tracked(q) => q <= current

Final(s) == at[s] \in {"cancelled", "dropped", "over"}

(* What a broadcast says of its task is true for good.                       *)
Says(event, s) ==
  /\ s \in DOMAIN kind
  /\ event = "complete" /\ Tracked(s) => answered[s] = Agents
  /\ event = "cancelled" => Tracked(s) /\ Final(s)

SendsTrue == \A k \in DOMAIN sends : Says(sends[k][2], sends[k][1])
HeardTrue == \A c \in Clients : \A k \in DOMAIN heard[c] : Says(heard[c][k][1], heard[c][k][2])
RecordedWhole == \A s \in recorded : s \in Tasks /\ answered[s] = Agents

(* In the queue of broadcasts nothing else of a cancelled scan comes after   *)
(* that, and nothing of a later scan before.                                 *)
QueueInOrder ==
  \A k \in DOMAIN sends : \A i \in DOMAIN sends : sends[k][2] = "cancelled" =>
    /\ sends[i][1] = sends[k][1] => i <= k \/ sends[i][2] = "cancelled"
    /\ sends[i][1] > sends[k][1] /\ Tracked(sends[i][1]) => i > k

(* Who has heard that a scan was cancelled hears nothing else of it, and who *)
(* is still to hear it has heard nothing of a later one.                     *)
NothingBehind ==
  \A c \in Clients : \A k \in DOMAIN heard[c] : \A i \in DOMAIN sends :
    heard[c][k][1] = "cancelled" /\ sends[i][1] = heard[c][k][2] => sends[i][2] = "cancelled"
NothingAhead ==
  \A k \in DOMAIN sends : \A c \in Clients : \A i \in DOMAIN heard[c] :
    sends[k][2] = "cancelled" /\ Tracked(heard[c][i][2]) => heard[c][i][2] <= sends[k][1]

TasksInv == Types /\ (\A s \in Tasks : Sound(s)) /\ Latest
EventsInv ==
  /\ SendsTrue /\ HeardTrue /\ RecordedWhole
  /\ QueueInOrder /\ NothingBehind /\ NothingAhead /\ CancelledIsLast
WebInv == TasksInv /\ EventsInv

(* What is said stays true.                                                  *)
Keeps ==
  /\ \A s \in DOMAIN kind : s \in DOMAIN kind' /\ kind'[s] = kind[s]
  /\ \A s \in DOMAIN kind : Final(s) /\ Tracked(s) => Final(s)'
  /\ \A s \in Tasks : answered[s] = Agents => answered'[s] = Agents

USE DEF Kinds

-----------------------------------------------------------------------------
(* The initial state has no task and no event.                               *)
LEMMA InitSound == Init => WebInv
<1> SUFFICES ASSUME Init PROVE WebInv
  OBVIOUS
<1>1. Types
  <2>1. \A S : <<>> \in Seq(S)
    OBVIOUS
  <2>2. kind \in Seq(Kinds) /\ Len(kind) <= MaxTasks
    BY <2>1, WebAssumption DEF Init
  <2>3. sends \in Seq(Tasks \X Events \X BOOLEAN) /\ heard \in [Clients -> Seq(Events \X Tasks)]
    BY <2>1, Zenon DEF Init
  <2>4. running \in BOOLEAN /\ at \in [Tasks -> Steps] /\ (left # None => sends # <<>>)
    BY DEF Init, Steps
  <2>5. /\ todo \in [Tasks -> SUBSET Agents] /\ batch \in [Tasks -> SUBSET Agents]
        /\ answered \in [Tasks -> SUBSET Agents]
    BY DEF Init
  <2> QED BY <2>2, <2>3, <2>4, <2>5 DEF Types
<1>2. (\A s \in Tasks : Sound(s)) /\ Latest
  BY DEF Init, Sound, Latest, Alive
<1>3. EventsInv
  BY DEF Init, EventsInv, SendsTrue, HeardTrue, RecordedWhole, QueueInOrder, NothingBehind,
     NothingAhead,
         CancelledIsLast
<1> QED BY <1>1, <1>2, <1>3 DEF WebInv, TasksInv

-----------------------------------------------------------------------------
(* The queue of broadcasts: what is left of it keeps its order.              *)
KeptBy(rest, g) ==
  /\ rest \in Seq(Tasks \X Events \X BOOLEAN)
  /\ g \in [DOMAIN rest -> DOMAIN sends]
  /\ \A i \in DOMAIN rest : rest[i] = sends[g[i]]
  /\ \A i \in DOMAIN rest : \A k \in DOMAIN rest : i < k <=> g[i] < g[k]

LEMMA AllKept == ASSUME Types PROVE \E g : KeptBy(sends, g)
<1> DEFINE g == [i \in DOMAIN sends |-> i]
<1>1. KeptBy(sends, g)
  BY DEF Types, KeptBy
<1> QED BY <1>1

LEMMA TailKept == ASSUME Types, sends # <<>> PROVE \E g : KeptBy(Tail(sends), g)
<1> DEFINE g == [i \in DOMAIN Tail(sends) |-> i + 1]
<1>1. KeptBy(Tail(sends), g)
  BY DEF Types, KeptBy
<1> QED BY <1>1

LEMMA WithdrawnKept == ASSUME Types, NEW s PROVE \E g : KeptBy(Withdrawn(s), g)
<1>1. CASE Told(s)
  BY <1>1, AllKept DEF Withdrawn
<1>2. CASE ~Told(s)
  <2> DEFINE mine == CHOOSE k \in Pending(s) : TRUE
             rest == [k \in 1..(Len(sends) - 1) |-> IF k < mine THEN sends[k] ELSE sends[k + 1]]
             g == [i \in DOMAIN rest |-> IF i < mine THEN i ELSE i + 1]
  <2>1. mine \in DOMAIN sends
    BY <1>2 DEF Told, Pending
  <2>2. mine \in 1..Len(sends) /\ Len(sends) \in Nat /\ DOMAIN sends = 1..Len(sends)
    BY <2>1 DEF Types
  <2>3. Withdrawn(s) = rest
    BY <1>2 DEF Withdrawn
  <2> HIDE DEF mine
  <2>4. DOMAIN rest = 1..(Len(sends) - 1)
    OBVIOUS
  <2>5. \A i \in DOMAIN rest : rest[i] \in Tasks \X Events \X BOOLEAN
    BY <2>2 DEF Types
  <2>6. rest \in Seq(Tasks \X Events \X BOOLEAN)
    <3>1. Len(sends) - 1 \in Nat
      BY <2>2
    <3>2. rest \in [1..(Len(sends) - 1) -> Tasks \X Events \X BOOLEAN]
      BY <2>4, <2>5
    <3> HIDE DEF rest
    <3> QED BY <3>1, <3>2
  <2>7. KeptBy(rest, g)
    BY <2>2, <2>4, <2>6 DEF KeptBy
  <2> QED BY <2>3, <2>7
<1> QED BY <1>1, <1>2

-----------------------------------------------------------------------------
LEMMA KindTasks == ASSUME Types PROVE DOMAIN kind \subseteq Tasks /\ DOMAIN kind = 1..Len(kind)
BY WebAssumption DEF Types, Tasks

(* The tasks.  First the steps that move none, one, or the current one out.  *)
LEMMA NoneMoves ==
  ASSUME TasksInv, Types', UNCHANGED <<state, kind, at, todo, batch>>,
         \A s \in Tasks : answered[s] \subseteq answered'[s]
  PROVE  TasksInv' /\ Keeps
<1>1. \A s \in Tasks : answered'[s] \subseteq Agents
  BY DEF Types
<1>2. ASSUME NEW s \in Tasks PROVE Sound(s)'
  <2>1. Sound(s) /\ answered[s] \subseteq answered'[s] /\ answered'[s] \subseteq Agents
    BY <1>1 DEF TasksInv
  <2>2. UNCHANGED <<running, current, kind, at, todo, batch>>
    BY DEF state
  <2> QED BY <2>1, <2>2 DEF Sound, Alive, Tracked
<1>3. Latest'
  BY DEF TasksInv, Latest, Tracked, state
<1>4. Keeps
  BY <1>1 DEF Keeps, Final
<1> QED BY <1>2, <1>3, <1>4 DEF TasksInv

LEMMA OneMoves ==
  ASSUME TasksInv, Types', NEW s \in Tasks, s \in DOMAIN kind, UNCHANGED <<state, kind, answered>>,
         \A q \in Tasks \ {s} : at'[q] = at[q] /\ todo'[q] = todo[q] /\ batch'[q] = batch[q],
         Sound(s)', Final(s) => Final(s)'
  PROVE  TasksInv' /\ Keeps
<1>1. \A q \in Tasks \ {s} : Sound(q)'
  BY DEF TasksInv, Types, Sound, Alive, Tracked, state
<1>2. Latest'
  BY DEF TasksInv, Latest, Tracked, state
<1>3. Keeps
  BY KindTasks DEF Keeps, Final, TasksInv
<1> QED BY <1>1, <1>2, <1>3 DEF TasksInv

LEMMA CurrentEnds ==
  ASSUME TasksInv, Types', NEW s \in Tasks, Alive(s), Tracked(s), Over(s),
         UNCHANGED <<kind, todo, batch, answered>>
  PROVE  TasksInv' /\ Keeps
<1>1. \A q \in Tasks : q # s /\ Alive(q) => ~Tracked(q)
  BY DEF TasksInv, Sound
<1>2. s \in DOMAIN kind
  BY DEF TasksInv, Sound
<1>3. at' = [at EXCEPT ![s] = "over"] /\ running' = FALSE
  BY DEF Over, At
<1>4. \A q \in Tasks : Sound(q)'
  <2>1. Sound(s)'
    BY <1>2, <1>3 DEF TasksInv, Types, Sound, Alive, Tracked, Before, After
  <2>2. ASSUME NEW q \in Tasks, q # s PROVE Sound(q)'
    BY <1>1, <1>3, <2>2 DEF TasksInv, Types, Sound, Alive, Tracked
  <2> QED BY <2>1, <2>2
<1>5. Latest'
  BY <1>3 DEF Latest
<1>6. Keeps
  BY <1>3 DEF Keeps, Final, TasksInv, Types
<1> QED BY <1>4, <1>5, <1>6 DEF TasksInv

LEMMA Created ==
  ASSUME TasksInv, Types', NEW k \in Kinds, Create(k), UNCHANGED <<batch, answered>>,
         \/ k \in {"quick", "dast"} /\ UNCHANGED state
         \/ k \in {"scan", "scan_fix"} /\ ~running /\ running' = TRUE /\ current' = Len(kind) + 1
  PROVE  TasksInv' /\ Keeps
<1> SUFFICES ASSUME NEW s, s = Len(kind) + 1 PROVE TasksInv' /\ Keeps
  OBVIOUS
<1>1. /\ s \in Tasks /\ kind' = Append(kind, k) /\ at' = [at EXCEPT ![s] = "new"]
      /\ todo' = [todo EXCEPT ![s] = IF k = "dast" THEN {FirstOf(Agents)} ELSE Agents]
  BY DEF Create, At
<1>2. /\ kind \in Seq(Kinds) /\ DOMAIN kind = 1..Len(kind) /\ Len(kind) \in Nat
      /\ DOMAIN kind' = 1..s /\ kind'[s] = k /\ \A q \in DOMAIN kind : kind'[q] = kind[q] /\ q # s
  BY <1>1 DEF TasksInv, Types
<1>3. Sound(s)'
  <2>1. at'[s] = "new" /\ s \in DOMAIN kind' /\ Tracked(s)' = (k \in {"scan", "scan_fix"})
    BY <1>1, <1>2 DEF TasksInv, Types, Tracked
  <2>2. k \in {"scan", "scan_fix"} => todo'[s] = Agents
    BY <1>1 DEF TasksInv, Types
  <2>3. k \in {"scan", "scan_fix"} => running' /\ current' = s
    OBVIOUS
  <2> QED BY <2>1, <2>2, <2>3 DEF Sound, Alive, Before, After
<1>4. ASSUME NEW q \in Tasks, q # s PROVE Sound(q)'
  <2>1. q \in DOMAIN kind' <=> q \in DOMAIN kind
    BY <1>2, <1>4
  <2>2. at'[q] = at[q] /\ todo'[q] = todo[q] /\ batch'[q] = batch[q] /\ answered'[q] = answered[q]
    BY <1>1, <1>4 DEF TasksInv, Types
  <2>3. q \in DOMAIN kind => Tracked(q)' = Tracked(q)
    BY <1>2, <2>1 DEF Tracked
  <2>4. Sound(q)
    BY DEF TasksInv
  <2>5. q \in DOMAIN kind /\ Alive(q) /\ Tracked(q) => running /\ UNCHANGED state
    BY <2>4 DEF Sound
  <2> QED BY <2>1, <2>2, <2>3, <2>4, <2>5 DEF Sound, Alive, state
<1>5. Latest'
  <2>1. CASE k \in {"quick", "dast"} /\ UNCHANGED state
    BY <1>2, <2>1 DEF TasksInv, Latest, Tracked, state
  <2>2. CASE k \in {"scan", "scan_fix"} /\ current' = s
    BY <1>2, <2>2 DEF Latest, Tracked
  <2> QED BY <2>1, <2>2
<1>6. Keeps
  BY <1>1, <1>2 DEF Keeps, Final, TasksInv, Types
<1>7. \A q \in Tasks : Sound(q)'
  BY <1>3, <1>4
<1> QED BY <1>5, <1>6, <1>7 DEF TasksInv

-----------------------------------------------------------------------------
(* Every step keeps the types.                                               *)
LEMMA AppendTyped ==
  ASSUME NEW S, NEW q \in Seq(S), NEW e \in S
  PROVE  Append(q, e) \in Seq(S) /\ Append(q, e) # <<>>
<1>1. Append(q, e) \in Seq(S)
  OBVIOUS
<1>2. Len(Append(q, e)) = Len(q) + 1 /\ Len(q) \in Nat /\ Len(<<>>) = 0
  OBVIOUS
<1> QED BY <1>1, <1>2

LEMMA Answers ==
  ASSUME Types, NEW job \in Jobs, Answer(job)
  PROVE  /\ answered' \in [Tasks -> SUBSET Agents]
         /\ \A s \in Tasks : answered[s] \subseteq answered'[s]
<1>1. job[1] \in Tasks /\ (job[2] = Fix \/ job[2] \in Agents)
  BY DEF Jobs
<1> QED BY <1>1 DEF Types, Answer

LEMMA BroadcastTypes ==
  ASSUME Types, NEW s \in Tasks, NEW e \in Events, Broadcast(s, e)
  PROVE  sends' \in Seq(Tasks \X Events \X BOOLEAN) /\ sends' # <<>>
<1>1. <<s, e, FALSE>> \in Tasks \X Events \X BOOLEAN
  OBVIOUS
<1>2. sends' = Append(sends, <<s, e, FALSE>>) /\ sends \in Seq(Tasks \X Events \X BOOLEAN)
  BY DEF Broadcast, Types
<1> QED BY <1>1, <1>2, AppendTyped

LEMMA TypesStep == TasksInv /\ Next => Types'
<1> SUFFICES ASSUME TasksInv, Next PROVE Types'
  OBVIOUS
<1> USE DEF Steps, state, pool, socket
<1>1. ASSUME TriggerScan \/ TriggerOther PROVE Types'
  <2>1. PICK k \in Kinds : Create(k)
    BY <1>1 DEF TriggerScan, TriggerOther
  <2>2. kind' \in Seq(Kinds) /\ Len(kind') = Len(kind) + 1
    BY <2>1 DEF TasksInv, Types, Create
  <2>3. Len(kind) + 1 \in Tasks /\ at' \in [Tasks -> Steps]
    BY <2>1 DEF TasksInv, Types, Create, At
  <2>4. FirstOf(Agents) \in Agents
    BY WebAssumption DEF FirstOf
  <2>5. todo' \in [Tasks -> SUBSET Agents]
    BY <2>1, <2>4 DEF TasksInv, Types, Create
  <2>6. Len(kind') <= MaxTasks
    BY <2>2, <2>3, WebAssumption DEF TasksInv, Types, Tasks
  <2> QED BY <1>1, <2>2, <2>3, <2>5, <2>6 DEF TasksInv, Types, TriggerScan, TriggerOther
<1>2. ASSUME CancelScan PROVE Types'
  <2>1. current \in Tasks
    BY <1>2, KindTasks DEF CancelScan, TasksInv, Latest
  <2>2. PICK g : KeptBy(Withdrawn(current), g)
    BY WithdrawnKept DEF TasksInv
  <2>3. sends' = Append(Withdrawn(current), <<current, "cancelled", TRUE>>)
    BY <1>2 DEF CancelScan
  <2>4. <<current, "cancelled", TRUE>> \in Tasks \X Events \X BOOLEAN
    BY <2>1 DEF Events
  <2>5. sends' \in Seq(Tasks \X Events \X BOOLEAN) /\ sends' # <<>>
    BY <2>2, <2>3, <2>4, AppendTyped DEF KeptBy
  <2>6. at' \in [Tasks -> Steps]
    BY <1>2 DEF TasksInv, Types, CancelScan, At
  <2> QED BY <1>2, <2>5, <2>6 DEF TasksInv, Types, CancelScan
<1>3. ASSUME TakeLock PROVE Types'
  BY <1>3 DEF TasksInv, Types, At, TakeLock
<1>4. ASSUME StartJob PROVE Types'
  BY <1>4 DEF TasksInv, Types, At, StartJob
<1>5. ASSUME ReleaseLock PROVE Types'
  <2>1. sends # <<>> /\ sends \in Seq(Tasks \X Events \X BOOLEAN)
    BY <1>5 DEF TasksInv, Types, ReleaseLock
  <2>2. Tail(sends) \in Seq(Tasks \X Events \X BOOLEAN)
    BY <2>1
  <2> QED BY <1>5, <2>2 DEF TasksInv, Types, ReleaseLock
<1>6. ASSUME NEW c \in Clients, Send(c) PROVE Types'
  <2>1. sends # <<>> /\ sends[1] \in Tasks \X Events \X BOOLEAN /\ left # None
    BY <1>6 DEF TasksInv, Types, Send
  <2>2. Logged(c, sends[1]) \in Seq(Events \X Tasks)
    BY <2>1 DEF TasksInv, Types, Logged
  <2>3. heard' \in [Clients -> Seq(Events \X Tasks)]
    BY <1>6, <2>2 DEF TasksInv, Types, Send
  <2> QED BY <1>6, <2>1, <2>3 DEF TasksInv, Types, Send
<1>7. ASSUME NEW c \in Clients, Leave(c) \/ Join(c) PROVE Types'
  <2>1. <<>> \in Seq(Events \X Tasks)
    OBVIOUS
  <2>2. heard' \in [Clients -> Seq(Events \X Tasks)]
    BY <1>7, <2>1 DEF TasksInv, Types, Leave, Join
  <2> QED BY <1>7, <2>2 DEF TasksInv, Types, Leave, Join
<1>8. ASSUME NEW job \in Jobs,
   FinishJob(job) \/ Raise(job) \/ Hang(job) \/ Timeout(job) PROVE Types'
  <2>1. job[1] \in Tasks /\ (job[2] = Fix \/ job[2] \in Agents)
    BY DEF Jobs
  <2>2. answered' \in [Tasks -> SUBSET Agents]
    <3>1. Answer(job) \/ UNCHANGED answered
      BY <1>8, Zenon DEF FinishJob, Raise, Hang, Timeout
    <3> QED BY <3>1, Answers DEF TasksInv, Types
  <2>3. at' \in [Tasks -> Steps]
    BY <1>8, <2>1 DEF TasksInv, Types, FinishJob, Raise, Hang, Timeout, At
  <2> QED BY <1>8, <2>2, <2>3 DEF TasksInv, Types, FinishJob, Raise, Hang, Timeout
<1>9. ASSUME NEW s \in Tasks, Begin(s) PROVE Types'
  <2>1. sends' \in Seq(Tasks \X Events \X BOOLEAN) /\ (sends' # <<>> \/ UNCHANGED sends)
    BY <1>9, BroadcastTypes DEF TasksInv, Types, Begin, Events
  <2> QED BY <1>9, <2>1 DEF TasksInv, Types, Begin, At
<1>10. ASSUME NEW s \in Tasks, Announce(s) PROVE Types'
  <2>1. sends' \in Seq(Tasks \X Events \X BOOLEAN) /\ (sends' # <<>> \/ UNCHANGED sends)
    BY <1>10, BroadcastTypes DEF TasksInv, Types, Announce, Events
  <2> QED BY <1>10, <2>1 DEF TasksInv, Types, Announce, At
<1>11. ASSUME NEW s \in Tasks, Gathered(s) PROVE Types'
  <2>1. sends' \in Seq(Tasks \X Events \X BOOLEAN) /\ (sends' # <<>> \/ UNCHANGED sends)
    BY <1>11, BroadcastTypes DEF TasksInv, Types, Gathered, Events
  <2> QED BY <1>11, <2>1 DEF TasksInv, Types, Gathered, At
<1>12. ASSUME NEW s \in Tasks, Complete(s) PROVE Types'
  <2>1. sends' \in Seq(Tasks \X Events \X BOOLEAN) /\ (sends' # <<>> \/ UNCHANGED sends)
    BY <1>12, BroadcastTypes DEF TasksInv, Types, Complete, Events
  <2> QED BY <1>12, <2>1 DEF TasksInv, Types, Complete, At
<1>13. ASSUME NEW s \in Tasks, Fixed(s) PROVE Types'
  <2>1. sends' \in Seq(Tasks \X Events \X BOOLEAN) /\ (sends' # <<>> \/ UNCHANGED sends)
    BY <1>13, BroadcastTypes DEF TasksInv, Types, Fixed, Events
  <2> QED BY <1>13, <2>1 DEF TasksInv, Types, Fixed, At
<1>14. ASSUME NEW s \in Tasks, CompleteAlone(s) PROVE Types'
  <2>1. sends' \in Seq(Tasks \X Events \X BOOLEAN) /\ (sends' # <<>> \/ UNCHANGED sends)
    BY <1>14, BroadcastTypes DEF TasksInv, Types, CompleteAlone, Events
  <2> QED BY <1>14, <2>1 DEF TasksInv, Types, CompleteAlone, At
<1>15. ASSUME NEW s \in Tasks, Record(s) PROVE Types'
  <2>1. sends' \in Seq(Tasks \X Events \X BOOLEAN) /\ (sends' # <<>> \/ UNCHANGED sends)
    BY <1>15, BroadcastTypes DEF TasksInv, Types, Record, Events
  <2> QED BY <1>15, <2>1 DEF TasksInv, Types, Record, Over, At
<1>16. ASSUME NEW s \in Tasks, Launch(s) PROVE Types'
  <2>1. FirstOf(todo[s]) \in Agents
    BY <1>16 DEF TasksInv, Types, Sound, Alive, Launch, FirstOf
  <2> QED BY <1>16, <2>1 DEF TasksInv, Types, Launch, At
<1>17. ASSUME NEW s \in Tasks, RunAlone(s) PROVE Types'
  <2>1. FirstOf(todo[s]) \in Agents
    BY <1>17 DEF TasksInv, Types, RunAlone, FirstOf
  <2> QED BY <1>17, <2>1 DEF TasksInv, Types, RunAlone
<1>18. ASSUME NEW s \in Tasks, Gather(s) \/ StartFix(s) PROVE Types'
  BY <1>18 DEF TasksInv, Types, At, Gather, StartFix
<1>19. ASSUME NEW s \in Tasks, End(s) \/ Unwind(s) PROVE Types'
  BY <1>19 DEF TasksInv, Types, At, End, Unwind, Over
<1> QED
  BY <1>1, <1>2, <1>3, <1>4, <1>5, <1>6, <1>7, <1>8, <1>9, <1>10, <1>11, <1>12, <1>13, <1>14,
     <1>15, <1>16, <1>17, <1>18, <1>19 DEF Next, Loop, TaskStep

-----------------------------------------------------------------------------
(* Every step keeps the tasks sound.                                         *)
LEMMA CancelTasks ==
  ASSUME TasksInv, CancelScan, Types' PROVE TasksInv' /\ Keeps
<1> SUFFICES ASSUME NEW s, s = current PROVE TasksInv' /\ Keeps
  OBVIOUS
<1>1. s \in DOMAIN kind /\ s \in Tasks /\ Tracked(s) /\ UNCHANGED <<state, kind>> /\ Alive(s)
  BY KindTasks DEF CancelScan, TasksInv, Latest
<1>2. /\ at' = [at EXCEPT ![s] = IF at[s] = "new" THEN "dropped" ELSE "cancelled"]
      /\ UNCHANGED <<todo, batch, answered>>
  BY DEF CancelScan, At
<1>3. Sound(s)'
  BY <1>1, <1>2 DEF TasksInv, Types, Sound, Alive, Tracked, Before, After, state
<1>4. Final(s)'
  BY <1>1, <1>2 DEF TasksInv, Types, Final, state
<1>5. \A q \in Tasks \ {s} : at'[q] = at[q] /\ todo'[q] = todo[q] /\ batch'[q] = batch[q]
  BY <1>2 DEF TasksInv, Types
<1> QED BY <1>1, <1>2, <1>3, <1>4, <1>5, OneMoves

LEMMA TasksStep == TasksInv /\ Next => TasksInv' /\ Keeps
<1> SUFFICES ASSUME TasksInv, Next PROVE TasksInv' /\ Keeps
  OBVIOUS
<1>t. Types'
  BY TypesStep
<1>1. ASSUME TriggerScan \/ TriggerOther PROVE TasksInv' /\ Keeps
  <2>1. PICK k \in Kinds : /\ Create(k) /\ UNCHANGED <<batch, answered>>
           /\ \/ k \in {"quick", "dast"} /\ UNCHANGED state
              \/ k \in {"scan", "scan_fix"} /\ ~running /\ running' = TRUE /\ current' = Len(kind) + 1
    BY <1>1 DEF TriggerScan, TriggerOther
  <2> QED BY <1>t, <2>1, Created
<1>2. ASSUME CancelScan PROVE TasksInv' /\ Keeps
  BY <1>2, <1>t, CancelTasks
<1>3. ASSUME Loop \/ \E c \in Clients : Leave(c) \/ Join(c) PROVE TasksInv' /\ Keeps
  BY <1>3, <1>t, NoneMoves DEF Loop, TakeLock, ReleaseLock, Send, StartJob, Leave, Join, pool,
     socket
<1>4. ASSUME NEW job \in Jobs, FinishJob(job) \/ Hang(job) \/ Timeout(job) PROVE TasksInv' /\ Keeps
  <2>1. \A s \in Tasks : answered[s] \subseteq answered'[s]
    <3>1. Answer(job) \/ UNCHANGED answered
      BY <1>4, Zenon DEF FinishJob, Hang, Timeout
    <3> QED BY <3>1, Answers DEF TasksInv, Types
  <2> QED BY <1>4, <1>t, <2>1, NoneMoves DEF FinishJob, Hang, Timeout, pool, socket
<1>5. ASSUME NEW job \in Jobs, Raise(job) PROVE TasksInv' /\ Keeps
  <2>1. job[1] \in Tasks /\ ~Tracked(job[1]) /\ at' = [at EXCEPT ![job[1]] = "over"]
    BY <1>5 DEF Raise, At, Jobs
  <2>2. UNCHANGED <<state, kind, todo, batch, answered>>
    BY <1>5 DEF Raise
  <2>3. \A s \in Tasks : Sound(s)'
    BY <2>1, <2>2 DEF TasksInv, Types, Sound, Alive, Tracked, Before, After, state
  <2>4. Latest' /\ Keeps
    BY <2>1, <2>2 DEF TasksInv, Types, Latest, Keeps, Final, Tracked, state
  <2> QED BY <1>t, <2>3, <2>4 DEF TasksInv
<1>6. ASSUME NEW s \in Tasks, Begin(s) PROVE TasksInv' /\ Keeps
  <2>1. s \in DOMAIN kind
    BY <1>6 DEF Begin, TasksInv, Sound, Alive
  <2>2. Sound(s) /\ Types
    BY DEF TasksInv
  <2>3. Sound(s)'
    BY <1>6, <2>1, <2>2 DEF Begin, Types, At, Sound, Alive, Tracked, Before, After, state
  <2>4. Final(s) => Final(s)'
    BY <1>6 DEF Begin, Final
  <2> QED BY <1>6, <1>t, <2>1, <2>3, <2>4, OneMoves DEF Begin, At, TasksInv, Types, state
<1>7. ASSUME NEW s \in Tasks, Announce(s) PROVE TasksInv' /\ Keeps
  <2>1. s \in DOMAIN kind
    BY <1>7 DEF Announce, TasksInv, Sound, Alive
  <2>2. Sound(s) /\ Types
    BY DEF TasksInv
  <2>3. Sound(s)'
    BY <1>7, <2>1, <2>2 DEF Announce, Types, At, Sound, Alive, Tracked, Before, After, state
  <2>4. Final(s) => Final(s)'
    BY <1>7 DEF Announce, Final
  <2> QED BY <1>7, <1>t, <2>1, <2>3, <2>4, OneMoves DEF Announce, At, TasksInv, Types, state
<1>8. ASSUME NEW s \in Tasks, Launch(s) PROVE TasksInv' /\ Keeps
  <2>1. s \in DOMAIN kind
    BY <1>8 DEF Launch, TasksInv, Sound, Alive
  <2>2. Sound(s) /\ Types
    BY DEF TasksInv
  <2>3. Sound(s)'
    BY <1>8, <2>1, <2>2 DEF Launch, Types, At, Sound, Alive, Tracked, Before, After, state, FirstOf
  <2>4. Final(s) => Final(s)'
    BY <1>8 DEF Launch, Final
  <2> QED BY <1>8, <1>t, <2>1, <2>3, <2>4, OneMoves DEF Launch, At, TasksInv, Types, state
<1>9. ASSUME NEW s \in Tasks, Gather(s) PROVE TasksInv' /\ Keeps
  <2>1. s \in DOMAIN kind
    BY <1>9 DEF Gather, TasksInv, Sound, Alive
  <2>2. Sound(s) /\ Types
    BY DEF TasksInv
  <2>3. Sound(s)'
    BY <1>9, <2>1, <2>2 DEF Gather, Types, At, Sound, Alive, Tracked, Before, After, state
  <2>4. Final(s) => Final(s)'
    BY <1>9 DEF Gather, Final
  <2> QED BY <1>9, <1>t, <2>1, <2>3, <2>4, OneMoves DEF Gather, At, TasksInv, Types, state
<1>10. ASSUME NEW s \in Tasks, Gathered(s) PROVE TasksInv' /\ Keeps
  <2>1. s \in DOMAIN kind
    BY <1>10 DEF Gathered, TasksInv, Sound, Alive
  <2>2. Sound(s) /\ Types
    BY DEF TasksInv
  <2>3. Sound(s)'
    BY <1>10, <2>1, <2>2 DEF Gathered, Types, At, Sound, Alive, Tracked, Before, After, state
  <2>4. Final(s) => Final(s)'
    BY <1>10 DEF Gathered, Final
  <2> QED BY <1>10, <1>t, <2>1, <2>3, <2>4, OneMoves DEF Gathered, At, TasksInv, Types, state
<1>11. ASSUME NEW s \in Tasks, Complete(s) PROVE TasksInv' /\ Keeps
  <2>1. s \in DOMAIN kind
    BY <1>11 DEF Complete, TasksInv, Sound, Alive
  <2>2. Sound(s) /\ Types
    BY DEF TasksInv
  <2>3. Sound(s)'
    BY <1>11, <2>1, <2>2 DEF Complete, Types, At, Sound, Alive, Tracked, Before, After, state
  <2>4. Final(s) => Final(s)'
    BY <1>11 DEF Complete, Final
  <2> QED BY <1>11, <1>t, <2>1, <2>3, <2>4, OneMoves DEF Complete, At, TasksInv, Types, state
<1>12. ASSUME NEW s \in Tasks, StartFix(s) PROVE TasksInv' /\ Keeps
  <2>1. s \in DOMAIN kind
    BY <1>12 DEF StartFix, TasksInv, Sound, Alive
  <2>2. Sound(s) /\ Types
    BY DEF TasksInv
  <2>3. Sound(s)'
    BY <1>12, <2>1, <2>2 DEF StartFix, Types, At, Sound, Alive, Tracked, Before, After, state
  <2>4. Final(s) => Final(s)'
    BY <1>12 DEF StartFix, Final
  <2> QED BY <1>12, <1>t, <2>1, <2>3, <2>4, OneMoves DEF StartFix, At, TasksInv, Types, state
<1>13. ASSUME NEW s \in Tasks, Fixed(s) PROVE TasksInv' /\ Keeps
  <2>1. s \in DOMAIN kind
    BY <1>13 DEF Fixed, TasksInv, Sound, Alive
  <2>2. Sound(s) /\ Types
    BY DEF TasksInv
  <2>3. Sound(s)'
    BY <1>13, <2>1, <2>2 DEF Fixed, Types, At, Sound, Alive, Tracked, Before, After, state
  <2>4. Final(s) => Final(s)'
    BY <1>13 DEF Fixed, Final
  <2> QED BY <1>13, <1>t, <2>1, <2>3, <2>4, OneMoves DEF Fixed, At, TasksInv, Types, state
<1>14. ASSUME NEW s \in Tasks, RunAlone(s) PROVE TasksInv' /\ Keeps
  <2>1. s \in DOMAIN kind
    BY <1>14 DEF RunAlone, TasksInv, Sound, Alive
  <2>2. Sound(s) /\ Types
    BY DEF TasksInv
  <2>3. Sound(s)'
    BY <1>14, <2>1, <2>2 DEF RunAlone, Types, At, Sound, Alive, Tracked, Before, After, state,
       FirstOf
  <2>4. Final(s) => Final(s)'
    BY <1>14 DEF RunAlone, Final
  <2> QED BY <1>14, <1>t, <2>1, <2>3, <2>4, OneMoves DEF RunAlone, At, TasksInv, Types, state
<1>15. ASSUME NEW s \in Tasks, CompleteAlone(s) PROVE TasksInv' /\ Keeps
  <2>1. s \in DOMAIN kind
    BY <1>15 DEF CompleteAlone, TasksInv, Sound, Alive
  <2>2. Sound(s) /\ Types
    BY DEF TasksInv
  <2>3. Sound(s)'
    BY <1>15, <2>1, <2>2 DEF CompleteAlone, Types, At, Sound, Alive, Tracked, Before, After, state
  <2>4. Final(s) => Final(s)'
    BY <1>15 DEF CompleteAlone, Final
  <2> QED BY <1>15, <1>t, <2>1, <2>3, <2>4, OneMoves DEF CompleteAlone, At, TasksInv, Types, state
<1>16. ASSUME NEW s \in Tasks, Record(s) PROVE TasksInv' /\ Keeps
  <2>1. s \in DOMAIN kind /\ Alive(s) /\ Tracked(s)
    BY <1>16 DEF Record, TasksInv, Sound, Alive
  <2>2. CASE kind[s] = "scan_fix"
    <3>1. Sound(s) /\ Types
      BY DEF TasksInv
    <3>2. Sound(s)'
      BY <1>16, <2>1, <2>2, <3>1 DEF Record, Types, At, Sound, Alive, Tracked, Before, After, state
    <3> QED BY <1>16, <1>t, <2>1, <2>2, <3>2, OneMoves DEF Record, At, TasksInv, Types, state,
       Alive, Final
  <2>3. CASE kind[s] # "scan_fix"
    BY <1>16, <1>t, <2>1, <2>3, CurrentEnds DEF Record
  <2> QED BY <2>2, <2>3
<1>17. ASSUME NEW s \in Tasks, End(s) \/ Unwind(s) PROVE TasksInv' /\ Keeps
  <2>1. Alive(s) /\ Tracked(s)
    BY <1>17 DEF End, Unwind, TasksInv, Sound, Alive
  <2> QED BY <1>17, <1>t, <2>1, CurrentEnds DEF End, Unwind
<1> QED
  BY <1>1, <1>2, <1>3, <1>4, <1>5, <1>6, <1>7, <1>8, <1>9, <1>10, <1>11, <1>12, <1>13, <1>14,
     <1>15, <1>16, <1>17 DEF Next, TaskStep

-----------------------------------------------------------------------------
LEMMA AppendAtEnd ==
  ASSUME NEW S, NEW q \in Seq(S), NEW e
  PROVE  /\ DOMAIN q \subseteq Nat /\ Len(q) + 1 \in Nat
         /\ DOMAIN Append(q, e) = DOMAIN q \cup {Len(q) + 1} /\ Append(q, e)[Len(q) + 1] = e
         /\ \A i \in DOMAIN q : i < Len(q) + 1 /\ Append(q, e)[i] = q[i]
OBVIOUS

(* The events.  First, what is said stays true.                              *)
LEMMA SaysKept ==
  ASSUME Types, Keeps, NEW s, NEW e, Says(e, s)
  PROVE  Says(e, s)' /\ Tracked(s)' = Tracked(s) /\ s \in Tasks
BY KindTasks DEF Keeps, Says, Tracked

LEMMA Recordings ==
  ASSUME Types, Keeps, RecordedWhole,
         UNCHANGED recorded \/ \E s \in Tasks : recorded' = recorded \cup {s} /\ answered[s] = Agents
  PROVE  RecordedWhole'
BY DEF Keeps, RecordedWhole

(* Nothing is said that was not: a step of the lock, the pool or a client.   *)
LEMMA NothingSaid ==
  ASSUME WebInv, Keeps, Types', NEW g, KeptBy(sends', g), UNCHANGED recorded,
         \A c \in Clients : heard'[c] = heard[c] \/ heard'[c] = <<>>
  PROVE  EventsInv'
<1> USE DEF WebInv, EventsInv, TasksInv
<1>1. \A i \in DOMAIN sends' : g[i] \in DOMAIN sends /\ sends'[i] = sends[g[i]]
  BY DEF KeptBy
<1>2. \A i \in DOMAIN sends' : \A k \in DOMAIN sends' : i < k <=> g[i] < g[k]
  BY DEF KeptBy
<1>3. DOMAIN sends \subseteq Nat /\ DOMAIN sends' \subseteq Nat
  BY DEF Types
<1>4. \A c \in Clients : \A i \in DOMAIN heard'[c] : i \in DOMAIN heard[c] /\ heard'[c][i] = heard[c][i]
  OBVIOUS
<1>5. \A i \in DOMAIN sends : /\ sends[i][1] \in DOMAIN kind
                             /\ kind'[sends[i][1]] = kind[sends[i][1]]
  BY DEF SendsTrue, Says, Keeps
<1>6. \A c \in Clients : \A i \in DOMAIN heard[c] : kind'[heard[c][i][2]] = kind[heard[c][i][2]]
  BY DEF HeardTrue, Says, Keeps
<1>7. SendsTrue'
  BY <1>1, SaysKept DEF SendsTrue
<1>8. HeardTrue'
  BY <1>4, SaysKept DEF HeardTrue
<1>9. RecordedWhole'
  BY Recordings
<1>10. QueueInOrder'
  <2> SUFFICES ASSUME NEW k \in DOMAIN sends', NEW i \in DOMAIN sends', sends'[k][2] = "cancelled"
               PROVE  /\ sends'[i][1] = sends'[k][1] => i <= k \/ sends'[i][2] = "cancelled"
                      /\ /\ sends'[i][1] > sends'[k][1]
                         /\ kind'[sends'[i][1]] \in {"scan", "scan_fix"}
                         => i > k
    BY DEF QueueInOrder, Tracked
  <2>1. /\ sends[g[i]][1] = sends[g[k]][1] => g[i] <= g[k] \/ sends[g[i]][2] = "cancelled"
        /\ sends[g[i]][1] > sends[g[k]][1] /\ Tracked(sends[g[i]][1]) => g[i] > g[k]
    BY <1>1 DEF QueueInOrder
  <2>2. g[i] <= g[k] => i <= k
    BY <1>1, <1>2, <1>3
  <2>3. g[i] > g[k] => i > k
    BY <1>1, <1>2, <1>3
  <2>4. kind'[sends'[i][1]] = kind[sends[g[i]][1]]
    BY <1>1, <1>5
  <2> QED BY <1>1, <2>1, <2>2, <2>3, <2>4 DEF Tracked
<1>11. NothingBehind'
  BY <1>1, <1>4 DEF NothingBehind
<1>12. NothingAhead'
  BY <1>1, <1>4, <1>6 DEF NothingAhead, Tracked
<1>13. CancelledIsLast'
  BY <1>4, <1>6 DEF CancelledIsLast, Tracked
<1> QED BY <1>7, <1>8, <1>9, <1>10, <1>11, <1>12, <1>13

(* A task that is not over says something.                                   *)
LEMMA TaskSays ==
  ASSUME WebInv, Keeps, NEW s \in DOMAIN kind, NEW e, Broadcast(s, e), UNCHANGED heard,
         e # "cancelled", ~Final(s), Says(e, s)',
         UNCHANGED recorded \/ \E q \in Tasks : recorded' = recorded \cup {q} /\ answered[q] = Agents
  PROVE  EventsInv'
<1> USE DEF WebInv, EventsInv, TasksInv
<1> DEFINE n == Len(sends) + 1
<1>1. /\ DOMAIN sends \subseteq Nat /\ DOMAIN sends' = DOMAIN sends \cup {n}
      /\ sends'[n] = <<s, e, FALSE>> /\ n \in Nat
      /\ \A i \in DOMAIN sends : i < n /\ sends'[i] = sends[i]
  <2>1. sends \in Seq(Tasks \X Events \X BOOLEAN) /\ sends' = Append(sends, <<s, e, FALSE>>)
    BY DEF Types, Broadcast
  <2> DEFINE b == <<s, e, FALSE>>
  <2>2. /\ DOMAIN sends \subseteq Nat /\ Len(sends) + 1 \in Nat
        /\ DOMAIN Append(sends, b) = DOMAIN sends \cup {Len(sends) + 1}
        /\ Append(sends, b)[Len(sends) + 1] = b
        /\ \A i \in DOMAIN sends : i < Len(sends) + 1 /\ Append(sends, b)[i] = sends[i]
    <3> HIDE DEF b
    <3> QED BY <2>1, AppendAtEnd
  <2> QED BY <2>1, <2>2
<1> HIDE DEF n
<1>2. sends'[n][1] = s /\ sends'[n][2] = e
  BY <1>1
<1>3. \A i \in DOMAIN sends : sends[i][2] = "cancelled" => sends[i][1] # s
  BY DEF SendsTrue, Says
<1>4. \A c \in Clients : \A i \in DOMAIN heard[c] : heard[c][i][1] = "cancelled" => heard[c][i][2] # s
  BY DEF HeardTrue, Says
<1>5. \A i \in DOMAIN sends : /\ sends[i][1] \in DOMAIN kind
                             /\ kind'[sends[i][1]] = kind[sends[i][1]]
  BY DEF SendsTrue, Says, Keeps
<1>6. \A c \in Clients : \A i \in DOMAIN heard[c] : kind'[heard[c][i][2]] = kind[heard[c][i][2]]
  BY DEF HeardTrue, Says, Keeps
<1>7. SendsTrue'
  BY <1>1, <1>2, SaysKept DEF SendsTrue
<1>8. HeardTrue'
  BY SaysKept DEF HeardTrue
<1>9. RecordedWhole'
  BY Recordings
<1>10. QueueInOrder'
  <2> SUFFICES ASSUME NEW k \in DOMAIN sends', NEW i \in DOMAIN sends', sends'[k][2] = "cancelled"
               PROVE  /\ sends'[i][1] = sends'[k][1] => i <= k \/ sends'[i][2] = "cancelled"
                      /\ /\ sends'[i][1] > sends'[k][1]
                         /\ kind'[sends'[i][1]] \in {"scan", "scan_fix"}
                         => i > k
    BY DEF QueueInOrder, Tracked
  <2>1. k \in DOMAIN sends
    BY <1>1, <1>2
  <2>2. CASE i \in DOMAIN sends
    BY <1>1, <1>5, <2>1, <2>2 DEF QueueInOrder, Tracked
  <2>3. CASE i = n
    BY <1>1, <1>2, <1>3, <2>1, <2>3
  <2> QED BY <1>1, <2>2, <2>3
<1>11. NothingBehind'
  BY <1>1, <1>2, <1>4 DEF NothingBehind
<1>12. NothingAhead'
  BY <1>1, <1>2, <1>6 DEF NothingAhead, Tracked
<1>13. CancelledIsLast'
  BY <1>6 DEF CancelledIsLast, Tracked
<1> QED BY <1>7, <1>8, <1>9, <1>10, <1>11, <1>12, <1>13

(* The request that cancels the latest scan says so.                         *)
LEMMA CancelSays ==
  ASSUME WebInv, Keeps, CancelScan
  PROVE  EventsInv'
<1> USE DEF WebInv, EventsInv, TasksInv
<1> SUFFICES ASSUME NEW s, s = current PROVE EventsInv'
  OBVIOUS
<1>a. /\ s \in DOMAIN kind /\ Tracked(s) /\ ~Final(s) /\ s \in Tasks
      /\ \A q \in DOMAIN kind : Tracked(q) => q <= s
  BY KindTasks DEF CancelScan, Latest, Final, Alive
<1>b. Final(s)' /\ Says("cancelled", s)'
  <2>1. at'[s] \in {"dropped", "cancelled"} /\ UNCHANGED kind
    BY <1>a DEF CancelScan, At, Types
  <2> QED BY <1>a, <2>1 DEF Final, Says, Tracked
<1> DEFINE rest == Withdrawn(s)
           n == Len(rest) + 1
<1>c. PICK g : KeptBy(rest, g)
  BY WithdrawnKept
<1>1. /\ DOMAIN rest \subseteq Nat /\ DOMAIN sends' = DOMAIN rest \cup {n}
      /\ sends'[n] = <<s, "cancelled", TRUE>> /\ n \in Nat
      /\ \A i \in DOMAIN rest : i < n /\ sends'[i] = rest[i]
  <2>1. rest \in Seq(Tasks \X Events \X BOOLEAN)
    BY <1>c DEF KeptBy
  <2>2. sends' = Append(rest, <<s, "cancelled", TRUE>>)
    BY DEF CancelScan
  <2> HIDE DEF rest
  <2> DEFINE b == <<s, "cancelled", TRUE>>
  <2>3. /\ DOMAIN rest \subseteq Nat /\ Len(rest) + 1 \in Nat
        /\ DOMAIN Append(rest, b) = DOMAIN rest \cup {Len(rest) + 1}
        /\ Append(rest, b)[Len(rest) + 1] = b
        /\ \A i \in DOMAIN rest : i < Len(rest) + 1 /\ Append(rest, b)[i] = rest[i]
    <3> HIDE DEF b
    <3> QED BY <2>1, AppendAtEnd
  <2> QED BY <2>2, <2>3
<1> HIDE DEF n, rest
<1>2. sends'[n][1] = s /\ sends'[n][2] = "cancelled"
  BY <1>1
<1>3. \A i \in DOMAIN rest : g[i] \in DOMAIN sends /\ sends'[i] = sends[g[i]]
  BY <1>c, <1>1 DEF KeptBy
<1>4. \A i \in DOMAIN rest : \A k \in DOMAIN rest : i < k <=> g[i] < g[k]
  BY <1>c DEF KeptBy
<1>5. \A i \in DOMAIN sends : /\ sends[i][1] \in DOMAIN kind
                             /\ kind'[sends[i][1]] = kind[sends[i][1]]
  BY DEF SendsTrue, Says, Keeps
<1>6. \A c \in Clients : \A i \in DOMAIN heard[c] : kind'[heard[c][i][2]] = kind[heard[c][i][2]]
  BY DEF HeardTrue, Says, Keeps
<1>d. DOMAIN sends \subseteq Nat /\ UNCHANGED <<heard, recorded>>
  BY DEF Types, CancelScan
<1>e. \A i \in DOMAIN sends : sends[i][1] \in Nat /\ (Tracked(sends[i][1]) => sends[i][1] <= s)
  BY <1>a, KindTasks DEF SendsTrue, Says, Tasks
<1>f. \A c \in Clients : \A i \in DOMAIN heard[c] : Tracked(heard[c][i][2]) => heard[c][i][2] <= s
  BY <1>a DEF HeardTrue, Says
<1>7. SendsTrue'
  BY <1>b, <1>1, <1>2, <1>3, SaysKept DEF SendsTrue
<1>8. HeardTrue'
  BY <1>d, SaysKept DEF HeardTrue
<1>9. RecordedWhole'
  BY <1>d, Recordings
<1>10. QueueInOrder'
  <2> SUFFICES ASSUME NEW k \in DOMAIN sends', NEW i \in DOMAIN sends', sends'[k][2] = "cancelled"
               PROVE  /\ sends'[i][1] = sends'[k][1] => i <= k \/ sends'[i][2] = "cancelled"
                      /\ /\ sends'[i][1] > sends'[k][1]
                         /\ kind'[sends'[i][1]] \in {"scan", "scan_fix"}
                         => i > k
    BY DEF QueueInOrder, Tracked
  <2>1. CASE i = n
    <3>1. k \in DOMAIN rest => i > k
      BY <1>1, <2>1
    <3>2. k = n => ~(sends'[i][1] > sends'[k][1])
      BY <1>2, <1>a, <2>1 DEF Tasks
    <3> QED BY <1>1, <1>2, <2>1, <3>1, <3>2
  <2>2. CASE i \in DOMAIN rest /\ k = n
    <3>1. i <= k
      BY <1>1, <2>2
    <3>2. kind'[sends'[i][1]] \in {"scan", "scan_fix"} => ~(sends'[i][1] > s)
      BY <1>3, <1>5, <1>e, <1>a, <2>2 DEF Tasks, Tracked
    <3> QED BY <1>2, <2>2, <3>1, <3>2
  <2>3. CASE i \in DOMAIN rest /\ k \in DOMAIN rest
    <3>1. /\ sends[g[i]][1] = sends[g[k]][1] => g[i] <= g[k] \/ sends[g[i]][2] = "cancelled"
          /\ sends[g[i]][1] > sends[g[k]][1] /\ Tracked(sends[g[i]][1]) => g[i] > g[k]
      BY <1>3, <2>3 DEF QueueInOrder
    <3>2. (g[i] <= g[k] => i <= k) /\ (g[i] > g[k] => i > k)
      <4>1. /\ i \in Nat /\ k \in Nat /\ g[i] \in Nat /\ g[k] \in Nat
            /\ (i < k <=> g[i] < g[k]) /\ (k < i <=> g[k] < g[i])
        BY <1>1, <1>3, <1>4, <1>d, <2>3
      <4> QED BY <4>1
    <3> QED BY <1>3, <1>5, <2>3, <3>1, <3>2 DEF Tracked
  <2> QED BY <1>1, <2>1, <2>2, <2>3
<1>11. NothingBehind'
  BY <1>1, <1>2, <1>3, <1>d DEF NothingBehind
<1>12. NothingAhead'
  BY <1>1, <1>2, <1>3, <1>6, <1>d, <1>f DEF NothingAhead, Tracked
<1>13. CancelledIsLast'
  BY <1>6, <1>d DEF CancelledIsLast, Tracked
<1> QED BY <1>7, <1>8, <1>9, <1>10, <1>11, <1>12, <1>13

(* A client gets the broadcast that holds the lock.                          *)
LEMMA ClientHears ==
  ASSUME WebInv, Keeps, NEW c \in Clients, Send(c)
  PROVE  EventsInv'
<1> USE DEF WebInv, EventsInv, TasksInv
<1>1. sends # <<>> /\ 1 \in DOMAIN sends /\ UNCHANGED <<sends, recorded, kind>>
  BY DEF Types, Send
<1> DEFINE b == <<sends[1][2], sends[1][1]>>
           n == Len(heard[c]) + 1
<1>2. b[1] = sends[1][2] /\ b[2] = sends[1][1]
  OBVIOUS
<1>3. \A q \in Clients : \/ heard'[q] = heard[q]
                         \/ q = c /\ heard'[c] = Append(heard[c], b)
  BY DEF Send, Logged, Types
<1>4. /\ DOMAIN heard[c] \subseteq Nat /\ n \in Nat
      /\ DOMAIN Append(heard[c], b) = DOMAIN heard[c] \cup {n} /\ Append(heard[c], b)[n] = b
      /\ \A i \in DOMAIN heard[c] : i < n /\ Append(heard[c], b)[i] = heard[c][i]
  <2>1. heard[c] \in Seq(Events \X Tasks)
    BY DEF Types
  <2> HIDE DEF b
  <2> QED BY <2>1, AppendAtEnd
<1> HIDE DEF b, n
<1>5. /\ Says(sends[1][2], sends[1][1])
      /\ \A i \in DOMAIN sends : sends[i][1] \in Nat
  BY <1>1, KindTasks DEF SendsTrue, Says, Tasks
<1>6. \A q \in Clients : \A i \in DOMAIN heard[q] : heard[q][i][2] \in Nat /\ i \in Nat
  BY KindTasks DEF HeardTrue, Says, Tasks, Types
<1>7. SendsTrue'
  BY <1>1, SaysKept DEF SendsTrue
<1>8. HeardTrue'
  <2> SUFFICES ASSUME NEW q \in Clients, NEW k \in DOMAIN heard'[q],
                      NEW e, NEW s, e = heard'[q][k][1], s = heard'[q][k][2]
               PROVE  Says(e, s)'
    BY DEF HeardTrue, Says, Tracked, Final
  <2>1. Says(e, s)
    BY <1>2, <1>3, <1>4, <1>5 DEF HeardTrue
  <2> QED BY <2>1, SaysKept
<1>9. RecordedWhole'
  BY <1>1, Recordings
<1>10. QueueInOrder'
  BY <1>1 DEF QueueInOrder, Tracked
<1>11. NothingBehind'
  <2> SUFFICES ASSUME NEW q \in Clients, NEW k \in DOMAIN heard'[q], NEW i \in DOMAIN sends,
                      heard'[q][k][1] = "cancelled", sends[i][1] = heard'[q][k][2]
               PROVE  sends[i][2] = "cancelled"
    BY <1>1 DEF NothingBehind
  <2>1. CASE k \in DOMAIN heard[q] /\ heard'[q][k] = heard[q][k]
    BY <2>1 DEF NothingBehind
  <2>2. CASE heard'[q][k] = b
    <3>1. sends[1][2] = "cancelled" /\ sends[i][1] = sends[1][1]
      BY <1>2, <2>2
    <3>2. i <= 1 \/ sends[i][2] = "cancelled"
      BY <1>1, <3>1 DEF QueueInOrder
    <3>3. i \in Nat \ {0}
      BY DEF Types
    <3> QED BY <3>1, <3>2, <3>3
  <2> QED BY <1>3, <1>4, <2>1, <2>2
<1>12. NothingAhead'
  <2> SUFFICES ASSUME NEW k \in DOMAIN sends, NEW q \in Clients, NEW i \in DOMAIN heard'[q],
                      sends[k][2] = "cancelled", Tracked(heard'[q][i][2])
               PROVE  heard'[q][i][2] <= sends[k][1]
    BY <1>1 DEF NothingAhead, Tracked
  <2>1. CASE i \in DOMAIN heard[q] /\ heard'[q][i] = heard[q][i]
    BY <2>1 DEF NothingAhead
  <2>2. CASE heard'[q][i] = b
    <3>1. sends[1][1] > sends[k][1] => 1 > k
      BY <1>1, <1>2, <2>2 DEF QueueInOrder
    <3>2. k \in Nat \ {0}
      BY DEF Types
    <3> QED BY <1>1, <1>2, <1>5, <2>2, <3>1, <3>2
  <2> QED BY <1>3, <1>4, <2>1, <2>2
<1>13. CancelledIsLast'
  <2> SUFFICES ASSUME NEW q \in Clients, NEW k \in DOMAIN heard'[q], heard'[q][k][1] = "cancelled",
                      NEW i \in DOMAIN heard'[q]
               PROVE  /\ heard'[q][i][2] = heard'[q][k][2] => i <= k \/ heard'[q][i][1] = "cancelled"
                      /\ heard'[q][i][2] > heard'[q][k][2] /\ Tracked(heard'[q][i][2]) => i > k
    BY <1>1 DEF CancelledIsLast, Tracked
  <2>1. CASE heard'[q] = heard[q]
    BY <2>1 DEF CancelledIsLast
  <2>2. CASE q = c /\ heard'[c] = Append(heard[c], b)
    <3>1. \/ k \in DOMAIN heard[q] /\ heard'[q][k] = heard[q][k] /\ k < n
          \/ k = n /\ heard'[q][k] = b
      BY <1>4, <2>2
    <3>2. \/ i \in DOMAIN heard[q] /\ heard'[q][i] = heard[q][i] /\ i < n
          \/ i = n /\ heard'[q][i] = b
      BY <1>4, <2>2
    <3>3. CASE k \in DOMAIN heard[q] /\ heard'[q][k] = heard[q][k] /\ i \in DOMAIN heard[q] /\ heard'[q][i] = heard[q][i]
      BY <3>3 DEF CancelledIsLast
    <3>4. CASE k \in DOMAIN heard[q] /\ heard'[q][k] = heard[q][k] /\ k < n /\ i = n /\ heard'[q][i] = b
      BY <1>1, <1>2, <1>4, <1>6, <3>4 DEF NothingBehind
    <3>5. CASE k = n /\ heard'[q][k] = b /\ i \in DOMAIN heard[q] /\ heard'[q][i] = heard[q][i] /\ i < n
      <4>1. Tracked(heard[q][i][2]) => heard[q][i][2] <= sends[1][1]
        BY <1>1, <1>2, <3>5 DEF NothingAhead
      <4>2. heard[q][i][2] \in Nat /\ sends[1][1] \in Nat /\ i \in Nat
        BY <1>1, <1>5, <1>6, <3>5
      <4> QED BY <1>2, <1>4, <3>5, <4>1, <4>2
    <3>6. CASE k = n /\ i = n
      BY <1>1, <1>2, <1>4, <1>5, <3>1, <3>6
    <3> QED BY <3>1, <3>2, <3>3, <3>4, <3>5, <3>6
  <2> QED BY <1>3, <2>1, <2>2
<1> QED BY <1>7, <1>8, <1>9, <1>10, <1>11, <1>12, <1>13

-----------------------------------------------------------------------------
(* Every step keeps what is said true and in order.                          *)
LEMMA SendsStand ==
  ASSUME WebInv, Keeps, Types', UNCHANGED <<sends, heard>>,
         UNCHANGED recorded \/ \E s \in Tasks : recorded' = recorded \cup {s} /\ answered[s] = Agents
  PROVE  EventsInv'
<1> USE DEF WebInv, EventsInv, TasksInv
<1>1. \A i \in DOMAIN sends : kind'[sends[i][1]] = kind[sends[i][1]]
  BY DEF SendsTrue, Says, Keeps
<1>2. \A c \in Clients : \A i \in DOMAIN heard[c] : kind'[heard[c][i][2]] = kind[heard[c][i][2]]
  BY DEF HeardTrue, Says, Keeps
<1>3. SendsTrue' /\ HeardTrue'
  BY SaysKept DEF SendsTrue, HeardTrue
<1>4. RecordedWhole'
  BY Recordings
<1>5. QueueInOrder'
  BY <1>1 DEF QueueInOrder, Tracked
<1>6. NothingBehind' /\ NothingAhead' /\ CancelledIsLast'
  BY <1>2 DEF NothingBehind, NothingAhead, CancelledIsLast, Tracked
<1> QED BY <1>3, <1>4, <1>5, <1>6

LEMMA EventsStep == WebInv /\ Next => EventsInv'
<1> SUFFICES ASSUME WebInv, Next PROVE EventsInv'
  OBVIOUS
<1>k. TasksInv' /\ Keeps /\ TasksInv /\ Types /\ Types'
  BY TasksStep DEF WebInv, TasksInv
<1>1. CASE TriggerScan \/ TriggerOther
  BY <1>1, <1>k, SendsStand DEF TriggerScan, TriggerOther, socket
<1>2. CASE CancelScan
  BY <1>2, <1>k, CancelSays
<1>3. CASE Loop \/ \E c \in Clients : Leave(c) \/ Join(c)
  <2>1. CASE TakeLock \/ StartJob
    BY <1>k, <2>1, SendsStand DEF TakeLock, StartJob, socket
  <2>2. CASE ReleaseLock
    <3>1. sends # <<>> /\ sends' = Tail(sends) /\ UNCHANGED <<recorded, heard>>
      BY <1>k, <2>2 DEF ReleaseLock, Types
    <3>2. PICK g : KeptBy(sends', g)
      BY <1>k, <3>1, TailKept
    <3> QED BY <1>k, <3>1, <3>2, NothingSaid
  <2>3. ASSUME NEW c \in Clients, Leave(c) \/ Join(c) PROVE EventsInv'
    <3>1. /\ sends' = sends /\ UNCHANGED recorded
          /\ \A q \in Clients : heard'[q] = heard[q] \/ heard'[q] = <<>>
      BY <1>k, <2>3 DEF Leave, Join, Types
    <3>2. PICK g : KeptBy(sends', g)
      BY <1>k, <3>1, AllKept
    <3> QED BY <1>k, <3>1, <3>2, NothingSaid
  <2>4. ASSUME NEW c \in Clients, Send(c) PROVE EventsInv'
    BY <1>k, <2>4, ClientHears
  <2> QED BY <1>3, <2>1, <2>2, <2>3, <2>4 DEF Loop
<1>4. CASE \E job \in Jobs : FinishJob(job) \/ Raise(job) \/ Hang(job) \/ Timeout(job)
  BY <1>4, <1>k, SendsStand, Zenon DEF FinishJob, Raise, Hang, Timeout, socket
<1>5. ASSUME NEW s \in Tasks, TaskStep(s) PROVE EventsInv'
  <2> USE DEF At
  <2>1. s \in DOMAIN kind /\ Sound(s) /\ at[s] # "over" /\ UNCHANGED <<heard, kind>>
    <3>1. at[s] # "off" /\ at[s] # "dropped" /\ at[s] # "over"
      BY <1>5 DEF TaskStep, Begin, Announce, Launch, Gather, Gathered, Complete, Record,
         StartFix, Fixed,
                  End, Unwind, RunAlone, CompleteAlone
    <3>2. UNCHANGED <<heard, kind>>
      BY <1>5 DEF TaskStep, Begin, Announce, Launch, Gather, Gathered, Complete, Record,
         StartFix, Fixed,
                  End, Unwind, RunAlone, CompleteAlone, socket
    <3> QED BY <1>k, <3>1, <3>2 DEF TasksInv, Sound, Alive
  <2>2. CASE Launch(s) \/ Gather(s) \/ StartFix(s) \/ End(s) \/ Unwind(s) \/ RunAlone(s)
    BY <1>k, <2>1, <2>2, SendsStand DEF Launch, Gather, StartFix, End, Unwind, RunAlone
  <2>3. CASE Begin(s)
    <3>1. CASE kind[s] = "quick"
      BY <1>k, <2>1, <2>3, <3>1, SendsStand DEF Begin
    <3>2. CASE kind[s] # "quick"
      <4>1. Says("started", s)' /\ ~Final(s)
        BY <2>1, <2>3 DEF Says, Begin, Final
      <4> QED BY <1>k, <2>1, <2>3, <3>2, <4>1, TaskSays DEF Begin
    <3> QED BY <3>1, <3>2
  <2>4. CASE Announce(s) \/ Gathered(s) \/ Fixed(s)
    <3>1. Says("progress", s)' /\ ~Final(s)
      BY <2>1, <2>4 DEF Says, Announce, Gathered, Fixed, Final
    <3> QED BY <1>k, <2>1, <2>4, <3>1, TaskSays DEF Announce, Gathered, Fixed
  <2>5. CASE Complete(s)
    <3>1. ~Final(s) /\ at[s] = "results" /\ UNCHANGED <<kind, answered, recorded>>
      BY <2>5 DEF Complete, Final
    <3>2. Says("complete", s)'
      BY <2>1, <3>1 DEF Says, Sound, After, Tracked
    <3> QED BY <1>k, <2>1, <2>5, <3>1, <3>2, TaskSays DEF Complete
  <2>6. CASE CompleteAlone(s)
    <3>1. ~Final(s) /\ ~Tracked(s) /\ UNCHANGED <<kind, recorded>>
      BY <2>1, <2>6 DEF CompleteAlone, Final, Sound
    <3>2. Says("complete", s)'
      BY <2>1, <3>1 DEF Says, Tracked
    <3> QED BY <1>k, <2>1, <2>6, <3>1, <3>2, TaskSays DEF CompleteAlone
  <2>7. CASE Record(s)
    <3>1. ~Final(s) /\ answered[s] = Agents /\ recorded' = recorded \cup {s}
      BY <2>1, <2>7 DEF Record, Final, Sound, After
    <3>2. CASE kind[s] = "scan_fix"
      <4>1. Says("progress", s)'
        BY <2>1 DEF Says
      <4> QED BY <1>k, <2>1, <2>7, <3>1, <3>2, <4>1, TaskSays DEF Record
    <3>3. CASE kind[s] # "scan_fix"
      BY <1>k, <2>1, <2>7, <3>1, <3>3, SendsStand DEF Record
    <3> QED BY <3>2, <3>3
  <2> QED BY <1>5, <2>2, <2>3, <2>4, <2>5, <2>6, <2>7 DEF TaskStep
<1> QED BY <1>1, <1>2, <1>3, <1>4, <1>5 DEF Next, Loop

LEMMA WebStep == WebInv /\ [Next]_vars => WebInv'
<1>1. WebInv /\ Next => WebInv'
  BY TasksStep, EventsStep DEF WebInv
<1>2. ASSUME WebInv, UNCHANGED vars PROVE WebInv'
  <2>1. Types' /\ Latest' /\ \A s \in Tasks : Sound(s)'
    BY <1>2 DEF WebInv, TasksInv, Types, Latest, Sound, Alive, Tracked, vars, state, pool, socket
  <2>2. Keeps
    BY <1>2 DEF Keeps, Final, vars
  <2>3. EventsInv'
    BY <1>2, <2>1, <2>2, SendsStand DEF vars
  <2> QED BY <2>1, <2>3 DEF WebInv, TasksInv
<1> QED BY <1>1, <1>2

THEOREM WebAlwaysSound == Spec => []WebInv
BY InitSound, WebStep, PTL DEF Spec

-----------------------------------------------------------------------------
(* The results.                                                              *)

(* One tracked scan runs at a time, whatever is cancelled, hangs or times    *)
(* out: the state that POST /scan reads (web/api/scan.py) is never stale.    *)
THEOREM ScansOneAtATime == Spec => []OneScanAtATime
<1>1. WebInv => OneScanAtATime
  <2> SUFFICES ASSUME WebInv PROVE OneScanAtATime
    OBVIOUS
  <2>1. \A s \in DOMAIN kind : Alive(s) /\ Tracked(s) => running /\ current = s
    BY KindTasks DEF WebInv, TasksInv, Sound
  <2> QED BY <2>1 DEF OneScanAtATime
<1> QED BY <1>1, WebAlwaysSound, PTL

(* scan.complete and the scan history never speak of a scan that lacks an    *)
(* agent's answer, whatever the batches and the timeouts.                    *)
THEOREM CompleteAlwaysWhole == Spec => []CompleteIsWhole
<1>1. WebInv => CompleteIsWhole
  BY DEF WebInv, EventsInv, HeardTrue, Says, RecordedWhole, CompleteIsWhole
<1> QED BY <1>1, WebAlwaysSound, PTL

(* scan.cancelled is the last that a client hears of a scan, and comes       *)
(* before all of a later one, since both go through one lock in order.       *)
THEOREM CancelledAlwaysLast == Spec => []CancelledIsLast
<1>1. WebInv => CancelledIsLast
  BY DEF WebInv, EventsInv
<1> QED BY <1>1, WebAlwaysSound, PTL

-----------------------------------------------------------------------------
(* What Nth and Selected return.                                            *)

(* The places of a set of positions are counted from 1 on, so each has one.  *)
LEMMA NthIn ==
  ASSUME NEW n \in Nat, NEW K \in SUBSET (1..n)
  PROVE  /\ Cardinality(K) \in Nat
         /\ \A k \in 1..Cardinality(K) :
              Nth(K, k) \in K /\ Cardinality({j \in K : j <= Nth(K, k)}) = k
<1> DEFINE m == Cardinality(K)
           upto(i) == {j \in K : j <= i}
           rank == [i \in K |-> Cardinality(upto(i))]
<1>1. IsFiniteSet(K) /\ m \in Nat /\ IsFiniteSet(1..m) /\ Cardinality(1..m) = m
  <2>1. IsFiniteSet(1..n)
    BY FS_Interval
  <2>2. IsFiniteSet(K) /\ m \in Nat
    BY <2>1, FS_Subset, FS_CardinalityType
  <2> QED
    BY <2>2, FS_Interval
<1>2. \A i \in K : /\ i \in upto(i) /\ upto(i) \in SUBSET K
                   /\ \A l \in K : i < l => upto(i) \in SUBSET upto(l) /\ l \notin upto(i)
  <2>1. \A i, l, j \in K : i <= i /\ (i < l => (j <= i => j <= l) /\ ~(l <= i))
    OBVIOUS
  <2> QED
    BY <2>1
<1> HIDE DEF upto, m
<1>3. \A i \in K : Cardinality(upto(i)) \in 1..m /\ IsFiniteSet(upto(i))
  BY <1>1, <1>2, FS_Subset, FS_CardinalityType, FS_EmptySet DEF m
<1>4. \A i, l \in K : i < l => rank[i] # rank[l]
  BY <1>2, <1>3, FS_Subset
<1>5. rank \in Injection(K, 1..m)
  <2>1. rank \in [K -> 1..m]
    BY <1>3
  <2> HIDE DEF rank
  <2> QED
    BY <1>4, <2>1 DEF Injection, IsInjective
<1>6. rank \in Surjection(K, 1..m)
  <2> HIDE DEF rank
  <2> QED
    BY <1>1, <1>5, FS_Injection DEF m
<1>7. \A k \in 1..m : \E i \in K : Cardinality(upto(i)) = k
  BY <1>6 DEF Surjection
<1> QED
  BY <1>1, <1>7 DEF Nth, upto, m

(* A selection's elements are the selected ones, each once.                  *)
LEMMA SelectedFrom ==
  ASSUME NEW T, NEW s \in Seq(T), NEW K \in SUBSET DOMAIN s
  PROVE  /\ Selected(s, K) \in Seq(T)
         /\ DOMAIN Selected(s, K) = 1..Cardinality(K) /\ Cardinality(K) \in Nat
         /\ \A i \in 1..Cardinality(K) : Nth(K, i) \in K /\ Selected(s, K)[i] = s[Nth(K, i)]
         /\ \A i, j \in 1..Cardinality(K) : Nth(K, i) = Nth(K, j) => i = j
<1> DEFINE n == Cardinality(K)
<1>1. n \in Nat /\ \A k \in 1..n : Nth(K, k) \in K /\ Cardinality({j \in K : j <= Nth(K, k)}) = k
  <2>1. Len(s) \in Nat /\ DOMAIN s = 1..Len(s)
    OBVIOUS
  <2> QED
    BY <2>1, NthIn
<1>2. Selected(s, K) = [k \in 1..n |-> s[Nth(K, k)]]
  BY DEF Selected
<1>3. \A i, j \in 1..n : Nth(K, i) = Nth(K, j) => i = j
  BY <1>1
<1> HIDE DEF n
<1>4. Selected(s, K) \in Seq(T)
  <2>1. \A i \in DOMAIN s : s[i] \in T
    OBVIOUS
  <2>2. \A k \in 1..n : s[Nth(K, k)] \in T
    BY <1>1, <2>1
  <2> QED
    BY <1>1, <1>2, <2>2
<1> QED
  BY <1>1, <1>2, <1>3, <1>4 DEF n

-----------------------------------------------------------------------------
(* Types of the rest: the pool, the clients and the history.                 *)
PoolTypes ==
  /\ current \in Tasks \cup {None} /\ recorded \subseteq Tasks
  /\ waiting \in Seq(Jobs) /\ hung \subseteq busy /\ busy \subseteq Jobs /\ awaited \subseteq Jobs
  /\ clients \subseteq Clients /\ left \in (SUBSET Clients) \cup {None}

LEMMA WithoutTyped ==
  ASSUME waiting \in Seq(Jobs), NEW js
  PROVE  Without(js) \in Seq(Jobs)
<1> DEFINE K == {k \in DOMAIN waiting : waiting[k] \notin js}
<1>1. K \in SUBSET DOMAIN waiting
  OBVIOUS
<1> HIDE DEF K
<1>2. Selected(waiting, K) \in Seq(Jobs)
  BY <1>1, SelectedFrom
<1> QED BY <1>2 DEF Without, K

LEMMA SubmitTyped ==
  ASSUME PoolTypes, NEW job \in Jobs, Submit(job)
  PROVE  waiting' \in Seq(Jobs) /\ awaited' \subseteq Jobs
<1>1. waiting' = Append(waiting, job) /\ waiting \in Seq(Jobs) /\ awaited' = awaited \cup {job}
  BY DEF Submit, PoolTypes
<1>2. waiting' \in Seq(Jobs)
  BY <1>1, AppendTyped
<1> QED BY <1>1, <1>2 DEF PoolTypes

LEMMA PoolStep == TasksInv /\ PoolTypes /\ [Next]_vars => PoolTypes'
<1> SUFFICES ASSUME TasksInv, PoolTypes, [Next]_vars PROVE PoolTypes'
  OBVIOUS
<1> USE DEF state, pool, socket
<1>1. ASSUME TriggerScan \/ TriggerOther PROVE PoolTypes'
  <2>1. Len(kind) + 1 \in Tasks
    BY <1>1 DEF TriggerScan, TriggerOther, Create
  <2> QED BY <1>1, <2>1 DEF PoolTypes, TriggerScan, TriggerOther
<1>2. ASSUME CancelScan PROVE PoolTypes'
  <2>1. PICK js : waiting' = Without(js) /\ awaited' = awaited \ js
    BY <1>2 DEF CancelScan
  <2>2. waiting' \in Seq(Jobs)
    BY <2>1, WithoutTyped DEF PoolTypes
  <2>3. left' = left \/ left' = None
    BY <1>2 DEF CancelScan
  <2> QED BY <1>2, <2>1, <2>2, <2>3 DEF PoolTypes, CancelScan
<1>3. ASSUME TakeLock \/ ReleaseLock \/ \E c \in Clients : Send(c) \/ Leave(c) \/ Join(c) PROVE PoolTypes'
  <2>1. UNCHANGED <<current, recorded, pool>>
    BY <1>3 DEF TakeLock, ReleaseLock, Send, Leave, Join
  <2>2. clients' \subseteq Clients /\ left' \in (SUBSET Clients) \cup {None}
    BY <1>3 DEF TakeLock, ReleaseLock, Send, Leave, Join, PoolTypes
  <2> QED BY <2>1, <2>2 DEF PoolTypes
<1>4. ASSUME StartJob PROVE PoolTypes'
  <2>1. waiting # <<>> /\ waiting \in Seq(Jobs)
    BY <1>4 DEF StartJob, PoolTypes
  <2>2. Head(waiting) \in Jobs /\ Tail(waiting) \in Seq(Jobs)
    BY <2>1
  <2> QED BY <1>4, <2>2 DEF StartJob, PoolTypes
<1>5. ASSUME NEW job \in Jobs, FinishJob(job) \/ Raise(job) \/ Hang(job) PROVE PoolTypes'
  BY <1>5 DEF PoolTypes, FinishJob, Raise, Hang, Answer
<1>6. ASSUME NEW job \in Jobs, Timeout(job) PROVE PoolTypes'
  <2>1. waiting' \in Seq(Jobs)
    BY <1>6, WithoutTyped DEF PoolTypes, Timeout
  <2> QED BY <1>6, <2>1 DEF PoolTypes, Timeout, Answer
<1>7. ASSUME NEW s \in Tasks, Launch(s) \/ RunAlone(s) PROVE PoolTypes'
  <2>1. FirstOf(todo[s]) \in Agents
    BY <1>7 DEF TasksInv, Types, Sound, Alive, Launch, RunAlone, FirstOf
  <2>2. <<s, FirstOf(todo[s])>> \in Jobs
    BY <2>1 DEF Jobs
  <2>3. Submit(<<s, FirstOf(todo[s])>>)
    BY <1>7 DEF Launch, RunAlone
  <2>4. waiting' \in Seq(Jobs) /\ awaited' \subseteq Jobs
    BY <2>2, <2>3, SubmitTyped
  <2> QED BY <1>7, <2>4 DEF PoolTypes, Launch, RunAlone
<1>8. ASSUME NEW s \in Tasks, StartFix(s) PROVE PoolTypes'
  <2>1. <<s, Fix>> \in Jobs
    BY DEF Jobs
  <2>2. waiting' \in Seq(Jobs) /\ awaited' \subseteq Jobs
    BY <1>8, <2>1, SubmitTyped DEF StartFix
  <2> QED BY <1>8, <2>2 DEF PoolTypes, StartFix
<1>9. ASSUME NEW s \in Tasks, \/ Begin(s) \/ Announce(s) \/ Gather(s) \/ Gathered(s) \/ Complete(s)
                              \/ Record(s) \/ Fixed(s) \/ End(s) \/ Unwind(s) \/ CompleteAlone(s)
      PROVE  PoolTypes'
  <2>1. UNCHANGED <<waiting, busy, hung, awaited, clients, left>>
    BY <1>9 DEF Begin, Announce, Gather, Gathered, Complete, Record, Fixed, End, Unwind, CompleteAlone
  <2>2. current' \in {current, None} /\ recorded' \subseteq recorded \cup {s}
    BY <1>9 DEF Begin, Announce, Gather, Gathered, Complete, Record, Fixed, End, Unwind, CompleteAlone, Over
  <2> QED BY <2>1, <2>2 DEF PoolTypes
<1>10. CASE UNCHANGED vars
  BY <1>10 DEF PoolTypes, vars
<1> QED BY <1>1, <1>2, <1>3, <1>4, <1>5, <1>6, <1>7, <1>8, <1>9, <1>10 DEF Next, Loop, TaskStep

(* Every variable keeps its type: no job is on a thread that was not         *)
(* submitted, and what hangs is on one, whatever is given up before it began. *)
THEOREM WebTyped == Spec => []TypeOK
<1>1. Init => PoolTypes
  <2>1. \A S : <<>> \in Seq(S)
    OBVIOUS
  <2> QED BY <2>1 DEF Init, PoolTypes
<1>2. WebInv /\ PoolTypes => TypeOK
  BY DEF WebInv, TasksInv, Types, PoolTypes, TypeOK, Steps, Events
<1>3. WebInv /\ PoolTypes /\ [Next]_vars => PoolTypes'
  BY PoolStep DEF WebInv
<1> QED BY WebAlwaysSound, <1>1, <1>2, <1>3, PTL DEF Spec
=============================================================================
