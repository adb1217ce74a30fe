------------------------------- MODULE WebScans -------------------------------
(***************************************************************************)
(* web/api/scan.py and web/ws.py: the scans that web requests start.  One  *)
(* event loop runs their tasks, and a step here is what a task does from   *)
(* one await to the next.  Agents run on the threads of the loop's pool,   *)
(* which nothing can stop.  Events go to all clients under one lock, first *)
(* come first served.                                                      *)
(***************************************************************************)
EXTENDS Selection

CONSTANTS
  Agents,     \* the agents of a scan
  Fix,        \* what auto-fix runs on a thread
  Clients,    \* the dashboards
  None,       \* no task
  BatchSize,  \* BATCH_SIZE
  Workers,    \* the threads of the pool
  MaxTasks,   \* bound: tasks
  Hazards     \* "cancel": a scan is cancelled; "early": even before its first step; "timeout":
              \* an agent takes more than AGENT_TIMEOUT; "hang": it never returns; "leave":
              \* clients come and go

Tasks == 1..MaxTasks
Kinds == {"scan", "scan_fix", "quick", "dast"}     \* POST /scan, with auto_fix, /scan/quick, /dast

ASSUME WebAssumption ==
  /\ Fix \notin Agents /\ IsFiniteSet(Agents) /\ Agents # {}
  /\ {BatchSize, Workers} \subseteq Nat \ {0} /\ MaxTasks \in Nat
  /\ None \notin Tasks
  /\ Hazards \subseteq {"cancel", "early", "timeout", "hang", "leave"}

VARIABLES
  running,   \* _scan_state["running"]
  current,   \* _scan_state["task"], or None
  kind,      \* the tasks so far: task -> what it runs
  at,        \* task -> the await it is at
  todo,      \* task -> the agents of the scan it has not started
  batch,     \* task -> the agents of the batch it has started
  answered,  \* task -> the agents it has a result of, a failure or a timeout included
  recorded,  \* the scans in the scan history
  waiting,   \* jobs <<task, agent>> the pool has not begun, in order
  busy,      \* jobs on a thread
  hung,      \* those that never return
  awaited,   \* jobs somebody waits for
  sends,     \* broadcasts <<task, event, is it a cancel request's?>>: the first has the lock
  left,      \* the clients that broadcast has still to reach, or None before it starts
  clients,   \* the clients connected
  heard      \* client -> the events it got, progress left out

vars == <<running, current, kind, at, todo, batch, answered, recorded, waiting, busy, hung,
          awaited, sends, left, clients, heard>>
pool == <<waiting, busy, hung, awaited>>
socket == <<left, clients, heard>>
state == <<running, current>>

Init ==
  /\ running = FALSE /\ current = None
  /\ kind = <<>> /\ at = [s \in Tasks |-> "off"]
  /\ todo = [s \in Tasks |-> {}] /\ batch = [s \in Tasks |-> {}] /\ answered = [s \in Tasks |-> {}]
  /\ recorded = {}
  /\ waiting = <<>> /\ busy = {} /\ hung = {} /\ awaited = {}
  /\ sends = <<>> /\ left = None /\ clients = Clients /\ heard = [c \in Clients |-> <<>>]

Tracked(s) == kind[s] \in {"scan", "scan_fix"}
Alive(s) == at[s] \notin {"off", "dropped", "over"}
At(s, step) == at' = [at EXCEPT ![s] = step]

-----------------------------------------------------------------------------
(* Broadcasts.                                                               *)
Broadcast(s, event) == sends' = Append(sends, <<s, event, FALSE>>)
Pending(s) == {k \in DOMAIN sends : sends[k][1] = s /\ ~sends[k][3]}
Told(s) == Pending(s) = {}

(* What is left of the broadcasts without the one that s waits for.          *)
Withdrawn(s) ==
  IF Told(s) THEN sends
  ELSE LET mine == CHOOSE k \in Pending(s) : TRUE
       IN [k \in 1..(Len(sends) - 1) |-> IF k < mine THEN sends[k] ELSE sends[k + 1]]

Logged(c, b) == IF b[2] = "progress" THEN heard[c] ELSE Append(heard[c], <<b[2], b[1]>>)

TakeLock ==
  /\ sends # <<>> /\ left = None
  /\ left' = clients
  /\ UNCHANGED <<state, kind, at, todo, batch, answered, recorded, pool, sends, clients, heard>>

(* The client gets it, or has gone and is removed.                           *)
Send(c) ==
  /\ left # None /\ c \in left
  /\ heard' = [heard EXCEPT ![c] = Logged(c, sends[1])]
  /\ left' = left \ {c}
  /\ UNCHANGED <<state, kind, at, todo, batch, answered, recorded, pool, sends, clients>>

ReleaseLock ==
  /\ left # None /\ left = {}
  /\ sends' = Tail(sends) /\ left' = None
  /\ UNCHANGED <<state, kind, at, todo, batch, answered, recorded, pool, clients, heard>>

(* connect and disconnect take the lock, too; a client that comes back is a  *)
(* new one, which has heard nothing.                                         *)
Leave(c) ==
  /\ "leave" \in Hazards /\ left = None /\ c \in clients
  /\ clients' = clients \ {c} /\ heard' = [heard EXCEPT ![c] = <<>>]
  /\ UNCHANGED <<state, kind, at, todo, batch, answered, recorded, pool, sends, left>>

Join(c) ==
  /\ left = None /\ c \in Clients \ clients
  /\ clients' = clients \cup {c}
  /\ UNCHANGED <<state, kind, at, todo, batch, answered, recorded, pool, sends, left, heard>>

(* The jobs not begun, without those that are taken back.                    *)
Without(jobs) == Selected(waiting, {k \in DOMAIN waiting : waiting[k] \notin jobs})

-----------------------------------------------------------------------------
(* The requests.                                                             *)
FirstOf(as) == CHOOSE a \in as : TRUE      \* the agents have an order

Create(k) ==
  LET s == Len(kind) + 1
  IN /\ s \in Tasks
     /\ kind' = Append(kind, k)
     /\ At(s, "new")
     /\ todo' = [todo EXCEPT ![s] = IF k = "dast" THEN {FirstOf(Agents)} ELSE Agents]

TriggerScan ==
  /\ ~running                                      \* or 409: Scan already running
  /\ \E k \in {"scan", "scan_fix"} : Create(k)
  /\ running' = TRUE /\ current' = Len(kind) + 1
  /\ UNCHANGED <<batch, answered, recorded, pool, sends, socket>>

(* quick_scan and trigger_dast neither read nor write the scan state.        *)
TriggerOther ==
  /\ \E k \in {"quick", "dast"} : Create(k)
  /\ UNCHANGED <<state, batch, answered, recorded, pool, sends, socket>>

(* Mutations: a scan is over at once when it is cancelled; the event goes    *)
(* out ahead of the one its task is sending.                                *)
CancelScanAtOnce ==
  /\ "cancel" \in Hazards
  /\ running /\ Alive(current) /\ at[current] \notin {"new", "cancelled"}
  /\ At(current, "cancelled")
  /\ running' = FALSE /\ UNCHANGED current
  /\ Broadcast(current, "cancelled")
  /\ UNCHANGED <<kind, todo, batch, answered, recorded, pool, socket>>

CancelScanAhead ==
  /\ "cancel" \in Hazards
  /\ running /\ Alive(current) /\ at[current] \notin {"new", "cancelled"}
  /\ At(current, "cancelled")
  /\ sends' = <<<<current, "cancelled", TRUE>>>> \o sends /\ left' = None
  /\ UNCHANGED <<state, kind, todo, batch, answered, recorded, pool, clients, heard>>

(* The task gets CancelledError at its await: what it waits for is given up. *)
(* Before its first step it is not in its try yet: no finally runs. A second *)
(* request would only tell the clients again: left out.                      *)
CancelScan ==
  /\ "cancel" \in Hazards
  /\ running /\ Alive(current) /\ at[current] # "cancelled"
  /\ at[current] = "new" => "early" \in Hazards
  /\ At(current, IF at[current] = "new" THEN "dropped" ELSE "cancelled")
  /\ LET mine == {j \in awaited : j[1] = current /\ at[current] \in {"gather", "fix"}}
     IN /\ sends' = Append(Withdrawn(current), <<current, "cancelled", TRUE>>)
        /\ left' = IF 1 \in Pending(current) THEN None ELSE left
        /\ awaited' = awaited \ mine
        /\ waiting' = Without(mine)
  /\ UNCHANGED <<state, kind, todo, batch, answered, recorded, busy, hung, clients, heard>>

-----------------------------------------------------------------------------
(* The task of a scan.                                                       *)
Begin(s) ==
  /\ at[s] = "new"
  /\ IF kind[s] = "quick" THEN UNCHANGED sends ELSE Broadcast(s, "started")
  /\ At(s, IF Tracked(s) THEN "announced" ELSE "alone")
  /\ UNCHANGED <<state, kind, todo, batch, answered, recorded, pool, socket>>

(* Before each agent of a batch starts, the clients are told.                *)
Announce(s) ==
  /\ at[s] = "announced" /\ Told(s)
  /\ Cardinality(batch[s]) < BatchSize /\ todo[s] # {}
  /\ Broadcast(s, "progress")
  /\ At(s, "launch")
  /\ UNCHANGED <<state, kind, todo, batch, answered, recorded, pool, socket>>

Submit(job) == waiting' = Append(waiting, job) /\ awaited' = awaited \cup {job}

Launch(s) ==
  /\ at[s] = "launch" /\ Told(s)
  /\ LET a == FirstOf(todo[s])
     IN /\ Submit(<<s, a>>)
        /\ todo' = [todo EXCEPT ![s] = @ \ {a}] /\ batch' = [batch EXCEPT ![s] = @ \cup {a}]
  /\ At(s, "announced")
  /\ UNCHANGED <<state, kind, answered, recorded, busy, hung, sends, socket>>

Gather(s) ==
  /\ at[s] = "announced" /\ Told(s)
  /\ Cardinality(batch[s]) = BatchSize \/ todo[s] = {}
  /\ At(s, "gather")
  /\ UNCHANGED <<state, kind, todo, batch, answered, recorded, pool, sends, socket>>

(* One event stands for those of the batch's results.                        *)
(* Mutation: the first batch is taken for the last.                         *)
GatheredOnce(s) ==
  /\ at[s] = "gather" /\ batch[s] \subseteq answered[s]
  /\ Broadcast(s, "progress")
  /\ batch' = [batch EXCEPT ![s] = {}]
  /\ At(s, "results")
  /\ UNCHANGED <<state, kind, todo, answered, recorded, pool, socket>>

Gathered(s) ==
  /\ at[s] = "gather" /\ batch[s] \subseteq answered[s]
  /\ Broadcast(s, "progress")
  /\ batch' = [batch EXCEPT ![s] = {}]
  /\ At(s, IF todo[s] = {} THEN "results" ELSE "announced")
  /\ UNCHANGED <<state, kind, todo, answered, recorded, pool, socket>>

Complete(s) ==
  /\ at[s] = "results" /\ Told(s)
  /\ Broadcast(s, "complete")
  /\ At(s, "complete")
  /\ UNCHANGED <<state, kind, todo, batch, answered, recorded, pool, socket>>

Over(s) ==
  /\ At(s, "over")
  /\ running' = FALSE /\ current' = None

Record(s) ==
  /\ at[s] = "complete" /\ Told(s) /\ Tracked(s)
  /\ recorded' = recorded \cup {s}
  /\ IF kind[s] = "scan_fix" THEN Broadcast(s, "progress") /\ At(s, "to_fix") /\ UNCHANGED state
                             ELSE Over(s) /\ UNCHANGED sends
  /\ UNCHANGED <<kind, todo, batch, answered, pool, socket>>

(* Auto-fix has no timeout.                                                  *)
StartFix(s) ==
  /\ at[s] = "to_fix" /\ Told(s)
  /\ Submit(<<s, Fix>>)
  /\ At(s, "fix")
  /\ UNCHANGED <<state, kind, todo, batch, answered, recorded, busy, hung, sends, socket>>

Fixed(s) ==
  /\ at[s] = "fix" /\ <<s, Fix>> \notin awaited
  /\ Broadcast(s, "progress")
  /\ At(s, "fixed")
  /\ UNCHANGED <<state, kind, todo, batch, answered, recorded, pool, socket>>

End(s) ==
  /\ at[s] = "fixed" /\ Told(s)
  /\ Over(s)
  /\ UNCHANGED <<kind, todo, batch, answered, recorded, pool, sends, socket>>

(* CancelledError: the finally clause is all that runs.                      *)
(* Mutation: no finally.                                                    *)
UnwindOnly(s) ==
  /\ at[s] = "cancelled"
  /\ At(s, "over")
  /\ UNCHANGED <<state, kind, todo, batch, answered, recorded, pool, sends, socket>>

Unwind(s) ==
  /\ at[s] = "cancelled"
  /\ Over(s)
  /\ UNCHANGED <<kind, todo, batch, answered, recorded, pool, sends, socket>>

(* A quick or DAST scan runs its agents one after another, without a timeout. *)
RunAlone(s) ==
  /\ at[s] = "alone" /\ Told(s) /\ batch[s] \subseteq answered[s] /\ todo[s] # {}
  /\ LET a == FirstOf(todo[s])
     IN /\ Submit(<<s, a>>)
        /\ todo' = [todo EXCEPT ![s] = @ \ {a}] /\ batch' = [batch EXCEPT ![s] = {a}]
  /\ UNCHANGED <<state, kind, at, answered, recorded, busy, hung, sends, socket>>

CompleteAlone(s) ==
  /\ at[s] = "alone" /\ todo[s] = {} /\ batch[s] \subseteq answered[s]
  /\ Broadcast(s, "complete")
  /\ At(s, "over")
  /\ UNCHANGED <<state, kind, todo, batch, answered, recorded, pool, socket>>

TaskStep(s) ==
  \/ Begin(s) \/ Announce(s) \/ Launch(s) \/ Gather(s) \/ Gathered(s) \/ Complete(s) \/ Record(s)
  \/ StartFix(s) \/ Fixed(s) \/ End(s) \/ Unwind(s) \/ RunAlone(s) \/ CompleteAlone(s)

-----------------------------------------------------------------------------
(* The pool.                                                                 *)
StartJob ==
  /\ waiting # <<>> /\ Cardinality(busy) < Workers
  /\ busy' = busy \cup {Head(waiting)} /\ waiting' = Tail(waiting)
  /\ UNCHANGED <<state, kind, at, todo, batch, answered, recorded, hung, awaited, sends, socket>>

Answer(job) ==
  /\ awaited' = awaited \ {job}
  /\ answered' = IF job \in awaited /\ job[2] # Fix
                   THEN [answered EXCEPT ![job[1]] = @ \cup {job[2]}] ELSE answered

(* It returns or raises; nobody hears of it when it has been given up.       *)
FinishJob(job) ==
  /\ job \in busy \ hung
  /\ busy' = busy \ {job}
  /\ Answer(job)
  /\ UNCHANGED <<state, kind, at, todo, batch, recorded, waiting, hung, sends, socket>>

(* An exception ends a quick or DAST scan without a word.                    *)
Raise(job) ==
  /\ job \in busy \ hung /\ ~Tracked(job[1])
  /\ busy' = busy \ {job} /\ awaited' = awaited \ {job}
  /\ At(job[1], "over")
  /\ UNCHANGED <<state, kind, todo, batch, answered, recorded, waiting, hung, sends, socket>>

Hang(job) ==
  /\ "hang" \in Hazards /\ job \in busy \ hung
  /\ hung' = hung \cup {job}
  /\ UNCHANGED <<state, kind, at, todo, batch, answered, recorded, waiting, busy, awaited, sends, socket>>

(* wait_for gives up: a job not begun is taken back, one that runs runs on.  *)
(* Mutation: its thread is taken to be free again.                          *)
TimeoutFreeing(job) ==
  /\ "timeout" \in Hazards \/ job \in hung
  /\ job \in awaited /\ job[2] # Fix /\ Tracked(job[1])
  /\ Answer(job)
  /\ waiting' = Without({job})
  /\ busy' = busy \ {job}
  /\ UNCHANGED <<state, kind, at, todo, batch, recorded, hung, sends, socket>>

Timeout(job) ==
  /\ "timeout" \in Hazards \/ job \in hung
  /\ job \in awaited /\ job[2] # Fix /\ Tracked(job[1])
  /\ Answer(job)
  /\ waiting' = Without({job})
  /\ UNCHANGED <<state, kind, at, todo, batch, recorded, busy, hung, sends, socket>>

Jobs == Tasks \X (Agents \cup {Fix})
Loop == TakeLock \/ ReleaseLock \/ (\E c \in Clients : Send(c)) \/ StartJob

Next ==
  \/ TriggerScan \/ TriggerOther \/ CancelScan \/ Loop
  \/ \E s \in Tasks : TaskStep(s)
  \/ \E c \in Clients : Leave(c) \/ Join(c)
  \/ \E job \in Jobs : FinishJob(job) \/ Raise(job) \/ Hang(job) \/ Timeout(job)

Spec == Init /\ [][Next]_vars

(* Nothing stops for good: as long as a task can go on, a send or an agent   *)
(* that does not hang can end, or a timer can fire, one of them does.        *)
FairSpec ==
  /\ Spec
  /\ WF_vars(\/ Loop \/ \E s \in Tasks : TaskStep(s)
             \/ \E job \in Jobs : FinishJob(job) \/ Timeout(job))

-----------------------------------------------------------------------------
(* Properties.                                                               *)

(* Every variable has its type.                                              *)
TypeOK ==
  /\ running \in BOOLEAN /\ current \in Tasks \cup {None}
  /\ kind \in Seq(Kinds) /\ Len(kind) <= MaxTasks
  /\ at \in [Tasks -> {"off", "new", "announced", "launch", "gather", "results", "complete",
                       "to_fix", "fix", "fixed", "alone", "cancelled", "dropped", "over"}]
  /\ todo \in [Tasks -> SUBSET Agents] /\ batch \in [Tasks -> SUBSET Agents]
  /\ answered \in [Tasks -> SUBSET Agents] /\ recorded \subseteq Tasks
  /\ waiting \in Seq(Jobs) /\ hung \subseteq busy /\ busy \subseteq Jobs /\ awaited \subseteq Jobs
  /\ clients \subseteq Clients /\ left \in (SUBSET Clients) \cup {None}
  /\ sends \in Seq(Tasks \X {"started", "progress", "complete", "cancelled"} \X BOOLEAN)

(* One tracked scan runs at a time, and while it runs the state says so: a   *)
(* scan that is cancelled or ends never marks the next one as over.          *)
OneScanAtATime ==
  \A s \in DOMAIN kind : Alive(s) /\ Tracked(s) =>
    running /\ \A q \in DOMAIN kind \ {s} : Alive(q) => ~Tracked(q)

(* A client that hears scan.complete hears it of a scan that has an answer   *)
(* of each of its agents, and the history holds no other scan.               *)
CompleteIsWhole ==
  /\ \A c \in Clients : \A k \in DOMAIN heard[c] :
       heard[c][k][1] = "complete" /\ Tracked(heard[c][k][2]) =>
         answered[heard[c][k][2]] = Agents
  /\ \A s \in recorded : answered[s] = Agents

(* What a client hears last of a scan that was cancelled is that it was, and *)
(* it hears so before it hears that a later scan started.                    *)
CancelledIsLast ==
  \A c \in Clients : \A k \in DOMAIN heard[c] : heard[c][k][1] = "cancelled" =>
    \A i \in DOMAIN heard[c] :
      /\ heard[c][i][2] = heard[c][k][2] => i <= k \/ heard[c][i][1] = "cancelled"
      /\ heard[c][i][2] > heard[c][k][2] /\ Tracked(heard[c][i][2]) => i > k

(* A scan ends, and the next one can start, unless auto-fix hangs or waits   *)
(* for threads that all do, or the scan was cancelled before its first step. *)
ScanEnds ==
  running ~> \/ ~running \/ at[current] = "dropped"
             \/ Cardinality(hung) >= Workers \/ \E job \in hung : job[2] = Fix

(* Stated by the module's docstring: each agent gets its own timeout so a    *)
(* hung agent can't block the whole scan.                                    *)
HungAgentNeverBlocks == running ~> ~running \/ \E job \in hung : job[2] = Fix

(* Stated by the comment on AGENT_TIMEOUT: agents that exceed it are killed. *)
KilledOnTimeout == \A job \in busy : Tracked(job[1]) => job \in awaited

(* Stated by the answer 409, "Scan already running".                         *)
RunningHasTask == running => current # None /\ Alive(current)
=============================================================================
