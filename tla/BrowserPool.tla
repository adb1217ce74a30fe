----------------------------- MODULE BrowserPool -----------------------------
(***************************************************************************)
(* core/testing/live_v2/browser_pool.py and the tasks that use it: the web *)
(* server's screenshot routes, the live test runner and the recorded tests *)
(* of browser_test_runner.py, all on one asyncio loop.  What runs between  *)
(* two awaits is one step.  A task that asks for a page keeps the pool's   *)
(* lock until it has one; a recorded test takes its browser out of the     *)
(* pool without the lock.                                                  *)
(***************************************************************************)
EXTENDS Selection

CONSTANTS
  Tasks,        \* the tasks
  None,         \* no task, no browser
  MaxBrowsers,  \* BrowserConfig.max_browsers
  MaxPages,     \* BrowserConfig.max_pages_per_browser
  MaxUses,      \* bound: pages and recordings asked for
  MaxSeconds,   \* bound: seconds that pass
  Hazards       \* "record": recorded tests; "launch": launching fails; "die": a browser
                \* dies; "health", "cleanup", "shutdown": those calls are made

ASSUME PoolAssumption ==
  /\ None \notin Tasks \cup Nat
  /\ {MaxBrowsers, MaxUses, MaxSeconds} \subseteq Nat
  /\ MaxPages \in Nat \ {0}    \* 10, and no caller sets another
  /\ Hazards \subseteq {"record", "launch", "die", "health", "cleanup", "shutdown"}

VARIABLES
  pool,     \* _browsers: a dict in insertion order, as a sequence of entries
  lock,     \* who holds the pool's lock
  up,       \* playwright runs
  born,     \* browsers launched so far: they are 1, 2, ... born
  running,  \* browsers whose process runs
  usable,   \* browsers whose context is open
  pc,       \* task -> what it waits for
  at,       \* task -> the browser its page or recording is in, or None
  name,     \* task -> the name its recording was filed under
  second,   \* time.time(), in whole seconds
  uses

vars == <<pool, lock, up, born, running, usable, pc, at, name, second, uses>>
browsers == <<up, born, running, usable>>

Steps == {"idle", "page_lock", "launch", "spin", "open", "using", "release_lock", "close",
          "record_lock", "record_launch", "recording", "record_pop"}

Names == {"page", "recording"} \X Nat

Init ==
  /\ pool = <<>> /\ lock = None /\ up = TRUE
  /\ born = 0 /\ running = {} /\ usable = {}
  /\ pc = [t \in Tasks |-> "idle"] /\ at = [t \in Tasks |-> None]
  /\ name = [t \in Tasks |-> <<"page", 0>>]
  /\ second = 0 /\ uses = 0

-----------------------------------------------------------------------------
(* The registry.                                                             *)
Entry(n, b) == [name |-> n, browser |-> b, count |-> 1, healthy |-> TRUE]

(* Mutation: a list, in which a name can come twice.                          *)
PutTwice(d, e) == Append(d, e)

(* dict assignment: a name that is taken keeps its place.                    *)
Put(d, e) ==
  IF \E k \in DOMAIN d : d[k].name = e.name
    THEN [k \in DOMAIN d |-> IF d[k].name = e.name THEN e ELSE d[k]]
    ELSE Append(d, e)

Without(d, gone) == Selected(d, {k \in DOMAIN d : d[k].name \notin gone})

First(S) == {k \in S : \A j \in S : k <= j}

Room == {k \in DOMAIN pool : pool[k].healthy /\ pool[k].count < MaxPages}
Counted == {k \in DOMAIN pool : pool[k].count > 0}

Go(t, step) == pc' = [pc EXCEPT ![t] = step]
Leave(t) == lock' = None /\ Go(t, "idle") /\ at' = [at EXCEPT ![t] = None]

-----------------------------------------------------------------------------
(* get_page and release_page                                                 *)
AskPage(t) ==
  /\ pc[t] = "idle" /\ uses < MaxUses
  /\ uses' = uses + 1 /\ Go(t, "page_lock")
  /\ UNCHANGED <<pool, lock, browsers, at, name, second>>

(* Mutation: the page is not counted.                                         *)
ReuseUncounted(t) ==
  \E k \in First(Room) :
    /\ UNCHANGED pool
    /\ at' = [at EXCEPT ![t] = pool[k].browser]
    /\ Go(t, "open")

Reuse(t) ==
  \E k \in First(Room) :
    /\ pool' = [pool EXCEPT ![k].count = @ + 1]
    /\ at' = [at EXCEPT ![t] = pool[k].browser]
    /\ Go(t, "open")

(* The first browser with room; else a new one; else wait, with the lock.    *)
GetPage(t) ==
  /\ pc[t] = "page_lock" /\ lock = None
  /\ lock' = t
  /\ IF Room # {} THEN Reuse(t)
     ELSE /\ Go(t, IF Len(pool) < MaxBrowsers THEN "launch" ELSE "spin")
          /\ UNCHANGED <<pool, at>>
  /\ UNCHANGED <<browsers, name, second, uses>>

(* Every 0.1 s: has one of the browsers room by now?                         *)
WaitForBrowser(t) ==
  /\ pc[t] = "spin" /\ Room # {}
  /\ Reuse(t)
  /\ UNCHANGED <<lock, browsers, name, second, uses>>

CreateBrowser(t) ==
  /\ pc[t] = "launch" /\ up
  /\ born' = born + 1 /\ running' = running \cup {born'} /\ usable' = usable \cup {born'}
  /\ pool' = Put(pool, Entry(<<"page", Len(pool)>>, born'))
  /\ at' = [at EXCEPT ![t] = born']
  /\ Go(t, "open")
  /\ UNCHANGED <<lock, up, name, second, uses>>

(* Mutation: a launch that raises leaves the pool locked.                     *)
CreateFailsLocked(t) ==
  /\ pc[t] \in {"launch", "record_launch"}
  /\ "launch" \in Hazards \/ ~up
  /\ Go(t, "idle")
  /\ UNCHANGED <<pool, lock, browsers, at, name, second, uses>>

(* The launch raises, or the context after it, with the browser running.     *)
CreateFails(t) ==
  /\ pc[t] \in {"launch", "record_launch"}
  /\ "launch" \in Hazards \/ ~up
  /\ \/ UNCHANGED <<born, running>>
     \/ up /\ born' = born + 1 /\ running' = running \cup {born'}
  /\ Leave(t)
  /\ UNCHANGED <<pool, up, usable, name, second, uses>>

(* new_page on an open context; on a closed one it raises.                   *)
OpenPage(t) ==
  /\ pc[t] = "open"
  /\ IF at[t] \in usable THEN lock' = None /\ Go(t, "using") /\ UNCHANGED at ELSE Leave(t)
  /\ UNCHANGED <<pool, browsers, name, second, uses>>

DonePage(t) ==
  /\ pc[t] = "using"
  /\ Go(t, "release_lock")
  /\ UNCHANGED <<pool, lock, browsers, at, name, second, uses>>

(* The first browser that counts a page has one fewer, whosever page it was. *)
ReleasePage(t) ==
  /\ pc[t] = "release_lock" /\ lock = None
  /\ lock' = t
  /\ IF Counted = {} THEN UNCHANGED pool
     ELSE \E k \in First(Counted) : pool' = [pool EXCEPT ![k].count = @ - 1]
  /\ Go(t, "close")
  /\ UNCHANGED <<browsers, at, name, second, uses>>

ClosePage(t) ==
  /\ pc[t] = "close"
  /\ Leave(t)
  /\ UNCHANGED <<pool, browsers, name, second, uses>>

-----------------------------------------------------------------------------
(* get_browser_for_recording and run_test                                    *)
AskRecording(t) ==
  /\ "record" \in Hazards
  /\ pc[t] = "idle" /\ uses < MaxUses
  /\ uses' = uses + 1 /\ Go(t, "record_lock")
  /\ UNCHANGED <<pool, lock, browsers, at, name, second>>

GetRecording(t) ==
  /\ pc[t] = "record_lock" /\ lock = None
  /\ lock' = t /\ Go(t, "record_launch")
  /\ UNCHANGED <<pool, browsers, at, name, second, uses>>

StartRecording(t) ==
  /\ pc[t] = "record_launch" /\ up
  /\ born' = born + 1 /\ running' = running \cup {born'} /\ usable' = usable \cup {born'}
  /\ pool' = Put(pool, Entry(<<"recording", second>>, born'))
  /\ name' = [name EXCEPT ![t] = <<"recording", second>>]
  /\ at' = [at EXCEPT ![t] = born']
  /\ lock' = None /\ Go(t, "recording")
  /\ UNCHANGED <<up, second, uses>>

(* The test is over: its context is closed, which ends the video.            *)
EndRecording(t) ==
  /\ pc[t] = "recording"
  /\ usable' = usable \ {at[t]}
  /\ Go(t, "record_pop")
  /\ UNCHANGED <<pool, lock, up, born, running, at, name, second, uses>>

(* Whatever is filed under the name is taken out, without the lock, and closed. *)
PopRecording(t) ==
  /\ pc[t] = "record_pop"
  /\ LET filed == {pool[k].browser : k \in {k \in DOMAIN pool : pool[k].name = name[t]}}
     IN  running' = running \ filed /\ usable' = usable \ filed
  /\ pool' = Without(pool, {name[t]})
  /\ Go(t, "idle") /\ at' = [at EXCEPT ![t] = None]
  /\ UNCHANGED <<lock, up, born, name, second, uses>>

-----------------------------------------------------------------------------
(* health_check (no lock; one browser after the other): a test page opens, or
   it does not, on a closed context or for another reason.                   *)
HealthCheck(k) ==
  /\ "health" \in Hazards
  /\ \E opens \in {pool[k].browser \in usable, FALSE} :
       pool' = [pool EXCEPT ![k].healthy = opens]
  /\ UNCHANGED <<lock, browsers, pc, at, name, second, uses>>

(* cleanup_idle, with the lock: browsers that count no page and were not
   used for a while.                                                         *)
CleanupIdle(idle) ==
  /\ "cleanup" \in Hazards
  /\ lock = None /\ idle # {} /\ \A k \in idle : pool[k].count = 0
  /\ pool' = Without(pool, {pool[k].name : k \in idle})
  /\ running' = running \ {pool[k].browser : k \in idle}
  /\ usable' = usable \ {pool[k].browser : k \in idle}
  /\ UNCHANGED <<lock, up, born, pc, at, name, second, uses>>

Shutdown ==
  /\ "shutdown" \in Hazards
  /\ lock = None /\ up
  /\ running' = running \ {pool[k].browser : k \in DOMAIN pool}
  /\ usable' = usable \ {pool[k].browser : k \in DOMAIN pool}
  /\ pool' = <<>> /\ up' = FALSE
  /\ UNCHANGED <<lock, born, pc, at, name, second, uses>>

BrowserDies(b) ==
  /\ "die" \in Hazards
  /\ running' = running \ {b} /\ usable' = usable \ {b}
  /\ UNCHANGED <<pool, lock, up, born, pc, at, name, second, uses>>

Tick ==
  /\ second < MaxSeconds /\ second' = second + 1
  /\ UNCHANGED <<pool, lock, browsers, pc, at, name, uses>>

Step(t) ==
  \/ GetPage(t) \/ WaitForBrowser(t) \/ CreateBrowser(t) \/ CreateFails(t) \/ OpenPage(t)
  \/ DonePage(t) \/ ReleasePage(t) \/ ClosePage(t)
  \/ GetRecording(t) \/ StartRecording(t) \/ EndRecording(t) \/ PopRecording(t)

Next ==
  \/ \E t \in Tasks : AskPage(t) \/ AskRecording(t) \/ Step(t)
  \/ \E k \in DOMAIN pool : HealthCheck(k)
  \/ \E idle \in SUBSET DOMAIN pool : CleanupIdle(idle)
  \/ Shutdown
  \/ \E b \in running : BrowserDies(b)
  \/ Tick

Spec == Init /\ [][Next]_vars

(* The event loop runs every task that can go on, and whoever uses a page or
   records a test is done some time: navigation and steps have timeouts.     *)
FairSpec == Spec /\ \A t \in Tasks : WF_vars(Step(t))
-----------------------------------------------------------------------------
TypeOK ==
  /\ \A k \in DOMAIN pool :
       pool[k] \in [name : Names, browser : 1 .. born, count : 0 .. MaxPages, healthy : BOOLEAN]
  /\ \A j, k \in DOMAIN pool : pool[j].name = pool[k].name => j = k
  /\ lock \in Tasks \cup {None} /\ up \in BOOLEAN /\ born \in Nat
  /\ usable \subseteq running /\ running \subseteq 1 .. born
  /\ pc \in [Tasks -> Steps] /\ at \in [Tasks -> (1 .. born) \cup {None}]
  /\ name \in [Tasks -> Names] /\ second \in Nat /\ uses \in Nat

(* Who has a page, or is being given one.                                    *)
Users == {t \in Tasks : pc[t] \in {"open", "using", "release_lock"}}

(* One slot for every page that is counted.                                  *)
Slots == {s \in (DOMAIN pool) \X (1 .. MaxPages) : s[2] <= pool[s[1]].count}

(* "Resource limits (max browsers, max pages per browser)"
   (browser_pool.py:7), for the pool as a whole: although release_page takes
   the page off another browser's count, the counts together never fall short
   of the pages in use, so neither pages nor browsers exceed the limits.     *)
PoolWithinLimits ==
  /\ Cardinality(Users) <= Cardinality(Slots)
  /\ Cardinality(usable) <= MaxBrowsers

(* Whoever asks for a page is given one, or told that it failed.
   "Wait for available browser" (browser_pool.py:126).                       *)
EveryoneServed == \A t \in Tasks : pc[t] = "page_lock" ~> pc[t] \in {"using", "idle"}

(* The same limits for each browser.                                         *)
PagesPerBrowser == \A b \in usable : Cardinality({t \in Users : at[t] = b}) <= MaxPages

(* "Get a dedicated recording browser context for this test"
   (browser_test_runner.py:120): nobody else ends it.                        *)
RecordingKept == \A t \in Tasks : pc[t] = "recording" => at[t] \in usable

(* cleanup_idle closes "idle browsers" (browser_pool.py:278): none in which a
   page is in use.                                                           *)
BusyKept == \A t \in Tasks : pc[t] = "using" => at[t] \in usable
=============================================================================
