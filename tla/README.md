# A TLA+ model of Patchi

Patchi scans a project, lets agents propose patches, applies them under a risk
gate, and can undo what it applied. This directory holds TLA+ modules for the
parts of it that keep state and can go wrong: what they do, step by step, which
properties TLC checks on small instances, and which ones TLAPS proves for every
instance. Source paths below are relative to `src/patchi/` unless they name a file
in the repository's root or `docs/`.

    tlc -config FixHistory.cfg MCFixPipeline      # a run
    tlapm FixPipelineProofs.tla                   # the proofs

## 1. Inventory

| Part | State it keeps | Operations | Who calls it |
|---|---|---|---|
| Fix pipeline: `core/fix/applier.py`, `core/snapshot.py`, `core/fix/verify_loop.py`, `cli/commands/{fix,review,patch,undo}_cmd.py` | the working tree, `.patchi/snapshots/`, the records in `.patchi/memory/patches.json` | apply (policy gate, snapshot, write, check, record), restore, undo, redo, rollback, reject, the verify loop | a person at the command line, the web server, the governor |
| Risk gate: `core/fix/risk_gate.py`, `core/config.py` | `.patchi/config.json`, `brain["contract_locked"]`, the clock | decide auto / review / block, change the configuration | `p fix`, `p patch apply`, `p redo`, the web |
| Task queue: `core/queue.py` | `.patchi/queue.json`, `queue.tmp`, `queue.lock` | enqueue, update, skip, pause, resume, clear, clear_all, next_waiting | every CLI process and the web server |
| Browser pool: `core/testing/live_v2/browser_pool.py` and its users | the dict of browsers, their page counts, an asyncio lock | get_page, release_page, get_browser_for_recording, health_check, cleanup_idle, shutdown | screenshot routes, live tests, recorded tests |
| Memory store: `core/memory.py` | the JSON categories under `.patchi/memory/` | read, whole-file write, read-modify-write | everything |
| Governor: `core/agents/governor.py` | the phase and the phases' results in `.patchi/pipeline_state.db`; results of the phases on the object | `run_full_pipeline_v2` with its seven phases, transitions under criteria, scores and selection, close; incidents (GovernorEngine) | `p scan` |
| Coordinator, cache and scan bus: `core/agents/coordinator.py`, `core/agents/cache.py`, `core/scan_bus.py` | circuit breaker, results per agent, a cache file per agent | run agents on threads or processes, serve from the cache, merge shards | the governor, `p scan` |
| Web scans: `web/api/scan.py`, `web/ws.py` | `_scan_state`, the asyncio tasks, the loop's threads, the connected clients | start, quick, DAST, cancel, status; broadcast, connect, disconnect | browsers |
| Event bus and triage: `core/detector/` | subscriptions, recent events | publish, dispatch, deduplicate | no publisher in production |
| Spawn manager: `web/spawn.py` | live spawns, cooldowns | spawn, expire | one web route |
| Fix generators, auto fixer, scanners, brain, AI client, web and CLI front ends | none that outlives a call, or a cache | pure functions, network calls, printing | the parts above |

How they interact. Everything shared is a file under the project: commands, the
web server and the watcher are processes that read and write the same JSON files
and the same tree, with a lock only where the queue takes one. Inside a process
the web server's tasks share an asyncio loop and the browser pool. `p fix` asks
the gate, hands a patch to the applier (or, for the fix of a failing test, to the
verify loop) and saves a record; `p review`, `p patch apply`, `p undo`, `p redo` and
`p rollback` work from those records later.

What is hard in it, and what makes each part correct:

* *Fix pipeline.* One apply is a dozen durable effects; each can fail or be the
  last before a crash, and the failures of record keeping are swallowed. Records
  and tree drift apart if an undo takes the wrong snapshot or the wrong order.
  Correct means: what an apply replaces is in a snapshot first; what a command
  reports is what it did; a patch is in the tree as a whole or not at all; the
  records explain the tree.
* *Risk gate.* The mode is read for every patch, the rest of the configuration
  once; other processes change both without a lock. Correct means: no patch gets
  in by itself that the gate, the mode or the clock forbids; test files change
  only with a person's yes; what is restricted stays restricted.
* *Task queue.* Two processes, one temporary file, and two operations without the
  lock. Correct means: operations are atomic, the file always parses, tasks are
  neither lost nor doubled, the lock comes back.
* *Browser pool.* A lock held over a wait, counts taken off the wrong browser,
  names that repeat. Correct means: limits hold, who asks is served, nobody's
  browser is closed under them.
* *Memory store.* Threads of several processes; some operations read, change and
  write under the process's lock, some lock the write only, some nothing, and some
  share a temporary file. Correct means: agents that save in parallel lose nothing;
  a file parses whenever it is opened; a save finds the kind of file it appends to;
  the lock comes back.
* *Governor.* Everything a run writes is one SQLite transaction that only `close()`
  commits, and the last phase scores candidates from what three earlier phases left
  on the object. Correct means: a pass that is reported is on disk and whole; what is
  selected to go in without a person has earned it; a dry run completes nothing.
* *Coordinator.* Results in any order, a pool that breaks half-way, a cache keyed by
  files that change. Correct means: every agent the breaker let through is answered
  for, with its own result; the cache serves what the files say now; a call ends.
* *Web scans.* A cancelled task goes on to its `finally` after the request that
  cancelled it; threads cannot be stopped; events of several senders queue for one
  lock. Correct means: one scan at a time; "complete" means an answer of every agent;
  "cancelled" is the last word; a scan ends.

`PROJECT.json` lists every hazard at its line with the properties that cover it.

## 2. The modules

    FixTypes --- FixPipeline --- MCFixPipeline        RiskGate --- FixGate --- MCFixGate
        |             |                                               |
    AtomicTree    FixPipelineProofs                             FixGateProofs

    QueueOps --- TaskQueue --- MCTaskQueue            BrowserPool --- MCBrowserPool
        |             |                                   |
    AtomicQueue   TaskQueueProofs                     BrowserPoolProofs

    AtomicMemory --- MemoryStore --- MCMemoryStore    WebScans --- MCWebScans
                         |                                |
                    MemoryProofs                      WebScansProofs

    Governor --- MCGovernor                           AgentRuns --- MCAgentRuns
        |                                                 |
    GovernorProofs                                    AgentRunsProofs

`Selection` is what it means to keep some elements of a sequence: the queue, the pool,
the memory store and the web's jobs use it.

### FixTypes, FixPipeline, AtomicTree

`FixPipeline` is one project directory with one command at a time. `disk` is the
tree, `snaps` the snapshot directory, `ledger` the record of each patch, `torn` that
patches.json is cut short; `pc`, `cmd`, `cur`, `sid`, `todo`, `why`, `queue`, `tries` are
the local variables of the running command and `outcome` is what it reported. `goal`,
`start` and `before` are history variables no guard reads. One step is one durable
effect, so `Crash` may come between any two.

| Action | Code |
|---|---|
| `StartFix`, `QueueFix`, `StartVerify` | the branches of `fix_cmd.run` for a patch that goes in, one to be reviewed, and a fix of a failing test |
| `Accept`, `Reject`, `Undo`, `Redo`, `Rollback` | `review_cmd`, `patch_cmd`, `undo_cmd` |
| `ApplyRefused`, `TakeSnapshot`, `WriteFile`, `WriteBlocked`, `WriteFails`, `WritesDone` | `PatchApplier.apply`, the gates and the writes; `atomic_write_text` |
| `ChecksPass`, `ChecksFail` | `_run_tests` and `_run_linter`: their verdict |
| `RestoreFile`, `RestoreDone`, `RestoreFails` | `snapshot.restore` from the four places that call it |
| `RecordApplied`, `RecordFailed`, `RecordRolledBack` | `_update_patch_state`, which swallows its own failure |
| `MarkBegin`, `MarkEnd`, `MarkFails` | `_mark_undone`, `_mark_applied`, the rejects: patches.json rewritten in place |
| `VerifyPasses`, `VerifyFails` | `run_verify_loop` after an apply |

`Hazards` says what the environment may do in an instance: writes or restores that
raise, record updates that fail, crashes, Windows' unlink before replace, undo by id,
reject of any patch, the verify loop. `AtomicTree` is the promise: the tree changes by
whole patches and whole undos, and what a patch replaced is kept until it is undone.
The refinement mapping is at the end of `FixPipeline`.

Abstracted: the content of a file is a value; a patch is a map from its files to their
new values; the order of the files is arbitrary; times are stamps from one clock; a
lost process during `save_patch` counts as before or after it, because that write goes
through a temporary file.

### RiskGate, FixGate

`RiskGate` is the decision: `Blocks` (the contract, restrictions, the blast-radius
rule, charter and secrets) and `Decision` for each mode, score and minute. `FixGate`
puts it among the commands: `config`, `contract` and `now` change under them through
`LoadConfig`/`SaveConfig` (an unlocked load, change and save by each editor),
`SetContract` and `Tick`; `gate` is what the gate of a running `p fix` has loaded,
`todo` its patches, `trying` the one in the verify loop; `shown` is what `p review` has
listed; `record` the states; `event` the apply of the last step and the command it came
from, which the action properties read as `event'`.

Abstracted: the verdict of the charter and the secrets check is the constant `Refused`
(both are functions of the patch); an apply is its outcome here, its steps are
`FixPipeline`'s; a day has `Day` minutes.

### QueueOps, AtomicQueue, TaskQueue

`QueueOps` is what each operation does to the queue's value, `AtomicQueue` the queue
as callers are meant to see it, `TaskQueue` how `_file_lock`, `_read` and `_write` do it:
`json` and `tmp` are the inodes the two names link, `text` and `whole` what is in an
inode and whether it parses, `lock` who holds `queue.lock`, and each process goes
through lock, read, open, fill, replace. `open("w")` empties the inode the name links,
a rename takes the inode along, and a process that still has it open goes on writing
into it: that is how an unlocked `clear` can hurt a locked operation. `Crash` closes
files and drops the lock, as the kernel does; `LockTimeout` is Windows' `LK_LOCK`.

### BrowserPool

One asyncio loop; what runs between two awaits is one step. `pool` is the dict in
insertion order with each entry's name, browser, `page_count` and health; `running` and
`usable` are the browser processes and open contexts; `pc`, `at` and `name` are each
task's place, its browser, and the name its recording is filed under. `release_page`
takes a page off the first entry that counts one, as the code's own comment admits.
Abstracted: the order in which waiting tasks get the lock is free (the code's is first
come, first served); popping a recording and closing what was popped are one step;
what a test does with its page is `DonePage`.

### MemoryStore, AtomicMemory

The files are what `stored` maps to their entries; `tmp` is the temporary file that some
writers of a category share, `lock` who holds `_WRITE_LOCK` in each process, `data` what a
thread has read and is about to write, `fd` which file it has open (a shared temporary
file that somebody else renames takes the writers that have it open along). A call is a
sequence of operations of these kinds:

| Kind | Code | Lock | Temporary file |
|---|---|---|---|
| `put`, `push` | `save_scan_result`, `record_scan` through `_update` | read to write | own; shared for the history |
| `save`, `clear` | `save_brain`, `save_layers`, `save_charter`; `delete`, `delete_all` | the write | own |
| `append`, `once`, `remove`, `mark` | `save_patch`, `save_failed_attempt`, `save_issue`; `save_token`; `resolve_issue`, `remove_token`; `mark_brain_stale` | the write only | own |
| `count` | `record_rejection` | none | shared |
| `wipe` | `clear_all` | none | shared |

`Acquire`, `Read`, `Open`, `Flush` and `Replace` are the steps of any of them; `Crash` ends a
process. `AtomicMemory` is what the store should be: an operation takes effect at once,
once, and before its call returns. `Guarded` are the files for which it is: those only
threads of one process write, by the operations that hold the lock.
Abstracted: an entry is its key and the call it comes from; a reader sees the file, whole or
torn, between any two steps of the writers (`AlwaysReadable`).

### Governor

Each scan is a process with a connection. `db` and `history` are what is committed, `txn` what a
connection has written since, `report` the PhaseResults, `fixes`, `fate`, `reverify` and
`decision` the attributes one phase leaves for a later one (`_last_fix_results`,
`_last_fix_verify`, `_last_reverify_outcome`, `_last_selection`).

| Action | Code |
|---|---|
| `Start`, `Begin` | the constructor and `_init_db`; the reset to IDLE of `run_full_pipeline_v2` |
| `RunScan`, `ScanVerdict` | `run_scan`: the phase is read before the agents run and judged after, `_transition_to` |
| `RunGraphUpdate`, `RunTestGeneration`, `RunTest` | the phases of the same names, `_record_phase` |
| `RunFixGeneration` | `run_fix_generation` with the verify loop's verdict per patch |
| `RunSandboxReverify` | `run_sandbox_reverify`, `_recheck_applied_patches` |
| `RunScoreSelect` | `run_score_select`, `_score_candidate`, `_select_candidate` |
| `Close`, `SwitchJournal` | `close()`: commit, checkpoint, `journal_mode` and the downgrade of the report when they fail |
| `LockedOut`, `Exit`, `Crash` | `busy_timeout` runs out; the process ends |

Scores are thousandths; the criteria are the code's numbers. What the agents of a phase
find is an input (`Outcomes`, `Candidates`); a patch's fate stands for the verify loop's steps,
which `FixPipeline` has.

### AgentRuns

One process after another calls the coordinator. `cache` and `stored` outlive it, `breaker`
does not; `jobs` are the workers of the call with what they have read, `results` the answers in
the order they came, `fp` the fingerprint the call's `AgentCache` took. `Lookup` is the cache,
`Read`, `Hang`, `Finish` a worker, `PoolBreaks` the repetition on threads, `Merge` and `Put` the end
of `_run_classes`; `Edit` changes the project. A report stands for the findings of one worker:
the part it read and what was in the files. `streak` is observed, no guard reads it.

### WebScans

`running` and `current` are `_scan_state`; `at` is the await each task is at, `waiting`, `busy`, `hung`
and `awaited` the jobs of the loop's thread pool, `sends` the broadcasts in the order in which
they take the lock, `left` whom the first has still to reach, `heard` what each client got.

| Action | Code |
|---|---|
| `TriggerScan`, `TriggerOther`, `CancelScan` | `POST /scan` (with `auto_fix` or not), `/scan/quick` and `/dast`, `/scan/cancel` |
| `Begin`, `Announce`, `Launch`, `Gather`, `Gathered`, `Complete`, `Record`, `StartFix`, `Fixed`, `End`, `Unwind` | `_run_scan_async` between two awaits |
| `RunAlone`, `CompleteAlone`, `Raise` | the tasks of quick and DAST scans |
| `StartJob`, `FinishJob`, `Hang`, `Timeout` | the pool and `wait_for` |
| `TakeLock`, `Send`, `ReleaseLock`, `Join`, `Leave` | `ConnectionManager` |

Abstracted: a batch's results are one `progress` event; `running` is set when the request is
handled, at once with the task; a second cancel of the same task only tells the clients again.

## 3. The runs

A cfg's name is the run's in CamelCase. "pass" runs find no error; "violation" runs
check one statement of a document, comment or docstring that the code does not keep.

| Run | Checks | Shows |
|---|---|---|
| fix_faults | `TypeOK`, `SnapshotAhead`, `ReportIsTrue`, `AppliedHasSnapshot`, `CommandsEnd` | under all hazards but the reject of a patch that is not pending: the snapshot holds what an apply replaced, reports are true, applied records can be undone, every command ends |
| fix_history | `TreeIsReplay`, `RollbackReachesTarget`, `ImplementsAtomicTree` | undos in order, failing and Windows writes: the tree is the original with the applied patches replayed, a rollback that reports success has reached its target, and the pipeline implements `AtomicTree` |
| queue_locked | `TypeOK`, `AlwaysReadable`, `ImplementsQueue` | the locked operations are atomic over crashes and lock timeouts |
| queue_shared | `QueueBounded`, `LockReleased` | even with `clear` and `clear_all` the depth holds and no task is there twice, and every way out of a locked call gives the lock back |
| pool_limits | `PoolWithinLimits` | the wrong counts of single browsers never add up to too many pages or browsers |
| pool_served | `TypeOK`, `EveryoneServed` | with no more tasks than pages, who asks for a page is answered, and the registry stays a dict with counts in range |
| gate_commands | `TypeOK`, `TestEditsNeedAPerson`, `AutoAppliesAreAllowed`, `GatedCommandsRespectNoTouch` | nothing gets in by itself that the gate, the mode or the clock forbids, test-only patches wait for a person, restrictions hold for gated commands |
| governor_runs | `TypeOK`, `VerdictIsDurable`, `HistoryHoldsWholeRuns`, `AutoApplyIsEarned`, `DryRunNeverCompletes` | two overlapping `p scan`, over crashes, failing commits and the end of the time budget: a reported pass is on disk, the history holds whole runs, an automatic application is earned, a dry run never completes the pipeline |
| agents_calls | `TypeOK`, `ServedIsCurrent`, `AnswersForAll`, `CallsEnd` | over failures, hung agents, a breaking pool, restarts and edits between calls: the cache serves what the files say, every agent is answered for, a call ends |
| memory_store | `TypeOK`, `AlwaysReadable`, `SavesAppend`, `ImplementsAtomicMemory`, `CallsReturn` | the guarded files are an atomic memory, files with one temporary file per writer always parse, a save finds a list to append to, nobody keeps the lock |
| web_scans | `TypeOK`, `OneScanAtATime`, `CompleteIsWhole`, `CancelledIsLast`, `ScanEnds` | scans cancelled at any await, with agents that hang or answer late and clients that come and go: one at a time, complete means whole, cancelled is the last word, a scan ends |
| web_blocked | `HungAgentNeverBlocks` (violated) | "Each agent gets its own timeout so a hung agent can't block the whole scan" (web/api/scan.py:5): the timeout gives up the answer, not the thread; when agents hang on all threads of the pool, auto-fix waits for one without a timeout, and the scan never ends |

Every property of a passing run has a mutant in `PROJECT.json`: an operator marked
"Mutation" beside the definition it replaces, a plausible bug under which TLC finds
the property violated.

### Statements without a run of their own

The modules also define statements that the repository makes and the code does not
keep. Each takes one change of a cfg to see: put the definition in the place of the
cfg's properties and set the constants named here.

| Definition | The repository says | What happens | Instance |
|---|---|---|---|
| `FixPipeline!ImplementsAtomicTree` | "patches applied atomically" (docs/ARCHITECTURE.md:131) | a crash between two files leaves half a patch, and no command repairs it | FixFaults |
| `FixPipeline!GivingUpRestores` | the verify loop "rolls back on its own" (core/fix/verify_loop.py:168) | it gives up and leaves the patch in the tree, with no record | FixFaults |
| `FixPipeline!AppliedIsOnDisk` | APPLIED means "written to disk" (core/fix/patch.py:79) | undoing an older patch takes a newer one's edit along; its record stays applied | FixFaults |
| `FixPipeline!LedgerReadable` | "every write is atomic" (core/memory.py:8) | marks and rejects rewrite patches.json in place; a crash cuts it short | FixFaults |
| `FixPipeline!FailedIsRolledBack` | FAILED is "applied but tests failed, rolled back" (core/fix/patch.py:80) | when the restore fails too, the record says failed all the same | FixFaults |
| `FixPipeline!ChangedIsUndoable` | "Snapshot before every apply, undo anytime" (README.md:113) | rejecting an applied patch hides it from undo | FixFaults with `Hazards = {"reject"}` |
| `FixPipeline!RollbackReachesTarget` | "All patches applied AFTER patch_id are also undone" (cli/commands/undo_cmd.py:103) | a record that cannot be updated is passed over: it stays applied and the rollback reports success | FixHistory with `Hazards = {"ledger"}` |
| `TaskQueue!AlwaysReadable` | "Crash-safe ... queue" (README.md:502) | with the unlocked `clear`, two writers of one `queue.tmp` leave garbage in queue.json | QueueShared |
| `TaskQueue!HistoryKept` | `clear` preserves "Active/done/failed" (core/queue.py:299) | `clear` writes what it read before a task became active | QueueShared |
| `TaskQueue!PausedGivesNothing` | `next_waiting` "returns None if queue is empty or paused" (core/queue.py:350) | it reads the file twice; a pause in between is not seen | QueueLocked with `Callable <- Pausing`, as a property of `Spec` |
| `BrowserPool!EveryoneServed` | "Wait for available browser" (browser_pool.py:126) | it waits for a page with the lock held: nobody can give one back | PoolServed with `MaxPages = 1` |
| `BrowserPool!PagesPerBrowser` | the limit `max_pages_per_browser` | a page is taken off another browser's count | PoolLimits |
| `BrowserPool!RecordingKept` | a "dedicated recording browser context for this test" (browser_test_runner.py:120) | two recordings in one second share a name; the first to end closes the other's | PoolServed |
| `BrowserPool!BusyKept` | cleanup closes "idle browsers" (browser_pool.py:278) | a browser in use is closed | PoolServed |
| `FixGate!EveryPatchIsGated` | "Every patch passes through the risk gate before anything touches disk" (core/fix/risk_gate.py:4) | `p review` applies what the gate would refuse by now | GateCommands |
| `FixGate!HighRiskAlwaysAsks` | "always ask regardless of mode" (core/fix/patch.py:15) | AUTOPILOT applies high-risk patches unasked | GateCommands |
| `FixGate!QuietHoursBlock` | quiet hours block auto-apply (core/fix/risk_gate.py:312) | the gate of a running `p fix` does not see them switched on | GateCommands |
| `FixGate!ApplyAllSafeApplies` | "Apply every pending patch that passes the risk gate" (web/api/fix.py:61) | it calls a property and raises on the first patch | GateCommands |
| `FixGate!RestrictionsStay` | "Block Patchi from modifying a file" (COMMANDS.md:307) | two overlapping changes of the configuration: the later save drops the other's | GateCommands with a second editor |
| `Governor!PassMeansClean` | "the pipeline cannot 'pass' while its own reverify log says findings remain" (core/agents/governor.py:1611) | the criteria of the re-scan admit findings, and the last phase is DONE whatever it selects | GovernorRuns |
| `Governor!DoneInOrder` | "a phase can never claim 'done' out of order" (core/agents/governor.py:721) | a phase that failed is followed by phases that are done | GovernorRuns |
| `AgentRuns!ServedIsCurrent` | the cache "avoids re-running agents when project files haven't changed" (core/agents/cache.py:2) | files edited while agents run: their results are filed under the fingerprint taken before | AgentsCalls with `Hazards = {"during"}` |
| `AgentRuns!ShardsAreMerged` | "Merge results from parallel shard copies into one AgentResult" (core/agents/coordinator.py:102) | the first answer is merged with itself once per shard; the findings of the others are dropped | AgentsCalls |
| `AgentRuns!BrokenAfterThreeFailures` | "If an agent fails 3 consecutive times, it is automatically skipped" (docs/USAGE.md:190) | every shard counts: one failed run of a sharded agent may be several failures | AgentsCalls |
| `MemoryStore!EveryWriteAtomic` | "Every write is atomic (write to temp, rename to target)" (core/memory.py:8) | two writers of a shared temporary file: one renames it while the other still writes | MemoryStore |
| `MemoryStore!SavesAppend` | `save_patch` appends a patch record (core/memory.py:186) | `clear_all` writes `{}` into every file, and the next save finds no list to append to | MemoryStore with the threads a1 and b1, `ProcessOf <- MCOwner`, `Calls <- MCWiping` |
| `WebScans!KilledOnTimeout` | "Agents that exceed this are killed" (web/api/scan.py:115) | the answer is given up, the thread runs on | WebScans |
| `WebScans!RunningHasTask` | 409 "Scan already running" (web/api/scan.py:129) | a task cancelled before its first step never reaches its `finally`: `running` stays true, and no scan can start any more | WebScans |

Some more disagreements follow from a definition without a property of their own:

* `run_full_pipeline` and the single-phase helpers of the governor never set the phases
  in between, so `IsValidTransition` refuses TEST; only `run_full_pipeline_v2` can pass.
* `run_sandbox_reverify` records a regressed test in the outcome that the scores use,
  but the phase's verdict is the criteria's alone, although "a regression there fails the
  phase" (core/agents/governor.py:1526); a failed TEST_EXECUTION does not keep FIX_GENERATION
  from running, although it "hard-blocks progression" to it (255). `DoneInOrder` is about both.
* "State is stored in SQLite for crash recovery" (core/agents/governor.py:15): a run's
  rows are committed by `close()` alone, and the next run starts from IDLE, so a crash
  leaves nothing to recover (`HistoryHoldsWholeRuns` is the good side of it).
* `timeout: int = 60 # seconds - coordinator enforces this` (core/agents/base.py:522): the
  coordinator asks finished futures for their result, so the timeout never fires; that
  is why `CallsEnd` excepts agents that hang.
* `undo_cmd.py:103` says that a rollback undoes the later patches "oldest first"; the code
  (line 145) goes newest first, and oldest first would not reach the target: the mutant
  `UndoNextOldest`.
* `web/api/fix.py:53` passes three arguments to `record_rejection`, which takes two, and
  answers every request with an error; the fix routes of `web/api_legacy.py` (397-456, 802-849)
  append a second record of a patch instead of changing the first.

## 4. Bounds

* *Fix runs.* Two files, one of which does not exist at first, and up to three patches:
  one edits and creates, one edits the same file, one deletes it, which covers every
  overlap of two patches and every kind of change. fix_faults has two of them, of which
  the deletion counts as a test-only edit, three snapshots and three stamps (`MaxClock`):
  an apply, an undo and a redo, or three attempts of the verify loop (the code's
  1 + MAX_RETRIES), each step of which any of its hazards may hit; its invariants are
  proved with `"reject"`, too (section 6). fix_history has all three
  patches, four snapshots and seven stamps: every patch applied, undone and redone in
  some order, and a rollback. Its snapshot ids are symmetric; fix_faults checks liveness
  and uses no symmetry.
* *Queue runs.* Two processes, one or two tasks, three inodes (queue.json, queue.tmp
  and one more that is open), up to four calls: enough for a full overlap of any two
  calls after calls that prepared the state. A depth of one is where an enqueue can
  find the queue full. Ids are never drawn twice, like the code's uuids.
* *Pool runs.* Two browsers of two pages and three tasks, so that a count can be wrong
  on one browser while another is full, over six uses; in pool_served four, and one
  second can pass, so that recordings meet in the same second or not.
* *Gate runs.* A harmless patch, a high-risk one that answers a failing test and a
  test-only one; a contract that is confirmed or not at the start; a day of two minutes
  with quiet hours up to midnight, which take up one of them; two changes of
  the mode (CONFIRM or AUTOPILOT), the restrictions, the quiet hours or the contract. That
  AUTO stops at the threshold is in the proofs, which have all modes.
* *Governor run.* Two starts by two scans, of which one may apply, so that they overlap at every
  step; one fix agent with two patches, so that
  half of them verified is the edge of the score; a phase reports one of nine outcomes, each
  of which breaks one criterion (51 critical findings where 50 are allowed, 201
  where 200 are, 1000 high ones where 200 are), a candidate one of five.
  The two patches are symmetric.
* *Agents run.* A plain agent and one in two shards, three calls and a threshold of
  three, so that the breaker opens by the last call (a sharded agent fails twice a call);
  two contents of the files, so that an edit can be taken back; a cache that an earlier
  process left.
* *Memory run.* Two threads of one process and one of another, six files of which some
  are guarded and some have a shared temporary file, two keys, a history of two, three
  calls: an overlap of three, or a call after two that prepared the file.
* *Web runs.* Two agents in batches of one (so that a scan has two batches), two
  threads, two tasks and one client; in web_blocked one task with one batch, so that both
  threads can hang. An agent may be late, and answer when it has been given up, or hang.

`CHECK_DEADLOCK FALSE` in all runs but gate_commands: an idle command line, queue, pool,
store, coordinator or server does nothing once the bound on the calls is used up. That
nobody waits for ever while there is work is what the liveness properties are about. The
gate run checks deadlock, and the clock always ticks.

## 5. Fairness

`FairSpec` is what fix_faults, queue_shared, pool_served, agents_calls, memory_store and the
web runs check.

* `FixPipeline`: weak fairness of the running command's own steps. A step is local to
  one process, and tests, linters and npx have timeouts. No fairness of commands:
  nobody has to call one.
* `TaskQueue`: weak fairness of each process's steps inside a call, none of calls,
  crashes or timeouts. `LockReleased` says the holder lets go; that a waiter gets the
  lock is not claimed, `flock` promises no order.
* `BrowserPool`: weak fairness of each task's steps; the loop runs what is ready, and
  page use ends because navigation and steps have timeouts. Weak is enough while
  there are no more tasks than pages, because the lock is then always given back and
  the bounded uses end the competition.
* `AgentRuns`: weak fairness of the coordinating thread and of each worker that has not
  hung. Calls, edits and restarts need not happen.
* `MemoryStore`: weak fairness of each thread's next step. It is enough for a thread
  that waits for the lock because the calls are bounded and a lock that is held is
  given back; an unbounded rush of callers is not claimed to be fair.
* `WebScans`: weak fairness of the loop and its pool as a whole: while a task, a broadcast,
  an agent that does not hang or a timer can go on, one of them does. No more is needed,
  because a scan takes finitely many such steps. Requests need not come.

## 6. What is proved

All for every value of the constants that satisfies the named assumptions
(`FixAssumption`, `PipelineAssumption`, `QueueAssumption`, `TaskQueueAssumption`,
`GateAssumption`, `FixGateAssumption`, `PoolAssumption`, `GovernorAssumption`,
`WebAssumption`, `MemoryAssumption`, `RunsAssumption`: types of the constants, ids distinct
from the "none" values; little about their number, so also for infinite sets. An agent's patches are a finite set,
the agents of a web scan are finite and not none, and a call of the memory store that
takes several files clears or wipes them all).

* `FixPipelineProofs`, in five parts.
  * Under every set of hazards, `TypeCorrect` and `AppliedGuarded` (`Spec =>
    []AppliedHasSnapshot`). The property alone is not inductive: a record becomes
    applied long after its snapshot was taken. `Sound` adds `Shape` (which command each
    step belongs to, that the snapshot in hand is the current patch's and covers its
    files) and `Guards` (records rolled back or undone, the patch being undone or redone
    and everything a rollback still has to do name such a snapshot too).
  * Under every set of hazards, `SnapshotAlwaysAhead` and `ReportsAreTrue`. `Honest` says on
    top of `Sound` how far the files are at each step: written outside `todo`, put back
    outside `todo`, untouched outside the patch, and what an outcome that is not yet
    reported will mean.
  * `TreeIsAtomic`, the refinement of `AtomicTree`, when nothing but a write can fail
    (`Calm`: failing writes, Windows' unlink before replace, undo by id). Crashes, failing
    restores, lost records, rejects and the verify loop are excluded because under each
    of them the statement is false: section 3. `Steady` says that a record names its
    snapshot until it is undone and that what runs was asked of a record in the right
    state.
  * `RollbackAlwaysReaches`, under every hazard but lost records (`Recording`; with them it is
    false): crashes, failing writes and restores, undo by id, rejects and the verify loop.
    `Rolling` says that stamps of applied patches differ (`Stamps`), that an undo works on a
    record that says applied until it is rolled back (`UndoRecorded`), and that what a
    rollback has still to undo is all that was applied since its target (`RollingBack`).
  * `TreeAlwaysReplays`, when besides `Calm` undo takes the newest patch (`InSequence`: under undo
    by id it is false, section 3). `History` says that, file by file, the tree shows the
    change of the latest applied patch that has the file, that each snapshot holds what the
    patches before it make of it (`Replays`), and that the patch being undone is the newest
    (`InOrder`). One lemma about dated sets of patches carries an apply, its mirror an undo
    of the latest.
* `TaskQueueProofs`: `LockedReadable` and `LockedImplements` (the refinement of
  `AtomicQueue`), for any number of processes and inodes, over crashes and timeouts,
  as long as `clear` and `clear_all` are not called. `LockInv` says that whoever is inside
  holds the lock, that what it will write follows from what the file still holds, and
  that it writes to an inode that is not yet queue.json. With `clear` and `clear_all`,
  `QueueTyped` and `QueueAlwaysBounded`: nobody need hold a lock for them, since every inode
  and every value about to be written is a sound queue (`AllSound`) without the ids that
  are still to be entered (`Fresh`).
* `BrowserPoolProofs`: `PoolTyped`, under every set of hazards, and `LimitsHold`, when
  browsers fail to launch or die and are found dead, but nobody records, cleans up or shuts
  down (`PagesOnly`, as in pool_limits). `Counts` is the argument that wrong counts do no
  harm: there is a place for every user among those counted, whichever browser counts it;
  a task that is about to give back a page, or to open one on a new browser, is a user.
* `FixGateProofs`: `GateTypeCorrect`; `TestEditsWaitForAPerson`, for which `GateInv` adds that
  the patch in the verify loop is no test-only one; `AutoAllowed` and `GatedRespect`, action
  properties from the type invariant; and `QuietIsTheWindow`, that the two comparisons
  in `_is_quiet_hours` compute the window from start up to end around the clock, for
  a day of any length.
* `GovernorProofs`: all five properties of governor_runs, for any number of scans, agents
  and patches and any outcomes. `GovernorInv` is `TypeOK` and, of each scan, `RowsAreReported` (what
  is written is what will be reported, phase by phase), `Unsettled` and `Settled` (a full pass
  is only reported once the commit is over), `Choosing` (selections are made with the
  re-scan known), `Dry`, `Whole` and `Earned`. The arithmetic is in lemmas of its own:
  `Thousandths`, `TestsPassIs` and `ScoreNeeds` say what a score of 800 takes.
* `WebScansProofs`: `TypeOK`, `OneScanAtATime`, `CompleteIsWhole` and `CancelledIsLast`, under every set of
  hazards, for any agents, clients and tasks. `TasksInv` says that an agent of a scan is
  still to start, in the batch or answered, and that the current scan is the latest.
  `EventsInv` relates what is queued to what was heard: what a broadcast says is true
  for good, nothing of a cancelled scan is queued behind its "cancelled", and nobody who
  is still to hear that has heard of a later scan. A cancel takes the interrupted
  broadcast out of the queue; `WithdrawnKept` says the order of the others stays.
* `AgentRunsProofs`: `TypeOK` and `AnswersForAll` under every set of hazards, and `ServedIsCurrent`
  as long as no file is edited while agents run (with such edits it is false: section 3).
  `CallsInv` says that an agent of a call has a worker, an answer or the cache's result, and
  that the scan memory holds the one answer of an agent with one worker. `Current` says
  that what was read in a call is what the files still hold. That the merge returns
  an answer of the right agent rests on the least-number principle (`Smallest`).
* `MemoryProofs`: `GuardedFilesAreAtomic` (the refinement of `AtomicMemory`), for any threads,
  processes, calls and crashes. `MemoryInv` says of each thread on a guarded file that it
  holds the lock of the one process that writes it, and that what it is about to write
  follows from what the file still holds; `Alone` is the mutual exclusion. Every step
  then is a stutter, a call, the effect of one operation or a loss. For all the files,
  guarded or not, `StoreInv` says that `{}` is written only to clear all, that only who opened
  the shared temporary file writes to it or to what it has become, and that a history is
  never about to grow too long; `MemoryTyped`, `ReadableAlways` and `AppendsFindAFile` follow. The
  last assumes that what is appended to is not cleared by `clear_all` (`AppendsApart`): with
  it, the statement is false (section 3).
* What `Selected` returns (`NthIn`, `SelectedFrom`) is proved where it is used, in the four
  modules about sequences that lose elements: the places of a set of positions are a
  bijection with its numbers from one on, so no induction is needed.

Only model-checked: the liveness properties (`CommandsEnd`, `LockReleased`, `EveryoneServed`,
`CallsEnd`, `CallsReturn`, `ScanEnds`), because neither fairness nor ENABLED is in the prover's
reach. Every invariant and every action property of a passing run has a theorem.

## 7. Not modelled, and why

* Fix generators, scanners, brain, AI client: functions from text to findings and
  patches, or network calls; no control that properties could be about. The models
  take any patch they could produce.
* Web and CLI front ends: parsing and rendering. Of the web's routes, the scans are
  modelled; the fix routes of `web/api_legacy.py` append records without a gate and are not.
* A person's edits between the generation of a patch and its apply (the applier does
  not compare `change.original`): a hazard without a property so far.
* Several commands on one project at once: `FixPipeline` runs one at a time; what then
  becomes of the records is `MemoryStore`'s (`append` and `mark` outside the lock).
* The governor's incidents (`GovernorEngine`: dispatch, retries, escalation), which nothing
  outside its module creates, `run_full_pipeline`, which nothing calls, and the
  single-phase helpers (section 3).
* The order in which the coordinator starts agents, and sequential runs, which are calls
  with one worker; what an agent does with its input.
* The creation and replacement of the global browser pool.
* The auto fixer (`core/security/auto_fixer.py`), a second writer of the tree without snapshots.
* Hosted mode, plugins, notifications, campaigns: adapters to services.
* Event bus and spawn manager: one has no publisher in production, the other no
  concurrency.

## 8. Plan

Done: the fix pipeline, the gate, the queue, the browser pool, the memory store, the
governor's pipeline, the coordinator with its cache, the web's scans, and the proofs
above. Next, in this order:

1. `FixGate`: the web's fix routes as further actors; a record that is appended twice.
2. `FixPipeline`: a person's edits between generation and apply, the auto fixer as a
   second writer; the commands over `MemoryStore` instead of one at a time.
3. `GlobalPool` over `BrowserPool`: creation, initialisation and replacement.
4. `Incidents`: dispatch, retry, escalation and terminal states, once something uses them.
5. Proofs: the safety side of the liveness properties, that whoever holds a lock or a page
   has a step of its own that leads to giving it back.
