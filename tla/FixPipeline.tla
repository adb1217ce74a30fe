----------------------------- MODULE FixPipeline -----------------------------
(***************************************************************************)
(* The fix pipeline of patchi as one project directory sees it: commands   *)
(* (p fix, p review, p patch apply/reject, p undo, p redo, p rollback) run *)
(* one at a time; each drives the applier's steps over three durable       *)
(* stores: the working tree, the snapshots under .patchi/snapshots and the *)
(* patch records in .patchi/memory/patches.json.  A step of this module is *)
(* one durable effect, so a process can die between any two of them.       *)
(***************************************************************************)
EXTENDS FixTypes

CONSTANTS
  SnapIds,      \* snapshot ids uuid4 may draw (a bound on the snapshots taken)
  NoSnap,       \* no snapshot
  NoPatch,      \* no patch
  MaxClock,     \* bound: no command starts once this many records were stamped
  MaxAttempts,  \* 1 + MAX_RETRIES of the verify loop
  Hazards       \* what the environment and the user may do in this instance

HazardKinds ==
  {"write",    \* writing a source file raises
   "restore",  \* restoring a snapshot raises
   "ledger",   \* updating patches.json or brain.json raises (and is swallowed)
   "crash",    \* the process dies
   "win32",    \* replacing a file unlinks the target first
   "byId",     \* the user names the patch to undo
   "reject",   \* p patch reject of a patch in any state
   "verify"}   \* fixes of test failures go through the verify loop

VARIABLES
  (* durable *)
  disk,      \* the working tree
  snaps,     \* snapshot id -> [patch, files] or NoSnap
  ledger,    \* patch id -> its record in patches.json
  torn,      \* patches.json is half written and does not parse
  clock,     \* stamps handed out so far (applied_at, rolled_back_at)
  offered,   \* patches the fix agents have produced (ids are never reused)
  (* the running command *)
  pc,        \* its next step
  cmd,       \* which command
  cur,       \* the patch it is working on
  sid,       \* the snapshot it took or restores
  todo,      \* files still to write or to restore
  why,       \* what a restore is for
  queue,     \* patches p rollback still has to undo
  tries,     \* attempts of the verify loop
  outcome,   \* what the command reported
  (* history: never read by a guard *)
  goal,      \* the patch p rollback was asked to go back behind
  start,     \* the tree when the command started
  before     \* the tree when the current apply or undo started

durable == <<disk, snaps, ledger, torn, clock, offered>>
call    == <<pc, cmd, cur, sid, todo, why, queue, tries, outcome>>
history == <<goal, start, before>>
vars    == <<durable, call, history>>

-----------------------------------------------------------------------------
States == {"none", "proposed", "pending", "applied", "failed",
           "rolled_back", "rejected", "undone"}
Record == [state : States, snap : SnapIds \cup {NoSnap}, at : Nat, rb : Nat]
NoRecord == [state |-> "none", snap |-> NoSnap, at |-> 0, rb |-> 0]

SnapshotOf(p) == [patch : {p}, files : [FilesOf(p) -> Value]]
Snapshot == UNION {SnapshotOf(p) : p \in Patches}

ASSUME PipelineAssumption ==
  /\ NoSnap \notin SnapIds \cup Snapshot \cup {s.files : s \in Snapshot}
  /\ NoPatch \notin Patches
  /\ MaxClock \in Nat
  /\ MaxAttempts \in Nat \ {0}
  /\ Hazards \subseteq HazardKinds

ApplyCmds == {"fix", "accept", "redo", "verify"}
UndoCmds  == {"undo", "rollback"}
Commands  == ApplyCmds \cup UndoCmds \cup {"none", "queue", "reject"}
Steps     == {"idle", "gate", "write", "check", "restore", "record",
              "mark", "marking", "recheck"}
Reasons   == {"none", "blocked", "write", "tests", "undo"}
Outcomes  == {"none", "refused", "applied", "rolledBack", "broken", "gaveUp",
              "undone", "undoFailed", "queued", "rejected", "crashed"}

TypeOK ==
  /\ disk \in Tree /\ start \in Tree /\ before \in Tree /\ goal \in Patches \cup {NoPatch}
  /\ snaps \in [SnapIds -> Snapshot \cup {NoSnap}]
  /\ ledger \in [Patches -> Record]
  /\ torn \in BOOLEAN /\ clock \in Nat /\ offered \subseteq Patches
  /\ pc \in Steps /\ cmd \in Commands /\ cur \in Patches \cup {NoPatch}
  /\ sid \in SnapIds \cup {NoSnap} /\ todo \subseteq Files /\ why \in Reasons
  /\ queue \subseteq Patches /\ tries \in Nat /\ outcome \in Outcomes

Init ==
  /\ disk = Original /\ start = Original /\ before = Original /\ goal = NoPatch
  /\ snaps = [s \in SnapIds |-> NoSnap]
  /\ ledger = [p \in Patches |-> NoRecord]
  /\ torn = FALSE /\ clock = 0 /\ offered = {}
  /\ pc = "idle" /\ cmd = "none" /\ cur = NoPatch /\ sid = NoSnap
  /\ todo = {} /\ why = "none" /\ queue = {} /\ tries = 0 /\ outcome = "none"

-----------------------------------------------------------------------------
(* Helpers.                                                                 *)

AppliedPatches == {p \in Patches : ledger[p].state = "applied"}

(* applied_patches.sort(key=applied_at)[-1] among the patches of S.          *)
Newest(p, S) == p \in S /\ \A q \in S : ledger[q].at <= ledger[p].at

(* A command starts: nothing else runs and the bound allows another.         *)
Begin(c, p, step) ==
  /\ pc = "idle" /\ clock < MaxClock
  /\ cmd' = c /\ cur' = p /\ pc' = step
  /\ start' = disk /\ before' = disk /\ goal' = NoPatch
  /\ sid' = NoSnap /\ todo' = {} /\ why' = "none" /\ tries' = 1

(* save_patch appends a record; it reads first, so it fails on a torn file   *)
(* and _save_patch swallows that.                                            *)
SavePatch(p, st) ==
  ledger' = IF torn THEN ledger ELSE [ledger EXCEPT ![p] = [NoRecord EXCEPT !.state = st]]

(* The command's apply or undo ended.  A redo marks its record, a verify     *)
(* loop re-runs the failing test or tries again, the others are done.        *)
Applied ==
  /\ pc' = CASE cmd = "redo"   -> "mark"
             [] cmd = "verify" -> "recheck"
             [] OTHER          -> "idle"
  /\ outcome' = "applied" /\ UNCHANGED tries

(* Mutation: the attempts are not counted.                                    *)
NotAppliedUncounted(result) ==
  IF cmd # "verify"
    THEN pc' = "idle" /\ outcome' = result /\ UNCHANGED tries
    ELSE pc' = "gate" /\ outcome' = "none" /\ UNCHANGED tries

NotApplied(result) ==
  IF cmd # "verify"
    THEN pc' = "idle" /\ outcome' = result /\ UNCHANGED tries
  ELSE IF tries < MaxAttempts
    THEN pc' = "gate" /\ outcome' = "none" /\ tries' = tries + 1
    ELSE pc' = "idle" /\ outcome' = "gaveUp" /\ UNCHANGED tries

-----------------------------------------------------------------------------
(* Commands.                                                                 *)

(* p fix, a patch the gate lets through: saved as proposed, then applied.    *)
StartFix(p) ==
  /\ Begin("fix", p, "gate")
  /\ p \notin offered /\ ~TestOnly(p)
  /\ offered' = offered \cup {p}
  /\ SavePatch(p, "proposed")
  /\ outcome' = "none"
  /\ UNCHANGED <<disk, snaps, torn, clock, queue>>

(* p fix, a fix of a failing test: the verify loop applies it unsaved.       *)
StartVerify(p) ==
  /\ "verify" \in Hazards
  /\ Begin("verify", p, "gate")
  /\ p \notin offered /\ ~TestOnly(p)
  /\ offered' = offered \cup {p}
  /\ outcome' = "none"
  /\ UNCHANGED <<disk, snaps, ledger, torn, clock, queue>>

(* p fix, a patch the gate wants reviewed: saved as pending.                 *)
QueueFix(p) ==
  /\ Begin("queue", p, "idle")
  /\ p \notin offered
  /\ offered' = offered \cup {p}
  /\ SavePatch(p, "pending")
  /\ outcome' = "queued"
  /\ UNCHANGED <<disk, snaps, torn, clock, queue>>

(* p review and p patch apply: the user accepts a waiting patch.             *)
Accept(p) ==
  /\ Begin("accept", p, "gate")
  /\ ~torn /\ ledger[p].state \in {"pending", "proposed"}
  /\ outcome' = "none"
  /\ UNCHANGED <<disk, snaps, ledger, torn, clock, offered, queue>>

(* p review rejects a pending patch; p patch reject takes any recorded one.  *)
Reject(p) ==
  /\ Begin("reject", p, "mark")
  /\ ~torn
  /\ \/ ledger[p].state = "pending"
     \/ "reject" \in Hazards /\ ledger[p].state # "none"
  /\ outcome' = "rejected"
  /\ UNCHANGED <<disk, snaps, ledger, torn, clock, offered, queue>>

(* Restoring p's snapshot, for p undo and for each patch of p rollback.      *)
Restoring(p) ==
  /\ sid' = ledger[p].snap /\ todo' = FilesOf(p) /\ why' = "undo"

(* p undo [id]: the last applied patch, or the applied one the user names.   *)
Undo(p) ==
  /\ pc = "idle" /\ clock < MaxClock /\ ~torn
  /\ p \in AppliedPatches /\ ledger[p].snap # NoSnap
  /\ Newest(p, AppliedPatches) \/ "byId" \in Hazards
  /\ cmd' = "undo" /\ cur' = p /\ pc' = "restore" /\ Restoring(p)
  /\ start' = disk /\ before' = disk /\ goal' = NoPatch /\ tries' = 1 /\ outcome' = "none"
  /\ UNCHANGED <<disk, snaps, ledger, torn, clock, offered, queue>>

(* p redo [id]: an undone patch goes through the applier again.              *)
Redo(p) ==
  /\ Begin("redo", p, "gate")
  /\ ~torn /\ ledger[p].state = "undone"
  /\ outcome' = "none"
  /\ UNCHANGED <<disk, snaps, ledger, torn, clock, offered, queue>>

(* Mutation: p rollback works through its list from the oldest patch on.      *)
UndoNextOldest(p, S) ==
  /\ p \in S /\ \A q \in S : ledger[q].at >= ledger[p].at
  /\ cur' = p /\ queue' = S \ {p} /\ pc' = "restore" /\ Restoring(p)
  /\ before' = disk /\ outcome' = "none"

(* p rollback <id>: every patch applied since p, and p, newest first.        *)
UndoNext(p, S) ==
  /\ Newest(p, S)
  /\ cur' = p /\ queue' = S \ {p} /\ pc' = "restore" /\ Restoring(p)
  /\ before' = disk /\ outcome' = "none"

Rollback(p) ==
  /\ pc = "idle" /\ clock < MaxClock /\ ~torn
  /\ p \in AppliedPatches
  /\ cmd' = "rollback" /\ goal' = p /\ start' = disk /\ tries' = 1
  /\ \E q \in Patches :
       UndoNext(q, {r \in AppliedPatches : /\ ledger[r].at >= ledger[p].at
                                         /\ ledger[r].snap # NoSnap})
  /\ UNCHANGED <<disk, snaps, ledger, torn, clock, offered>>

-----------------------------------------------------------------------------
(* PatchApplier.apply.                                                       *)

(* The policy gate refuses a file, or the snapshot cannot be taken.          *)
ApplyRefused ==
  /\ pc = "gate"
  /\ NotApplied("refused")
  /\ UNCHANGED <<durable, cmd, cur, sid, todo, why, queue, history>>

(* Mutation: files that do not exist yet are left out of the snapshot.        *)
TakeSnapshotOfExisting(s) ==
  /\ pc = "gate" /\ snaps[s] = NoSnap
  /\ snaps' = [snaps EXCEPT ![s] =
       [patch |-> cur, files |-> Capture(disk, {f \in FilesOf(cur) : disk[f] # Absent})]]
  /\ sid' = s /\ before' = disk /\ todo' = FilesOf(cur) /\ pc' = "write" /\ why' = "none"
  /\ UNCHANGED <<disk, ledger, torn, clock, offered, cmd, cur, queue, tries, outcome, goal, start>>

TakeSnapshot(s) ==
  /\ pc = "gate" /\ snaps[s] = NoSnap
  /\ snaps' = [snaps EXCEPT ![s] = [patch |-> cur, files |-> Capture(disk, FilesOf(cur))]]
  /\ sid' = s /\ before' = disk /\ todo' = FilesOf(cur) /\ pc' = "write" /\ why' = "none"
  /\ UNCHANGED <<disk, ledger, torn, clock, offered, cmd, cur, queue, tries, outcome, goal, start>>

(* atomic_write_text of a file, or its deletion.                             *)
WriteFile(f) ==
  /\ pc = "write" /\ f \in todo
  /\ disk' = [disk EXCEPT ![f] = Change[cur][f]]
  /\ todo' = todo \ {f}
  /\ UNCHANGED <<snaps, ledger, torn, clock, offered, pc, cmd, cur, sid, why,
                 queue, tries, outcome, history>>

(* Mutation: the snapshot is pruned once the files are written.               *)
WritesDonePruning ==
  /\ pc = "write" /\ todo = {}
  /\ pc' = "check" /\ snaps' = [snaps EXCEPT ![sid] = NoSnap]
  /\ UNCHANGED <<disk, ledger, torn, clock, offered, cmd, cur, sid, todo, why, queue,
                 tries, outcome, history>>

WritesDone ==
  /\ pc = "write" /\ todo = {}
  /\ pc' = "check"
  /\ UNCHANGED <<durable, cmd, cur, sid, todo, why, queue, tries, outcome, history>>

StartRestore(reason) ==
  /\ pc' = "restore" /\ why' = reason /\ todo' = FilesOf(cur)

(* The policy gate or the secrets gate stops the apply at the next file.     *)
WriteBlocked ==
  /\ pc = "write" /\ todo # {}
  /\ StartRestore("blocked")
  /\ UNCHANGED <<durable, cmd, cur, sid, queue, tries, outcome, history>>

(* Writing a file raises; on Windows its target may already be unlinked.     *)
WriteFails(f) ==
  /\ "write" \in Hazards
  /\ pc = "write" /\ f \in todo
  /\ \/ UNCHANGED disk
     \/ "win32" \in Hazards /\ disk' = [disk EXCEPT ![f] = Absent]
  /\ StartRestore("write")
  /\ UNCHANGED <<snaps, ledger, torn, clock, offered, cmd, cur, sid, queue, tries,
                 outcome, history>>

(* Tests and linter: neither says no.                                        *)
ChecksPass ==
  /\ pc = "check"
  /\ pc' = "record"
  /\ UNCHANGED <<durable, cmd, cur, sid, todo, why, queue, tries, outcome, history>>

(* Mutation: a failed check is recorded without restoring the files.          *)
ChecksFailUnrestored ==
  /\ pc = "check"
  /\ pc' = "record" /\ why' = "tests" /\ outcome' = "broken"
  /\ UNCHANGED <<durable, cmd, cur, sid, todo, queue, tries, history>>

ChecksFail ==
  /\ pc = "check"
  /\ StartRestore("tests")
  /\ UNCHANGED <<durable, cmd, cur, sid, queue, tries, outcome, history>>

-----------------------------------------------------------------------------
(* snapshot.restore, for a failed apply and for an undo.                     *)

(* Mutation: files the patch created are not deleted again.                   *)
RestoreFileKeepingNew(f) ==
  /\ pc = "restore" /\ f \in todo
  /\ disk' = [disk EXCEPT ![f] = IF snaps[sid].files[f] = Absent THEN @ ELSE snaps[sid].files[f]]
  /\ todo' = todo \ {f}
  /\ UNCHANGED <<snaps, ledger, torn, clock, offered, pc, cmd, cur, sid, why,
                 queue, tries, outcome, history>>

RestoreFile(f) ==
  /\ pc = "restore" /\ f \in todo
  /\ disk' = [disk EXCEPT ![f] = snaps[sid].files[f]]
  /\ todo' = todo \ {f}
  /\ UNCHANGED <<snaps, ledger, torn, clock, offered, pc, cmd, cur, sid, why,
                 queue, tries, outcome, history>>

(* A failed write returns at once; a failed check and an undo are recorded.  *)
RestoreDone ==
  /\ pc = "restore" /\ todo = {}
  /\ IF why \in {"blocked", "write"}
       THEN NotApplied("rolledBack")
       ELSE /\ pc' = "record"
            /\ outcome' = IF why = "undo" THEN "undone" ELSE "rolledBack"
            /\ UNCHANGED tries
  /\ UNCHANGED <<durable, cmd, cur, sid, todo, why, queue, history>>

(* Mutation: a rollback that failed is reported as done.                      *)
RestoreFailsSilently ==
  /\ "restore" \in Hazards
  /\ pc = "restore" /\ todo # {}
  /\ why = "write" /\ NotApplied("rolledBack")
  /\ UNCHANGED <<durable, cmd, cur, sid, todo, why, queue, history>>

(* restore raises part-way.  After a gate block the applier's handler tries  *)
(* once more; a failed check is recorded as failed all the same; an undo is  *)
(* reported as failed and its record left alone, and p rollback stops.       *)
RestoreFails ==
  /\ "restore" \in Hazards
  /\ pc = "restore" /\ todo # {}
  /\ \/ /\ why = "blocked"
        /\ StartRestore("write") /\ UNCHANGED <<tries, outcome, queue>>
     \/ /\ why = "write"
        /\ NotApplied("broken") /\ UNCHANGED <<todo, why, queue>>
     \/ /\ why = "tests"
        /\ pc' = "record" /\ outcome' = "broken" /\ UNCHANGED <<tries, todo, why, queue>>
     \/ /\ why = "undo"
        /\ pc' = "idle" /\ outcome' = "undoFailed" /\ queue' = {}
        /\ UNCHANGED <<tries, todo, why>>
  /\ UNCHANGED <<durable, cmd, cur, sid, history>>

-----------------------------------------------------------------------------
(* Records.                                                                  *)

(* Mutation: the record is not told which snapshot guards it.                 *)
StampedWithoutSnapshot(p, st) ==
  IF ledger[p].state = "none" THEN ledger
  ELSE [ledger EXCEPT ![p].state = st, ![p].at = clock + 1]

(* _update_patch_state: the first record with the id, if there is one.       *)
Stamped(p, st) ==
  IF ledger[p].state = "none" THEN ledger
  ELSE [ledger EXCEPT ![p] =
          [state |-> st, snap |-> sid,
           at |-> IF st = "applied" THEN clock + 1 ELSE @.at,
           rb |-> IF st = "applied" THEN @.rb ELSE clock + 1]]

(* The record is written, or the write fails and the failure is swallowed.   *)
UpdatePatchState(st) ==
  \/ /\ ~torn /\ ledger' = Stamped(cur, st) /\ clock' = clock + 1
  \/ /\ torn \/ "ledger" \in Hazards
     /\ UNCHANGED <<ledger, clock>>

RecordApplied ==
  /\ pc = "record" /\ why = "none"
  /\ UpdatePatchState("applied")
  /\ Applied
  /\ UNCHANGED <<disk, snaps, torn, offered, cmd, cur, sid, todo, why, queue, history>>

RecordFailed ==
  /\ pc = "record" /\ why = "tests"
  /\ UpdatePatchState("failed")
  /\ NotApplied(outcome)
  /\ UNCHANGED <<disk, snaps, torn, offered, cmd, cur, sid, todo, why, queue, history>>

(* rollback() also marks the brain stale, and a failure there turns the      *)
(* whole undo into a reported failure: the record is not marked undone.      *)
RecordRolledBack ==
  /\ pc = "record" /\ why = "undo"
  /\ UpdatePatchState("rolled_back")
  /\ \/ pc' = "mark" /\ UNCHANGED <<outcome, queue>>
     \/ "ledger" \in Hazards /\ pc' = "idle" /\ outcome' = "undoFailed" /\ queue' = {}
  /\ UNCHANGED <<disk, snaps, torn, offered, cmd, cur, sid, todo, why, tries, history>>

(* _mark_undone, _mark_applied and the two rejects rewrite patches.json in   *)
(* place: the file is truncated, then filled.                                *)
MarkBegin ==
  /\ pc = "mark" /\ ~torn
  /\ torn' = TRUE /\ pc' = "marking"
  /\ UNCHANGED <<disk, snaps, ledger, clock, offered, cmd, cur, sid, todo, why, queue,
                 tries, outcome, history>>

MarkState == CASE cmd = "reject" -> "rejected" [] cmd = "redo" -> "applied" [] OTHER -> "undone"

Marked(p, st) ==
  [ledger EXCEPT ![p] =
     [state |-> st, snap |-> @.snap,
      at |-> IF st = "applied" THEN clock + 1 ELSE @.at,
      rb |-> IF st = "undone" THEN clock + 1 ELSE @.rb]]

(* After a mark, p rollback goes on with its next patch.                     *)
AfterMark ==
  IF cmd = "rollback" /\ queue # {}
    THEN \E q \in Patches : UndoNext(q, queue)
    ELSE pc' = "idle" /\ UNCHANGED <<cur, sid, todo, why, queue, outcome, before>>

MarkEnd ==
  /\ pc = "marking"
  /\ torn' = FALSE /\ clock' = clock + 1
  /\ ledger' = Marked(cur, MarkState)
  /\ AfterMark
  /\ UNCHANGED <<disk, snaps, offered, cmd, tries, goal, start>>

(* The mark fails before it touches the file; the failure is swallowed.      *)
MarkFails ==
  /\ pc = "mark"
  /\ torn \/ "ledger" \in Hazards
  /\ AfterMark
  /\ UNCHANGED <<disk, snaps, ledger, torn, clock, offered, cmd, tries, goal, start>>

-----------------------------------------------------------------------------
(* run_verify_loop, after an apply that succeeded.                           *)

VerifyPasses ==
  /\ pc = "recheck"
  /\ pc' = "idle"
  /\ UNCHANGED <<durable, cmd, cur, sid, todo, why, queue, tries, outcome, history>>

VerifyFails ==
  /\ pc = "recheck"
  /\ NotApplied("gaveUp")
  /\ UNCHANGED <<durable, cmd, cur, sid, todo, why, queue, history>>

-----------------------------------------------------------------------------
(* The process dies.  On Windows a replacement it was making has removed the *)
(* target: a source file, or patches.json, which then reads as empty.        *)
Crash ==
  /\ "crash" \in Hazards /\ pc # "idle"
  /\ pc' = "idle" /\ outcome' = "crashed" /\ queue' = {}
  /\ \/ UNCHANGED <<disk, ledger>>
     \/ /\ "win32" \in Hazards /\ pc = "write"
        /\ \E f \in todo : disk' = [disk EXCEPT ![f] = Absent]
        /\ UNCHANGED ledger
     \/ /\ "win32" \in Hazards /\ ~torn
        /\ pc = "record" \/ (pc = "gate" /\ cmd = "fix")
        /\ ledger' = [p \in Patches |-> NoRecord]
        /\ UNCHANGED disk
  /\ UNCHANGED <<snaps, torn, clock, offered, cmd, cur, sid, todo, why, tries, history>>

Command(p) ==
  \/ StartFix(p) \/ StartVerify(p) \/ QueueFix(p) \/ Accept(p) \/ Reject(p)
  \/ Undo(p) \/ Redo(p) \/ Rollback(p)

Step ==
  \/ ApplyRefused \/ (\E s \in SnapIds : TakeSnapshot(s))
  \/ (\E f \in Files : WriteFile(f)) \/ WritesDone \/ WriteBlocked
  \/ (\E f \in Files : WriteFails(f)) \/ ChecksPass \/ ChecksFail
  \/ (\E f \in Files : RestoreFile(f)) \/ RestoreDone \/ RestoreFails
  \/ RecordApplied \/ RecordFailed \/ RecordRolledBack
  \/ MarkBegin \/ MarkEnd \/ MarkFails \/ VerifyPasses \/ VerifyFails

Next == (\E p \in Patches : Command(p)) \/ Step \/ Crash

Spec == Init /\ [][Next]_vars

(* A command that runs goes on running: every step is local to one process   *)
(* and every external tool it waits for has a timeout.                       *)
FairSpec == Spec /\ WF_vars(Step)
-----------------------------------------------------------------------------
(* Properties.                                                               *)

Restored(tree, s) == \A f \in DOMAIN snaps[s].files : tree[f] = snaps[s].files[f]

(* "Snapshot before every apply" (applier.py:113-122 before 124): whatever an
   apply has changed so far, finished, failed or killed by a crash at any
   point, what it replaced is in the snapshot on disk, so the tree of before
   can still be rebuilt.  Holds under every hazard.                          *)
SnapshotAhead ==
  (cmd \in ApplyCmds) =>
    \A f \in Files : disk[f] # before[f] =>
      /\ sid # NoSnap /\ snaps[sid] # NoSnap
      /\ f \in DOMAIN snaps[sid].files /\ snaps[sid].files[f] = before[f]

(* What ApplyResult says is what happened (the bug LINKAGE_GUIDE.md:90 tells
   of was a failed rollback reported as done): a patch reported applied is in
   the tree as a whole, one reported rolled back or refused left no trace,
   and an undo reported done has put the snapshot back.  Holds under every
   hazard.                                                                   *)
ReportIsTrue ==
  pc = "idle" =>
    /\ outcome = "applied" => \A f \in FilesOf(cur) : disk[f] = Change[cur][f]
    /\ outcome \in {"rolledBack", "refused"} => disk = before
    /\ outcome = "undone" => Restored(disk, sid)

(* An applied record can be undone: its snapshot exists, belongs to the same
   patch and covers the files of the patch (applier.py:517, undo_cmd.py:44).
   Holds under every hazard.                                                 *)
AppliedHasSnapshot ==
  \A p \in AppliedPatches :
    /\ ledger[p].snap \in SnapIds
    /\ snaps[ledger[p].snap] # NoSnap
    /\ snaps[ledger[p].snap].patch = p
    /\ DOMAIN snaps[ledger[p].snap].files = FilesOf(p)

(* The content f has when the applied patches are replayed over the original
   tree in the order of applied_at.                                          *)
Replayed(f) ==
  LET writers == {p \in AppliedPatches : f \in FilesOf(p)}
  IN  IF writers = {} THEN Original[f]
      ELSE Change[CHOOSE p \in writers : Newest(p, writers)][f]

(* As long as undos go newest first and nothing fails half-way, the records
   explain the tree: it is the original with the applied patches replayed,
   whatever mix of fixes, failed fixes, undos, redos and rollbacks led there.*)
TreeIsReplay == pc = "idle" => \A f \in Files : disk[f] = Replayed(f)

(* `p rollback <id>` "restores the snapshot taken before patch_id was applied"
   and undoes all later patches (undo_cmd.py:102-103): when it reports success
   no patch applied since is left in the records and the files of the target
   hold what it replaced.                                                    *)
RollbackReachesTarget ==
  pc = "idle" /\ cmd = "rollback" /\ outcome = "undone" =>
    /\ Restored(disk, ledger[goal].snap)
    /\ \A p \in AppliedPatches : ledger[p].at < ledger[goal].at

(* Every command ends: with an answer or by a crash (retries are bounded, a
   failed restore is not retried for ever).                                  *)
CommandsEnd == pc # "idle" ~> pc = "idle"

(* The records are never emptied or left unreadable by a command's own write:
   "every write is atomic (write to temp, rename to target)" (memory.py:8).  *)
LedgerReadable == pc = "idle" => ~torn

(* A patch the verify loop gives up on is not in the tree: "rolls back on its
   own" (verify_loop.py:168), "not applied ... rolled back" (fix_cmd.py:287).*)
GivingUpRestores == pc = "idle" /\ outcome = "gaveUp" => disk = start

(* PatchState.APPLIED means "written to disk" (patch.py:79): each file of an
   applied patch holds the content of that patch or of one applied later.    *)
AppliedIsOnDisk ==
  pc = "idle" =>
    \A p \in AppliedPatches : \A f \in FilesOf(p) :
      \E q \in AppliedPatches :
        f \in FilesOf(q) /\ ledger[q].at >= ledger[p].at /\ disk[f] = Change[q][f]

(* PatchState.FAILED means "applied but tests failed, rolled back"
   (patch.py:80): when a command leaves its patch failed, the tree is as the
   command found it.                                                         *)
FailedIsRolledBack ==
  pc = "idle" /\ cmd \in ApplyCmds /\ cur # NoPatch =>
    (ledger[cur].state = "failed" => disk = before)

(* "Snapshot before every apply, undo anytime" (README.md:113): while nothing
   runs, a tree that differs from the original has an applied patch to undo. *)
ChangedIsUndoable == pc = "idle" /\ disk # Original => AppliedPatches # {}

-----------------------------------------------------------------------------
(* The pipeline as AtomicTree: the tree of the user is the disk between the  *)
(* commands and what it was before while an apply or an undo is under way;   *)
(* what a patch replaced is the snapshot of its applied record.  Patches     *)
(* change the tree as wholes ("patches applied atomically",                  *)
(* docs/ARCHITECTURE.md:131) and every one in it can be taken out again.     *)

InFlight == pc \in {"gate", "write", "check", "restore", "record"}

Promise == INSTANCE AtomicTree WITH
  NotSaved <- NoSnap,
  tree <- IF InFlight THEN before ELSE disk,
  saved <- [p \in Patches |-> IF ledger[p].state = "applied"
                                THEN snaps[ledger[p].snap].files ELSE NoSnap]

ImplementsAtomicTree == Promise!AtomicSpec
=============================================================================
