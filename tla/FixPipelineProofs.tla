-------------------------- MODULE FixPipelineProofs --------------------------
(***************************************************************************)
(* Proofs about FixPipeline, for every set of files, patches and snapshot  *)
(* ids.  Part 1: its types, and that an applied patch can be undone, under *)
(* every set of hazards.  Part 2: the snapshot is ahead of every change    *)
(* and every answer is true, under every set of hazards.  Part 3: when     *)
(* nothing but a write can fail, the user's tree changes by whole patches. *)
(* Part 4: as long as records are written, a rollback that reports success *)
(* has reached its target.  Part 5: when nothing but a write can fail and  *)
(* patches are undone newest first, the records explain the tree.          *)
(***************************************************************************)
EXTENDS FixPipeline, TLAPS

(***************************************************************************)
(* Part 1. Types and guards.                                               *)
(***************************************************************************)
(* A snapshot of p is a record of p's files, and is not NoSnap.              *)
LEMMA SnapshotFacts ==
  ASSUME NEW s \in Snapshot
  PROVE  /\ s # NoSnap /\ s.patch \in Patches
         /\ s.files \in [FilesOf(s.patch) -> Value]
         /\ s = [patch |-> s.patch, files |-> s.files]
  BY PipelineAssumption DEF Snapshot, SnapshotOf

LEMMA SnapshotMade ==
  ASSUME NEW p \in Patches, NEW g \in [FilesOf(p) -> Value]
  PROVE  [patch |-> p, files |-> g] \in Snapshot
  BY DEF Snapshot, SnapshotOf

LEMMA CaptureType ==
  ASSUME NEW p \in Patches, NEW t \in Tree
  PROVE  Capture(t, FilesOf(p)) \in [FilesOf(p) -> Value]
  BY FixAssumption DEF Capture, Tree

LEMMA FilesOfPatch ==
  ASSUME NEW p \in Patches
  PROVE  /\ FilesOf(p) \subseteq Files
         /\ \A f \in FilesOf(p) : Change[p][f] \in Value
  BY FixAssumption

-----------------------------------------------------------------------------
(* Which command a step belongs to, and what it works on.                    *)
Shape ==
  /\ pc # "idle" => cur \in Patches
  /\ pc = "gate" => cmd \in ApplyCmds
  /\ pc \in {"write", "check"} =>
        cmd \in ApplyCmds /\ why = "none" /\ sid \in SnapIds /\ snaps[sid] # NoSnap
  /\ pc \in {"restore", "record"} => sid \in SnapIds /\ snaps[sid] # NoSnap
  /\ pc \in {"restore", "record"} /\ why # "undo" => cmd \in ApplyCmds
  /\ pc \in {"restore", "record"} /\ why = "undo" => cmd \in UndoCmds
  /\ pc \in {"write", "check", "restore"} => todo \subseteq FilesOf(cur)
  /\ pc = "recheck" => cmd = "verify"
  /\ queue # {} => cmd = "rollback" /\ pc \in {"restore", "record", "mark", "marking"}
  /\ pc \in {"mark", "marking"} => cmd \in UndoCmds \cup {"redo", "reject"}
  /\ pc \in {"write", "check", "restore", "record"} =>
        snaps[sid].patch = cur /\ DOMAIN snaps[sid].files = FilesOf(cur)

(* A record that an undo will use, or that claims to be applied, is guarded. *)
GoodRecord(p) ==
  /\ ledger[p].snap \in SnapIds
  /\ snaps[ledger[p].snap] # NoSnap
  /\ snaps[ledger[p].snap].patch = p
  /\ DOMAIN snaps[ledger[p].snap].files = FilesOf(p)

Guards ==
  /\ \A p \in Patches : ledger[p].state \in {"applied", "rolled_back", "undone"} => GoodRecord(p)
  /\ cmd \in UndoCmds \cup {"redo"} /\ pc # "idle" => GoodRecord(cur)
  /\ \A q \in queue : GoodRecord(q)

Sound == TypeOK /\ Shape /\ Guards

(* The two ways patches.json is rewritten keep every record well-formed.     *)
LEMMA StampedType ==
  ASSUME TypeOK, cur \in Patches, NEW st \in States
  PROVE  Stamped(cur, st) \in [Patches -> Record]
<1> DEFINE r == [state |-> st, snap |-> sid,
                 at |-> IF st = "applied" THEN clock + 1 ELSE ledger[cur].at,
                 rb |-> IF st = "applied" THEN ledger[cur].rb ELSE clock + 1]
<1>1. r \in Record
  BY DEF TypeOK, Record
<1> QED
  BY <1>1 DEF Stamped, TypeOK

LEMMA MarkedType ==
  ASSUME TypeOK, cur \in Patches, NEW st \in States
  PROVE  Marked(cur, st) \in [Patches -> Record]
<1> DEFINE m == [state |-> st, snap |-> ledger[cur].snap,
                 at |-> IF st = "applied" THEN clock + 1 ELSE ledger[cur].at,
                 rb |-> IF st = "undone" THEN clock + 1 ELSE ledger[cur].rb]
<1>1. m \in Record
  BY DEF TypeOK, Record
<1> QED
  BY <1>1 DEF Marked, TypeOK

(* Saving a new record changes no other one, and that one to a fresh record. *)
LEMMA SavedRecord ==
  ASSUME TypeOK, NEW p \in Patches, NEW st, SavePatch(p, st)
  PROVE  /\ \A q \in Patches : q # p => ledger'[q] = ledger[q]
         /\ ledger'[p] = ledger[p] \/ ledger'[p].state = st
  BY DEF SavePatch, TypeOK, NoRecord

(* A stamp changes the state and the snapshot of one recorded patch.         *)
LEMMA StampedFacts ==
  ASSUME TypeOK, cur \in Patches, NEW st \in States
  PROVE  /\ \A q \in Patches : q # cur => Stamped(cur, st)[q] = ledger[q]
         /\ \/ Stamped(cur, st)[cur] = ledger[cur]
            \/ Stamped(cur, st)[cur].state = st /\ Stamped(cur, st)[cur].snap = sid
  BY DEF TypeOK, Stamped

(* A mark changes the state of one patch and leaves every snapshot alone.    *)
LEMMA MarkedFacts ==
  ASSUME TypeOK, cur \in Patches, NEW st \in States
  PROVE  /\ \A q \in Patches : q # cur => Marked(cur, st)[q] = ledger[q]
         /\ Marked(cur, st)[cur].state = st
         /\ Marked(cur, st)[cur].snap = ledger[cur].snap
  BY DEF TypeOK, Marked, Record

(* What the steps of the pipeline do to patches.json.                        *)
LEMMA RecordFacts ==
  ASSUME TypeOK, cur \in Patches, NEW st \in States, UpdatePatchState(st)
  PROVE  /\ \A q \in Patches : q # cur => ledger'[q] = ledger[q]
         /\ \/ ledger'[cur] = ledger[cur]
            \/ ledger'[cur].state = st /\ ledger'[cur].snap = sid
  BY StampedFacts DEF UpdatePatchState

LEMMA MarkFacts ==
  ASSUME TypeOK, cur \in Patches, MarkEnd
  PROVE  /\ \A q \in Patches : q # cur => ledger'[q] = ledger[q]
         /\ ledger'[cur].state = MarkState /\ ledger'[cur].snap = ledger[cur].snap
<1>1. MarkState \in States
  BY DEF MarkState, States
<1> QED
  BY <1>1, MarkedFacts DEF MarkEnd

LEMMA SoundInit == Init => Sound
<1> SUFFICES ASSUME Init PROVE Sound
  OBVIOUS
<1> USE DEF Init, NoRecord
<1>1. TypeOK
  BY FixAssumption, PipelineAssumption
  DEF TypeOK, Record, States, Steps, Commands, Reasons, Outcomes
<1>2. Shape
  BY DEF Shape
<1>3. Guards
  BY DEF Guards
<1> QED
  BY <1>1, <1>2, <1>3 DEF Sound

LEMMA TypeStep == Sound /\ [Next]_vars => TypeOK'
<1> SUFFICES ASSUME Sound, [Next]_vars PROVE TypeOK'
  OBVIOUS
<1> USE FixAssumption, PipelineAssumption, SnapshotFacts, SnapshotMade, CaptureType, FilesOfPatch
    DEF Sound, TypeOK, Shape, Guards, GoodRecord, Tree, Value, Record, NoRecord, States, Steps,
       Commands,
        Reasons, Outcomes, ApplyCmds, UndoCmds, durable, call, history
<1>1. ASSUME NEW p \in Patches, StartFix(p) PROVE TypeOK'
  BY <1>1 DEF StartFix, Begin, SavePatch
<1>2. ASSUME NEW p \in Patches, StartVerify(p) PROVE TypeOK'
  BY <1>2 DEF StartVerify, Begin
<1>3. ASSUME NEW p \in Patches, QueueFix(p) PROVE TypeOK'
  BY <1>3 DEF QueueFix, Begin, SavePatch
<1>4. ASSUME NEW p \in Patches, Accept(p) PROVE TypeOK'
  BY <1>4 DEF Accept, Begin
<1>5. ASSUME NEW p \in Patches, Reject(p) PROVE TypeOK'
  BY <1>5 DEF Reject, Begin
<1>6. ASSUME NEW p \in Patches, Undo(p) PROVE TypeOK'
  BY <1>6 DEF Undo, Restoring, AppliedPatches
<1>7. ASSUME NEW p \in Patches, Redo(p) PROVE TypeOK'
  BY <1>7 DEF Redo, Begin
<1>8. ASSUME NEW p \in Patches, Rollback(p) PROVE TypeOK'
  BY <1>8 DEF Rollback, UndoNext, Restoring, Newest, AppliedPatches
<1>9. CASE ApplyRefused
  BY <1>9 DEF ApplyRefused, NotApplied
<1>10. ASSUME NEW s \in SnapIds, TakeSnapshot(s) PROVE TypeOK'
  BY <1>10 DEF TakeSnapshot
<1>11. ASSUME NEW f \in Files, WriteFile(f) PROVE TypeOK'
  BY <1>11 DEF WriteFile
<1>12. CASE WritesDone
  BY <1>12 DEF WritesDone
<1>13. CASE WriteBlocked
  BY <1>13 DEF WriteBlocked, StartRestore
<1>14. ASSUME NEW f \in Files, WriteFails(f) PROVE TypeOK'
  BY <1>14 DEF WriteFails, StartRestore
<1>15. CASE ChecksPass
  BY <1>15 DEF ChecksPass
<1>16. CASE ChecksFail
  BY <1>16 DEF ChecksFail, StartRestore
<1>17. ASSUME NEW f \in Files, RestoreFile(f) PROVE TypeOK'
  BY <1>17 DEF RestoreFile
<1>18. CASE RestoreDone
  BY <1>18 DEF RestoreDone, NotApplied
<1>19. CASE RestoreFails
  BY <1>19 DEF RestoreFails, StartRestore, NotApplied
<1>20. CASE RecordApplied
  BY <1>20, StampedType DEF RecordApplied, UpdatePatchState, Applied
<1>21. CASE RecordFailed
  BY <1>21, StampedType DEF RecordFailed, UpdatePatchState, NotApplied
<1>22. CASE RecordRolledBack
  BY <1>22, StampedType DEF RecordRolledBack, UpdatePatchState
<1>23. CASE MarkBegin
  BY <1>23 DEF MarkBegin
<1>24. CASE MarkEnd
  <2>1. ledger' \in [Patches -> Record]
    BY <1>24, MarkedType DEF MarkEnd, MarkState
  <2>2. AfterMark
    BY <1>24 DEF MarkEnd
  <2>3. /\ cur' \in Patches \cup {NoPatch} /\ sid' \in SnapIds \cup {NoSnap}
        /\ todo' \subseteq Files /\ why' \in Reasons /\ queue' \subseteq Patches
        /\ outcome' \in Outcomes /\ before' \in Tree /\ pc' \in Steps
    BY <2>2 DEF AfterMark, UndoNext, Restoring, Newest
  <2>4. /\ torn' = FALSE /\ clock' = clock + 1 /\ disk' = disk /\ snaps' = snaps
        /\ offered' = offered /\ cmd' = cmd /\ tries' = tries /\ goal' = goal /\ start' = start
    BY <1>24, Zenon DEF MarkEnd
  <2>5. /\ disk' \in Tree /\ start' \in Tree /\ goal' \in Patches \cup {NoPatch}
        /\ snaps' \in [SnapIds -> Snapshot \cup {NoSnap}] /\ offered' \subseteq Patches
    BY <2>4
  <2>6. torn' \in BOOLEAN
    BY <2>4
  <2>7. clock' \in Nat /\ tries' \in Nat
    BY <2>4
  <2>8. cmd' \in Commands
    BY <2>4
  <2> QED
    BY <2>1, <2>3, <2>5, <2>6, <2>7, <2>8 DEF TypeOK
<1>25. CASE MarkFails
  BY <1>25 DEF MarkFails, AfterMark, UndoNext, Restoring, Newest
<1>26. CASE VerifyPasses
  BY <1>26 DEF VerifyPasses
<1>27. CASE VerifyFails
  BY <1>27 DEF VerifyFails, NotApplied
<1>28. CASE Crash
  BY <1>28 DEF Crash
<1>29. CASE UNCHANGED vars
  BY <1>29 DEF vars
<1> QED
  BY <1>1, <1>2, <1>3, <1>4, <1>5, <1>6, <1>7, <1>8, <1>9, <1>10, <1>11, <1>12, <1>13, <1>14,
     <1>15, <1>16, <1>17, <1>18, <1>19, <1>20, <1>21, <1>22, <1>23, <1>24, <1>25, <1>26, <1>27,
     <1>28, <1>29 DEF Next, Command, Step

LEMMA ShapeStep == Sound /\ [Next]_vars => Shape'
<1> SUFFICES ASSUME Sound, [Next]_vars PROVE Shape'
  OBVIOUS
<1> USE FixAssumption, PipelineAssumption, SnapshotFacts, FilesOfPatch
    DEF Sound, TypeOK, Shape, Guards, GoodRecord, Steps, Commands, Reasons, ApplyCmds, UndoCmds,
        durable, call, history
<1>1. ASSUME NEW p \in Patches, StartFix(p) PROVE Shape'
  BY <1>1 DEF StartFix, Begin, SavePatch
<1>2. ASSUME NEW p \in Patches, StartVerify(p) PROVE Shape'
  BY <1>2 DEF StartVerify, Begin
<1>3. ASSUME NEW p \in Patches, QueueFix(p) PROVE Shape'
  BY <1>3 DEF QueueFix, Begin, SavePatch
<1>4. ASSUME NEW p \in Patches, Accept(p) PROVE Shape'
  BY <1>4 DEF Accept, Begin
<1>5. ASSUME NEW p \in Patches, Reject(p) PROVE Shape'
  BY <1>5 DEF Reject, Begin
<1>6. ASSUME NEW p \in Patches, Undo(p) PROVE Shape'
  BY <1>6 DEF Undo, Restoring, AppliedPatches
<1>7. ASSUME NEW p \in Patches, Redo(p) PROVE Shape'
  BY <1>7 DEF Redo, Begin
<1>8. ASSUME NEW p \in Patches, Rollback(p) PROVE Shape'
  BY <1>8 DEF Rollback, UndoNext, Restoring, Newest, AppliedPatches
<1>9. CASE ApplyRefused
  BY <1>9 DEF ApplyRefused, NotApplied
<1>10. ASSUME NEW s \in SnapIds, TakeSnapshot(s) PROVE Shape'
  <2>1. cur \in Patches /\ cmd \in ApplyCmds
    BY <1>10 DEF TakeSnapshot
  <2>2. Capture(disk, FilesOf(cur)) \in [FilesOf(cur) -> Value]
    BY <2>1, CaptureType
  <2>3. [patch |-> cur, files |-> Capture(disk, FilesOf(cur))] \in Snapshot
    BY <2>1, <2>2, SnapshotMade
  <2>4. /\ sid' = s /\ snaps'[s] # NoSnap
        /\ snaps'[s].patch = cur /\ DOMAIN snaps'[s].files = FilesOf(cur)
    BY <1>10, <2>2, <2>3 DEF TakeSnapshot
  <2> QED
    BY <1>10, <2>1, <2>4 DEF TakeSnapshot
<1>11. ASSUME NEW f \in Files, WriteFile(f) PROVE Shape'
  BY <1>11 DEF WriteFile
<1>12. CASE WritesDone
  BY <1>12 DEF WritesDone
<1>13. CASE WriteBlocked
  BY <1>13 DEF WriteBlocked, StartRestore
<1>14. ASSUME NEW f \in Files, WriteFails(f) PROVE Shape'
  BY <1>14 DEF WriteFails, StartRestore
<1>15. CASE ChecksPass
  BY <1>15 DEF ChecksPass
<1>16. CASE ChecksFail
  BY <1>16 DEF ChecksFail, StartRestore
<1>17. ASSUME NEW f \in Files, RestoreFile(f) PROVE Shape'
  BY <1>17 DEF RestoreFile
<1>18. CASE RestoreDone
  BY <1>18 DEF RestoreDone, NotApplied
<1>19. CASE RestoreFails
  BY <1>19 DEF RestoreFails, StartRestore, NotApplied
<1>20. CASE RecordApplied
  BY <1>20 DEF RecordApplied, UpdatePatchState, Applied
<1>21. CASE RecordFailed
  BY <1>21 DEF RecordFailed, UpdatePatchState, NotApplied
<1>22. CASE RecordRolledBack
  BY <1>22 DEF RecordRolledBack, UpdatePatchState
<1>23. CASE MarkBegin
  BY <1>23 DEF MarkBegin
<1>24. CASE MarkEnd
  BY <1>24 DEF MarkEnd, MarkState, AfterMark, UndoNext, Restoring, Newest
<1>25. CASE MarkFails
  BY <1>25 DEF MarkFails, AfterMark, UndoNext, Restoring, Newest
<1>26. CASE VerifyPasses
  BY <1>26 DEF VerifyPasses
<1>27. CASE VerifyFails
  BY <1>27 DEF VerifyFails, NotApplied
<1>28. CASE Crash
  BY <1>28 DEF Crash
<1>29. CASE UNCHANGED vars
  BY <1>29 DEF vars
<1> QED
  BY <1>1, <1>2, <1>3, <1>4, <1>5, <1>6, <1>7, <1>8, <1>9, <1>10, <1>11, <1>12, <1>13, <1>14,
     <1>15, <1>16, <1>17, <1>18, <1>19, <1>20, <1>21, <1>22, <1>23, <1>24, <1>25, <1>26, <1>27,
     <1>28, <1>29 DEF Next, Command, Step

LEMMA GuardsStep == Sound /\ [Next]_vars => Guards'
<1> SUFFICES ASSUME Sound, [Next]_vars PROVE Guards'
  OBVIOUS
<1> USE FixAssumption, PipelineAssumption, SnapshotFacts, FilesOfPatch
    DEF Sound, TypeOK, Shape, Guards, GoodRecord, Record, NoRecord, Steps, Commands, Reasons,
       ApplyCmds, UndoCmds,
        durable, call, history
<1>1. ASSUME NEW p \in Patches, StartFix(p) PROVE Guards'
  <2>1. /\ \A q \in Patches : q # p => ledger'[q] = ledger[q]
        /\ ledger'[p] = ledger[p] \/ ledger'[p].state = "proposed"
    BY <1>1, SavedRecord DEF StartFix
  <2>2. /\ snaps' = snaps /\ queue = {} /\ queue' = {}
        /\ cmd' \notin UndoCmds \cup {"redo"}
    BY <1>1 DEF StartFix, Begin
  <2>3. \A q \in Patches : GoodRecord(q) => q = p \/ GoodRecord(q)'
    BY <2>1, <2>2
  <2> QED
    BY <2>1, <2>2, <2>3
<1>2. ASSUME NEW p \in Patches, StartVerify(p) PROVE Guards'
  BY <1>2 DEF StartVerify, Begin
<1>3. ASSUME NEW p \in Patches, QueueFix(p) PROVE Guards'
  <2>1. /\ \A q \in Patches : q # p => ledger'[q] = ledger[q]
        /\ ledger'[p] = ledger[p] \/ ledger'[p].state = "pending"
    BY <1>3, SavedRecord DEF QueueFix
  <2>2. /\ snaps' = snaps /\ queue = {} /\ queue' = {}
        /\ cmd' \notin UndoCmds \cup {"redo"}
    BY <1>3 DEF QueueFix, Begin
  <2>3. \A q \in Patches : GoodRecord(q) => q = p \/ GoodRecord(q)'
    BY <2>1, <2>2
  <2> QED
    BY <2>1, <2>2, <2>3
<1>4. ASSUME NEW p \in Patches, Accept(p) PROVE Guards'
  BY <1>4 DEF Accept, Begin
<1>5. ASSUME NEW p \in Patches, Reject(p) PROVE Guards'
  BY <1>5 DEF Reject, Begin
<1>6. ASSUME NEW p \in Patches, Undo(p) PROVE Guards'
  BY <1>6 DEF Undo, Restoring, AppliedPatches
<1>7. ASSUME NEW p \in Patches, Redo(p) PROVE Guards'
  BY <1>7 DEF Redo, Begin
<1>8. ASSUME NEW p \in Patches, Rollback(p) PROVE Guards'
  BY <1>8 DEF Rollback, UndoNext, Restoring, Newest, AppliedPatches
<1>9. CASE ApplyRefused
  BY <1>9 DEF ApplyRefused, NotApplied
<1>10. ASSUME NEW s \in SnapIds, TakeSnapshot(s) PROVE Guards'
  BY <1>10 DEF TakeSnapshot, Capture
<1>11. ASSUME NEW f \in Files, WriteFile(f) PROVE Guards'
  BY <1>11 DEF WriteFile
<1>12. CASE WritesDone
  BY <1>12 DEF WritesDone
<1>13. CASE WriteBlocked
  BY <1>13 DEF WriteBlocked, StartRestore
<1>14. ASSUME NEW f \in Files, WriteFails(f) PROVE Guards'
  BY <1>14 DEF WriteFails, StartRestore
<1>15. CASE ChecksPass
  BY <1>15 DEF ChecksPass
<1>16. CASE ChecksFail
  BY <1>16 DEF ChecksFail, StartRestore
<1>17. ASSUME NEW f \in Files, RestoreFile(f) PROVE Guards'
  BY <1>17 DEF RestoreFile
<1>18. CASE RestoreDone
  BY <1>18 DEF RestoreDone, NotApplied
<1>19. CASE RestoreFails
  BY <1>19 DEF RestoreFails, StartRestore, NotApplied
<1>20. CASE RecordApplied
  <2>1. /\ \A q \in Patches : q # cur => ledger'[q] = ledger[q]
        /\ \/ ledger'[cur] = ledger[cur]
           \/ ledger'[cur].state = "applied" /\ ledger'[cur].snap = sid
    <3>1. TypeOK /\ cur \in Patches /\ "applied" \in States /\ UpdatePatchState("applied")
      BY <1>20 DEF RecordApplied, States
    <3> HIDE DEF TypeOK
    <3> QED
      BY <3>1, RecordFacts
  <2>2. \A q \in Patches : GoodRecord(q) => GoodRecord(q)'
    BY <1>20, <2>1 DEF RecordApplied
  <2>3. \A q \in Patches : ledger'[q].state \in {"applied", "rolled_back", "undone"} => GoodRecord(q)'
    BY <1>20, <2>1, <2>2 DEF RecordApplied
  <2> QED
    BY <1>20, <2>2, <2>3 DEF RecordApplied, Applied
<1>21. CASE RecordFailed
  <2>1. /\ \A q \in Patches : q # cur => ledger'[q] = ledger[q]
        /\ \/ ledger'[cur] = ledger[cur]
           \/ ledger'[cur].state = "failed" /\ ledger'[cur].snap = sid
    <3>1. TypeOK /\ cur \in Patches /\ "failed" \in States /\ UpdatePatchState("failed")
      BY <1>21 DEF RecordFailed, States
    <3> HIDE DEF TypeOK
    <3> QED
      BY <3>1, RecordFacts
  <2>2. \A q \in Patches : GoodRecord(q) => GoodRecord(q)'
    BY <1>21, <2>1 DEF RecordFailed
  <2>3. \A q \in Patches : ledger'[q].state \in {"applied", "rolled_back", "undone"} => GoodRecord(q)'
    BY <1>21, <2>1, <2>2 DEF RecordFailed
  <2> QED
    BY <1>21, <2>2, <2>3 DEF RecordFailed, NotApplied
<1>22. CASE RecordRolledBack
  <2>1. /\ \A q \in Patches : q # cur => ledger'[q] = ledger[q]
        /\ \/ ledger'[cur] = ledger[cur]
           \/ ledger'[cur].state = "rolled_back" /\ ledger'[cur].snap = sid
    <3>1. TypeOK /\ cur \in Patches /\ "rolled_back" \in States /\ UpdatePatchState("rolled_back")
      BY <1>22 DEF RecordRolledBack, States
    <3> HIDE DEF TypeOK
    <3> QED
      BY <3>1, RecordFacts
  <2>2. \A q \in Patches : GoodRecord(q) => GoodRecord(q)'
    BY <1>22, <2>1 DEF RecordRolledBack
  <2>3. \A q \in Patches : ledger'[q].state \in {"applied", "rolled_back", "undone"} => GoodRecord(q)'
    BY <1>22, <2>1, <2>2 DEF RecordRolledBack
  <2> QED
    BY <1>22, <2>2, <2>3 DEF RecordRolledBack
<1>23. CASE MarkBegin
  BY <1>23 DEF MarkBegin
<1>24. CASE MarkEnd
  <2>1. /\ \A q \in Patches : q # cur => ledger'[q] = ledger[q]
        /\ ledger'[cur].state = MarkState /\ ledger'[cur].snap = ledger[cur].snap
    <3>1. TypeOK /\ cur \in Patches
      BY <1>24 DEF MarkEnd
    <3> HIDE DEF TypeOK
    <3> QED
      BY <1>24, <3>1, MarkFacts
  <2>2. \A p \in Patches : GoodRecord(p) => GoodRecord(p)'
    BY <1>24, <2>1 DEF MarkEnd
  <2>3. \A p \in Patches : ledger'[p].state \in {"applied", "rolled_back", "undone"} => GoodRecord(p)'
    BY <1>24, <2>1, <2>2 DEF MarkEnd, MarkState
  <2> QED
    BY <1>24, <2>2, <2>3 DEF MarkEnd, AfterMark, UndoNext, Restoring, Newest
<1>25. CASE MarkFails
  BY <1>25 DEF MarkFails, AfterMark, UndoNext, Restoring, Newest
<1>26. CASE VerifyPasses
  BY <1>26 DEF VerifyPasses
<1>27. CASE VerifyFails
  BY <1>27 DEF VerifyFails, NotApplied
<1>28. CASE Crash
  BY <1>28 DEF Crash
<1>29. CASE UNCHANGED vars
  BY <1>29 DEF vars
<1> QED
  BY <1>1, <1>2, <1>3, <1>4, <1>5, <1>6, <1>7, <1>8, <1>9, <1>10, <1>11, <1>12, <1>13, <1>14,
     <1>15, <1>16, <1>17, <1>18, <1>19, <1>20, <1>21, <1>22, <1>23, <1>24, <1>25, <1>26, <1>27,
     <1>28, <1>29 DEF Next, Command, Step

LEMMA SoundStep == Sound /\ [Next]_vars => Sound'
  BY TypeStep, ShapeStep, GuardsStep DEF Sound

(* The inductive invariant holds in every state of every run.                *)
THEOREM SoundAlways == Spec => []Sound
  BY SoundInit, SoundStep, PTL DEF Spec

(* Every variable keeps its type.                                            *)
THEOREM TypeCorrect == Spec => []TypeOK
<1>1. Sound => TypeOK
  BY DEF Sound
<1> QED
  BY <1>1, SoundAlways, PTL

(* An applied record always has a snapshot of its own that covers its files, *)
(* under every hazard: what UpdatePatchState writes, p undo can restore.     *)
THEOREM AppliedGuarded == Spec => []AppliedHasSnapshot
<1>1. Sound => AppliedHasSnapshot
  BY DEF Sound, Guards, GoodRecord, AppliedHasSnapshot, AppliedPatches
<1> QED
  BY <1>1, SoundAlways, PTL

-----------------------------------------------------------------------------
(***************************************************************************)
(* Part 2. Answers: the files, followed through an apply and an undo.      *)
(***************************************************************************)
(* The snapshot an apply took holds what it may have replaced.               *)
Covered(f) ==
  /\ sid # NoSnap /\ snaps[sid] # NoSnap
  /\ f \in DOMAIN snaps[sid].files /\ snaps[sid].files[f] = before[f]

Ahead ==
  /\ SnapshotAhead
  /\ cmd \in ApplyCmds /\ pc \in {"write", "check", "restore"} =>
       \A f \in FilesOf(cur) : Covered(f)

(* How far the files are, at each step on the way to an answer.              *)
Written(S) == \A f \in S : disk[f] = Change[cur][f]
PutBack(S) == \A f \in S : disk[f] = snaps[sid].files[f]

Answers ==
  /\ pc \in {"gate", "write", "check", "restore"} => outcome = "none"
  /\ pc = "record" /\ why = "tests" => outcome \in {"rolledBack", "broken"}
  /\ pc = "record" /\ why = "undo" => outcome = "undone"
  /\ pc \in {"mark", "marking", "recheck"} => outcome \in {"applied", "undone", "rejected"}
  /\ pc = "restore" => why # "none"
  /\ pc = "record" => why \in {"none", "tests", "undo"}

Progress ==
  /\ pc = "gate" /\ cmd # "verify" => disk = before
  /\ cmd \in ApplyCmds /\ pc \in {"write", "check", "restore"} =>
       \A f \in Files \ FilesOf(cur) : disk[f] = before[f]
  /\ pc = "write" => Written(FilesOf(cur) \ todo)
  /\ pc = "check" => Written(FilesOf(cur))
  /\ pc = "record" /\ why = "none" => Written(FilesOf(cur))
  /\ pc \in {"mark", "marking", "recheck", "idle"} /\ outcome = "applied" => Written(FilesOf(cur))
  /\ pc = "restore" => PutBack(FilesOf(cur) \ todo)
  /\ pc \in {"record", "idle"} /\ outcome \in {"rolledBack", "refused"} => disk = before
  /\ outcome = "undone" => Restored(disk, sid)

Honest == Ahead /\ Answers /\ Progress

LEMMA HonestInit == Init => Honest
  BY DEF Init, Honest, Ahead, Answers, Progress, Covered, SnapshotAhead, ApplyCmds

LEMMA AheadStep == Sound /\ Honest /\ [Next]_vars => Ahead'
<1> SUFFICES ASSUME Sound, Honest, [Next]_vars PROVE Ahead'
  OBVIOUS
<1> USE FixAssumption, PipelineAssumption, SnapshotFacts, FilesOfPatch
    DEF Sound, TypeOK, Shape, Honest, Ahead, Answers, Progress, Covered, SnapshotAhead, Written,
       PutBack, Restored,
        Tree, Steps, Commands, Reasons, Outcomes, ApplyCmds, UndoCmds, durable, call, history
<1>1. ASSUME NEW p \in Patches, StartFix(p) PROVE Ahead'
  BY <1>1 DEF StartFix, Begin, SavePatch
<1>2. ASSUME NEW p \in Patches, StartVerify(p) PROVE Ahead'
  BY <1>2 DEF StartVerify, Begin
<1>3. ASSUME NEW p \in Patches, QueueFix(p) PROVE Ahead'
  BY <1>3 DEF QueueFix, Begin, SavePatch
<1>4. ASSUME NEW p \in Patches, Accept(p) PROVE Ahead'
  BY <1>4 DEF Accept, Begin
<1>5. ASSUME NEW p \in Patches, Reject(p) PROVE Ahead'
  BY <1>5 DEF Reject, Begin
<1>6. ASSUME NEW p \in Patches, Undo(p) PROVE Ahead'
  BY <1>6 DEF Undo, Restoring, AppliedPatches
<1>7. ASSUME NEW p \in Patches, Redo(p) PROVE Ahead'
  BY <1>7 DEF Redo, Begin
<1>8. ASSUME NEW p \in Patches, Rollback(p) PROVE Ahead'
  BY <1>8 DEF Rollback, UndoNext, Restoring, Newest, AppliedPatches
<1>9. CASE ApplyRefused
  BY <1>9 DEF ApplyRefused, NotApplied
<1>10. ASSUME NEW s \in SnapIds, TakeSnapshot(s) PROVE Ahead'
  <2>1. cur \in Patches /\ disk \in Tree /\ snaps \in [SnapIds -> Snapshot \cup {NoSnap}]
    BY <1>10 DEF TakeSnapshot
  <2>2. Capture(disk, FilesOf(cur)) \in [FilesOf(cur) -> Value]
    BY <2>1, CaptureType
  <2>3. [patch |-> cur, files |-> Capture(disk, FilesOf(cur))] # NoSnap
    BY <2>1, <2>2, SnapshotMade
  <2>4. /\ sid' = s /\ sid' # NoSnap /\ snaps'[s] # NoSnap
        /\ snaps'[s].files = Capture(disk, FilesOf(cur))
    BY <1>10, <2>1, <2>3 DEF TakeSnapshot
  <2>5. \A f \in FilesOf(cur) : Covered(f)'
    BY <1>10, <2>2, <2>4 DEF TakeSnapshot, Capture
  <2> QED
    BY <1>10, <2>5 DEF TakeSnapshot
<1>11. ASSUME NEW f \in Files, WriteFile(f) PROVE Ahead'
  BY <1>11 DEF WriteFile
<1>12. CASE WritesDone
  BY <1>12 DEF WritesDone
<1>13. CASE WriteBlocked
  BY <1>13 DEF WriteBlocked, StartRestore
<1>14. ASSUME NEW f \in Files, WriteFails(f) PROVE Ahead'
  BY <1>14 DEF WriteFails, StartRestore
<1>15. CASE ChecksPass
  BY <1>15 DEF ChecksPass
<1>16. CASE ChecksFail
  BY <1>16 DEF ChecksFail, StartRestore
<1>17. ASSUME NEW f \in Files, RestoreFile(f) PROVE Ahead'
  BY <1>17 DEF RestoreFile
<1>18. CASE RestoreDone
  BY <1>18 DEF RestoreDone, NotApplied
<1>19. CASE RestoreFails
  BY <1>19 DEF RestoreFails, StartRestore, NotApplied
<1>20. CASE RecordApplied
  BY <1>20 DEF RecordApplied, UpdatePatchState, Applied
<1>21. CASE RecordFailed
  BY <1>21 DEF RecordFailed, UpdatePatchState, NotApplied
<1>22. CASE RecordRolledBack
  BY <1>22 DEF RecordRolledBack, UpdatePatchState
<1>23. CASE MarkBegin
  BY <1>23 DEF MarkBegin
<1>24. CASE MarkEnd
  BY <1>24 DEF MarkEnd, MarkState, AfterMark, UndoNext, Restoring, Newest
<1>25. CASE MarkFails
  BY <1>25 DEF MarkFails, AfterMark, UndoNext, Restoring, Newest
<1>26. CASE VerifyPasses
  BY <1>26 DEF VerifyPasses
<1>27. CASE VerifyFails
  BY <1>27 DEF VerifyFails, NotApplied
<1>28. CASE Crash
  BY <1>28 DEF Crash
<1>29. CASE UNCHANGED vars
  BY <1>29 DEF vars
<1> QED
  BY <1>1, <1>2, <1>3, <1>4, <1>5, <1>6, <1>7, <1>8, <1>9, <1>10, <1>11, <1>12, <1>13, <1>14,
     <1>15, <1>16, <1>17, <1>18, <1>19, <1>20, <1>21, <1>22, <1>23, <1>24, <1>25, <1>26, <1>27,
     <1>28, <1>29 DEF Next, Command, Step

LEMMA AnswersStep == Sound /\ Honest /\ [Next]_vars => Answers'
<1> SUFFICES ASSUME Sound, Honest, [Next]_vars PROVE Answers'
  OBVIOUS
<1> USE FixAssumption, PipelineAssumption, SnapshotFacts, FilesOfPatch
    DEF Sound, TypeOK, Shape, Honest, Ahead, Answers, Progress, Covered, SnapshotAhead, Written,
       PutBack, Restored,
        Tree, Steps, Commands, Reasons, Outcomes, ApplyCmds, UndoCmds, durable, call, history
<1>1. ASSUME NEW p \in Patches, StartFix(p) PROVE Answers'
  BY <1>1 DEF StartFix, Begin, SavePatch
<1>2. ASSUME NEW p \in Patches, StartVerify(p) PROVE Answers'
  BY <1>2 DEF StartVerify, Begin
<1>3. ASSUME NEW p \in Patches, QueueFix(p) PROVE Answers'
  BY <1>3 DEF QueueFix, Begin, SavePatch
<1>4. ASSUME NEW p \in Patches, Accept(p) PROVE Answers'
  BY <1>4 DEF Accept, Begin
<1>5. ASSUME NEW p \in Patches, Reject(p) PROVE Answers'
  BY <1>5 DEF Reject, Begin
<1>6. ASSUME NEW p \in Patches, Undo(p) PROVE Answers'
  BY <1>6 DEF Undo, Restoring, AppliedPatches
<1>7. ASSUME NEW p \in Patches, Redo(p) PROVE Answers'
  BY <1>7 DEF Redo, Begin
<1>8. ASSUME NEW p \in Patches, Rollback(p) PROVE Answers'
  BY <1>8 DEF Rollback, UndoNext, Restoring, Newest, AppliedPatches
<1>9. CASE ApplyRefused
  BY <1>9 DEF ApplyRefused, NotApplied
<1>10. ASSUME NEW s \in SnapIds, TakeSnapshot(s) PROVE Answers'
  BY <1>10 DEF TakeSnapshot, Capture
<1>11. ASSUME NEW f \in Files, WriteFile(f) PROVE Answers'
  BY <1>11 DEF WriteFile
<1>12. CASE WritesDone
  BY <1>12 DEF WritesDone
<1>13. CASE WriteBlocked
  BY <1>13 DEF WriteBlocked, StartRestore
<1>14. ASSUME NEW f \in Files, WriteFails(f) PROVE Answers'
  BY <1>14 DEF WriteFails, StartRestore
<1>15. CASE ChecksPass
  BY <1>15 DEF ChecksPass
<1>16. CASE ChecksFail
  BY <1>16 DEF ChecksFail, StartRestore
<1>17. ASSUME NEW f \in Files, RestoreFile(f) PROVE Answers'
  BY <1>17 DEF RestoreFile
<1>18. CASE RestoreDone
  BY <1>18 DEF RestoreDone, NotApplied
<1>19. CASE RestoreFails
  BY <1>19 DEF RestoreFails, StartRestore, NotApplied
<1>20. CASE RecordApplied
  BY <1>20 DEF RecordApplied, UpdatePatchState, Applied
<1>21. CASE RecordFailed
  BY <1>21 DEF RecordFailed, UpdatePatchState, NotApplied
<1>22. CASE RecordRolledBack
  BY <1>22 DEF RecordRolledBack, UpdatePatchState
<1>23. CASE MarkBegin
  BY <1>23 DEF MarkBegin
<1>24. CASE MarkEnd
  BY <1>24 DEF MarkEnd, MarkState, AfterMark, UndoNext, Restoring, Newest
<1>25. CASE MarkFails
  BY <1>25 DEF MarkFails, AfterMark, UndoNext, Restoring, Newest
<1>26. CASE VerifyPasses
  BY <1>26 DEF VerifyPasses
<1>27. CASE VerifyFails
  BY <1>27 DEF VerifyFails, NotApplied
<1>28. CASE Crash
  BY <1>28 DEF Crash
<1>29. CASE UNCHANGED vars
  BY <1>29 DEF vars
<1> QED
  BY <1>1, <1>2, <1>3, <1>4, <1>5, <1>6, <1>7, <1>8, <1>9, <1>10, <1>11, <1>12, <1>13, <1>14,
     <1>15, <1>16, <1>17, <1>18, <1>19, <1>20, <1>21, <1>22, <1>23, <1>24, <1>25, <1>26, <1>27,
     <1>28, <1>29 DEF Next, Command, Step

LEMMA ProgressStep == Sound /\ Honest /\ [Next]_vars => Progress'
<1> SUFFICES ASSUME Sound, Honest, [Next]_vars PROVE Progress'
  OBVIOUS
<1> USE FixAssumption, PipelineAssumption, SnapshotFacts, FilesOfPatch
    DEF Sound, TypeOK, Shape, Honest, Ahead, Answers, Progress, Covered, SnapshotAhead, Written,
       PutBack, Restored,
        Tree, Steps, Commands, Reasons, Outcomes, ApplyCmds, UndoCmds, durable, call, history
<1>1. ASSUME NEW p \in Patches, StartFix(p) PROVE Progress'
  BY <1>1 DEF StartFix, Begin, SavePatch
<1>2. ASSUME NEW p \in Patches, StartVerify(p) PROVE Progress'
  BY <1>2 DEF StartVerify, Begin
<1>3. ASSUME NEW p \in Patches, QueueFix(p) PROVE Progress'
  BY <1>3 DEF QueueFix, Begin, SavePatch
<1>4. ASSUME NEW p \in Patches, Accept(p) PROVE Progress'
  BY <1>4 DEF Accept, Begin
<1>5. ASSUME NEW p \in Patches, Reject(p) PROVE Progress'
  BY <1>5 DEF Reject, Begin
<1>6. ASSUME NEW p \in Patches, Undo(p) PROVE Progress'
  BY <1>6 DEF Undo, Restoring, AppliedPatches
<1>7. ASSUME NEW p \in Patches, Redo(p) PROVE Progress'
  BY <1>7 DEF Redo, Begin
<1>8. ASSUME NEW p \in Patches, Rollback(p) PROVE Progress'
  BY <1>8 DEF Rollback, UndoNext, Restoring, Newest, AppliedPatches
<1>9. CASE ApplyRefused
  BY <1>9 DEF ApplyRefused, NotApplied
<1>10. ASSUME NEW s \in SnapIds, TakeSnapshot(s) PROVE Progress'
  BY <1>10 DEF TakeSnapshot, Capture
<1>11. ASSUME NEW f \in Files, WriteFile(f) PROVE Progress'
  BY <1>11 DEF WriteFile
<1>12. CASE WritesDone
  BY <1>12 DEF WritesDone
<1>13. CASE WriteBlocked
  BY <1>13 DEF WriteBlocked, StartRestore
<1>14. ASSUME NEW f \in Files, WriteFails(f) PROVE Progress'
  BY <1>14 DEF WriteFails, StartRestore
<1>15. CASE ChecksPass
  BY <1>15 DEF ChecksPass
<1>16. CASE ChecksFail
  BY <1>16 DEF ChecksFail, StartRestore
<1>17. ASSUME NEW f \in Files, RestoreFile(f) PROVE Progress'
  BY <1>17 DEF RestoreFile
<1>18. CASE RestoreDone
  <2>1. pc = "restore" /\ todo = {} /\ PutBack(FilesOf(cur)) /\ UNCHANGED <<disk, snaps, cur, sid, cmd, before>>
    BY <1>18 DEF RestoreDone
  <2>2. cmd \in ApplyCmds => \A f \in Files : disk[f] = before[f]
    BY <2>1
  <2>3. cmd \in ApplyCmds => disk = before
    BY <2>2
  <2>4. Restored(disk, sid)
    BY <2>1
  <2>5. CASE why \in {"blocked", "write"}
    BY <1>18, <2>1, <2>3, <2>5 DEF RestoreDone, NotApplied
  <2>6. CASE why \notin {"blocked", "write"}
    BY <1>18, <2>1, <2>3, <2>4, <2>6 DEF RestoreDone
  <2> QED
    BY <2>5, <2>6
<1>19. CASE RestoreFails
  BY <1>19 DEF RestoreFails, StartRestore, NotApplied
<1>20. CASE RecordApplied
  BY <1>20 DEF RecordApplied, UpdatePatchState, Applied
<1>21. CASE RecordFailed
  BY <1>21 DEF RecordFailed, UpdatePatchState, NotApplied
<1>22. CASE RecordRolledBack
  BY <1>22 DEF RecordRolledBack, UpdatePatchState
<1>23. CASE MarkBegin
  BY <1>23 DEF MarkBegin
<1>24. CASE MarkEnd
  BY <1>24 DEF MarkEnd, MarkState, AfterMark, UndoNext, Restoring, Newest
<1>25. CASE MarkFails
  BY <1>25 DEF MarkFails, AfterMark, UndoNext, Restoring, Newest
<1>26. CASE VerifyPasses
  BY <1>26 DEF VerifyPasses
<1>27. CASE VerifyFails
  BY <1>27 DEF VerifyFails, NotApplied
<1>28. CASE Crash
  BY <1>28 DEF Crash
<1>29. CASE UNCHANGED vars
  BY <1>29 DEF vars
<1> QED
  BY <1>1, <1>2, <1>3, <1>4, <1>5, <1>6, <1>7, <1>8, <1>9, <1>10, <1>11, <1>12, <1>13, <1>14,
     <1>15, <1>16, <1>17, <1>18, <1>19, <1>20, <1>21, <1>22, <1>23, <1>24, <1>25, <1>26, <1>27,
     <1>28, <1>29 DEF Next, Command, Step

LEMMA HonestStep == Sound /\ Honest /\ [Next]_vars => Honest'
  BY AheadStep, AnswersStep, ProgressStep DEF Honest

THEOREM HonestAlways == Spec => [](Sound /\ Honest)
<1>1. (Sound /\ Honest) /\ [Next]_vars => (Sound /\ Honest)'
  BY SoundStep, HonestStep
<1> QED
  BY SoundInit, HonestInit, <1>1, PTL DEF Spec

(* Whatever a fix, an accept, a redo or the verify loop has changed, what it *)
(* replaced is in the snapshot on disk: at every step, under every hazard, a *)
(* crash and a failed restore included.                                      *)
THEOREM SnapshotAlwaysAhead == Spec => []SnapshotAhead
<1>1. Sound /\ Honest => SnapshotAhead
  BY DEF Honest, Ahead
<1> QED
  BY <1>1, HonestAlways, PTL

(* What a command reports is what it did to the files: applied as a whole,   *)
(* rolled back without a trace, or undone to the snapshot.                   *)
THEOREM ReportsAreTrue == Spec => []ReportIsTrue
<1>1. Sound /\ Honest => ReportIsTrue
  BY DEF Honest, Progress, Written, ReportIsTrue
<1> QED
  BY <1>1, HonestAlways, PTL

-----------------------------------------------------------------------------
(***************************************************************************)
(* Part 3. Whole patches.                                                  *)
(***************************************************************************)
(* What the record of the current patch says at each step.                   *)
ApplyRecords ==
  cmd \in ApplyCmds /\ InFlight => ledger[cur].state \in {"proposed", "pending", "undone"}

UndoRecords ==
  cmd \in UndoCmds /\ InFlight =>
    /\ ledger[cur].state = "applied" /\ sid = ledger[cur].snap
    /\ \A f \in Files \ FilesOf(cur) : disk[f] = before[f]

MarkRecords ==
  pc \in {"mark", "marking"} =>
    /\ cmd = "redo" => ledger[cur].state = "applied"
    /\ cmd = "reject" => ledger[cur].state = "pending"
    /\ cmd \in UndoCmds => ledger[cur].state = "rolled_back" /\ sid = ledger[cur].snap

(* patches.json can be read and every record is written, no patch comes      *)
(* twice, and an apply is recorded with all its files in the snapshot.       *)
Orderly ==
  /\ torn => pc = "marking"
  /\ cmd # "verify"
  /\ \A p \in Patches \ offered : ledger[p].state = "none"
  /\ pc = "record" => outcome # "broken"
  /\ pc = "record" /\ why = "none" => \A f \in FilesOf(cur) : Covered(f)
  /\ queue \subseteq AppliedPatches \ {cur}

Steady == ApplyRecords /\ UndoRecords /\ MarkRecords /\ Orderly

-----------------------------------------------------------------------------
(* Nothing can fail but a write, and the user may name the patch to undo.    *)
Calm == Hazards \subseteq {"write", "win32", "byId"}

(* What is left to happen then.                                              *)
LEMMA CalmSteps ==
  ASSUME Calm, Sound, Steady, [Next]_vars
  PROVE  \/ \E p \in Patches : \/ StartFix(p) \/ QueueFix(p) \/ Accept(p) \/ Reject(p)
                              \/ Undo(p) \/ Redo(p) \/ Rollback(p)
         \/ ApplyRefused \/ (\E s \in SnapIds : TakeSnapshot(s))
         \/ (\E f \in Files : WriteFile(f) \/ WriteFails(f) \/ RestoreFile(f))
         \/ WritesDone \/ WriteBlocked \/ ChecksPass \/ ChecksFail \/ RestoreDone
         \/ RecordApplied \/ RecordFailed \/ RecordRolledBack \/ MarkBegin \/ MarkEnd
         \/ UNCHANGED vars
<1>1. \A p \in Patches : ~StartVerify(p)
  BY DEF Calm, StartVerify
<1>2. ~RestoreFails /\ ~Crash
  BY DEF Calm, RestoreFails, Crash
<1>3. ~MarkFails
  BY DEF Calm, MarkFails, Steady, Orderly
<1>4. ~VerifyPasses /\ ~VerifyFails
  BY DEF VerifyPasses, VerifyFails, Steady, Orderly, Sound, Shape
<1> QED
  BY <1>1, <1>2, <1>3, <1>4, Zenon DEF Next, Command, Step

(* A record that is updated names the snapshot in hand.                      *)
LEMMA Recorded ==
  ASSUME Calm, TypeOK, cur \in Patches, ~torn, ledger[cur].state # "none",
         NEW st \in States, UpdatePatchState(st)
  PROVE  /\ \A q \in Patches : q # cur => ledger'[q] = ledger[q]
         /\ ledger'[cur].state = st /\ ledger'[cur].snap = sid
         /\ ledger'[cur].at = IF st = "applied" THEN clock + 1 ELSE ledger[cur].at
         /\ clock' = clock + 1
  BY DEF Calm, TypeOK, UpdatePatchState, Stamped

(* A mark that is written keeps the snapshot.                                *)
LEMMA MarkedAs ==
  ASSUME TypeOK, cur \in Patches, MarkEnd
  PROVE  /\ \A q \in Patches : q # cur => ledger'[q] = ledger[q]
         /\ ledger'[cur].state = MarkState /\ ledger'[cur].snap = ledger[cur].snap
         /\ ledger'[cur].at = IF MarkState = "applied" THEN clock + 1 ELSE ledger[cur].at
         /\ clock' = clock + 1
  BY DEF TypeOK, Marked, MarkEnd

(* A record that is saved is a new one.                                      *)
LEMMA Saved ==
  ASSUME TypeOK, ~torn, NEW p \in Patches, NEW st, SavePatch(p, st)
  PROVE  /\ \A q \in Patches : q # p => ledger'[q] = ledger[q]
         /\ ledger'[p].state = st
  BY DEF TypeOK, SavePatch, NoRecord

(* Steady is kept, one action after another.                                 *)
LEMMA SteadyStep ==
  ASSUME Calm, Sound, Honest, Steady, [Next]_vars
  PROVE  Steady'
<1> USE Calm, Sound, Honest, Steady, FixAssumption, PipelineAssumption, SnapshotFacts,
       FilesOfPatch
    DEF Calm, Sound, TypeOK, Shape, Steady, ApplyRecords, UndoRecords, MarkRecords, Orderly,
       InFlight,
        AppliedPatches, ApplyCmds, UndoCmds, Tree, durable, call, history
<1>1. ASSUME NEW p \in Patches, StartFix(p) PROVE Steady'
  BY <1>1 DEF StartFix, Begin, SavePatch
<1>2. ASSUME NEW p \in Patches, QueueFix(p) PROVE Steady'
  BY <1>2 DEF QueueFix, Begin, SavePatch
<1>3. ASSUME NEW p \in Patches, Accept(p) PROVE Steady'
  BY <1>3 DEF Accept, Begin
<1>4. ASSUME NEW p \in Patches, Reject(p) PROVE Steady'
  BY <1>4 DEF Reject, Begin
<1>5. ASSUME NEW p \in Patches, Undo(p) PROVE Steady'
  BY <1>5 DEF Undo, Restoring, Newest
<1>6. ASSUME NEW p \in Patches, Redo(p) PROVE Steady'
  BY <1>6 DEF Redo, Begin
<1>7. ASSUME NEW p \in Patches, Rollback(p) PROVE Steady'
  BY <1>7 DEF Rollback, UndoNext, Restoring, Newest
<1>8. CASE ApplyRefused
  BY <1>8 DEF ApplyRefused, NotApplied
<1>9. ASSUME NEW s \in SnapIds, TakeSnapshot(s) PROVE Steady'
  BY <1>9 DEF TakeSnapshot
<1>10. ASSUME NEW f \in Files, WriteFile(f) PROVE Steady'
  BY <1>10 DEF WriteFile
<1>11. CASE WritesDone
  BY <1>11 DEF WritesDone
<1>12. CASE WriteBlocked
  BY <1>12 DEF WriteBlocked, StartRestore
<1>13. ASSUME NEW f \in Files, WriteFails(f) PROVE Steady'
  BY <1>13 DEF WriteFails, StartRestore
<1>14. CASE ChecksPass
  BY <1>14 DEF ChecksPass, Honest, Ahead, Answers, Covered
<1>15. CASE ChecksFail
  BY <1>15 DEF ChecksFail, StartRestore
<1>16. ASSUME NEW f \in Files, RestoreFile(f) PROVE Steady'
  BY <1>16 DEF RestoreFile
<1>17. CASE RestoreDone
  <2>1. pc = "restore" /\ why # "none"
    BY <1>17 DEF RestoreDone, Honest, Answers
  <2> QED
    BY <1>17, <2>1 DEF RestoreDone, NotApplied
<1>18. CASE RecordApplied
  <2>1. TypeOK /\ cur \in Patches /\ ~torn /\ ledger[cur].state # "none" /\ UpdatePatchState("applied")
    BY <1>18 DEF RecordApplied
  <2>2. /\ \A q \in Patches : q # cur => ledger'[q] = ledger[q]
        /\ ledger'[cur].state = "applied" /\ ledger'[cur].snap = sid
    <3> HIDE DEF TypeOK
    <3> QED BY <2>1, Recorded DEF States
  <2> QED
    BY <1>18, <2>1, <2>2 DEF RecordApplied, Applied
<1>19. CASE RecordFailed
  <2>1. TypeOK /\ cur \in Patches /\ ~torn /\ ledger[cur].state # "none" /\ UpdatePatchState("failed")
    BY <1>19 DEF RecordFailed
  <2>2. /\ \A q \in Patches : q # cur => ledger'[q] = ledger[q]
        /\ ledger'[cur].state = "failed" /\ ledger'[cur].snap = sid
    <3> HIDE DEF TypeOK
    <3> QED BY <2>1, Recorded DEF States
  <2> QED
    BY <1>19, <2>1, <2>2 DEF RecordFailed, NotApplied
<1>20. CASE RecordRolledBack
  <2>1. TypeOK /\ cur \in Patches /\ ~torn /\ ledger[cur].state # "none" /\ UpdatePatchState("rolled_back")
    BY <1>20 DEF RecordRolledBack
  <2>2. /\ \A q \in Patches : q # cur => ledger'[q] = ledger[q]
        /\ ledger'[cur].state = "rolled_back" /\ ledger'[cur].snap = sid
    <3> HIDE DEF TypeOK
    <3> QED BY <2>1, Recorded DEF States
  <2> QED
    BY <1>20, <2>1, <2>2 DEF RecordRolledBack
<1>21. CASE MarkBegin
  BY <1>21 DEF MarkBegin
<1>22. CASE MarkEnd
  <2>1. TypeOK /\ cur \in Patches
    BY <1>22 DEF MarkEnd
  <2>2. /\ \A q \in Patches : q # cur => ledger'[q] = ledger[q]
        /\ ledger'[cur].state = MarkState /\ ledger'[cur].snap = ledger[cur].snap
    <3> HIDE DEF TypeOK
    <3> QED BY <1>22, <2>1, MarkedAs
  <2> QED
    BY <1>22, <2>1, <2>2 DEF MarkEnd, AfterMark, UndoNext, Restoring, Newest, MarkState
<1>23. CASE UNCHANGED vars
  BY <1>23 DEF vars, Covered
<1> QED
  BY <1>1, <1>2, <1>3, <1>4, <1>5, <1>6, <1>7, <1>8, <1>9, <1>10, <1>11, <1>12, <1>13, <1>14,
     <1>15, <1>16, <1>17, <1>18, <1>19, <1>20, <1>21, <1>22, <1>23, CalmSteps

LEMMA SteadyInit == Init => Steady
  BY DEF Init, Steady, ApplyRecords, UndoRecords, MarkRecords, Orderly, InFlight, ApplyCmds,
     UndoCmds,
     NoRecord

(* While nothing but a write can fail, no record is lost or out of step.     *)
THEOREM SteadyAlways ==
  ASSUME Calm
  PROVE  Spec => [](Sound /\ Honest /\ Steady)
<1>1. (Sound /\ Honest /\ Steady) /\ [Next]_vars => (Sound /\ Honest /\ Steady)'
  BY SoundStep, HonestStep, SteadyStep
<1> QED
  BY SoundInit, HonestInit, SteadyInit, <1>1, PTL DEF Spec

-----------------------------------------------------------------------------
(* Functions that agree everywhere are equal.                                *)
LEMMA CaptureIs ==
  ASSUME NEW S, NEW g \in [S -> Value], NEW t, \A f \in S : g[f] = t[f]
  PROVE  g = Capture(t, S)
  BY DEF Capture

LEMMA OverlayIs ==
  ASSUME NEW d \in Tree, NEW t \in Tree, NEW part,
         \A f \in Files : d[f] = IF f \in DOMAIN part THEN part[f] ELSE t[f]
  PROVE  d = Overlay(t, part)
  BY DEF Overlay, Tree

LEMMA OneChanged ==
  ASSUME NEW S, NEW s, NEW t, s = [p \in S |-> s[p]], t = [p \in S |-> t[p]],
         NEW c \in S, \A p \in S \ {c} : t[p] = s[p]
  PROVE  t = [s EXCEPT ![c] = t[c]]
  OBVIOUS

(* The tree of the user: what a command found, until it is done with it.     *)
UserTree == IF InFlight THEN before ELSE disk

(* What is kept of what p replaced.                                          *)
Kept(p) == IF ledger[p].state = "applied" THEN snaps[ledger[p].snap].files ELSE NoSnap

Stands == UserTree' = UserTree /\ \A p \in Patches : Kept(p)' = Kept(p)

(* The step that records an apply is the one in which the patch goes in.     *)
GoesIn(p) ==
  /\ Kept(p) = NoSnap /\ Kept(p)' = Capture(UserTree, FilesOf(p))
  /\ UserTree' = Overlay(UserTree, Change[p])
  /\ \A q \in Patches \ {p} : Kept(q)' = Kept(q)

ComesOut(p) ==
  /\ Kept(p) # NoSnap /\ Kept(p)' = NoSnap /\ p = cur /\ cmd \in UndoCmds /\ InFlight
  /\ UserTree' = Overlay(UserTree, Kept(p))
  /\ \A q \in Patches \ {p} : Kept(q)' = Kept(q)

Changes == Stands \/ \E p \in Patches : GoesIn(p) \/ ComesOut(p)

(* Every step leaves the user's tree alone, puts one patch in or takes one out. *)
LEMMA TreeStep ==
  ASSUME Calm, Sound, Honest, Steady, [Next]_vars
  PROVE  Changes
<1> USE Calm, Sound, Honest, Steady, FixAssumption, PipelineAssumption, SnapshotFacts, FilesOfPatch
    DEF Calm, Sound, TypeOK, Shape, Guards, GoodRecord, Steady, ApplyRecords, UndoRecords,
       MarkRecords,
        Orderly, InFlight, AppliedPatches, ApplyCmds, UndoCmds, Tree, durable, call, history,
        Changes, Stands, UserTree, Kept
<1>1. ASSUME NEW p \in Patches, StartFix(p) PROVE Changes
  BY <1>1 DEF StartFix, Begin, SavePatch
<1>2. ASSUME NEW p \in Patches, QueueFix(p) PROVE Changes
  BY <1>2 DEF QueueFix, Begin, SavePatch
<1>3. ASSUME NEW p \in Patches, Accept(p) PROVE Changes
  BY <1>3 DEF Accept, Begin
<1>4. ASSUME NEW p \in Patches, Reject(p) PROVE Changes
  BY <1>4 DEF Reject, Begin
<1>5. ASSUME NEW p \in Patches, Undo(p) PROVE Changes
  BY <1>5 DEF Undo, Restoring, Newest
<1>6. ASSUME NEW p \in Patches, Redo(p) PROVE Changes
  BY <1>6 DEF Redo, Begin
<1>7. ASSUME NEW p \in Patches, Rollback(p) PROVE Changes
  BY <1>7 DEF Rollback, UndoNext, Restoring, Newest
<1>8. CASE ApplyRefused
  <2>1. disk = before
    BY <1>8 DEF ApplyRefused, Honest, Progress
  <2> QED
    BY <1>8, <2>1 DEF ApplyRefused, NotApplied
<1>9. ASSUME NEW s \in SnapIds, TakeSnapshot(s) PROVE Changes
  <2>1. disk = before /\ before' = disk /\ pc = "gate" /\ pc' = "write" /\ ledger' = ledger
    BY <1>9 DEF TakeSnapshot, Honest, Progress
  <2>2. \A p \in Patches : ledger[p].state = "applied" => snaps'[ledger[p].snap] = snaps[ledger[p].snap]
    BY <1>9 DEF TakeSnapshot
  <2> QED
    BY <2>1, <2>2
<1>10. ASSUME NEW f \in Files, WriteFile(f) PROVE Changes
  BY <1>10 DEF WriteFile
<1>11. CASE WritesDone
  BY <1>11 DEF WritesDone
<1>12. CASE WriteBlocked
  BY <1>12 DEF WriteBlocked, StartRestore
<1>13. ASSUME NEW f \in Files, WriteFails(f) PROVE Changes
  BY <1>13 DEF WriteFails, StartRestore
<1>14. CASE ChecksPass
  BY <1>14 DEF ChecksPass
<1>15. CASE ChecksFail
  BY <1>15 DEF ChecksFail, StartRestore
<1>16. ASSUME NEW f \in Files, RestoreFile(f) PROVE Changes
  BY <1>16 DEF RestoreFile
<1>17. CASE RestoreDone
  <2>1. pc = "restore" /\ UNCHANGED <<disk, before, ledger, snaps>>
    BY <1>17 DEF RestoreDone
  <2>2. CASE pc' = "record"
    BY <2>1, <2>2
  <2>3. CASE pc' # "record"
    <3>1. pc' = "idle" /\ outcome' = "rolledBack"
      BY <1>17, <2>3 DEF RestoreDone, NotApplied
    <3>2. Progress'
      BY HonestStep DEF Honest
    <3>3. disk' = before'
      BY <3>1, <3>2 DEF Progress
    <3> QED BY <2>1, <3>1, <3>3
  <2> QED BY <2>2, <2>3
<1>18. CASE RecordApplied
  <2>1. /\ TypeOK /\ cur \in Patches /\ ~torn /\ ledger[cur].state # "none"
        /\ UpdatePatchState("applied") /\ UNCHANGED <<disk, snaps>>
    BY <1>18 DEF RecordApplied
  <2>2. /\ \A q \in Patches : q # cur => ledger'[q] = ledger[q]
        /\ ledger'[cur].state = "applied" /\ ledger'[cur].snap = sid
    <3> HIDE DEF TypeOK
    <3> QED BY <2>1, Recorded DEF States
  <2>3. pc = "record" /\ why = "none" /\ pc' \in {"idle", "mark"} /\ cmd \in ApplyCmds
    BY <1>18 DEF RecordApplied, Applied
  <2>p. PICK p \in Patches : p = cur
    BY <2>1
  <2>4. Kept(p) = NoSnap
    BY <2>p, <2>3
  <2>o. \A q \in Patches \ {p} : Kept(q)' = Kept(q)
    BY <2>1, <2>2, <2>p
  <2>5. /\ snaps[sid].files \in [FilesOf(p) -> Value]
        /\ \A f \in FilesOf(p) : snaps[sid].files[f] = before[f]
    BY <2>1, <2>3, <2>p DEF Covered
  <2>6. Kept(p)' = Capture(before, FilesOf(p))
    <3>1. Kept(p)' = snaps[sid].files
      BY <2>1, <2>2, <2>p
    <3> QED BY <2>5, <3>1, CaptureIs
  <2>7. \A f \in Files : disk[f] = IF f \in FilesOf(p) THEN Change[p][f] ELSE before[f]
    BY <2>3, <2>p DEF Honest, Ahead, SnapshotAhead, Progress, Written
  <2>8. disk = Overlay(before, Change[p])
    <3>1. disk \in Tree /\ before \in Tree /\ FilesOf(p) = DOMAIN Change[p]
      BY DEF FilesOf
    <3> HIDE DEF Tree
    <3> QED BY <2>7, <3>1, OverlayIs
  <2> HIDE DEF Kept
  <2> QED BY <2>1, <2>3, <2>4, <2>o, <2>6, <2>8 DEF GoesIn
<1>19. CASE RecordFailed
  <2>1. /\ TypeOK /\ cur \in Patches /\ ~torn /\ ledger[cur].state # "none"
        /\ UpdatePatchState("failed") /\ UNCHANGED <<disk, snaps>>
    BY <1>19 DEF RecordFailed
  <2>2. /\ \A q \in Patches : q # cur => ledger'[q] = ledger[q]
        /\ ledger'[cur].state = "failed" /\ ledger'[cur].snap = sid
    <3> HIDE DEF TypeOK
    <3> QED BY <2>1, Recorded DEF States
  <2>3. pc = "record" /\ why = "tests" /\ outcome = "rolledBack" /\ pc' = "idle"
    BY <1>19 DEF RecordFailed, NotApplied, Honest, Answers
  <2>4. disk = before
    BY <2>3 DEF Honest, Progress
  <2> QED BY <2>1, <2>2, <2>3, <2>4
<1>20. CASE RecordRolledBack
  <2>1. /\ TypeOK /\ cur \in Patches /\ ~torn /\ ledger[cur].state # "none"
        /\ UpdatePatchState("rolled_back") /\ UNCHANGED <<disk, snaps>>
    BY <1>20 DEF RecordRolledBack
  <2>2. /\ \A q \in Patches : q # cur => ledger'[q] = ledger[q]
        /\ ledger'[cur].state = "rolled_back" /\ ledger'[cur].snap = sid
    <3> HIDE DEF TypeOK
    <3> QED BY <2>1, Recorded DEF States
  <2>3. pc = "record" /\ why = "undo" /\ pc' = "mark" /\ cmd \in UndoCmds
    BY <1>20 DEF RecordRolledBack
  <2>p. PICK p \in Patches : p = cur
    BY <2>1
  <2>4. /\ snaps[sid] \in Snapshot /\ DOMAIN snaps[sid].files = FilesOf(p)
        /\ Kept(p) = snaps[sid].files
    BY <2>1, <2>3, <2>p
  <2>5. Kept(p) # NoSnap
    <3>1. snaps[sid].files \in {s.files : s \in Snapshot}
      BY <2>4
    <3> QED BY <2>4, <3>1
  <2>n. Kept(p)' = NoSnap
    BY <2>2, <2>p
  <2>o. \A q \in Patches \ {p} : Kept(q)' = Kept(q)
    BY <2>1, <2>2, <2>p
  <2>6. \A f \in Files : disk[f] = IF f \in FilesOf(p) THEN Kept(p)[f] ELSE before[f]
    BY <2>3, <2>4, <2>p DEF Honest, Answers, Progress, Restored
  <2>7. disk = Overlay(before, Kept(p))
    <3>1. disk \in Tree /\ before \in Tree /\ FilesOf(p) = DOMAIN Kept(p)
      BY <2>4
    <3> HIDE DEF Tree, Kept
    <3> QED BY <2>6, <3>1, OverlayIs
  <2> HIDE DEF Kept
  <2> QED BY <2>1, <2>3, <2>p, <2>5, <2>n, <2>o, <2>7 DEF ComesOut
<1>21. CASE MarkBegin
  BY <1>21 DEF MarkBegin
<1>22. CASE MarkEnd
  <2>1. TypeOK /\ cur \in Patches /\ UNCHANGED <<disk, snaps>>
    BY <1>22 DEF MarkEnd
  <2>2. /\ \A q \in Patches : q # cur => ledger'[q] = ledger[q]
        /\ ledger'[cur].state = MarkState /\ ledger'[cur].snap = ledger[cur].snap
    <3> HIDE DEF TypeOK
    <3> QED BY <1>22, <2>1, MarkedAs
  <2>3. ledger[cur].state = "applied" <=> MarkState = "applied"
    BY <1>22 DEF MarkEnd, MarkState
  <2>4. \A p \in Patches : Kept(p)' = Kept(p)
    BY <2>1, <2>2, <2>3
  <2>5. UserTree' = UserTree
    BY <1>22 DEF MarkEnd, AfterMark, UndoNext
  <2> QED BY <2>4, <2>5
<1>23. CASE UNCHANGED vars
  BY <1>23 DEF vars
<1> QED
  BY <1>1, <1>2, <1>3, <1>4, <1>5, <1>6, <1>7, <1>8, <1>9, <1>10, <1>11, <1>12, <1>13, <1>14,
     <1>15, <1>16, <1>17, <1>18, <1>19, <1>20, <1>21, <1>22, <1>23, CalmSteps

(* The tree of the user changes by whole patches and whole undos.            *)
THEOREM TreeIsAtomic ==
  ASSUME Calm
  PROVE  Spec => ImplementsAtomicTree
<1> DEFINE saved == [p \in Patches |-> IF ledger[p].state = "applied"
                                        THEN snaps[ledger[p].snap].files ELSE NoSnap]
<1>1. Init => Promise!AtomicInit
  BY DEF Init, Promise!AtomicInit, InFlight, NoRecord
<1>2. ASSUME Sound, Honest, Steady, [Next]_vars
      PROVE  [Promise!AtomicNext]_<<UserTree, saved>>
  <2>1. \A p \in Patches : saved[p] = Kept(p) /\ saved'[p] = Kept(p)'
    BY DEF Kept
  <2>f. saved = [p \in Patches |-> saved[p]] /\ saved' = [p \in Patches |-> saved'[p]]
    OBVIOUS
  <2> HIDE DEF saved
  <2>2. CASE Stands
    <3>1. saved' = saved
      BY <2>1, <2>2, <2>f DEF Stands
    <3> QED BY <2>2, <3>1 DEF Stands
  <2>3. ASSUME NEW p \in Patches, GoesIn(p)
        PROVE  Promise!Apply(p)
    <3>1. saved' = [saved EXCEPT ![p] = saved'[p]]
      <4>1. \A q \in Patches \ {p} : saved'[q] = saved[q]
        BY <2>1, <2>3 DEF GoesIn
      <4> QED BY <2>f, <4>1, OneChanged
    <3>2. /\ saved[p] = NoSnap /\ saved'[p] = Capture(UserTree, FilesOf(p))
          /\ UserTree' = Overlay(UserTree, Change[p])
      BY <2>1, <2>3 DEF GoesIn
    <3> QED
      BY <3>1, <3>2 DEF Promise!Apply, Promise!Overlay, Promise!Capture, Overlay, Capture,
         Promise!FilesOf, FilesOf, UserTree, saved
  <2>4. ASSUME NEW p \in Patches, ComesOut(p)
        PROVE  Promise!Revert(p)
    <3>1. saved' = [saved EXCEPT ![p] = saved'[p]]
      <4>1. \A q \in Patches \ {p} : saved'[q] = saved[q]
        BY <2>1, <2>4 DEF ComesOut
      <4> QED BY <2>f, <4>1, OneChanged
    <3>2. /\ saved[p] # NoSnap /\ saved'[p] = NoSnap
          /\ UserTree' = Overlay(UserTree, saved[p])
      BY <2>1, <2>4 DEF ComesOut
    <3> QED
      BY <3>1, <3>2 DEF Promise!Revert, Promise!Overlay, Overlay, UserTree, saved
  <2> QED BY <1>2, <2>2, <2>3, <2>4, TreeStep DEF Changes, Promise!AtomicNext
<1> QED
  BY SteadyAlways, <1>1, <1>2, PTL DEF Spec, ImplementsAtomicTree, Promise!AtomicSpec,
     Promise!atomicVars, UserTree

-----------------------------------------------------------------------------
(***************************************************************************)
(* Part 4. Rollbacks, whatever else may happen.                            *)
(***************************************************************************)
(* Every record is written when its time has come.                           *)
Recording == "ledger" \notin Hazards

(* Two applied patches never share a stamp, and none is in the future.       *)
Stamps ==
  /\ \A p \in AppliedPatches : ledger[p].at <= clock
  /\ \A p, q \in AppliedPatches : ledger[p].at = ledger[q].at => p = q

(* An undo works on records that say applied until they are rolled back, and *)
(* its list on ones that still say so.                                       *)
UndoRecorded ==
  cmd \in UndoCmds /\ pc # "idle" =>
    /\ InFlight => ledger[cur].state = "applied"
    /\ pc \in {"mark", "marking"} => ledger[cur].state = "rolled_back"
    /\ sid = ledger[cur].snap
    /\ torn => pc = "marking"
    /\ queue \subseteq AppliedPatches \ {cur}

(* What p rollback has still to undo is all that was applied since its goal. *)
RollingBack ==
  cmd = "rollback" /\ pc # "idle" =>
    /\ goal \in queue \cup {cur}
    /\ \A q \in queue : ledger[q].at < ledger[cur].at
    /\ \A q \in queue \cup {cur} : ledger[q].at >= ledger[goal].at
    /\ \A q \in AppliedPatches : ledger[q].at >= ledger[goal].at => q \in queue \cup {cur}

Rolling == Stamps /\ UndoRecorded /\ RollingBack /\ RollbackReachesTarget

LEMMA Less == \A m, n \in Nat : m <= n /\ m # n => m < n
  OBVIOUS

(* A record that becomes applied is stamped with the time.                   *)
LEMMA LedgerSteps ==
  ASSUME Sound, [Next]_vars
  PROVE  /\ clock' \in Nat /\ clock <= clock'
         /\ \A p \in AppliedPatches' :
              \/ p \in AppliedPatches /\ ledger'[p] = ledger[p]
              \/ p = cur /\ ledger'[p].at = clock + 1 /\ clock' = clock + 1
<1> DEFINE Goal == /\ clock' \in Nat /\ clock <= clock'
                   /\ \A p \in AppliedPatches' :
                        \/ p \in AppliedPatches /\ ledger'[p] = ledger[p]
                        \/ p = cur /\ ledger'[p].at = clock + 1 /\ clock' = clock + 1
<1>t. TypeOK /\ clock \in Nat
  BY DEF Sound, TypeOK
<1>1. CASE UNCHANGED <<ledger, clock>>
  BY <1>t, <1>1 DEF AppliedPatches
<1>2. ASSUME NEW p \in Patches, NEW st \in {"proposed", "pending"}, SavePatch(p, st), clock' = clock
      PROVE  Goal
  BY <1>t, <1>2, SavedRecord DEF AppliedPatches
<1>3. ASSUME NEW st \in States, cur \in Patches, UpdatePatchState(st) PROVE Goal
  <2>1. CASE UNCHANGED <<ledger, clock>>
    BY <1>1, <2>1
  <2>2. CASE ledger' = Stamped(cur, st) /\ clock' = clock + 1
    <3>1. CASE ledger[cur].state = "none"
      BY <1>t, <2>2, <3>1 DEF Stamped, AppliedPatches
    <3>2. CASE ledger[cur].state # "none"
      BY <1>t, <1>3, <2>2, <3>2 DEF Stamped, AppliedPatches, TypeOK
    <3> QED BY <3>1, <3>2
  <2> QED BY <1>3, <2>1, <2>2 DEF UpdatePatchState
<1>4. CASE MarkEnd
  <2>1. cur \in Patches
    BY <1>4 DEF Sound, Shape, MarkEnd
  <2> QED BY <1>t, <1>4, <2>1, MarkedAs DEF AppliedPatches
<1>5. CASE clock' = clock /\ ledger' = [p \in Patches |-> NoRecord]
  BY <1>t, <1>5 DEF AppliedPatches, NoRecord
<1>6. \/ UNCHANGED <<ledger, clock>>
      \/ \E p \in Patches, st \in {"proposed", "pending"} : SavePatch(p, st) /\ clock' = clock
      \/ \E st \in States : UpdatePatchState(st) /\ cur \in Patches
      \/ MarkEnd
      \/ clock' = clock /\ ledger' = [p \in Patches |-> NoRecord]
  <2> DEFINE Some == \/ UNCHANGED <<ledger, clock>>
                     \/ \E p \in Patches, st \in {"proposed", "pending"} :
                          SavePatch(p, st) /\ clock' = clock
                     \/ \E st \in States : UpdatePatchState(st) /\ cur \in Patches
                     \/ MarkEnd
                     \/ clock' = clock /\ ledger' = [p \in Patches |-> NoRecord]
  <2>1. ASSUME NEW p \in Patches, Command(p) PROVE Some
    BY <2>1 DEF Command, StartFix, StartVerify, QueueFix, Accept, Reject, Undo, Redo, Rollback
  <2>2. CASE RecordApplied \/ RecordFailed \/ RecordRolledBack
    BY <2>2 DEF RecordApplied, RecordFailed, RecordRolledBack, Sound, Shape, States
  <2>3. CASE Step /\ ~(RecordApplied \/ RecordFailed \/ RecordRolledBack \/ MarkEnd)
    BY <2>3 DEF Step, ApplyRefused, TakeSnapshot, WriteFile, WritesDone, WriteBlocked, WriteFails,
      ChecksPass, ChecksFail, RestoreFile, RestoreDone, RestoreFails, MarkBegin, MarkFails,
      VerifyPasses, VerifyFails, durable
  <2>4. CASE Crash
    BY <2>4 DEF Crash
  <2>5. CASE UNCHANGED vars
    BY <2>5 DEF vars, durable
  <2> HIDE DEF Some
  <2> QED BY <2>1, <2>2, <2>3, <2>4, <2>5 DEF Next, Some
<1> HIDE DEF Goal
<1>7. Goal
  BY <1>1, <1>2, <1>3, <1>4, <1>5, <1>6 DEF Goal
<1> QED BY <1>7 DEF Goal

LEMMA StampsStep ==
  ASSUME Sound, Stamps, [Next]_vars
  PROVE  Stamps'
<1>1. /\ clock \in Nat /\ \A p \in AppliedPatches : ledger[p].at \in Nat
      /\ AppliedPatches' \subseteq Patches
  BY DEF Sound, TypeOK, Record, AppliedPatches
<1> QED BY <1>1, LedgerSteps DEF Stamps

(* What may have happened when the command is an undo afterwards.            *)
UndoStep ==
  \/ \E p \in Patches : Undo(p) \/ Rollback(p)
  \/ /\ cmd \in UndoCmds
     /\ \/ why = "undo" /\ (RestoreDone \/ \E f \in Files : RestoreFile(f))
        \/ RecordRolledBack \/ MarkBegin \/ MarkEnd
  \/ pc' = "idle" /\ outcome' \in {"undoFailed", "crashed"} /\ UNCHANGED clock
  \/ UNCHANGED vars

LEMMA UndoSteps ==
  ASSUME Recording, Sound, UndoRecorded, [Next]_vars, cmd' \in UndoCmds
  PROVE  UndoStep
<1>1. ASSUME NEW p \in Patches, Command(p) PROVE Undo(p) \/ Rollback(p)
  BY <1>1 DEF Command, StartFix, StartVerify, QueueFix, Accept, Reject, Redo, Begin, UndoCmds
<1>2. ~(ApplyRefused \/ (\E s \in SnapIds : TakeSnapshot(s)) \/ WritesDone \/ WriteBlocked
        \/ (\E f \in Files : WriteFile(f) \/ WriteFails(f)) \/ ChecksPass \/ ChecksFail
        \/ RecordFailed \/ VerifyPasses \/ VerifyFails)
  BY DEF Sound, Shape, UndoCmds, ApplyCmds, ApplyRefused, TakeSnapshot, WritesDone, WriteBlocked,
    WriteFile, WriteFails, ChecksPass, ChecksFail, RecordFailed, VerifyPasses, VerifyFails
<1>3. ~RecordApplied
  BY DEF Sound, Shape, UndoCmds, ApplyCmds, RecordApplied
<1>4. ~MarkFails
  BY DEF MarkFails, Recording, UndoRecorded
<1>5. ASSUME (\E f \in Files : RestoreFile(f)) \/ RestoreDone PROVE cmd \in UndoCmds /\ why = "undo"
  BY <1>5 DEF RestoreFile, RestoreDone, Sound, Shape, ApplyCmds, UndoCmds
<1>6. ASSUME RestoreFails PROVE pc' = "idle" /\ outcome' = "undoFailed" /\ UNCHANGED clock
  BY <1>6 DEF RestoreFails, Sound, Shape, ApplyCmds, UndoCmds, durable
<1>7. ASSUME RecordRolledBack \/ MarkBegin \/ MarkEnd PROVE cmd \in UndoCmds
  BY <1>7 DEF RecordRolledBack, MarkBegin, MarkEnd
<1>8. ASSUME Crash PROVE pc' = "idle" /\ outcome' = "crashed" /\ UNCHANGED clock
  BY <1>8 DEF Crash
<1>9. ASSUME Step PROVE UndoStep
  BY <1>2, <1>3, <1>4, <1>5, <1>6, <1>7, <1>9 DEF Step, UndoStep
<1> QED
  BY <1>1, <1>8, <1>9 DEF Next, UndoStep

(* A record that is updated names the snapshot in hand.                      *)
LEMMA Updated ==
  ASSUME Recording, TypeOK, cur \in Patches, ~torn, ledger[cur].state # "none",
         NEW st \in States, UpdatePatchState(st)
  PROVE  /\ \A q \in Patches : q # cur => ledger'[q] = ledger[q]
         /\ ledger'[cur].state = st /\ ledger'[cur].snap = sid
         /\ ledger'[cur].at = IF st = "applied" THEN clock + 1 ELSE ledger[cur].at
         /\ clock' = clock + 1
  BY DEF Recording, TypeOK, UpdatePatchState, Stamped

(* The record of a patch that is put back.                                   *)
LEMMA RolledBack ==
  ASSUME Recording, Sound, UndoRecorded, RecordRolledBack
  PROVE  /\ cmd \in UndoCmds /\ ~torn /\ cur \in Patches /\ UNCHANGED <<queue, cur>>
         /\ \A q \in Patches : q # cur => ledger'[q] = ledger[q]
         /\ ledger[cur].state = "applied" /\ ledger'[cur].state = "rolled_back"
         /\ ledger'[cur].snap = ledger[cur].snap /\ ledger'[cur].at = ledger[cur].at
<1>1. /\ TypeOK /\ cur \in Patches /\ cmd \in UndoCmds
      /\ ledger[cur].state = "applied" /\ sid = ledger[cur].snap /\ ~torn
  BY DEF RecordRolledBack, Sound, Shape, UndoRecorded, InFlight
<1>2. UpdatePatchState("rolled_back") /\ UNCHANGED cur /\ "rolled_back" \in States
  BY DEF RecordRolledBack, States
<1>3. queue' = queue \/ "ledger" \in Hazards
  BY DEF RecordRolledBack
<1> QED BY <1>1, <1>2, <1>3, Updated DEF Recording

LEMMA MarkedUndone ==
  ASSUME Sound, UndoRecorded, MarkEnd, cmd \in UndoCmds
  PROVE  /\ cur \in Patches /\ UNCHANGED <<cmd, goal>> /\ ~torn' /\ AfterMark
         /\ \A q \in Patches : q # cur => ledger'[q] = ledger[q]
         /\ ledger[cur].state = "rolled_back" /\ ledger'[cur].state = "undone"
         /\ ledger'[cur].snap = ledger[cur].snap /\ ledger'[cur].at = ledger[cur].at
<1>1. TypeOK /\ cur \in Patches
  BY DEF MarkEnd, Sound, Shape
<1>2. MarkState = "undone"
  BY DEF MarkState, UndoCmds
<1>3. ledger[cur].state = "rolled_back"
  BY DEF MarkEnd, UndoRecorded
<1> QED BY <1>1, <1>2, <1>3, MarkedAs DEF MarkEnd

LEMMA UndoRecordedStep ==
  ASSUME Recording, Sound, UndoRecorded, [Next]_vars
  PROVE  UndoRecorded'
<1> SUFFICES ASSUME cmd' \in UndoCmds, pc' # "idle" PROVE UndoRecorded'
  BY DEF UndoRecorded
<1>1. ASSUME NEW p \in Patches, Undo(p) PROVE UndoRecorded'
  <2>1. queue = {}
    BY <1>1 DEF Undo, Sound, Shape
  <2> QED
    BY <1>1, <2>1 DEF Undo, Restoring, UndoRecorded, AppliedPatches
<1>2. ASSUME NEW p \in Patches, Rollback(p) PROVE UndoRecorded'
  <2>1. PICK q \in Patches :
          UndoNext(q, {r \in AppliedPatches : /\ ledger[r].at >= ledger[p].at
                                              /\ ledger[r].snap # NoSnap})
    BY <1>2 DEF Rollback
  <2> QED
    BY <1>2, <2>1 DEF Rollback, UndoNext, Restoring, Newest, UndoRecorded, AppliedPatches
<1>3. ASSUME cmd \in UndoCmds, NEW f \in Files, RestoreFile(f) PROVE UndoRecorded'
  BY <1>3 DEF RestoreFile, UndoRecorded, InFlight, AppliedPatches
<1>4. ASSUME cmd \in UndoCmds, why = "undo", RestoreDone PROVE UndoRecorded'
  BY <1>4 DEF RestoreDone, UndoRecorded, InFlight, AppliedPatches, durable
<1>5. CASE RecordRolledBack
  <2>1. pc' = "mark" /\ sid' = sid /\ torn' = torn /\ cur' = cur /\ queue' = queue
    BY <1>5, RolledBack DEF RecordRolledBack
  <2>2. queue \subseteq AppliedPatches \ {cur} /\ sid = ledger[cur].snap
    BY <1>5, RolledBack DEF UndoRecorded, RecordRolledBack
  <2> QED
    BY <1>5, <2>1, <2>2, RolledBack DEF UndoRecorded, InFlight, AppliedPatches
<1>6. CASE cmd \in UndoCmds /\ MarkBegin
  BY <1>6 DEF MarkBegin, UndoRecorded, InFlight, AppliedPatches
<1>7. CASE cmd \in UndoCmds /\ MarkEnd
  <2>1. PICK q \in queue : /\ cur' = q /\ queue' = queue \ {q} /\ pc' = "restore"
                           /\ sid' = ledger[q].snap
    BY <1>7, MarkedUndone DEF AfterMark, UndoNext, Restoring, Newest
  <2>2. queue \subseteq AppliedPatches \ {cur}
    BY <1>7 DEF UndoRecorded, MarkEnd
  <2> QED
    BY <1>7, <2>1, <2>2, MarkedUndone DEF UndoRecorded, AppliedPatches
<1>8. CASE UNCHANGED vars
  BY <1>8 DEF vars, durable, call, UndoRecorded, InFlight, AppliedPatches
<1> QED
  BY <1>1, <1>2, <1>3, <1>4, <1>5, <1>6, <1>7, <1>8, UndoSteps DEF UndoStep

(* A rollback keeps on its list what was applied since its goal.             *)
LEMMA RollingBackStep ==
  ASSUME Recording, Sound, Stamps, UndoRecorded, RollingBack, [Next]_vars
  PROVE  RollingBack'
<1> SUFFICES ASSUME cmd' = "rollback", pc' # "idle" PROVE RollingBack'
  BY DEF RollingBack
<1>u. cmd' \in UndoCmds
  BY DEF UndoCmds
<1>t. \A p \in Patches : ledger[p].at \in Nat
  BY DEF Sound, TypeOK, Record
<1>1. ASSUME NEW p \in Patches, Undo(p) PROVE FALSE
  BY <1>1 DEF Undo
<1>2. ASSUME NEW p \in Patches, Rollback(p) PROVE RollingBack'
  <2> DEFINE S == {r \in AppliedPatches : ledger[r].at >= ledger[p].at /\ ledger[r].snap # NoSnap}
  <2>1. /\ goal' = p /\ ledger' = ledger /\ p \in AppliedPatches
        /\ \E q \in Patches : UndoNext(q, S)
    BY <1>2 DEF Rollback
  <2>2. PICK q \in S : cur' = q /\ queue' = S \ {q} /\ \A r \in S : ledger[r].at <= ledger[q].at
    BY <2>1 DEF UndoNext, Newest
  <2>3. \A r \in AppliedPatches : r \in S <=> ledger[r].at >= ledger[p].at
    BY PipelineAssumption DEF Sound, Guards, GoodRecord, AppliedPatches
  <2>4. goal' \in queue' \cup {cur'} /\ queue' \cup {cur'} = S
    BY <1>t, <2>1, <2>2, <2>3 DEF AppliedPatches
  <2>5. \A r \in S \ {q} : ledger[r].at < ledger[q].at
    <3>1. \A r \in S : r \in AppliedPatches /\ ledger[r].at \in Nat
      BY <1>t DEF AppliedPatches
    <3>2. \A r \in S \ {q} : ledger[r].at <= ledger[q].at /\ ledger[r].at # ledger[q].at
      BY <2>2, <3>1 DEF Stamps
    <3> HIDE DEF S
    <3> QED BY <2>2, <3>1, <3>2, Less
  <2>6. \A r \in S : ledger[r].at >= ledger[p].at
    OBVIOUS
  <2> HIDE DEF S
  <2> QED BY <2>1, <2>2, <2>3, <2>4, <2>5, <2>6 DEF RollingBack, AppliedPatches
<1>3. ASSUME NEW f \in Files, RestoreFile(f) PROVE RollingBack'
  BY <1>3 DEF RestoreFile, RollingBack, AppliedPatches, history
<1>4. ASSUME RestoreDone PROVE RollingBack'
  BY <1>4 DEF RestoreDone, RollingBack, AppliedPatches, durable, history
<1>5. CASE RecordRolledBack
  <2>1. cmd' = cmd /\ pc # "idle" /\ goal' = goal
    BY <1>5 DEF RecordRolledBack, history
  <2>2. \A q \in Patches : ledger'[q].at = ledger[q].at
    BY <1>5, RolledBack
  <2>3. AppliedPatches' \subseteq AppliedPatches
    BY <1>5, RolledBack DEF AppliedPatches
  <2>4. queue \cup {cur} \subseteq Patches /\ goal \in queue \cup {cur}
    BY <1>5, <2>1, RolledBack DEF Sound, TypeOK, RollingBack
  <2>5. queue' = queue /\ cur' = cur
    BY <1>5, RolledBack
  <2> QED BY <2>1, <2>2, <2>3, <2>4, <2>5 DEF RollingBack, AppliedPatches
<1>6. CASE MarkBegin
  BY <1>6 DEF MarkBegin, RollingBack, AppliedPatches, history
<1>7. CASE cmd \in UndoCmds /\ MarkEnd
  <2>1. cmd = "rollback" /\ pc # "idle" /\ goal' = goal
    BY <1>7, MarkedUndone DEF MarkEnd
  <2>2. PICK q \in queue : /\ cur' = q /\ queue' = queue \ {q}
                           /\ \A r \in queue : ledger[r].at <= ledger[q].at
    BY <1>7, MarkedUndone DEF AfterMark, UndoNext, Newest
  <2>3. queue \subseteq AppliedPatches /\ \A r \in Patches : ledger'[r].at = ledger[r].at
    BY <1>7, <2>1, MarkedUndone DEF UndoRecorded
  <2>4. AppliedPatches' \subseteq AppliedPatches \ {cur}
    BY <1>7, MarkedUndone DEF AppliedPatches
  <2>5. \A r \in queue \ {q} : ledger[r].at < ledger[q].at
    <3>1. \A r \in queue : r \in AppliedPatches /\ ledger[r].at \in Nat
      BY <1>t, <2>3 DEF AppliedPatches
    <3>2. \A r \in queue \ {q} : ledger[r].at <= ledger[q].at /\ ledger[r].at # ledger[q].at
      BY <2>2, <3>1 DEF Stamps
    <3> QED BY <2>2, <3>1, <3>2, Less
  <2>6. goal \in queue
    <3>1. cur \in Patches /\ goal \in queue \cup {cur} /\ ledger[q].at < ledger[cur].at
      BY <1>7, <2>1, <2>2, MarkedUndone DEF RollingBack
    <3>2. ledger[q].at >= ledger[goal].at
      BY <2>1, <2>2 DEF RollingBack
    <3>3. q \in Patches
      BY <2>2, <2>3 DEF AppliedPatches
    <3> QED BY <1>t, <3>1, <3>2, <3>3
  <2> QED BY <2>1, <2>2, <2>3, <2>4, <2>5, <2>6 DEF RollingBack, AppliedPatches
<1>8. CASE UNCHANGED vars
  BY <1>8 DEF vars, durable, call, history, RollingBack, AppliedPatches
<1> QED
  BY <1>u, <1>1, <1>2, <1>3, <1>4, <1>5, <1>6, <1>7, <1>8, UndoSteps DEF UndoStep

(* A rollback that ends has reached its goal.                                *)
LEMMA ReachedStep ==
  ASSUME Recording, Sound, Honest, UndoRecorded, RollingBack, RollbackReachesTarget, [Next]_vars
  PROVE  RollbackReachesTarget'
<1> SUFFICES ASSUME cmd' = "rollback", pc' = "idle", outcome' = "undone"
             PROVE  (/\ Restored(disk, ledger[goal].snap)
                     /\ \A p \in AppliedPatches : ledger[p].at < ledger[goal].at)'
  BY DEF RollbackReachesTarget
<1>u. cmd' \in UndoCmds
  BY DEF UndoCmds
<1>1. ASSUME NEW p \in Patches, Undo(p) \/ Rollback(p) PROVE FALSE
  BY <1>1 DEF Undo, Rollback, UndoNext
<1>2. ASSUME NEW f \in Files, RestoreFile(f) PROVE FALSE
  BY <1>2 DEF RestoreFile
<1>3. ASSUME RestoreDone, why = "undo" PROVE FALSE
  BY <1>3 DEF RestoreDone
<1>4. ASSUME RecordRolledBack \/ MarkBegin PROVE FALSE
  BY <1>4 DEF RecordRolledBack, MarkBegin
<1>5. CASE cmd \in UndoCmds /\ MarkEnd
  <2>1. /\ cmd = "rollback" /\ pc = "marking" /\ goal' = goal
        /\ disk' = disk /\ snaps' = snaps
    BY <1>5 DEF MarkEnd
  <2>2. queue = {} /\ goal = cur /\ outcome = "undone"
    BY <1>5, <2>1 DEF MarkEnd, AfterMark, UndoNext, RollingBack
  <2>3. sid = ledger[goal].snap /\ ledger'[goal].snap = sid
    BY <1>5, <2>1, <2>2, MarkedUndone DEF UndoRecorded
  <2>4. Restored(disk, sid)
    BY <2>2 DEF Honest, Progress
  <2>5. ASSUME NEW p \in AppliedPatches' PROVE ledger'[p].at < ledger'[goal].at
    <3>1. p \in AppliedPatches /\ p # goal /\ ledger'[p].at = ledger[p].at
      BY <1>5, <2>2, MarkedUndone DEF AppliedPatches
    <3>2. ~(ledger[p].at >= ledger[goal].at)
      BY <2>1, <2>2, <3>1 DEF RollingBack
    <3>3. ledger[p].at \in Nat /\ ledger[goal].at \in Nat /\ ledger'[goal].at = ledger[goal].at
      BY <1>5, <2>2, <3>1, MarkedUndone DEF Sound, TypeOK, Record, AppliedPatches
    <3> QED BY <3>1, <3>2, <3>3
  <2> QED BY <2>1, <2>3, <2>4, <2>5 DEF Restored
<1>6. CASE UNCHANGED vars
  BY <1>6 DEF vars, durable, call, history, RollbackReachesTarget, AppliedPatches, Restored
<1> QED
  BY <1>u, <1>1, <1>2, <1>3, <1>4, <1>5, <1>6, UndoSteps DEF UndoStep

LEMMA RollingInit == Init => Rolling
  BY DEF Init, Rolling, Stamps, UndoRecorded, RollingBack, RollbackReachesTarget, AppliedPatches,
    NoRecord

(* What every rollback rests on.                                             *)
THEOREM RollingAlways ==
  ASSUME Recording
  PROVE  Spec => [](Sound /\ Honest /\ Rolling)
<1>1. (Sound /\ Honest /\ Rolling) /\ [Next]_vars => (Sound /\ Honest /\ Rolling)'
  BY SoundStep, HonestStep, StampsStep, UndoRecordedStep, RollingBackStep, ReachedStep DEF Rolling
<1> QED
  BY SoundInit, HonestInit, RollingInit, <1>1, PTL DEF Spec

(* When p rollback reports success, nothing applied since its target is left  *)
(* in the records and the target's files hold what it replaced: whatever      *)
(* crashes, fails or is rejected, as long as records are written.             *)
THEOREM RollbackAlwaysReaches ==
  ASSUME Recording
  PROVE  Spec => []RollbackReachesTarget
<1> QED
  BY RollingAlways, PTL DEF Rolling

-----------------------------------------------------------------------------
(***************************************************************************)
(* Part 5. The records explain the tree.                                   *)
(***************************************************************************)
(* No patch is undone before the ones applied after it.                      *)
InSequence == Hazards \subseteq {"write", "win32"}

(* v is what f holds after the patches of S in the order of their stamps.    *)
Shows(S, at, f, v) ==
  \/ (\A p \in S : f \notin FilesOf(p)) /\ v = Original[f]
  \/ \E p \in S : /\ f \in FilesOf(p) /\ v = Change[p][f]
                  /\ \A q \in S : f \in FilesOf(q) => at[q] <= at[p]

(* The patches of A, stamped at, give tree; each replaced what those before  *)
(* it gave.                                                                  *)
Consistent(A, at, now, tree, kept) ==
  /\ \A p \in A : at[p] <= now
  /\ \A p, q \in A : at[p] = at[q] => p = q
  /\ \A f \in Files : Shows(A, at, f, tree[f])
  /\ \A p \in A : \A f \in FilesOf(p) : Shows({q \in A : at[q] < at[p]}, at, f, kept[p][f])

LEMMA ShowsSame ==
  ASSUME NEW S, NEW at, NEW bt, NEW f, NEW v, \A p \in S : bt[p] = at[p], Shows(S, at, f, v)
  PROVE  Shows(S, bt, f, v)
  BY DEF Shows

LEMMA ConsistentSame ==
  ASSUME NEW A \in SUBSET Patches, NEW at \in [Patches -> Nat], NEW now \in Nat, NEW tree, NEW kept,
         NEW bt \in [Patches -> Nat], NEW later \in Nat, NEW tree2, NEW kept2,
         Consistent(A, at, now, tree, kept), later >= now,
         \A p \in A : bt[p] = at[p] /\ kept2[p] = kept[p], \A f \in Files : tree2[f] = tree[f]
  PROVE  Consistent(A, bt, later, tree2, kept2)
<1>1. \A p \in A : bt[p] <= later
  BY DEF Consistent
<1>2. \A p, q \in A : bt[p] = bt[q] => p = q
  BY DEF Consistent
<1>3. \A f \in Files : Shows(A, bt, f, tree2[f])
  BY DEF Consistent, Shows
<1>4. ASSUME NEW p \in A, NEW f \in FilesOf(p)
      PROVE  Shows({q \in A : bt[q] < bt[p]}, bt, f, kept2[p][f])
  <2>1. {q \in A : bt[q] < bt[p]} = {q \in A : at[q] < at[p]}
    OBVIOUS
  <2>2. Shows({q \in A : at[q] < at[p]}, at, f, kept[p][f])
    BY DEF Consistent
  <2>3. Shows({q \in A : at[q] < at[p]}, bt, f, kept[p][f])
    BY <2>2, ShowsSame
  <2> QED BY <2>1, <2>3
<1> QED BY <1>1, <1>2, <1>3, <1>4 DEF Consistent

(* A patch goes in with the newest stamp, over the tree it replaces.         *)
LEMMA ConsistentIn ==
  ASSUME NEW A \in SUBSET Patches, NEW at \in [Patches -> Nat], NEW now \in Nat, NEW tree, NEW kept,
         NEW bt \in [Patches -> Nat], NEW later \in Nat, NEW tree2, NEW kept2, NEW c \in Patches \ A,
         Consistent(A, at, now, tree, kept), later = now + 1, bt[c] = now + 1,
         \A p \in A : bt[p] = at[p] /\ kept2[p] = kept[p],
         \A f \in Files : tree2[f] = IF f \in FilesOf(c) THEN Change[c][f] ELSE tree[f],
         \A f \in FilesOf(c) : kept2[c][f] = tree[f]
  PROVE  Consistent(A \cup {c}, bt, later, tree2, kept2)
<1>1. \A p \in A \cup {c} : bt[p] <= later
  BY DEF Consistent
<1>n. \A p \in A : bt[p] < bt[c]
  BY DEF Consistent
<1>2. \A p, q \in A \cup {c} : bt[p] = bt[q] => p = q
  BY <1>n DEF Consistent
<1>3. \A f \in Files : Shows(A \cup {c}, bt, f, tree2[f])
  BY <1>n DEF Consistent, Shows
<1>4. ASSUME NEW p \in A \cup {c}, NEW f \in FilesOf(p)
      PROVE  Shows({q \in A \cup {c} : bt[q] < bt[p]}, bt, f, kept2[p][f])
  <2>1. CASE p = c
    <3>1. {q \in A \cup {c} : bt[q] < bt[p]} = A
      BY <1>n, <2>1
    <3>2. f \in Files /\ Shows(A, at, f, tree[f])
      BY <2>1, FilesOfPatch DEF Consistent
    <3>3. Shows(A, bt, f, tree[f])
      BY <3>2, ShowsSame
    <3>4. kept2[p][f] = tree[f]
      BY <2>1
    <3> QED BY <3>1, <3>3, <3>4
  <2>2. CASE p \in A
    <3>1. {q \in A \cup {c} : bt[q] < bt[p]} = {q \in A : at[q] < at[p]}
      BY <1>n, <2>2
    <3>2. Shows({q \in A : at[q] < at[p]}, at, f, kept[p][f])
      BY <2>2 DEF Consistent
    <3>3. Shows({q \in A : at[q] < at[p]}, bt, f, kept[p][f])
      BY <3>2, ShowsSame
    <3> QED BY <2>2, <3>1, <3>3
  <2> QED BY <2>1, <2>2
<1> QED BY <1>1, <1>2, <1>3, <1>4 DEF Consistent

(* The newest patch comes out: what it replaced is what the others show.     *)
LEMMA ConsistentOut ==
  ASSUME NEW A \in SUBSET Patches, NEW at \in [Patches -> Nat], NEW now \in Nat, NEW tree, NEW kept,
         NEW bt \in [Patches -> Nat], NEW later \in Nat, NEW tree2, NEW kept2, NEW c \in A,
         Consistent(A, at, now, tree, kept), later >= now, \A p \in A : at[p] <= at[c],
         \A p \in A \ {c} : bt[p] = at[p] /\ kept2[p] = kept[p],
         \A f \in Files : tree2[f] = IF f \in FilesOf(c) THEN kept[c][f] ELSE tree[f]
  PROVE  Consistent(A \ {c}, bt, later, tree2, kept2)
<1>1. \A p \in A \ {c} : bt[p] <= later
  BY DEF Consistent
<1>2. \A p, q \in A \ {c} : bt[p] = bt[q] => p = q
  BY DEF Consistent
<1>n. {q \in A : at[q] < at[c]} = A \ {c}
  BY DEF Consistent
<1>3. ASSUME NEW f \in Files PROVE Shows(A \ {c}, bt, f, tree2[f])
  <2>1. CASE f \in FilesOf(c)
    <3>1. Shows(A \ {c}, at, f, kept[c][f])
      BY <1>n, <2>1 DEF Consistent
    <3>2. Shows(A \ {c}, bt, f, kept[c][f])
      BY <3>1, ShowsSame
    <3> QED BY <2>1, <3>2
  <2>2. CASE f \notin FilesOf(c)
    <3>1. Shows(A, at, f, tree[f])
      BY DEF Consistent
    <3>2. Shows(A \ {c}, at, f, tree[f])
      BY <2>2, <3>1 DEF Shows
    <3>3. Shows(A \ {c}, bt, f, tree[f])
      BY <3>2, ShowsSame
    <3> QED BY <2>2, <3>3
  <2> QED BY <2>1, <2>2
<1>4. ASSUME NEW p \in A \ {c}, NEW f \in FilesOf(p)
      PROVE  Shows({q \in A \ {c} : bt[q] < bt[p]}, bt, f, kept2[p][f])
  <2>1. {q \in A \ {c} : bt[q] < bt[p]} = {q \in A : at[q] < at[p]}
    OBVIOUS
  <2>2. Shows({q \in A : at[q] < at[p]}, at, f, kept[p][f])
    BY DEF Consistent
  <2>3. Shows({q \in A : at[q] < at[p]}, bt, f, kept[p][f])
    BY <2>1, <2>2, ShowsSame
  <2> QED BY <2>1, <2>3
<1> QED BY <1>1, <1>2, <1>3, <1>4 DEF Consistent

(* The newest patch is stamped again.                                        *)
LEMMA ConsistentAgain ==
  ASSUME NEW A \in SUBSET Patches, NEW at \in [Patches -> Nat], NEW now \in Nat, NEW tree, NEW kept,
         NEW bt \in [Patches -> Nat], NEW later \in Nat, NEW tree2, NEW kept2, NEW c \in A,
         Consistent(A, at, now, tree, kept), later = now + 1, bt[c] = now + 1,
         \A p \in A : at[p] <= at[c],
         \A p \in A \ {c} : bt[p] = at[p], \A p \in A : kept2[p] = kept[p],
         \A f \in Files : tree2[f] = tree[f]
  PROVE  Consistent(A, bt, later, tree2, kept2)
<1>1. \A p \in A : bt[p] <= later
  BY DEF Consistent
<1>2. \A p, q \in A : (bt[p] < bt[q] <=> at[p] < at[q]) /\ (bt[p] = bt[q] => p = q)
  BY DEF Consistent
<1>3. ASSUME NEW f \in Files PROVE Shows(A, bt, f, tree2[f])
  <2>1. Shows(A, at, f, tree2[f])
    BY DEF Consistent
  <2>2. \A p, q \in A : at[p] <= at[q] <=> bt[p] <= bt[q]
    BY <1>2
  <2> QED BY <2>1, <2>2 DEF Shows
<1>4. ASSUME NEW p \in A, NEW f \in FilesOf(p)
      PROVE  Shows({q \in A : bt[q] < bt[p]}, bt, f, kept2[p][f])
  <2>1. {q \in A : bt[q] < bt[p]} = {q \in A : at[q] < at[p]}
    BY <1>2
  <2>2. Shows({q \in A : at[q] < at[p]}, at, f, kept[p][f])
    BY DEF Consistent
  <2>3. \A q \in A : at[q] < at[p] => bt[q] = at[q]
    BY DEF Consistent
  <2>4. Shows({q \in A : at[q] < at[p]}, bt, f, kept[p][f])
    BY <2>2, <2>3, ShowsSame
  <2> QED BY <2>1, <2>4
<1> QED BY <1>1, <1>2, <1>3, <1>4 DEF Consistent

-----------------------------------------------------------------------------
(* A stamp is the newest, and only an apply or the mark of a redo sets one.  *)
Dated ==
  /\ clock' >= clock
  /\ \A p \in AppliedPatches' :
       \/ p \in AppliedPatches /\ ledger'[p].at = ledger[p].at
       \/ /\ p = cur /\ ledger'[p].at = clock + 1 /\ clock' = clock + 1
          /\ p \in AppliedPatches => cmd = "redo" /\ pc = "marking"

(* Stamps only grow.                                                         *)
LEMMA DatesStep ==
  ASSUME Calm, Sound, Honest, Steady, [Next]_vars
  PROVE  Dated
<1> USE Calm, Sound, Honest, Steady, FixAssumption, PipelineAssumption, SnapshotFacts, FilesOfPatch
    DEF Calm, Sound, TypeOK, Shape, Guards, GoodRecord, Steady, ApplyRecords, UndoRecords,
       MarkRecords,
        Orderly, InFlight, AppliedPatches, ApplyCmds, UndoCmds, Tree, Record, durable, call, history, Dated
<1>1. ASSUME NEW p \in Patches, StartFix(p) PROVE Dated
  BY <1>1 DEF StartFix, Begin, SavePatch
<1>2. ASSUME NEW p \in Patches, QueueFix(p) PROVE Dated
  BY <1>2 DEF QueueFix, Begin, SavePatch
<1>3. ASSUME NEW p \in Patches, Accept(p) PROVE Dated
  BY <1>3 DEF Accept, Begin
<1>4. ASSUME NEW p \in Patches, Reject(p) PROVE Dated
  BY <1>4 DEF Reject, Begin
<1>5. ASSUME NEW p \in Patches, Undo(p) PROVE Dated
  BY <1>5 DEF Undo, Restoring, Newest
<1>6. ASSUME NEW p \in Patches, Redo(p) PROVE Dated
  BY <1>6 DEF Redo, Begin
<1>7. ASSUME NEW p \in Patches, Rollback(p) PROVE Dated
  BY <1>7 DEF Rollback, UndoNext, Restoring, Newest
<1>8. CASE ApplyRefused
  BY <1>8 DEF ApplyRefused, NotApplied
<1>9. ASSUME NEW s \in SnapIds, TakeSnapshot(s) PROVE Dated
  BY <1>9 DEF TakeSnapshot
<1>10. ASSUME NEW f \in Files, WriteFile(f) PROVE Dated
  BY <1>10 DEF WriteFile
<1>11. CASE WritesDone
  BY <1>11 DEF WritesDone
<1>12. CASE WriteBlocked
  BY <1>12 DEF WriteBlocked, StartRestore
<1>13. ASSUME NEW f \in Files, WriteFails(f) PROVE Dated
  BY <1>13 DEF WriteFails, StartRestore
<1>14. CASE ChecksPass
  BY <1>14 DEF ChecksPass
<1>15. CASE ChecksFail
  BY <1>15 DEF ChecksFail, StartRestore
<1>16. ASSUME NEW f \in Files, RestoreFile(f) PROVE Dated
  BY <1>16 DEF RestoreFile
<1>17. CASE RestoreDone
  BY <1>17 DEF RestoreDone, NotApplied
<1>18. CASE RecordApplied
  <2>1. /\ TypeOK /\ cur \in Patches /\ ~torn /\ ledger[cur].state # "none"
        /\ UpdatePatchState("applied")
    BY <1>18 DEF RecordApplied
  <2>2. /\ \A q \in Patches : q # cur => ledger'[q] = ledger[q]
        /\ ledger'[cur].state = "applied" /\ clock' = clock + 1
        /\ ledger'[cur].at = IF "applied" = "applied" THEN clock + 1 ELSE ledger[cur].at
    <3> HIDE DEF TypeOK
    <3> QED BY <2>1, Recorded DEF States
  <2> QED BY <1>18, <2>1, <2>2 DEF RecordApplied
<1>19. CASE RecordFailed
  <2>1. /\ TypeOK /\ cur \in Patches /\ ~torn /\ ledger[cur].state # "none"
        /\ UpdatePatchState("failed")
    BY <1>19 DEF RecordFailed
  <2>2. /\ \A q \in Patches : q # cur => ledger'[q] = ledger[q]
        /\ ledger'[cur].state = "failed" /\ clock' = clock + 1
        /\ ledger'[cur].at = IF "failed" = "applied" THEN clock + 1 ELSE ledger[cur].at
    <3> HIDE DEF TypeOK
    <3> QED BY <2>1, Recorded DEF States
  <2> QED BY <1>19, <2>1, <2>2 DEF RecordFailed
<1>20. CASE RecordRolledBack
  <2>1. /\ TypeOK /\ cur \in Patches /\ ~torn /\ ledger[cur].state # "none"
        /\ UpdatePatchState("rolled_back")
    BY <1>20 DEF RecordRolledBack
  <2>2. /\ \A q \in Patches : q # cur => ledger'[q] = ledger[q]
        /\ ledger'[cur].state = "rolled_back" /\ clock' = clock + 1
        /\ ledger'[cur].at = IF "rolled_back" = "applied" THEN clock + 1 ELSE ledger[cur].at
    <3> HIDE DEF TypeOK
    <3> QED BY <2>1, Recorded DEF States
  <2> QED BY <1>20, <2>1, <2>2 DEF RecordRolledBack
<1>21. CASE MarkBegin
  BY <1>21 DEF MarkBegin
<1>22. CASE MarkEnd
  <2>1. TypeOK /\ cur \in Patches
    BY <1>22 DEF MarkEnd
  <2>2. /\ \A q \in Patches : q # cur => ledger'[q] = ledger[q]
        /\ ledger'[cur].state = MarkState /\ clock' = clock + 1
        /\ ledger'[cur].at = IF MarkState = "applied" THEN clock + 1 ELSE ledger[cur].at
    <3> HIDE DEF TypeOK
    <3> QED BY <1>22, <2>1, MarkedAs
  <2> QED BY <1>22, <2>1, <2>2 DEF MarkEnd, MarkState
<1>23. CASE UNCHANGED vars
  BY <1>23 DEF vars
<1> QED
  BY <1>1, <1>2, <1>3, <1>4, <1>5, <1>6, <1>7, <1>8, <1>9, <1>10, <1>11, <1>12, <1>13, <1>14,
     <1>15, <1>16, <1>17, <1>18, <1>19, <1>20, <1>21, <1>22, <1>23, CalmSteps

Dates == [p \in Patches |-> ledger[p].at]
Keeps == [p \in Patches |-> Kept(p)]

Replays == Consistent(AppliedPatches, Dates, clock, UserTree, Keeps)

(* The patch that is undone, or marked as done again, is the newest.         *)
InOrder ==
  (cmd \in UndoCmds /\ InFlight) \/ (cmd = "redo" /\ pc \in {"mark", "marking"}) =>
    \A q \in AppliedPatches : ledger[q].at <= ledger[cur].at

(* An applied patch is one of which what it replaced is kept.                *)
WellKept ==
  /\ \A p \in Patches : p \in AppliedPatches <=> Kept(p) # NoSnap
  /\ AppliedPatches \in SUBSET Patches /\ Dates \in [Patches -> Nat] /\ clock \in Nat

LEMMA AppliedIsKept == Sound => WellKept
<1> SUFFICES ASSUME Sound PROVE WellKept
  OBVIOUS
<1>1. ASSUME NEW p \in AppliedPatches PROVE Kept(p) # NoSnap
  <2>1. snaps[ledger[p].snap] \in Snapshot
    BY DEF Sound, TypeOK, Guards, GoodRecord, AppliedPatches
  <2>2. snaps[ledger[p].snap].files \in {s.files : s \in Snapshot}
    BY <2>1
  <2> QED BY <2>2, PipelineAssumption DEF Kept, AppliedPatches
<1>2. \A p \in Patches \ AppliedPatches : Kept(p) = NoSnap
  BY DEF Kept, AppliedPatches
<1> QED BY <1>1, <1>2 DEF WellKept, Sound, TypeOK, Record, Dates, AppliedPatches

(* The records go on explaining the tree.                                    *)
LEMMA ReplaysStep ==
  ASSUME InSequence, Sound, Honest, Steady, Replays, InOrder, [Next]_vars
  PROVE  Replays'
<1>c. Calm
  BY DEF InSequence, Calm
<1>1. Sound' /\ Dated /\ Changes
  BY <1>c, SoundStep, DatesStep, TreeStep
<1>2. /\ AppliedPatches \in SUBSET Patches /\ Dates \in [Patches -> Nat] /\ clock \in Nat
      /\ \A p \in Patches : p \in AppliedPatches <=> Kept(p) # NoSnap
  BY AppliedIsKept DEF WellKept
<1>3. /\ AppliedPatches' \in SUBSET Patches /\ Dates' \in [Patches -> Nat] /\ clock' \in Nat
      /\ \A p \in Patches : p \in AppliedPatches' <=> Kept(p)' # NoSnap
  <2>1. WellKept'
    BY <1>1, AppliedIsKept, PTL
  <2> QED BY <2>1 DEF WellKept
<1>4. \A p \in Patches : /\ Dates[p] = ledger[p].at /\ Dates'[p] = ledger'[p].at
                         /\ Keeps[p] = Kept(p) /\ Keeps'[p] = Kept(p)'
  BY DEF Dates, Keeps
<1>t. DOMAIN UserTree = Files
  BY DEF UserTree, Sound, TypeOK, Tree
<1>5. Consistent(AppliedPatches, Dates, clock, UserTree, Keeps)
  BY DEF Replays
<1> HIDE DEF AppliedPatches, Dates, Keeps, UserTree, Kept
<1>6. CASE Stands
  <2>1. AppliedPatches' = AppliedPatches /\ UserTree' = UserTree
    BY <1>2, <1>3, <1>6 DEF Stands
  <2>2. CASE \A p \in AppliedPatches : Dates'[p] = Dates[p]
    <3>1. \A p \in AppliedPatches : Keeps'[p] = Keeps[p]
      BY <1>2, <1>4, <1>6 DEF Stands
    <3>2. clock' >= clock
      BY <1>1 DEF Dated
    <3>3. Consistent(AppliedPatches, Dates', clock', UserTree', Keeps')
      BY <1>2, <1>3, <1>5, <2>1, <2>2, <3>1, <3>2, ConsistentSame
    <3> QED BY <2>1, <3>3 DEF Replays
  <2>3. CASE \E p \in AppliedPatches : Dates'[p] # Dates[p]
    <3>1. PICK c \in AppliedPatches : Dates'[c] # Dates[c]
      BY <2>3
    <3>2. c = cur /\ Dates'[c] = clock + 1 /\ clock' = clock + 1 /\ cmd = "redo" /\ pc = "marking"
      BY <1>1, <1>2, <1>4, <2>1, <3>1 DEF Dated
    <3>3. \A p \in AppliedPatches \ {c} : Dates'[p] = Dates[p]
      BY <1>1, <1>2, <1>4, <2>1, <3>2 DEF Dated
    <3>4. \A p \in AppliedPatches : Dates[p] <= Dates[c]
      BY <1>2, <1>4, <3>2 DEF InOrder
    <3>5. \A p \in AppliedPatches : Keeps'[p] = Keeps[p]
      BY <1>2, <1>4, <1>6 DEF Stands
    <3>6. Consistent(AppliedPatches, Dates', clock', UserTree', Keeps')
      BY <1>2, <1>3, <1>5, <2>1, <3>2, <3>3, <3>4, <3>5, ConsistentAgain
    <3> QED BY <2>1, <3>6 DEF Replays
  <2> QED BY <2>2, <2>3
<1>7. ASSUME NEW c \in Patches, GoesIn(c) PROVE Replays'
  <2>1. c \in Patches \ AppliedPatches
    BY <1>2, <1>7 DEF GoesIn
  <2>2. Kept(c)' # NoSnap
    <3>1. Capture(UserTree, FilesOf(c)) \in [FilesOf(c) -> Value]
      BY CaptureType DEF UserTree, Sound, TypeOK
    <3>2. [patch |-> c, files |-> Kept(c)'] \in Snapshot
      BY <1>7, <3>1, SnapshotMade DEF GoesIn
    <3>3. Kept(c)' \in {s.files : s \in Snapshot}
      BY <3>2
    <3> QED BY <3>3, PipelineAssumption
  <2>3. AppliedPatches' = AppliedPatches \cup {c}
    BY <1>2, <1>3, <1>7, <2>2 DEF GoesIn
  <2>4. clock' = clock + 1 /\ Dates'[c] = clock + 1 /\ c = cur
    BY <1>1, <1>4, <2>1, <2>3 DEF Dated
  <2>5. \A p \in AppliedPatches : Dates'[p] = Dates[p] /\ Keeps'[p] = Keeps[p]
    BY <1>1, <1>2, <1>4, <1>7, <2>1, <2>3, <2>4 DEF Dated, GoesIn
  <2>6. \A f \in Files : UserTree'[f] = IF f \in FilesOf(c) THEN Change[c][f] ELSE UserTree[f]
    BY <1>7, <1>t DEF GoesIn, Overlay, FilesOf
  <2>7. \A f \in FilesOf(c) : Keeps'[c][f] = UserTree[f]
    BY <1>4, <1>7 DEF GoesIn, Capture
  <2>8. Consistent(AppliedPatches \cup {c}, Dates', clock', UserTree', Keeps')
    BY <1>2, <1>3, <1>5, <2>1, <2>4, <2>5, <2>6, <2>7, ConsistentIn
  <2> QED BY <2>3, <2>8 DEF Replays
<1>8. ASSUME NEW c \in Patches, ComesOut(c) PROVE Replays'
  <2>1. c \in AppliedPatches /\ AppliedPatches' = AppliedPatches \ {c}
    BY <1>2, <1>3, <1>8 DEF ComesOut
  <2>2. \A p \in AppliedPatches : Dates[p] <= Dates[c]
    BY <1>2, <1>4, <1>8 DEF ComesOut, InOrder
  <2>3. c = cur /\ clock' >= clock
    BY <1>1, <1>8 DEF ComesOut, Dated
  <2>4. \A p \in AppliedPatches \ {c} : Dates'[p] = Dates[p] /\ Keeps'[p] = Keeps[p]
    BY <1>1, <1>2, <1>4, <1>8, <2>1, <2>3 DEF Dated, ComesOut
  <2>5. \A f \in Files : UserTree'[f] = IF f \in FilesOf(c) THEN Keeps[c][f] ELSE UserTree[f]
    <3>1. DOMAIN Kept(c) = FilesOf(c)
      BY <2>1 DEF Kept, AppliedPatches, Sound, Guards, GoodRecord
    <3> QED BY <1>4, <1>8, <1>t, <3>1 DEF ComesOut, Overlay
  <2>6. Consistent(AppliedPatches \ {c}, Dates', clock', UserTree', Keeps')
    BY <1>2, <1>3, <1>5, <2>1, <2>2, <2>3, <2>4, <2>5, ConsistentOut
  <2> QED BY <2>1, <2>6 DEF Replays
<1> QED BY <1>1, <1>6, <1>7, <1>8 DEF Changes
-----------------------------------------------------------------------------
(* Only the newest patch is undone.                                          *)
LEMMA InOrderStep ==
  ASSUME InSequence, Sound, Honest, Steady, Stamps, InOrder, RollingBack, [Next]_vars
  PROVE  InOrder'
<1>c. Calm
  BY DEF Calm, InSequence
<1> USE <1>c, InSequence, Sound, Honest, Steady, Stamps, InOrder, RollingBack, PipelineAssumption
    DEF InSequence, Sound, TypeOK, Shape, Guards, GoodRecord, Steady, ApplyRecords, UndoRecords,
        MarkRecords, Orderly, InFlight, AppliedPatches, ApplyCmds, UndoCmds, Record, Stamps, InOrder,
        RollingBack, durable, call, history
<1>1. ASSUME NEW p \in Patches, StartFix(p) PROVE InOrder'
  BY <1>1 DEF StartFix, Begin, SavePatch
<1>2. ASSUME NEW p \in Patches, QueueFix(p) PROVE InOrder'
  BY <1>2 DEF QueueFix, Begin, SavePatch
<1>3. ASSUME NEW p \in Patches, Accept(p) PROVE InOrder'
  BY <1>3 DEF Accept, Begin
<1>4. ASSUME NEW p \in Patches, Reject(p) PROVE InOrder'
  BY <1>4 DEF Reject, Begin
<1>5. ASSUME NEW p \in Patches, Undo(p) PROVE InOrder'
  BY <1>5 DEF Undo, Restoring, Newest
<1>6. ASSUME NEW p \in Patches, Redo(p) PROVE InOrder'
  BY <1>6 DEF Redo, Begin
<1>7. ASSUME NEW p \in Patches, Rollback(p) PROVE InOrder'
  BY <1>7 DEF Rollback, UndoNext, Restoring, Newest
<1>8. CASE ApplyRefused
  BY <1>8 DEF ApplyRefused, NotApplied
<1>9. ASSUME NEW s \in SnapIds, TakeSnapshot(s) PROVE InOrder'
  BY <1>9 DEF TakeSnapshot
<1>10. ASSUME NEW f \in Files, WriteFile(f) PROVE InOrder'
  BY <1>10 DEF WriteFile
<1>11. CASE WritesDone
  BY <1>11 DEF WritesDone
<1>12. CASE WriteBlocked
  BY <1>12 DEF WriteBlocked, StartRestore
<1>13. ASSUME NEW f \in Files, WriteFails(f) PROVE InOrder'
  BY <1>13 DEF WriteFails, StartRestore
<1>14. CASE ChecksPass
  BY <1>14 DEF ChecksPass
<1>15. CASE ChecksFail
  BY <1>15 DEF ChecksFail, StartRestore
<1>16. ASSUME NEW f \in Files, RestoreFile(f) PROVE InOrder'
  BY <1>16 DEF RestoreFile
<1>17. CASE RestoreDone
  BY <1>17 DEF RestoreDone, NotApplied
<1>18. CASE RecordApplied
  <2>1. /\ TypeOK /\ cur \in Patches /\ ~torn /\ ledger[cur].state # "none"
        /\ UpdatePatchState("applied")
    BY <1>18 DEF RecordApplied
  <2>2. /\ \A q \in Patches : q # cur => ledger'[q] = ledger[q]
        /\ ledger'[cur].state = "applied" /\ ledger'[cur].snap = sid
        /\ ledger'[cur].at = IF "applied" = "applied" THEN clock + 1 ELSE ledger[cur].at
    <3> HIDE DEF TypeOK
    <3> QED BY <2>1, Recorded DEF States
  <2> QED BY <1>18, <2>1, <2>2 DEF RecordApplied, Applied
<1>19. CASE RecordFailed
  <2>1. /\ TypeOK /\ cur \in Patches /\ ~torn /\ ledger[cur].state # "none"
        /\ UpdatePatchState("failed")
    BY <1>19 DEF RecordFailed
  <2>2. /\ \A q \in Patches : q # cur => ledger'[q] = ledger[q]
        /\ ledger'[cur].state = "failed" /\ ledger'[cur].snap = sid
        /\ ledger'[cur].at = IF "failed" = "applied" THEN clock + 1 ELSE ledger[cur].at
    <3> HIDE DEF TypeOK
    <3> QED BY <2>1, Recorded DEF States
  <2> QED BY <1>19, <2>1, <2>2 DEF RecordFailed, NotApplied
<1>20. CASE RecordRolledBack
  <2>1. /\ TypeOK /\ cur \in Patches /\ ~torn /\ ledger[cur].state # "none"
        /\ UpdatePatchState("rolled_back")
    BY <1>20 DEF RecordRolledBack
  <2>2. /\ \A q \in Patches : q # cur => ledger'[q] = ledger[q]
        /\ ledger'[cur].state = "rolled_back" /\ ledger'[cur].snap = sid
        /\ ledger'[cur].at = IF "rolled_back" = "applied" THEN clock + 1 ELSE ledger[cur].at
    <3> HIDE DEF TypeOK
    <3> QED BY <2>1, Recorded DEF States
  <2> QED BY <1>20, <2>1, <2>2 DEF RecordRolledBack
<1>21. CASE MarkBegin
  BY <1>21 DEF MarkBegin
<1>22. CASE MarkEnd
  <2>1. TypeOK /\ cur \in Patches
    BY <1>22 DEF MarkEnd
  <2>2. /\ \A q \in Patches : q # cur => ledger'[q] = ledger[q]
        /\ ledger'[cur].state = MarkState /\ ledger'[cur].snap = ledger[cur].snap
        /\ ledger'[cur].at = IF MarkState = "applied" THEN clock + 1 ELSE ledger[cur].at
    <3> HIDE DEF TypeOK
    <3> QED BY <1>22, <2>1, MarkedAs
  <2> QED BY <1>22, <2>1, <2>2 DEF MarkEnd, MarkState, AfterMark, UndoNext, Restoring, Newest
<1>23. CASE UNCHANGED vars
  BY <1>23 DEF vars
<1> QED
  BY <1>1, <1>2, <1>3, <1>4, <1>5, <1>6, <1>7, <1>8, <1>9, <1>10, <1>11, <1>12, <1>13, <1>14,
     <1>15, <1>16, <1>17, <1>18, <1>19, <1>20, <1>21, <1>22, <1>23, CalmSteps

-----------------------------------------------------------------------------
History == Replays /\ InOrder

LEMMA HistoryInit == Init => History
<1> SUFFICES ASSUME Init PROVE History
  OBVIOUS
<1>1. AppliedPatches = {} /\ UserTree = Original
  BY DEF Init, AppliedPatches, NoRecord, UserTree, InFlight
<1>2. Replays
  BY <1>1 DEF Replays, Consistent, Shows
<1> QED
  BY <1>1, <1>2 DEF Init, History, InOrder, InFlight, UndoCmds

(* The invariant behind the next theorem.                                    *)
THEOREM HistoryAlways ==
  ASSUME InSequence
  PROVE  Spec => [](Sound /\ Steady /\ Rolling /\ History)
<1>1. (Sound /\ Honest /\ Rolling) /\ Steady /\ History /\ [Next]_vars => (Steady /\ History)'
  <2>1. Calm
    BY DEF Calm, InSequence
  <2> QED
    BY <2>1, SteadyStep, ReplaysStep, InOrderStep DEF History, Rolling
<1>2. Recording
  BY DEF Recording, InSequence
<1> QED
  BY <1>2, RollingAlways, SteadyInit, HistoryInit, <1>1, PTL DEF Spec

(* Whatever mix of fixes, failed fixes, undos, redos and rollbacks led to it, *)
(* the tree between two commands is the original with the applied patches     *)
(* replayed in the order of their stamps.                                     *)
THEOREM TreeAlwaysReplays ==
  ASSUME InSequence
  PROVE  Spec => []TreeIsReplay
<1>1. ASSUME Sound, Stamps, Replays PROVE TreeIsReplay
  <2> SUFFICES ASSUME pc = "idle", NEW f \in Files PROVE disk[f] = Replayed(f)
    BY DEF TreeIsReplay
  <2> DEFINE writers == {p \in AppliedPatches : f \in FilesOf(p)}
  <2>2. Shows(AppliedPatches, Dates, f, disk[f])
    BY <1>1 DEF Replays, Consistent, UserTree, InFlight
  <2>3. CASE writers = {}
    BY <2>2, <2>3 DEF Shows, Replayed
  <2>4. CASE writers # {}
    <3>1. PICK p \in writers : disk[f] = Change[p][f] /\ Newest(p, writers)
      BY <2>2, <2>4 DEF Shows, Newest, Dates, AppliedPatches
    <3>2. ASSUME NEW q \in writers, Newest(q, writers) PROVE q = p
      <4>1. p \in AppliedPatches /\ q \in AppliedPatches
        OBVIOUS
      <4>2. ledger[q].at <= ledger[p].at /\ ledger[p].at <= ledger[q].at
        BY <3>1, <3>2 DEF Newest
      <4>3. ledger[p].at \in Nat /\ ledger[q].at \in Nat
        BY <1>1, <4>1 DEF Sound, TypeOK, Record, AppliedPatches
      <4>4. ledger[p].at = ledger[q].at
        BY <4>2, <4>3
      <4> QED BY <1>1, <4>1, <4>4 DEF Stamps
    <3>3. (CHOOSE q \in writers : Newest(q, writers)) = p
      BY <3>1, <3>2
    <3> QED BY <2>4, <3>1, <3>3 DEF Replayed
  <2> QED BY <2>3, <2>4
<1> QED
  BY HistoryAlways, <1>1, PTL DEF Rolling, History
=============================================================================
