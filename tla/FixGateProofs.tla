---------------------------- MODULE FixGateProofs ----------------------------
(***************************************************************************)
(* Proofs about RiskGate and FixGate, for every set of patches, files,     *)
(* editors and changes, and a day of any length.                           *)
(***************************************************************************)
EXTENDS FixGate, TLAPS

LEMMA ModRange ==
  ASSUME NEW a \in Int, a > -Day, a < Day
  PROVE  a % Day = IF a >= 0 THEN a ELSE a + Day
  BY GateAssumption

(* The quiet hours, read as the minutes from start up to end around the
   clock, are what risk_gate.py's two comparisons compute.                   *)
THEOREM QuietIsTheWindow ==
  ASSUME NEW w \in Windows, NEW m \in Minutes
  PROVE  InQuiet(w, m) <=> w.enabled /\ (m - w.start) % Day < (w.end - w.start) % Day
  BY GateAssumption, ModRange DEF InQuiet, Windows, Minutes

LEMMA ChangedConfig ==
  ASSUME NEW c \in Configs, NEW ch \in Changes
  PROVE  Changed(c, ch) \in Configs
<1>1. CASE ch.kind = "mode"
  BY <1>1, FixGateAssumption DEF Changed, Configs, Change
<1>2. CASE ch.kind = "restrict"
  BY <1>2, FixGateAssumption DEF Changed, Configs, Change
<1>3. CASE ch.kind = "lift"
  BY <1>3, FixGateAssumption DEF Changed, Configs, Change
<1>4. CASE ch.kind = "quiet"
  BY <1>4, FixGateAssumption DEF Changed, Configs, Change
<1> QED
  BY <1>1, <1>2, <1>3, <1>4, FixGateAssumption DEF Change

(* Whatever is being verified is not a test-only patch.                      *)
NoTestOnTrial == trying # Nobody => trying.patch \notin TestOnly

GateInv == TypeOK /\ TestEditsNeedAPerson /\ NoTestOnTrial

LEMMA GateInit == Init => GateInv
<1> SUFFICES ASSUME Init PROVE GateInv
  OBVIOUS
<1> USE GateAssumption, FixGateAssumption DEF Init, NoEvent
<1>1. DefaultConfig \in Configs /\ now \in Minutes
  BY DEF DefaultConfig, Configs, Windows, Minutes, Modes
<1>2. gate \in [config : Configs, contract : BOOLEAN]
  BY <1>1
<1>3. draft \in [Editors -> [config : Configs, change : Changes] \cup {Nobody}]
  OBVIOUS
<1>4. record \in [Patches -> States] /\ event \in [patch : Patches \cup {Nobody}, by : Ways]
  BY DEF States, Ways
<1>5. /\ edits \in 0 .. MaxEdits
      /\ todo = {} /\ shown = {} /\ trying = Nobody /\ config \in Configs
  BY <1>1
<1>6. writing \in BOOLEAN /\ safeAll \in BOOLEAN /\ contract \in BOOLEAN
  BY Zenon
<1>7. TypeOK
  BY <1>1, <1>2, <1>3, <1>4, <1>5, <1>6 DEF TypeOK
<1> QED
  BY <1>7 DEF GateInv, TestEditsNeedAPerson, NoTestOnTrial

LEMMA AppliedTypes ==
  ASSUME TypeOK, NEW p \in Patches, NEW by \in Ways, NEW refused \in States, Apply(p, by, refused)
  PROVE  /\ record' \in [Patches -> States]
         /\ event' \in [patch : Patches \cup {Nobody}, by : Ways]
         /\ event' = NoEvent \/ event' = [patch |-> p, by |-> by]
  BY DEF TypeOK, Apply, NoEvent, States, Ways

LEMMA GateStep ==
  ASSUME GateInv, [Next]_vars
  PROVE  GateInv'
<1> USE GateAssumption, FixGateAssumption
    DEF GateInv, TypeOK, TestEditsNeedAPerson, ByAPerson, NoTestOnTrial, NoEvent, users, fix
<1>1. ASSUME NEW e \in Editors, SaveConfig(e) PROVE GateInv'
  <2>1. draft[e] \in [config : Configs, change : Changes]
    BY <1>1 DEF SaveConfig
  <2>2. Changed(draft[e].config, draft[e].change) \in Configs
    BY <2>1, ChangedConfig
  <2> QED
    BY <1>1, <2>2 DEF SaveConfig, Ways
<1>2. ASSUME NEW e \in Editors, NEW ch \in Changes, LoadConfig(e, ch) PROVE GateInv'
  BY <1>2 DEF LoadConfig, Ways
<1>3. CASE SetContract
  BY <1>3 DEF SetContract, Ways
<1>4. CASE Tick
  BY <1>4 DEF Tick, Minutes, Ways
<1>5. ASSUME NEW all \in BOOLEAN, StartFix(all) PROVE GateInv'
  BY <1>5 DEF StartFix, Ways
<1>6. ASSUME NEW ps \in SUBSET Patches, MakeGate(ps) PROVE GateInv'
  <2>1. gate' \in [config : Configs, contract : BOOLEAN]
    BY <1>6 DEF MakeGate
  <2>2. todo' \subseteq Patches /\ event' = NoEvent
    BY <1>6 DEF MakeGate
  <2>4. writing' \in BOOLEAN
    BY <1>6, Zenon DEF MakeGate
  <2>3. UNCHANGED <<config, contract, now, draft, edits, safeAll, trying, shown, record>>
    BY <1>6 DEF MakeGate
  <2> HIDE <1>6
  <2> QED
    BY <2>1, <2>2, <2>3, <2>4 DEF Ways
<1>7. ASSUME NEW p \in Patches, FixBlocked(p) PROVE GateInv'
  BY <1>7 DEF FixBlocked, Handle, Ways
<1>8. ASSUME NEW p \in Patches, FixQueued(p) PROVE GateInv'
  BY <1>8 DEF FixQueued, Handle, Ways, States
<1>9. ASSUME NEW p \in Patches, FixApplied(p) PROVE GateInv'
  <2>1. Way(p) \in Ways /\ "pending" \in States
    BY DEF Way, Ways, States
  <2>2. p \notin TestOnly
    BY <1>9 DEF FixApplied, GoesIn, FixDecision, Decision
  <2> QED
    BY <1>9, <2>1, <2>2, AppliedTypes DEF FixApplied, Handle
<1>10. ASSUME NEW p \in Patches, FixVerified(p) PROVE GateInv'
  <2>1. Way(p) \in Ways
    BY DEF Way, Ways
  <2>2. p \notin TestOnly
    BY <1>10 DEF FixVerified, GoesIn, FixDecision, Decision
  <2> QED
    BY <1>10, <2>1, <2>2 DEF FixVerified, Handle, MaxRetries, Ways
<1>11. CASE Retry
  BY <1>11 DEF Retry, MaxRetries, Ways
<1>12. CASE OpenReview
  BY <1>12 DEF OpenReview, Ways
<1>13. ASSUME NEW p \in Patches, ReviewAccept(p) PROVE GateInv'
  <2>1. record[p] \in States /\ "review" \in Ways
    BY DEF Ways
  <2> QED
    BY <1>13, <2>1, AppliedTypes DEF ReviewAccept
<1>14. ASSUME NEW p \in Patches, ReviewReject(p) PROVE GateInv'
  BY <1>14 DEF ReviewReject, States, Ways
<1>15. ASSUME NEW p \in Patches, PatchApply(p) PROVE GateInv'
  <2>1. record[p] \in States /\ "patch_apply" \in Ways
    BY DEF Ways
  <2> QED
    BY <1>15, <2>1, AppliedTypes DEF PatchApply
<1>16. ASSUME NEW p \in Patches, Undo(p) PROVE GateInv'
  BY <1>16 DEF Undo, States, Ways
<1>17. ASSUME NEW p \in Patches, Redo(p) PROVE GateInv'
  <2>1. record[p] \in States /\ "redo" \in Ways
    BY DEF Ways
  <2> QED
    BY <1>17, <2>1, AppliedTypes DEF Redo
<1>18. CASE WebApplyAllSafe
  BY <1>18 DEF WebApplyAllSafe, Ways
<1>19. CASE UNCHANGED vars
  BY <1>19 DEF vars
<1> QED
  BY <1>1, <1>2, <1>3, <1>4, <1>5, <1>6, <1>7, <1>8, <1>9, <1>10, <1>11, <1>12, <1>13, <1>14,
     <1>15, <1>16, <1>17, <1>18, <1>19 DEF Next

(* Type correctness, and: no patch that only edits tests gets into the tree
   but by a command in which a person says yes to it.                        *)
THEOREM GateTypeCorrect == Spec => []TypeOK
<1>1. GateInv /\ [Next]_vars => GateInv'
  BY GateStep
<1>2. GateInv => TypeOK
  BY DEF GateInv
<1> QED
  BY GateInit, <1>1, <1>2, PTL DEF Spec

THEOREM TestEditsWaitForAPerson == Spec => []TestEditsNeedAPerson
<1>1. GateInv /\ [Next]_vars => GateInv'
  BY GateStep
<1>2. GateInv => TestEditsNeedAPerson
  BY DEF GateInv
<1> QED
  BY GateInit, <1>1, <1>2, PTL DEF Spec

(* What p fix applies on its own is allowed by the gate it has made, by the
   mode of the moment and by the clock.                                      *)
THEOREM AutoAllowed == Spec => AutoAppliesAreAllowed
<1> DEFINE Allowed ==
      AutoApplies =>
        /\ gate.contract /\ Touches[event'.patch] \cap gate.config.noTouch = {}
        /\ config.mode # "confirm"
        /\ LET w == gate.config.quiet
           IN  w.enabled => (now - w.start) % Day >= (w.end - w.start) % Day
<1>1. ASSUME GateInv, [Next]_vars PROVE [Allowed]_vars
  <2>1. ASSUME NEW p \in Patches, FixDecision(p) = "auto", event'.patch = p PROVE Allowed
    <3>1. /\ ~Blocks(gate.config, gate.contract, p) /\ config.mode \in {"auto", "autopilot"}
          /\ ~InQuiet(gate.config.quiet, now)
      BY <2>1 DEF FixDecision, Decision
    <3>2. gate.config.quiet \in Windows /\ now \in Minutes
      BY <1>1 DEF GateInv, TypeOK, Configs
    <3>3. gate.config.quiet.enabled =>
            (now - gate.config.quiet.start) % Day
              >= (gate.config.quiet.end - gate.config.quiet.start) % Day
      <4> DEFINE w == gate.config.quiet
      <4>1. w.enabled => ~((now - w.start) % Day < (w.end - w.start) % Day)
        BY <3>1, <3>2, QuietIsTheWindow
      <4>2. (now - w.start) % Day \in Int /\ (w.end - w.start) % Day \in Int
        BY <3>2, GateAssumption DEF Windows, Minutes
      <4> QED
        BY <4>1, <4>2
    <3>4. gate.contract /\ Touches[p] \cap gate.config.noTouch = {}
      BY <3>1 DEF Blocks
    <3>5. config.mode # "confirm"
      BY <3>1
    <3> QED
      BY <2>1, <3>3, <3>4, <3>5, Zenon
  <2>2. ASSUME NEW p \in Patches, FixApplied(p) \/ FixVerified(p), AutoApplies PROVE Allowed
    <3>1. event' = [patch |-> p, by |-> Way(p)] /\ Way(p) = "auto"
      BY <2>2 DEF AutoApplies, FixApplied, FixVerified, Apply, NoEvent
    <3>2. FixDecision(p) = "auto"
      BY <3>1 DEF Way
    <3> QED
      BY <2>1, <3>1, <3>2
  <2>3. AutoApplies =>
          \/ UNCHANGED vars
          \/ \E p \in Patches : FixApplied(p) \/ FixVerified(p)
    BY <1>1 DEF Next, AutoApplies, NoEvent, SaveConfig, LoadConfig, SetContract, Tick, StartFix,
         MakeGate, FixBlocked, FixQueued, Retry, OpenReview, ReviewAccept, ReviewReject, PatchApply,
         Undo, Redo, WebApplyAllSafe, Apply
  <2> QED
    BY <2>2, <2>3
<1>2. GateInv /\ [Next]_vars => GateInv'
  BY GateStep
<1> QED
  BY GateInit, <1>1, <1>2, PTL DEF Spec, AutoAppliesAreAllowed

(* p patch apply and p redo write nothing that is restricted.                *)
THEOREM GatedRespect == Spec => GatedCommandsRespectNoTouch
<1> DEFINE Respects ==
      event'.by \in {"patch_apply", "redo"} => Touches[event'.patch] \cap config.noTouch = {}
<1>1. ASSUME [Next]_vars PROVE [Respects]_vars
  <2>1. ASSUME NEW p \in Patches, PatchApply(p) \/ Redo(p) PROVE Respects
    <3>1. ~Blocks(config, contract, p)
      BY <2>1 DEF PatchApply, Redo, FreshGate, Decision
    <3>2. event' = NoEvent \/ event'.patch = p
      BY <2>1 DEF PatchApply, Redo, Apply
    <3> QED
      BY <3>1, <3>2 DEF Blocks, NoEvent
  <2>2. \/ event'.by \notin {"patch_apply", "redo"} \/ UNCHANGED vars
        \/ \E p \in Patches : PatchApply(p) \/ Redo(p)
    BY <1>1 DEF Next, NoEvent, SaveConfig, LoadConfig, SetContract, Tick, StartFix, MakeGate,
         FixBlocked, FixQueued, FixApplied, FixVerified, Way, Retry, OpenReview, ReviewAccept,
         ReviewReject, Undo, WebApplyAllSafe, Apply
  <2> QED
    BY <2>1, <2>2
<1> QED
  BY <1>1, PTL DEF Spec, GatedCommandsRespectNoTouch
=============================================================================
