------------------------------- MODULE FixGate -------------------------------
(***************************************************************************)
(* The commands that apply patches, seen from the risk gate: p fix (with   *)
(* its gate made once, its retries and --safe-all), p review, p patch      *)
(* apply, p undo and p redo, and the web's "Apply all safe", while other   *)
(* processes edit the configuration and the contract and the clock runs.   *)
(***************************************************************************)
EXTENDS RiskGate, FiniteSets

CONSTANTS
  Editors,    \* the processes that change the configuration
  Changes,    \* the changes they make
  MaxEdits,   \* bound on the changes made
  Failing,    \* the patches that answer a failing test (the verify loop)
  Nobody      \* no patch, no draft

MaxRetries == 2

Change(kind, value) == [kind |-> kind, value |-> value]

ASSUME FixGateAssumption ==
  /\ MaxEdits \in Nat /\ Failing \subseteq Patches /\ Nobody \notin Patches
  /\ Changes \subseteq {Change("mode", m) : m \in Modes}
                 \cup {Change(k, f) : k \in {"restrict", "lift"}, f \in Files}
                 \cup {Change("quiet", w) : w \in Windows}

VARIABLES
  config,    \* .patchi/config.json
  contract,  \* brain["contract_locked"]
  now,       \* the minute of the day
  draft,     \* editor -> the configuration it has loaded and its change
  edits,
  writing,   \* p fix: the fix agents are at work
  gate,      \* p fix: what its gate has loaded
  safeAll,   \* p fix: --safe-all
  todo,      \* p fix: the patches not handled yet
  trying,    \* p fix: the patch being verified and its retries left, or Nobody
  shown,     \* p review: the patches it has listed
  record,    \* patch -> its state in patches.json
  event      \* what the last step did to the tree: a patch applied, and how

users == <<config, contract, now, draft, edits>>
fix   == <<writing, gate, safeAll, todo, trying>>
vars  == <<users, fix, shown, record, event>>

NoEvent == [patch |-> Nobody, by |-> "none"]
Ways == {"none", "auto", "safe_all", "retry", "review", "patch_apply", "redo", "web_done"}

(* A configuration nobody has touched; the contract may be confirmed already. *)
Init ==
  /\ config = DefaultConfig /\ contract \in BOOLEAN /\ now = 0
  /\ draft = [e \in Editors |-> Nobody] /\ edits = 0
  /\ writing = FALSE /\ gate = [config |-> DefaultConfig, contract |-> FALSE]
  /\ safeAll = FALSE /\ todo = {} /\ trying = Nobody
  /\ shown = {}
  /\ record = [p \in Patches |-> "none"] /\ event = NoEvent

-----------------------------------------------------------------------------
(* Everybody else                                                            *)
Changed(c, ch) ==
  CASE ch.kind = "mode"     -> [c EXCEPT !.mode = ch.value]
    [] ch.kind = "restrict" -> [c EXCEPT !.noTouch = @ \cup {ch.value}]
    [] ch.kind = "lift"     -> [c EXCEPT !.noTouch = @ \ {ch.value}]
    [] ch.kind = "quiet"    -> [c EXCEPT !.quiet = ch.value]

(* set_value, add_restriction, ...: load, change, save.                      *)
LoadConfig(e, ch) ==
  /\ draft[e] = Nobody /\ edits < MaxEdits
  /\ draft' = [draft EXCEPT ![e] = [config |-> config, change |-> ch]]
  /\ edits' = edits + 1
  /\ event' = NoEvent
  /\ UNCHANGED <<config, contract, now, fix, shown, record>>

SaveConfig(e) ==
  /\ draft[e] # Nobody
  /\ config' = Changed(draft[e].config, draft[e].change)
  /\ draft' = [draft EXCEPT ![e] = Nobody]
  /\ event' = NoEvent
  /\ UNCHANGED <<contract, now, edits, fix, shown, record>>

(* A scan or a person confirms the contract; p memory delete forgets it.     *)
SetContract ==
  /\ edits < MaxEdits /\ edits' = edits + 1
  /\ contract' = ~contract
  /\ event' = NoEvent
  /\ UNCHANGED <<config, now, draft, fix, shown, record>>

Tick ==
  /\ now' = (now + 1) % Day
  /\ event' = NoEvent
  /\ UNCHANGED <<config, contract, draft, edits, fix, shown, record>>

-----------------------------------------------------------------------------
(* PatchApplier.apply: it may fail the tests, or refuse before it comes to
   them; either way it puts everything back.                                 *)
Apply(p, by, refused) ==
  \/ /\ event' = [patch |-> p, by |-> by]
     /\ record' = [record EXCEPT ![p] = "applied"]
  \/ /\ event' = NoEvent
     /\ \E st \in {"failed", refused} : record' = [record EXCEPT ![p] = st]

(* Mutation: the whole configuration is read once, the mode with it.          *)
FixDecisionOnce(p) == Decision(gate.config, gate.contract, gate.config.mode, now, p)

FixDecision(p) == Decision(gate.config, gate.contract, config.mode, now, p)

(* p fix: no contract, no fix.                                               *)
StartFix(all) ==
  /\ ~writing /\ todo = {} /\ trying = Nobody /\ contract
  /\ writing' = TRUE /\ safeAll' = all
  /\ event' = NoEvent
  /\ UNCHANGED <<users, gate, todo, trying, shown, record>>

(* The agents have written their patches; the gate is made.                  *)
MakeGate(ps) ==
  /\ writing /\ \A p \in ps : record[p] = "none"
  /\ writing' = FALSE /\ todo' = ps
  /\ gate' = [config |-> config, contract |-> contract]
  /\ event' = NoEvent
  /\ UNCHANGED <<users, safeAll, trying, shown, record>>

(* Mutation: --safe-all takes test-only edits as well.                        *)
GoesInEverything(p) == FixDecision(p) = "auto" \/ (safeAll /\ FixDecision(p) = "review")

GoesIn(p) == FixDecision(p) = "auto" \/ (safeAll /\ FixDecision(p) = "review" /\ p \notin TestOnly)

Way(p) == IF FixDecision(p) = "auto" THEN "auto" ELSE "safe_all"

(* Smallest blast radius first.                                              *)
Handle(p) ==
  /\ trying = Nobody /\ p \in todo /\ \A q \in todo : Radius[p] <= Radius[q]
  /\ todo' = todo \ {p}
  /\ UNCHANGED <<users, writing, gate, safeAll, shown>>

FixBlocked(p) ==
  /\ Handle(p) /\ FixDecision(p) = "block"
  /\ event' = NoEvent
  /\ UNCHANGED <<trying, record>>

FixQueued(p) ==
  /\ Handle(p) /\ FixDecision(p) = "review" /\ ~GoesIn(p)
  /\ record' = [record EXCEPT ![p] = "pending"] /\ event' = NoEvent
  /\ UNCHANGED trying

FixApplied(p) ==
  /\ Handle(p) /\ GoesIn(p) /\ p \notin Failing
  /\ Apply(p, Way(p), "pending")
  /\ UNCHANGED trying

(* run_verify_loop: apply, run the failing test, and if it still fails, once
   more.  None of it is recorded.                                            *)
FixVerified(p) ==
  /\ Handle(p) /\ GoesIn(p) /\ p \in Failing
  /\ event' \in {NoEvent, [patch |-> p, by |-> Way(p)]}
  /\ trying' \in {Nobody, [patch |-> p, left |-> MaxRetries]}
  /\ UNCHANGED record

(* Mutation: one retry more than MAX_RETRIES.                                 *)
RetryOnceMore ==
  /\ trying # Nobody
  /\ event' \in {NoEvent, [patch |-> trying.patch, by |-> "retry"]}
  /\ trying' \in {Nobody} \cup IF trying.left > 0 THEN {[trying EXCEPT !.left = @ - 1]} ELSE {}
  /\ UNCHANGED <<users, writing, gate, safeAll, todo, shown, record>>

Retry ==
  /\ trying # Nobody
  /\ event' \in {NoEvent, [patch |-> trying.patch, by |-> "retry"]}
  /\ trying' \in {Nobody} \cup IF trying.left > 1 THEN {[trying EXCEPT !.left = @ - 1]} ELSE {}
  /\ UNCHANGED <<users, writing, gate, safeAll, todo, shown, record>>

-----------------------------------------------------------------------------
(* The commands in which a person says yes                                   *)
OpenReview ==
  /\ shown = {}
  /\ shown' = {p \in Patches : record[p] = "pending"}
  /\ event' = NoEvent
  /\ UNCHANGED <<users, fix, record>>

ReviewAccept(p) ==
  /\ p \in shown /\ shown' = shown \ {p}
  /\ Apply(p, "review", record[p])
  /\ UNCHANGED <<users, fix>>

ReviewReject(p) ==
  /\ p \in shown /\ shown' = shown \ {p}
  /\ record' = [record EXCEPT ![p] = "rejected"] /\ event' = NoEvent
  /\ UNCHANGED <<users, fix>>

(* Mutation: p patch apply and p redo ask no gate.                            *)
FreshGateAbsent(p) == TRUE

(* A gate of its own, made and asked at once.                                *)
FreshGate(p) == Decision(config, contract, config.mode, now, p) # "block"

PatchApply(p) ==
  /\ record[p] = "pending" /\ FreshGate(p)
  /\ Apply(p, "patch_apply", record[p])
  /\ UNCHANGED <<users, fix, shown>>

Undo(p) ==
  /\ record[p] = "applied"
  /\ record' = [record EXCEPT ![p] = "undone"] /\ event' = NoEvent
  /\ UNCHANGED <<users, fix, shown>>

Redo(p) ==
  /\ record[p] = "undone" /\ FreshGate(p)
  /\ Apply(p, "redo", record[p])
  /\ UNCHANGED <<users, fix, shown>>

(* apply_all_safe calls the property is_blocked: on the first patch that is
   neither applied nor rejected it raises.                                   *)
WebApplyAllSafe ==
  /\ event' = [patch |-> Nobody, by |-> "web_done"]
  /\ UNCHANGED <<users, fix, shown, record>>

Next ==
  \/ \E e \in Editors : SaveConfig(e) \/ \E ch \in Changes : LoadConfig(e, ch)
  \/ SetContract \/ Tick
  \/ \E all \in BOOLEAN : StartFix(all)
  \/ \E ps \in SUBSET Patches : MakeGate(ps)
  \/ \E p \in Patches : FixBlocked(p) \/ FixQueued(p) \/ FixApplied(p) \/ FixVerified(p)
  \/ Retry
  \/ OpenReview
  \/ \E p \in Patches : ReviewAccept(p) \/ ReviewReject(p) \/ PatchApply(p) \/ Undo(p) \/ Redo(p)
  \/ WebApplyAllSafe

Spec == Init /\ [][Next]_vars
-----------------------------------------------------------------------------
States == {"none", "pending", "applied", "failed", "rejected", "undone"}

TypeOK ==
  /\ config \in Configs /\ contract \in BOOLEAN /\ now \in Minutes
  /\ draft \in [Editors -> [config : Configs, change : Changes] \cup {Nobody}]
  /\ edits \in 0 .. MaxEdits
  /\ writing \in BOOLEAN /\ safeAll \in BOOLEAN
  /\ gate \in [config : Configs, contract : BOOLEAN]
  /\ todo \subseteq Patches /\ shown \subseteq Patches
  /\ trying \in [patch : Failing, left : 1 .. MaxRetries] \cup {Nobody}
  /\ record \in [Patches -> States]
  /\ event \in [patch : Patches \cup {Nobody}, by : Ways]

(* "test-weakening edits are never auto-applied" (risk_gate.py:273): a patch
   that changes only tests gets into the tree only by a command in which a
   person says yes to it, whatever the mode, with --safe-all and through the
   retries.                                                                  *)
ByAPerson == {"review", "patch_apply", "redo"}
TestEditsNeedAPerson == event.patch \in TestOnly => event.by \in ByAPerson

(* What p fix applies on its own is what its gate allows: not against the
   restrictions and the contract there were when the gate was made, not in
   the mode CONFIRM of this very moment, not in the quiet hours.             *)
AutoApplies == event'.by = "auto"
AutoAppliesAreAllowed ==
  [][AutoApplies =>
       /\ gate.contract /\ Touches[event'.patch] \cap gate.config.noTouch = {}
       /\ config.mode # "confirm"
       /\ LET w == gate.config.quiet
          IN  w.enabled => (now - w.start) % Day >= (w.end - w.start) % Day]_vars

(* p patch apply and p redo never write where Patchi must not, as the
   restrictions stand.                                                       *)
GatedCommandsRespectNoTouch ==
  [][event'.by \in {"patch_apply", "redo"} => Touches[event'.patch] \cap config.noTouch = {}]_vars

(* "Every patch passes through the risk gate before anything touches disk"
   (risk_gate.py:4): the gate p fix has made, or one made for the occasion.  *)
EveryPatchIsGated ==
  [][event'.patch # Nobody =>
       IF event'.by \in {"auto", "safe_all", "retry"}
         THEN FixDecision(event'.patch) # "block"
         ELSE FreshGate(event'.patch)]_vars

(* "61-100 HIGH auth, payments, data - always ask regardless of mode"
   (patch.py:15).                                                            *)
HighRiskAlwaysAsks == event.by = "auto" => Risk[event.patch] < HighRisk

(* "In quiet hours, auto-apply is blocked even in AUTO/AUTOPILOT modes"
   (risk_gate.py:312).                                                       *)
QuietHoursBlock ==
  [][event'.by \in {"auto", "retry"} /\ ~safeAll => ~InQuiet(config.quiet, now)]_vars

(* "Apply every pending patch that passes the risk gate for auto-apply"
   (web/api/fix.py:61).                                                      *)
ApplyAllSafeApplies ==
  [][event'.by = "web_done" =>
       \A p \in Patches : record'[p] = "pending" =>
         Decision(config, contract, config.mode, now, p) # "auto"]_vars

(* A restriction that was added stays until somebody lifts it.  "Block Patchi
   from modifying a file" (COMMANDS.md:307).                                 *)
RestrictionsStay ==
  [][\A e \in Editors : SaveConfig(e) /\ draft[e].change.kind # "lift"
       => config.noTouch \subseteq config'.noTouch]_vars
=============================================================================
