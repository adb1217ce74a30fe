------------------------------ MODULE RiskGate ------------------------------
(***************************************************************************)
(* core/fix/risk_gate.py: may a patch be applied on its own, must a person *)
(* be asked, or is it refused?  The decision rests on the patch, on the    *)
(* configuration, on the app contract and on the clock.                    *)
(***************************************************************************)
EXTENDS Integers

CONSTANTS
  Patches, Files,
  Touches,   \* patch -> the files it changes
  Risk,      \* patch -> its risk score
  Radius,    \* patch -> how many files depend on what it changes
  TestOnly,  \* the patches that change nothing but test files
  Refused,   \* the patches the charter or the secrets guard objects to
  Day        \* minutes in a day

ASSUME GateAssumption ==
  /\ Touches \in [Patches -> SUBSET Files]
  /\ Risk \in [Patches -> 0 .. 100] /\ Radius \in [Patches -> Nat]
  /\ TestOnly \subseteq Patches /\ Refused \subseteq Patches
  /\ Day \in Nat \ {0}

Minutes == 0 .. Day - 1
HighRisk == 61

Modes   == {"confirm", "auto", "autopilot"}
Windows == [enabled : BOOLEAN, start : Minutes, end : Minutes]
Configs == [mode : Modes, threshold : 0 .. 100, needBlast : BOOLEAN,
            noTouch : SUBSET Files, quiet : Windows]

DefaultConfig ==
  [mode |-> "confirm", threshold |-> 30, needBlast |-> TRUE, noTouch |-> {},
   quiet |-> [enabled |-> FALSE, start |-> 0, end |-> 0]]

(* Mutation: a window over midnight is not seen.                              *)
InQuietSameDay(w, m) == w.enabled /\ w.start <= m /\ m < w.end

InQuiet(w, m) ==
  /\ w.enabled
  /\ IF w.start <= w.end THEN w.start <= m /\ m < w.end
     ELSE w.start <= m \/ m < w.end

(* The hard blocks.                                                          *)
Blocks(cfg, contract, p) ==
  \/ ~contract
  \/ Touches[p] \cap cfg.noTouch # {}
  \/ cfg.needBlast /\ Risk[p] >= HighRisk /\ Radius[p] = 0
  \/ p \in Refused

(* The mode is read anew for every patch; the rest of the configuration and
   the contract are what the gate loaded when it was made.                   *)
Decision(cfg, contract, mode, m, p) ==
  CASE Blocks(cfg, contract, p) -> "block"
    [] OTHER ->
         IF /\ p \notin TestOnly
            /\ mode = "autopilot" \/ (mode = "auto" /\ Risk[p] <= cfg.threshold)
            /\ ~InQuiet(cfg.quiet, m)
         THEN "auto" ELSE "review"
=============================================================================
