------------------------------ MODULE MCFixGate -----------------------------
(* Instances of FixGate: a harmless patch, a risky one that answers a failing *)
(* test, and one that only edits a test file.                                 *)
EXTENDS FixGate, TLC

CONSTANTS low, high, test, f1, f2, t1, e1

MCTouches == [p \in Patches |-> IF p = low THEN {f1} ELSE IF p = high THEN {f1, f2} ELSE {t1}]
MCRisk    == [p \in Patches |-> IF p = low THEN 30 ELSE IF p = high THEN 61 ELSE 8]
MCRadius  == [p \in Patches |-> IF p = test THEN 0 ELSE 1]

(* The last minute of the day, up to midnight: its end is before its start.   *)
Night == [enabled |-> TRUE, start |-> 1, end |-> 0]
MCChanges ==
  {Change("mode", "confirm"), Change("mode", "autopilot"), Change("restrict", f1),
   Change("quiet", Night)}
=============================================================================
