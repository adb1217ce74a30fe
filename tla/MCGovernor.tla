------------------------------ MODULE MCGovernor ------------------------------
(* Instances of Governor: two scans, a fix agent with two patches and what   *)
(* the agents of a phase report at the limits of the criteria.               *)
EXTENDS Governor, TLC

CONSTANTS s1, s2, fixer, x1, x2

MCPatchesOf == [a \in Agents |-> {x1, x2}]

Clean == [agents |-> 3, failed |-> 0, critical |-> 0, high |-> 0, low |-> 0,
          evalOk |-> TRUE, badTests |-> 0, flaky |-> 0]

MCOutcomes ==
  {Clean, [Clean EXCEPT !.critical = 51], [Clean EXCEPT !.critical = 201],
   [Clean EXCEPT !.high = 1000], [Clean EXCEPT !.agents = 0], [Clean EXCEPT !.evalOk = FALSE],
   [Clean EXCEPT !.badTests = 1], [Clean EXCEPT !.flaky = 1], [Clean EXCEPT !.low = 1]}

Good == [done |-> TRUE, findings |-> 0, blast |-> 0, gate |-> "allow"]

MCCandidates ==
  {Good, [Good EXCEPT !.done = FALSE], [Good EXCEPT !.findings = 1],
   [Good EXCEPT !.gate = "review"], [Good EXCEPT !.gate = "broken"]}

(* The two patches of the agent are alike.                                   *)
PatchSymmetry == Permutations({x1, x2})
=============================================================================
