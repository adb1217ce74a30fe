CONSTANTS
  s1 = s1
  s2 = s2
  fixer = fixer
  x1 = x1
  x2 = x2
  NoTxn = NoTxn
  Scans = {s1, s2}
  Agents = {fixer}
  PatchesOf <- MCPatchesOf
  Outcomes <- MCOutcomes
  Candidates <- MCCandidates
  MaxRuns = 2
  Appliers = {s1}
  Hazards = {"crash", "disk", "deadline"}
SPECIFICATION Spec
INVARIANTS
  TypeOK
  VerdictIsDurable
  
  AutoApplyIsEarned
  DryRunNeverCompletes
SYMMETRY PatchSymmetry
CHECK_DEADLOCK FALSE
