CONSTANTS
  low = low
  high = high
  test = test
  f1 = f1
  f2 = f2
  t1 = t1
  e1 = e1
  Nobody = Nobody
  Patches = {low, high, test}
  Files = {f1, f2, t1}
  Touches <- MCTouches
  Risk <- MCRisk
  Radius <- MCRadius
  TestOnly = {test}
  Refused = {}
  Day = 2
  Failing = {high}
  Editors = {e1}
  Changes <- MCChanges
  MaxEdits = 2
SPECIFICATION Spec

  
  
INVARIANTS
  TypeOK
  TestEditsNeedAPerson
