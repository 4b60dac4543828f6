SPECIFICATION Spec
CONSTANTS
  Null = Null
  Keys = {"ip", "miss"}
  Limit <- MCLimit
  Window <- MCWindow
  Cap = 4
  Callers = {c1, c2}
  Admins = {a1, a2}
  Scenes <- MCScenes
  Secrets = {0, 1, 2, 3}
  Skew = 2
  Grace = {0, 2}
INVARIANTS
  AdmissionsFitTheWindow
  NobodyIsCutOff
  MissesBounded
PROPERTIES
  LockoutEnds
