SPECIFICATION Spec
CONSTANTS
  Programs = {"node", "python", "csharp", "php", "metered"}
  Null = Null
  Absent = Absent
  Damaged = Damaged
  Idle = Idle
  Graces = {1}
  Expiries = {3}
  Retention = 1
  RebindLimit = 2
  Slots = {s1, s2}
  Rsvs = {1, 2}
  MaxVersion = 1
  MaxTime = 3
  MaxRetries = 1
  Skews <- MCSkews
  MaxCalls = 3
SYMMETRY Symmetry
INVARIANTS
  DeactivatedIsUnbound
  KeyUnbindsOnce
  ConsumeIsExact
PROPERTIES
  OfflineIsEarned
CHECK_DEADLOCK FALSE
