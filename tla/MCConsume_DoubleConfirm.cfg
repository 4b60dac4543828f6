\* A confirm retried while the first one is still running.
SPECIFICATION Spec
CONSTANTS
  Requests = {p1, p2}
  Sweepers = {}
  Devices = {d1}
  Reservations = {r1}
  Keys = {k1}
  Null = Null
  Quota = 2
  MaxAmount = 1
  Ttls = {1, 2}
  MaxTtl = 1
  Batch = 1
  MaxTime = 2
INVARIANTS
  ChargedAtMostOnce
