\* Two programs' requests and the expiry task, never finishing one reservation at once.
SPECIFICATION ExclusiveSpec
CONSTANTS
  Requests = {p1, p2}
  Sweepers = {s1}
  Devices = {d1}
  Reservations = {r1, r2}
  Keys = {k1}
  Null = Null
  Quota = 2
  MaxAmount = 2
  Ttls = {1, 2}
  MaxTtl = 1
  Batch = 1
  MaxTime = 1
SYMMETRY Symmetry
INVARIANTS
  LedgerExact
  NeverOversold
PROPERTIES
  ImplementsLedger
  UsedNeverFalls
