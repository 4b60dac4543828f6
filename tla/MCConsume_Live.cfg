\* Fair schedules: no reservation stays open.
SPECIFICATION FairSpec
CONSTANTS
  Requests = {p1}
  Sweepers = {s1}
  Devices = {d1}
  Reservations = {r1, r2}
  Keys = {k1}
  Null = Null
  Quota = 2
  MaxAmount = 1
  Ttls = {1, 2}
  MaxTtl = 1
  Batch = 1
  MaxTime = 2
PROPERTIES
  ReservationsEnd
