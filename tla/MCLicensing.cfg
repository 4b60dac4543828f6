\* One card for one device, two requests in flight, one administrator.
SPECIFICATION Spec
CONSTANTS
  Clients = {c1, c2}
  Admins = {a1}
  Devices = {d1, d2}
  Null = Null
  DeviceLimit = 1
  DurationDays = 1
  AllowRebind = TRUE
  RebindLimit = 1
  RenewDays = 1
  MaxTime = 2
  MaxVersion = 2
SYMMETRY Symmetry
INVARIANTS
  WithinDeviceLimit
  LiveTokensAreBound
  BarredCardHasNoLiveTokens
  SelfUnbindsWithinLimit
PROPERTIES
  RevokedIsFinal
  ImplementsCard
