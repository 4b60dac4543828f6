SPECIFICATION Spec
CONSTANTS
  Null = Null
  Calls = {c1, c2}
  Renewal = Renewal
  AccessTtl = 1
  RefreshTtl = 9
  MaxVersion = 1
  MaxTime = 2
INVARIANTS
  LiveSessionsKnowThePassword
  LogoutIsFinal
PROPERTIES
  RequestsSettle
