SPECIFICATION Spec
CONSTANTS
  Sdks = {"node", "python", "csharp", "php"}
  Versions = {1, 2, 3}
  Packages <- MCPackages
  Entries <- MCEntries
  KeepVersions = 2
  Null = Null
  Absent = Absent
  Broken = Broken
  MaxFaults = 2
INVARIANTS
  StartsTheCurrentVersion
  InstalledIsGenuine
  FailedKeepsCurrent
  RollbackRemains
  ExtractsInside
  StrippingLosesNothing
PROPERTIES
  GoodUpdateLands
