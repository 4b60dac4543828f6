SPECIFICATION Spec
CONSTANTS
  Null = Null
  d1 = d1
  d2 = d2
  Admins = {a1, a2}
  Buyer = Buyer
  Parties <- MCParties
  Uploads <- MCUploads
  Edits <- MCEdits
  Releases = {1, 2}
  Devices <- MCDevices
  Lucky <- MCLucky
  Take = 2
  Ttl = 0
  MaxTime = 1
  MaxOrders = 4
  MaxStuck = 1
SYMMETRY Symmetry
INVARIANTS
  SignedByTheKeyGivenOut
PROPERTIES
  OfferNeverFalls
  RemovedLeavesNoFile
CHECK_DEADLOCK FALSE
