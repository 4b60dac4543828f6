\* One plan, one batch of two cards, two sellers and one who bars cards.
SPECIFICATION SalesSpec
CONSTANTS
  Sellers = {s1, s2}
  Managers = {m1}
  Plans = {p1}
  Batches = {b1}
  Slots = {i1, i2}
  Unset = Unset
  Left = Left
  Bodies <- Calls
  Forms <- Typed
  Overrides <- Asked
SYMMETRY SalesSymmetry
INVARIANTS
  SoldOnOffer
  HandedCardsStay
  QuashedStaysDead
