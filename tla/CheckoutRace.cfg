\* three goroutines, two ids and two keys; calls fail, a goroutine dies, a lock expires
SPECIFICATION Spec
CONSTANTS
  Proc = {p1, p2, p3}
  Coid = {c1, c2}
  Body = {b1}
  OwnKeys = TRUE
  UsesOffer = TRUE
  UsesLedger = TRUE
  UsesStock = TRUE
  ChannelPay = TRUE
  NoRow = NoRow
  MaxIds = 2
  MaxFaults = 1
SYMMETRY Symmetry
INVARIANTS TypeOK OrderKeepsResources LeaksAreFaults OneOrderPerKey SectionIsBounded
CHECK_DEADLOCK FALSE
