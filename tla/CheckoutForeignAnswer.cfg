\* clients choose their idempotency keys
SPECIFICATION Spec
CONSTANTS
  Proc = {p1, p2}
  Coid = {c1, c2}
  Body = {b1, b2}
  OwnKeys = TRUE
  UsesOffer = TRUE
  UsesLedger = TRUE
  UsesStock = TRUE
  ChannelPay = TRUE
  NoRow = NoRow
  MaxIds = 2
  MaxFaults = 0
SYMMETRY Symmetry
INVARIANT AnswersAsk
CHECK_DEADLOCK FALSE
