\* scene membership: an order is refunded while it is being closed
SPECIFICATION Spec
CONSTANTS
  Api = {a1, a2}
  Workers = {}
  MaxTickets = 1
  Intent = {i1}
  NoIntent = NoIntent
  Payable = 2
  LedgerPay = 1
  Discount = 2
  HasReservation = TRUE
  HasFreeze = TRUE
  AutoComplete = TRUE
  AllowClose = TRUE
  Adapter = TRUE
  NeedsInventory = FALSE
  MaxAttempts = 2
  MaxFailedCalls = 0
  MaxCrashes = 0
  Requests = {"pay", "complete", "refund", "close"}
  Ticks = {}
INVARIANT GivenBackWithinPaid
CHECK_DEADLOCK FALSE
