\* mall_checkout with mixed payment, under the fairness of the worker loop; one call fails, one goroutine or binary dies
SPECIFICATION FairSpec
CONSTANTS
  Api = {a1, a2}
  Workers = {w}
  MaxTickets = 2
  Intent = {i1}
  NoIntent = NoIntent
  Payable = 2
  LedgerPay = 1
  Discount = 2
  HasReservation = TRUE
  HasFreeze = TRUE
  AutoComplete = FALSE
  AllowClose = FALSE
  Adapter = TRUE
  NeedsInventory = FALSE
  MaxAttempts = 2
  MaxFailedCalls = 1
  MaxCrashes = 1
  Requests = {"pay", "cancel", "intent"}
  Ticks = {"timeout", "compensate", "recon"}
PROPERTIES PendingEnds CancelledIsReleased PaidIsSettled CouponSurvivesCrash
CHECK_DEADLOCK FALSE
