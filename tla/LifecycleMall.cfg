\* mall_checkout with closing allowed: recovery, or refunds and closing; one call fails or one goroutine dies
SPECIFICATION Spec
CONSTANTS
  Api = {a1, a2}
  Workers = {w}
  MaxTickets = 2
  Intent = {i1}
  NoIntent = NoIntent
  Payable = 2
  LedgerPay = 1
  Discount = 2
  HasReservation = TRUE
  HasFreeze = TRUE
  AutoComplete = FALSE
  AllowClose = TRUE
  Adapter = TRUE
  NeedsInventory = TRUE
  MaxAttempts = 2
  MaxFailedCalls = 1
  MaxCrashes = 1
  Requests = {"pay", "cancel", "complete", "refund", "close", "retry", "console"}
  Ticks = {"timeout", "compensate", "recon"}
SYMMETRY Symmetry
ACTION_CONSTRAINT Focused
INVARIANTS TypeOK SnapshotAgrees OnlyWinnerActs RefundsWithinPaid RefundIsExclusive EventsMatchRow ClosedIsEven ParkedHasTicket LifecycleInv
PROPERTIES StatusFollowsTable PromiseKept
CHECK_DEADLOCK FALSE
