\* as long to pay as a reservation lives, as mall_checkout: a request and the worker, pages of one
SPECIFICATION Spec
CONSTANTS
  Order = {o1, o2}
  Caller = {c1}
  Job = job
  TTL = 2
  Window = 1
  PayTimeout = 2
  MaxRenew = 2
  PageSize = 1
  MaxFailed = 1
  MaxTime = 3
SYMMETRY Symmetry
INVARIANTS RenewalsCounted LeftOutSeldom
CHECK_DEADLOCK FALSE
