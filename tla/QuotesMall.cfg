\* a preview and a checkout, in a scene that pays from the ledger and in one that need not
SPECIFICATION Spec
CONSTANTS
  Proc = {p1}
  Discount = {0, 2}
  LineA = 1
  LineB = 3
  QuoteTTL = 1
  MaxQuotes = 1
  MaxChanges = 1
  MaxMisses = 1
  MaxTime = 3
INVARIANTS SurpriseNeedsAMiss LedgerPaysAll
CHECK_DEADLOCK FALSE
