\* every order of up to three lines over five-bit integers, overflow included
SPECIFICATION Spec
CONSTANTS
  MaxInt = 15
  MaxLines = 3
  MaxPrice = 6
  MaxQuantity = 4
  MaxDiscount = 15
  MaxLedger = 1
  MaxEntries = 1
  FreezeCapture = TRUE
INVARIANTS SumIsExact LinesAddUp AllocationIsFair
CHECK_DEADLOCK FALSE
