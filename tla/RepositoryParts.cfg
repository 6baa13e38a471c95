\* orders: two of them, with two ids and two keys, up to a second refund;
\* tickets: three, given up after two attempts, put off by up to three;
\* lists: three orders, two creation times, pages of one or two, two moves
SPECIFICATION PartSpec
CONSTANTS
  Order = {o1, o2}
  Client = {c1, c2}
  Key = {k1, k2}
  Paid = 2
  MaxAttempts = 2
  MaxRenew = 1
  MaxVersion = 6
  MaxTickets = 3
  MaxTime = 3
  ListedOrder = {1, 2, 3}
  MaxCreated = 2
  DefaultLimit = 2
  MaxLimit = 2
  MaxMoves = 2
SYMMETRY Symmetry
INVARIANTS SameAnswers SameRows PaidAtStays SameTickets ListedOnce
CHECK_DEADLOCK FALSE
