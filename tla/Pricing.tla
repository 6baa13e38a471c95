------------------------------ MODULE Pricing -------------------------------
(***************************************************************************)
(* The integer arithmetic of an order: domain/amount.go (SumOriginal,      *)
(* AllocateDiscount, BuildAmounts) in the order Checkout runs it, and the  *)
(* amounts Refund accepts for lines afterwards (resolveRefundLines).       *)
(* int64 is modelled by two's complement integers up to MaxInt.            *)
(***************************************************************************)
EXTENDS Integers, Sequences

CONSTANTS
  MaxInt,      \* largest integer: math.MaxInt64
  MaxLines,    \* bound: lines of an order
  MaxPrice,    \* bound: unit price a client sends
  MaxQuantity, \* bound: quantity a client sends
  MaxDiscount, \* bound: discount OfferHub quotes
  MaxLedger,   \* bound: ledger amount a client asks for
  MaxEntries,  \* bound: entries of all refund requests together
  FreezeCapture \* the ledger mode of the scene

ASSUME IntAssumption   == MaxInt \in Nat
ASSUME ModeAssumption  == FreezeCapture \in BOOLEAN
ASSUME InputAssumption ==
  /\ {MaxPrice, MaxQuantity, MaxDiscount, MaxLedger} \subseteq 0 .. MaxInt
  /\ {MaxLines, MaxEntries} \subseteq Nat

VARIABLES
  stage,     \* which function runs next
  lines,     \* order lines
  discount,  \* the discount of the quote
  original,  \* what SumOriginal returned
  amounts,   \* what BuildAmounts returned, and what was refunded
  refunds    \* the entries of the refunds accepted so far

vars == <<stage, lines, discount, original, amounts, refunds>>

-----------------------------------------------------------------------------
Span    == 2 * (MaxInt + 1)
Wrap(x) == ((x + MaxInt + 1) % Span) - MaxInt - 1
Fits(x) == x \in -MaxInt - 1 .. MaxInt

(* Running sums of a sequence of integers: exact, and as a loop over int64 *)
(* variables computes them.                                                *)
Totals(v) ==
  LET s[n \in 0 .. Len(v)] == IF n = 0 THEN 0 ELSE s[n - 1] + v[n]
  IN  s
WrapTotals(v) ==
  LET s[n \in 0 .. Len(v)] == IF n = 0 THEN 0 ELSE Wrap(s[n - 1] + v[n])
  IN  s
Total(v)     == Totals(v)[Len(v)]
WrapTotal(v) == WrapTotals(v)[Len(v)]

(* Go's division truncates towards zero. *)
Quo(a, b) == IF (a >= 0) = (b > 0) THEN (IF a >= 0 THEN a \div b ELSE (-a) \div (-b))
             ELSE -((IF a >= 0 THEN a ELSE -a) \div (IF b > 0 THEN b ELSE -b))

Ok(v)    == [ok |-> TRUE, val |-> v]
Overflow == [ok |-> FALSE, val |-> 0]

Mul(a, b) ==
  LET r == Wrap(a * b)
  IN  IF a = 0 \/ b = 0 THEN Ok(0)
      ELSE IF Wrap(Quo(r, a)) # b THEN Overflow ELSE Ok(r)

AddUnchecked(a, b) == Ok(Wrap(a + b))  \* mutant: overflow goes unnoticed
Add(a, b) ==
  LET r == Wrap(a + b)
  IN  IF (b > 0 /\ r < a) \/ (b < 0 /\ r > a) THEN Overflow ELSE Ok(r)

(* A line with a negative price or without a quantity is refused. *)
LineOriginal(l) ==
  IF l.price < 0 \/ l.qty <= 0 THEN Overflow ELSE Mul(l.price, l.qty)

(* What the loop of SumOriginal has after each line. *)
SumLines(ls) ==
  LET s[n \in 0 .. Len(ls)] ==
        IF n = 0 THEN Ok(0)
        ELSE IF ~s[n - 1].ok \/ ~LineOriginal(ls[n]).ok THEN Overflow
        ELSE Add(s[n - 1].val, LineOriginal(ls[n]).val)
  IN  s
SumOriginal(ls) == SumLines(ls)[Len(ls)]

(* Every line but the last gets its share rounded down, from a product     *)
(* that is not checked for overflow; the last one gets what is left.       *)
ShareRoundedUp(l, d, total) == Quo(Wrap(l.original * d) + total - 1, total)  \* mutant
Share(l, d, total) == Quo(Wrap(l.original * d), total)
(* Mutant: the last line is rounded down like the others. *)
AllocateShares(ls, d, total) ==
  [i \in 1 .. Len(ls) |->
     LET off == IF total = 0 THEN 0 ELSE Share(ls[i], d, total)
     IN  [ls[i] EXCEPT !.discount = off, !.payable = Wrap(ls[i].original - off)]]
AllocateDiscount(ls, d, total) ==
  LET share(i)  == Share(ls[i], d, total)
      before    == WrapTotal([i \in 1 .. Len(ls) - 1 |-> share(i)])
      off(i)    == IF total = 0 THEN 0
                   ELSE IF i = Len(ls) THEN Wrap(d - before) ELSE share(i)
  IN  [i \in 1 .. Len(ls) |->
         [ls[i] EXCEPT !.discount = off(i),
                       !.payable = IF total = 0 THEN 0
                                   ELSE Wrap(ls[i].original - off(i))]]

BuildAmounts(total, d, ledger) ==
  [payable |-> total - d, ledger |-> ledger, channel |-> total - d - ledger,
   refunded |-> 0]

-----------------------------------------------------------------------------
NoAmounts == [payable |-> 0, ledger |-> 0, channel |-> 0, refunded |-> 0]

(* -1 and a quantity of 0 stand for the inputs the code must refuse. *)
Line == [price: -1 .. MaxPrice, qty: 0 .. MaxQuantity,
         original: {0}, discount: {0}, payable: {0}]

Init ==
  /\ stage = "sum"
  /\ lines \in UNION {[1 .. n -> Line] : n \in 1 .. MaxLines}
  /\ discount = 0
  /\ original = 0
  /\ amounts = NoAmounts
  /\ refunds = <<>>

Refuse == stage' = "refused" /\ UNCHANGED <<lines, discount, original, amounts, refunds>>

Sum ==
  /\ stage = "sum"
  /\ \/ ~SumOriginal(lines).ok /\ Refuse
     \/ /\ SumOriginal(lines).ok
        /\ original' = SumOriginal(lines).val
        /\ lines' = [i \in DOMAIN lines |->
                       [lines[i] EXCEPT !.original = LineOriginal(lines[i]).val]]
        /\ stage' = "allocate"
        /\ UNCHANGED <<discount, amounts, refunds>>

(* d is the discount OfferHub quotes. *)
Allocate(d) ==
  /\ stage = "allocate"
  /\ \/ (d < 0 \/ d > original) /\ Refuse
     \/ /\ d \in 0 .. original
        /\ lines' = AllocateDiscount(lines, d, original)
        /\ discount' = d
        /\ stage' = "build"
        /\ UNCHANGED <<original, amounts, refunds>>

(* asked is the ledger amount of the request; a freeze_capture scene pays  *)
(* everything from the ledger when the request names no amount.  The order *)
(* is then paid in full before anything is refunded.                       *)
LedgerPay(asked) ==
  IF FreezeCapture /\ asked = 0 THEN original - discount ELSE asked

Build(asked) ==
  /\ stage = "build"
  /\ \/ LedgerPay(asked) \notin 0 .. original - discount /\ Refuse
     \/ /\ LedgerPay(asked) \in 0 .. original - discount
        /\ amounts' = BuildAmounts(original, discount, LedgerPay(asked))
        /\ stage' = "paid"
        /\ UNCHANGED <<lines, discount, original, refunds>>

(* The amount of a refund request: each entry may ask for no more than the *)
(* payable of its line, and their sum for no more than what is left.       *)
Asked(entries) == WrapTotal([k \in DOMAIN entries |-> entries[k].amount])
resolveRefundLines(entries) ==
  /\ \A k \in DOMAIN entries : entries[k].amount <= lines[entries[k].line].payable
  /\ Asked(entries) \in 1 .. amounts.payable - amounts.refunded

Refund(entries) ==
  /\ stage = "paid"
  /\ Len(refunds) + Len(entries) <= MaxEntries
  /\ resolveRefundLines(entries)
  /\ amounts' = [amounts EXCEPT !.refunded = @ + Asked(entries)]
  /\ refunds' = refunds \o entries
  /\ UNCHANGED <<stage, lines, discount, original>>

Entry == [line: DOMAIN lines, amount: 1 .. MaxInt]

Next == \/ Sum
        \/ \E d \in -1 .. MaxDiscount : Allocate(d)
        \/ \E asked \in -1 .. MaxLedger : Build(asked)
        \/ \E n \in 1 .. MaxEntries : \E entries \in [1 .. n -> Entry] : Refund(entries)

Spec == Init /\ [][Next]_vars

-----------------------------------------------------------------------------
(* Properties.                                                             *)

(* Exact values, without a width. *)
Exact(ls) == Total([i \in DOMAIN ls |-> ls[i].price * ls[i].qty])
Sound(ls) == \A i \in DOMAIN ls : ls[i].price >= 0 /\ ls[i].qty > 0

(* SumOriginal accepts an order exactly when every line is sound and the   *)
(* exact total fits an integer, and then returns that total: the overflow  *)
(* tests of Mul and Add neither miss a wrap-around nor refuse a fit.       *)
SumIsExact ==
  IF stage = "sum"
  THEN SumOriginal(lines).ok <=> Sound(lines) /\ Fits(Exact(lines))
  ELSE stage # "refused" => original = Exact(lines)

Priced == stage \in {"build", "paid"}

(* Whatever was rounded, or wrapped, on the way, the line discounts add up *)
(* to the discount of the order and the line payables to its payable.      *)
LinesAddUp ==
  Priced => /\ Wrap(Total([i \in DOMAIN lines |-> lines[i].discount])) = discount
            /\ Wrap(Total([i \in DOMAIN lines |-> lines[i].payable])) = original - discount

(* AllocateDiscount is fair while its product fits: every line but the     *)
(* last gets less than one unit short of its exact share, and the last one *)
(* what the others are short of, less than one unit for each of them.      *)
AllocationIsFair ==
  (Priced /\ \A i \in DOMAIN lines : Fits(lines[i].original * discount)) =>
    \A i \in DOMAIN lines :
      LET off == lines[i].discount * original - lines[i].original * discount
      IN  original > 0 =>
            IF i < Len(lines) THEN -off \in 0 .. original - 1
            ELSE off >= 0 /\ off <= (Len(lines) - 1) * (original - 1)

-----------------------------------------------------------------------------
(* What the documents say and the code does not do: see README.md.         *)

(* Over all refunds of an order a line gives back at most what it cost:    *)
(* the amount a refund may take from a line is what is left of it.         *)
LineRefundsWithinLine ==
  \A i \in DOMAIN lines :
    LET own == SelectSeq(refunds, LAMBDA e : e.line = i)
    IN  Total([k \in DOMAIN own |-> own[k].amount]) <= lines[i].payable
=============================================================================
