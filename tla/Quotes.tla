-------------------------------- MODULE Quotes --------------------------------
(***************************************************************************)
(* From preview to checkout: Preview prices a cart with OfferHub and keeps *)
(* a snapshot in the cache; Checkout finds it by quote_id, compares the    *)
(* request with it, prices the cart again and compares the two discounts.  *)
(* Meanwhile OfferHub's rules change, time passes and the cache forgets.   *)
(* The cart has two lines; a coupon list is empty or not.                  *)
(***************************************************************************)
EXTENDS Integers, FiniteSets, FiniteSetsExt

CONSTANTS
  Proc,           \* goroutines that serve requests
  Discount,       \* discounts OfferHub may grant
  LineA, LineB,   \* original amounts of the two lines
  QuoteTTL,       \* life of a quote without expiry, and of a late cache entry
  MaxQuotes,      \* bound: previews
  MaxChanges,     \* bound: changes of OfferHub's rules
  MaxMisses,      \* bound: reads and writes of the cache that fail
  MaxTime         \* bound: the clock stops here

ASSUME QuoteAssumption ==
  /\ Discount \subseteq Nat /\ {LineA, LineB} \subseteq Nat \ {0}
  /\ \A d \in Discount : d <= LineA + LineB
ASSUME QuoteBounds ==
  {QuoteTTL, MaxQuotes, MaxChanges, MaxMisses, MaxTime} \subseteq Nat

VARIABLES
  freezeCapture,  \* the scene pays from the ledger (point_mall); fixed
  clock,   \* now
  rule,    \* what OfferHub grants: for the coupon, and without one
  snap,    \* snap[q]: the snapshot Preview made under quote q
  until,   \* until[q]: the cache drops it after this time; NotCached
  pc,      \* where a goroutine stands
  req,     \* the checkout request it serves, filled from the snapshot
  quote,   \* its new quote: discount and allocation
  out,     \* the answer of its checkout
  count    \* previews, rule changes and cache faults so far

vars == <<freezeCapture, clock, rule, snap, until, pc, req, quote, out, count>>

Original  == LineA + LineB
NotCached == -1
None      == 0            \* no quote_id
Absent    == -1           \* no ledger_pay in the request
Quote     == 1 .. MaxQuotes
Item      == {"omitted", "cart", "changed"}
Stale     == [kind |-> "stale"]
Nothing   == [kind |-> "none"]

(* What OfferHub takes off, and where on the two lines it may put it. *)
Granted(coupons, autoBest) ==
  IF coupons THEN rule.coupon ELSE IF autoBest THEN rule.auto ELSE 0
Allocations(d) ==
  {a \in 0 .. d : a <= LineA /\ d - a <= LineB}

(* AllocateDiscount for two lines: the last line takes the rest. *)
AllocateDiscount(d) == (LineA * d) \div Original

Init ==
  /\ clock = 1
  /\ freezeCapture \in BOOLEAN
  /\ rule \in [coupon : Discount, auto : Discount]
  /\ snap = [q \in Quote |-> Nothing]
  /\ until = [q \in Quote |-> NotCached]
  /\ pc = [p \in Proc |-> "idle"]
  /\ req = [p \in Proc |-> Nothing]
  /\ quote = [p \in Proc |-> Nothing]
  /\ out = [p \in Proc |-> Nothing]
  /\ count = [previews |-> 0, changes |-> 0, misses |-> 0]

-----------------------------------------------------------------------------
(* OfferHub and the clock.                                                 *)
ChangeRule ==
  /\ count.changes < MaxChanges
  /\ rule' \in [coupon : Discount, auto : Discount] \ {rule}
  /\ count' = [count EXCEPT !.changes = @ + 1]
  /\ UNCHANGED <<clock, snap, until, pc, req, quote, out>>

Advance ==
  /\ clock < MaxTime /\ clock' = clock + 1
  /\ UNCHANGED <<rule, snap, until, pc, req, quote, out, count>>

-----------------------------------------------------------------------------
(* Preview.                                                                *)

(* What the order will take from the ledger: FreezeCapture scenes take all *)
(* when nothing else is asked for.                                         *)
LedgerPay(asked, payable) ==
  IF freezeCapture /\ asked = 0 THEN payable ELSE asked

(* The context a quote is bound to.  AutoBest is not part of it. *)
ContextHash(coupons, items, ledger) == <<coupons, items, ledger>>

(* The time until which Put keeps an entry: a quote that is over already   *)
(* is kept for QuoteTTL all the same.                                      *)
CachedUntil(expires) == IF expires > clock THEN expires ELSE clock + QuoteTTL

Preview(coupons, autoBest, asked) ==
  LET q       == count.previews + 1
      d       == Granted(coupons, autoBest)
      payable == Original - d
      ledger  == LedgerPay(Max({asked, 0}), payable)
  IN  /\ count.previews < MaxQuotes /\ ledger <= payable
      /\ \E expires \in {clock, clock + QuoteTTL} :
           /\ snap' = [snap EXCEPT ![q] =
                [kind |-> "snap", coupons |-> coupons, autoBest |-> autoBest,
                 asked |-> asked, ledger |-> ledger, discount |-> d, expires |-> expires,
                 hash |-> ContextHash(coupons, "cart", ledger)]]
           /\ \/ /\ until' = [until EXCEPT ![q] = CachedUntil(expires)]
                 /\ count' = [count EXCEPT !.previews = q]
              \/ /\ count.misses < MaxMisses
                 /\ count' = [count EXCEPT !.previews = q, !.misses = @ + 1]
                 /\ UNCHANGED until
      /\ UNCHANGED <<clock, rule, pc, req, quote, out>>

-----------------------------------------------------------------------------
(* Checkout.                                                               *)

(* A read of the cache: what it says now, or an error. *)
Hit(q) == clock <= until[q]
GetByQuote(q, hit) ==
  \/ hit = Hit(q) /\ UNCHANGED count
  \/ /\ ~hit /\ Hit(q) /\ count.misses < MaxMisses
     /\ count' = [count EXCEPT !.misses = @ + 1]

Refuse(p) ==
  /\ out' = [out EXCEPT ![p] = Stale]
  /\ pc' = [pc EXCEPT ![p] = "done"]

(* The request with what it leaves out taken from the snapshot. *)
Filled(r) ==
  LET s == snap[r.quote]
  IN  [kind    |-> "filled", quote |-> r.quote, asked |-> r.asked,
       coupons |-> r.coupons \/ s.coupons,
       items   |-> IF r.items = "omitted" THEN "cart" ELSE r.items,
       ledger  |-> IF r.asked = Absent THEN s.ledger ELSE r.asked]

(* The request without a snapshot. *)
Plain(r) ==
  [kind |-> "plain", quote |-> None, asked |-> r.asked, coupons |-> r.coupons,
   items |-> r.items, ledger |-> Max({r.asked, 0})]

Matches(r) ==
  LET f == Filled(r)
  IN  ContextHash(f.coupons, f.items, f.ledger) = snap[r.quote].hash

resolveSnapshot(p, r) ==
  /\ pc[p] = "idle"
  /\ \/ /\ r.quote = None /\ r.items # "omitted"
        /\ req' = [req EXCEPT ![p] = Plain(r)]
        /\ pc' = [pc EXCEPT ![p] = "quote"]
        /\ UNCHANGED <<out, count>>
     \/ /\ r.quote \in 1 .. count.previews
        /\ req' = [req EXCEPT ![p] = Filled(r)]
        /\ \E hit \in BOOLEAN :
             /\ GetByQuote(r.quote, hit)
             /\ IF hit /\ clock <= snap[r.quote].expires /\ Matches(r)
                THEN pc' = [pc EXCEPT ![p] = "quote"] /\ UNCHANGED out
                ELSE Refuse(p)
  /\ quote' = [quote EXCEPT ![p] = [kind |-> "now", at |-> clock]]
  /\ UNCHANGED <<clock, rule, snap, until>>

(* The cart is priced again, for the order's own id. *)
QuoteAgain(p) ==
  LET d == Granted(req[p].coupons, ~req[p].coupons)
  IN  /\ pc[p] = "quote"
      /\ \E a \in Allocations(d) :
           quote' = [quote EXCEPT ![p] =
             [kind |-> "quote", at |-> quote[p].at, discount |-> d, alloc |-> a]]
      /\ pc' = [pc EXCEPT ![p] = "compare"]
      /\ UNCHANGED <<clock, rule, snap, until, req, out, count>>

(* BuildAmounts, and the order as it is stored. *)
Place(p, hit) ==
  LET d       == quote[p].discount
      payable == Original - d
      ledger  == LedgerPay(req[p].ledger, payable)
  IN  /\ out' = [out EXCEPT ![p] =
           IF ledger > payable THEN [kind |-> "invalid"]
           ELSE [kind |-> "order", discount |-> d, ledger |-> ledger,
                 channel |-> payable - ledger, alloc |-> AllocateDiscount(d),
                 compared |-> hit, at |-> clock]]
      /\ pc' = [pc EXCEPT ![p] = "done"]

(* Mutant: the second comparison is left out. *)
PlaceAtOnce(p) ==
  /\ pc[p] = "compare"
  /\ Place(p, req[p].quote # None)
  /\ UNCHANGED <<clock, rule, snap, until, req, quote, count>>

(* The snapshot is read again: what it says counts only if it is there.    *)
Compare(p) ==
  LET q == req[p].quote
  IN  /\ pc[p] = "compare"
      /\ \/ q = None /\ Place(p, FALSE) /\ UNCHANGED count
         \/ /\ q # None
            /\ \E hit \in BOOLEAN :
                 /\ GetByQuote(q, hit)
                 /\ IF hit /\ (\/ snap[q].discount # quote[p].discount
                               \/ quote[p].at > snap[q].expires)
                    THEN Refuse(p)
                    ELSE Place(p, hit)
      /\ UNCHANGED <<clock, rule, snap, until, req, quote>>

Request == [kind : {"req"}, quote : {None} \cup Quote, coupons : BOOLEAN,
            items : Item, asked : {Absent, 0, 1}]

Next ==
  /\ UNCHANGED freezeCapture
  /\ \/ ChangeRule \/ Advance
     \/ \E coupons, autoBest \in BOOLEAN, asked \in {Absent, 0, 1} :
          Preview(coupons, autoBest, asked)
     \/ \E p \in Proc : \/ \E r \in Request : resolveSnapshot(p, r)
                        \/ QuoteAgain(p) \/ Compare(p)

Spec == Init /\ [][Next]_vars

-----------------------------------------------------------------------------
(* Properties.                                                             *)

Ordered(p) == out[p].kind = "order"

(* A buyer who comes with a quote is charged a different price only when   *)
(* the snapshot was gone at the second look: it had run out between the    *)
(* two, or the cache failed.  A change of the rules alone never does it.   *)
SurpriseNeedsAMiss ==
  \A p \in Proc : Ordered(p) /\ req[p].quote # None =>
    \/ out[p].discount = snap[req[p].quote].discount
    \/ out[p].at > until[req[p].quote]
    \/ count.misses > 0

(* In a scene that pays from the ledger, an order whose snapshot was       *)
(* compared leaves nothing for the payment channel, unless the buyer asked *)
(* for a smaller ledger payment: the stored ledger amount and the new      *)
(* discount belong together.                                               *)
LedgerPaysAll ==
  \A p \in Proc : Ordered(p) /\ out[p].compared /\ freezeCapture =>
    out[p].channel = 0 \/ snap[req[p].quote].asked > 0

-----------------------------------------------------------------------------
(* What the documents say and the code does not do: see README.md.         *)

(* The price of the order is the price that was shown. *)
PriceAsPreviewed ==
  \A p \in Proc : Ordered(p) /\ req[p].quote # None =>
    out[p].discount = snap[req[p].quote].discount

(* The request p was refused for is the one that was previewed, and        *)
(* neither the rules nor the cache nor the clock have changed anything.    *)
Unchanged(p) ==
  LET r == req[p]
      s == snap[r.quote]
  IN  /\ clock <= s.expires /\ count.misses = 0 /\ count.changes = 0
      /\ r.items = "cart" /\ r.coupons = s.coupons /\ r.asked \in {Absent, s.asked}

(* QUOTE_STALE means that something changed: the quote ran out or was      *)
(* lost, the rules changed, or the request is not the one previewed.       *)
StaleMeansChanged == \A p \in Proc : out[p] = Stale => ~Unchanged(p)

(* The lines of the order carry the discounts OfferHub allocated to them. *)
LinesAsQuoted ==
  \A p \in Proc : Ordered(p) => out[p].alloc = quote[p].alloc
=============================================================================
