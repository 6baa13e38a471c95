---------------------------- MODULE QuotesProofs ----------------------------
(***************************************************************************)
(* The properties of Quotes for any number of requests and quotes, any     *)
(* discounts and prices, any clock and any failures of the cache.          *)
(***************************************************************************)
EXTENDS Quotes, TLAPS

USE QuoteAssumption, QuoteBounds

-----------------------------------------------------------------------------
(* The inductive invariant.                                                *)

Typed ==
  /\ freezeCapture \in BOOLEAN /\ clock \in Nat
  /\ rule \in [coupon : Discount, auto : Discount]
  /\ until \in [Quote -> Int]
  /\ pc \in [Proc -> {"idle", "quote", "compare", "done"}]
  /\ count \in [previews : 0 .. MaxQuotes, changes : Nat, misses : Nat]
  /\ snap = [q \in Quote |-> snap[q]] /\ req = [p \in Proc |-> req[p]]
  /\ quote = [p \in Proc |-> quote[p]] /\ out = [p \in Proc |-> out[p]]

Given == 1 .. count.previews

(* A snapshot of a scene that pays from the ledger takes all of the price, *)
(* unless less was asked for.                                              *)
SnapshotsPay ==
  \A q \in Given :
    /\ snap[q].ledger \in Int /\ snap[q].discount \in Int
    /\ snap[q].hash[3] = snap[q].ledger
    /\ freezeCapture /\ ~(snap[q].asked > 0) => snap[q].ledger = Original - snap[q].discount

(* The request a goroutine works on came without a quote, or with one that *)
(* was given, and then with that quote's ledger payment.  Only its end     *)
(* places an order.                                                        *)
RequestFits(p) ==
  /\ pc[p] # "idle" => req[p].quote \in Given \cup {None}
  /\ pc[p] \in {"quote", "compare"} /\ req[p].quote # None =>
       req[p].ledger = snap[req[p].quote].ledger
  /\ Ordered(p) => pc[p] = "done" /\ (req[p].quote = None => ~out[p].compared)

(* The two properties, of one goroutine. *)
PriceFits(p) ==
  Ordered(p) /\ req[p].quote # None =>
    \/ out[p].discount = snap[req[p].quote].discount
    \/ out[p].at > until[req[p].quote]
    \/ count.misses > 0

LedgerFits(p) ==
  Ordered(p) /\ out[p].compared /\ freezeCapture =>
    out[p].channel = 0 \/ snap[req[p].quote].asked > 0

QuotesInv ==
  /\ Typed /\ SnapshotsPay
  /\ \A p \in Proc : RequestFits(p) /\ PriceFits(p) /\ LedgerFits(p)

-----------------------------------------------------------------------------
(* The larger of a number and zero: what a request asks of the ledger. *)
LEMMA MaxZero ==
  ASSUME NEW a \in Int
  PROVE  Max({a, 0}) = IF a > 0 THEN a ELSE 0
<1> DEFINE m == IF a > 0 THEN a ELSE 0
<1>1. m \in {a, 0} /\ \A y \in {a, 0} : m >= y
  OBVIOUS
<1>2. Max({a, 0}) \in {a, 0} /\ \A y \in {a, 0} : Max({a, 0}) >= y
  BY <1>1 DEF Max
<1> QED BY <1>1, <1>2

(* What a step leaves of a goroutine that it does not move. *)
LEMMA Bystander ==
  ASSUME NEW p \in Proc, RequestFits(p) /\ PriceFits(p) /\ LedgerFits(p),
         count.previews \in Nat, count'.previews \in Nat,
         count.misses \in Nat, count'.misses \in Nat,
         pc'[p] = pc[p], req'[p] = req[p], out'[p] = out[p],
         freezeCapture' = freezeCapture,
         count'.previews >= count.previews, count'.misses >= count.misses,
         \A q \in Given : snap'[q] = snap[q] /\ until'[q] = until[q]
  PROVE  (RequestFits(p) /\ PriceFits(p) /\ LedgerFits(p))'
<1>1. Given \subseteq Given'
  BY DEF Given
<1>2. Ordered(p)' <=> Ordered(p)
  BY DEF Ordered
<1>3. RequestFits(p)'
  BY <1>1, <1>2 DEF RequestFits
<1>4. PriceFits(p)'
  BY <1>2 DEF PriceFits, RequestFits
<1>5. LedgerFits(p)'
  <2>1. Ordered(p) /\ out[p].compared => req[p].quote \in Given
    BY DEF RequestFits
  <2> QED BY <1>2, <2>1 DEF LedgerFits
<1> QED BY <1>3, <1>4, <1>5

(* A preview writes under a new quote. *)
LEMMA PreviewKeeps ==
  ASSUME QuotesInv, UNCHANGED freezeCapture,
         NEW coupons \in BOOLEAN, NEW autoBest \in BOOLEAN, NEW asked \in {Absent, 0, 1},
         Preview(coupons, autoBest, asked)
  PROVE  QuotesInv'
<1> DEFINE q       == count.previews + 1
           d       == Granted(coupons, autoBest)
           payable == Original - d
           ledger  == LedgerPay(Max({asked, 0}), payable)
<1>1. /\ Typed /\ SnapshotsPay /\ count.previews \in Nat /\ count.misses \in Nat
      /\ clock \in Nat /\ UNCHANGED <<clock, rule, pc, req, quote, out>>
      /\ count.previews < MaxQuotes /\ q \in Quote /\ q \notin Given
  BY SMTT(30) DEF QuotesInv, Typed, Preview, Quote, Given
<1>2. PICK expires \in {clock, clock + QuoteTTL} :
        /\ snap' = [snap EXCEPT ![q] =
             [kind |-> "snap", coupons |-> coupons, autoBest |-> autoBest,
              asked |-> asked, ledger |-> ledger, discount |-> d, expires |-> expires,
              hash |-> ContextHash(coupons, "cart", ledger)]]
        /\ \/ /\ until' = [until EXCEPT ![q] = CachedUntil(expires)]
              /\ count' = [count EXCEPT !.previews = q]
           \/ /\ count' = [count EXCEPT !.previews = q, !.misses = @ + 1]
              /\ UNCHANGED until
  BY DEF Preview
<1>3. /\ count' \in [previews : 0 .. MaxQuotes, changes : Nat, misses : Nat]
      /\ count'.previews = q /\ count'.misses >= count.misses
  <2>1. /\ q \in 0 .. MaxQuotes /\ count.misses + 1 \in Nat
        /\ count \in [previews : 0 .. MaxQuotes, changes : Nat, misses : Nat]
    BY <1>1 DEF Typed
  <2>2. CASE count' = [count EXCEPT !.previews = q]
    <3> HIDE DEF q
    <3> QED BY <1>1, <2>1, <2>2
  <2>3. CASE count' = [count EXCEPT !.previews = q, !.misses = @ + 1]
    <3> HIDE DEF q
    <3>1. count' = [count EXCEPT !.previews = q, !.misses = count.misses + 1]
      BY <2>3
    <3>2. count' \in [previews : 0 .. MaxQuotes, changes : Nat, misses : Nat]
      BY <2>1, <3>1
    <3>3. count'.previews = q /\ count'.misses = count.misses + 1
      BY <2>1, <3>1
    <3> QED BY <1>1, <3>2, <3>3
  <2> QED BY <1>2, <2>2, <2>3
<1>4. /\ until' \in [Quote -> Int] /\ \A x \in Given : until'[x] = until[x]
  <2>1. CachedUntil(expires) \in Int
    BY <1>1 DEF CachedUntil
  <2>2. Given \subseteq Quote
    BY <1>1 DEF Given, Quote
  <2> QED BY <1>1, <1>2, <2>1, <2>2 DEF Typed
<1>5. /\ snap' = [x \in Quote |-> snap'[x]]
      /\ \A x \in Given : snap'[x] = snap[x]
      /\ snap'[q].ledger = ledger /\ snap'[q].discount = d /\ snap'[q].asked = asked
      /\ snap'[q].hash = <<coupons, "cart", ledger>>
  <2>1. Given \subseteq Quote
    BY <1>1 DEF Given, Quote
  <2> QED BY <1>1, <1>2, <2>1 DEF Typed, ContextHash
<1>6. Typed'
  <2>1. snap' = [x \in Quote |-> snap'[x]] /\ UNCHANGED <<clock, rule, pc, req, quote, out>>
    BY <1>1, <1>5
  <2> QED BY <1>1, <1>3, <1>4, <2>1 DEF Typed
<1>7. /\ d \in Int /\ payable \in Int /\ ledger \in Int
      /\ freezeCapture /\ ~(asked > 0) => ledger = Original - d
  <2>1. d \in Int
    BY <1>1 DEF Granted, Typed
  <2>2. payable \in Int
    BY <2>1 DEF Original
  <2>3. asked \in Int
    BY DEF Absent
  <2>4. Max({asked, 0}) = IF asked > 0 THEN asked ELSE 0
    BY <2>3, MaxZero
  <2> HIDE DEF d
  <2> QED BY <2>1, <2>2, <2>3, <2>4 DEF LedgerPay
<1> HIDE DEF d, ledger
<1>8. SnapshotsPay'
  <2> SUFFICES ASSUME NEW x \in Given'
               PROVE  /\ snap'[x].ledger \in Int /\ snap'[x].discount \in Int
                      /\ snap'[x].hash[3] = snap'[x].ledger
                      /\ freezeCapture /\ ~(snap'[x].asked > 0) =>
                           snap'[x].ledger = Original - snap'[x].discount
    BY DEF SnapshotsPay, Original
  <2>1. x = q \/ x \in Given
    BY <1>1, <1>3 DEF Given
  <2>2. CASE x = q
    <3> HIDE DEF q
    <3> QED BY <1>5, <1>7, <2>2
  <2>3. CASE x \in Given
    BY <1>1, <1>5, <2>3 DEF SnapshotsPay
  <2> QED BY <2>1, <2>2, <2>3
<1>9. ASSUME NEW p \in Proc PROVE (RequestFits(p) /\ PriceFits(p) /\ LedgerFits(p))'
  <2>1. /\ count'.previews \in Nat /\ count'.misses \in Nat
        /\ count'.previews >= count.previews
    BY <1>1, <1>3
  <2> QED BY <1>1, <1>3, <1>4, <1>5, <2>1, Bystander DEF QuotesInv
<1> QED BY <1>6, <1>8, <1>9 DEF QuotesInv


(* The steps of one goroutine leave the others, and the snapshots, alone. *)
LEMMA OthersKeep ==
  ASSUME QuotesInv, NEW p \in Proc, Typed', UNCHANGED <<freezeCapture, snap, until>>,
         count'.previews = count.previews, count'.misses >= count.misses,
         \A o \in Proc : o # p =>
           pc'[o] = pc[o] /\ req'[o] = req[o] /\ out'[o] = out[o],
         (RequestFits(p) /\ PriceFits(p) /\ LedgerFits(p))'
  PROVE  QuotesInv'
<1>1. /\ count.previews \in Nat /\ count'.previews \in Nat
      /\ count.misses \in Nat /\ count'.misses \in Nat
  BY DEF QuotesInv, Typed
<1>2. SnapshotsPay'
  BY DEF QuotesInv, SnapshotsPay, Given, Original
<1>3. ASSUME NEW o \in Proc, o # p
      PROVE  (RequestFits(o) /\ PriceFits(o) /\ LedgerFits(o))'
  BY <1>1, <1>3, Bystander DEF QuotesInv
<1> QED BY <1>2, <1>3 DEF QuotesInv

(* A read of the cache counts what it loses. *)
LEMMA ReadCounts ==
  ASSUME Typed, NEW q \in Quote, NEW hit \in BOOLEAN, GetByQuote(q, hit)
  PROVE  /\ count' \in [previews : 0 .. MaxQuotes, changes : Nat, misses : Nat]
         /\ count'.previews = count.previews /\ count'.misses >= count.misses
         /\ ~hit => clock > until[q] \/ count'.misses > 0
<1>1. /\ count \in [previews : 0 .. MaxQuotes, changes : Nat, misses : Nat]
      /\ clock \in Nat /\ until[q] \in Int
  BY DEF Typed
<1>2. CASE hit = Hit(q) /\ UNCHANGED count
  <2>1. ~hit => ~(clock <= until[q])
    BY <1>2, Zenon DEF Hit
  <2>2. ~(clock <= until[q]) => clock > until[q]
    BY <1>1
  <2>3. /\ count' \in [previews : 0 .. MaxQuotes, changes : Nat, misses : Nat]
        /\ count'.previews = count.previews /\ count'.misses >= count.misses
    BY <1>1, <1>2
  <2> QED BY <2>1, <2>2, <2>3
<1>3. CASE count' = [count EXCEPT !.misses = @ + 1]
  BY <1>1, <1>3
<1> QED BY <1>2, <1>3 DEF GetByQuote

(* resolveSnapshot goes on without a quote, or with a request whose ledger *)
(* payment is that of the snapshot: it is part of the hash.                *)
LEMMA ResolveKeeps ==
  ASSUME QuotesInv, UNCHANGED freezeCapture, NEW p \in Proc, NEW r \in Request,
         resolveSnapshot(p, r)
  PROVE  QuotesInv'
<1>1. /\ Typed /\ pc[p] = "idle" /\ UNCHANGED <<clock, rule, snap, until>>
      /\ quote' = [quote EXCEPT ![p] = [kind |-> "now", at |-> clock]]
      /\ RequestFits(p) /\ ~Ordered(p)
  BY DEF QuotesInv, resolveSnapshot, RequestFits
<1>2. /\ count' \in [previews : 0 .. MaxQuotes, changes : Nat, misses : Nat]
      /\ count'.previews = count.previews /\ count'.misses >= count.misses
  <2>1. CASE UNCHANGED count
    BY <1>1, <2>1 DEF Typed
  <2>2. ASSUME NEW hit \in BOOLEAN, GetByQuote(r.quote, hit), r.quote \in Given
        PROVE  /\ count' \in [previews : 0 .. MaxQuotes, changes : Nat, misses : Nat]
               /\ count'.previews = count.previews /\ count'.misses >= count.misses
    <3>1. r.quote \in Quote
      BY <1>1, <2>2, SMTT(30) DEF Given, Quote, Typed
    <3> QED BY <1>1, <2>2, <3>1, ReadCounts
  <2> QED BY <2>1, <2>2 DEF resolveSnapshot, Given
<1>3. /\ \/ req' = [req EXCEPT ![p] = Plain(r)] /\ pc' = [pc EXCEPT ![p] = "quote"]
            /\ out' = out
         \/ /\ req' = [req EXCEPT ![p] = Filled(r)] /\ r.quote \in Given
            /\ \/ Matches(r) /\ pc' = [pc EXCEPT ![p] = "quote"] /\ out' = out
               \/ out' = [out EXCEPT ![p] = Stale] /\ pc' = [pc EXCEPT ![p] = "done"]
  BY DEF resolveSnapshot, Refuse, Given
<1>4. Typed'
  <2>1. pc' \in [Proc -> {"idle", "quote", "compare", "done"}]
    BY <1>1, <1>3 DEF Typed
  <2>2. /\ req' = [x \in Proc |-> req'[x]] /\ out' = [x \in Proc |-> out'[x]]
        /\ quote' = [x \in Proc |-> quote'[x]]
    BY <1>1, <1>3 DEF Typed
  <2> QED BY <1>1, <1>2, <2>1, <2>2 DEF Typed
<1>5. \A o \in Proc : o # p => pc'[o] = pc[o] /\ req'[o] = req[o] /\ out'[o] = out[o]
  BY <1>1, <1>3 DEF Typed
<1>6. ~Ordered(p)'
  <2>1. out'[p] = out[p] \/ out'[p] = Stale
    BY <1>1, <1>3 DEF Typed
  <2> QED BY <1>1, <2>1 DEF Ordered, Stale
<1>7. RequestFits(p)'
  <2>1. CASE req' = [req EXCEPT ![p] = Plain(r)]
    <3>1. req'[p].quote = None
      BY <1>1, <2>1 DEF Typed, Plain
    <3> QED BY <1>6, <3>1 DEF RequestFits
  <2>2. CASE req' = [req EXCEPT ![p] = Filled(r)] /\ r.quote \in Given
    <3>1. req'[p] = Filled(r) /\ req'[p].quote = r.quote
      BY <1>1, <2>2 DEF Typed, Filled
    <3>2. r.quote \in Given'
      BY <1>2, <2>2 DEF Given
    <3>3. CASE pc'[p] = "done"
      BY <1>6, <3>1, <3>2, <3>3 DEF RequestFits
    <3>4. CASE Matches(r)
      <4>1. Filled(r).ledger = snap[r.quote].ledger
        <5>1. snap[r.quote].hash[3] = snap[r.quote].ledger
          BY <2>2 DEF QuotesInv, SnapshotsPay
        <5> DEFINE f == Filled(r)
        <5>2. <<f.coupons, f.items, f.ledger>> = snap[r.quote].hash
          BY <3>4 DEF Matches, ContextHash
        <5> HIDE DEF f
        <5>3. f.ledger = snap[r.quote].hash[3]
          <6>1. <<f.coupons, f.items, f.ledger>>[3] = f.ledger
            OBVIOUS
          <6> QED BY <5>2, <6>1
        <5> QED BY <5>1, <5>3 DEF f
      <4> QED BY <1>1, <1>6, <3>1, <3>2, <4>1 DEF RequestFits
    <3> QED BY <1>1, <1>3, <2>1, <2>2, <3>3, <3>4 DEF Typed
  <2> QED BY <1>3, <2>1, <2>2
<1>8. PriceFits(p)' /\ LedgerFits(p)'
  BY <1>6 DEF PriceFits, LedgerFits
<1> QED BY <1>1, <1>2, <1>4, <1>5, <1>7, <1>8, OthersKeep


(* Pricing again reads nothing but the rules. *)
LEMMA QuoteAgainKeeps ==
  ASSUME QuotesInv, UNCHANGED freezeCapture, NEW p \in Proc, QuoteAgain(p)
  PROVE  QuotesInv'
<1>1. /\ Typed /\ pc[p] = "quote" /\ pc' = [pc EXCEPT ![p] = "compare"]
      /\ UNCHANGED <<clock, rule, snap, until, req, out, count>>
      /\ RequestFits(p) /\ ~Ordered(p)
  BY DEF QuotesInv, QuoteAgain, RequestFits
<1>2. Typed'
  <2>1. quote' = [x \in Proc |-> quote'[x]]
    BY <1>1 DEF Typed, QuoteAgain
  <2> QED BY <1>1, <2>1 DEF Typed
<1>3. pc'[p] = "compare" /\ \A o \in Proc : o # p => pc'[o] = pc[o]
  BY <1>1 DEF Typed
<1>4. (RequestFits(p) /\ PriceFits(p) /\ LedgerFits(p))'
  BY <1>1, <1>3 DEF RequestFits, PriceFits, LedgerFits, Ordered, Given
<1>5. count'.previews = count.previews /\ count'.misses >= count.misses
  BY <1>1 DEF Typed
<1> QED BY <1>1, <1>2, <1>3, <1>4, <1>5, OthersKeep

(* The second look at the snapshot: it agrees with the new price, or is    *)
(* gone, or the request is refused.                                        *)
LEMMA CompareKeeps ==
  ASSUME QuotesInv, UNCHANGED freezeCapture, NEW p \in Proc, Compare(p)
  PROVE  QuotesInv'
<1> DEFINE q == req[p].quote
<1>1. /\ Typed /\ SnapshotsPay /\ pc[p] = "compare" /\ RequestFits(p) /\ ~Ordered(p)
      /\ UNCHANGED <<clock, rule, snap, until, req, quote>>
      /\ clock \in Nat
  BY DEF QuotesInv, Compare, RequestFits, Typed
<1>2. q \in Given \cup {None} /\ (q # None => req[p].ledger = snap[q].ledger)
  BY <1>1 DEF RequestFits
<1>3. q # None => q \in Given /\ q \in Quote /\ until[q] \in Int
  BY <1>1, <1>2, SMTT(30) DEF Given, Quote, Typed
<1>4. ASSUME NEW hit \in BOOLEAN,
             count' \in [previews : 0 .. MaxQuotes, changes : Nat, misses : Nat],
             count'.previews = count.previews, count'.misses >= count.misses,
             \/ Refuse(p)
             \/ /\ Place(p, hit) /\ (q = None => ~hit)
                /\ hit => snap[q].discount = quote[p].discount
                /\ q # None /\ ~hit => clock > until[q] \/ count'.misses > 0
      PROVE  QuotesInv'
  <2>1. pc' = [pc EXCEPT ![p] = "done"] /\ out' = [out EXCEPT ![p] = out'[p]]
    BY <1>1, <1>4 DEF Refuse, Place, Typed
  <2>2. Typed'
    <3>1. out' = [x \in Proc |-> out'[x]]
      BY <1>1, <2>1 DEF Typed
    <3>2. pc' \in [Proc -> {"idle", "quote", "compare", "done"}]
      BY <1>1, <2>1 DEF Typed
    <3> QED BY <1>1, <1>4, <3>1, <3>2 DEF Typed
  <2>3. /\ pc'[p] = "done"
        /\ \A o \in Proc : o # p => pc'[o] = pc[o] /\ req'[o] = req[o] /\ out'[o] = out[o]
    BY <1>1, <2>1 DEF Typed
  <2>4. (RequestFits(p) /\ PriceFits(p) /\ LedgerFits(p))'
    <3>1. CASE Refuse(p)
      <4>1. out'[p] = Stale
        BY <1>1, <3>1 DEF Refuse, Typed
      <4>2. ~Ordered(p)'
        BY <4>1 DEF Ordered, Stale
      <4> QED BY <1>1, <1>2, <1>4, <2>3, <4>2 DEF RequestFits, PriceFits, LedgerFits, Given
    <3>2. CASE /\ Place(p, hit) /\ (q = None => ~hit)
               /\ hit => snap[q].discount = quote[p].discount
               /\ q # None /\ ~hit => clock > until[q] \/ count'.misses > 0
      <4> DEFINE d       == quote[p].discount
                 payable == Original - d
                 ledger  == LedgerPay(req[p].ledger, payable)
      <4>1. \/ out'[p] = [kind |-> "invalid"]
            \/ out'[p] = [kind |-> "order", discount |-> d, ledger |-> ledger,
                          channel |-> payable - ledger, alloc |-> AllocateDiscount(d),
                          compared |-> hit, at |-> clock]
        BY <1>1, <3>2 DEF Place, Typed
      <4>2. CASE out'[p] = [kind |-> "invalid"]
        <5>1. ~Ordered(p)'
          BY <4>2 DEF Ordered
        <5> QED BY <1>1, <1>2, <1>4, <2>3, <5>1 DEF RequestFits, PriceFits, LedgerFits, Given
      <4>3. CASE /\ out'[p].discount = d /\ out'[p].channel = payable - ledger
                 /\ out'[p].compared = hit /\ out'[p].at = clock
        <5>1. RequestFits(p)'
          BY <1>1, <1>2, <1>4, <2>3, <3>2, <4>3 DEF RequestFits, Given
        <5>2. PriceFits(p)'
          BY <1>1, <3>2, <4>3 DEF PriceFits
        <5>3. LedgerFits(p)'
          <6> SUFFICES ASSUME hit, freezeCapture, ~(snap[q].asked > 0)
                       PROVE  payable - ledger = 0
            BY <1>1, <4>3 DEF LedgerFits
          <6>1. q # None /\ q \in Given
            BY <1>3, <3>2
          <6>2. /\ snap[q].ledger = Original - snap[q].discount
                /\ snap[q].ledger \in Int
            BY <1>1, <6>1 DEF SnapshotsPay
          <6>3. req[p].ledger = payable /\ payable \in Int
            BY <1>2, <3>2, <6>1, <6>2
          <6>4. ledger = payable
            BY <6>3 DEF LedgerPay
          <6> HIDE DEF payable, ledger
          <6> QED BY <6>3, <6>4
        <5> QED BY <5>1, <5>2, <5>3
      <4> QED BY <4>1, <4>2, <4>3
    <3> QED BY <1>4, <3>1, <3>2
  <2> QED BY <1>1, <1>4, <2>2, <2>3, <2>4, OthersKeep
<1>5. CASE q = None /\ Place(p, FALSE) /\ UNCHANGED count
  <2>1. /\ count' \in [previews : 0 .. MaxQuotes, changes : Nat, misses : Nat]
        /\ count'.previews = count.previews /\ count'.misses >= count.misses
    BY <1>1, <1>5 DEF Typed
  <2> QED BY <1>4, <1>5, <2>1
<1>6. ASSUME q # None, NEW hit \in BOOLEAN, GetByQuote(q, hit),
             IF hit /\ (\/ snap[q].discount # quote[p].discount
                        \/ quote[p].at > snap[q].expires)
             THEN Refuse(p) ELSE Place(p, hit)
      PROVE  QuotesInv'
  <2>1. /\ count' \in [previews : 0 .. MaxQuotes, changes : Nat, misses : Nat]
        /\ count'.previews = count.previews /\ count'.misses >= count.misses
        /\ ~hit => clock > until[q] \/ count'.misses > 0
    BY <1>1, <1>3, <1>6, ReadCounts
  <2> QED BY <1>4, <1>6, <2>1
<1> QED BY <1>5, <1>6 DEF Compare

-----------------------------------------------------------------------------
(* The theorems.                                                           *)

(* What a snapshot, a request and an order have to do with each other, in  *)
(* every state the specification reaches.                                  *)
THEOREM QuotesInvariant == Spec => []QuotesInv
<1>1. Init => QuotesInv
  <2> SUFFICES ASSUME Init PROVE QuotesInv
    OBVIOUS
  <2>1. Typed
    BY DEF Init, Typed, NotCached
  <2>2. SnapshotsPay
    BY DEF Init, SnapshotsPay, Given
  <2>3. ASSUME NEW p \in Proc PROVE RequestFits(p) /\ PriceFits(p) /\ LedgerFits(p)
    <3>1. pc[p] = "idle" /\ ~Ordered(p)
      BY DEF Init, Ordered, Nothing
    <3> QED BY <3>1 DEF RequestFits, PriceFits, LedgerFits
  <2> QED BY <2>1, <2>2, <2>3 DEF QuotesInv
<1>2. QuotesInv /\ [Next]_vars => QuotesInv'
  <2> SUFFICES ASSUME QuotesInv, [Next]_vars PROVE QuotesInv'
    OBVIOUS
  <2>1. ASSUME UNCHANGED <<freezeCapture, snap, until, pc, req, quote, out>>, Typed',
               count'.previews = count.previews, count'.misses = count.misses
        PROVE  QuotesInv'
    <3>1. /\ count.previews \in Nat /\ count.misses \in Nat
          /\ count'.previews >= count.previews /\ count'.misses >= count.misses
      BY <2>1 DEF QuotesInv, Typed
    <3>2. SnapshotsPay'
      BY <2>1 DEF QuotesInv, SnapshotsPay, Given, Original
    <3>3. ASSUME NEW p \in Proc PROVE (RequestFits(p) /\ PriceFits(p) /\ LedgerFits(p))'
      BY <2>1, <3>1, Bystander DEF QuotesInv
    <3> QED BY <2>1, <3>2, <3>3 DEF QuotesInv
  <2>2. CASE ChangeRule /\ UNCHANGED freezeCapture
    <3>1. Typed' /\ count'.previews = count.previews /\ count'.misses = count.misses
      <4>1. /\ count \in [previews : 0 .. MaxQuotes, changes : Nat, misses : Nat]
            /\ count' = [count EXCEPT !.changes = @ + 1]
            /\ rule' \in [coupon : Discount, auto : Discount]
        BY <2>2 DEF QuotesInv, Typed, ChangeRule
      <4>2. /\ count' \in [previews : 0 .. MaxQuotes, changes : Nat, misses : Nat]
            /\ count'.previews = count.previews /\ count'.misses = count.misses
        BY <4>1
      <4> QED BY <2>2, <4>1, <4>2 DEF QuotesInv, Typed, ChangeRule
    <3> QED BY <2>1, <2>2, <3>1 DEF ChangeRule
  <2>3. CASE Advance /\ UNCHANGED freezeCapture
    <3>1. Typed' /\ count' = count
      BY <2>3 DEF QuotesInv, Typed, Advance
    <3> QED BY <2>1, <2>3, <3>1 DEF Advance
  <2>4. CASE UNCHANGED vars
    <3>1. Typed' /\ count' = count
      BY <2>4 DEF QuotesInv, Typed, vars
    <3> QED BY <2>1, <2>4, <3>1 DEF vars
  <2> QED
    BY <2>2, <2>3, <2>4, PreviewKeeps, ResolveKeeps, QuoteAgainKeeps, CompareKeeps DEF Next
<1> QED BY <1>1, <1>2, PTL DEF Spec

(* Checkout charges a buyer with a quote another price only when its       *)
(* second look at the cache found nothing: a change of OfferHub's rules    *)
(* alone is always noticed.                                                *)
THEOREM ChangesAreNoticed == Spec => []SurpriseNeedsAMiss
<1>1. QuotesInv => SurpriseNeedsAMiss
  BY DEF QuotesInv, PriceFits, SurpriseNeedsAMiss
<1> QED BY <1>1, QuotesInvariant, PTL

(* An order whose snapshot was compared in a FreezeCapture scene leaves    *)
(* the payment channel nothing to pay.                                     *)
THEOREM LedgerTakesAll == Spec => []LedgerPaysAll
<1>1. QuotesInv => LedgerPaysAll
  BY DEF QuotesInv, LedgerFits, LedgerPaysAll
<1> QED BY <1>1, QuotesInvariant, PTL
=============================================================================
