--------------------------- MODULE OrderLifecycle ---------------------------
(***************************************************************************)
(* The life of ONE order after Checkout has inserted it: the sagas of      *)
(* package internal/application (payment_refund.go, query_cancel.go,       *)
(* close.go, compensate.go, recon.go) run by concurrent goroutines over    *)
(* the order row, the compensation table and the remote services.          *)
(*                                                                         *)
(* A goroutine is a process p.  It reads the row once, keeps the copy      *)
(* snap[p] (the variable o of the code) and then makes one remote call or  *)
(* one database statement per step; every other process may move between   *)
(* two of its steps.  Orders share no row, so one order is enough.         *)
(***************************************************************************)
EXTENDS OrderDomain, FiniteSets

CONSTANTS
  Api,             \* goroutines of the HTTP server
  Workers,         \* goroutines of cmd/worker
  MaxTickets,      \* bound: rows of the compensation table in use at a time
  Intent,          \* bound: payment intents the provider may open
  NoIntent,
  Payable, LedgerPay, Discount,
  HasReservation,  \* Promotion.ReservationID # ""
  HasFreeze,       \* Ledger.FreezeID # ""
  AutoComplete,    \* scene.AutoCompleteOnPaid
  AllowClose,      \* scene.AllowCloseAfterPaid
  Adapter,         \* the scene has an InMemory fulfilment adapter, not Noop
  NeedsInventory,  \* scene.NeedsInventory(): Checkout reserved with it
  MaxAttempts,     \* maxCompensationAttempts
  MaxFailedCalls,  \* bound: remote calls that fail or lose their answer
  MaxCrashes,      \* bound: cancelled requests, dead goroutines, restarts
  Requests,        \* the requests clients make in this instance
  Ticks            \* the jobs the worker binary runs in this instance

ASSUME ProcAssumption   == Api \cap Workers = {}
ASSUME TicketAssumption == MaxTickets \in Nat
ASSUME IntentAssumption == NoIntent \notin Intent
ASSUME AmountAssumption ==
  /\ Payable \in Nat
  /\ LedgerPay \in Nat
  /\ LedgerPay <= Payable
  /\ Discount \in Nat
ASSUME SceneAssumption ==
  {HasReservation, HasFreeze, AutoComplete, AllowClose, Adapter,
   NeedsInventory} \subseteq BOOLEAN
ASSUME FreezeAssumption == HasFreeze => LedgerPay > 0
ASSUME BoundAssumption == /\ MaxAttempts \in Nat \ {0}
                          /\ MaxFailedCalls \in Nat /\ MaxCrashes \in Nat

Proc   == Api \cup Workers
Ticket == 1 .. MaxTickets
NoTicket == 0

ChannelPay         == Payable - LedgerPay
NeedsChannelPay    == ChannelPay > 0
HasLedgerFreeze    == HasFreeze \/ LedgerPay > 0

VARIABLES
  ord,      \* the row of table orders
  offer,    \* OfferHub: the reservation and its redemption
  freeze,   \* the ledger's freeze
  credit,   \* what the ledger paid back: by refunds, and by the close key
  channel,  \* what the payment channel paid back
  intents,  \* the provider's payment intents
  held,     \* the in-memory fulfilment map of each binary
  tickets,  \* the compensation table
  events,   \* the outbox: how many rows of each type were written
  pc,       \* the next step of each goroutine
  snap,     \* its copy of the order
  amt,      \* Refund: the amount it pays back
  work,     \* which ticket, new intent or ticket kind it works on
  todo,     \* Tick: the claimed batch, attempts as read by the claim
  faults    \* how many calls failed and how many goroutines died

services == <<offer, freeze, credit, channel, intents, held>>
local    == <<snap, amt, work, todo>>
vars     == <<ord, services, tickets, events, pc, local, faults>>

Site == {"api", "worker"}
SiteOf(p) == IF p \in Workers THEN "worker" ELSE "api"

Kind      == {"after_paid", "offer_release", "ledger_release", "offer_reverse"}
EventType == {"paid", "cancelled", "fulfilled", "completed", "refunded",
              "closed"}

Order == [status: Status, version: Nat, paid: Nat, refunded: Nat,
          redemption: BOOLEAN, intent: Intent \cup {NoIntent}]

(* The order InsertCheckout commits: version 1, nothing paid. *)
NewOrder == [status |-> "PENDING_PAY", version |-> 1, paid |-> 0,
             refunded |-> 0, redemption |-> FALSE, intent |-> NoIntent]

NoWork   == [job |-> NoTicket, by |-> "none", kind |-> "after_paid",
             ref |-> 0, got |-> NoIntent]
NoBatch  == [t \in Ticket |-> 0]
FreeRow  == [kind |-> "after_paid", st |-> "free", attempts |-> 0, ref |-> 0]

Init ==
  /\ ord = NewOrder
  /\ offer = [status   |-> IF HasReservation THEN "ACTIVE" ELSE "NONE",
              redeemed |-> FALSE, reversed |-> 0, keys |-> {}]
  /\ freeze = IF HasFreeze THEN "FROZEN" ELSE "NONE"
  /\ credit = [refund |-> 0, close |-> 0]
  /\ channel = 0
  /\ intents = [i \in Intent |-> "unused"]
  /\ held = [s \in Site |-> IF Adapter /\ NeedsInventory /\ s = "api"
                            THEN "reserved" ELSE "none"]
  /\ tickets = [t \in Ticket |-> FreeRow]
  /\ events = [e \in EventType |-> 0]
  \* Checkout returns only after it has asked the provider for an intent.
  /\ \E p \in Api :
       pc = [q \in Proc |-> IF q = p /\ NeedsChannelPay THEN "intent_create"
                                                        ELSE "idle"]
  /\ snap = [p \in Proc |-> NewOrder]
  /\ amt = [p \in Proc |-> 0]
  /\ work = [p \in Proc |-> NoWork]
  /\ todo = [p \in Proc |-> NoBatch]
  /\ faults = [calls |-> 0, crashes |-> 0]

-----------------------------------------------------------------------------
(* Steps of a goroutine.                                                   *)

Goto(p, l) == pc' = [pc EXCEPT ![p] = l]

Return(p) ==
  /\ Goto(p, "idle")
  /\ snap' = [snap EXCEPT ![p] = NewOrder]
  /\ amt'  = [amt EXCEPT ![p] = 0]
  /\ work' = [work EXCEPT ![p] = NoWork]
  /\ todo' = [todo EXCEPT ![p] = NoBatch]

Continue(p, l) == Goto(p, l) /\ UNCHANGED local

(* FindByID, then the first step of the saga. *)
Begin(p, l) ==
  /\ pc[p] = "idle"
  /\ Goto(p, l)
  /\ snap' = [snap EXCEPT ![p] = ord]

(* The faults of the bound: failed calls, and crashes. *)
Fault == /\ faults.calls < MaxFailedCalls
         /\ faults' = [faults EXCEPT !.calls = @ + 1]
Crash == /\ faults.crashes < MaxCrashes
         /\ faults' = [faults EXCEPT !.crashes = @ + 1]

(* Mutants: the update is guarded by nothing; the version stays; the       *)
(* outbox row is forgotten.                                                *)
CASUnguarded(p, from)  == from \subseteq Status /\ p \in Proc
MovedSameVersion(to)   == [ord EXCEPT !.status = to]
EmitNothing(e)         == UNCHANGED events

(* repo.Transition: one transaction, guarded by version and status, that   *)
(* moves the row and writes the outbox row.                                *)
CAS(p, from) == ord.version = snap[p].version /\ ord.status \in from
Moved(to)    == [ord EXCEPT !.status = to, !.version = ord.version + 1]
Emit(e)      == events' = [events EXCEPT ![e] = @ + 1]

(* InsertCompensation.  A finished row nobody holds may be taken again:    *)
(* that bounds the table, MaxTickets being the number of live rows.  When  *)
(* none is left the insert fails, and the callers ignore its error.        *)
Vacant == {t \in Ticket : /\ tickets[t].st \in {"free", "done"}
                          /\ \A p \in Proc : work[p].job # t /\ todo[p][t] = 0}
InsertNothing(k, ref) == UNCHANGED tickets  \* mutant: no ticket is written
InsertCompensation(k, ref) ==
  tickets' = IF Vacant = {} THEN tickets
             ELSE [tickets EXCEPT ![CHOOSE t \in Vacant : TRUE] =
                     [kind |-> k, st |-> "pending", attempts |-> 0, ref |-> ref]]
HasOpenCompensation(k) ==
  \E t \in Ticket : tickets[t].kind = k /\ tickets[t].st \in {"pending", "running"}

-----------------------------------------------------------------------------
(* The remote services.  A call is applied and answered, applied with the  *)
(* answer lost, or not applied at all; the caller sees the last two alike. *)

OfferCommit  == /\ offer.status \in {"ACTIVE", "COMMITTED"}
                /\ offer' = [offer EXCEPT !.status = "COMMITTED", !.redeemed = TRUE]
OfferRelease == offer' = [offer EXCEPT !.status = IF @ = "NONE" THEN @ ELSE "RELEASED"]

(* Amount 0 takes back all that remains.  key is the refund the call is    *)
(* for: a repeated key gets the first result again.                        *)
ReverseAmount(a) == IF a = 0 THEN Discount - offer.reversed ELSE a
OfferReverse(a, key) ==
  \/ key \in offer.keys /\ UNCHANGED offer
  \/ /\ key \notin offer.keys
     /\ offer.redeemed
     /\ ReverseAmount(a) <= Discount - offer.reversed
     /\ offer' = [offer EXCEPT !.reversed = offer.reversed + ReverseAmount(a),
                               !.keys = @ \cup {key}]
ReverseRefused(a, key) ==
  /\ key \notin offer.keys
  /\ ~offer.redeemed \/ ReverseAmount(a) > Discount - offer.reversed

LedgerCapture == /\ freeze # "NONE"
                 /\ freeze' = IF freeze = "FROZEN" THEN "CAPTURED" ELSE freeze
LedgerRelease == freeze' = IF freeze = "FROZEN" THEN "RELEASED" ELSE freeze

AdapterSet(p, v) == held' = IF Adapter THEN [held EXCEPT ![SiteOf(p)] = v] ELSE held

-----------------------------------------------------------------------------
(* Payment intents: the tail of Checkout, and RecreateIntent.              *)

(* The provider refuses once the bound Intent is used up. *)
RecreateIntent(p) ==
  /\ "intent" \in Requests /\ p \in Api
  /\ ord.status = "PENDING_PAY" /\ NeedsChannelPay
  /\ Begin(p, "intent_create")
  /\ UNCHANGED <<ord, services, tickets, events, amt, work, todo, faults>>

CreateIntent(p) ==
  /\ pc[p] = "intent_create"
  /\ \/ /\ \E i \in Intent :
              /\ intents[i] = "unused"
              /\ intents' = [intents EXCEPT ![i] = "open"]
              /\ \/ /\ Goto(p, "intent_save")
                    /\ work' = [work EXCEPT ![p].got = i]
                    /\ UNCHANGED <<snap, amt, todo, faults>>
                 \/ Return(p) /\ Fault
     \/ Return(p) /\ Fault /\ UNCHANGED intents
     \/ /\ \A i \in Intent : intents[i] # "unused"
        /\ Return(p) /\ UNCHANGED <<intents, faults>>
  /\ UNCHANGED <<ord, offer, freeze, credit, channel, held, tickets, events>>

(* UpdatePaymentIntent: no version, no status in its WHERE clause. *)
UpdatePaymentIntent(p) ==
  /\ pc[p] = "intent_save"
  /\ ord' = [ord EXCEPT !.intent = work[p].got]
  /\ Return(p)
  /\ UNCHANGED <<services, tickets, events, faults>>

(* The buyer pays at the provider; the order learns of it by the callback. *)
BuyerPays(i) ==
  /\ intents[i] = "open"
  /\ intents' = [intents EXCEPT ![i] = "paid"]
  /\ UNCHANGED <<ord, offer, freeze, credit, channel, held, tickets, events,
                 pc, local, faults>>

-----------------------------------------------------------------------------
(* onPaid, from the callback of a paid intent or from ConfirmLedger.       *)

PaymentArrived ==
  IF NeedsChannelPay
  THEN \E i \in Intent : intents[i] = "paid" /\ ord.intent \in {i, NoIntent}
  ELSE TRUE

OnPaid(p) ==
  /\ "pay" \in Requests /\ p \in Api
  /\ PaymentArrived
  /\ ord.status = "PENDING_PAY"
  /\ Begin(p, "pay_cas")
  /\ work' = [work EXCEPT ![p].by = "pay"]
  /\ UNCHANGED <<ord, services, tickets, events, amt, todo, faults>>

(* The steps of afterPaid an order has no use for are skipped. *)
CaptureStep == IF HasLedgerFreeze THEN "capture" ELSE "deliver"
CommitStep  == IF HasReservation THEN "commit" ELSE CaptureStep

PayCAS(p) ==
  /\ pc[p] = "pay_cas"
  /\ \/ /\ CAS(p, {"PENDING_PAY"})
        /\ ord' = [Moved("PAID") EXCEPT !.paid = Payable]
        /\ Emit("paid")
        /\ snap' = [snap EXCEPT ![p] = ord']
        /\ Goto(p, CommitStep)
        /\ UNCHANGED <<amt, work, todo>>
     \/ /\ ~CAS(p, {"PENDING_PAY"})
        /\ Return(p)
        /\ UNCHANGED <<ord, events>>
  /\ UNCHANGED <<services, tickets, faults>>

(* afterPaid returned an error: onPaid files an after_paid ticket and goes *)
(* on to park the order, a retry of a ticket records the failure.          *)
AfterPaidFails(p) ==
  \/ /\ work[p].by = "pay"
     /\ InsertCompensation("after_paid", 0)
     /\ Continue(p, "park")
  \/ /\ work[p].by = "admin"
     /\ Return(p)
     /\ UNCHANGED tickets
  \/ /\ work[p].by \in {"worker", "console"}
     /\ Continue(p, "unresolve")
     /\ UNCHANGED tickets

CommitOffer(p) ==
  /\ pc[p] = "commit"
  /\ \/ OfferCommit /\ Continue(p, "redeem") /\ UNCHANGED <<tickets, faults>>
     \/ OfferCommit /\ Fault /\ AfterPaidFails(p)
     \/ Fault /\ AfterPaidFails(p) /\ UNCHANGED offer
     \/ /\ offer.status \notin {"ACTIVE", "COMMITTED"}
        /\ AfterPaidFails(p) /\ UNCHANGED <<offer, faults>>
  /\ UNCHANGED <<ord, freeze, credit, channel, intents, held, events>>

(* UpdateRedemption leaves the version alone. *)
UpdateRedemption(p) ==
  /\ pc[p] = "redeem"
  /\ ord' = [ord EXCEPT !.redemption = TRUE]
  /\ snap' = [snap EXCEPT ![p].redemption = TRUE]
  /\ Goto(p, CaptureStep)
  /\ UNCHANGED <<services, tickets, events, amt, work, todo, faults>>

CaptureFreeze(p) ==
  /\ pc[p] = "capture"
  /\ \/ LedgerCapture /\ Continue(p, "deliver") /\ UNCHANGED <<tickets, faults>>
     \/ LedgerCapture /\ Fault /\ AfterPaidFails(p)
     \/ Fault /\ AfterPaidFails(p) /\ UNCHANGED freeze
     \/ freeze = "NONE" /\ AfterPaidFails(p) /\ UNCHANGED <<freeze, faults>>
  /\ UNCHANGED <<ord, offer, credit, channel, intents, held, events>>

CommitFulfillment(p) ==
  /\ pc[p] = "deliver"
  /\ AdapterSet(p, "committed")
  /\ Continue(p, "settle")
  /\ UNCHANGED <<ord, offer, freeze, credit, channel, intents, tickets, events, faults>>

Settle(p) ==
  /\ pc[p] = "settle"
  /\ \/ /\ CAS(p, {"PAID", "COMPENSATING"})
        /\ ord' = Moved(NextAfterPaid(AutoComplete))
        /\ Emit(IF AutoComplete THEN "completed" ELSE "fulfilled")
        /\ \/ work[p].by \in {"pay", "admin"} /\ Return(p)
           \/ work[p].by \in {"worker", "console"} /\ Continue(p, "resolve")
        /\ UNCHANGED tickets
     \/ /\ ~CAS(p, {"PAID", "COMPENSATING"})
        /\ AfterPaidFails(p)
        /\ UNCHANGED <<ord, events>>
  /\ UNCHANGED <<services, faults>>

(* Mutant: the order is parked whatever became of it. *)
ParkAnyway(p) ==
  /\ pc[p] = "park"
  /\ ord' = Moved("COMPENSATING")
  /\ Return(p)
  /\ UNCHANGED <<services, tickets, events, faults>>
Park(p) ==
  /\ pc[p] = "park"
  /\ ord' = IF CAS(p, {"PAID"}) THEN Moved("COMPENSATING") ELSE ord
  /\ Return(p)
  /\ UNCHANGED <<services, tickets, events, faults>>

(* Console: the retry of a paid order without a ticket. *)
AdminRetryPaid(p) ==
  /\ "retry" \in Requests /\ p \in Api
  /\ ord.status \in {"PAID", "COMPENSATING"}
  /\ Begin(p, CommitStep)
  /\ work' = [work EXCEPT ![p].by = "admin"]
  /\ UNCHANGED <<ord, services, tickets, events, amt, todo, faults>>

-----------------------------------------------------------------------------
(* cancel, by the buyer or by the timeout worker.  The status check and    *)
(* the compare-and-set both come before any resource is given back.        *)

CancelLedgerStep == IF HasLedgerFreeze THEN "cancel_ledger" ELSE "cancel_stock"
CancelOfferStep  == IF HasReservation THEN "cancel_offer" ELSE CancelLedgerStep

(* Mutants: the freeze is released before the compare-and-set; expired     *)
(* orders are left alone.                                                  *)
CancelReleasesFirst(p) ==
  /\ ord.status = "PENDING_PAY"
  /\ Begin(p, CancelLedgerStep)
  /\ UNCHANGED <<ord, services, tickets, events, amt, work, todo, faults>>
CancelByBuyer(p) ==
  /\ "cancel" \in Requests /\ p \in Api
  /\ ord.status = "PENDING_PAY"
  /\ Begin(p, "cancel_cas")
  /\ UNCHANGED <<ord, services, tickets, events, amt, work, todo, faults>>

Cancel(p) ==
  /\ \/ "cancel" \in Requests /\ p \in Api
     \/ "timeout" \in Ticks /\ p \in Workers
  /\ ord.status = "PENDING_PAY"
  /\ Begin(p, "cancel_cas")
  /\ UNCHANGED <<ord, services, tickets, events, amt, work, todo, faults>>

CancelCAS(p) ==
  /\ pc[p] = "cancel_cas"
  /\ \/ /\ CAS(p, {"PENDING_PAY"})
        /\ ord' = Moved("CANCELLED")
        /\ Emit("cancelled")
        /\ snap' = [snap EXCEPT ![p] = ord']
        /\ Goto(p, CancelOfferStep)
        /\ UNCHANGED <<amt, work, todo>>
     \/ /\ ~CAS(p, {"PENDING_PAY"})
        /\ Return(p)
        /\ UNCHANGED <<ord, events>>
  /\ UNCHANGED <<services, tickets, faults>>

CancelOffer(p) ==
  /\ pc[p] = "cancel_offer"
  /\ Continue(p, CancelLedgerStep)
  /\ \/ OfferRelease /\ UNCHANGED <<tickets, faults>>
     \/ OfferRelease /\ Fault /\ InsertCompensation("offer_release", 0)
     \/ UNCHANGED offer /\ Fault /\ InsertCompensation("offer_release", 0)
  /\ UNCHANGED <<ord, freeze, credit, channel, intents, held, events>>

CancelLedger(p) ==
  /\ pc[p] = "cancel_ledger"
  /\ Continue(p, "cancel_stock")
  /\ \/ LedgerRelease /\ UNCHANGED <<tickets, faults>>
     \/ LedgerRelease /\ Fault /\ InsertCompensation("ledger_release", 0)
     \/ UNCHANGED freeze /\ Fault /\ InsertCompensation("ledger_release", 0)
  /\ UNCHANGED <<ord, offer, credit, channel, intents, held, events>>

(* The adapters cannot fail, so no fulfill_release ticket is ever written. *)
CancelStock(p) ==
  /\ pc[p] = "cancel_stock"
  /\ AdapterSet(p, "none")
  /\ Continue(p, "cancel_intent")
  /\ UNCHANGED <<ord, offer, freeze, credit, channel, intents, tickets, events, faults>>

(* CloseIntent of the intent the cancelled row names; its error is ignored. *)
CancelIntent(p) ==
  /\ pc[p] = "cancel_intent"
  /\ Return(p)
  /\ LET i == snap[p].intent
     IN  \/ /\ intents' = IF i # NoIntent /\ intents[i] = "open"
                            THEN [intents EXCEPT ![i] = "closed"] ELSE intents
            /\ UNCHANGED faults
         \/ i # NoIntent /\ Fault /\ UNCHANGED intents
  /\ UNCHANGED <<ord, offer, freeze, credit, channel, held, tickets, events>>

-----------------------------------------------------------------------------
(* Complete: the merchant confirms delivery.                               *)

Complete(p) ==
  /\ "complete" \in Requests /\ p \in Api
  /\ ord.status \in {"FULFILLING", "PAID"}
  /\ Begin(p, "complete_cas")
  /\ UNCHANGED <<ord, services, tickets, events, amt, work, todo, faults>>

CompleteCAS(p) ==
  /\ pc[p] = "complete_cas"
  /\ Return(p)
  /\ \/ CAS(p, {"FULFILLING", "PAID"}) /\ ord' = Moved("COMPLETED") /\ Emit("completed")
     \/ ~CAS(p, {"FULFILLING", "PAID"}) /\ UNCHANGED <<ord, events>>
  /\ UNCHANGED <<services, tickets, faults>>

-----------------------------------------------------------------------------
(* Refund.  The compare-and-set into REFUNDING comes first and makes the   *)
(* holder of the new version the only one who may leave it.                *)

Split(p) == splitRefund(LedgerPay, Payable, amt[p])
IsFull(p) == snap[p].refunded + amt[p] = snap[p].paid

Refund(p) ==
  /\ "refund" \in Requests /\ p \in Api
  /\ ord.status \in Refundable
  /\ \E a \in 1 .. RefundableAmount(ord) : amt' = [amt EXCEPT ![p] = a]
  /\ Begin(p, "refund_cas")
  /\ UNCHANGED <<ord, services, tickets, events, work, todo, faults>>

RefundCAS(p) ==
  /\ pc[p] = "refund_cas"
  /\ \/ /\ CAS(p, {snap[p].status})
        /\ ord' = Moved("REFUNDING")
        /\ snap' = [snap EXCEPT ![p].version = @ + 1, ![p].status = "REFUNDING"]
        /\ Goto(p, "refund_channel")
        /\ UNCHANGED <<amt, work, todo>>
     \/ /\ ~CAS(p, {snap[p].status})
        /\ Return(p)
        /\ UNCHANGED ord
  /\ UNCHANGED <<services, tickets, events, faults>>

(* An error of the channel or of the ledger ends the handler: no ticket,   *)
(* and the row stays REFUNDING.                                            *)
RefundChannel(p) ==
  /\ pc[p] = "refund_channel"
  /\ LET c == Split(p).channel
     IN  \/ channel' = channel + c /\ Continue(p, "refund_credit") /\ UNCHANGED faults
         \/ c > 0 /\ channel' = channel + c /\ Fault /\ Return(p)
         \/ c > 0 /\ UNCHANGED channel /\ Fault /\ Return(p)
  /\ UNCHANGED <<ord, offer, freeze, credit, intents, held, tickets, events>>

RefundCredit(p) ==
  /\ pc[p] = "refund_credit"
  /\ LET l == Split(p).ledger
     IN  \/ /\ credit' = [credit EXCEPT !.refund = @ + l]
            /\ Continue(p, "refund_reverse") /\ UNCHANGED faults
         \/ l > 0 /\ credit' = [credit EXCEPT !.refund = @ + l] /\ Fault /\ Return(p)
         \/ l > 0 /\ UNCHANGED credit /\ Fault /\ Return(p)
  /\ UNCHANGED <<ord, offer, freeze, channel, intents, held, tickets, events>>

(* The copy decides whether there is a redemption to take back. *)
RefundReverse(p) ==
  /\ pc[p] = "refund_reverse"
  /\ Continue(p, "refund_finish")
  /\ LET a   == reverseDiscount(Discount, Payable, amt[p], IsFull(p))
         key == snap[p].version
     IN  \/ ~snap[p].redemption /\ UNCHANGED <<offer, tickets, faults>>
         \/ snap[p].redemption /\ OfferReverse(a, key) /\ UNCHANGED <<tickets, faults>>
         \/ /\ snap[p].redemption /\ OfferReverse(a, key) /\ Fault
            /\ InsertCompensation("offer_reverse", key)
         \/ /\ snap[p].redemption /\ UNCHANGED offer /\ Fault
            /\ InsertCompensation("offer_reverse", key)
         \/ /\ snap[p].redemption /\ ReverseRefused(a, key)
            /\ InsertCompensation("offer_reverse", key) /\ UNCHANGED <<offer, faults>>
  /\ UNCHANGED <<ord, freeze, credit, channel, intents, held, events>>

(* The refund row InsertRefund adds afterwards is read by no saga. *)
RefundFinish(p) ==
  /\ pc[p] = "refund_finish"
  /\ Return(p)
  /\ \/ /\ CAS(p, {"REFUNDING"})
        /\ ord' = [Moved(IF IsFull(p) THEN "REFUNDED" ELSE "PARTIAL_REFUNDED")
                     EXCEPT !.refunded = @ + amt[p]]
        /\ Emit("refunded")
     \/ ~CAS(p, {"REFUNDING"}) /\ UNCHANGED <<ord, events>>
  /\ UNCHANGED <<services, tickets, faults>>

-----------------------------------------------------------------------------
(* Close: gives the resources back first, and moves the row last.          *)

Close(p) ==
  /\ "close" \in Requests /\ p \in Api
  /\ AllowClose /\ ord.status \in Closable
  /\ Begin(p, "close_offer")
  /\ UNCHANGED <<ord, services, tickets, events, amt, work, todo, faults>>

CloseKey == 0
CloseOffer(p) ==
  /\ pc[p] = "close_offer"
  /\ LET reverse == snap[p].redemption /\ Discount > 0
         release == HasReservation /\ ~snap[p].redemption
         applied == \/ reverse /\ OfferReverse(0, CloseKey)
                    \/ release /\ OfferRelease
     IN  \/ applied /\ Continue(p, "close_credit") /\ UNCHANGED faults
         \/ /\ ~reverse /\ ~release
            /\ Continue(p, "close_credit") /\ UNCHANGED <<offer, faults>>
         \/ applied /\ Fault /\ Return(p)
         \/ (reverse \/ release) /\ Fault /\ Return(p) /\ UNCHANGED offer
         \/ reverse /\ ReverseRefused(0, CloseKey) /\ Return(p) /\ UNCHANGED <<offer, faults>>
  /\ UNCHANGED <<ord, freeze, credit, channel, intents, held, tickets, events>>

(* Mutant: every try credits under a biz_no of its own. *)
CloseCreditEachTry(p) ==
  /\ pc[p] = "close_credit"
  /\ LET l       == splitRefund(LedgerPay, Payable, RefundableAmount(snap[p])).ledger
         applied == credit' = [credit EXCEPT !.close = @ + l]
     IN  \/ applied /\ Continue(p, "close_stock") /\ UNCHANGED faults
         \/ l > 0 /\ applied /\ Fault /\ Return(p)
         \/ l > 0 /\ UNCHANGED credit /\ Fault /\ Return(p)
  /\ UNCHANGED <<ord, offer, freeze, channel, intents, held, tickets, events>>

(* The ledger credits one biz_no once: order:close:<order_id>. *)
CloseCredit(p) ==
  /\ pc[p] = "close_credit"
  /\ LET l       == splitRefund(LedgerPay, Payable, RefundableAmount(snap[p])).ledger
         applied == credit' = [credit EXCEPT !.close = IF @ = 0 THEN l ELSE @]
     IN  \/ applied /\ Continue(p, "close_stock") /\ UNCHANGED faults
         \/ l > 0 /\ applied /\ Fault /\ Return(p)
         \/ l > 0 /\ UNCHANGED credit /\ Fault /\ Return(p)
  /\ UNCHANGED <<ord, offer, freeze, channel, intents, held, tickets, events>>

CloseStock(p) ==
  /\ pc[p] = "close_stock"
  /\ AdapterSet(p, "none")
  /\ Continue(p, "close_cas")
  /\ UNCHANGED <<ord, offer, freeze, credit, channel, intents, tickets, events, faults>>

CloseCAS(p) ==
  /\ pc[p] = "close_cas"
  /\ Return(p)
  /\ \/ CAS(p, Closable) /\ ord' = Moved("CLOSED") /\ Emit("closed")
     \/ ~CAS(p, Closable) /\ UNCHANGED <<ord, events>>
  /\ UNCHANGED <<services, tickets, faults>>

-----------------------------------------------------------------------------
(* The compensation worker.  Attempts stop counting at MaxAttempts, the    *)
(* only value they are compared with; the back-off is any delay.           *)

ClaimCompensations(p) ==
  /\ "compensate" \in Ticks /\ p \in Workers
  /\ pc[p] = "idle"
  /\ \E due \in SUBSET {t \in Ticket : tickets[t].st = "pending"} :
       LET next(t) == IF tickets[t].attempts < MaxAttempts
                      THEN tickets[t].attempts + 1 ELSE MaxAttempts
       IN  /\ due # {}
           /\ tickets' = [t \in Ticket |->
                 IF t \in due THEN [tickets[t] EXCEPT !.st = "running", !.attempts = next(t)]
                              ELSE tickets[t]]
           /\ todo' = [todo EXCEPT ![p] = [t \in Ticket |-> IF t \in due THEN next(t) ELSE 0]]
  /\ Goto(p, "pick")
  /\ UNCHANGED <<ord, services, events, snap, amt, work, faults>>

(* handle: the step that serves each kind of ticket. *)
Serve(k) == CASE k = "after_paid"      -> "retry_read"
              [] k = "offer_release"   -> "do_offer_release"
              [] k = "ledger_release"  -> "do_ledger_release"
              [] k = "offer_reverse"   -> "do_offer_reverse"

(* The goroutine works on its own copy of the ticket. *)
Take(t, by) == [NoWork EXCEPT !.job = t, !.by = by, !.ref = tickets[t].ref]

PickTicket(p) ==
  /\ pc[p] = "pick"
  /\ \/ \E t \in Ticket :
          /\ todo[p][t] > 0
          /\ Goto(p, Serve(tickets[t].kind))
          /\ work' = [work EXCEPT ![p] = Take(t, "worker")]
          /\ UNCHANGED <<snap, amt, todo>>
     \/ (\A t \in Ticket : todo[p][t] = 0) /\ Return(p)
  /\ UNCHANGED <<ord, services, tickets, events, faults>>

(* Console: Retry of a ticket by its id, in whatever status the row is.    *)
RetryCompensation(p, t) ==
  /\ "console" \in Requests /\ p \in Api
  /\ pc[p] = "idle" /\ tickets[t].st # "free"
  /\ Goto(p, Serve(tickets[t].kind))
  /\ work' = [work EXCEPT ![p] = Take(t, "console")]
  /\ UNCHANGED <<ord, services, tickets, events, snap, amt, todo, faults>>

(* RetryAfterPaid: an order past PAID counts as settled. *)
RetryAfterPaid(p) ==
  /\ pc[p] = "retry_read"
  /\ Goto(p, CASE ord.status \in {"FULFILLING", "COMPLETED"} -> "resolve"
              [] ord.status \in {"PAID", "COMPENSATING"}     -> CommitStep
              [] OTHER                                       -> "unresolve")
  /\ snap' = [snap EXCEPT ![p] = ord]
  /\ UNCHANGED <<ord, services, tickets, events, amt, work, todo, faults>>

RetryOfferRelease(p) ==
  /\ pc[p] = "do_offer_release"
  /\ \/ OfferRelease /\ Continue(p, "resolve") /\ UNCHANGED faults
     \/ OfferRelease /\ Fault /\ Continue(p, "unresolve")
     \/ UNCHANGED offer /\ Fault /\ Continue(p, "unresolve")
  /\ UNCHANGED <<ord, freeze, credit, channel, intents, held, tickets, events>>

RetryLedgerRelease(p) ==
  /\ pc[p] = "do_ledger_release"
  /\ \/ LedgerRelease /\ Continue(p, "resolve") /\ UNCHANGED faults
     \/ LedgerRelease /\ Fault /\ Continue(p, "unresolve")
     \/ UNCHANGED freeze /\ Fault /\ Continue(p, "unresolve")
  /\ UNCHANGED <<ord, offer, credit, channel, intents, held, tickets, events>>

(* The whole redemption is asked back, whatever the refund was worth. *)
RetryOfferReverse(p) ==
  /\ pc[p] = "do_offer_reverse"
  /\ \/ OfferReverse(0, work[p].ref) /\ Continue(p, "resolve") /\ UNCHANGED faults
     \/ OfferReverse(0, work[p].ref) /\ Fault /\ Continue(p, "unresolve")
     \/ UNCHANGED offer /\ Fault /\ Continue(p, "unresolve")
     \/ ReverseRefused(0, work[p].ref) /\ Continue(p, "unresolve") /\ UNCHANGED <<offer, faults>>
  /\ UNCHANGED <<ord, freeze, credit, channel, intents, held, tickets, events>>

(* UpdateCompensation: the WHERE clause is the id alone. *)
UpdateCompensation(p) ==
  /\ pc[p] \in {"resolve", "unresolve"}
  /\ LET t    == work[p].job
         tick == work[p].by = "worker"
         st   == CASE pc[p] = "resolve"                        -> "done"
                   [] tick /\ todo[p][t] >= MaxAttempts        -> "failed"
                   [] OTHER                                    -> "pending"
     IN  /\ tickets' = [tickets EXCEPT ![t].st = st]
         /\ \/ tick
               /\ Goto(p, "pick")
               /\ todo' = [todo EXCEPT ![p][t] = 0]
               /\ snap' = [snap EXCEPT ![p] = NewOrder]
               /\ work' = [work EXCEPT ![p] = NoWork]
               /\ UNCHANGED amt
            \/ ~tick /\ Return(p)
  /\ UNCHANGED <<ord, services, events, faults>>

-----------------------------------------------------------------------------
(* Reconciliation of the reservation with the order (ReconService.Run with *)
(* apply): tickets for what is missing, the redemption id filled in.       *)

ReconRead(p) ==
  /\ \/ "recon" \in Ticks /\ p \in Workers
     \/ "recon" \in Requests /\ p \in Api
  /\ HasReservation
  /\ Begin(p, "recon_get")
  /\ UNCHANGED <<ord, services, tickets, events, amt, work, todo, faults>>

ReconCompare(p) ==
  /\ pc[p] = "recon_get"
  /\ LET st     == snap[p].status
         active == offer.status = "ACTIVE"
         ticket(k) == /\ Goto(p, "recon_check")
                      /\ work' = [work EXCEPT ![p].kind = k]
                      /\ UNCHANGED <<snap, amt, todo>>
     IN  \/ active /\ st \in paidLike /\ ticket("after_paid") /\ UNCHANGED faults
         \/ active /\ st \in {"CANCELLED", "CLOSED"} /\ ticket("offer_release") /\ UNCHANGED faults
         \/ /\ offer.status = "COMMITTED" /\ ~snap[p].redemption
            /\ Continue(p, "recon_commit") /\ UNCHANGED faults
         \/ /\ \/ active /\ st = "PENDING_PAY"
               \/ offer.status = "COMMITTED" /\ snap[p].redemption
               \/ offer.status = "RELEASED"
            /\ Return(p) /\ UNCHANGED faults
         \/ Fault /\ Return(p)
  /\ UNCHANGED <<ord, services, tickets, events>>

(* ensureTicket looks for an open ticket and inserts in two statements. *)
ReconCheck(p) ==
  /\ pc[p] = "recon_check"
  /\ \/ HasOpenCompensation(work[p].kind) /\ Return(p)
     \/ ~HasOpenCompensation(work[p].kind) /\ Continue(p, "recon_insert")
  /\ UNCHANGED <<ord, services, tickets, events, faults>>

ReconInsert(p) ==
  /\ pc[p] = "recon_insert"
  /\ InsertCompensation(work[p].kind, 0)
  /\ Return(p)
  /\ UNCHANGED <<ord, services, events, faults>>

ReconCommit(p) ==
  /\ pc[p] = "recon_commit"
  /\ \/ OfferCommit /\ Continue(p, "recon_redeem") /\ UNCHANGED faults
     \/ /\ \/ OfferCommit /\ Fault
           \/ UNCHANGED offer /\ Fault
           \/ offer.status \notin {"ACTIVE", "COMMITTED"} /\ UNCHANGED <<offer, faults>>
        /\ Goto(p, "recon_check")
        /\ work' = [work EXCEPT ![p].kind = "after_paid"]
        /\ UNCHANGED <<snap, amt, todo>>
  /\ UNCHANGED <<ord, freeze, credit, channel, intents, held, tickets, events>>

ReconRedeem(p) ==
  /\ pc[p] = "recon_redeem"
  /\ ord' = [ord EXCEPT !.redemption = TRUE]
  /\ Return(p)
  /\ UNCHANGED <<services, tickets, events, faults>>

-----------------------------------------------------------------------------
(* The request's context is cancelled or the goroutine dies: every call    *)
(* it had left fails, and so does the ticket it would have written.        *)
Abandon(p) ==
  /\ pc[p] # "idle"
  /\ Crash
  /\ Return(p)
  /\ UNCHANGED <<ord, services, tickets, events>>

(* A binary restarts: its goroutines and its in-memory adapter are gone.   *)
Restart(s) ==
  /\ Crash
  /\ held' = [held EXCEPT ![s] = "none"]
  /\ LET gone == {p \in Proc : SiteOf(p) = s}
         Reset(f, v) == [p \in Proc |-> IF p \in gone THEN v ELSE f[p]]
     IN  /\ pc' = Reset(pc, "idle")
         /\ snap' = Reset(snap, NewOrder)
         /\ amt' = Reset(amt, 0)
         /\ work' = Reset(work, NoWork)
         /\ todo' = Reset(todo, NoBatch)
  /\ UNCHANGED <<ord, offer, freeze, credit, channel, intents, tickets, events>>

-----------------------------------------------------------------------------
(* Steps a goroutine owes once it has begun, and the requests and jobs     *)
(* that begin one.                                                         *)
Step(p) ==
  \/ CreateIntent(p) \/ UpdatePaymentIntent(p)
  \/ PayCAS(p) \/ CommitOffer(p) \/ UpdateRedemption(p) \/ CaptureFreeze(p)
  \/ CommitFulfillment(p) \/ Settle(p) \/ Park(p)
  \/ CancelCAS(p) \/ CancelOffer(p) \/ CancelLedger(p) \/ CancelStock(p)
  \/ CancelIntent(p)
  \/ CompleteCAS(p)
  \/ RefundCAS(p) \/ RefundChannel(p) \/ RefundCredit(p) \/ RefundReverse(p)
  \/ RefundFinish(p)
  \/ CloseOffer(p) \/ CloseCredit(p) \/ CloseStock(p) \/ CloseCAS(p)
  \/ PickTicket(p) \/ RetryAfterPaid(p) \/ RetryOfferRelease(p)
  \/ RetryLedgerRelease(p) \/ RetryOfferReverse(p) \/ UpdateCompensation(p)
  \/ ReconCompare(p) \/ ReconCheck(p) \/ ReconInsert(p) \/ ReconCommit(p)
  \/ ReconRedeem(p)

Request(p) ==
  \/ RecreateIntent(p) \/ OnPaid(p) \/ AdminRetryPaid(p) \/ Cancel(p)
  \/ Complete(p) \/ Refund(p) \/ Close(p)
  \/ \E t \in Ticket : RetryCompensation(p, t)
  \/ ClaimCompensations(p) \/ ReconRead(p)

Next ==
  \/ \E p \in Proc : Step(p) \/ Request(p) \/ Abandon(p)
  \/ \E i \in Intent : BuyerPays(i)
  \/ \E s \in Site : Restart(s)

Spec == Init /\ [][Next]_vars

(* A goroutine that has begun keeps running.  The worker binary serves its *)
(* tickers from one select, which picks at random among those that are     *)
(* due: a job that is due again and again is served in the end.            *)
Fairness ==
  /\ \A p \in Proc : WF_vars(Step(p))
  /\ \A p \in Workers : /\ SF_vars(Cancel(p))
                         /\ SF_vars(ClaimCompensations(p))
                         /\ SF_vars(ReconRead(p))

FairSpec == Spec /\ Fairness

-----------------------------------------------------------------------------
(* Properties.                                                             *)

Label == {"idle", "intent_create", "intent_save", "pay_cas", "commit", "redeem",
          "capture", "deliver", "settle", "park", "cancel_cas", "cancel_offer",
          "cancel_ledger", "cancel_stock", "cancel_intent", "complete_cas",
          "refund_cas", "refund_channel", "refund_credit", "refund_reverse",
          "refund_finish", "close_offer", "close_credit", "close_stock",
          "close_cas", "pick", "retry_read", "do_offer_release",
          "do_ledger_release", "do_offer_reverse", "resolve", "unresolve",
          "recon_get", "recon_check", "recon_insert", "recon_commit",
          "recon_redeem"}

Offer  == [status: {"NONE", "ACTIVE", "COMMITTED", "RELEASED"}, redeemed: BOOLEAN,
           reversed: Int, keys: SUBSET Nat]
Row    == [kind: Kind, st: {"free", "pending", "running", "done", "failed"},
           attempts: 0 .. MaxAttempts, ref: Nat]
Task   == [job: Ticket \cup {NoTicket}, by: {"none", "pay", "admin", "worker", "console"},
           kind: {"after_paid", "offer_release"}, ref: Nat, got: Intent \cup {NoIntent}]

LocalsOK ==
  /\ pc \in [Proc -> Label]
  /\ snap \in [Proc -> Order]
  /\ amt \in [Proc -> Nat]
  /\ work \in [Proc -> Task]
  /\ todo \in [Proc -> [Ticket -> 0 .. MaxAttempts]]
ServicesOK ==
  /\ offer \in Offer
  /\ freeze \in {"NONE", "FROZEN", "CAPTURED", "RELEASED"}
  /\ credit \in [refund: Nat, close: Int]
  /\ channel \in Nat
  /\ intents \in [Intent -> {"unused", "open", "paid", "closed"}]
  /\ held \in [Site -> {"none", "reserved", "committed"}]

(* Every variable keeps the shape of the row, table or call it models.     *)
TypeOK ==
  /\ ord \in Order
  /\ ServicesOK
  /\ tickets \in [Ticket -> Row]
  /\ events \in [EventType -> Nat]
  /\ LocalsOK
  /\ faults \in [calls: Nat, crashes: Nat]

(* A goroutine's copy of the row that still carries the row's version is   *)
(* still right about status and money: whatever order the sagas of         *)
(* payment_refund.go, query_cancel.go and close.go interleave in, no       *)
(* compare-and-set can act on a stale status (no lost update, no ABA).     *)
SnapshotAgrees ==
  \A p \in Proc : snap[p].version = ord.version =>
    /\ snap[p].status = ord.status
    /\ snap[p].paid = ord.paid
    /\ snap[p].refunded = ord.refunded

(* The payment callback and the cancellation race for the row and only the *)
(* winner touches the resources: the freeze of a cancelled order is never  *)
(* captured nor its coupon redeemed, and that of a paid one never thawed.  *)
OnlyWinnerActs ==
  /\ freeze = "RELEASED" => ord.status = "CANCELLED"
  /\ freeze = "CAPTURED" \/ offer.redeemed \/ ord.paid > 0
       => ord.status \notin {"PENDING_PAY", "CANCELLED"}

(* The steps of Refund between its two compare-and-sets. *)
RefundPhase == {"refund_channel", "refund_credit", "refund_reverse", "refund_finish"}

(* However refunds, completions and closings overlap, refunds never pay    *)
(* back more than the order was paid, and refunded_amount never claims     *)
(* more than channel and ledger really paid back.                          *)
RefundsWithinPaid ==
  /\ ord.refunded <= channel + credit.refund
  /\ channel + credit.refund <= ord.paid
  /\ ord.paid <= Payable

(* Two refunds never run between their compare-and-sets at the same time.  *)
RefundIsExclusive ==
  \A p, q \in Proc : pc[p] \in RefundPhase /\ pc[q] \in RefundPhase => p = q

(* The outbox tells one consistent story: an order is announced paid,      *)
(* cancelled, fulfilled, completed and closed at most once, and paid,      *)
(* cancelled and closed exactly when the row says so.                      *)
EventsMatchRow ==
  /\ events["paid"] = IF ord.status \in {"PENDING_PAY", "CANCELLED"} THEN 0 ELSE 1
  /\ events["cancelled"] = IF ord.status = "CANCELLED" THEN 1 ELSE 0
  /\ events["closed"] = IF ord.status = "CLOSED" THEN 1 ELSE 0
  /\ events["fulfilled"] <= 1
  /\ events["completed"] <= 1
  /\ events["refunded"] > 0 <=> ord.refunded > 0

(* An order parked in COMPENSATING has an after_paid ticket that is not    *)
(* done, so the console or the worker can still bring it forward: onPaid   *)
(* writes the ticket before it parks the row.                              *)
ParkedHasTicket ==
  ord.status = "COMPENSATING" =>
    \E t \in Ticket : /\ tickets[t].kind = "after_paid"
                      /\ tickets[t].st \in {"pending", "running", "failed"}

(* Postgres never consults the table of statemachine.go; still no saga     *)
(* moves the row along an edge that is not in it.                          *)
StatusFollowsTable ==
  [][ord'.status # ord.status => CanTransition(ord.status, ord'.status)]_vars

(* An order nobody pays for does not stay open: the timeout worker cancels *)
(* it however often the buyer asks for a new intent.                       *)
PendingEnds == ord.status = "PENDING_PAY" ~> ord.status # "PENDING_PAY"

(* An order that was closed was closed once and whole: however Close       *)
(* overlaps with refunds, its credit is the ledger's part of the order and *)
(* no refund gave anything back besides.                                   *)
ClosedIsEven ==
  ord.status = "CLOSED" => credit.close = LedgerPay /\ channel + credit.refund = 0

(* Whatever call fails while an order is cancelled, its coupon and its     *)
(* freeze are given back in the end: every failed release leaves a ticket  *)
(* the compensation worker serves.  Only a crash may leave the freeze.     *)
CancelledIsReleased ==
  ord.status = "CANCELLED" ~> \/ /\ offer.status \in {"NONE", "RELEASED"}
                                 /\ freeze \in {"NONE", "RELEASED"}
                              \/ faults.crashes > 0

(* Money received is turned into a sale in the end, though a call to       *)
(* OfferHub or the ledger fails meanwhile, unless a binary crashes.        *)
PaidIsSettled ==
  ord.status = "PAID" ~> \/ /\ ord.status \in {"FULFILLING", "COMPLETED"}
                            /\ offer.status \in {"NONE", "COMMITTED"}
                            /\ freeze \in {"NONE", "CAPTURED"}
                         \/ faults.crashes > 0

(* Wherever one call fails, a request is cancelled or a binary dies, the   *)
(* coupon of an order that was paid or cancelled does not stay reserved:   *)
(* reconciliation files the ticket the dead goroutine did not write.  (A   *)
(* second fault may hit the worker that has claimed that very ticket.)     *)
CouponSurvivesCrash ==
  (ord.status # "PENDING_PAY" /\ offer.status = "ACTIVE")
    ~> offer.status # "ACTIVE" \/ faults.calls + faults.crashes > 1

-----------------------------------------------------------------------------
(* What the documents say and the code does not do: see README.md.         *)

(* However Close overlaps with refunds, all that is given back together,   *)
(* by refunds and by the credit of Close, is at most what was paid.        *)
GivenBackWithinPaid == channel + credit.refund + credit.close <= ord.paid

(* The coupon of an order that was paid for does not stay reserved, also   *)
(* when the merchant completes it while afterPaid fails.                   *)
PaidReservationEnds ==
  ord.status \in paidLike /\ offer.status = "ACTIVE" ~> offer.status # "ACTIVE"

(* A refund that has begun ends, also when a call of it fails. *)
RefundEnds == ord.status = "REFUNDING" ~> ord.status # "REFUNDING"

(* No intent of a cancelled order stays open at the provider. *)
CancelledIntentsEnd ==
  \A i \in Intent :
    (ord.status = "CANCELLED" /\ intents[i] = "open") ~> intents[i] # "open"

(* A discount is taken back in proportion to what was refunded, and all of *)
(* it only with a full refund.                                             *)
ReversedInProportion ==
  (ord.status = "PARTIAL_REFUNDED" /\ \A p \in Proc : pc[p] = "idle")
    => offer.reversed * Payable <= Discount * ord.refunded

-----------------------------------------------------------------------------
(* The sagas implement OrderPromise: seen from the row, the money given    *)
(* back by refunds and by closings, and the freeze, every interleaving of  *)
(* goroutines, failures and crashes is one of the behaviours the buyer was *)
(* promised.                                                               *)
returned == channel + credit.refund

Promise == INSTANCE OrderPromise WITH status <- ord.status, paid <- ord.paid,
                                      refunded <- ord.refunded, credited <- credit.close

PromiseKept == Promise!PSpec

-----------------------------------------------------------------------------
(* The inductive invariant behind the theorems of LifecycleInvariance.     *)

(* Every copy is an earlier row, or agrees with the row.  So does the row  *)
(* Checkout inserted.                                                      *)
Tracks(o, row) ==
  /\ o.version <= row.version
  /\ o.version = row.version => /\ o.status = row.status
                                /\ o.paid = row.paid
                                /\ o.refunded = row.refunded
CopiesTrackRow == Tracks(NewOrder, ord) /\ \A p \in Proc : Tracks(snap[p], ord)

Unpaid == {"PENDING_PAY", "CANCELLED"}

(* What a goroutine may rely on where it stands. *)
PaidPhase   == {"commit", "redeem", "capture", "deliver", "settle", "park"}
CancelPhase == {"cancel_offer", "cancel_ledger", "cancel_stock", "cancel_intent",
                "do_ledger_release"}
PhasesAgree ==
  /\ \A p \in Proc : pc[p] \in PaidPhase => ord.status \notin Unpaid
  /\ \A p \in Proc : pc[p] \in CancelPhase => ord.status = "CANCELLED"
  /\ \A t \in Ticket : tickets[t].kind = "ledger_release" => ord.status = "CANCELLED"
  /\ \A p \in Proc : pc[p] \in {"recon_commit", "recon_redeem"} => offer.redeemed
  /\ offer.status = "COMMITTED" => offer.redeemed

(* A refund in flight owns the row, and what has gone back so far is what  *)
(* the finished refunds gave plus the legs it has made itself.             *)
Legs(p) == CASE pc[p] = "refund_channel" -> 0
             [] pc[p] = "refund_credit"  -> Split(p).channel
             [] OTHER                    -> amt[p]
RefundsAgree ==
  /\ \A p \in Proc : pc[p] = "refund_cas" =>
       /\ amt[p] >= 1 /\ amt[p] + snap[p].refunded <= snap[p].paid
       /\ snap[p].status \in Refundable
  /\ \A p \in Proc : pc[p] \in RefundPhase =>
       /\ ord.status = "REFUNDING" /\ snap[p].version = ord.version
       /\ amt[p] >= 1 /\ amt[p] + ord.refunded <= ord.paid
       /\ returned = ord.refunded + Legs(p)
  /\ ord.status # "REFUNDING" => returned = ord.refunded
  /\ ord.refunded <= returned /\ returned <= ord.paid
  /\ ord.paid = IF ord.status \in Unpaid THEN 0 ELSE Payable

EventsAgree ==
  /\ EventsMatchRow
  /\ ord.status \in Unpaid \cup {"PAID", "COMPENSATING"} => events["fulfilled"] = 0
  /\ ord.status \in Unpaid \cup {"PAID", "COMPENSATING", "FULFILLING"} => events["completed"] = 0

LifecycleInv ==
  /\ TypeOK /\ CopiesTrackRow /\ PhasesAgree /\ OnlyWinnerActs
  /\ RefundsAgree /\ RefundIsExclusive /\ EventsAgree
=============================================================================
