------------------------- MODULE LifecycleInvariance ------------------------
(*****************************************************************************)
(* Type correctness of OrderLifecycle, LifecycleInv as an inductive          *)
(* invariant of it, and the safety properties and the refinement that follow *)
(* from it. Every lemma about a step is about one goroutine p; the steps     *)
(* that touch the row are summarised first (the ...Effect lemmas), the       *)
(* others are quiet.                                                         *)
(*****************************************************************************)
EXTENDS OrderLifecycle, TLAPS

USE AmountAssumption, SceneAssumption, TicketAssumption, BoundAssumption

-----------------------------------------------------------------------------
(* Types, and what the helpers of the steps keep.                          *)

(* The row InsertCheckout commits is an order. *)
LEMMA NewOrderOK == NewOrder \in Order
  BY DEF NewOrder, Order, Status
(* A goroutine without work has a task of the right shape. *)
LEMMA NoWorkOK == NoWork \in Task
  BY DEF NoWork, Task
(* So is an empty batch of tickets. *)
LEMMA NoBatchOK == NoBatch \in [Ticket -> 0 .. MaxAttempts]
  BY DEF NoBatch

(* A goroutine that returns leaves its locals well typed. *)
LEMMA ReturnOK ==
  ASSUME NEW p \in Proc, LocalsOK, Return(p) PROVE LocalsOK'
  BY NewOrderOK, NoWorkOK, NoBatchOK DEF LocalsOK, Return, Goto, Label

(* So does one that goes on to its next step. *)
LEMMA ContinueOK ==
  ASSUME NEW p \in Proc, NEW l \in Label, LocalsOK, Continue(p, l) PROVE LocalsOK'
  BY DEF LocalsOK, Continue, Goto, local

(* Setting the next step keeps the labels typed. *)
LEMMA GotoOK ==
  ASSUME NEW p \in Proc, NEW l \in Label, LocalsOK, Goto(p, l)
  PROVE  pc' \in [Proc -> Label]
  BY DEF LocalsOK, Goto

(* A step that replaces the copy of the row by an order. *)
LEMMA EnterOK ==
  ASSUME NEW p \in Proc, NEW l \in Label, NEW o \in Order, LocalsOK, Goto(p, l),
         snap' = [snap EXCEPT ![p] = o], UNCHANGED <<amt, work, todo>>
  PROVE  LocalsOK'
  BY DEF LocalsOK, Goto

(* A step that replaces the task of a goroutine. *)
LEMMA TaskOK ==
  ASSUME NEW p \in Proc, NEW l \in Label, NEW w \in Task, LocalsOK, Goto(p, l),
         work' = [work EXCEPT ![p] = w], UNCHANGED <<snap, amt, todo>>
  PROVE  LocalsOK'
  BY DEF LocalsOK, Goto

(* A task that names the intent CreateIntent returned. *)
LEMMA TaskGotOK ==
  ASSUME NEW w \in Task, NEW i \in Intent PROVE [w EXCEPT !.got = i] \in Task
  BY DEF Task

(* A task that names the kind of ticket ensureTicket looks for. *)
LEMMA TaskKindOK ==
  ASSUME NEW w \in Task, NEW k \in {"after_paid", "offer_release"}
  PROVE  [w EXCEPT !.kind = k] \in Task
  BY DEF Task

(* A task that names who runs afterPaid. *)
LEMMA TaskByOK ==
  ASSUME NEW w \in Task, NEW b \in {"pay", "admin"} PROVE [w EXCEPT !.by = b] \in Task
  BY DEF Task

(* The task of a goroutine is a task. *)
LEMMA WorkOK == ASSUME LocalsOK, NEW p \in Proc PROVE work[p] \in Task
  BY DEF LocalsOK

(* UpdateCompensation on a row that may have any id. *)
LEMMA SetRowOK ==
  ASSUME NEW f \in [Ticket -> Row], NEW t, NEW st \in {"pending", "done", "failed"}
  PROVE  [f EXCEPT ![t].st = st] \in [Ticket -> Row]
  <1>1. CASE t \in Ticket
    <2>1. [f[t] EXCEPT !.st = st] \in Row
      BY <1>1 DEF Row
    <2> QED
      BY <1>1, <2>1
  <1>2. CASE t \notin Ticket
    BY <1>2
  <1> QED
    BY <1>1, <1>2

(* A ticket taken by the worker or the console leads to a step. *)
LEMMA TakeOK ==
  ASSUME NEW t \in Ticket, tickets \in [Ticket -> Row], NEW b \in {"worker", "console"}
  PROVE  Take(t, b) \in Task /\ Serve(tickets[t].kind) \in Label
  <1>1. Take(t, b) \in Task
    BY NoWorkOK DEF Take, Task, Row
  <1>2. tickets[t].kind \in Kind
    BY DEF Row
  <1> QED
    BY <1>1, <1>2 DEF Serve, Label, Kind

(* The worker drops a finished ticket and picks the next one. *)
LEMMA NextTicketOK ==
  ASSUME NEW p \in Proc, NEW t, LocalsOK, Goto(p, "pick"),
         todo' = [todo EXCEPT ![p][t] = 0], snap' = [snap EXCEPT ![p] = NewOrder],
         work' = [work EXCEPT ![p] = NoWork], UNCHANGED amt
  PROVE  LocalsOK'
  <1>1. [todo[p] EXCEPT ![t] = 0] \in [Ticket -> 0 .. MaxAttempts]
    <2>1. todo[p] \in [Ticket -> 0 .. MaxAttempts] /\ 0 \in 0 .. MaxAttempts
      BY DEF LocalsOK
    <2>2. \A S, T : \A f \in [S -> T], v \in T : [f EXCEPT ![t] = v] \in [S -> T]
      OBVIOUS
    <2> QED
      BY <2>1, <2>2
  <1> QED
    BY <1>1, NewOrderOK, NoWorkOK DEF LocalsOK, Goto, Label

(* A saga begins with a copy of the row and a task. *)
LEMMA BeginTaskOK ==
  ASSUME NEW p \in Proc, NEW l \in Label, NEW w \in Task, LocalsOK, ord \in Order,
         Begin(p, l), work' = [work EXCEPT ![p] = w], UNCHANGED <<amt, todo>>
  PROVE  LocalsOK'
  BY DEF LocalsOK, Begin, Goto

(* The steps an order has no use for are skipped to real steps. *)
LEMMA StepsOK == /\ CaptureStep \in Label /\ CommitStep \in Label
                 /\ CancelLedgerStep \in Label /\ CancelOfferStep \in Label
  BY DEF CaptureStep, CommitStep, CancelLedgerStep, CancelOfferStep, Label

(* A row with another status and version is an order. *)
LEMMA RowUpdateOK ==
  ASSUME NEW o \in Order, NEW to \in Status, NEW v \in Nat
  PROVE  [o EXCEPT !.status = to, !.version = v] \in Order
  BY DEF Order

(* What Transition writes is an order. *)
LEMMA MovedOK ==
  ASSUME ord \in Order, NEW to \in Status PROVE Moved(to) \in Order
  <1>1. ord.version + 1 \in Nat
    BY DEF Order
  <1> QED BY <1>1, RowUpdateOK DEF Moved

(* Transition changes status and version and no money. *)
LEMMA MovedFields ==
  ASSUME ord \in Order, NEW to \in Status
  PROVE  /\ Moved(to).status = to
         /\ Moved(to).version = ord.version + 1
         /\ Moved(to).paid = ord.paid
         /\ Moved(to).refunded = ord.refunded
  BY DEF Moved, Order

(* An outbox insert counts. *)
LEMMA EmitOK ==
  ASSUME NEW e \in EventType, events \in [EventType -> Nat], Emit(e)
  PROVE  events' \in [EventType -> Nat]
  BY DEF Emit

(* A fault counts. *)
LEMMA FaultOK ==
  ASSUME faults \in [calls: Nat, crashes: Nat], Fault \/ Crash
  PROVE  faults' \in [calls: Nat, crashes: Nat]
  BY DEF Fault, Crash

(* InsertCompensation keeps the table typed, also when it is full. *)
LEMMA InsertOK ==
  ASSUME NEW k \in Kind, NEW r \in Nat, tickets \in [Ticket -> Row],
         InsertCompensation(k, r)
  PROVE  tickets' \in [Ticket -> Row]
  <1> DEFINE row == [kind |-> k, st |-> "pending", attempts |-> 0, ref |-> r]
             t == CHOOSE x \in Vacant : TRUE
  <1>1. row \in Row
    BY DEF Row
  <1>2. CASE Vacant = {}
    BY <1>2 DEF InsertCompensation
  <1>3. CASE Vacant # {}
    <2>1. tickets' = [tickets EXCEPT ![t] = row]
      BY <1>3 DEF InsertCompensation
    <2> HIDE DEF row, t
    <2> QED
      BY <2>1, <1>1
  <1> QED
    BY <1>2, <1>3

(* Commit of a reservation keeps OfferHub typed. *)
LEMMA OfferCommitOK ==
  ASSUME offer \in Offer, OfferCommit PROVE offer' \in Offer
  BY DEF Offer, OfferCommit

(* Release of a reservation keeps OfferHub typed. *)
LEMMA OfferReleaseOK ==
  ASSUME offer \in Offer, OfferRelease PROVE offer' \in Offer
  BY DEF Offer, OfferRelease

(* Reverse of a redemption keeps OfferHub typed. *)
LEMMA OfferReverseOK ==
  ASSUME offer \in Offer, NEW a \in Nat, NEW k \in Nat, OfferReverse(a, k)
  PROVE  offer' \in Offer
  <1> DEFINE v == offer.reversed + ReverseAmount(a)
  <1>1. v \in Int
    BY DEF Offer, ReverseAmount
  <1>2. \A w \in Int : [offer EXCEPT !.reversed = w, !.keys = @ \cup {k}] \in Offer
    BY DEF Offer
  <1>3. offer' = offer \/ offer' = [offer EXCEPT !.reversed = v, !.keys = @ \cup {k}]
    BY DEF OfferReverse
  <1> HIDE DEF v
  <1> QED
    BY <1>1, <1>2, <1>3

(* The in-memory adapter keeps its map typed. *)
LEMMA AdapterOK ==
  ASSUME NEW p \in Proc, NEW v \in {"none", "committed"},
         held \in [Site -> {"none", "reserved", "committed"}], AdapterSet(p, v)
  PROVE  held' \in [Site -> {"none", "reserved", "committed"}]
  BY DEF AdapterSet, SiteOf, Site

(* splitRefund: both shares are natural and add up to the amount. *)
LEMMA SplitOK ==
  ASSUME NEW a \in Nat
  PROVE  LET s == splitRefund(LedgerPay, Payable, a)
         IN  s.ledger \in Nat /\ s.channel \in Nat /\ s.ledger + s.channel = a
  <1> DEFINE share == IF Payable = 0 THEN 0 ELSE (LedgerPay * a) \div Payable
  <1>1. share \in Nat
    <2>1. LedgerPay * a \in Nat
      OBVIOUS
    <2>2. \A n \in Nat, d \in Nat \ {0} : n \div d \in Nat
      OBVIOUS
    <2> QED
      BY <2>1, <2>2
  <1>2. splitRefund(LedgerPay, Payable, a) =
          IF share > a THEN [ledger |-> a, channel |-> 0]
                       ELSE [ledger |-> share, channel |-> a - share]
    BY DEF splitRefund
  <1> HIDE DEF share
  <1> QED
    BY <1>1, <1>2

(* The error path of afterPaid keeps locals and tickets typed. *)
LEMMA AfterPaidFailsOK ==
  ASSUME NEW p \in Proc, TypeOK, AfterPaidFails(p)
  PROVE  LocalsOK' /\ tickets' \in [Ticket -> Row]
  BY ReturnOK, ContinueOK, InsertOK DEF TypeOK, AfterPaidFails, Kind, Label

-----------------------------------------------------------------------------
(* Type correctness.                                                       *)

(* The initial state is well typed. *)
LEMMA TypingInit == Init => TypeOK
  <1> SUFFICES ASSUME Init PROVE TypeOK
    OBVIOUS
  <1>1. ord \in Order /\ LocalsOK
    BY NewOrderOK, NoWorkOK, NoBatchOK DEF Init, LocalsOK, Label
  <1>2. ServicesOK
    BY DEF Init, ServicesOK, Offer, Site
  <1>3. tickets \in [Ticket -> Row]
    <2>1. FreeRow \in Row
      BY DEF FreeRow, Row, Kind
    <2> QED
      BY <2>1 DEF Init
  <1> QED
    BY <1>1, <1>2, <1>3 DEF Init, TypeOK

(* Every step of a goroutine keeps the types, one case per action. *)
LEMMA TypingStep ==
  ASSUME TypeOK, NEW p \in Proc, Step(p) PROVE TypeOK'
  <1>. USE ReturnOK, ContinueOK, GotoOK, StepsOK DEF TypeOK
  <1>1. CASE CreateIntent(p)
    <2>1. LocalsOK'
      <3>1. CASE Return(p)
        BY <3>1
      <3>2. ASSUME NEW i \in Intent, Goto(p, "intent_save"),
                   work' = [work EXCEPT ![p].got = i], UNCHANGED <<snap, amt, todo, faults>>
            PROVE  LocalsOK'
        <4>1. "intent_save" \in Label
          BY DEF Label
        <4> QED
          BY <3>2, <4>1, TaskOK, TaskGotOK, WorkOK
      <3> QED
        BY <1>1, <3>1, <3>2 DEF CreateIntent
    <2>2. intents' \in [Intent -> {"unused", "open", "paid", "closed"}]
      BY <1>1 DEF CreateIntent, ServicesOK
    <2> QED
      BY <1>1, <2>1, <2>2, FaultOK DEF CreateIntent, ServicesOK
  <1>2. CASE UpdatePaymentIntent(p)
    <2>1. ord' \in Order
      BY <1>2 DEF UpdatePaymentIntent, LocalsOK, Task, Order
    <2> QED
      BY <1>2, <2>1 DEF UpdatePaymentIntent, services, ServicesOK
  <1>3. CASE PayCAS(p)
    <2>1. ord' \in Order
      <3>1. Moved("PAID") \in Order
        BY MovedOK DEF Status
      <3>2. [Moved("PAID") EXCEPT !.paid = Payable] \in Order
        BY <3>1 DEF Order
      <3> QED
        BY <1>3, <3>2 DEF PayCAS
    <2>2. LocalsOK'
      BY <1>3, <2>1, EnterOK DEF PayCAS
    <2>3. events' \in [EventType -> Nat]
      BY <1>3, EmitOK DEF PayCAS, EventType
    <2> QED
      BY <1>3, <2>1, <2>2, <2>3 DEF PayCAS, services, ServicesOK
  <1>4. CASE CommitOffer(p)
    <2>1. LocalsOK' /\ tickets' \in [Ticket -> Row]
      BY <1>4, AfterPaidFailsOK DEF CommitOffer, Label
    <2>2. offer' \in Offer
      BY <1>4, OfferCommitOK DEF CommitOffer, ServicesOK
    <2> QED
      BY <1>4, <2>1, <2>2, FaultOK DEF CommitOffer, ServicesOK
  <1>5. CASE UpdateRedemption(p)
    <2>1. ord' \in Order
      BY <1>5 DEF UpdateRedemption, Order
    <2>2. snap' \in [Proc -> Order]
      <3>1. [snap[p] EXCEPT !.redemption = TRUE] \in Order
        BY DEF LocalsOK, Order
      <3> QED
        BY <1>5, <3>1 DEF UpdateRedemption, LocalsOK
    <2> QED
      BY <1>5, <2>1, <2>2 DEF UpdateRedemption, services, ServicesOK, LocalsOK
  <1>6. CASE CaptureFreeze(p)
    <2>1. LocalsOK' /\ tickets' \in [Ticket -> Row]
      BY <1>6, AfterPaidFailsOK DEF CaptureFreeze, Label
    <2> QED
      BY <1>6, <2>1, FaultOK DEF CaptureFreeze, LedgerCapture, ServicesOK
  <1>7. CASE CommitFulfillment(p)
    <2>1. LocalsOK'
      BY <1>7 DEF CommitFulfillment, Label
    <2> QED
      BY <1>7, <2>1, AdapterOK DEF CommitFulfillment, ServicesOK
  <1>8. CASE Settle(p)
    <2>1. LocalsOK' /\ tickets' \in [Ticket -> Row]
      BY <1>8, AfterPaidFailsOK DEF Settle, Label
    <2>2. ord' \in Order
      BY <1>8, MovedOK DEF Settle, Status, NextAfterPaid
    <2>3. events' \in [EventType -> Nat]
      BY <1>8, EmitOK DEF Settle, EventType
    <2> QED
      BY <1>8, <2>1, <2>2, <2>3 DEF Settle, services, ServicesOK
  <1>9. CASE Park(p)
    <2>1. ord' \in Order
      BY <1>9, MovedOK DEF Park, Status
    <2> QED
      BY <1>9, <2>1 DEF Park, services, ServicesOK
  <1>10. CASE CancelCAS(p)
    <2>1. ord' \in Order
      BY <1>10, MovedOK DEF CancelCAS, Status
    <2>2. LocalsOK'
      BY <1>10, <2>1, EnterOK DEF CancelCAS
    <2>3. events' \in [EventType -> Nat]
      BY <1>10, EmitOK DEF CancelCAS, EventType
    <2> QED
      BY <1>10, <2>1, <2>2, <2>3 DEF CancelCAS, services, ServicesOK
  <1>11. CASE CancelOffer(p)
    <2>1. tickets' \in [Ticket -> Row]
      BY <1>11, InsertOK DEF CancelOffer, Kind
    <2> QED
      BY <1>11, <2>1, OfferReleaseOK, FaultOK DEF CancelOffer, ServicesOK
  <1>12. CASE CancelLedger(p)
    <2>1. LocalsOK' /\ tickets' \in [Ticket -> Row]
      BY <1>12, InsertOK DEF CancelLedger, Kind, Label
    <2> QED
      BY <1>12, <2>1, FaultOK DEF CancelLedger, LedgerRelease, ServicesOK
  <1>13. CASE CancelStock(p)
    <2>1. LocalsOK'
      BY <1>13 DEF CancelStock, Label
    <2> QED
      BY <1>13, <2>1, AdapterOK DEF CancelStock, ServicesOK
  <1>14. CASE CancelIntent(p)
    <2>1. intents' \in [Intent -> {"unused", "open", "paid", "closed"}]
      BY <1>14 DEF CancelIntent, ServicesOK
    <2> QED
      BY <1>14, <2>1, FaultOK DEF CancelIntent, ServicesOK
  <1>15. CASE CompleteCAS(p)
    <2>1. ord' \in Order
      BY <1>15, MovedOK DEF CompleteCAS, Status
    <2>2. events' \in [EventType -> Nat]
      BY <1>15, EmitOK DEF CompleteCAS, EventType
    <2> QED
      BY <1>15, <2>1, <2>2 DEF CompleteCAS, services, ServicesOK
  <1>16. CASE RefundCAS(p)
    <2>1. ord' \in Order
      BY <1>16, MovedOK DEF RefundCAS, Status
    <2>2. LocalsOK'
      <3>1. snap[p].version + 1 \in Nat
        BY DEF LocalsOK, Order
      <3>2. \A v \in Nat : [snap[p] EXCEPT !.version = v, !.status = "REFUNDING"] \in Order
        BY DEF LocalsOK, Order, Status
      <3>3. CASE CAS(p, {snap[p].status})
        <4>1. snap' = [snap EXCEPT ![p] = [snap[p] EXCEPT !.version = snap[p].version + 1, !.status = "REFUNDING"]]
          BY <1>16, <3>3 DEF RefundCAS
        <4> QED
          BY <1>16, <3>1, <3>2, <3>3, <4>1 DEF RefundCAS, LocalsOK, Label
      <3> QED
        BY <1>16, <3>3 DEF RefundCAS
    <2> QED
      BY <1>16, <2>1, <2>2 DEF RefundCAS, services, ServicesOK
  <1>17. CASE RefundChannel(p)
    <2>1. amt[p] \in Nat
      BY DEF LocalsOK
    <2>2. channel' \in Nat /\ LocalsOK'
      BY <1>17, <2>1, SplitOK DEF RefundChannel, Split, ServicesOK, Label
    <2> QED
      BY <1>17, <2>2, FaultOK DEF RefundChannel, ServicesOK
  <1>18. CASE RefundCredit(p)
    <2>1. Split(p).ledger \in Nat
      BY SplitOK DEF Split, LocalsOK
    <2> DEFINE l == Split(p).ledger
    <2> HIDE DEF l
    <2>2. /\ credit' = [credit EXCEPT !.refund = @ + l] \/ UNCHANGED credit
          /\ Continue(p, "refund_reverse") \/ Return(p)
      BY <1>18 DEF RefundCredit, l
    <2>3. credit' \in [refund: Nat, close: Int]
      BY <2>1, <2>2 DEF ServicesOK, l
    <2>4. LocalsOK'
      BY <2>2, SMTT(30) DEF Label
    <2>5. credit' \in [refund: Nat, close: Int] /\ LocalsOK'
      BY <2>3, <2>4
    <2> QED
      BY <1>18, <2>5, FaultOK DEF RefundCredit, ServicesOK
  <1>19. CASE RefundReverse(p)
    <2> DEFINE a == reverseDiscount(Discount, Payable, amt[p], IsFull(p))
    <2>1. a \in Nat /\ snap[p].version \in Nat
      <3>1. amt[p] \in Nat /\ Discount * amt[p] \in Nat
        BY DEF LocalsOK
      <3>2. \A n \in Nat, d \in Nat \ {0} : n \div d \in Nat
        OBVIOUS
      <3> QED
        BY <3>1, <3>2 DEF reverseDiscount, LocalsOK, Order
    <2> HIDE DEF a
    <2>2. LocalsOK'
      BY <1>19 DEF RefundReverse, Label
    <2>3. tickets' \in [Ticket -> Row]
      BY <1>19, <2>1, InsertOK DEF RefundReverse, Kind
    <2>4. offer' \in Offer
      BY <1>19, <2>1, OfferReverseOK DEF RefundReverse, ServicesOK, a
    <2>5. faults' \in [calls: Nat, crashes: Nat]
      BY <1>19, FaultOK DEF RefundReverse
    <2> QED
      BY <1>19, <2>2, <2>3, <2>4, <2>5 DEF RefundReverse, ServicesOK
  <1>20. CASE RefundFinish(p)
    <2>1. ord' \in Order
      <3> DEFINE m == Moved(IF IsFull(p) THEN "REFUNDED" ELSE "PARTIAL_REFUNDED")
      <3>1. m \in Order
        BY MovedOK DEF Status
      <3>2. m.refunded + amt[p] \in Nat
        BY <3>1 DEF Order, LocalsOK
      <3> HIDE DEF m
      <3>3. [m EXCEPT !.refunded = @ + amt[p]] \in Order
        BY <3>1, <3>2 DEF Order
      <3> QED
        BY <1>20, <3>3 DEF RefundFinish, m
    <2>2. events' \in [EventType -> Nat]
      BY <1>20, EmitOK DEF RefundFinish, EventType
    <2> QED
      BY <1>20, <2>1, <2>2 DEF RefundFinish, services, ServicesOK
  <1>21. CASE CloseOffer(p)
    <2>1. LocalsOK'
      BY <1>21 DEF CloseOffer, Label
    <2>2. offer' \in Offer
      BY <1>21, OfferReverseOK, OfferReleaseOK DEF CloseOffer, CloseKey, ServicesOK
    <2> QED
      BY <1>21, <2>1, <2>2, FaultOK DEF CloseOffer, ServicesOK
  <1>22. CASE CloseCredit(p)
    <2> DEFINE l == splitRefund(LedgerPay, Payable, RefundableAmount(snap[p])).ledger
    <2>1. l \in Int
      <3>1. RefundableAmount(snap[p]) \in Int
        BY DEF LocalsOK, Order, RefundableAmount
      <3>2. \A n \in Int, d \in Nat \ {0} : n \div d \in Int
        OBVIOUS
      <3>3. LedgerPay * RefundableAmount(snap[p]) \in Int
        BY <3>1
      <3> QED
        BY <3>1, <3>2, <3>3 DEF splitRefund
    <2> HIDE DEF l
    <2>2. credit' \in [refund: Nat, close: Int]
      BY <1>22, <2>1 DEF CloseCredit, ServicesOK, l
    <2>3. LocalsOK'
      BY <1>22 DEF CloseCredit, Label
    <2> QED
      BY <1>22, <2>2, <2>3, FaultOK DEF CloseCredit, ServicesOK
  <1>23. CASE CloseStock(p)
    <2>1. LocalsOK'
      BY <1>23 DEF CloseStock, Label
    <2> QED
      BY <1>23, <2>1, AdapterOK DEF CloseStock, ServicesOK
  <1>24. CASE CloseCAS(p)
    <2>1. ord' \in Order
      BY <1>24, MovedOK DEF CloseCAS, Status
    <2>2. events' \in [EventType -> Nat]
      BY <1>24, EmitOK DEF CloseCAS, EventType
    <2> QED
      BY <1>24, <2>1, <2>2 DEF CloseCAS, services, ServicesOK
  <1>25. CASE PickTicket(p)
    <2>1. LocalsOK'
      BY <1>25, TakeOK, TaskOK DEF PickTicket
    <2> QED
      BY <1>25, <2>1 DEF PickTicket, services, ServicesOK
  <1>26. CASE RetryAfterPaid(p)
    <2>1. LocalsOK'
      BY <1>26, EnterOK DEF RetryAfterPaid, Label
    <2> QED
      BY <1>26, <2>1 DEF RetryAfterPaid, services, ServicesOK
  <1>27. CASE RetryOfferRelease(p)
    <2>1. LocalsOK'
      BY <1>27 DEF RetryOfferRelease, Label
    <2> QED
      BY <1>27, <2>1, OfferReleaseOK, FaultOK DEF RetryOfferRelease, ServicesOK
  <1>28. CASE RetryLedgerRelease(p)
    <2>1. LocalsOK'
      BY <1>28 DEF RetryLedgerRelease, Label
    <2> QED
      BY <1>28, <2>1, FaultOK DEF RetryLedgerRelease, LedgerRelease, ServicesOK
  <1>29. CASE RetryOfferReverse(p)
    <2>1. LocalsOK'
      BY <1>29 DEF RetryOfferReverse, Label
    <2>2. work[p].ref \in Nat
      BY DEF LocalsOK, Task
    <2>3. offer' \in Offer
      BY <1>29, <2>2, OfferReverseOK DEF RetryOfferReverse, ServicesOK
    <2> QED
      BY <1>29, <2>1, <2>3, FaultOK DEF RetryOfferReverse, ServicesOK
  <1>30. CASE UpdateCompensation(p)
    <2>1. tickets' \in [Ticket -> Row]
      BY <1>30, SetRowOK DEF UpdateCompensation
    <2>2. LocalsOK'
      BY <1>30, NextTicketOK DEF UpdateCompensation
    <2> QED
      BY <1>30, <2>1, <2>2 DEF UpdateCompensation, services, ServicesOK
  <1>31. CASE ReconCompare(p)
    <2>1. \A k \in {"after_paid", "offer_release"} : [work[p] EXCEPT !.kind = k] \in Task
      BY TaskKindOK, WorkOK
    <2>2. LocalsOK'
      BY <1>31, <2>1, TaskOK DEF ReconCompare, Label
    <2> QED
      BY <1>31, <2>2, FaultOK DEF ReconCompare, services, ServicesOK
  <1>32. CASE ReconCheck(p)
    <2>1. LocalsOK'
      BY <1>32 DEF ReconCheck, Label
    <2> QED
      BY <1>32, <2>1 DEF ReconCheck, services, ServicesOK
  <1>33. CASE ReconInsert(p)
    <2>1. work[p].kind \in Kind
      BY DEF LocalsOK, Task, Kind
    <2> QED
      BY <1>33, <2>1, InsertOK DEF ReconInsert, services, ServicesOK
  <1>34. CASE ReconCommit(p)
    <2>1. \A k \in {"after_paid", "offer_release"} : [work[p] EXCEPT !.kind = k] \in Task
      BY TaskKindOK, WorkOK
    <2>2. LocalsOK'
      BY <1>34, <2>1, TaskOK DEF ReconCommit, Label
    <2>3. offer' \in Offer
      BY <1>34, OfferCommitOK DEF ReconCommit, ServicesOK
    <2> QED
      BY <1>34, <2>2, <2>3, FaultOK DEF ReconCommit, ServicesOK
  <1>35. CASE ReconRedeem(p)
    <2>1. ord' \in Order
      BY <1>35 DEF ReconRedeem, Order
    <2> QED
      BY <1>35, <2>1 DEF ReconRedeem, services, ServicesOK
  <1> QED
    BY <1>1, <1>2, <1>3, <1>4, <1>5, <1>6, <1>7, <1>8, <1>9, <1>10, <1>11, <1>12,
       <1>13, <1>14, <1>15, <1>16, <1>17, <1>18, <1>19, <1>20, <1>21, <1>22, <1>23,
       <1>24, <1>25, <1>26, <1>27, <1>28, <1>29, <1>30, <1>31, <1>32, <1>33, <1>34,
       <1>35 DEF Step

(* Every request or job that begins keeps the types. *)
LEMMA TypingRequest ==
  ASSUME TypeOK, NEW p \in Proc, Request(p) PROVE TypeOK'
  <1>. USE StepsOK DEF TypeOK
  <1>1. CASE RecreateIntent(p)
    <2>1. LocalsOK'
      BY <1>1, EnterOK DEF RecreateIntent, Begin, Label
    <2> QED
      BY <1>1, <2>1 DEF RecreateIntent, services, ServicesOK
  <1>2. CASE OnPaid(p)
    <2>1. "pay_cas" \in Label /\ [work[p] EXCEPT !.by = "pay"] \in Task
      BY WorkOK, TaskByOK DEF Label
    <2>2. LocalsOK'
      BY <1>2, <2>1, BeginTaskOK DEF OnPaid
    <2> QED
      BY <1>2, <2>2 DEF OnPaid, services, ServicesOK
  <1>3. CASE AdminRetryPaid(p)
    <2>1. [work[p] EXCEPT !.by = "admin"] \in Task
      BY WorkOK, TaskByOK
    <2>2. LocalsOK'
      BY <1>3, <2>1, BeginTaskOK DEF AdminRetryPaid
    <2> QED
      BY <1>3, <2>2 DEF AdminRetryPaid, services, ServicesOK
  <1>4. CASE Cancel(p)
    <2>1. LocalsOK'
      BY <1>4, EnterOK DEF Cancel, Begin, Label
    <2> QED
      BY <1>4, <2>1 DEF Cancel, services, ServicesOK
  <1>5. CASE Complete(p)
    <2>1. LocalsOK'
      BY <1>5, EnterOK DEF Complete, Begin, Label
    <2> QED
      BY <1>5, <2>1 DEF Complete, services, ServicesOK
  <1>6. CASE Refund(p)
    <2>1. LocalsOK'
      BY <1>6 DEF Refund, Begin, Goto, Label, LocalsOK
    <2> QED
      BY <1>6, <2>1 DEF Refund, services, ServicesOK
  <1>7. CASE Close(p)
    <2>1. LocalsOK'
      BY <1>7, EnterOK DEF Close, Begin, Label
    <2> QED
      BY <1>7, <2>1 DEF Close, services, ServicesOK
  <1>8. ASSUME NEW t \in Ticket, RetryCompensation(p, t) PROVE TypeOK'
    <2>1. LocalsOK'
      BY <1>8, TakeOK, TaskOK DEF RetryCompensation
    <2> QED
      BY <1>8, <2>1 DEF RetryCompensation, services, ServicesOK
  <1>9. CASE ClaimCompensations(p)
    <2> DEFINE next(t) == IF tickets[t].attempts < MaxAttempts
                          THEN tickets[t].attempts + 1 ELSE MaxAttempts
    <2>1. PICK due \in SUBSET {t \in Ticket : tickets[t].st = "pending"} :
            /\ tickets' = [t \in Ticket |->
                  IF t \in due THEN [tickets[t] EXCEPT !.st = "running", !.attempts = next(t)]
                               ELSE tickets[t]]
            /\ todo' = [todo EXCEPT ![p] = [t \in Ticket |-> IF t \in due THEN next(t) ELSE 0]]
      BY <1>9 DEF ClaimCompensations
    <2>2. \A t \in Ticket : next(t) \in 0 .. MaxAttempts
      BY DEF Row
    <2>3. \A t \in Ticket, n \in 0 .. MaxAttempts :
            [tickets[t] EXCEPT !.st = "running", !.attempts = n] \in Row
      BY DEF Row
    <2> HIDE DEF next
    <2>4. tickets' \in [Ticket -> Row]
      BY <2>1, <2>2, <2>3
    <2>5. todo' \in [Proc -> [Ticket -> 0 .. MaxAttempts]]
      <3>1. 0 \in 0 .. MaxAttempts
        OBVIOUS
      <3>2. [t \in Ticket |-> IF t \in due THEN next(t) ELSE 0] \in [Ticket -> 0 .. MaxAttempts]
        BY <2>2, <3>1
      <3> QED
        BY <2>1, <3>2 DEF LocalsOK
    <2>6. LocalsOK'
      BY <1>9, <2>5 DEF ClaimCompensations, LocalsOK, Goto, Label
    <2> QED
      BY <1>9, <2>4, <2>6 DEF ClaimCompensations, services, ServicesOK
  <1>10. CASE ReconRead(p)
    <2>1. LocalsOK'
      BY <1>10, EnterOK DEF ReconRead, Begin, Label
    <2> QED
      BY <1>10, <2>1 DEF ReconRead, services, ServicesOK
  <1> QED
    BY <1>1, <1>2, <1>3, <1>4, <1>5, <1>6, <1>7, <1>8, <1>9, <1>10 DEF Request

(* TypeOK is inductive. *)
LEMMA TypingNext == TypeOK /\ [Next]_vars => TypeOK'
  <1> SUFFICES ASSUME TypeOK, [Next]_vars PROVE TypeOK'
    OBVIOUS
  <1>1. CASE \E p \in Proc : Step(p) \/ Request(p)
    BY <1>1, TypingStep, TypingRequest
  <1>2. ASSUME NEW p \in Proc, Abandon(p) PROVE TypeOK'
    BY <1>2, ReturnOK, FaultOK DEF Abandon, TypeOK, services, ServicesOK
  <1>3. ASSUME NEW i \in Intent, BuyerPays(i) PROVE TypeOK'
    BY <1>3 DEF BuyerPays, TypeOK, ServicesOK, LocalsOK, local
  <1>4. ASSUME NEW s \in Site, Restart(s) PROVE TypeOK'
    <2>1. LocalsOK'
      BY <1>4, NewOrderOK, NoWorkOK, NoBatchOK DEF Restart, TypeOK, LocalsOK, Label
    <2>2. ServicesOK'
      BY <1>4 DEF Restart, TypeOK, ServicesOK
    <2> QED
      BY <1>4, <2>1, <2>2, FaultOK DEF Restart, TypeOK
  <1>5. CASE UNCHANGED vars
    BY <1>5 DEF vars, services, local, TypeOK, ServicesOK, LocalsOK
  <1> QED
    BY <1>1, <1>2, <1>3, <1>4, <1>5 DEF Next

(* The rows, tables and calls keep their shape, for any number of          *)
(* goroutines, intents, tickets and faults.                                *)
THEOREM Typing == Spec => []TypeOK
  BY TypingInit, TypingNext, PTL DEF Spec

-----------------------------------------------------------------------------
(* How a step changes the row, and the copies of it.                       *)

SameRow(r, s) == /\ s.status = r.status /\ s.version = r.version
                 /\ s.paid = r.paid /\ s.refunded = r.refunded

(* A row is a copy of itself. *)
LEMMA TracksSelf == ASSUME NEW r \in Order PROVE Tracks(r, r)
  BY DEF Tracks, Order

(* A copy stays a copy when the row keeps its money and status or moves to *)
(* the next version.                                                       *)
LEMMA TracksOn ==
  ASSUME NEW o \in Order, NEW r \in Order, NEW s \in Order, Tracks(o, r),
         SameRow(r, s) \/ s.version = r.version + 1
  PROVE  Tracks(o, s)
  BY DEF Tracks, SameRow, Order

(* The steps of a goroutine that do not write the row. *)
Quiet(p) ==
  \/ CreateIntent(p) \/ CommitOffer(p) \/ CaptureFreeze(p) \/ CommitFulfillment(p)
  \/ CancelOffer(p) \/ CancelLedger(p) \/ CancelStock(p) \/ CancelIntent(p)
  \/ RefundChannel(p) \/ RefundCredit(p) \/ RefundReverse(p)
  \/ CloseOffer(p) \/ CloseCredit(p) \/ CloseStock(p)
  \/ PickTicket(p) \/ RetryAfterPaid(p) \/ RetryOfferRelease(p)
  \/ RetryLedgerRelease(p) \/ RetryOfferReverse(p) \/ UpdateCompensation(p)
  \/ ReconCompare(p) \/ ReconCheck(p) \/ ReconInsert(p) \/ ReconCommit(p)
  \/ Request(p) \/ Abandon(p)

(* Quiet steps leave the row alone. *)
LEMMA QuietRow == ASSUME NEW p \in Proc, Quiet(p) PROVE UNCHANGED ord
  BY DEF Quiet, CreateIntent, CommitOffer, CaptureFreeze, CommitFulfillment,
     CancelOffer, CancelLedger, CancelStock, CancelIntent, RefundChannel,
     RefundCredit, RefundReverse, CloseOffer, CloseCredit, CloseStock, PickTicket,
     RetryAfterPaid, RetryOfferRelease, RetryLedgerRelease, RetryOfferReverse,
     UpdateCompensation, ReconCompare, ReconCheck, ReconInsert, ReconCommit,
     Request, RecreateIntent, OnPaid, AdminRetryPaid, Cancel, Complete, Refund,
     Close, RetryCompensation, ClaimCompensations, ReconRead, Abandon

(* Quiet steps at most reset a copy or read the row. *)
LEMMA QuietSnap ==
  ASSUME LocalsOK, NEW p \in Proc, Quiet(p), NEW q \in Proc
  PROVE  snap'[q] \in {snap[q], NewOrder, ord}
  <1>1. CASE Return(p) \/ UNCHANGED snap
    BY <1>1 DEF Return, LocalsOK
  <1>2. CASE Request(p)
    BY <1>2 DEF Request, RecreateIntent, OnPaid, AdminRetryPaid, Cancel, Complete, Refund,
       Close, RetryCompensation, ClaimCompensations, ReconRead, Begin, LocalsOK
  <1>3. CASE RetryAfterPaid(p) \/ UpdateCompensation(p)
    BY <1>1, <1>3 DEF RetryAfterPaid, UpdateCompensation, LocalsOK
  <1>4. CASE CommitOffer(p) \/ CaptureFreeze(p)
    BY <1>1, <1>4 DEF CommitOffer, CaptureFreeze, AfterPaidFails, Continue, local
  <1>5. CASE \/ CreateIntent(p) \/ CommitFulfillment(p)
             \/ CancelOffer(p) \/ CancelLedger(p) \/ CancelStock(p) \/ CancelIntent(p)
             \/ RefundChannel(p) \/ RefundCredit(p) \/ RefundReverse(p)
             \/ CloseOffer(p) \/ CloseCredit(p) \/ CloseStock(p)
    BY <1>1, <1>5 DEF Continue, local, CreateIntent, CommitFulfillment, CancelOffer,
       CancelLedger, CancelStock, CancelIntent, RefundChannel, RefundCredit,
       RefundReverse, CloseOffer, CloseCredit, CloseStock
  <1>6. CASE \/ PickTicket(p) \/ RetryOfferRelease(p) \/ RetryLedgerRelease(p)
             \/ RetryOfferReverse(p) \/ ReconCompare(p) \/ ReconCheck(p)
             \/ ReconInsert(p) \/ ReconCommit(p) \/ Abandon(p)
    BY <1>1, <1>6 DEF Continue, local, PickTicket, RetryOfferRelease, RetryLedgerRelease,
       RetryOfferReverse, ReconCompare, ReconCheck, ReconInsert, ReconCommit, Abandon
  <1> QED
    BY <1>2, <1>3, <1>4, <1>5, <1>6 DEF Quiet

(* The steps that write the row. *)
LEMMA SameRowSteps ==
  ASSUME TypeOK, NEW p \in Proc, UpdatePaymentIntent(p) \/ UpdateRedemption(p) \/ ReconRedeem(p)
  PROVE  SameRow(ord, ord')
  BY DEF TypeOK, Order, SameRow, UpdatePaymentIntent, UpdateRedemption, ReconRedeem

Moves(from, to) ==
  /\ ord.status \in from /\ ord'.status \in to
  /\ ord'.version = ord.version + 1
  /\ ord'.paid = ord.paid /\ ord'.refunded = ord.refunded

(* What PayCAS does to the row: nothing, or PENDING_PAY to PAID with the   *)
(* money recorded.                                                         *)
LEMMA PayEffect ==
  ASSUME TypeOK, NEW p \in Proc, PayCAS(p)
  PROVE  \/ UNCHANGED <<ord, events>> /\ Return(p)
         \/ /\ ord.status = "PENDING_PAY" /\ ord'.status = "PAID"
            /\ ord'.version = ord.version + 1
            /\ ord'.paid = Payable /\ ord'.refunded = ord.refunded
            /\ snap' = [snap EXCEPT ![p] = ord']
            /\ Goto(p, CommitStep) /\ Emit("paid")
  <1>1. Moved("PAID") \in Order
    BY MovedOK DEF TypeOK, Status
  <1>2. LET o == [Moved("PAID") EXCEPT !.paid = Payable]
        IN  o.status = "PAID" /\ o.version = ord.version + 1 /\ o.paid = Payable
              /\ o.refunded = ord.refunded
    BY <1>1, MovedFields DEF TypeOK, Status, Order
  <1> QED
    BY <1>2 DEF PayCAS, CAS

(* What Settle does to the row: nothing and an error, or the step out of   *)
(* PAID or COMPENSATING.                                                   *)
LEMMA SettleEffect ==
  ASSUME TypeOK, NEW p \in Proc, Settle(p)
  PROVE  \/ UNCHANGED <<ord, events>> /\ AfterPaidFails(p)
         \/ /\ Moves({"PAID", "COMPENSATING"}, {NextAfterPaid(AutoComplete)})
            /\ Emit(IF AutoComplete THEN "completed" ELSE "fulfilled")
            /\ Return(p) \/ Continue(p, "resolve")
  BY MovedFields DEF TypeOK, Settle, Moves, CAS, NextAfterPaid, Status

(* What Park does to the row: nothing, or PAID to COMPENSATING. *)
LEMMA ParkEffect ==
  ASSUME TypeOK, NEW p \in Proc, Park(p)
  PROVE  Return(p) /\ (UNCHANGED ord \/ Moves({"PAID"}, {"COMPENSATING"}))
  BY MovedFields DEF TypeOK, Park, Moves, CAS, Status

(* What CancelCAS does to the row: nothing, or PENDING_PAY to CANCELLED. *)
LEMMA CancelEffect ==
  ASSUME TypeOK, NEW p \in Proc, CancelCAS(p)
  PROVE  \/ UNCHANGED <<ord, events>> /\ Return(p)
         \/ /\ Moves({"PENDING_PAY"}, {"CANCELLED"})
            /\ snap' = [snap EXCEPT ![p] = ord']
            /\ Goto(p, CancelOfferStep) /\ Emit("cancelled")
  BY MovedFields DEF TypeOK, CancelCAS, Moves, CAS, Status

(* What CompleteCAS does to the row: nothing, or the step to COMPLETED. *)
LEMMA CompleteEffect ==
  ASSUME TypeOK, NEW p \in Proc, CompleteCAS(p)
  PROVE  /\ Return(p)
         /\ \/ UNCHANGED <<ord, events>>
            \/ Moves({"FULFILLING", "PAID"}, {"COMPLETED"}) /\ Emit("completed")
  BY MovedFields DEF TypeOK, CompleteCAS, Moves, CAS, Status

(* What CloseCAS does to the row: nothing, or the step to CLOSED. *)
LEMMA CloseEffect ==
  ASSUME TypeOK, NEW p \in Proc, CloseCAS(p)
  PROVE  /\ Return(p)
         /\ \/ UNCHANGED <<ord, events>>
            \/ Moves(Closable, {"CLOSED"}) /\ Emit("closed")
  BY MovedFields DEF TypeOK, CloseCAS, Moves, CAS, Status

(* What RefundCAS does to the row: nothing, or the step to REFUNDING its   *)
(* copy allows.                                                            *)
LEMMA RefundCASEffect ==
  ASSUME TypeOK, NEW p \in Proc, RefundCAS(p)
  PROVE  \/ UNCHANGED ord /\ Return(p)
         \/ /\ CAS(p, {snap[p].status})
            /\ Moves({snap[p].status}, {"REFUNDING"})
            /\ \A q \in Proc : q # p => snap'[q] = snap[q]
            /\ snap'[p].status = "REFUNDING" /\ snap'[p].version = snap[p].version + 1
            /\ snap'[p].paid = snap[p].paid /\ snap'[p].refunded = snap[p].refunded
            /\ Goto(p, "refund_channel") /\ UNCHANGED amt
  BY MovedFields DEF TypeOK, LocalsOK, Order, RefundCAS, Moves, CAS, Status

(* What RefundFinish does to the row: nothing, or the amount recorded and  *)
(* REFUNDING left.                                                         *)
LEMMA RefundFinishEffect ==
  ASSUME TypeOK, NEW p \in Proc, RefundFinish(p)
  PROVE  /\ Return(p)
         /\ \/ UNCHANGED <<ord, events>>
            \/ /\ CAS(p, {"REFUNDING"})
               /\ ord'.status = IF IsFull(p) THEN "REFUNDED" ELSE "PARTIAL_REFUNDED"
               /\ ord'.version = ord.version + 1
               /\ ord'.paid = ord.paid /\ ord'.refunded = ord.refunded + amt[p]
               /\ Emit("refunded")
  <1> DEFINE to == IF IsFull(p) THEN "REFUNDED" ELSE "PARTIAL_REFUNDED"
  <1>1. to \in Status
    BY DEF Status
  <1>2. Moved(to) \in Order
    BY <1>1, MovedOK DEF TypeOK
  <1>3. /\ Moved(to).status = to /\ Moved(to).version = ord.version + 1
        /\ Moved(to).paid = ord.paid /\ Moved(to).refunded = ord.refunded
    BY <1>1, MovedFields DEF TypeOK
  <1> DEFINE o == [Moved(to) EXCEPT !.refunded = @ + amt[p]]
  <1>4. /\ o.status = to /\ o.version = ord.version + 1
        /\ o.paid = ord.paid /\ o.refunded = ord.refunded + amt[p]
    BY <1>2, <1>3 DEF Order
  <1>5. RefundFinish(p) => Return(p) /\ (UNCHANGED <<ord, events>> \/ (CAS(p, {"REFUNDING"}) /\ ord' = o /\ Emit("refunded")))
    BY DEF RefundFinish
  <1> HIDE DEF o
  <1> QED
    BY <1>4, <1>5

-----------------------------------------------------------------------------
(* Copies of the row, under every step.                                    *)

(* Copies that agree on version, status and money are alike. *)
LEMMA TracksSame ==
  ASSUME NEW o \in Order, NEW r \in Order, NEW u \in Order, Tracks(o, r), SameRow(o, u)
  PROVE  Tracks(u, r)
  BY DEF Tracks, SameRow, Order

(* A goroutine that returns forgets its copy. *)
LEMMA ReturnSnap ==
  ASSUME LocalsOK, NEW p \in Proc, Return(p), NEW q \in Proc
  PROVE  snap'[q] \in {snap[q], NewOrder}
  BY DEF LocalsOK, Return

(* Copies keep tracking the row, under every step. *)
LEMMA CopiesStep ==
  ASSUME TypeOK, TypeOK', CopiesTrackRow, NEW p \in Proc, Step(p) \/ Request(p) \/ Abandon(p)
  PROVE  CopiesTrackRow'
  <1>1. ord \in Order /\ ord' \in Order /\ NewOrder \in Order /\ Tracks(NewOrder, ord)
    BY NewOrderOK DEF TypeOK, CopiesTrackRow
  <1>2. ASSUME NEW q \in Proc
        PROVE  snap[q] \in Order /\ snap'[q] \in Order /\ Tracks(snap[q], ord)
    BY DEF TypeOK, LocalsOK, CopiesTrackRow
  (* The row stays or moves on, and every copy is an old one, the first     *)
  (* one, or that of the row before or after the step.                      *)
  <1>3. ASSUME SameRow(ord, ord') \/ ord'.version = ord.version + 1,
               \A q \in Proc : \/ snap'[q] \in {snap[q], NewOrder, ord, ord'}
                               \/ SameRow(snap[q], snap'[q])
        PROVE  CopiesTrackRow'
    <2>1. Tracks(NewOrder, ord')
      BY <1>1, <1>3, TracksOn
    <2>2. ASSUME NEW q \in Proc PROVE Tracks(snap'[q], ord')
      <3>1. Tracks(snap[q], ord') /\ Tracks(ord, ord') /\ Tracks(ord', ord')
        BY <1>1, <1>2, <1>3, TracksOn, TracksSelf
      <3> QED
        BY <1>1, <1>2, <1>3, <2>1, <3>1, TracksSame
    <2> QED
      BY <2>1, <2>2 DEF CopiesTrackRow, NewOrder
  <1>5. CASE Quiet(p)
    BY <1>3, <1>5, QuietRow, QuietSnap DEF TypeOK, SameRow
  <1>6. CASE UpdatePaymentIntent(p) \/ ReconRedeem(p)
    BY <1>3, <1>6, SameRowSteps, ReturnSnap DEF TypeOK, UpdatePaymentIntent, ReconRedeem
  <1>7. CASE UpdateRedemption(p)
    <2>1. \A q \in Proc : SameRow(snap[q], snap'[q])
      BY <1>2, <1>7 DEF UpdateRedemption, SameRow, TypeOK, LocalsOK, Order
    <2> QED
      BY <1>3, <1>7, <2>1, SameRowSteps
  <1>8. CASE PayCAS(p) \/ CancelCAS(p)
    <2>1. SameRow(ord, ord') \/ ord'.version = ord.version + 1
      BY <1>8, PayEffect, CancelEffect DEF SameRow, Moves
    <2>2. \A q \in Proc : snap'[q] \in {snap[q], NewOrder, ord, ord'}
      BY <1>8, PayEffect, CancelEffect, ReturnSnap DEF TypeOK, LocalsOK
    <2> QED
      BY <1>3, <2>1, <2>2
  <1>9. CASE Settle(p)
    <2>1. SameRow(ord, ord') \/ ord'.version = ord.version + 1
      BY <1>9, SettleEffect DEF SameRow, Moves
    <2>2. Return(p) \/ UNCHANGED snap
      BY <1>9, SettleEffect DEF AfterPaidFails, Continue, local
    <2> QED
      BY <1>3, <2>1, <2>2, ReturnSnap DEF TypeOK
  <1>10. CASE Park(p) \/ CompleteCAS(p) \/ CloseCAS(p) \/ RefundFinish(p)
    <2>1. SameRow(ord, ord') \/ ord'.version = ord.version + 1
      BY <1>10, ParkEffect, CompleteEffect, CloseEffect, RefundFinishEffect DEF SameRow, Moves
    <2>2. Return(p)
      BY <1>10 DEF Park, CompleteCAS, CloseCAS, RefundFinish
    <2> QED
      BY <1>3, <2>1, <2>2, ReturnSnap DEF TypeOK
  <1>11. CASE RefundCAS(p)
    <2>1. CASE UNCHANGED ord /\ Return(p)
      BY <1>3, <2>1, ReturnSnap DEF SameRow, TypeOK
    <2>2. CASE ~(UNCHANGED ord /\ Return(p))
      <3>1. /\ CAS(p, {snap[p].status}) /\ Moves({snap[p].status}, {"REFUNDING"})
            /\ \A q \in Proc : q # p => snap'[q] = snap[q]
            /\ snap'[p].status = "REFUNDING" /\ snap'[p].version = snap[p].version + 1
            /\ snap'[p].paid = snap[p].paid /\ snap'[p].refunded = snap[p].refunded
        BY <1>11, <2>2, RefundCASEffect
      <3>2. Tracks(snap'[p], ord')
        BY <1>1, <1>2, <3>1 DEF Tracks, Moves, CAS, Order
      <3>3. \A q \in Proc : Tracks(snap[q], ord')
        BY <1>1, <1>2, <3>1, TracksOn DEF Moves
      <3>4. Tracks(NewOrder, ord')
        BY <1>1, <3>1, TracksOn DEF Moves
      <3> QED
        BY <3>1, <3>2, <3>3, <3>4 DEF CopiesTrackRow, NewOrder
    <2> QED
      BY <2>1, <2>2
  <1> QED
    BY <1>5, <1>6, <1>7, <1>8, <1>9, <1>10, <1>11 DEF Step, Quiet

-----------------------------------------------------------------------------
(* What the labels promise, under every step.                              *)

(* An order that left PENDING_PAY by payment or by cancellation stays on   *)
(* that side.                                                              *)
LEMMA SideIsKept ==
  ASSUME TypeOK, RefundsAgree, NEW p \in Proc, Step(p) \/ Request(p) \/ Abandon(p)
  PROVE  /\ ord.status \notin Unpaid => ord'.status \notin Unpaid
         /\ ord.status = "CANCELLED" => ord'.status = "CANCELLED"
  <1>. USE DEF Unpaid
  <1>1. CASE UNCHANGED ord \/ SameRow(ord, ord')
    BY <1>1 DEF SameRow
  <1>2. CASE Quiet(p) \/ UpdatePaymentIntent(p) \/ UpdateRedemption(p) \/ ReconRedeem(p)
    BY <1>1, <1>2, QuietRow, SameRowSteps
  <1>3. CASE PayCAS(p) \/ CancelCAS(p) \/ Settle(p) \/ Park(p)
    BY <1>1, <1>3, PayEffect, CancelEffect, SettleEffect, ParkEffect DEF Moves, NextAfterPaid
  <1>4. CASE CompleteCAS(p) \/ CloseCAS(p)
    BY <1>1, <1>4, CompleteEffect, CloseEffect DEF Moves, Closable
  <1>5. CASE RefundCAS(p)
    <2>1. snap[p].status \in Refundable
      BY <1>5 DEF RefundCAS, RefundsAgree
    <2> QED
      BY <1>1, <1>5, <2>1, RefundCASEffect DEF Moves, Refundable
  <1>6. CASE RefundFinish(p)
    BY <1>1, <1>6, RefundFinishEffect DEF CAS
  <1> QED
    BY <1>2, <1>3, <1>4, <1>5, <1>6 DEF Step, Quiet

(* Where a goroutine may go in one step. *)
LEMMA OthersWait ==
  ASSUME LocalsOK, NEW p \in Proc, NEW l, Goto(p, l)
  PROVE  /\ pc'[p] = l
         /\ \A q \in Proc : q # p => pc'[q] = pc[q]
  BY DEF LocalsOK, Goto

(* Where the error path of afterPaid leads. *)
LEMMA FailLabel ==
  ASSUME LocalsOK, NEW p \in Proc, AfterPaidFails(p)
  PROVE  /\ pc'[p] \in {"park", "idle", "unresolve"}
         /\ \A q \in Proc : q # p => pc'[q] = pc[q]
  BY OthersWait DEF AfterPaidFails, Return, Continue

ClosePhase == {"close_offer", "close_credit", "close_stock", "close_cas"}

GoesTo(p) ==
  /\ \A q \in Proc : q # p => pc'[q] = pc[q]
  /\ pc'[p] \in PaidPhase =>
       \/ pc[p] \in PaidPhase
       \/ PayCAS(p) /\ ord'.status = "PAID"
       \/ /\ AdminRetryPaid(p) \/ RetryAfterPaid(p)
          /\ ord.status \in {"PAID", "COMPENSATING"}
  /\ pc'[p] \in CancelPhase =>
       \/ pc[p] \in CancelPhase
       \/ CancelCAS(p) /\ ord'.status = "CANCELLED"
       \/ \E t \in Ticket : tickets[t].kind = "ledger_release"
  /\ pc'[p] = "refund_cas" => Refund(p)
  /\ pc'[p] \in RefundPhase =>
       \/ RefundCAS(p) /\ ~Return(p)
       \/ RefundChannel(p) /\ pc'[p] = "refund_credit"
       \/ RefundCredit(p) /\ pc'[p] = "refund_reverse"
       \/ RefundReverse(p) /\ pc'[p] = "refund_finish"
  /\ pc'[p] \in {"recon_commit", "recon_redeem"} =>
       \/ ReconCompare(p) /\ offer.status = "COMMITTED"
       \/ ReconCommit(p) /\ OfferCommit
  /\ pc'[p] \in ClosePhase =>
       \/ Close(p) /\ pc'[p] = "close_offer"
       \/ CloseOffer(p) /\ pc'[p] = "close_credit"
       \/ CloseCredit(p) /\ pc'[p] = "close_stock"
       \/ CloseStock(p) /\ pc'[p] = "close_cas"

(* Where any step leads, and on what condition. *)
LEMMA LabelStep ==
  ASSUME TypeOK, NEW p \in Proc, Step(p) \/ Request(p) \/ Abandon(p)
  PROVE  GoesTo(p)
  <1>. USE DEF GoesTo, TypeOK, PaidPhase, CancelPhase, RefundPhase, ClosePhase
  <1>0. ASSUME NEW l, Goto(p, l), l \notin PaidPhase \cup CancelPhase \cup RefundPhase
                     \cup {"refund_cas", "recon_commit", "recon_redeem"} \cup ClosePhase
        PROVE  GoesTo(p)
    BY <1>0, OthersWait
  <1>1. CASE Return(p)
    BY <1>1, <1>0 DEF Return
  <1>2. CASE CreateIntent(p) \/ UpdatePaymentIntent(p)
    BY <1>0, <1>1, <1>2 DEF CreateIntent, UpdatePaymentIntent
  <1>3. CASE PayCAS(p)
    BY <1>1, <1>3, PayEffect, OthersWait DEF CommitStep, CaptureStep
  <1>4. CASE CommitOffer(p) \/ CaptureFreeze(p) \/ Settle(p)
    <2>1. CASE AfterPaidFails(p)
      BY <1>4, <2>1, FailLabel DEF CommitOffer, CaptureFreeze, Settle
    <2>2. CASE ~AfterPaidFails(p)
      BY <1>0, <1>1, <1>4, <2>2, OthersWait DEF CommitOffer, CaptureFreeze, Settle, Continue
    <2> QED
      BY <2>1, <2>2
  <1>5. CASE UpdateRedemption(p) \/ CommitFulfillment(p) \/ Park(p)
    BY <1>1, <1>5, OthersWait DEF UpdateRedemption, CommitFulfillment, Park, Continue, CaptureStep
  <1>6. CASE CancelCAS(p)
    BY <1>1, <1>6, CancelEffect, OthersWait DEF CancelOfferStep, CancelLedgerStep, Moves
  <1>7. CASE CancelOffer(p) \/ CancelLedger(p) \/ CancelStock(p) \/ CancelIntent(p)
    BY <1>1, <1>7, OthersWait DEF CancelOffer, CancelLedger, CancelStock, CancelIntent, Continue,
       CancelLedgerStep
  <1>8. CASE CompleteCAS(p) \/ CloseCAS(p) \/ RefundFinish(p) \/ Abandon(p) \/ ReconInsert(p) \/ ReconRedeem(p)
    BY <1>1, <1>8 DEF CompleteCAS, CloseCAS, RefundFinish, Abandon, ReconInsert, ReconRedeem
  <1>9. CASE RefundCAS(p)
    <2>1. CASE ~Return(p)
      <3>1. Goto(p, "refund_channel")
        BY <1>9, <2>1, RefundCASEffect
      <3>2. LocalsOK
        OBVIOUS
      <3>3. pc'[p] = "refund_channel" /\ \A q \in Proc : q # p => pc'[q] = pc[q]
        BY <3>1, <3>2, OthersWait
      <3> QED
        BY <1>9, <2>1, <3>3
    <2> QED
      BY <1>1, <2>1
  <1>10. CASE RefundChannel(p) \/ RefundCredit(p) \/ RefundReverse(p)
    BY <1>1, <1>10, OthersWait DEF RefundChannel, RefundCredit, RefundReverse, Continue
  <1>11. CASE CloseOffer(p) \/ CloseCredit(p) \/ CloseStock(p)
    BY <1>1, <1>11, OthersWait DEF CloseOffer, CloseCredit, CloseStock, Continue
  <1>12. ASSUME NEW t \in Ticket, Goto(p, Serve(tickets[t].kind)) PROVE GoesTo(p)
    <2>1. tickets[t].kind \in Kind
      BY DEF Row
    <2> QED
      BY <1>12, <2>1, OthersWait DEF Serve, Kind
  <1>13. CASE PickTicket(p)
    BY <1>1, <1>12, <1>13 DEF PickTicket
  <1>14. CASE RetryAfterPaid(p)
    BY <1>14, OthersWait DEF RetryAfterPaid, CommitStep, CaptureStep
  <1>15. CASE RetryOfferRelease(p) \/ RetryLedgerRelease(p) \/ RetryOfferReverse(p)
    BY <1>0, <1>15 DEF RetryOfferRelease, RetryLedgerRelease, RetryOfferReverse, Continue
  <1>16. CASE UpdateCompensation(p)
    BY <1>0, <1>1, <1>16 DEF UpdateCompensation
  <1>17. CASE ReconCompare(p)
    <2>1. \/ Return(p) \/ Goto(p, "recon_check")
          \/ Goto(p, "recon_commit") /\ offer.status = "COMMITTED"
      BY <1>17 DEF ReconCompare, Continue
    <2>2. CASE Goto(p, "recon_commit") /\ offer.status = "COMMITTED"
      <3>1. pc'[p] = "recon_commit" /\ \A q \in Proc : q # p => pc'[q] = pc[q]
        BY <2>2, OthersWait
      <3> QED
        BY <1>17, <2>2, <3>1
    <2> QED
      BY <1>0, <1>1, <2>1, <2>2
  <1>18. CASE ReconCheck(p)
    BY <1>0, <1>1, <1>18 DEF ReconCheck, Continue
  <1>19. CASE ReconCommit(p)
    BY <1>0, <1>19, OthersWait DEF ReconCommit, Continue
  <1>20. CASE Request(p)
    <2>1. CASE Refund(p)
      <3>1. Goto(p, "refund_cas")
        BY <2>1 DEF Refund, Begin
      <3>2. pc'[p] = "refund_cas" /\ \A q \in Proc : q # p => pc'[q] = pc[q]
        BY <3>1, OthersWait
      <3> QED
        BY <2>1, <3>2
    <2>2. CASE AdminRetryPaid(p)
      BY <2>2, OthersWait DEF AdminRetryPaid, Begin, CommitStep, CaptureStep
    <2>3. ASSUME NEW t \in Ticket, RetryCompensation(p, t) PROVE GoesTo(p)
      BY <1>12, <2>3 DEF RetryCompensation
    <2>4. CASE \/ RecreateIntent(p) \/ OnPaid(p) \/ Cancel(p) \/ Complete(p)
               \/ ClaimCompensations(p) \/ ReconRead(p)
      BY <1>0, <2>4 DEF RecreateIntent, OnPaid, Cancel, Complete, ClaimCompensations,
         ReconRead, Begin
    <2>5. CASE Close(p)
      <3>1. Goto(p, "close_offer")
        BY <2>5 DEF Close, Begin
      <3>2. pc'[p] = "close_offer" /\ \A q \in Proc : q # p => pc'[q] = pc[q]
        BY <3>1, OthersWait
      <3> QED
        BY <2>5, <3>2
    <2> QED
      BY <1>20, <2>1, <2>2, <2>3, <2>4, <2>5 DEF Request
  <1> QED
    BY <1>2, <1>3, <1>4, <1>5, <1>6, <1>7, <1>8, <1>9, <1>10, <1>11, <1>13, <1>14,
       <1>15, <1>16, <1>17, <1>18, <1>19, <1>20 DEF Step

(* Which steps touch the services and the ticket kinds. *)
LEMMA OfferStep ==
  ASSUME NEW p \in Proc, Step(p) \/ Request(p) \/ Abandon(p)
  PROVE  \/ UNCHANGED offer
         \/ OfferCommit /\ pc[p] \in {"commit", "recon_commit"}
         \/ OfferRelease
         \/ \E a, k : OfferReverse(a, k)
  <1>1. CASE CommitOffer(p) \/ ReconCommit(p)
    BY <1>1 DEF CommitOffer, ReconCommit
  <1>2. CASE CancelOffer(p) \/ RetryOfferRelease(p)
    BY <1>2 DEF CancelOffer, RetryOfferRelease
  <1>3. CASE RefundReverse(p)
    BY <1>3 DEF RefundReverse
  <1>4. CASE RetryOfferReverse(p)
    BY <1>4 DEF RetryOfferReverse
  <1>5. CASE CloseOffer(p)
    BY <1>5 DEF CloseOffer
  <1>6. CASE Request(p)
    BY <1>6 DEF Request, RecreateIntent, OnPaid, AdminRetryPaid, Cancel, Complete, Refund,
       Close, RetryCompensation, ClaimCompensations, ReconRead, services
  <1>7. CASE \/ CreateIntent(p) \/ UpdatePaymentIntent(p) \/ PayCAS(p) \/ UpdateRedemption(p)
             \/ CaptureFreeze(p) \/ CommitFulfillment(p) \/ Settle(p) \/ Park(p) \/ CancelCAS(p)
             \/ CancelLedger(p) \/ CancelStock(p) \/ CancelIntent(p) \/ CompleteCAS(p)
             \/ RefundCAS(p) \/ RefundChannel(p) \/ RefundCredit(p) \/ RefundFinish(p)
    BY <1>7 DEF CreateIntent, UpdatePaymentIntent, PayCAS, UpdateRedemption, CaptureFreeze,
       CommitFulfillment, Settle, Park, CancelCAS, CancelLedger, CancelStock, CancelIntent,
       CompleteCAS, RefundCAS, RefundChannel, RefundCredit, RefundFinish, services
  <1>8. CASE \/ CloseCredit(p) \/ CloseStock(p) \/ CloseCAS(p) \/ PickTicket(p)
             \/ RetryAfterPaid(p) \/ RetryLedgerRelease(p) \/ UpdateCompensation(p)
             \/ ReconCompare(p) \/ ReconCheck(p) \/ ReconInsert(p) \/ ReconRedeem(p) \/ Abandon(p)
    BY <1>8 DEF CloseCredit, CloseStock, CloseCAS, PickTicket, RetryAfterPaid,
       RetryLedgerRelease, UpdateCompensation, ReconCompare, ReconCheck, ReconInsert,
       ReconRedeem, Abandon, services
  <1> QED
    BY <1>1, <1>2, <1>3, <1>4, <1>5, <1>6, <1>7, <1>8 DEF Step

(* Which steps touch the freeze. *)
LEMMA FreezeStep ==
  ASSUME NEW p \in Proc, Step(p) \/ Request(p) \/ Abandon(p)
  PROVE  \/ UNCHANGED freeze
         \/ LedgerCapture /\ pc[p] = "capture"
         \/ LedgerRelease /\ pc[p] \in {"cancel_ledger", "do_ledger_release"}
  <1>1. CASE CaptureFreeze(p)
    BY <1>1 DEF CaptureFreeze
  <1>2. CASE CancelLedger(p) \/ RetryLedgerRelease(p)
    BY <1>2 DEF CancelLedger, RetryLedgerRelease
  <1>6. CASE Request(p)
    BY <1>6 DEF Request, RecreateIntent, OnPaid, AdminRetryPaid, Cancel, Complete, Refund,
       Close, RetryCompensation, ClaimCompensations, ReconRead, services
  <1>7. CASE \/ CreateIntent(p) \/ UpdatePaymentIntent(p) \/ PayCAS(p) \/ UpdateRedemption(p)
             \/ CommitOffer(p) \/ CommitFulfillment(p) \/ Settle(p) \/ Park(p) \/ CancelCAS(p)
             \/ CancelOffer(p) \/ CancelStock(p) \/ CancelIntent(p) \/ CompleteCAS(p)
             \/ RefundCAS(p) \/ RefundChannel(p) \/ RefundCredit(p) \/ RefundReverse(p)
             \/ RefundFinish(p)
    BY <1>7 DEF CreateIntent, UpdatePaymentIntent, PayCAS, UpdateRedemption, CommitOffer,
       CommitFulfillment, Settle, Park, CancelCAS, CancelOffer, CancelStock, CancelIntent,
       CompleteCAS, RefundCAS, RefundChannel, RefundCredit, RefundReverse, RefundFinish, services
  <1>8. CASE \/ CloseOffer(p) \/ CloseCredit(p) \/ CloseStock(p) \/ CloseCAS(p) \/ PickTicket(p)
             \/ RetryAfterPaid(p) \/ RetryOfferRelease(p) \/ RetryOfferReverse(p)
             \/ UpdateCompensation(p) \/ ReconCompare(p) \/ ReconCheck(p) \/ ReconInsert(p)
             \/ ReconCommit(p) \/ ReconRedeem(p) \/ Abandon(p)
    BY <1>8 DEF CloseOffer, CloseCredit, CloseStock, CloseCAS, PickTicket, RetryAfterPaid,
       RetryOfferRelease, RetryOfferReverse, UpdateCompensation, ReconCompare, ReconCheck,
       ReconInsert, ReconCommit, ReconRedeem, Abandon, services
  <1> QED
    BY <1>1, <1>2, <1>6, <1>7, <1>8 DEF Step

(* Only a refund moves money back; Close credits under a key of its own.   *)
LEMMA MoneyStep ==
  ASSUME TypeOK, NEW p \in Proc, Step(p) \/ Request(p) \/ Abandon(p)
  PROVE  \/ channel' = channel /\ credit'.refund = credit.refund
         \/ RefundChannel(p) /\ credit' = credit
         \/ RefundCredit(p) /\ channel' = channel
  <1>1. CASE RefundChannel(p) \/ RefundCredit(p)
    BY <1>1 DEF RefundChannel, RefundCredit
  <1>2. CASE CloseCredit(p)
    <2>1. \A v : [credit EXCEPT !.close = v].refund = credit.refund
      BY DEF TypeOK, ServicesOK
    <2>2. UNCHANGED credit \/ \E v : credit' = [credit EXCEPT !.close = v]
      BY <1>2 DEF CloseCredit
    <2> QED
      BY <1>2, <2>1, <2>2 DEF CloseCredit
  <1>6. CASE Request(p)
    BY <1>6 DEF Request, RecreateIntent, OnPaid, AdminRetryPaid, Cancel, Complete, Refund,
       Close, RetryCompensation, ClaimCompensations, ReconRead, services
  <1>7. CASE \/ CreateIntent(p) \/ UpdatePaymentIntent(p) \/ PayCAS(p) \/ UpdateRedemption(p)
             \/ CommitOffer(p) \/ CaptureFreeze(p) \/ CommitFulfillment(p) \/ Settle(p) \/ Park(p)
             \/ CancelCAS(p) \/ CancelOffer(p) \/ CancelLedger(p) \/ CancelStock(p)
             \/ CancelIntent(p) \/ CompleteCAS(p) \/ RefundCAS(p) \/ RefundReverse(p)
             \/ RefundFinish(p)
    BY <1>7 DEF CreateIntent, UpdatePaymentIntent, PayCAS, UpdateRedemption, CommitOffer,
       CaptureFreeze, CommitFulfillment, Settle, Park, CancelCAS, CancelOffer, CancelLedger,
       CancelStock, CancelIntent, CompleteCAS, RefundCAS, RefundReverse, RefundFinish, services
  <1>8. CASE \/ CloseOffer(p) \/ CloseStock(p) \/ CloseCAS(p) \/ PickTicket(p)
             \/ RetryAfterPaid(p) \/ RetryOfferRelease(p) \/ RetryLedgerRelease(p)
             \/ RetryOfferReverse(p) \/ UpdateCompensation(p) \/ ReconCompare(p) \/ ReconCheck(p)
             \/ ReconInsert(p) \/ ReconCommit(p) \/ ReconRedeem(p) \/ Abandon(p)
    BY <1>8 DEF CloseOffer, CloseStock, CloseCAS, PickTicket, RetryAfterPaid,
       RetryOfferRelease, RetryLedgerRelease, RetryOfferReverse, UpdateCompensation,
       ReconCompare, ReconCheck, ReconInsert, ReconCommit, ReconRedeem, Abandon, services
  <1> QED
    BY <1>1, <1>2, <1>6, <1>7, <1>8 DEF Step

(* InsertCompensation writes one row of the kind it is given. *)
LEMMA InsertKind ==
  ASSUME tickets \in [Ticket -> Row], NEW k, NEW r, InsertCompensation(k, r), NEW t \in Ticket
  PROVE  tickets'[t].kind \in {tickets[t].kind, k}
  <1> DEFINE row == [kind |-> k, st |-> "pending", attempts |-> 0, ref |-> r]
             v == CHOOSE x \in Vacant : TRUE
  <1>1. row.kind = k
    OBVIOUS
  <1>2. CASE Vacant = {}
    BY <1>2 DEF InsertCompensation
  <1>3. CASE Vacant # {}
    <2>1. tickets' = [tickets EXCEPT ![v] = row]
      BY <1>3 DEF InsertCompensation
    <2> HIDE DEF row, v
    <2> QED
      BY <2>1, <1>1
  <1> QED
    BY <1>2, <1>3

(* UpdateCompensation keeps the kind. *)
LEMMA SetKind ==
  ASSUME NEW f \in [Ticket -> Row], NEW j, NEW st, NEW t \in Ticket
  PROVE  [f EXCEPT ![j].st = st][t].kind = f[t].kind
  <1>1. \A r \in Row : [r EXCEPT !.st = st].kind = r.kind
    BY DEF Row
  <1> QED
    BY <1>1

(* Only CancelLedger writes a ledger_release ticket. *)
LEMMA KindStep ==
  ASSUME TypeOK, NEW p \in Proc, Step(p) \/ Request(p) \/ Abandon(p), NEW t \in Ticket,
         tickets'[t].kind = "ledger_release"
  PROVE  tickets[t].kind = "ledger_release" \/ CancelLedger(p)
  <1>. USE DEF TypeOK
  <1>1. ASSUME NEW k, NEW r, InsertCompensation(k, r), k # "ledger_release"
        PROVE  tickets[t].kind = "ledger_release"
    BY <1>1, InsertKind
  <1>2. CASE UNCHANGED tickets
    BY <1>2
  <1>3. CASE CommitOffer(p) \/ CaptureFreeze(p) \/ Settle(p)
    BY <1>1, <1>2, <1>3 DEF CommitOffer, CaptureFreeze, Settle, AfterPaidFails
  <1>4. CASE CancelOffer(p) \/ RefundReverse(p)
    BY <1>1, <1>2, <1>4 DEF CancelOffer, RefundReverse
  <1>5. CASE ReconInsert(p)
    <2>1. work[p].kind \in {"after_paid", "offer_release"}
      BY DEF LocalsOK, Task
    <2> QED
      BY <1>1, <1>5, <2>1 DEF ReconInsert
  <1>6. CASE UpdateCompensation(p)
    <2>1. \E j, st : tickets' = [tickets EXCEPT ![j].st = st]
      BY <1>6 DEF UpdateCompensation
    <2> QED
      BY <2>1, SetKind
  <1>7. CASE ClaimCompensations(p)
    <2>1. \A x \in Row : \A a : [x EXCEPT !.st = "running", !.attempts = a].kind = x.kind
      BY DEF Row
    <2>2. \/ tickets'[t] = tickets[t]
          \/ \E a : tickets'[t] = [tickets[t] EXCEPT !.st = "running", !.attempts = a]
      BY <1>7, ZenonT(40) DEF ClaimCompensations
    <2> QED
      BY <2>1, <2>2, ZenonT(40)
  <1>8. CASE Request(p) /\ ~ClaimCompensations(p)
    BY <1>2, <1>8 DEF Request, RecreateIntent, OnPaid, AdminRetryPaid, Cancel, Complete, Refund,
       Close, RetryCompensation, ReconRead
  <1>9. CASE \/ CreateIntent(p) \/ UpdatePaymentIntent(p) \/ PayCAS(p) \/ UpdateRedemption(p)
             \/ CommitFulfillment(p) \/ Park(p) \/ CancelCAS(p) \/ CancelStock(p)
             \/ CancelIntent(p) \/ CompleteCAS(p) \/ RefundCAS(p) \/ RefundChannel(p)
             \/ RefundCredit(p) \/ RefundFinish(p)
    BY <1>2, <1>9 DEF CreateIntent, UpdatePaymentIntent, PayCAS, UpdateRedemption,
       CommitFulfillment, Park, CancelCAS, CancelStock, CancelIntent, CompleteCAS, RefundCAS,
       RefundChannel, RefundCredit, RefundFinish
  <1>10. CASE \/ CloseOffer(p) \/ CloseCredit(p) \/ CloseStock(p) \/ CloseCAS(p) \/ PickTicket(p)
              \/ RetryAfterPaid(p) \/ RetryOfferRelease(p) \/ RetryLedgerRelease(p)
              \/ RetryOfferReverse(p) \/ ReconCompare(p) \/ ReconCheck(p) \/ ReconCommit(p)
              \/ ReconRedeem(p) \/ Abandon(p)
    BY <1>2, <1>10 DEF CloseOffer, CloseCredit, CloseStock, CloseCAS, PickTicket, RetryAfterPaid,
       RetryOfferRelease, RetryLedgerRelease, RetryOfferReverse, ReconCompare, ReconCheck,
       ReconCommit, ReconRedeem, Abandon
  <1> QED
    BY <1>3, <1>4, <1>5, <1>6, <1>7, <1>8, <1>9, <1>10 DEF Step

(* The goroutine's label is where a named step stands. *)
LEMMA StandsAt ==
  ASSUME NEW p \in Proc
  PROVE  /\ CancelLedger(p) => pc[p] \in CancelPhase
         /\ ReconCommit(p) => pc[p] = "recon_commit"
  BY DEF CancelLedger, ReconCommit, CancelPhase

(* What goroutines rely on where they stand is kept. *)
LEMMA PhasesStep ==
  ASSUME TypeOK, PhasesAgree, RefundsAgree, NEW p \in Proc, Step(p) \/ Request(p) \/ Abandon(p)
  PROVE  PhasesAgree'
  <1>1. GoesTo(p)
    BY LabelStep
  <1>2. /\ ord.status \notin Unpaid => ord'.status \notin Unpaid
        /\ ord.status = "CANCELLED" => ord'.status = "CANCELLED"
    BY SideIsKept
  <1>3. \A q \in Proc : pc'[q] \in PaidPhase => ord'.status \notin Unpaid
    BY <1>1, <1>2 DEF GoesTo, PhasesAgree, Unpaid
  <1>4. \A q \in Proc : pc'[q] \in CancelPhase => ord'.status = "CANCELLED"
    BY <1>1, <1>2 DEF GoesTo, PhasesAgree
  <1>5. \A t \in Ticket : tickets'[t].kind = "ledger_release" => ord'.status = "CANCELLED"
    BY <1>2, KindStep, StandsAt DEF PhasesAgree
  <1>6. /\ offer.redeemed => offer'.redeemed
        /\ offer'.status = "COMMITTED" => offer'.redeemed
        /\ OfferCommit => offer'.redeemed
        /\ offer.status = "COMMITTED" => offer.redeemed
    <2>1. offer \in Offer /\ (offer.status = "COMMITTED" => offer.redeemed)
      BY DEF TypeOK, ServicesOK, PhasesAgree
    <2>2. CASE UNCHANGED offer \/ OfferCommit \/ OfferRelease
      BY <2>1, <2>2 DEF OfferCommit, OfferRelease, Offer
    <2>3. ASSUME NEW a, NEW k, OfferReverse(a, k)
          PROVE  offer'.status = offer.status /\ offer'.redeemed = offer.redeemed
      BY <2>1, <2>3 DEF OfferReverse, Offer
    <2>4. OfferCommit => offer'.redeemed
      BY <2>1 DEF OfferCommit, Offer
    <2> QED
      BY <2>1, <2>2, <2>3, <2>4, OfferStep
  <1>7. \A q \in Proc : pc'[q] \in {"recon_commit", "recon_redeem"} => offer'.redeemed
    BY <1>1, <1>6 DEF GoesTo, PhasesAgree
  <1> QED
    BY <1>3, <1>4, <1>5, <1>6, <1>7 DEF PhasesAgree, PaidPhase, CancelPhase, Unpaid

(* OnlyWinnerActs is kept. *)
LEMMA WinnerStep ==
  ASSUME TypeOK, PhasesAgree, RefundsAgree, OnlyWinnerActs, RefundsAgree',
         NEW p \in Proc, Step(p) \/ Request(p) \/ Abandon(p)
  PROVE  OnlyWinnerActs'
  <1>. USE DEF Unpaid
  <1>2. /\ ord.status \notin Unpaid => ord'.status \notin Unpaid
        /\ ord.status = "CANCELLED" => ord'.status = "CANCELLED"
    BY SideIsKept
  <1>3. freeze' = "RELEASED" => freeze = "RELEASED" \/ pc[p] \in CancelPhase
    BY FreezeStep DEF LedgerCapture, LedgerRelease, CancelPhase
  <1>4. freeze' = "CAPTURED" => freeze = "CAPTURED" \/ pc[p] \in PaidPhase
    BY FreezeStep DEF LedgerCapture, LedgerRelease, PaidPhase
  <1>5. offer'.redeemed => offer.redeemed \/ pc[p] \in {"commit", "recon_commit"}
    <2>1. offer \in Offer
      BY DEF TypeOK, ServicesOK
    <2>2. CASE OfferRelease
      BY <2>1, <2>2 DEF OfferRelease, Offer
    <2>3. ASSUME NEW a, NEW k, OfferReverse(a, k) PROVE offer'.redeemed = offer.redeemed
      BY <2>1, <2>3 DEF OfferReverse, Offer
    <2> QED
      BY <2>2, <2>3, OfferStep
  <1>6. ord'.paid > 0 => ord'.status \notin Unpaid
    BY DEF RefundsAgree
  <1> QED
    BY <1>2, <1>3, <1>4, <1>5, <1>6 DEF OnlyWinnerActs, PhasesAgree, PaidPhase

-----------------------------------------------------------------------------
(* Refunds, under every step.                                              *)

(* The steps that move the row, by what they do to the money. *)
RowMoves(p) ==
  \/ SameRow(ord, ord')
  \/ /\ ord.status = "PENDING_PAY" /\ ord'.status = "PAID"
     /\ ord'.version = ord.version + 1
     /\ ord'.paid = Payable /\ ord'.refunded = ord.refunded
  \/ Moves({"PENDING_PAY"}, {"CANCELLED"})
  \/ Moves({"PAID", "COMPENSATING"}, {NextAfterPaid(AutoComplete)})
  \/ Moves({"PAID"}, {"COMPENSATING"})
  \/ Moves({"FULFILLING", "PAID"}, {"COMPLETED"})
  \/ Moves(Closable, {"CLOSED"})
  \/ RefundCAS(p) /\ ~Return(p) /\ Moves(Refundable, {"REFUNDING"})
  \/ /\ RefundFinish(p) /\ CAS(p, {"REFUNDING"})
     /\ ord'.status = IF IsFull(p) THEN "REFUNDED" ELSE "PARTIAL_REFUNDED"
     /\ ord'.version = ord.version + 1
     /\ ord'.paid = ord.paid /\ ord'.refunded = ord.refunded + amt[p]

(* Every step moves the row in one of the ways RowMoves lists. *)
LEMMA RowStep ==
  ASSUME TypeOK, RefundsAgree, NEW p \in Proc, Step(p) \/ Request(p) \/ Abandon(p)
  PROVE  RowMoves(p)
  <1>1. CASE UNCHANGED ord \/ SameRow(ord, ord')
    BY <1>1 DEF SameRow, RowMoves
  <1>2. CASE Quiet(p) \/ UpdatePaymentIntent(p) \/ UpdateRedemption(p) \/ ReconRedeem(p)
    BY <1>1, <1>2, QuietRow, SameRowSteps
  <1>3. CASE PayCAS(p)
    BY <1>1, <1>3, PayEffect DEF RowMoves
  <1>4. CASE CancelCAS(p)
    BY <1>1, <1>4, CancelEffect DEF RowMoves
  <1>5. CASE Settle(p) \/ Park(p) \/ CompleteCAS(p) \/ CloseCAS(p)
    BY <1>1, <1>5, SettleEffect, ParkEffect, CompleteEffect, CloseEffect
       DEF RowMoves
  <1>6. CASE RefundCAS(p)
    <2>1. CASE Return(p)
      <3>1. pc'[p] = "idle"
        BY <2>1, OthersWait DEF TypeOK, Return
      <3>2. ~Goto(p, "refund_channel")
        BY <3>1, OthersWait DEF TypeOK
      <3> QED
        BY <1>1, <1>6, <3>2, RefundCASEffect
    <2>2. CASE ~Return(p)
      <3>1. snap[p].status \in Refundable
        BY <1>6 DEF RefundCAS, RefundsAgree
      <3> QED
        BY <1>6, <2>2, <3>1, RefundCASEffect DEF RowMoves, Moves
    <2> QED
      BY <2>1, <2>2
  <1>7. CASE RefundFinish(p)
    BY <1>1, <1>7, RefundFinishEffect DEF RowMoves
  <1> QED
    BY <1>2, <1>3, <1>4, <1>5, <1>6, <1>7 DEF Step, Quiet

(* A goroutine's own amount and copy are touched by nobody else. *)
LEMMA LocalsArePrivate ==
  ASSUME TypeOK, NEW p \in Proc, Step(p) \/ Request(p) \/ Abandon(p), NEW q \in Proc, q # p
  PROVE  snap'[q] = snap[q] /\ amt'[q] = amt[q]
  <1>. USE DEF TypeOK, LocalsOK
  <1>1. CASE Return(p) \/ UNCHANGED <<snap, amt>>
    BY <1>1 DEF Return
  <1>2. CASE AfterPaidFails(p) \/ (\E l : Continue(p, l))
    BY <1>1, <1>2 DEF AfterPaidFails, Continue, local
  <1>3. CASE CommitOffer(p) \/ CaptureFreeze(p) \/ Settle(p) \/ CommitFulfillment(p)
    BY <1>1, <1>2, <1>3 DEF CommitOffer, CaptureFreeze, Settle, CommitFulfillment
  <1>4. CASE PayCAS(p) \/ CancelCAS(p) \/ RefundCAS(p) \/ UpdateRedemption(p) \/ RetryAfterPaid(p)
    BY <1>1, <1>4 DEF PayCAS, CancelCAS, RefundCAS, UpdateRedemption, RetryAfterPaid
  <1>5. CASE \/ CreateIntent(p) \/ UpdatePaymentIntent(p) \/ Park(p) \/ CancelOffer(p)
             \/ CancelLedger(p) \/ CancelStock(p) \/ CancelIntent(p) \/ CompleteCAS(p)
    BY <1>1, <1>2, <1>5 DEF CreateIntent, UpdatePaymentIntent, Park, CancelOffer, CancelLedger,
       CancelStock, CancelIntent, CompleteCAS
  <1>6. CASE \/ RefundChannel(p) \/ RefundCredit(p) \/ RefundReverse(p) \/ RefundFinish(p)
             \/ CloseOffer(p) \/ CloseCredit(p) \/ CloseStock(p) \/ CloseCAS(p)
    BY <1>1, <1>2, <1>6 DEF RefundChannel, RefundCredit, RefundReverse, RefundFinish,
       CloseOffer, CloseCredit, CloseStock, CloseCAS
  <1>7. CASE \/ PickTicket(p) \/ RetryOfferRelease(p) \/ RetryLedgerRelease(p)
             \/ RetryOfferReverse(p) \/ ReconCompare(p) \/ ReconCheck(p) \/ ReconInsert(p)
             \/ ReconCommit(p) \/ ReconRedeem(p) \/ Abandon(p)
    BY <1>1, <1>2, <1>7 DEF PickTicket, RetryOfferRelease, RetryLedgerRelease,
       RetryOfferReverse, ReconCompare, ReconCheck, ReconInsert, ReconCommit, ReconRedeem, Abandon
  <1>8. CASE UpdateCompensation(p)
    BY <1>1, <1>8 DEF UpdateCompensation
  <1>9. CASE Request(p)
    BY <1>9 DEF Request, RecreateIntent, OnPaid, AdminRetryPaid, Cancel, Complete, Refund,
       Close, RetryCompensation, ClaimCompensations, ReconRead, Begin
  <1> QED
    BY <1>3, <1>4, <1>5, <1>6, <1>7, <1>8, <1>9 DEF Step

(* The channel leg of a refund adds its share to what went back. *)
LEMMA RefundChannelEffect ==
  ASSUME TypeOK, NEW p \in Proc, RefundChannel(p)
  PROVE  /\ pc[p] = "refund_channel" /\ UNCHANGED ord
         /\ returned' \in {returned, returned + Split(p).channel}
         /\ pc'[p] = "refund_credit" =>
              returned' = returned + Split(p).channel /\ UNCHANGED <<snap, amt>>
  <1>. DEFINE c == Split(p).channel
  <1>1. c \in Nat
    BY SplitOK DEF TypeOK, LocalsOK, Split
  <1>2. channel \in Nat /\ credit.refund \in Nat
    BY DEF TypeOK, ServicesOK
  <1>3. /\ pc[p] = "refund_channel" /\ UNCHANGED <<ord, credit>>
        /\ \/ channel' = channel + c /\ Continue(p, "refund_credit")
           \/ channel' \in {channel, channel + c} /\ Return(p)
    BY DEF RefundChannel
  <1>4. Return(p) => pc'[p] # "refund_credit"
    BY OthersWait DEF TypeOK, Return
  <1> HIDE DEF c
  <1>5. returned' \in {returned, returned + c}
    BY <1>1, <1>2, <1>3 DEF returned
  <1>6. pc'[p] = "refund_credit" => channel' = channel + c /\ Continue(p, "refund_credit")
    BY <1>3, <1>4
  <1>7. pc'[p] = "refund_credit" => returned' = returned + c /\ UNCHANGED <<snap, amt>>
    BY <1>1, <1>2, <1>3, <1>6 DEF returned, Continue, local
  <1> QED
    BY <1>3, <1>5, <1>7 DEF c

(* The ledger leg of a refund adds its share to what went back. *)
LEMMA RefundCreditEffect ==
  ASSUME TypeOK, NEW p \in Proc, RefundCredit(p)
  PROVE  /\ pc[p] = "refund_credit" /\ UNCHANGED ord
         /\ returned' \in {returned, returned + Split(p).ledger}
         /\ pc'[p] = "refund_reverse" =>
              returned' = returned + Split(p).ledger /\ UNCHANGED <<snap, amt>>
  <1>. DEFINE l == Split(p).ledger
  <1>1. l \in Nat
    BY SplitOK DEF TypeOK, LocalsOK, Split
  <1>2. channel \in Nat /\ credit.refund \in Nat
    BY DEF TypeOK, ServicesOK
  <1>0. [credit EXCEPT !.refund = @ + l].refund = credit.refund + l
    BY DEF TypeOK, ServicesOK
  <1>3. /\ pc[p] = "refund_credit" /\ UNCHANGED <<ord, channel>>
        /\ \/ credit'.refund = credit.refund + l /\ Continue(p, "refund_reverse")
           \/ credit'.refund \in {credit.refund, credit.refund + l} /\ Return(p)
    BY <1>0 DEF RefundCredit
  <1>4. Return(p) => pc'[p] # "refund_reverse"
    BY OthersWait DEF TypeOK, Return
  <1> HIDE DEF l
  <1>5. returned' \in {returned, returned + l}
    BY <1>1, <1>2, <1>3 DEF returned
  <1>6. pc'[p] = "refund_reverse" =>
          credit'.refund = credit.refund + l /\ Continue(p, "refund_reverse")
    BY <1>3, <1>4
  <1>7. pc'[p] = "refund_reverse" => returned' = returned + l /\ UNCHANGED <<snap, amt>>
    BY <1>1, <1>2, <1>3, <1>6 DEF returned, Continue, local
  <1> QED
    BY <1>3, <1>5, <1>7 DEF l

(* Reversing the discount moves neither row nor money. *)
LEMMA RefundReverseEffect ==
  ASSUME TypeOK, NEW p \in Proc, RefundReverse(p)
  PROVE  /\ pc[p] = "refund_reverse" /\ pc'[p] = "refund_finish"
         /\ UNCHANGED <<ord, snap, amt, returned>>
  <1>1. Continue(p, "refund_finish") /\ UNCHANGED <<ord, channel, credit>> /\ pc[p] = "refund_reverse"
    BY DEF RefundReverse
  <1> QED
    BY <1>1, OthersWait DEF TypeOK, Continue, local, returned

(* A refund that wins its compare-and-set acts on a current copy. *)
LEMMA RefundStartEffect ==
  ASSUME TypeOK, RefundsAgree, CopiesTrackRow, NEW p \in Proc, RefundCAS(p), ~Return(p)
  PROVE  /\ ord.status \in Refundable /\ ord'.status = "REFUNDING"
         /\ snap'[p].version = ord'.version
         /\ ord'.paid = ord.paid /\ ord'.refunded = ord.refunded
         /\ amt'[p] = amt[p] /\ amt[p] >= 1 /\ amt[p] + ord.refunded <= ord.paid
         /\ pc'[p] = "refund_channel" /\ UNCHANGED returned
  <1>1. /\ CAS(p, {snap[p].status}) /\ Moves({snap[p].status}, {"REFUNDING"})
        /\ snap'[p].version = snap[p].version + 1
        /\ Goto(p, "refund_channel") /\ UNCHANGED amt
    BY RefundCASEffect
  <1>2. /\ amt[p] >= 1 /\ amt[p] + snap[p].refunded <= snap[p].paid
        /\ snap[p].status \in Refundable
    BY DEF RefundCAS, RefundsAgree
  <1>3. snap[p].refunded = ord.refunded /\ snap[p].paid = ord.paid
    BY <1>1 DEF CAS, CopiesTrackRow, Tracks
  <1>4. UNCHANGED returned
    BY DEF RefundCAS, services, returned
  <1>5. pc'[p] = "refund_channel"
    BY <1>1, OthersWait DEF TypeOK
  <1> QED
    BY <1>1, <1>2, <1>3, <1>4, <1>5 DEF CAS, Moves

(* RefundIsExclusive is kept: the second refund finds another version. *)
LEMMA ExclusiveStep ==
  ASSUME TypeOK, RefundsAgree, CopiesTrackRow, RefundIsExclusive,
         NEW p \in Proc, Step(p) \/ Request(p) \/ Abandon(p)
  PROVE  RefundIsExclusive'
  <1>1. GoesTo(p)
    BY LabelStep
  <1>2. ASSUME NEW q \in Proc, q # p, pc'[p] \in RefundPhase, pc'[q] \in RefundPhase PROVE FALSE
    <2>1. pc[q] \in RefundPhase
      BY <1>1, <1>2 DEF GoesTo
    <2>2. ord.status = "REFUNDING"
      BY <2>1 DEF RefundsAgree
    <2>3. pc[p] \notin RefundPhase
      BY <1>2, <2>1 DEF RefundIsExclusive
    <2>4. RefundCAS(p) /\ ~Return(p)
      BY <1>1, <1>2, <2>3, RefundChannelEffect, RefundCreditEffect, RefundReverseEffect
         DEF GoesTo, RefundPhase
    <2> QED
      BY <2>2, <2>4, RefundStartEffect DEF Refundable
  <1> QED
    BY <1>1, <1>2 DEF RefundIsExclusive, GoesTo, RefundPhase

(* While a refund is in flight no other goroutine touches row or money. *)
LEMMA OthersKeepOff ==
  ASSUME TypeOK, RefundsAgree, RefundIsExclusive, NEW q \in Proc, pc[q] \in RefundPhase,
         NEW p \in Proc, p # q, Step(p) \/ Request(p) \/ Abandon(p)
  PROVE  SameRow(ord, ord') /\ UNCHANGED returned
  <1>1. pc[p] \notin RefundPhase /\ ord.status = "REFUNDING"
    BY DEF RefundIsExclusive, RefundsAgree
  <1>2. ~RefundFinish(p) /\ ~RefundChannel(p) /\ ~RefundCredit(p)
    BY <1>1 DEF RefundFinish, RefundChannel, RefundCredit, RefundPhase
  <1>3. SameRow(ord, ord')
    BY <1>1, <1>2, RowStep DEF RowMoves, Moves, Refundable, Closable
  <1>4. UNCHANGED returned
    BY <1>2, MoneyStep DEF returned
  <1> QED
    BY <1>3, <1>4

InRefund(q) == /\ ord.status = "REFUNDING" /\ snap[q].version = ord.version
               /\ amt[q] >= 1 /\ amt[q] + ord.refunded <= ord.paid
               /\ returned = ord.refunded + Legs(q)

(* The account of refunds is kept, under every step. *)
LEMMA RefundsStep ==
  ASSUME TypeOK, TypeOK', RefundsAgree, CopiesTrackRow, RefundIsExclusive,
         NEW p \in Proc, Step(p) \/ Request(p) \/ Abandon(p)
  PROVE  RefundsAgree'
  <1>1. GoesTo(p) /\ RowMoves(p)
    BY LabelStep, RowStep
  <1>2. /\ ord.paid \in Nat /\ ord.refunded \in Nat /\ ord'.paid \in Nat /\ ord'.refunded \in Nat
        /\ returned \in Nat /\ returned' \in Nat /\ amt[p] \in Nat
    BY DEF TypeOK, ServicesOK, LocalsOK, Order, returned
  <1>3. /\ Split(p).channel \in Nat /\ Split(p).ledger \in Nat
        /\ Split(p).ledger + Split(p).channel = amt[p]
    BY <1>2, SplitOK DEF Split
  <1>4. ASSUME NEW q \in Proc, pc[q] \in RefundPhase PROVE InRefund(q)
    BY <1>4 DEF RefundsAgree, InRefund
  (* A refund that has read the row and not yet moved it. *)
  <1>5. ASSUME NEW q \in Proc, pc'[q] = "refund_cas"
        PROVE  /\ amt'[q] >= 1 /\ amt'[q] + snap'[q].refunded <= snap'[q].paid
               /\ snap'[q].status \in Refundable
    <2>1. CASE q # p
      <3>1. pc[q] = "refund_cas" /\ snap'[q] = snap[q] /\ amt'[q] = amt[q]
        BY <1>1, <1>5, <2>1, LocalsArePrivate DEF GoesTo
      <3> QED
        BY <3>1 DEF RefundsAgree
    <2>2. CASE q = p
      <3>1. Refund(p)
        BY <1>1, <1>5, <2>2 DEF GoesTo
      <3>2. PICK a \in 1 .. RefundableAmount(ord) : amt' = [amt EXCEPT ![p] = a]
        BY <3>1 DEF Refund
      <3>3. amt'[p] = a /\ snap'[p] = ord /\ ord.status \in Refundable
        BY <3>1, <3>2 DEF Refund, Begin, TypeOK, LocalsOK
      <3> QED
        BY <1>2, <2>2, <3>3 DEF RefundableAmount
    <2> QED
      BY <2>1, <2>2
  (* A refund between its two compare-and-sets. *)
  <1>6. ASSUME NEW q \in Proc, pc'[q] \in RefundPhase PROVE InRefund(q)'
    <2>1. CASE q # p
      <3>1. /\ pc[q] \in RefundPhase /\ pc'[q] = pc[q]
            /\ snap'[q] = snap[q] /\ amt'[q] = amt[q]
        BY <1>1, <1>6, <2>1, LocalsArePrivate DEF GoesTo
      <3>2. SameRow(ord, ord') /\ UNCHANGED returned
        BY <2>1, <3>1, OthersKeepOff
      <3>3. InRefund(q)
        BY <1>4, <3>1
      <3>4. Legs(q)' = Legs(q)
        BY <3>1 DEF Legs, Split
      <3> QED
        BY <3>1, <3>2, <3>3, <3>4 DEF InRefund, SameRow
    <2>2. CASE RefundCAS(p) /\ ~Return(p) /\ q = p
      <3>1. ord.status # "REFUNDING" /\ returned = ord.refunded
        BY <2>2, RefundStartEffect DEF RefundsAgree, Refundable
      <3>2. Legs(p)' = 0
        BY <2>2, RefundStartEffect DEF Legs
      <3> QED
        BY <1>2, <2>2, <3>1, <3>2, RefundStartEffect DEF InRefund
    <2>3. CASE RefundChannel(p) /\ pc'[p] = "refund_credit" /\ q = p
      <3>1. InRefund(p) /\ Legs(p) = 0
        BY <1>4, <2>3, RefundChannelEffect DEF RefundPhase, Legs
      <3>2. Legs(p)' = Split(p).channel
        BY <2>3, RefundChannelEffect DEF Legs, Split
      <3> QED
        BY <1>2, <1>3, <2>3, <3>1, <3>2, RefundChannelEffect DEF InRefund
    <2>4. CASE RefundCredit(p) /\ pc'[p] = "refund_reverse" /\ q = p
      <3>1. InRefund(p) /\ Legs(p) = Split(p).channel
        BY <1>4, <2>4, RefundCreditEffect DEF RefundPhase, Legs
      <3>2. Legs(p)' = amt[p]
        BY <2>4, RefundCreditEffect DEF Legs
      <3> QED
        BY <1>2, <1>3, <2>4, <3>1, <3>2, RefundCreditEffect DEF InRefund
    <2>5. CASE RefundReverse(p) /\ q = p
      <3>1. InRefund(p) /\ Legs(p) = amt[p]
        BY <1>4, <2>5, RefundReverseEffect DEF RefundPhase, Legs
      <3>2. Legs(p)' = amt[p]
        BY <2>5, RefundReverseEffect DEF Legs
      <3> QED
        BY <2>5, <3>1, <3>2, RefundReverseEffect DEF InRefund
    <2> QED
      BY <1>1, <1>6, <2>1, <2>2, <2>3, <2>4, <2>5 DEF GoesTo
  (* The money that has gone back. *)
  <1>7. CASE RefundChannel(p) \/ RefundCredit(p)
    <2>1. pc[p] \in RefundPhase /\ UNCHANGED ord
      BY <1>7, RefundChannelEffect, RefundCreditEffect DEF RefundPhase
    <2>2. InRefund(p)
      BY <1>4, <2>1
    <2>3. returned' <= ord.refunded + amt[p] /\ returned' >= ord.refunded
      <3>1. CASE RefundChannel(p)
        <4>1. Legs(p) = 0 /\ returned' \in {returned, returned + Split(p).channel}
          BY <3>1, RefundChannelEffect DEF Legs
        <4> QED
          BY <1>2, <1>3, <2>2, <4>1 DEF InRefund
      <3>2. CASE RefundCredit(p)
        <4>1. /\ Legs(p) = Split(p).channel
              /\ returned' \in {returned, returned + Split(p).ledger}
          BY <3>2, RefundCreditEffect DEF Legs
        <4> QED
          BY <1>2, <1>3, <2>2, <4>1 DEF InRefund
      <3> QED
        BY <1>7, <3>1, <3>2
    <2>4. /\ ord'.status = "REFUNDING" /\ ord'.refunded <= returned' /\ returned' <= ord'.paid
          /\ ord'.paid = IF ord'.status \in Unpaid THEN 0 ELSE Payable
      BY <1>2, <2>1, <2>2, <2>3 DEF InRefund, RefundsAgree
    <2> QED
      BY <1>5, <1>6, <2>4 DEF RefundsAgree, InRefund, RefundPhase, Refundable, Unpaid
  <1>8. CASE ~RefundChannel(p) /\ ~RefundCredit(p)
    <2>1. returned' = returned
      BY <1>8, MoneyStep DEF returned
    <2>2. /\ ord'.status # "REFUNDING" => returned' = ord'.refunded
          /\ ord'.refunded <= returned' /\ returned' <= ord'.paid
          /\ ord'.paid = IF ord'.status \in Unpaid THEN 0 ELSE Payable
      <3>1. /\ ord.status # "REFUNDING" => returned = ord.refunded
            /\ ord.refunded <= returned /\ returned <= ord.paid
            /\ ord.paid = IF ord.status \in Unpaid THEN 0 ELSE Payable
        BY DEF RefundsAgree
      <3>. DEFINE Finished ==
             /\ RefundFinish(p) /\ CAS(p, {"REFUNDING"})
             /\ ord'.status = IF IsFull(p) THEN "REFUNDED" ELSE "PARTIAL_REFUNDED"
             /\ ord'.paid = ord.paid /\ ord'.refunded = ord.refunded + amt[p]
      <3>2. CASE Finished
        <4>1. pc[p] = "refund_finish"
          BY <3>2 DEF RefundFinish
        <4>2. InRefund(p) /\ Legs(p) = amt[p]
          BY <1>4, <4>1 DEF RefundPhase, Legs
        <4> QED
          BY <1>2, <2>1, <3>1, <3>2, <4>2 DEF InRefund, Unpaid
      <3>3. CASE SameRow(ord, ord')
        BY <2>1, <3>1, <3>3 DEF SameRow
      <3>4. CASE ~SameRow(ord, ord') /\ ~Finished
        BY <1>1, <1>2, <2>1, <3>1, <3>4 DEF RowMoves, Moves, Refundable, Closable, NextAfterPaid, Unpaid
      <3> QED
        BY <3>2, <3>3, <3>4
    <2> QED
      BY <1>5, <1>6, <2>2 DEF RefundsAgree, InRefund, RefundPhase, Refundable, Unpaid
  <1> QED
    BY <1>7, <1>8

-----------------------------------------------------------------------------
(* The outbox, under every step.                                           *)

(* Quiet steps write no event. *)
LEMMA QuietEvents == ASSUME NEW p \in Proc, Quiet(p) PROVE UNCHANGED events
  BY DEF Quiet, CreateIntent, CommitOffer, CaptureFreeze, CommitFulfillment,
     CancelOffer, CancelLedger, CancelStock, CancelIntent, RefundChannel,
     RefundCredit, RefundReverse, CloseOffer, CloseCredit, CloseStock, PickTicket,
     RetryAfterPaid, RetryOfferRelease, RetryLedgerRelease, RetryOfferReverse,
     UpdateCompensation, ReconCompare, ReconCheck, ReconInsert, ReconCommit,
     Request, RecreateIntent, OnPaid, AdminRetryPaid, Cancel, Complete, Refund,
     Close, RetryCompensation, ClaimCompensations, ReconRead, Abandon

(* Emit counts one event and no other. *)
LEMMA EmitCounts ==
  ASSUME events \in [EventType -> Nat], NEW e \in EventType, Emit(e)
  PROVE  /\ events'[e] = events[e] + 1
         /\ \A f \in EventType \ {e} : events'[f] = events[f]
  BY DEF Emit

(* The account of events is kept, under every step. *)
LEMMA EventsStep ==
  ASSUME TypeOK, EventsAgree, RefundsAgree, NEW p \in Proc,
         Step(p) \/ Request(p) \/ Abandon(p)
  PROVE  EventsAgree'
  <1>. USE DEF EventType
  <1>1. /\ events \in [EventType -> Nat] /\ ord.refunded \in Nat
        /\ \A e \in EventType : events[e] \in Nat
    BY DEF TypeOK, Order
  <1>2. CASE SameRow(ord, ord') /\ UNCHANGED events
    BY <1>2 DEF EventsAgree, EventsMatchRow, SameRow
  <1>3. CASE Quiet(p) \/ UpdatePaymentIntent(p) \/ UpdateRedemption(p) \/ ReconRedeem(p)
    <2>1. UNCHANGED events
      BY <1>3, QuietEvents DEF UpdatePaymentIntent, UpdateRedemption, ReconRedeem
    <2>2. SameRow(ord, ord')
      BY <1>3, QuietRow, SameRowSteps DEF SameRow
    <2> QED
      BY <1>2, <2>1, <2>2
  <1>4. CASE PayCAS(p)
    <2>1. CASE Emit("paid") /\ ord.status = "PENDING_PAY" /\ ord'.status = "PAID"
               /\ ord'.refunded = ord.refunded
      BY <1>1, <2>1, EmitCounts DEF EventsAgree, EventsMatchRow, Unpaid
    <2> QED
      BY <1>2, <1>4, <2>1, PayEffect DEF SameRow
  <1>5. CASE CancelCAS(p)
    <2>1. CASE Emit("cancelled") /\ Moves({"PENDING_PAY"}, {"CANCELLED"})
      BY <1>1, <2>1, EmitCounts DEF EventsAgree, EventsMatchRow, Unpaid, Moves
    <2> QED
      BY <1>2, <1>5, <2>1, CancelEffect DEF SameRow
  <1>6. CASE Settle(p)
    <2>1. CASE /\ Moves({"PAID", "COMPENSATING"}, {NextAfterPaid(AutoComplete)})
               /\ Emit(IF AutoComplete THEN "completed" ELSE "fulfilled")
      <3>1. CASE AutoComplete
        BY <1>1, <2>1, <3>1, EmitCounts
           DEF EventsAgree, EventsMatchRow, Unpaid, Moves, NextAfterPaid
      <3>2. CASE ~AutoComplete
        BY <1>1, <2>1, <3>2, EmitCounts
           DEF EventsAgree, EventsMatchRow, Unpaid, Moves, NextAfterPaid
      <3> QED
        BY <3>1, <3>2
    <2> QED
      BY <1>2, <1>6, <2>1, SettleEffect DEF SameRow
  <1>7. CASE Park(p)
    <2>1. CASE Moves({"PAID"}, {"COMPENSATING"}) /\ UNCHANGED events
      BY <1>1, <2>1 DEF EventsAgree, EventsMatchRow, Unpaid, Moves
    <2> QED
      BY <1>2, <1>7, <2>1, ParkEffect DEF SameRow, Park
  <1>8. CASE CompleteCAS(p)
    <2>1. CASE Moves({"FULFILLING", "PAID"}, {"COMPLETED"}) /\ Emit("completed")
      BY <1>1, <2>1, EmitCounts DEF EventsAgree, EventsMatchRow, Unpaid, Moves
    <2> QED
      BY <1>2, <1>8, <2>1, CompleteEffect DEF SameRow
  <1>9. CASE CloseCAS(p)
    <2>1. CASE Moves(Closable, {"CLOSED"}) /\ Emit("closed")
      BY <1>1, <2>1, EmitCounts DEF EventsAgree, EventsMatchRow, Unpaid, Moves, Closable
    <2> QED
      BY <1>2, <1>9, <2>1, CloseEffect DEF SameRow
  <1>10. CASE RefundCAS(p)
    <2>1. UNCHANGED events
      BY <1>10 DEF RefundCAS
    <2>2. CASE Moves(Refundable, {"REFUNDING"})
      BY <1>1, <2>1, <2>2 DEF EventsAgree, EventsMatchRow, Unpaid, Moves, Refundable
    <2>3. snap[p].status \in Refundable
      BY <1>10 DEF RefundCAS, RefundsAgree
    <2>4. CASE Moves({snap[p].status}, {"REFUNDING"})
      BY <2>2, <2>3, <2>4 DEF Moves
    <2> QED
      BY <1>2, <1>10, <2>1, <2>4, RefundCASEffect DEF SameRow
  <1>11. CASE RefundFinish(p)
    <2>1. CASE /\ CAS(p, {"REFUNDING"}) /\ Emit("refunded")
               /\ ord'.status = IF IsFull(p) THEN "REFUNDED" ELSE "PARTIAL_REFUNDED"
               /\ ord'.refunded = ord.refunded + amt[p]
      <3>1. amt[p] \in Nat /\ amt[p] >= 1
        BY <1>11 DEF RefundFinish, RefundPhase, RefundsAgree, TypeOK, LocalsOK
      <3>2. ord.status = "REFUNDING" /\ ord'.status \in {"REFUNDED", "PARTIAL_REFUNDED"}
            /\ ord'.refunded > 0
        BY <1>1, <2>1, <3>1 DEF CAS
      <3> QED
        BY <1>1, <2>1, <3>2, EmitCounts DEF EventsAgree, EventsMatchRow, Unpaid
    <2> QED
      BY <1>2, <1>11, <2>1, RefundFinishEffect DEF SameRow
  <1> QED
    BY <1>3, <1>4, <1>5, <1>6, <1>7, <1>8, <1>9, <1>10, <1>11 DEF Step, Quiet

-----------------------------------------------------------------------------
(* The inductive invariant.                                                *)

(* The inductive invariant holds initially. *)
LEMMA InvInit == Init => LifecycleInv
  <1> SUFFICES ASSUME Init PROVE LifecycleInv
    OBVIOUS
  <1>1. TypeOK
    BY TypingInit
  <1>2. CopiesTrackRow
    BY NewOrderOK, TracksSelf DEF Init, CopiesTrackRow
  <1>3. \A q \in Proc : pc[q] \in {"idle", "intent_create"}
    BY DEF Init
  <1>4. PhasesAgree
    BY <1>3 DEF Init, PhasesAgree, PaidPhase, CancelPhase, FreeRow
  <1>5. OnlyWinnerActs
    BY DEF Init, OnlyWinnerActs, NewOrder
  <1>6. RefundsAgree /\ RefundIsExclusive
    BY <1>3 DEF Init, RefundsAgree, RefundIsExclusive, RefundPhase, NewOrder, returned, Unpaid
  <1>7. EventsAgree
    BY DEF Init, EventsAgree, EventsMatchRow, NewOrder, EventType, Unpaid
  <1> QED
    BY <1>1, <1>2, <1>4, <1>5, <1>6, <1>7 DEF LifecycleInv

(* A step of a goroutine keeps it: one lemma per conjunct. *)
LEMMA InvStep ==
  ASSUME LifecycleInv, NEW p \in Proc, Step(p) \/ Request(p) \/ Abandon(p)
  PROVE  LifecycleInv'
  <1>. USE DEF LifecycleInv
  <1>1. TypeOK'
    BY TypingNext DEF Next
  <1>2. RefundsAgree'
    BY <1>1, RefundsStep
  <1>3. CopiesTrackRow' /\ PhasesAgree' /\ RefundIsExclusive' /\ EventsAgree'
    BY <1>1, CopiesStep, PhasesStep, ExclusiveStep, EventsStep
  <1>4. OnlyWinnerActs'
    BY <1>2, WinnerStep
  <1> QED
    BY <1>1, <1>2, <1>3, <1>4

(* A step that leaves the row, the services and the tickets alone, and at  *)
(* most sends goroutines home, keeps the invariant.                        *)
LEMMA InvIdle ==
  ASSUME LifecycleInv, TypeOK',
         UNCHANGED <<ord, offer, freeze, credit, channel, tickets, events>>,
         \A q \in Proc : \/ pc'[q] = pc[q] /\ snap'[q] = snap[q] /\ amt'[q] = amt[q]
                         \/ pc'[q] = "idle" /\ snap'[q] = NewOrder
  PROVE  LifecycleInv'
  <1>. USE DEF LifecycleInv
  <1>1. CopiesTrackRow'
    BY DEF CopiesTrackRow, NewOrder
  <1>2. PhasesAgree'
    BY DEF PhasesAgree, PaidPhase, CancelPhase
  <1>3. OnlyWinnerActs' /\ EventsAgree'
    BY DEF OnlyWinnerActs, EventsAgree, EventsMatchRow
  <1>4. RefundIsExclusive'
    BY DEF RefundIsExclusive, RefundPhase
  <1>5. returned' = returned
    BY DEF returned
  <1>6. ASSUME NEW q \in Proc, pc'[q] \in RefundPhase \cup {"refund_cas"}
        PROVE  pc'[q] = pc[q] /\ snap'[q] = snap[q] /\ amt'[q] = amt[q] /\ Legs(q)' = Legs(q)
    BY <1>6 DEF RefundPhase, Legs, Split
  <1>7. RefundsAgree'
    BY <1>5, <1>6 DEF RefundsAgree, RefundPhase
  <1> QED
    BY <1>1, <1>2, <1>3, <1>4, <1>7

(* LifecycleInv is inductive; payments and restarts are InvIdle. *)
LEMMA InvNext == LifecycleInv /\ [Next]_vars => LifecycleInv'
  <1> SUFFICES ASSUME LifecycleInv, [Next]_vars PROVE LifecycleInv'
    OBVIOUS
  <1>1. TypeOK'
    BY TypingNext DEF LifecycleInv
  <1>2. CASE \E p \in Proc : Step(p) \/ Request(p) \/ Abandon(p)
    BY <1>2, InvStep
  <1>3. ASSUME NEW i \in Intent, BuyerPays(i) PROVE LifecycleInv'
    BY <1>1, <1>3, InvIdle DEF BuyerPays, local
  <1>4. ASSUME NEW s \in Site, Restart(s) PROVE LifecycleInv'
    <2>1. \A q \in Proc : \/ pc'[q] = pc[q] /\ snap'[q] = snap[q] /\ amt'[q] = amt[q]
                          \/ pc'[q] = "idle" /\ snap'[q] = NewOrder
      BY <1>4 DEF Restart
    <2> QED
      BY <1>1, <1>4, <2>1, InvIdle DEF Restart
  <1>5. CASE UNCHANGED vars
    BY <1>1, <1>5, InvIdle DEF vars, services, local
  <1> QED
    BY <1>2, <1>3, <1>4, <1>5 DEF Next

(* Copies, labels, refunds and outbox stay consistent with the row, for    *)
(* any number of goroutines, tickets, intents, failed calls and crashes,   *)
(* and any amounts: LifecycleInv is an inductive invariant of the sagas.   *)
THEOREM LifecycleInvariant == Spec => []LifecycleInv
  BY InvInit, InvNext, PTL DEF Spec

(* No compare-and-set of Transition acts on a stale copy: a copy that      *)
(* carries the row's version agrees with it on status and money.           *)
THEOREM CopiesAreCurrent == Spec => []SnapshotAgrees
  <1>1. LifecycleInv => SnapshotAgrees
    BY DEF LifecycleInv, CopiesTrackRow, Tracks, SnapshotAgrees
  <1> QED
    BY <1>1, LifecycleInvariant, PTL

(* Payment and cancellation race, and only the winner of the race touches  *)
(* the freeze and the coupon (cancel and onPaid).                          *)
THEOREM WinnerTakesAll == Spec => []OnlyWinnerActs
  <1>1. LifecycleInv => OnlyWinnerActs
    BY DEF LifecycleInv
  <1> QED
    BY <1>1, LifecycleInvariant, PTL

(* Refunds never pay back more than was paid, and the row never records    *)
(* more than was paid back, whatever fails or overlaps (Refund).           *)
THEOREM RefundsBounded == Spec => []RefundsWithinPaid
  <1>1. LifecycleInv => RefundsWithinPaid
    BY DEF LifecycleInv, RefundsAgree, RefundsWithinPaid, returned
  <1> QED
    BY <1>1, LifecycleInvariant, PTL

(* At most one Refund is between its two compare-and-sets. *)
THEOREM RefundsExclude == Spec => []RefundIsExclusive
  <1>1. LifecycleInv => RefundIsExclusive
    BY DEF LifecycleInv
  <1> QED
    BY <1>1, LifecycleInvariant, PTL

(* The outbox rows agree with the order row, and no status is announced    *)
(* twice (Transition writes both in one transaction).                      *)
THEOREM OutboxAgrees == Spec => []EventsMatchRow
  <1>1. LifecycleInv => EventsMatchRow
    BY DEF LifecycleInv, EventsAgree
  <1> QED
    BY <1>1, LifecycleInvariant, PTL

-----------------------------------------------------------------------------
(* Close: what it credits is the ledger's part of an order nobody refunded. *)

Whole == {"PENDING_PAY", "CANCELLED", "PAID", "COMPENSATING", "FULFILLING", "COMPLETED", "CLOSED"}

(* An order that no refund has touched has nothing refunded; Close works   *)
(* on a copy of such an order, and it moves the row after its credit.      *)
CloseAgrees ==
  /\ ord.status \in Whole => ord.refunded = 0
  /\ credit.close \in {0, LedgerPay}
  /\ ord.status = "CLOSED" => credit.close = LedgerPay
  /\ \A p \in Proc : pc[p] \in {"close_offer", "close_credit"} =>
       snap[p].paid = Payable /\ snap[p].refunded = 0
  /\ \A p \in Proc : pc[p] \in {"close_stock", "close_cas"} => credit.close = LedgerPay

(* The ledger's part of the whole amount is what the ledger paid. *)
LEMMA SplitWhole == splitRefund(LedgerPay, Payable, Payable).ledger = LedgerPay
  <1>1. CASE Payable = 0
    BY <1>1 DEF splitRefund
  <1>2. CASE Payable # 0
    <2>1. \A n \in Nat, d \in Nat \ {0} : (n * d) \div d = n
      OBVIOUS
    <2>2. (LedgerPay * Payable) \div Payable = LedgerPay
      BY <1>2, <2>1
    <2> QED
      BY <1>2, <2>2 DEF splitRefund
  <1> QED
    BY <1>1, <1>2

(* What CloseCredit does: nothing to the ledger, or the one credit of the  *)
(* close key.                                                              *)
LEMMA CloseCreditEffect ==
  ASSUME TypeOK, CloseAgrees, NEW p \in Proc, CloseCredit(p)
  PROVE  /\ credit'.close \in {credit.close, LedgerPay}
         /\ pc'[p] = "close_stock" => credit'.close = LedgerPay
  <1>1. RefundableAmount(snap[p]) = Payable
    BY DEF CloseCredit, CloseAgrees, RefundableAmount
  <1> DEFINE l == splitRefund(LedgerPay, Payable, RefundableAmount(snap[p])).ledger
  <1>2. l = LedgerPay
    BY <1>1, SplitWhole
  <1>3. \/ /\ credit' = [credit EXCEPT !.close = IF @ = 0 THEN l ELSE @]
        \/ UNCHANGED credit /\ Return(p)
    BY DEF CloseCredit
  <1> HIDE DEF l
  <1>4. CASE credit' = [credit EXCEPT !.close = IF @ = 0 THEN l ELSE @]
    BY <1>2, <1>4 DEF CloseAgrees, TypeOK, ServicesOK
  <1>5. CASE UNCHANGED credit /\ Return(p)
    <2>1. pc'[p] = "idle"
      BY <1>5, OthersWait DEF Return, TypeOK
    <2> QED
      BY <1>5, <2>1
  <1> QED
    BY <1>3, <1>4, <1>5

(* Nobody else writes the credit of the close key. *)
LEMMA CreditStep ==
  ASSUME TypeOK, NEW p \in Proc, Step(p) \/ Request(p) \/ Abandon(p), ~CloseCredit(p)
  PROVE  credit'.close = credit.close
  <1>1. CASE RefundCredit(p)
    <2>1. UNCHANGED credit \/ \E v : credit' = [credit EXCEPT !.refund = v]
      BY <1>1 DEF RefundCredit
    <2> QED
      BY <2>1 DEF TypeOK, ServicesOK
  <1>6. CASE Request(p)
    BY <1>6 DEF Request, RecreateIntent, OnPaid, AdminRetryPaid, Cancel, Complete, Refund,
       Close, RetryCompensation, ClaimCompensations, ReconRead, services
  <1>7. CASE \/ CreateIntent(p) \/ UpdatePaymentIntent(p) \/ PayCAS(p) \/ UpdateRedemption(p)
             \/ CommitOffer(p) \/ CaptureFreeze(p) \/ CommitFulfillment(p) \/ Settle(p) \/ Park(p)
             \/ CancelCAS(p) \/ CancelOffer(p) \/ CancelLedger(p) \/ CancelStock(p)
             \/ CancelIntent(p) \/ CompleteCAS(p) \/ RefundCAS(p) \/ RefundChannel(p)
             \/ RefundReverse(p) \/ RefundFinish(p)
    BY <1>7 DEF CreateIntent, UpdatePaymentIntent, PayCAS, UpdateRedemption, CommitOffer,
       CaptureFreeze, CommitFulfillment, Settle, Park, CancelCAS, CancelOffer, CancelLedger,
       CancelStock, CancelIntent, CompleteCAS, RefundCAS, RefundChannel, RefundReverse,
       RefundFinish, services
  <1>8. CASE \/ CloseOffer(p) \/ CloseStock(p) \/ CloseCAS(p) \/ PickTicket(p)
             \/ RetryAfterPaid(p) \/ RetryOfferRelease(p) \/ RetryLedgerRelease(p)
             \/ RetryOfferReverse(p) \/ UpdateCompensation(p) \/ ReconCompare(p) \/ ReconCheck(p)
             \/ ReconInsert(p) \/ ReconCommit(p) \/ ReconRedeem(p) \/ Abandon(p)
    BY <1>8 DEF CloseOffer, CloseStock, CloseCAS, PickTicket, RetryAfterPaid,
       RetryOfferRelease, RetryLedgerRelease, RetryOfferReverse, UpdateCompensation,
       ReconCompare, ReconCheck, ReconInsert, ReconCommit, ReconRedeem, Abandon, services
  <1> QED
    BY <1>1, <1>6, <1>7, <1>8 DEF Step

(* CloseCAS alone closes the order. *)
LEMMA OnlyCloseCloses ==
  ASSUME TypeOK, NEW p \in Proc, Step(p) \/ Request(p) \/ Abandon(p),
         ord'.status = "CLOSED", ord.status # "CLOSED"
  PROVE  CloseCAS(p)
  <1>1. CASE UNCHANGED ord \/ SameRow(ord, ord')
    BY <1>1 DEF SameRow
  <1>2. CASE Quiet(p) \/ UpdatePaymentIntent(p) \/ UpdateRedemption(p) \/ ReconRedeem(p)
    BY <1>1, <1>2, QuietRow, SameRowSteps
  <1>3. CASE PayCAS(p) \/ CancelCAS(p) \/ Settle(p) \/ Park(p) \/ CompleteCAS(p)
    BY <1>1, <1>3, PayEffect, CancelEffect, SettleEffect, ParkEffect, CompleteEffect
       DEF Moves, NextAfterPaid
  <1>4. CASE RefundCAS(p) \/ RefundFinish(p)
    BY <1>1, <1>4, RefundCASEffect, RefundFinishEffect DEF Moves
  <1> QED
    BY <1>2, <1>3, <1>4 DEF Step, Quiet

(* A step of a goroutine keeps it. *)
LEMMA CloseStep ==
  ASSUME LifecycleInv, CloseAgrees, NEW p \in Proc, Step(p) \/ Request(p) \/ Abandon(p)
  PROVE  CloseAgrees'
  <1>. USE DEF LifecycleInv
  <1>1. GoesTo(p) /\ RowMoves(p)
    BY LabelStep, RowStep
  <1>2. credit'.close = credit.close \/ (CloseCredit(p) /\ credit'.close = LedgerPay)
    BY CreditStep, CloseCreditEffect
  <1>3. credit.close = LedgerPay => credit'.close = LedgerPay
    BY <1>2
  <1>4. ord'.status \in Whole => ord'.refunded = 0
    BY <1>1 DEF RowMoves, SameRow, Moves, CAS, CloseAgrees, Whole, NextAfterPaid, Closable
  <1>5. ord'.status = "CLOSED" => credit'.close = LedgerPay
    BY <1>3, OnlyCloseCloses DEF CloseCAS, CloseAgrees
  <1>6. ASSUME NEW q \in Proc, pc'[q] \in {"close_offer", "close_credit"}
        PROVE  snap'[q].paid = Payable /\ snap'[q].refunded = 0
    <2>1. CASE q # p
      BY <1>1, <1>6, <2>1, LocalsArePrivate DEF GoesTo, CloseAgrees
    <2>2. CASE q = p /\ Close(p)
      <3>1. snap'[p] = ord /\ ord.status \in Closable
        BY <2>2 DEF Close, Begin, TypeOK, LocalsOK
      <3> QED
        BY <2>2, <3>1 DEF CloseAgrees, RefundsAgree, Closable, Whole, Unpaid
    <2>3. CASE q = p /\ CloseOffer(p) /\ pc'[p] = "close_credit"
      <3>1. ~Return(p)
        BY <2>3, OthersWait DEF Return, TypeOK
      <3>2. UNCHANGED snap /\ pc[p] = "close_offer"
        BY <2>3, <3>1 DEF CloseOffer, Continue, local
      <3> QED
        BY <2>3, <3>2 DEF CloseAgrees
    <2> QED
      BY <1>1, <1>6, <2>1, <2>2, <2>3 DEF GoesTo, ClosePhase
  <1>7. ASSUME NEW q \in Proc, pc'[q] \in {"close_stock", "close_cas"}
        PROVE  credit'.close = LedgerPay
    <2>1. CASE q # p
      BY <1>1, <1>3, <1>7, <2>1 DEF GoesTo, CloseAgrees
    <2>2. CASE q = p /\ CloseCredit(p) /\ pc'[p] = "close_stock"
      BY <2>2, CloseCreditEffect
    <2>3. CASE q = p /\ CloseStock(p)
      BY <1>3, <2>3 DEF CloseStock, CloseAgrees
    <2> QED
      BY <1>1, <1>7, <2>1, <2>2, <2>3 DEF GoesTo, ClosePhase
  <1> QED
    BY <1>2, <1>4, <1>5, <1>6, <1>7 DEF CloseAgrees

(* CloseAgrees is an invariant, with LifecycleInv. *)
LEMMA CloseInvariant == Spec => []CloseAgrees
  <1>1. Init => CloseAgrees
    BY DEF Init, CloseAgrees, NewOrder, Whole
  <1>2. LifecycleInv /\ CloseAgrees /\ [Next]_vars => CloseAgrees'
    <2> SUFFICES ASSUME LifecycleInv, CloseAgrees, [Next]_vars PROVE CloseAgrees'
      OBVIOUS
    <2>1. CASE \E p \in Proc : Step(p) \/ Request(p) \/ Abandon(p)
      BY <2>1, CloseStep
    <2>2. CASE UNCHANGED <<ord, credit>> /\ \A q \in Proc : \/ pc'[q] = pc[q] /\ snap'[q] = snap[q]
                                                          \/ pc'[q] = "idle"
      BY <2>2 DEF CloseAgrees
    <2>3. CASE \E i \in Intent : BuyerPays(i)
      BY <2>2, <2>3 DEF BuyerPays, local
    <2>4. CASE \E s \in Site : Restart(s)
      BY <2>2, <2>4 DEF Restart
    <2>5. CASE UNCHANGED vars
      BY <2>2, <2>5 DEF vars, services, local
    <2> QED
      BY <2>1, <2>3, <2>4, <2>5 DEF Next
  <1> QED
    BY <1>1, <1>2, LifecycleInvariant, PTL DEF Spec

(* ClosedIsEven: an order that close.go closed got the ledger's part back  *)
(* exactly once and nothing from refunds, however closings overlap with    *)
(* each other and with refunds, and wherever a call fails or a goroutine   *)
(* dies.                                                                   *)
THEOREM CloseIsEven == Spec => []ClosedIsEven
  <1>1. LifecycleInv /\ CloseAgrees => ClosedIsEven
    BY DEF LifecycleInv, RefundsAgree, CloseAgrees, ClosedIsEven, returned, Whole
  <1> QED
    BY <1>1, CloseInvariant, LifecycleInvariant, PTL

(* A scene that does not allow closing never credits the close key. *)
NeverClosed == ~AllowClose => /\ credit.close = 0
                              /\ \A p \in Proc : pc[p] \notin ClosePhase

(* All that goes back to a buyer, by refunds and by closings that lost the *)
(* row to one, exceeds what was paid by the ledger's part at most, and not *)
(* at all in a scene without closing.                                      *)
GivenBackBounded ==
  returned + credit.close <= ord.paid + (IF AllowClose THEN LedgerPay ELSE 0)

(* A step of a goroutine keeps NeverClosed. *)
LEMMA NeverClosedStep ==
  ASSUME LifecycleInv, NeverClosed, NEW p \in Proc, Step(p) \/ Request(p) \/ Abandon(p)
  PROVE  NeverClosed'
  <1> SUFFICES ASSUME ~AllowClose PROVE NeverClosed'
    BY DEF NeverClosed
  <1>1. TypeOK
    BY DEF LifecycleInv
  <1>2. GoesTo(p)
    BY <1>1, LabelStep
  <1>3. credit.close = 0 /\ \A q \in Proc : pc[q] \notin ClosePhase
    BY DEF NeverClosed
  <1>4. ~CloseOffer(p) /\ ~CloseCredit(p) /\ ~CloseStock(p) /\ ~Close(p)
    BY <1>3 DEF CloseOffer, CloseCredit, CloseStock, Close, ClosePhase
  <1>5. credit'.close = 0
    BY <1>1, <1>3, <1>4, CreditStep
  <1>6. \A q \in Proc : pc'[q] \notin ClosePhase
    BY <1>2, <1>3, <1>4 DEF GoesTo
  <1> QED
    BY <1>5, <1>6 DEF NeverClosed, ClosePhase

(* NeverClosed is an invariant, with LifecycleInv. *)
LEMMA NeverClosedInvariant == Spec => []NeverClosed
  <1>1. Init => NeverClosed
    <2> SUFFICES ASSUME Init PROVE NeverClosed
      OBVIOUS
    <2>1. \A q \in Proc : pc[q] \in {"idle", "intent_create"}
      BY DEF Init
    <2> QED
      BY <2>1 DEF Init, NeverClosed, ClosePhase
  <1>2. LifecycleInv /\ NeverClosed /\ [Next]_vars => NeverClosed'
    <2> SUFFICES ASSUME LifecycleInv, NeverClosed, [Next]_vars PROVE NeverClosed'
      OBVIOUS
    <2>1. CASE \E p \in Proc : Step(p) \/ Request(p) \/ Abandon(p)
      BY <2>1, NeverClosedStep
    <2>2. CASE UNCHANGED credit /\ \A q \in Proc : pc'[q] \in {pc[q], "idle"}
      BY <2>2 DEF NeverClosed, ClosePhase
    <2>3. CASE \E i \in Intent : BuyerPays(i)
      BY <2>2, <2>3 DEF BuyerPays
    <2>4. CASE \E s \in Site : Restart(s)
      BY <2>2, <2>4 DEF Restart
    <2>5. CASE UNCHANGED vars
      BY <2>2, <2>5 DEF vars, services
    <2> QED
      BY <2>1, <2>3, <2>4, <2>5 DEF Next
  <1> QED
    BY <1>1, <1>2, LifecycleInvariant, PTL DEF Spec

(* GivenBackBounded: close.go credits before it takes the row and never    *)
(* takes the credit back, yet its one idempotency key bounds what a buyer  *)
(* can get too much, for any number of closings, refunds, failures and     *)
(* crashes.                                                                *)
THEOREM ExcessIsBounded == Spec => []GivenBackBounded
  <1>1. LifecycleInv /\ CloseAgrees /\ NeverClosed => GivenBackBounded
    <2> SUFFICES ASSUME LifecycleInv, CloseAgrees, NeverClosed PROVE GivenBackBounded
      OBVIOUS
    <2>1. returned \in Nat /\ ord.paid \in Nat /\ returned <= ord.paid
      BY DEF LifecycleInv, RefundsAgree, TypeOK, ServicesOK, Order, returned
    <2>2. credit.close \in {0, LedgerPay} /\ (~AllowClose => credit.close = 0)
      BY DEF CloseAgrees, NeverClosed
    <2> QED
      BY <2>1, <2>2 DEF GivenBackBounded
  <1> QED
    BY <1>1, NeverClosedInvariant, CloseInvariant, LifecycleInvariant, PTL

-----------------------------------------------------------------------------
(* OrderLifecycle follows the table of statemachine.go and implements      *)
(* OrderPromise.                                                           *)

(* Steps that write the row leave the services alone. *)
LEMMA RowOrServices ==
  ASSUME NEW p \in Proc, Step(p) \/ Request(p) \/ Abandon(p)
  PROVE  UNCHANGED ord \/ UNCHANGED services
  <1>1. CASE Quiet(p)
    BY <1>1, QuietRow
  <1> QED
    BY <1>1 DEF Step, Quiet, UpdatePaymentIntent, PayCAS, UpdateRedemption, Settle, Park,
       CancelCAS, CompleteCAS, RefundCAS, RefundFinish, CloseCAS, ReconRedeem

(* No saga moves the row along an edge that is missing from the table of   *)
(* statemachine.go, although Transition of the Postgres repository does    *)
(* not consult it.                                                         *)
THEOREM TableIsFollowed == Spec => StatusFollowsTable
  <1>1. ASSUME LifecycleInv, [Next]_vars
        PROVE  [ord'.status # ord.status => CanTransition(ord.status, ord'.status)]_vars
    <2>1. ASSUME NEW p \in Proc, Step(p) \/ Request(p) \/ Abandon(p), ord'.status # ord.status
          PROVE  CanTransition(ord.status, ord'.status)
      <3>1. RowMoves(p)
        BY <1>1, <2>1, RowStep DEF LifecycleInv
      <3> QED
        BY <2>1, <3>1 DEF RowMoves, SameRow, Moves, CAS, NextAfterPaid, Closable, Refundable,
           CanTransition, transitions, Status
    <2>2. CASE UNCHANGED ord
      BY <2>2
    <2> QED
      BY <1>1, <2>1, <2>2 DEF Next, BuyerPays, Restart, vars
  <1> QED
    BY <1>1, LifecycleInvariant, PTL DEF Spec, StatusFollowsTable

-----------------------------------------------------------------------------
(* Refinement: every step of the sagas is a step of OrderPromise, or none. *)

(* The initial states map to initial states of OrderPromise. *)
LEMMA PromiseInit == Init => Promise!PInit
  BY DEF Init, Promise!PInit, NewOrder, returned

(* Close works on an order that was paid for. *)
ClosingIsPaid == \A p \in Proc : pc[p] \in ClosePhase => ord.status \notin Unpaid

(* ClosingIsPaid is an invariant: a paid order never becomes unpaid. *)
LEMMA ClosingInvariant == Spec => []ClosingIsPaid
  <1>1. Init => ClosingIsPaid
    <2> SUFFICES ASSUME Init PROVE ClosingIsPaid
      OBVIOUS
    <2>1. \A q \in Proc : pc[q] \in {"idle", "intent_create"}
      BY DEF Init
    <2> QED
      BY <2>1 DEF ClosingIsPaid, ClosePhase
  <1>2. LifecycleInv /\ ClosingIsPaid /\ [Next]_vars => ClosingIsPaid'
    <2> SUFFICES ASSUME LifecycleInv, ClosingIsPaid, [Next]_vars PROVE ClosingIsPaid'
      OBVIOUS
    <2>1. ASSUME NEW p \in Proc, Step(p) \/ Request(p) \/ Abandon(p) PROVE ClosingIsPaid'
      <3>1. GoesTo(p) /\ (ord.status \notin Unpaid => ord'.status \notin Unpaid)
        BY <2>1, LabelStep, SideIsKept DEF LifecycleInv
      <3>2. Close(p) => ord.status \notin Unpaid
        BY DEF Close, Closable, Unpaid
      <3>3. CloseOffer(p) \/ CloseCredit(p) \/ CloseStock(p) => pc[p] \in ClosePhase
        BY DEF CloseOffer, CloseCredit, CloseStock, ClosePhase
      <3>4. pc'[p] \in ClosePhase => ord'.status \notin Unpaid
        BY <3>1, <3>2, <3>3 DEF GoesTo, ClosingIsPaid
      <3> QED
        BY <3>1, <3>4 DEF GoesTo, ClosingIsPaid, Unpaid
    <2>2. CASE UNCHANGED ord /\ \A q \in Proc : pc'[q] \in {pc[q], "idle"}
      BY <2>2 DEF ClosingIsPaid, ClosePhase, Unpaid
    <2>3. CASE \E i \in Intent : BuyerPays(i)
      BY <2>2, <2>3 DEF BuyerPays
    <2>4. CASE \E s \in Site : Restart(s)
      BY <2>2, <2>4 DEF Restart
    <2>5. CASE UNCHANGED vars
      BY <2>2, <2>5 DEF vars
    <2> QED
      BY <2>1, <2>3, <2>4, <2>5 DEF Next
  <1> QED
    BY <1>1, <1>2, LifecycleInvariant, PTL DEF Spec

(* What the refinement rests on. *)
PromiseInv == LifecycleInv /\ CloseAgrees /\ NeverClosed /\ ClosingIsPaid

(* The credit of Close, and closing itself, are steps of OrderPromise. *)
LEMMA PromiseClosing ==
  ASSUME PromiseInv, PromiseInv', NEW p \in Proc
  PROVE  /\ CloseCredit(p) => Promise!PNext \/ UNCHANGED Promise!pvars
         /\ CloseCAS(p) /\ Moves(Closable, {"CLOSED"}) => Promise!PNext
  <1>. USE DEF PromiseInv, LifecycleInv
  <1>1. ASSUME CloseCredit(p) PROVE Promise!PNext \/ UNCHANGED Promise!pvars
    <2>1. pc[p] \in ClosePhase /\ UNCHANGED <<ord, freeze, returned>>
      <3>1. UNCHANGED credit \/ \E v : credit' = [credit EXCEPT !.close = v]
        BY <1>1 DEF CloseCredit
      <3>2. credit'.refund = credit.refund
        BY <3>1 DEF TypeOK, ServicesOK
      <3> QED
        BY <1>1, <3>2 DEF CloseCredit, ClosePhase, returned
    <2>2. AllowClose /\ ord.status \notin Unpaid
      BY <2>1 DEF NeverClosed, ClosingIsPaid
    <2>3. credit'.close \in {credit.close, LedgerPay} /\ credit.close \in {0, LedgerPay}
      BY <1>1, CloseCreditEffect DEF CloseAgrees
    <2>4. CASE credit'.close = credit.close
      BY <2>1, <2>4 DEF Promise!pvars
    <2>5. CASE credit.close = 0 /\ credit'.close = LedgerPay /\ LedgerPay # 0
      <3>1. ord.status # "CLOSED"
        BY <2>5 DEF CloseAgrees
      <3> QED
        BY <2>1, <2>2, <2>5, <3>1 DEF Unpaid, Promise!PNext, Promise!CreditClose
    <2> QED
      BY <1>1, <2>3, <2>4, <2>5
  <1>2. ASSUME CloseCAS(p), Moves(Closable, {"CLOSED"}) PROVE Promise!PNext
    <2>1. pc[p] = "close_cas" /\ UNCHANGED <<freeze, returned, credit>>
      BY <1>2 DEF CloseCAS, services, returned
    <2>2. AllowClose /\ credit.close = LedgerPay
      BY <2>1 DEF NeverClosed, ClosePhase, CloseAgrees
    <2>3. ord.status \in Closable /\ returned = 0
      BY <1>2 DEF Moves, Closable, Whole, CloseAgrees, RefundsAgree
    <2> QED
      BY <1>2, <2>1, <2>2, <2>3 DEF Moves, Closable, Promise!PNext, Promise!Close
  <1> QED
    BY <1>1, <1>2

(* A step of a goroutine maps to a step of OrderPromise, or to none. *)
LEMMA PromiseStep ==
  ASSUME PromiseInv, PromiseInv', NEW p \in Proc, Step(p) \/ Request(p) \/ Abandon(p)
  PROVE  Promise!PNext \/ UNCHANGED Promise!pvars
  <1>. USE DEF PromiseInv, LifecycleInv
  <1>1. RowMoves(p)
    BY RowStep
  <1>2. /\ ord.paid \in Nat /\ ord.refunded \in Nat /\ returned \in Nat /\ returned' \in Nat
    BY DEF TypeOK, ServicesOK, Order, returned
  <1>0. CASE CloseCredit(p)
    BY <1>0, PromiseClosing
  <1>6. ~CloseCredit(p) => credit'.close = credit.close
    BY CreditStep
  <1>3. CASE UNCHANGED ord /\ ~CloseCredit(p) /\ (RefundChannel(p) \/ RefundCredit(p))
    <2>1. UNCHANGED <<freeze, credit.close>>
      BY <1>3, <1>6 DEF RefundChannel, RefundCredit
    <2>2. pc[p] \in RefundPhase /\ returned' >= returned
      <3>1. Split(p).channel \in Nat /\ Split(p).ledger \in Nat
        BY SplitOK DEF TypeOK, LocalsOK, Split
      <3> QED
        BY <1>2, <1>3, <3>1, RefundChannelEffect, RefundCreditEffect DEF RefundPhase
    <2>3. ord.status = "REFUNDING" /\ returned' <= ord.paid
      BY <1>3, <2>2 DEF RefundsAgree
    <2> QED
      BY <1>2, <1>3, <2>1, <2>2, <2>3 DEF Promise!PNext, Promise!GiveBack, Promise!pvars
  <1>4. CASE UNCHANGED ord /\ ~CloseCredit(p) /\ ~RefundChannel(p) /\ ~RefundCredit(p)
    <2>1. UNCHANGED <<returned, credit.close>>
      BY <1>4, <1>6, MoneyStep DEF returned
    <2>2. CASE UNCHANGED freeze
      BY <1>4, <2>1, <2>2 DEF Promise!pvars
    <2>3. CASE LedgerCapture /\ pc[p] = "capture"
      <3>1. ord.status \notin {"PENDING_PAY", "CANCELLED"}
        BY <2>3 DEF PhasesAgree, PaidPhase, Unpaid
      <3> QED
        BY <1>4, <2>1, <2>2, <2>3, <3>1 DEF LedgerCapture, Promise!PNext, Promise!Capture
    <2>4. CASE LedgerRelease /\ pc[p] \in {"cancel_ledger", "do_ledger_release"}
      <3>1. ord.status = "CANCELLED"
        BY <2>4 DEF PhasesAgree, CancelPhase
      <3> QED
        BY <1>4, <2>1, <2>2, <2>4, <3>1 DEF LedgerRelease, Promise!PNext, Promise!Release
    <2> QED
      BY <2>2, <2>3, <2>4, FreezeStep
  <1>5. CASE UNCHANGED services
    <2>1. UNCHANGED <<freeze, returned, credit.close>>
      BY <1>5 DEF services, returned
    <2>2. CASE SameRow(ord, ord')
      BY <2>1, <2>2 DEF SameRow, Promise!pvars
    <2>3. CASE RefundCAS(p) /\ ~Return(p) /\ Moves(Refundable, {"REFUNDING"})
      <3>1. ord.refunded < ord.paid
        BY <1>2, <2>3, RefundStartEffect DEF TypeOK, LocalsOK
      <3> QED
        BY <2>1, <2>3, <3>1 DEF Moves, Refundable, Promise!PNext, Promise!BeginRefund,
           Promise!Refundable
    <2>4. CASE /\ RefundFinish(p) /\ CAS(p, {"REFUNDING"})
               /\ ord'.status = IF IsFull(p) THEN "REFUNDED" ELSE "PARTIAL_REFUNDED"
               /\ ord'.paid = ord.paid /\ ord'.refunded = ord.refunded + amt[p]
      <3>1. pc[p] = "refund_finish" /\ pc[p] \in RefundPhase /\ amt[p] \in Nat
        BY <2>4 DEF RefundFinish, RefundPhase, TypeOK, LocalsOK
      <3>2. ord.status = "REFUNDING" /\ amt[p] >= 1 /\ returned = ord.refunded + amt[p]
        BY <3>1 DEF RefundsAgree, Legs
      <3>3. IsFull(p) <=> returned = ord.paid
        <4>1. snap[p].refunded = ord.refunded /\ snap[p].paid = ord.paid
          BY <2>4 DEF CAS, CopiesTrackRow, Tracks
        <4> QED
          BY <3>2, <4>1 DEF IsFull
      <3> QED
        BY <1>2, <2>1, <2>4, <3>1, <3>2, <3>3 DEF Promise!PNext, Promise!EndRefund
    <2>5. CASE /\ ord.status = "PENDING_PAY" /\ ord'.status = "PAID"
               /\ ord'.paid = Payable /\ ord'.refunded = ord.refunded
      BY <2>1, <2>5 DEF Promise!PNext, Promise!Pay
    <2>6. CASE Moves({"PENDING_PAY"}, {"CANCELLED"})
      BY <2>1, <2>6 DEF Moves, Promise!PNext, Promise!Cancel
    <2>7. CASE \/ Moves({"PAID", "COMPENSATING"}, {NextAfterPaid(AutoComplete)})
               \/ Moves({"PAID"}, {"COMPENSATING"})
               \/ Moves({"FULFILLING", "PAID"}, {"COMPLETED"})
      BY <2>1, <2>7 DEF Moves, NextAfterPaid, Promise!PNext, Promise!Advance
    <2>8. CASE Moves(Closable, {"CLOSED"})
      BY <2>8, OnlyCloseCloses, PromiseClosing DEF Moves, Closable
    <2> QED
      BY <1>1, <2>2, <2>3, <2>4, <2>5, <2>6, <2>7, <2>8 DEF RowMoves
  <1> QED
    BY <1>0, <1>3, <1>4, <1>5, RowOrServices

(* The sagas implement OrderPromise: however goroutines, failures, crashes *)
(* and retries interleave, the buyer sees one of the promised histories.   *)
THEOREM PromiseIsKept == Spec => PromiseKept
  <1>1. ASSUME PromiseInv, PromiseInv', [Next]_vars
        PROVE  [Promise!PNext]_(Promise!pvars)
    <2>1. CASE \E p \in Proc : Step(p) \/ Request(p) \/ Abandon(p)
      BY <1>1, <2>1, PromiseStep
    <2>2. CASE UNCHANGED <<ord, freeze, credit, channel>>
      BY <2>2 DEF Promise!pvars, returned
    <2> QED
      BY <1>1, <2>1, <2>2 DEF Next, BuyerPays, Restart, vars, services
  <1>2. Spec => []PromiseInv
    BY LifecycleInvariant, CloseInvariant, NeverClosedInvariant, ClosingInvariant, PTL
       DEF PromiseInv
  <1> QED
    BY <1>1, <1>2, PromiseInit, PTL DEF Spec, PromiseKept, Promise!PSpec

-----------------------------------------------------------------------------
(* Parked orders: the ticket that brings them forward.                     *)

Open(t) == /\ tickets[t].kind = "after_paid"
           /\ tickets[t].st \in {"pending", "running", "failed"}

(* The statuses of an order afterPaid has not been through. *)
Awaiting     == {"PENDING_PAY", "PAID", "COMPENSATING"}
ReleasePhase == {"do_offer_release", "do_ledger_release", "do_offer_reverse"}

(* The ticket is there before the row is parked, and the goroutine that    *)
(* marks an after_paid ticket done has seen the order past COMPENSATING.   *)
TicketsAgree ==
  /\ ord.status = "COMPENSATING" => \E t \in Ticket : Open(t)
  /\ \A p \in Proc : pc[p] = "park" /\ ord.status \in {"PAID", "COMPENSATING"}
                       => \E t \in Ticket : Open(t)
  /\ \A p \in Proc, t \in Ticket : work[p].job = t /\ tickets[t].kind = "after_paid" =>
       /\ pc[p] \notin ReleasePhase
       /\ pc[p] = "resolve" => ord.status \notin Awaiting

(* InsertCompensation finds room in the table. *)
RoomLeft == Vacant # {}

(* How a step changes the compensation table. *)
TicketMoves(p) ==
  \/ UNCHANGED tickets
  \/ \E k, r : InsertCompensation(k, r)
  \/ UpdateCompensation(p)
  \/ ClaimCompensations(p)

(* Every step changes the table in one of these ways. *)
LEMMA TicketStep ==
  ASSUME NEW p \in Proc, Step(p) \/ Request(p) \/ Abandon(p)
  PROVE  TicketMoves(p)
  <1>. USE DEF TicketMoves
  <1>1. CASE CommitOffer(p) \/ CaptureFreeze(p) \/ Settle(p)
    BY <1>1 DEF CommitOffer, CaptureFreeze, Settle, AfterPaidFails
  <1>2. CASE CancelOffer(p) \/ CancelLedger(p) \/ RefundReverse(p) \/ ReconInsert(p)
    BY <1>2 DEF CancelOffer, CancelLedger, RefundReverse, ReconInsert
  <1>3. CASE Request(p) /\ ~ClaimCompensations(p)
    BY <1>3 DEF Request, RecreateIntent, OnPaid, AdminRetryPaid, Cancel, Complete, Refund,
       Close, RetryCompensation, ReconRead
  <1>4. CASE \/ CreateIntent(p) \/ UpdatePaymentIntent(p) \/ PayCAS(p) \/ UpdateRedemption(p)
             \/ CommitFulfillment(p) \/ Park(p) \/ CancelCAS(p) \/ CancelStock(p)
             \/ CancelIntent(p) \/ CompleteCAS(p) \/ RefundCAS(p) \/ RefundChannel(p)
             \/ RefundCredit(p) \/ RefundFinish(p)
    BY <1>4 DEF CreateIntent, UpdatePaymentIntent, PayCAS, UpdateRedemption,
       CommitFulfillment, Park, CancelCAS, CancelStock, CancelIntent, CompleteCAS, RefundCAS,
       RefundChannel, RefundCredit, RefundFinish
  <1>5. CASE \/ CloseOffer(p) \/ CloseCredit(p) \/ CloseStock(p) \/ CloseCAS(p) \/ PickTicket(p)
             \/ RetryAfterPaid(p) \/ RetryOfferRelease(p) \/ RetryLedgerRelease(p)
             \/ RetryOfferReverse(p) \/ ReconCompare(p) \/ ReconCheck(p) \/ ReconCommit(p)
             \/ ReconRedeem(p) \/ Abandon(p)
    BY <1>5 DEF CloseOffer, CloseCredit, CloseStock, CloseCAS, PickTicket, RetryAfterPaid,
       RetryOfferRelease, RetryLedgerRelease, RetryOfferReverse, ReconCompare, ReconCheck,
       ReconCommit, ReconRedeem, Abandon
  <1> QED
    BY <1>1, <1>2, <1>3, <1>4, <1>5 DEF Step

(* An insert takes a vacant row: a row that is open or that a goroutine    *)
(* works on stays as it is.                                                *)
LEMMA InsertSpares ==
  ASSUME tickets \in [Ticket -> Row], NEW k, NEW r, InsertCompensation(k, r), NEW t \in Ticket,
         Open(t) \/ \E q \in Proc : work[q].job = t
  PROVE  tickets'[t] = tickets[t]
  <1> DEFINE row == [kind |-> k, st |-> "pending", attempts |-> 0, ref |-> r]
             v == CHOOSE x \in Vacant : TRUE
  <1>1. CASE Vacant = {}
    BY <1>1 DEF InsertCompensation
  <1>2. CASE Vacant # {}
    <2>1. tickets' = [tickets EXCEPT ![v] = row]
      BY <1>2 DEF InsertCompensation
    <2>2. v \in Vacant
      BY <1>2
    <2>3. t \notin Vacant
      BY DEF Vacant, Open
    <2> HIDE DEF row, v
    <2> QED
      BY <2>1, <2>2, <2>3
  <1> QED
    BY <1>1, <1>2

(* An after_paid ticket that found room is open. *)
LEMMA InsertOpens ==
  ASSUME tickets \in [Ticket -> Row], NEW r, InsertCompensation("after_paid", r), RoomLeft
  PROVE  \E t \in Ticket : Open(t)'
  <1> DEFINE row == [kind |-> "after_paid", st |-> "pending", attempts |-> 0, ref |-> r]
             v == CHOOSE x \in Vacant : TRUE
  <1>1. tickets' = [tickets EXCEPT ![v] = row]
    BY DEF InsertCompensation, RoomLeft
  <1>2. v \in Vacant
    BY DEF RoomLeft
  <1>3. v \in Ticket
    BY <1>2 DEF Vacant
  <1>4. row.kind = "after_paid" /\ row.st = "pending"
    OBVIOUS
  <1> HIDE DEF row, v
  <1>5. tickets'[v] = row
    BY <1>1, <1>3
  <1> QED
    BY <1>3, <1>4, <1>5 DEF Open

(* UpdateCompensation writes the status of the goroutine's own ticket, and *)
(* it is done only where the goroutine resolves it.                        *)
LEMMA UpdateEffect ==
  ASSUME TypeOK, NEW p \in Proc, UpdateCompensation(p), NEW t \in Ticket
  PROVE  /\ tickets'[t].kind = tickets[t].kind
         /\ \/ tickets'[t].st = tickets[t].st
            \/ tickets'[t].st \in {"pending", "failed"}
            \/ pc[p] = "resolve" /\ work[p].job = t
  <1>1. PICK st : /\ tickets' = [tickets EXCEPT ![work[p].job].st = st]
                  /\ pc[p] = "resolve" \/ st \in {"pending", "failed"}
    BY DEF UpdateCompensation
  <1>2. tickets \in [Ticket -> Row]
    BY DEF TypeOK
  <1>3. tickets'[t].kind = tickets[t].kind
    BY <1>1, <1>2, SetKind
  <1>4. work[p].job # t => tickets'[t] = tickets[t]
    BY <1>1, <1>2
  <1>5. work[p].job = t => tickets'[t] = [tickets[t] EXCEPT !.st = st]
    BY <1>1, <1>2
  <1>6. tickets[t] \in Row
    BY <1>2
  <1>7. [tickets[t] EXCEPT !.st = st].st = st
    BY <1>6 DEF Row
  <1> QED
    BY <1>1, <1>3, <1>4, <1>5, <1>7

(* A claim turns pending rows into running ones of the same kind. *)
LEMMA ClaimEffect ==
  ASSUME TypeOK, NEW p \in Proc, ClaimCompensations(p), NEW t \in Ticket
  PROVE  /\ tickets'[t].kind = tickets[t].kind
         /\ tickets'[t].st \in {tickets[t].st, "running"}
  <1>1. tickets[t] \in Row
    BY DEF TypeOK
  <1>2. \/ tickets'[t] = tickets[t]
        \/ \E a : tickets'[t] = [tickets[t] EXCEPT !.st = "running", !.attempts = a]
    BY ZenonT(40) DEF ClaimCompensations
  <1>3. ASSUME NEW a, tickets'[t] = [tickets[t] EXCEPT !.st = "running", !.attempts = a]
        PROVE  tickets'[t].kind = tickets[t].kind /\ tickets'[t].st = "running"
    BY <1>1, <1>3 DEF Row
  <1> QED
    BY <1>2, <1>3

(* A ticket somebody works on keeps its kind, and an open one stays open   *)
(* unless the goroutine that works on it resolves it.                      *)
LEMMA TicketKept ==
  ASSUME TypeOK, NEW p \in Proc, Step(p) \/ Request(p) \/ Abandon(p), NEW t \in Ticket
  PROVE  /\ (\E q \in Proc : work[q].job = t) => tickets'[t].kind = tickets[t].kind
         /\ Open(t) => Open(t)' \/ (pc[p] = "resolve" /\ work[p].job = t)
  <1>1. TicketMoves(p)
    BY TicketStep
  <1>2. CASE tickets'[t] = tickets[t]
    BY <1>2 DEF Open
  <1>3. ASSUME NEW k, NEW r, InsertCompensation(k, r)
        PROVE  (Open(t) \/ \E q \in Proc : work[q].job = t) => tickets'[t] = tickets[t]
    BY <1>3, InsertSpares DEF TypeOK
  <1>4. CASE \E k, r : InsertCompensation(k, r)
    BY <1>2, <1>3, <1>4
  <1>5. CASE UpdateCompensation(p)
    BY <1>5, UpdateEffect DEF Open
  <1>6. CASE ClaimCompensations(p)
    BY <1>6, ClaimEffect DEF Open
  <1> QED
    BY <1>1, <1>2, <1>4, <1>5, <1>6 DEF TicketMoves

(* A goroutine's own ticket is touched by nobody else. *)
LEMMA WorkIsPrivate ==
  ASSUME TypeOK, NEW p \in Proc, Step(p) \/ Request(p) \/ Abandon(p), NEW q \in Proc, q # p
  PROVE  work'[q] = work[q]
  <1>. USE DEF TypeOK, LocalsOK
  <1>1. CASE Return(p) \/ UNCHANGED work
    BY <1>1 DEF Return
  <1>2. CASE AfterPaidFails(p) \/ (\E l : Continue(p, l))
    BY <1>1, <1>2 DEF AfterPaidFails, Continue, local
  <1>3. CASE CommitOffer(p) \/ CaptureFreeze(p) \/ Settle(p) \/ CommitFulfillment(p)
    BY <1>1, <1>2, <1>3 DEF CommitOffer, CaptureFreeze, Settle, CommitFulfillment
  <1>4. CASE PayCAS(p) \/ CancelCAS(p) \/ RefundCAS(p) \/ UpdateRedemption(p) \/ RetryAfterPaid(p)
    BY <1>1, <1>4 DEF PayCAS, CancelCAS, RefundCAS, UpdateRedemption, RetryAfterPaid
  <1>5. CASE \/ CreateIntent(p) \/ UpdatePaymentIntent(p) \/ Park(p) \/ CancelOffer(p)
             \/ CancelLedger(p) \/ CancelStock(p) \/ CancelIntent(p) \/ CompleteCAS(p)
    BY <1>1, <1>2, <1>5 DEF CreateIntent, UpdatePaymentIntent, Park, CancelOffer, CancelLedger,
       CancelStock, CancelIntent, CompleteCAS
  <1>6. CASE \/ RefundChannel(p) \/ RefundCredit(p) \/ RefundReverse(p) \/ RefundFinish(p)
             \/ CloseOffer(p) \/ CloseCredit(p) \/ CloseStock(p) \/ CloseCAS(p)
    BY <1>1, <1>2, <1>6 DEF RefundChannel, RefundCredit, RefundReverse, RefundFinish,
       CloseOffer, CloseCredit, CloseStock, CloseCAS
  <1>7. CASE \/ PickTicket(p) \/ RetryOfferRelease(p) \/ RetryLedgerRelease(p)
             \/ RetryOfferReverse(p) \/ ReconCompare(p) \/ ReconCheck(p) \/ ReconInsert(p)
             \/ ReconCommit(p) \/ ReconRedeem(p) \/ Abandon(p)
    BY <1>1, <1>2, <1>7 DEF PickTicket, RetryOfferRelease, RetryLedgerRelease,
       RetryOfferReverse, ReconCompare, ReconCheck, ReconInsert, ReconCommit, ReconRedeem, Abandon
  <1>8. CASE UpdateCompensation(p)
    BY <1>1, <1>8 DEF UpdateCompensation
  <1>9. CASE Request(p)
    BY <1>9 DEF Request, RecreateIntent, OnPaid, AdminRetryPaid, Cancel, Complete, Refund,
       Close, RetryCompensation, ClaimCompensations, ReconRead, Begin
  <1> QED
    BY <1>3, <1>4, <1>5, <1>6, <1>7, <1>8, <1>9 DEF Step

(* How a goroutine comes to park an order, to serve a ticket and to        *)
(* resolve one.                                                            *)
ServesTicket(p) ==
  /\ pc'[p] = "park" => InsertCompensation("after_paid", 0)
  /\ pc'[p] \in ReleasePhase =>
       /\ UNCHANGED tickets
       /\ \E t \in Ticket : work'[p].job = t /\ tickets[t].kind # "after_paid"
  /\ pc'[p] = "resolve" =>
       /\ UNCHANGED <<work, tickets>>
       /\ \/ pc[p] \in ReleasePhase
          \/ ord'.status \in {"FULFILLING", "COMPLETED"}

(* Where a goroutine is taken from by the tickets it serves. *)
LEMMA ServeStep ==
  ASSUME TypeOK, NEW p \in Proc, Step(p) \/ Request(p) \/ Abandon(p)
  PROVE  ServesTicket(p)
  <1>. USE DEF ServesTicket, TypeOK, ReleasePhase
  <1>0. ASSUME NEW l, Goto(p, l), l \notin {"park", "resolve"} \cup ReleasePhase
        PROVE  ServesTicket(p)
    BY <1>0, OthersWait
  <1>1. CASE Return(p)
    BY <1>1, <1>0 DEF Return
  <1>2. CASE CreateIntent(p) \/ UpdatePaymentIntent(p) \/ UpdateRedemption(p) \/ CommitFulfillment(p)
    BY <1>0, <1>1, <1>2 DEF CreateIntent, UpdatePaymentIntent, UpdateRedemption,
       CommitFulfillment, Continue, CaptureStep
  <1>3. CASE PayCAS(p) \/ CancelCAS(p)
    BY <1>0, <1>1, <1>3 DEF PayCAS, CancelCAS, CommitStep, CaptureStep, CancelOfferStep,
       CancelLedgerStep
  <1>4. CASE AfterPaidFails(p)
    BY <1>0, <1>1, <1>4, OthersWait DEF AfterPaidFails, Continue
  <1>5. CASE CommitOffer(p) \/ CaptureFreeze(p)
    BY <1>0, <1>4, <1>5 DEF CommitOffer, CaptureFreeze, Continue
  <1>6. CASE Settle(p)
    <2>1. CASE Continue(p, "resolve") /\ ~AfterPaidFails(p)
      <3>1. ord'.status = NextAfterPaid(AutoComplete)
        BY <1>6, <2>1, SettleEffect DEF Moves
      <3>2. pc'[p] = "resolve"
        BY <2>1, OthersWait DEF Continue
      <3>3. UNCHANGED <<work, tickets>>
        BY <1>6, <2>1 DEF Settle, Continue, local
      <3> QED
        BY <3>1, <3>2, <3>3 DEF NextAfterPaid
    <2> QED
      BY <1>1, <1>4, <1>6, <2>1, SettleEffect
  <1>7. CASE CancelOffer(p) \/ CancelLedger(p) \/ CancelStock(p) \/ CancelIntent(p)
    BY <1>0, <1>1, <1>7 DEF CancelOffer, CancelLedger, CancelStock, CancelIntent, Continue,
       CancelLedgerStep
  <1>8. CASE \/ Park(p) \/ CompleteCAS(p) \/ CloseCAS(p) \/ RefundFinish(p) \/ Abandon(p)
             \/ ReconInsert(p) \/ ReconRedeem(p)
    BY <1>1, <1>8 DEF Park, CompleteCAS, CloseCAS, RefundFinish, Abandon, ReconInsert, ReconRedeem
  <1>9. CASE RefundCAS(p) \/ RefundChannel(p) \/ RefundCredit(p) \/ RefundReverse(p)
    BY <1>0, <1>1, <1>9 DEF RefundCAS, RefundChannel, RefundCredit, RefundReverse, Continue
  <1>10. CASE CloseOffer(p) \/ CloseCredit(p) \/ CloseStock(p)
    BY <1>0, <1>1, <1>10 DEF CloseOffer, CloseCredit, CloseStock, Continue
  <1>11. ASSUME NEW t \in Ticket, NEW by, Goto(p, Serve(tickets[t].kind)), UNCHANGED tickets,
                work' = [work EXCEPT ![p] = Take(t, by)]
         PROVE  ServesTicket(p)
    <2>1. tickets[t].kind \in Kind
      BY DEF Row
    <2>2. work'[p].job = t
      BY <1>11 DEF LocalsOK, Take, NoWork
    <2>3. tickets[t].kind = "after_paid" => pc'[p] = "retry_read"
      BY <1>11, OthersWait DEF Serve
    <2>4. pc'[p] \notin {"park", "resolve"}
      BY <1>11, <2>1, OthersWait DEF Serve, Kind
    <2> QED
      BY <1>11, <2>2, <2>3, <2>4
  <1>12. CASE PickTicket(p)
    BY <1>1, <1>11, <1>12 DEF PickTicket
  <1>13. CASE RetryAfterPaid(p)
    <2>1. CASE ord.status \in {"FULFILLING", "COMPLETED"}
      BY <1>13, <2>1, OthersWait DEF RetryAfterPaid
    <2>2. CASE ord.status \notin {"FULFILLING", "COMPLETED"}
      BY <1>0, <1>13, <2>2 DEF RetryAfterPaid, CommitStep, CaptureStep
    <2> QED
      BY <2>1, <2>2
  <1>14. CASE RetryOfferRelease(p) \/ RetryLedgerRelease(p) \/ RetryOfferReverse(p)
    <2>1. /\ pc[p] \in ReleasePhase /\ UNCHANGED <<work, tickets>>
          /\ Goto(p, "resolve") \/ Goto(p, "unresolve")
      BY <1>14 DEF RetryOfferRelease, RetryLedgerRelease, RetryOfferReverse, Continue, local
    <2> QED
      BY <1>0, <2>1, OthersWait
  <1>15. CASE UpdateCompensation(p)
    BY <1>0, <1>1, <1>15 DEF UpdateCompensation
  <1>16. CASE ReconCompare(p) \/ ReconCheck(p) \/ ReconCommit(p)
    BY <1>0, <1>1, <1>16 DEF ReconCompare, ReconCheck, ReconCommit, Continue
  <1>17. CASE Request(p)
    <2>1. ASSUME NEW t \in Ticket, RetryCompensation(p, t) PROVE ServesTicket(p)
      BY <1>11, <2>1 DEF RetryCompensation
    <2>2. CASE \/ RecreateIntent(p) \/ OnPaid(p) \/ AdminRetryPaid(p) \/ Cancel(p) \/ Complete(p)
               \/ Refund(p) \/ Close(p) \/ ClaimCompensations(p) \/ ReconRead(p)
      BY <1>0, <2>2 DEF RecreateIntent, OnPaid, AdminRetryPaid, Cancel, Complete, Refund, Close,
         ClaimCompensations, ReconRead, Begin, CommitStep, CaptureStep
    <2> QED
      BY <1>17, <2>1, <2>2 DEF Request
  <1> QED
    BY <1>2, <1>3, <1>5, <1>6, <1>7, <1>8, <1>9, <1>10, <1>12, <1>13, <1>14, <1>15,
       <1>16, <1>17 DEF Step

(* Only Park parks an order. *)
LEMMA OnlyParkParks ==
  ASSUME LifecycleInv, NEW p \in Proc, Step(p) \/ Request(p) \/ Abandon(p),
         ord'.status = "COMPENSATING", ord.status # "COMPENSATING"
  PROVE  Park(p) /\ ord.status = "PAID"
  <1>. USE DEF LifecycleInv
  <1>1. CASE UNCHANGED ord \/ SameRow(ord, ord')
    BY <1>1 DEF SameRow
  <1>2. CASE Quiet(p) \/ UpdatePaymentIntent(p) \/ UpdateRedemption(p) \/ ReconRedeem(p)
    BY <1>1, <1>2, QuietRow, SameRowSteps
  <1>3. CASE PayCAS(p) \/ CancelCAS(p) \/ Settle(p) \/ CompleteCAS(p) \/ CloseCAS(p)
    BY <1>1, <1>3, PayEffect, CancelEffect, SettleEffect, CompleteEffect, CloseEffect
       DEF Moves, NextAfterPaid
  <1>4. CASE RefundCAS(p) \/ RefundFinish(p)
    BY <1>1, <1>4, RefundCASEffect, RefundFinishEffect DEF Moves
  <1>5. CASE Park(p)
    BY <1>1, <1>5, ParkEffect DEF Moves
  <1> QED
    BY <1>2, <1>3, <1>4, <1>5 DEF Step, Quiet

(* A step of a goroutine keeps TicketsAgree while the table has room. *)
LEMMA TicketsStep ==
  ASSUME LifecycleInv, TicketsAgree, RoomLeft,
         NEW p \in Proc, Step(p) \/ Request(p) \/ Abandon(p)
  PROVE  TicketsAgree'
  <1>0. TypeOK /\ RefundsAgree /\ PhasesAgree
    BY DEF LifecycleInv
  <1>1. GoesTo(p) /\ RowMoves(p) /\ ServesTicket(p)
    BY <1>0, LabelStep, RowStep, ServeStep
  <1>2. ord'.status \in Awaiting => ord.status \in Awaiting
    BY <1>1 DEF RowMoves, SameRow, Moves, Awaiting, NextAfterPaid, Closable, Refundable
  <1>3. ASSUME NEW t \in Ticket, Open(t), ord.status \in Awaiting
        PROVE  Open(t)'
    <2>1. Open(t)' \/ (pc[p] = "resolve" /\ work[p].job = t)
      BY <1>0, <1>3, TicketKept
    <2>2. tickets[t].kind = "after_paid"
      BY <1>3 DEF Open
    <2> QED
      BY <1>3, <2>1, <2>2 DEF TicketsAgree
  <1>4. ord'.status = "COMPENSATING" => \E t \in Ticket : Open(t)'
    <2>1. CASE ord.status = "COMPENSATING"
      BY <1>3, <2>1 DEF TicketsAgree, Awaiting
    <2>2. CASE ord'.status = "COMPENSATING" /\ ord.status # "COMPENSATING"
      <3>1. pc[p] = "park" /\ ord.status = "PAID"
        BY <2>2, OnlyParkParks DEF Park
      <3> QED
        BY <1>3, <3>1 DEF TicketsAgree, Awaiting
    <2> QED
      BY <2>1, <2>2
  <1>5. ASSUME NEW q \in Proc, pc'[q] = "park", ord'.status \in {"PAID", "COMPENSATING"}
        PROVE  \E t \in Ticket : Open(t)'
    <2>1. CASE q = p
      <3>1. InsertCompensation("after_paid", 0)
        BY <1>1, <1>5, <2>1 DEF ServesTicket
      <3> QED
        BY <1>0, <3>1, InsertOpens DEF TypeOK
    <2>2. CASE q # p
      <3>1. pc[q] = "park"
        BY <1>1, <1>5, <2>2 DEF GoesTo
      <3>2. ord.status \notin Unpaid
        BY <1>0, <3>1 DEF PhasesAgree, PaidPhase
      <3>3. ord.status \in {"PAID", "COMPENSATING"}
        BY <1>2, <1>5, <3>2 DEF Awaiting, Unpaid
      <3> QED
        BY <1>3, <3>1, <3>3 DEF TicketsAgree, Awaiting
    <2> QED
      BY <2>1, <2>2
  <1>6. ASSUME NEW q \in Proc, NEW t \in Ticket, work'[q].job = t,
               tickets'[t].kind = "after_paid"
        PROVE  /\ pc'[q] \notin ReleasePhase
               /\ pc'[q] = "resolve" => ord'.status \notin Awaiting
    <2>1. CASE q # p
      <3>1. work[q].job = t /\ pc'[q] = pc[q]
        BY <1>0, <1>1, <1>6, <2>1, WorkIsPrivate DEF GoesTo
      <3>2. tickets[t].kind = "after_paid"
        BY <1>0, <1>6, <3>1, TicketKept
      <3> QED
        BY <1>2, <3>1, <3>2 DEF TicketsAgree
    <2>2. CASE q = p
      <3>1. pc'[p] \notin ReleasePhase
        BY <1>1, <1>6, <2>2 DEF ServesTicket
      <3>2. CASE pc'[p] = "resolve"
        <4>1. UNCHANGED <<work, tickets>>
          BY <1>1, <3>2 DEF ServesTicket
        <4>2. pc[p] \notin ReleasePhase
          BY <1>6, <2>2, <4>1 DEF TicketsAgree
        <4>3. ord'.status \in {"FULFILLING", "COMPLETED"}
          BY <1>1, <3>2, <4>2 DEF ServesTicket
        <4> QED
          BY <2>2, <3>1, <4>3 DEF Awaiting
      <3> QED
        BY <2>2, <3>1, <3>2
    <2> QED
      BY <2>1, <2>2
  <1> QED
    BY <1>4, <1>5, <1>6 DEF TicketsAgree, Awaiting, ReleasePhase

(* ParkedHasTicket: an order payment_refund.go parks in COMPENSATING has   *)
(* an after_paid ticket the worker or the console can still serve, however *)
(* retries, reconciliation, refunds and completions interleave, as long as *)
(* InsertCompensation, whose error the callers drop, finds room.           *)
THEOREM ParkedIsServed == Spec /\ []RoomLeft => []ParkedHasTicket
  <1>1. Init => TicketsAgree
    <2> SUFFICES ASSUME Init PROVE TicketsAgree
      OBVIOUS
    <2>1. \A q \in Proc : pc[q] \in {"idle", "intent_create"}
      BY DEF Init
    <2> QED
      BY <2>1 DEF Init, TicketsAgree, NewOrder, ReleasePhase
  <1>2. LifecycleInv /\ TicketsAgree /\ RoomLeft /\ [Next]_vars => TicketsAgree'
    <2> SUFFICES ASSUME LifecycleInv, TicketsAgree, RoomLeft, [Next]_vars PROVE TicketsAgree'
      OBVIOUS
    <2>1. CASE \E p \in Proc : Step(p) \/ Request(p) \/ Abandon(p)
      BY <2>1, TicketsStep
    <2>2. CASE UNCHANGED <<ord, tickets>> /\ \A q \in Proc : \/ pc'[q] = pc[q] /\ work'[q] = work[q]
                                                           \/ pc'[q] = "idle"
      BY <2>2 DEF TicketsAgree, Open, ReleasePhase
    <2>3. CASE \E i \in Intent : BuyerPays(i)
      BY <2>2, <2>3 DEF BuyerPays, local
    <2>4. CASE \E s \in Site : Restart(s)
      BY <2>2, <2>4 DEF Restart
    <2>5. CASE UNCHANGED vars
      BY <2>2, <2>5 DEF vars, services, local
    <2> QED
      BY <2>1, <2>3, <2>4, <2>5 DEF Next
  <1>3. TicketsAgree => ParkedHasTicket
    BY DEF TicketsAgree, ParkedHasTicket, Open
  <1> QED
    BY <1>1, <1>2, <1>3, LifecycleInvariant, PTL DEF Spec
=============================================================================
