---------------------------- MODULE OrderDomain ----------------------------
(***************************************************************************)
(* The pure part of package internal/domain: the status graph, the scene   *)
(* flags and the money helpers of the refund and close sagas.  Everything  *)
(* here is a constant operator; the state that it is applied to belongs to *)
(* the modules that extend this one.                                       *)
(***************************************************************************)
EXTENDS Integers

(* domain/status.go: the ten statuses of an order row. *)
Status == {"PENDING_PAY", "PAID", "FULFILLING", "COMPLETED", "CANCELLED",
           "REFUNDING", "REFUNDED", "PARTIAL_REFUNDED", "CLOSED",
           "COMPENSATING"}

(* domain/statemachine.go: for every status the statuses it may move to.   *)
transitions ==
  [s \in Status |->
     CASE s = "PENDING_PAY"      -> {"PAID", "CANCELLED"}
       [] s = "PAID"             -> {"FULFILLING", "COMPLETED", "REFUNDING",
                                     "REFUNDED", "PARTIAL_REFUNDED",
                                     "COMPENSATING", "CLOSED"}
       [] s = "FULFILLING"       -> {"COMPLETED", "REFUNDING", "REFUNDED",
                                     "PARTIAL_REFUNDED", "CLOSED"}
       [] s = "COMPLETED"        -> {"REFUNDING", "REFUNDED",
                                     "PARTIAL_REFUNDED", "CLOSED"}
       [] s = "REFUNDING"        -> {"REFUNDED", "PARTIAL_REFUNDED",
                                     "COMPLETED", "FULFILLING"}
       [] s = "PARTIAL_REFUNDED" -> {"REFUNDING", "REFUNDED"}
       [] s = "COMPENSATING"     -> {"PAID", "COMPLETED", "FULFILLING"}
       [] OTHER                  -> {}]

CanTransition(from, to) == to \in transitions[from]

(* The status the saga leaves a paid order in once the resources it        *)
(* occupied are turned into the sale.                                      *)
NextAfterPaid(autoComplete) == IF autoComplete THEN "COMPLETED" ELSE "FULFILLING"

(* Mutant: an order whose afterPaid has not ended does not count. *)
paidLikeSettled == {"FULFILLING", "COMPLETED", "REFUNDING", "REFUNDED", "PARTIAL_REFUNDED"}

(* recon.go: the statuses of an order whose money was received.            *)
paidLike == {"PAID", "FULFILLING", "COMPLETED", "COMPENSATING", "REFUNDING",
             "REFUNDED", "PARTIAL_REFUNDED"}

(* payment_refund.go: the statuses Refund accepts, and those Close accepts. *)
Refundable == {"PAID", "FULFILLING", "COMPLETED", "PARTIAL_REFUNDED"}
Closable   == {"PAID", "FULFILLING", "COMPLETED"}

(* Mutant: what was refunded before is not subtracted. *)
RefundablePaid(o)   == o.paid
RefundableAmount(o) == o.paid - o.refunded

(* Mutant: the ratio is upside down. *)
splitInverted(ledgerPay, payable, amount) ==
  LET share == IF ledgerPay = 0 THEN 0 ELSE (payable * amount) \div ledgerPay
  IN  [ledger |-> share, channel |-> amount - share]

(* The ledger's share of a refund is rounded down and the channel pays the *)
(* rest, so the two shares always add up to the amount.                    *)
splitRefund(ledgerPay, payable, amount) ==
  LET share == IF payable = 0 THEN 0 ELSE (ledgerPay * amount) \div payable
  IN  IF share > amount THEN [ledger |-> amount, channel |-> 0]
                        ELSE [ledger |-> share, channel |-> amount - share]

(* The discount a refund takes back.  Zero asks OfferHub for all of it.    *)
reverseDiscount(discount, payable, amount, full) ==
  IF discount = 0 \/ full \/ payable = 0 THEN 0
                                         ELSE (discount * amount) \div payable
=============================================================================
