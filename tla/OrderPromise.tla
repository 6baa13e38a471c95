---------------------------- MODULE OrderPromise ----------------------------
(***************************************************************************)
(* What an order promises its buyer, without goroutines, versions, tickets *)
(* or failures: the money of the order row, the money that refunds and     *)
(* closing give back and the ledger freeze move together with the status.  *)
(* It promises no more than the code keeps: refunds alone never give back  *)
(* more than was paid; a closing may have credited the ledger's part and   *)
(* then lose the row to a refund of the whole.  OrderLifecycle is shown to *)
(* implement this specification.                                           *)
(***************************************************************************)
EXTENDS OrderDomain

CONSTANTS
  Payable,     \* what the order costs
  LedgerPay,   \* the ledger's part of it
  HasFreeze,   \* the ledger's part is frozen at checkout
  AllowClose   \* the scene allows closing after payment

VARIABLES
  status,    \* of the order row
  paid,      \* paid_amount
  refunded,  \* refunded_amount
  returned,  \* what channel and ledger have paid back for refunds
  credited,  \* what the ledger has paid back for closings
  freeze     \* of the ledger

pvars == <<status, paid, refunded, returned, credited, freeze>>

PInit ==
  /\ status = "PENDING_PAY"
  /\ paid = 0 /\ refunded = 0 /\ returned = 0 /\ credited = 0
  /\ freeze = IF HasFreeze THEN "FROZEN" ELSE "NONE"

(* Only an order nobody cancelled is paid, and only once, in full. *)
Pay ==
  /\ status = "PENDING_PAY" /\ status' = "PAID"
  /\ paid' = Payable
  /\ UNCHANGED <<refunded, returned, credited, freeze>>

Cancel ==
  /\ status = "PENDING_PAY" /\ status' = "CANCELLED"
  /\ UNCHANGED <<paid, refunded, returned, credited, freeze>>

(* The freeze goes to the merchant once the order is paid for, and back to *)
(* the buyer only when the order was cancelled.                            *)
Capture ==
  /\ status \notin {"PENDING_PAY", "CANCELLED"}
  /\ freeze = "FROZEN" /\ freeze' = "CAPTURED"
  /\ UNCHANGED <<status, paid, refunded, returned, credited>>

Release ==
  /\ status = "CANCELLED"
  /\ freeze = "FROZEN" /\ freeze' = "RELEASED"
  /\ UNCHANGED <<status, paid, refunded, returned, credited>>

(* The sale moves on or is parked; no money moves. *)
Advance ==
  /\ \/ status = "PAID" /\ status' \in {"COMPENSATING", "FULFILLING", "COMPLETED"}
     \/ status = "COMPENSATING" /\ status' \in {"FULFILLING", "COMPLETED"}
     \/ status = "FULFILLING" /\ status' = "COMPLETED"
  /\ UNCHANGED <<paid, refunded, returned, credited, freeze>>

(* A closing credits the ledger's part, once however often it is tried,    *)
(* and before it knows whether it gets the row: the order may be refunded  *)
(* in the meantime, or stay as it is.  With what refunds gave back it is   *)
(* then LedgerPay at most above what was paid.                             *)
CreditClose ==
  /\ AllowClose
  /\ status \notin {"PENDING_PAY", "CANCELLED", "CLOSED"}
  /\ credited = 0 /\ credited' = LedgerPay
  /\ UNCHANGED <<status, paid, refunded, returned, freeze>>

(* An order is closed when its ledger part is credited; it has never been  *)
(* refunded, and never will be.                                            *)
Close ==
  /\ AllowClose /\ status \in {"PAID", "FULFILLING", "COMPLETED"}
  /\ credited = LedgerPay /\ returned = 0
  /\ status' = "CLOSED"
  /\ UNCHANGED <<paid, refunded, returned, credited, freeze>>

BeginRefund ==
  /\ status \in Refundable /\ refunded < paid
  /\ status' = "REFUNDING"
  /\ UNCHANGED <<paid, refunded, returned, credited, freeze>>

(* A refund gives money back while it has the row, and never beyond what   *)
(* was paid.                                                               *)
GiveBack ==
  /\ status = "REFUNDING"
  /\ returned' \in returned + 1 .. paid
  /\ UNCHANGED <<status, paid, refunded, credited, freeze>>

(* The row then records exactly what refunds gave back. *)
EndRefund ==
  /\ status = "REFUNDING" /\ refunded < returned
  /\ refunded' = returned
  /\ status' = IF returned = paid THEN "REFUNDED" ELSE "PARTIAL_REFUNDED"
  /\ UNCHANGED <<paid, returned, credited, freeze>>

PNext ==
  \/ Pay \/ Cancel \/ Capture \/ Release \/ Advance
  \/ CreditClose \/ Close
  \/ BeginRefund \/ GiveBack \/ EndRefund

PSpec == PInit /\ [][PNext]_pvars
=============================================================================
