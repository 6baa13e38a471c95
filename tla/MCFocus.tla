------------------------------ MODULE MCFocus ------------------------------
(* All requests together are too many for one state space.  At most two    *)
(* goroutines are at work at a time, one thing goes wrong, and a behaviour *)
(* is either about recovery, by tickets, console and reconciliation, or    *)
(* about giving back what was paid, with the tickets that leaves.          *)
EXTENDS MCLifecycle

Labels(kind) ==
  CASE kind = "refund" -> {"refund_cas", "refund_channel", "refund_credit",
                           "refund_reverse", "refund_finish"}
    [] kind = "close"  -> {"close_offer", "close_credit", "close_stock", "close_cas"}
    [] kind = "recon"  -> {"recon_get", "recon_check", "recon_insert",
                           "recon_commit", "recon_redeem"}

GivingBack ==
  \/ \E p \in Proc : pc[p] \in Labels("refund") \cup Labels("close")
  \/ ord.status \in {"REFUNDING", "REFUNDED", "CLOSED"} \/ ord.refunded > 0
  \/ offer.keys # {}

Repairing == \E p \in Proc : \/ work[p].by \in {"admin", "console"}
                             \/ pc[p] \in Labels("recon")

Recovering ==
  Repairing \/ faults.crashes > 0 \/ \E t \in Ticket : tickets[t].st # "free"

Focused ==
  /\ Cardinality({p \in Proc : pc[p] # "idle"})' <= 2
  /\ (faults.calls + faults.crashes)' <= 1
  /\ GivingBack' => ~Repairing'
  /\ GivingBack' /\ ~GivingBack => ~Recovering
=============================================================================
