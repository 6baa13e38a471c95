------------------------------- MODULE Sweeps -------------------------------
(***************************************************************************)
(* The worker's jobs over a table of many orders.  Each tick reads a page  *)
(* of limited size and handles its rows one by one: the timeout job takes  *)
(* the unpaid orders that expired first, reconciliation the rows updated   *)
(* last, compensation the oldest tickets.  One select loop runs them, so   *)
(* one job is at work at a time; payments go on in the API meanwhile.      *)
(* Orders are numbered by their expire_at, and all of them hold a coupon.  *)
(***************************************************************************)
EXTENDS Integers, Sequences, FiniteSets, FiniteSetsExt, SequencesExt

CONSTANTS
  NumOrders,    \* orders are 1 .. NumOrders
  ExpireLimit,  \* rows per tick of the timeout job (200 in the code)
  ReconLimit,   \* rows per reconciliation (200)
  ClaimLimit,   \* tickets per tick of the compensation job (50)
  MaxFaults     \* bound: calls that fail and binaries that die; below the
                \* twenty attempts after which a ticket is given up

ASSUME SweepAssumption ==
  /\ {NumOrders, ExpireLimit, ReconLimit, ClaimLimit} \subseteq Nat \ {0}
  /\ MaxFaults \in 0 .. 19

VARIABLES
  status,   \* status[o] of the row, "none" before checkout
  hold,     \* hold[o]: OfferHub's reservation, "ACTIVE" or "ENDED"
  recent,   \* the rows by updated_at, the latest first
  tickets,  \* open tickets in the order of their ids: [order, state]
  job,      \* the job at work, or "idle"
  batch,    \* what it has still to handle: copies [order, status]
  now,      \* the clock, in steps of expire_at
  faults    \* faults so far

vars == <<status, hold, recent, tickets, job, batch, now, faults>>

Order == 1 .. NumOrders

Init ==
  /\ status = [o \in Order |-> "none"]
  /\ hold = [o \in Order |-> "ENDED"]
  /\ recent = << >> /\ tickets = << >>
  /\ job = "idle" /\ batch = << >>
  /\ now = 1 /\ faults = 0

-----------------------------------------------------------------------------
(* updated_at of o becomes the latest. *)
Touch(o) == recent' = <<o>> \o SelectSeq(recent, LAMBDA p : p # o)

HasOpenCompensation(o) == \E i \in DOMAIN tickets : tickets[i].order = o

InsertCompensation(o) == tickets' = Append(tickets, [order |-> o, state |-> "pending"])

Fault == faults < MaxFaults /\ faults' = faults + 1

Checkout(o) ==
  /\ status[o] = "none" /\ now <= o
  /\ status' = [status EXCEPT ![o] = "PENDING_PAY"]
  /\ hold' = [hold EXCEPT ![o] = "ACTIVE"]
  /\ Touch(o)
  /\ UNCHANGED <<tickets, job, batch, now, faults>>

(* The row moves to st, and then the coupon is settled; or its call fails  *)
(* and a ticket is written; or the ticket is lost too: the error of its    *)
(* insert is ignored, and the binary may die before it.                    *)
Finish(o, st) ==
  /\ status[o] = "PENDING_PAY"
  /\ status' = [status EXCEPT ![o] = st]
  /\ Touch(o)
  /\ \/ hold' = [hold EXCEPT ![o] = "ENDED"] /\ UNCHANGED <<tickets, faults>>
     \/ Fault /\ InsertCompensation(o) /\ UNCHANGED hold
     \/ Fault /\ UNCHANGED <<hold, tickets>>

(* The payment callback, in the API. *)
OnPaid(o) == Finish(o, "PAID") /\ UNCHANGED <<job, batch, now>>

Advance == /\ now <= NumOrders /\ now' = now + 1
           /\ UNCHANGED <<status, hold, recent, tickets, job, batch, faults>>

-----------------------------------------------------------------------------
(* Ticks: what each job reads.                                             *)

Page(rows, limit) ==
  [i \in 1 .. Min({limit, Len(rows)}) |-> [order |-> rows[i], status |-> status[rows[i]]]]

ByExpiry(set) == SetToSortSeq(set, LAMBDA o, p : o < p)

(* Mutant: the page is cut from all the rows, and the paid and cancelled   *)
(* ones are left out afterwards.                                           *)
ListExpiredThenFilter ==
  SelectSeq(Page(ByExpiry({o \in Order : status[o] # "none" /\ o < now}), ExpireLimit),
            LAMBDA c : c.status = "PENDING_PAY")

ListExpiredPending ==
  Page(ByExpiry({o \in Order : status[o] = "PENDING_PAY" /\ o < now}), ExpireLimit)

(* Mutant: rows that have ended are not read. *)
ListUnfinished ==
  Page(SelectSeq(recent, LAMBDA o : status[o] # "CANCELLED"), ReconLimit)

ListForReconcile == Page(recent, ReconLimit)

Pending == SelectSeq(tickets, LAMBDA t : t.state = "pending")

(* The oldest pending tickets become running, and are the batch. *)
ClaimCompensations ==
  LET claimed == SubSeq(Pending, 1, Min({ClaimLimit, Len(Pending)}))
  IN  /\ tickets' = [i \in DOMAIN tickets |->
           IF \E k \in DOMAIN claimed : claimed[k].order = tickets[i].order
           THEN [tickets[i] EXCEPT !.state = "running"] ELSE tickets[i]]
      /\ batch' = [i \in DOMAIN claimed |->
           [order |-> claimed[i].order, status |-> status[claimed[i].order]]]

Tick(j) ==
  /\ job = "idle" /\ job' = j
  /\ CASE j = "timeout"    -> batch' = ListExpiredPending /\ UNCHANGED tickets
       [] j = "recon"      -> batch' = ListForReconcile /\ UNCHANGED tickets
       [] j = "compensate" -> ClaimCompensations
  /\ UNCHANGED <<status, hold, recent, now, faults>>

-----------------------------------------------------------------------------
(* The rows of a batch, one by one.                                        *)

Done == batch # << >> /\ batch' = Tail(batch) /\ UNCHANGED <<job, now>>

TickEnds ==
  /\ job # "idle" /\ batch = << >> /\ job' = "idle"
  /\ UNCHANGED <<status, hold, recent, tickets, batch, now, faults>>

(* CancelExpired: the compare-and-set, then the release.  A row that is    *)
(* paid by now, or an error of the database, is passed over.               *)
CancelExpired ==
  /\ job = "timeout" /\ Done
  /\ LET o == Head(batch).order
     IN  \/ Finish(o, "CANCELLED")
         \/ status[o] # "PENDING_PAY" /\ UNCHANGED <<status, hold, recent, tickets, faults>>
         \/ Fault /\ UNCHANGED <<status, hold, recent, tickets>>

(* checkOffer on the copy; the reservation is looked up now, which may     *)
(* fail and is then only reported.                                         *)
CheckOffer ==
  /\ job = "recon" /\ Done
  /\ LET c == Head(batch)
     IN  \/ /\ IF /\ c.status \in {"PAID", "CANCELLED"} /\ hold[c.order] = "ACTIVE"
                  /\ ~HasOpenCompensation(c.order)
               THEN InsertCompensation(c.order)
               ELSE UNCHANGED tickets
            /\ UNCHANGED <<status, hold, recent, faults>>
         \/ Fault /\ UNCHANGED <<status, hold, recent, tickets>>

(* handle and UpdateCompensation: after_paid settles a paid order and      *)
(* writes its row, offer_release ends the reservation of a cancelled one;  *)
(* a failure leaves the ticket for another tick.  (OrderLifecycle has the  *)
(* order that is completed meanwhile, which after_paid passes over.)       *)
Handle ==
  /\ job = "compensate" /\ Done
  /\ LET o == Head(batch).order
     IN  \/ /\ hold' = [hold EXCEPT ![o] = "ENDED"]
            /\ tickets' = SelectSeq(tickets, LAMBDA t : t.order # o)
            /\ IF status[o] = "PAID" THEN Touch(o) ELSE UNCHANGED recent
            /\ UNCHANGED <<status, faults>>
         \/ /\ Fault
            /\ tickets' = [i \in DOMAIN tickets |->
                 IF tickets[i].order = o THEN [tickets[i] EXCEPT !.state = "pending"]
                 ELSE tickets[i]]
            /\ UNCHANGED <<status, hold, recent>>

(* The worker dies and starts again: tickets it had claimed stay running. *)
Restart ==
  /\ job # "idle" /\ Fault
  /\ job' = "idle" /\ batch' = << >>
  /\ UNCHANGED <<status, hold, recent, tickets, now>>

Job == {"timeout", "recon", "compensate"}

Work == CancelExpired \/ CheckOffer \/ Handle \/ TickEnds

Next ==
  \/ \E o \in Order : Checkout(o) \/ OnPaid(o)
  \/ Advance
  \/ \E j \in Job : Tick(j)
  \/ Work
  \/ Restart

Spec == Init /\ [][Next]_vars

(* The loop goes on, and select does not pass over one ticker for ever. *)
FairSpec == Spec /\ WF_vars(Work) /\ \A j \in Job : SF_vars(Tick(j))

-----------------------------------------------------------------------------
(* Properties.                                                             *)

(* Every order left unpaid beyond its time comes up in some page and ends, *)
(* however many others expired with it, although calls fail and the worker *)
(* dies (TimeoutWorker.Tick).                                              *)
ExpiredEnds ==
  \A o \in Order :
    (status[o] = "PENDING_PAY" /\ o < now) ~> status[o] # "PENDING_PAY"

(* Reconciliation catches every paid or cancelled order whose reservation  *)
(* was left ACTIVE: a ticket is open for it, or it is settled, in the end. *)
BrokenIsFiled ==
  \A o \in Order :
    (status[o] \in {"PAID", "CANCELLED"} /\ hold[o] = "ACTIVE")
      ~> (hold[o] = "ENDED" \/ HasOpenCompensation(o))
=============================================================================
