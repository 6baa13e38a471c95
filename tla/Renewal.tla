------------------------------- MODULE Renewal -------------------------------
(***************************************************************************)
(* Renewing the coupon reservations of unpaid orders: requests of buyer    *)
(* and console (RenewService.Renew) and the worker's job (RenewService.Tick, *)
(* a page of orders at a time) against payment, cancellation and the clock. *)
(* Time is counted in renewal windows of five minutes.  The clock moves    *)
(* between any two steps: how often the worker's loop, which has four      *)
(* other jobs, serves this one is left open.                               *)
(***************************************************************************)
EXTENDS Naturals, FiniteSets

CONSTANTS
  Order,       \* ids of orders with a reservation
  Caller,      \* goroutines that serve requests to renew
  Job,         \* the worker's goroutine
  TTL,         \* life of a reservation (15 minutes in OfferHub: 3)
  Window,      \* Tick renews what expires within it (5 minutes: 1)
  PayTimeout,  \* of the scene (15 or 30 minutes: 3 or 6)
  MaxRenew,    \* MaxReservationRenew
  PageSize,    \* orders Tick reads at a time (100)
  MaxFailed,   \* bound: after so many failed rows the worker reads no page
  MaxTime      \* bound: the clock stops here

ASSUME RenewAssumption ==
  /\ {TTL, Window, PayTimeout, MaxRenew, PageSize, MaxFailed, MaxTime} \subseteq Nat
  /\ IsFiniteSet(Order)
  /\ Job \notin Caller

VARIABLES
  clock,   \* now
  ord,     \* the order rows: status (NONE: not placed), renew_count, expire_at
  resv,    \* OfferHub's reservations: status, expires, keys it has seen
  pc,      \* where a goroutine stands in renewOne
  copy,    \* its copy of a row: <<order, renew_count>>
  page,    \* the copies of Tick's page that are still to come
  left,    \* history: pages that left out a row that was due
  failed   \* history: rows of a page that ended in a failed call or statement

vars == <<clock, ord, resv, pc, copy, page, left, failed>>

Proc == Caller \cup {Job}
NoRow == <<>>

Init ==
  /\ clock = 0
  /\ ord = [o \in Order |-> [status |-> "NONE", renewCount |-> 0, expireAt |-> 0]]
  /\ resv = [o \in Order |-> [status |-> "NONE", expires |-> 0, keys |-> {}]]
  /\ pc = [p \in Proc |-> "idle"] /\ copy = [p \in Proc |-> NoRow]
  /\ page = {}
  /\ left = [o \in Order |-> 0] /\ failed = 0

(* Checkout has reserved the coupon and inserts the row. *)
Place(o) ==
  /\ ord[o].status = "NONE"
  /\ ord' = [ord EXCEPT ![o].status = "PENDING_PAY", ![o].expireAt = clock + PayTimeout]
  /\ resv' = [resv EXCEPT ![o].status = "ACTIVE", ![o].expires = clock + TTL]
  /\ UNCHANGED <<clock, pc, copy, page, left, failed>>

-----------------------------------------------------------------------------
(* renewOne up to its call, for a copy that was unpaid when it was read: it *)
(* must not be at the limit.                                               *)
renewOne(p, row) ==
  IF row[2] < MaxRenew
  THEN pc' = [pc EXCEPT ![p] = "call"] /\ copy' = [copy EXCEPT ![p] = row]
  ELSE UNCHANGED <<pc, copy>>

Renew(p) ==
  /\ pc[p] = "idle"
  /\ \E o \in Order :
       /\ ord[o].status = "PENDING_PAY"
       /\ renewOne(p, <<o, ord[o].renewCount>>)
  /\ UNCHANGED <<clock, ord, resv, page, left, failed>>

(* Mutant: the rows that have no renewal left are read as well. *)
DueBlind ==
  {o \in Order : /\ ord[o].status = "PENDING_PAY"
                 /\ clock < ord[o].expireAt /\ ord[o].expireAt <= clock + Window}

Due ==
  {o \in Order : /\ ord[o].status = "PENDING_PAY"
                 /\ clock < ord[o].expireAt /\ ord[o].expireAt <= clock + Window
                 /\ ord[o].renewCount < MaxRenew}

(* The first PageSize rows by expire_at, in any order among equals. *)
ListPendingPayForRenew ==
  {P \in SUBSET Due :
     /\ Cardinality(P) <= PageSize
     /\ P = Due \/ Cardinality(P) = PageSize
     /\ \A q \in P, r \in Due \ P : ord[q].expireAt <= ord[r].expireAt}

Tick ==
  /\ pc[Job] = "idle" /\ page = {} /\ failed < MaxFailed
  /\ \E P \in ListPendingPayForRenew :
       /\ page' = {<<q, ord[q].renewCount>> : q \in P}
       /\ left' = [o \in Order |-> left[o] + (IF o \in Due \ P THEN 1 ELSE 0)]
  /\ UNCHANGED <<clock, ord, resv, pc, copy, failed>>

(* The loop of Tick: an error of one row does not keep it from the next. *)
NextRow ==
  /\ pc[Job] = "idle"
  /\ \E row \in page :
       /\ \A other \in page : ord[row[1]].expireAt <= ord[other[1]].expireAt
       /\ page' = page \ {row}
       /\ renewOne(Job, row)
  /\ UNCHANGED <<clock, ord, resv, left, failed>>

(* OfferHub's side of a renewal: only an active reservation is renewed,    *)
(* and a key it has seen is answered without renewing again.               *)
OfferRenew(o, key) ==
  /\ resv[o].status = "ACTIVE"
  /\ resv' = IF key \in resv[o].keys THEN resv
             ELSE [resv EXCEPT ![o].expires = clock + TTL, ![o].keys = @ \cup {key}]

(* renewOne returns, with an error or without. *)
Return(p) == pc' = [pc EXCEPT ![p] = "idle"] /\ copy' = [copy EXCEPT ![p] = NoRow]
Fail(p) == Return(p) /\ failed' = IF p = Job THEN failed + 1 ELSE failed

(* The call is made and answered, or it fails before or after OfferHub has *)
(* renewed; a reservation that is no longer active is refused.             *)
CallRenew(p) ==
  /\ pc[p] = "call"
  /\ \/ /\ OfferRenew(copy[p][1], copy[p][2] + 1)
        /\ pc' = [pc EXCEPT ![p] = "bump"]
        /\ UNCHANGED <<copy, failed>>
     \/ /\ OfferRenew(copy[p][1], copy[p][2] + 1) \/ UNCHANGED resv
        /\ Fail(p)
  /\ UNCHANGED <<clock, ord, page, left>>

(* Mutant: the update does not compare the count. *)
BumpBlind(p) ==
  /\ pc[p] = "bump"
  /\ ord' = [ord EXCEPT ![copy[p][1]].renewCount = @ + 1]
  /\ Return(p)
  /\ UNCHANGED <<clock, resv, page, left, failed>>

(* The count moves on if the row is still unpaid and has the copy's count, *)
(* unless the database fails.                                              *)
BumpRenew(p) ==
  LET o == copy[p][1]
  IN  /\ pc[p] = "bump"
      /\ \/ /\ ord' = IF ord[o].status = "PENDING_PAY" /\ ord[o].renewCount = copy[p][2]
                      THEN [ord EXCEPT ![o].renewCount = @ + 1]
                      ELSE ord
            /\ Return(p) /\ UNCHANGED failed
         \/ Fail(p) /\ UNCHANGED ord
      /\ UNCHANGED <<clock, resv, page, left>>

(* The worker's process ends and starts again: what it had in hand and the *)
(* rest of its page are lost.                                              *)
Restart ==
  /\ pc[Job] # "idle" \/ page # {}
  /\ page' = {} /\ Return(Job)
  /\ failed' = failed + Cardinality(page) + (IF pc[Job] = "idle" THEN 0 ELSE 1)
  /\ UNCHANGED <<clock, ord, resv, left>>

-----------------------------------------------------------------------------
(* Payment or cancellation wins the row, and settles the reservation later. *)
Decide(o) ==
  /\ ord[o].status = "PENDING_PAY"
  /\ \E s \in {"PAID", "CANCELLED"} : ord' = [ord EXCEPT ![o].status = s]
  /\ UNCHANGED <<clock, resv, pc, copy, page, left, failed>>

Settle(o) ==
  /\ resv[o].status = "ACTIVE"
  /\ \/ ord[o].status = "PAID" /\ resv' = [resv EXCEPT ![o].status = "COMMITTED"]
     \/ ord[o].status = "CANCELLED" /\ resv' = [resv EXCEPT ![o].status = "RELEASED"]
  /\ UNCHANGED <<clock, ord, pc, copy, page, left, failed>>

(* OfferHub drops a reservation that ran out, some time after it did. *)
Expire(o) ==
  /\ resv[o].status = "ACTIVE" /\ resv[o].expires < clock
  /\ resv' = [resv EXCEPT ![o].status = "EXPIRED"]
  /\ UNCHANGED <<clock, ord, pc, copy, page, left, failed>>

Advance ==
  /\ clock < MaxTime /\ clock' = clock + 1
  /\ UNCHANGED <<ord, resv, pc, copy, page, left, failed>>

Next ==
  \/ \E p \in Caller : Renew(p)
  \/ \E p \in Proc : CallRenew(p) \/ BumpRenew(p)
  \/ Tick \/ NextRow \/ Restart
  \/ \E o \in Order : Place(o) \/ Decide(o) \/ Settle(o) \/ Expire(o)
  \/ Advance

Spec == Init /\ [][Next]_vars

-----------------------------------------------------------------------------
(* Properties.                                                             *)

(* renew_count and the renewals OfferHub made agree although requests      *)
(* overlap, copies grow old in the worker's page and answers are lost:     *)
(* every counted renewal was made, at most one was made that is not        *)
(* counted, and the limit bounds both.                                     *)
RenewalsCounted ==
  \A o \in Order :
    /\ 1 .. ord[o].renewCount \subseteq resv[o].keys
    /\ resv[o].keys \subseteq 1 .. ord[o].renewCount + 1
    /\ resv[o].keys \subseteq 1 .. MaxRenew

(* The rows that come before this one in the order of a page. *)
Ahead(o) ==
  {q \in Order \ {o} : ord[q].status # "NONE" /\ ord[q].expireAt <= ord[o].expireAt}

(* Rows cannot hold the places of a page for ever and keep an order out of *)
(* it: each of those that run out no later has MaxRenew places to use up,  *)
(* whoever renews it in the meantime, and takes a further one only when    *)
(* its renewal failed.                                                     *)
LeftOutSeldom ==
  \A o \in Order :
    left[o] * PageSize <= MaxRenew * Cardinality(Ahead(o)) + failed

-----------------------------------------------------------------------------
(* What the documents say, and the code keeps only in scenes whose payment *)
(* timeout is no longer than the life of a reservation: see README.md.     *)

(* The buyer may pay until expire_at, and until then the discount the      *)
(* order was priced with is reserved.                                      *)
ReservationCoversPayment ==
  \A o \in Order : ord[o].status = "PENDING_PAY" /\ clock <= ord[o].expireAt =>
    resv[o].status = "ACTIVE" /\ clock <= resv[o].expires
=============================================================================
