----------------------------- MODULE Repository -----------------------------
(***************************************************************************)
(* The two implementations of port.OrderRepository side by side: Postgres, *)
(* which production runs on, and the memory repository, which the tests of *)
(* the sagas and local runs use.  Every command the sagas issue is given   *)
(* to both.  What the tests show on one carries over to the other as far   *)
(* as they answer alike.                                                   *)
(***************************************************************************)
EXTENDS OrderDomain, Sequences, FiniteSets, FiniteSetsExt

CONSTANTS
  Order,        \* order ids, fresh for every checkout
  Client,       \* client_order_ids of one buyer
  Key,          \* idempotency keys of one buyer
  Paid,         \* what an order costs
  MaxAttempts,  \* maxCompensationAttempts (20 in the code)
  MaxRenew,     \* bound: renewals of an order (3 in the code)
  MaxVersion,   \* bound: transitions of an order
  MaxTickets,   \* bound: tickets
  MaxTime       \* bound: the clock, and how far a retry is put off

ASSUME RepositoryAssumption ==
  {Paid, MaxAttempts, MaxRenew, MaxVersion, MaxTickets, MaxTime} \subseteq Nat

VARIABLES
  pg,       \* Postgres: rows by order, idempotency records by key, tickets
  mem,      \* the memory repository: the same, and clientIx
  claimed,  \* ids of tickets the worker's tick has still to update, in order
  now       \* the clock

vars == <<pg, mem, claimed, now>>

NewRow(c) ==
  [client |-> c, status |-> "PENDING_PAY", version |-> 1, paid |-> 0, refunded |-> 0,
   redeemed |-> FALSE, intent |-> FALSE, renewCount |-> 0, times |-> {}]

NewTicket == [status |-> "pending", attempts |-> 0, next |-> 0]

Init ==
  /\ pg = [rows |-> << >>, idem |-> << >>, tickets |-> << >>]
  /\ mem = [rows |-> << >>, idem |-> << >>, tickets |-> << >>, clientIx |-> << >>]
  /\ claimed = {} /\ now = 0

Put(f, k, v) == [x \in DOMAIN f \cup {k} |-> IF x = k THEN v ELSE f[x]]

-----------------------------------------------------------------------------
(* Checkout's transaction.  Postgres finds a conflict when the row breaks  *)
(* a unique index, and rolls back; memory looks before it writes.          *)
InsertAnswerPG(o, c, k) ==
  IF o \in DOMAIN pg.rows \/ (\E p \in DOMAIN pg.rows : pg.rows[p].client = c)
  THEN "ErrClientOrderConflict"
  ELSE IF k \in DOMAIN pg.idem THEN "ErrIdempotencyConflict" ELSE "ok"

InsertAnswerMem(o, c, k) ==
  IF c \in DOMAIN mem.clientIx THEN "ErrClientOrderConflict"
  ELSE IF k \in DOMAIN mem.idem THEN "ErrIdempotencyConflict" ELSE "ok"

InsertPG(o, c, k) ==
  IF InsertAnswerPG(o, c, k) # "ok" THEN pg
  ELSE [pg EXCEPT !.rows = Put(@, o, NewRow(c)),
                  !.idem = Put(@, k, [order |-> o, intent |-> FALSE])]

InsertMem(o, c, k) ==
  IF InsertAnswerMem(o, c, k) # "ok" THEN mem
  ELSE [mem EXCEPT !.rows = Put(@, o, NewRow(c)),
                   !.idem = Put(@, k, [order |-> o, intent |-> FALSE]),
                   !.clientIx = Put(@, c, o)]

Fresh(o) == o \notin DOMAIN pg.rows

InsertCheckout(o, c, k) ==
  /\ Fresh(o)
  /\ pg' = InsertPG(o, c, k) /\ mem' = InsertMem(o, c, k)
  /\ UNCHANGED <<claimed, now>>

(* FindByClientOrderID: by the index of the table, and by the map. *)
FindClientPG(c) == {o \in DOMAIN pg.rows : pg.rows[o].client = c}

FindClientMem(c) == IF c \in DOMAIN mem.clientIx THEN {mem.clientIx[c]} ELSE {}

-----------------------------------------------------------------------------
(* Transition.  A command has the statuses it may come from, the one it    *)
(* goes to, the copy's version, and what else it writes.                   *)

Cmd(from, to, paid, add, time) ==
  [from |-> from, to |-> to, paid |-> paid, add |-> add, time |-> time]

(* Mutant: a parked order may be closed. *)
SagaCmdWider ==
  {Cmd({"PENDING_PAY"}, "PAID", Paid, 0, {"paid_at"}),
   Cmd({"PAID"}, "COMPENSATING", 0, 0, {}),
   Cmd(Closable \cup {"COMPENSATING"}, "CLOSED", 0, 0, {})}

(* The commands of the sagas: payment, cancellation, afterPaid, its        *)
(* failure, completion, closing and refund.                                *)
SagaCmd ==
  {Cmd({"PENDING_PAY"}, "PAID", Paid, 0, {"paid_at"}),
   Cmd({"PENDING_PAY"}, "CANCELLED", 0, 0, {"cancelled_at"}),
   Cmd({"PAID", "COMPENSATING"}, "FULFILLING", 0, 0, {}),
   Cmd({"PAID", "COMPENSATING"}, "COMPLETED", 0, 0, {"completed_at"}),
   Cmd({"PAID"}, "COMPENSATING", 0, 0, {}),
   Cmd({"FULFILLING", "PAID"}, "COMPLETED", 0, 0, {"completed_at"}),
   Cmd(Closable, "CLOSED", 0, 0, {})}
  \cup {Cmd({s}, "REFUNDING", 0, 0, {}) : s \in Refundable}
  \cup {Cmd({"REFUNDING"}, "PARTIAL_REFUNDED", 0, a, {}) : a \in 1 .. Paid - 1}
  \cup {Cmd({"REFUNDING"}, "REFUNDED", 0, a, {}) : a \in 1 .. Paid}

(* Postgres: the WHERE clause decides; the status table is not consulted. *)
TransitionAnswerPG(o, cmd, version) ==
  IF pg.rows[o].version = version /\ pg.rows[o].status \in cmd.from
  THEN "ok" ELSE "ErrVersionConflict"

(* domain.Transition: the status table, which only memory consults. *)
DomainTransition(from, to) ==
  IF CanTransition(from, to) THEN "ok"
  ELSE IF from = "PAID" /\ to = "CANCELLED" THEN "ErrAlreadyPaid"
  ELSE "ErrStatusNotAllowed"

TransitionAnswerMem(o, cmd, version) ==
  IF mem.rows[o].version # version \/ mem.rows[o].status \notin cmd.from
  THEN "ErrVersionConflict" ELSE DomainTransition(mem.rows[o].status, cmd.to)

(* Mutant: Postgres writes all three, too. *)
MovedPGAllTimes(row, cmd) ==
  [row EXCEPT !.status = cmd.to, !.version = @ + 1,
              !.paid = IF cmd.paid > 0 THEN cmd.paid ELSE @,
              !.refunded = @ + cmd.add, !.times = cmd.time]

(* Postgres writes the times the command has.  The memory repository       *)
(* writes all three, with nothing where the command has none.              *)
MovedPG(row, cmd) ==
  [row EXCEPT !.status = cmd.to, !.version = @ + 1,
              !.paid = IF cmd.paid > 0 THEN cmd.paid ELSE @,
              !.refunded = @ + cmd.add, !.times = @ \cup cmd.time]

(* Mutant: the amount replaces what was refunded before. *)
MovedMemReplacing(row, cmd) ==
  [row EXCEPT !.status = cmd.to, !.version = @ + 1,
              !.paid = IF cmd.paid > 0 THEN cmd.paid ELSE @,
              !.refunded = IF cmd.add > 0 THEN cmd.add ELSE @, !.times = cmd.time]

MovedMem(row, cmd) ==
  [row EXCEPT !.status = cmd.to, !.version = @ + 1,
              !.paid = IF cmd.paid > 0 THEN cmd.paid ELSE @,
              !.refunded = @ + cmd.add, !.times = cmd.time]

BothRows(o) == o \in DOMAIN pg.rows \cap DOMAIN mem.rows

(* The refund saga has checked the amount against its copy. *)
Issued(o, cmd) ==
  LET left == RefundableAmount(pg.rows[o])
  IN  cmd.add > 0 => IF cmd.to = "REFUNDED" THEN cmd.add = left ELSE cmd.add < left

(* The copy is current, or older; one version older stands for all. *)
Transition(o, cmd, age) ==
  /\ BothRows(o)
  /\ Issued(o, cmd)
  /\ LET version == pg.rows[o].version - age
     IN  /\ version < MaxVersion
         /\ pg' = IF TransitionAnswerPG(o, cmd, version) # "ok" THEN pg
                  ELSE [pg EXCEPT !.rows[o] = MovedPG(@, cmd)]
         /\ mem' = IF TransitionAnswerMem(o, cmd, version) # "ok" THEN mem
                   ELSE [mem EXCEPT !.rows[o] = MovedMem(@, cmd)]
  /\ UNCHANGED <<claimed, now>>

(* The statements without a version: the new intent in the row and in the  *)
(* answer kept under the key, the redemption, and BumpRenew, whose         *)
(* expected count may be that of an old copy.                              *)
UpdatePaymentIntent(o) ==
  /\ BothRows(o)
  /\ pg' = [pg EXCEPT !.rows[o].intent = TRUE]
  /\ mem' = [mem EXCEPT !.rows[o].intent = TRUE]
  /\ UNCHANGED <<claimed, now>>

UpdateIdempotencyResponse(k) ==
  /\ k \in DOMAIN pg.idem \cap DOMAIN mem.idem
  /\ pg' = [pg EXCEPT !.idem[k].intent = TRUE]
  /\ mem' = [mem EXCEPT !.idem[k].intent = TRUE]
  /\ UNCHANGED <<claimed, now>>

UpdateRedemption(o) ==
  /\ BothRows(o)
  /\ pg' = [pg EXCEPT !.rows[o].redeemed = TRUE]
  /\ mem' = [mem EXCEPT !.rows[o].redeemed = TRUE]
  /\ UNCHANGED <<claimed, now>>

BumpAnswer(row, expected) ==
  IF row.status = "PENDING_PAY" /\ row.renewCount = expected THEN "ok"
  ELSE "ErrVersionConflict"

BumpRenew(o, expected) ==
  /\ BothRows(o)
  /\ pg' = IF BumpAnswer(pg.rows[o], expected) # "ok" THEN pg
           ELSE [pg EXCEPT !.rows[o].renewCount = @ + 1]
  /\ mem' = IF BumpAnswer(mem.rows[o], expected) # "ok" THEN mem
            ELSE [mem EXCEPT !.rows[o].renewCount = @ + 1]
  /\ UNCHANGED <<claimed, now>>

-----------------------------------------------------------------------------
(* Tickets.  The worker claims what is due and updates each ticket before  *)
(* it claims again; the console retries any ticket at any time.            *)

InsertCompensation ==
  /\ Len(pg.tickets) < MaxTickets
  /\ pg' = [pg EXCEPT !.tickets = Append(@, NewTicket)]
  /\ mem' = [mem EXCEPT !.tickets = Append(@, NewTicket)]
  /\ UNCHANGED <<claimed, now>>

(* Mutant: a ticket is due only after its time. *)
DuePGStrict == {i \in DOMAIN pg.tickets :
  pg.tickets[i].status = "pending" /\ (pg.tickets[i].next = 0 \/ pg.tickets[i].next < now)}

(* What a claim takes (pages as large as the table): Postgres only what is *)
(* pending, memory also what is running.                                   *)
DuePG == {i \in DOMAIN pg.tickets :
  pg.tickets[i].status = "pending" /\ pg.tickets[i].next <= now}

DueMem == {i \in DOMAIN mem.tickets :
  mem.tickets[i].status \in {"pending", "running"} /\ ~ mem.tickets[i].next > now}

Claim(tickets, due) ==
  [i \in DOMAIN tickets |->
     IF i \in due THEN [tickets[i] EXCEPT !.status = "running", !.attempts = @ + 1]
     ELSE tickets[i]]

ClaimCompensations ==
  /\ claimed = {}
  /\ pg' = [pg EXCEPT !.tickets = Claim(@, DuePG)]
  /\ mem' = [mem EXCEPT !.tickets = Claim(@, DueMem)]
  /\ claimed' = DuePG
  /\ UNCHANGED now

(* next = 0 stands for no time: Postgres then keeps the old one, memory    *)
(* forgets it.                                                             *)
UpdatePG(i, status, next) ==
  pg' = [pg EXCEPT !.tickets[i].status = status,
                   !.tickets[i].next = IF next = 0 THEN @ ELSE next]

UpdateMem(i, status, next) ==
  mem' = [mem EXCEPT !.tickets[i].status = status, !.tickets[i].next = next]

UpdateCompensation(i, status, next) == UpdatePG(i, status, next) /\ UpdateMem(i, status, next)

Later == now + 1 .. MaxTime

(* Tick of CompensateWorker, its next ticket: handled, put off or given up. *)
Tick ==
  /\ claimed # {}
  /\ LET i == Min(claimed)
     IN  /\ claimed' = claimed \ {i}
         /\ \/ UpdateCompensation(i, "done", 0)
            \/ IF pg.tickets[i].attempts >= MaxAttempts
               THEN UpdateCompensation(i, "failed", 0)
               ELSE \E next \in Later : UpdateCompensation(i, "pending", next)
  /\ UNCHANGED now

(* Retry of CompensateWorker, from the console. *)
Retry(i) ==
  /\ i \in DOMAIN pg.tickets
  /\ \/ UpdateCompensation(i, "done", 0)
     \/ \E next \in Later : UpdateCompensation(i, "pending", next)
  /\ UNCHANGED <<claimed, now>>

Advance == now < MaxTime /\ now' = now + 1 /\ UNCHANGED <<pg, mem, claimed>>

OrderNext ==
  \/ \E o \in Order :
       \/ \E c \in Client, k \in Key : InsertCheckout(o, c, k)
       \/ \E cmd \in SagaCmd, age \in 0 .. 1 : Transition(o, cmd, age)
       \/ UpdatePaymentIntent(o) \/ UpdateRedemption(o)
       \/ \E n \in 0 .. MaxRenew - 1 : BumpRenew(o, n)
  \/ \E k \in Key : UpdateIdempotencyResponse(k)

TicketNext ==
  \/ InsertCompensation \/ ClaimCompensations \/ Tick
  \/ \E i \in 1 .. MaxTickets : Retry(i)
  \/ Advance

Next == OrderNext \/ TicketNext

Spec == Init /\ [][Next]_vars

-----------------------------------------------------------------------------
(* Properties.                                                             *)

(* Both repositories give the same answer to every command a saga may      *)
(* issue next, with a copy of any age: conflicts of checkout by the same   *)
(* name, and no transition that memory's status table refuses and          *)
(* Postgres, which has none, lets pass.                                    *)
SameAnswers ==
  /\ \A o \in Order, c \in Client, k \in Key :
       Fresh(o) => InsertAnswerPG(o, c, k) = InsertAnswerMem(o, c, k)
  /\ \A c \in Client : FindClientPG(c) = FindClientMem(c)
  /\ \A o \in DOMAIN pg.rows, cmd \in SagaCmd, version \in 1 .. MaxVersion :
       TransitionAnswerPG(o, cmd, version) = TransitionAnswerMem(o, cmd, version)

(* Both hold the same orders and the same answers under the keys: nothing  *)
(* that the sagas read differs, but for the times.                         *)
SameRows ==
  /\ pg.idem = mem.idem /\ DOMAIN pg.rows = DOMAIN mem.rows
  /\ \A o \in DOMAIN pg.rows :
       [pg.rows[o] EXCEPT !.times = {}] = [mem.rows[o] EXCEPT !.times = {}]

(* Tickets agree, and so does what the next claim takes: although memory   *)
(* takes running tickets again and forgets when to retry.                  *)
SameTickets ==
  /\ Len(pg.tickets) = Len(mem.tickets)
  /\ \A i \in DOMAIN pg.tickets :
       /\ pg.tickets[i].status = mem.tickets[i].status
       /\ pg.tickets[i].attempts = mem.tickets[i].attempts
  /\ claimed = {} => DuePG = DueMem

(* In Postgres an order that was paid keeps its paid_at, whatever happens  *)
(* to it afterwards, and no other order has one.                           *)
PaidAtStays ==
  \A o \in DOMAIN pg.rows : pg.rows[o].paid > 0 <=> "paid_at" \in pg.rows[o].times
=============================================================================
