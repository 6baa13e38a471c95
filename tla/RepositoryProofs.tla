-------------------------- MODULE RepositoryProofs --------------------------
(***************************************************************************)
(* That the two repositories agree, for any number of orders, keys and     *)
(* tickets, any price, any limits and any clock.                           *)
(***************************************************************************)
EXTENDS MCRepository, SequenceTheorems, WellFoundedInduction, TLAPS

USE RepositoryAssumption

-----------------------------------------------------------------------------
(* The inductive invariant.                                                *)

Times == {"paid_at", "cancelled_at", "completed_at"}

Row ==
  [client : Client, status : Status, version : Int, paid : Nat, refunded : Nat,
   redeemed : BOOLEAN, intent : BOOLEAN, renewCount : Nat, times : SUBSET Times]

Record == [order : Order, intent : BOOLEAN]

Ticket ==
  [status : {"pending", "running", "done", "failed"}, attempts : Nat, next : Nat]

Table(K, V) == UNION {[D -> V] : D \in SUBSET K}

Typed ==
  /\ pg \in [rows : Table(Order, Row), idem : Table(Key, Record), tickets : Seq(Ticket)]
  /\ mem \in [rows : Table(Order, Row), idem : Table(Key, Record), tickets : Seq(Ticket),
              clientIx : Table(Client, Order)]
  /\ claimed \subseteq Nat /\ now \in Nat

(* Rows that differ in their times only. *)
Alike(r, s) ==
  /\ r.client = s.client /\ r.status = s.status /\ r.version = s.version
  /\ r.paid = s.paid /\ r.refunded = s.refunded /\ r.redeemed = s.redeemed
  /\ r.intent = s.intent /\ r.renewCount = s.renewCount

RowsAgree ==
  /\ pg.idem = mem.idem /\ DOMAIN pg.rows = DOMAIN mem.rows
  /\ \A o \in DOMAIN pg.rows : Alike(pg.rows[o], mem.rows[o])

(* The map of client_order_ids is the index of the table. *)
IndexAgrees ==
  /\ \A c \in DOMAIN mem.clientIx :
       /\ mem.clientIx[c] \in DOMAIN pg.rows
       /\ pg.rows[mem.clientIx[c]].client = c
  /\ \A o \in DOMAIN pg.rows :
       /\ pg.rows[o].client \in DOMAIN mem.clientIx
       /\ mem.clientIx[pg.rows[o].client] = o

(* Tickets the worker may still work on are due at the same time; a        *)
(* running one is in the worker's hands.                                   *)
TicketsAgree ==
  /\ Len(pg.tickets) = Len(mem.tickets)
  /\ claimed \subseteq 1 .. Len(pg.tickets)
  /\ \A i \in 1 .. Len(pg.tickets) :
       /\ pg.tickets[i].status = mem.tickets[i].status
       /\ pg.tickets[i].attempts = mem.tickets[i].attempts
       /\ pg.tickets[i].status \in {"pending", "running"} =>
            pg.tickets[i].next = mem.tickets[i].next
       /\ pg.tickets[i].status = "running" => i \in claimed

RepositoryInv == Typed /\ RowsAgree /\ IndexAgrees /\ TicketsAgree

-----------------------------------------------------------------------------
(* Tables.                                                                 *)

(* A table is a function on some of its keys. *)
LEMMA TableIs ==
  ASSUME NEW K, NEW V, NEW f
  PROVE  f \in Table(K, V) <=> DOMAIN f \subseteq K /\ f \in [DOMAIN f -> V]
<1>1. ASSUME f \in Table(K, V) PROVE DOMAIN f \subseteq K /\ f \in [DOMAIN f -> V]
  <2>1. PICK D \in SUBSET K : f \in [D -> V]
    BY <1>1 DEF Table
  <2> QED BY <2>1
<1>2. ASSUME DOMAIN f \subseteq K, f \in [DOMAIN f -> V] PROVE f \in Table(K, V)
  BY <1>2 DEF Table
<1> QED BY <1>1, <1>2

(* Put adds a key, or replaces its value: the table stays one. *)
LEMMA PutTyped ==
  ASSUME NEW K, NEW V, NEW f \in Table(K, V), NEW k \in K, NEW v \in V
  PROVE  Put(f, k, v) \in Table(K, V)
<1>1. DOMAIN f \subseteq K /\ f \in [DOMAIN f -> V]
  BY TableIs
<1> DEFINE g == Put(f, k, v)
<1>2. DOMAIN g = DOMAIN f \cup {k} /\ g \in [DOMAIN f \cup {k} -> V]
  BY <1>1 DEF Put
<1>3. DOMAIN g \subseteq K /\ g \in [DOMAIN g -> V]
  BY <1>1, <1>2
<1> HIDE DEF g
<1>4. g \in Table(K, V)
  BY <1>3, TableIs
<1> QED BY <1>4 DEF g

(* An update of one row keeps the table. *)
LEMMA ExceptIs ==
  ASSUME NEW K, NEW V, NEW f \in Table(K, V), NEW k \in DOMAIN f, NEW v \in V
  PROVE  /\ [f EXCEPT ![k] = v] \in Table(K, V)
         /\ DOMAIN [f EXCEPT ![k] = v] = DOMAIN f
         /\ [f EXCEPT ![k] = v][k] = v
         /\ \A x \in DOMAIN f : x # k => [f EXCEPT ![k] = v][x] = f[x]
<1>1. DOMAIN f \subseteq K /\ f \in [DOMAIN f -> V]
  BY TableIs
<1> DEFINE g == [f EXCEPT ![k] = v]
<1>2. /\ DOMAIN g = DOMAIN f /\ g[k] = v
      /\ \A x \in DOMAIN f : x # k => g[x] = f[x]
      /\ g \in [DOMAIN f -> V]
  BY <1>1
<1> HIDE DEF g
<1>3. g \in Table(K, V)
  BY <1>1, <1>2, TableIs
<1> QED BY <1>2, <1>3 DEF g

(* What the tables hold, in every typed state. *)
LEMMA TablesTyped ==
  ASSUME Typed
  PROVE  /\ pg.rows \in Table(Order, Row) /\ mem.rows \in Table(Order, Row)
         /\ pg.idem \in Table(Key, Record) /\ mem.idem \in Table(Key, Record)
         /\ mem.clientIx \in Table(Client, Order)
         /\ pg.tickets \in Seq(Ticket) /\ mem.tickets \in Seq(Ticket)
         /\ \A o \in DOMAIN pg.rows : o \in Order /\ pg.rows[o] \in Row
         /\ \A o \in DOMAIN mem.rows : o \in Order /\ mem.rows[o] \in Row
         /\ \A k \in DOMAIN pg.idem : k \in Key /\ pg.idem[k] \in Record
         /\ \A c \in DOMAIN mem.clientIx : c \in Client /\ mem.clientIx[c] \in Order
<1>1. /\ pg.rows \in Table(Order, Row) /\ mem.rows \in Table(Order, Row)
      /\ pg.idem \in Table(Key, Record) /\ mem.idem \in Table(Key, Record)
      /\ mem.clientIx \in Table(Client, Order)
      /\ pg.tickets \in Seq(Ticket) /\ mem.tickets \in Seq(Ticket)
  BY DEF Typed
<1>2. \A o \in DOMAIN pg.rows : o \in Order /\ pg.rows[o] \in Row
  <2>1. DOMAIN pg.rows \subseteq Order /\ pg.rows \in [DOMAIN pg.rows -> Row]
    BY <1>1, TableIs
  <2> QED BY <2>1
<1>3. \A o \in DOMAIN mem.rows : o \in Order /\ mem.rows[o] \in Row
  <2>1. DOMAIN mem.rows \subseteq Order /\ mem.rows \in [DOMAIN mem.rows -> Row]
    BY <1>1, TableIs
  <2> QED BY <2>1
<1>4. \A k \in DOMAIN pg.idem : k \in Key /\ pg.idem[k] \in Record
  <2>1. DOMAIN pg.idem \subseteq Key /\ pg.idem \in [DOMAIN pg.idem -> Record]
    BY <1>1, TableIs
  <2> QED BY <2>1
<1>5. \A c \in DOMAIN mem.clientIx : c \in Client /\ mem.clientIx[c] \in Order
  <2>1. /\ DOMAIN mem.clientIx \subseteq Client
        /\ mem.clientIx \in [DOMAIN mem.clientIx -> Order]
    BY <1>1, TableIs
  <2> QED BY <2>1
<1> QED BY <1>1, <1>2, <1>3, <1>4, <1>5

-----------------------------------------------------------------------------
(* The answers.                                                            *)

(* The commands of the sagas only ask for moves the status table allows:   *)
(* this is why Postgres does without it.                                   *)
LEMMA CommandsAreAllowed ==
  ASSUME NEW cmd \in SagaCmd
  PROVE  /\ cmd.from \subseteq Status /\ cmd.to \in Status
         /\ cmd.paid \in Nat /\ cmd.add \in Nat /\ cmd.time \subseteq Times
         /\ \A s \in cmd.from : CanTransition(s, cmd.to)
         /\ "paid_at" \in cmd.time <=> cmd.to = "PAID"
         /\ cmd.paid = IF cmd.to = "PAID" THEN Paid ELSE 0
<1>1. CASE cmd \in {Cmd({s}, "REFUNDING", 0, 0, {}) : s \in Refundable}
  BY <1>1 DEF Cmd, Times, CanTransition, transitions, Status, Refundable
<1>2. CASE cmd \in {Cmd({"REFUNDING"}, "PARTIAL_REFUNDED", 0, a, {}) : a \in 1 .. Paid - 1}
  BY <1>2 DEF Cmd, Times, CanTransition, transitions, Status
<1>3. CASE cmd \in {Cmd({"REFUNDING"}, "REFUNDED", 0, a, {}) : a \in 1 .. Paid}
  BY <1>3 DEF Cmd, Times, CanTransition, transitions, Status
<1>4. CASE cmd = Cmd({"PENDING_PAY"}, "PAID", Paid, 0, {"paid_at"})
  BY <1>4 DEF Cmd, Times, CanTransition, transitions, Status
<1>5. CASE cmd = Cmd({"PENDING_PAY"}, "CANCELLED", 0, 0, {"cancelled_at"})
  BY <1>5 DEF Cmd, Times, CanTransition, transitions, Status
<1>6. CASE cmd = Cmd({"PAID", "COMPENSATING"}, "FULFILLING", 0, 0, {})
  BY <1>6 DEF Cmd, Times, CanTransition, transitions, Status
<1>7. CASE cmd = Cmd({"PAID", "COMPENSATING"}, "COMPLETED", 0, 0, {"completed_at"})
  BY <1>7 DEF Cmd, Times, CanTransition, transitions, Status
<1>8. CASE cmd = Cmd({"PAID"}, "COMPENSATING", 0, 0, {})
  BY <1>8 DEF Cmd, Times, CanTransition, transitions, Status
<1>9. CASE cmd = Cmd({"FULFILLING", "PAID"}, "COMPLETED", 0, 0, {"completed_at"})
  BY <1>9 DEF Cmd, Times, CanTransition, transitions, Status
<1>10. CASE cmd = Cmd(Closable, "CLOSED", 0, 0, {})
  BY <1>10 DEF Cmd, Times, CanTransition, transitions, Status, Closable
<1> QED
  BY <1>1, <1>2, <1>3, <1>4, <1>5, <1>6, <1>7, <1>8, <1>9, <1>10 DEF SagaCmd

(* The two give the same answer to an insert. *)
LEMMA InsertsAnsweredAlike ==
  ASSUME Typed, RowsAgree, IndexAgrees, NEW o, Fresh(o), NEW c, NEW k
  PROVE  InsertAnswerPG(o, c, k) = InsertAnswerMem(o, c, k)
<1>1. (\E p \in DOMAIN pg.rows : pg.rows[p].client = c) <=> c \in DOMAIN mem.clientIx
  BY DEF IndexAgrees
<1>2. o \notin DOMAIN pg.rows /\ pg.idem = mem.idem
  BY DEF Fresh, RowsAgree
<1> QED BY <1>1, <1>2 DEF InsertAnswerPG, InsertAnswerMem

(* ... and to a transition. *)
LEMMA TransitionsAnsweredAlike ==
  ASSUME Typed, RowsAgree, NEW o \in DOMAIN pg.rows, NEW cmd \in SagaCmd, NEW v
  PROVE  TransitionAnswerPG(o, cmd, v) = TransitionAnswerMem(o, cmd, v)
<1>1. pg.rows[o].version = mem.rows[o].version /\ pg.rows[o].status = mem.rows[o].status
  BY DEF RowsAgree, Alike
<1>2. \A s \in cmd.from : CanTransition(s, cmd.to)
  BY CommandsAreAllowed
<1> QED BY <1>1, <1>2 DEF TransitionAnswerPG, TransitionAnswerMem, DomainTransition

-----------------------------------------------------------------------------
(* The orders.                                                             *)

(* A statement that updates one row on each side, alike, keeps the rows    *)
(* and the index.                                                          *)
LEMMA UpdateKeeps ==
  ASSUME RepositoryInv, NEW o \in DOMAIN pg.rows,
         NEW r \in Row, NEW s \in Row, Alike(r, s), r.client = pg.rows[o].client,
         pg' = [pg EXCEPT !.rows = [pg.rows EXCEPT ![o] = r]],
         mem' = [mem EXCEPT !.rows = [mem.rows EXCEPT ![o] = s]],
         UNCHANGED <<claimed, now>>
  PROVE  RepositoryInv'
<1>1. Typed /\ RowsAgree /\ IndexAgrees /\ TicketsAgree /\ o \in DOMAIN mem.rows
  BY DEF RepositoryInv, RowsAgree
<1>2. /\ pg.rows \in Table(Order, Row) /\ mem.rows \in Table(Order, Row)
  BY <1>1, TablesTyped
<1>3. /\ pg'.rows = [pg.rows EXCEPT ![o] = r] /\ pg'.idem = pg.idem
      /\ pg'.tickets = pg.tickets
      /\ mem'.rows = [mem.rows EXCEPT ![o] = s] /\ mem'.idem = mem.idem
      /\ mem'.tickets = mem.tickets /\ mem'.clientIx = mem.clientIx
  BY <1>1 DEF Typed
<1>4. /\ pg'.rows \in Table(Order, Row) /\ DOMAIN pg'.rows = DOMAIN pg.rows
      /\ pg'.rows[o] = r
      /\ \A x \in DOMAIN pg.rows : x # o => pg'.rows[x] = pg.rows[x]
  BY <1>2, <1>3, ExceptIs
<1>5. /\ mem'.rows \in Table(Order, Row) /\ DOMAIN mem'.rows = DOMAIN mem.rows
      /\ mem'.rows[o] = s
      /\ \A x \in DOMAIN mem.rows : x # o => mem'.rows[x] = mem.rows[x]
  BY <1>1, <1>2, <1>3, ExceptIs
<1>6. Typed'
  BY <1>1, <1>3, <1>4, <1>5 DEF Typed
<1>7. RowsAgree'
  BY <1>1, <1>3, <1>4, <1>5 DEF RowsAgree
<1>8. \A x \in DOMAIN pg.rows : pg'.rows[x].client = pg.rows[x].client
  BY <1>4
<1>9. IndexAgrees'
  BY <1>1, <1>3, <1>4, <1>8, SMTT(30) DEF IndexAgrees
<1>10. TicketsAgree'
  BY <1>1, <1>3 DEF TicketsAgree
<1> QED BY <1>6, <1>7, <1>9, <1>10 DEF RepositoryInv

(* Nothing written keeps everything. *)
LEMMA NothingKeeps ==
  ASSUME RepositoryInv, UNCHANGED vars
  PROVE  RepositoryInv'
BY DEF RepositoryInv, Typed, RowsAgree, IndexAgrees, TicketsAgree, vars

(* A placed order has the same row, record and client_order_id on both     *)
(* sides.                                                                  *)
LEMMA InsertKeeps ==
  ASSUME RepositoryInv, NEW o \in Order, NEW c \in Client, NEW k \in Key,
         InsertCheckout(o, c, k)
  PROVE  RepositoryInv'
<1>1. Typed /\ RowsAgree /\ IndexAgrees /\ TicketsAgree /\ o \notin DOMAIN pg.rows
  BY DEF RepositoryInv, InsertCheckout, Fresh
<1>2. InsertAnswerPG(o, c, k) = InsertAnswerMem(o, c, k)
  BY <1>1, InsertsAnsweredAlike DEF InsertCheckout
<1>3. CASE InsertAnswerPG(o, c, k) # "ok"
  BY <1>2, <1>3, NothingKeeps DEF InsertCheckout, InsertPG, InsertMem, vars
<1>4. CASE InsertAnswerPG(o, c, k) = "ok"
  <2> DEFINE rec == [order |-> o, intent |-> FALSE]
  <2>1. /\ pg' = [pg EXCEPT !.rows = Put(@, o, NewRow(c)), !.idem = Put(@, k, rec)]
        /\ mem' = [mem EXCEPT !.rows = Put(@, o, NewRow(c)), !.idem = Put(@, k, rec),
                              !.clientIx = Put(@, c, o)]
        /\ UNCHANGED <<claimed, now>>
    BY <1>2, <1>4 DEF InsertCheckout, InsertPG, InsertMem
  <2>2. NewRow(c) \in Row /\ rec \in Record /\ NewRow(c).client = c
    BY DEF NewRow, Row, Record, Status, Times
  <2>0. /\ pg.rows \in Table(Order, Row) /\ mem.rows \in Table(Order, Row)
        /\ pg.idem \in Table(Key, Record) /\ mem.clientIx \in Table(Client, Order)
        /\ pg.idem = mem.idem
    BY <1>1, TablesTyped DEF RowsAgree
  <2>3. Alike(NewRow(c), NewRow(c))
    BY DEF Alike
  <2> HIDE DEF rec
  <2>4. /\ pg'.rows = Put(pg.rows, o, NewRow(c)) /\ pg'.idem = Put(pg.idem, k, rec)
        /\ pg'.tickets = pg.tickets
        /\ mem'.rows = Put(mem.rows, o, NewRow(c)) /\ mem'.idem = Put(mem.idem, k, rec)
        /\ mem'.tickets = mem.tickets /\ mem'.clientIx = Put(mem.clientIx, c, o)
    BY <1>1, <2>1 DEF Typed
  <2>5. c \notin DOMAIN mem.clientIx
    BY <1>2, <1>4 DEF InsertAnswerMem
  <2>6. /\ pg'.rows \in Table(Order, Row) /\ DOMAIN pg'.rows = DOMAIN pg.rows \cup {o}
        /\ pg'.rows[o] = NewRow(c)
        /\ \A x \in DOMAIN pg.rows : x # o => pg'.rows[x] = pg.rows[x]
    <3>1. Put(pg.rows, o, NewRow(c)) \in Table(Order, Row)
      BY <2>0, <2>2, PutTyped
    <3>2. /\ DOMAIN pg'.rows = DOMAIN pg.rows \cup {o}
          /\ pg'.rows[o] = NewRow(c)
          /\ \A x \in DOMAIN pg.rows : x # o => pg'.rows[x] = pg.rows[x]
      BY <2>4 DEF Put
    <3> QED BY <2>4, <3>1, <3>2
  <2>7. /\ mem'.rows \in Table(Order, Row) /\ DOMAIN mem'.rows = DOMAIN mem.rows \cup {o}
        /\ mem'.rows[o] = NewRow(c)
        /\ \A x \in DOMAIN mem.rows : x # o => mem'.rows[x] = mem.rows[x]
    <3>1. Put(mem.rows, o, NewRow(c)) \in Table(Order, Row)
      BY <2>0, <2>2, PutTyped
    <3>2. /\ DOMAIN mem'.rows = DOMAIN mem.rows \cup {o}
          /\ mem'.rows[o] = NewRow(c)
          /\ \A x \in DOMAIN mem.rows : x # o => mem'.rows[x] = mem.rows[x]
      BY <2>4 DEF Put
    <3> QED BY <2>4, <3>1, <3>2
  <2>8. pg'.idem \in Table(Key, Record) /\ pg'.idem = mem'.idem
    <3>1. Put(pg.idem, k, rec) \in Table(Key, Record)
      BY <2>0, <2>2, PutTyped
    <3> QED BY <2>0, <2>4, <3>1
  <2>9. /\ mem'.clientIx \in Table(Client, Order)
        /\ DOMAIN mem'.clientIx = DOMAIN mem.clientIx \cup {c}
        /\ mem'.clientIx[c] = o
        /\ \A x \in DOMAIN mem.clientIx : x # c => mem'.clientIx[x] = mem.clientIx[x]
    <3>1. Put(mem.clientIx, c, o) \in Table(Client, Order)
      BY <2>0, PutTyped
    <3>2. /\ DOMAIN mem'.clientIx = DOMAIN mem.clientIx \cup {c}
          /\ mem'.clientIx[c] = o
          /\ \A x \in DOMAIN mem.clientIx : x # c => mem'.clientIx[x] = mem.clientIx[x]
      BY <2>4 DEF Put
    <3> QED BY <2>4, <3>1, <3>2
  <2>10. Typed'
    <3>1. pg' \in [rows : Table(Order, Row), idem : Table(Key, Record),
                   tickets : Seq(Ticket)]
      BY <1>1, <2>1, <2>4, <2>6, <2>8 DEF Typed
    <3>2. mem' \in [rows : Table(Order, Row), idem : Table(Key, Record),
                    tickets : Seq(Ticket), clientIx : Table(Client, Order)]
      BY <1>1, <2>1, <2>4, <2>7, <2>8, <2>9 DEF Typed
    <3> QED BY <1>1, <2>1, <3>1, <3>2 DEF Typed
  <2>11. RowsAgree'
    BY <1>1, <2>3, <2>6, <2>7, <2>8 DEF RowsAgree
  <2>12. IndexAgrees'
    <3>1. ASSUME NEW d \in DOMAIN mem'.clientIx
          PROVE  mem'.clientIx[d] \in DOMAIN pg'.rows /\ pg'.rows[mem'.clientIx[d]].client = d
      BY <1>1, <2>2, <2>6, <2>9 DEF IndexAgrees
    <3>2. ASSUME NEW x \in DOMAIN pg'.rows
          PROVE  /\ pg'.rows[x].client \in DOMAIN mem'.clientIx
                 /\ mem'.clientIx[pg'.rows[x].client] = x
      BY <1>1, <2>2, <2>5, <2>6, <2>9 DEF IndexAgrees
    <3> QED BY <3>1, <3>2 DEF IndexAgrees
  <2>13. TicketsAgree'
    BY <1>1, <2>1, <2>4 DEF TicketsAgree
  <2> QED BY <2>10, <2>11, <2>12, <2>13 DEF RepositoryInv
<1> QED BY <1>3, <1>4

(* A row that a command has moved is a row of the same client. *)
LEMMA MovedTyped ==
  ASSUME NEW row \in Row, NEW to \in Status, NEW paid \in Nat, NEW add \in Nat,
         NEW times \in SUBSET Times, NEW moved,
         moved = [row EXCEPT !.status = to, !.version = @ + 1,
                             !.paid = IF paid > 0 THEN paid ELSE @,
                             !.refunded = @ + add, !.times = times]
  PROVE  moved \in Row
<1>1. /\ row.version + 1 \in Int /\ row.refunded + add \in Nat
      /\ (IF paid > 0 THEN paid ELSE row.paid) \in Nat
  BY DEF Row
<1> DEFINE p == IF paid > 0 THEN paid ELSE row.paid
           f == row.refunded + add
           v == row.version + 1
<1>2. p \in Nat /\ f \in Nat /\ v \in Int
  BY <1>1
<1> HIDE DEF p, f, v
<1>3. [row EXCEPT !.status = to, !.version = v, !.paid = p, !.refunded = f,
                  !.times = times] \in Row
  BY <1>2 DEF Row
<1>4. moved = [row EXCEPT !.status = to, !.version = v, !.paid = p, !.refunded = f,
                           !.times = times]
  BY DEF p, f, v
<1> QED BY <1>3, <1>4

(* A command moves both rows, or none. *)
LEMMA TransitionKeeps ==
  ASSUME RepositoryInv, NEW o \in Order, NEW cmd \in SagaCmd, NEW age \in 0 .. 1,
         Transition(o, cmd, age)
  PROVE  RepositoryInv'
<1> DEFINE v == pg.rows[o].version - age
           r == MovedPG(pg.rows[o], cmd)
           s == MovedMem(mem.rows[o], cmd)
<1>1. /\ Typed /\ RowsAgree
      /\ o \in DOMAIN pg.rows /\ o \in DOMAIN mem.rows /\ UNCHANGED <<claimed, now>>
  BY DEF RepositoryInv, Transition, BothRows
<1>2. /\ pg' = IF TransitionAnswerPG(o, cmd, v) # "ok" THEN pg
               ELSE [pg EXCEPT !.rows = [pg.rows EXCEPT ![o] = r]]
      /\ mem' = IF TransitionAnswerMem(o, cmd, v) # "ok" THEN mem
                ELSE [mem EXCEPT !.rows = [mem.rows EXCEPT ![o] = s]]
  BY DEF Transition
<1>3. TransitionAnswerPG(o, cmd, v) = TransitionAnswerMem(o, cmd, v)
  BY <1>1, TransitionsAnsweredAlike
<1>4. CASE TransitionAnswerPG(o, cmd, v) # "ok"
  BY <1>1, <1>2, <1>3, <1>4, NothingKeeps DEF vars
<1>5. CASE TransitionAnswerPG(o, cmd, v) = "ok"
  <2>1. /\ pg.rows[o] \in Row /\ mem.rows[o] \in Row /\ Alike(pg.rows[o], mem.rows[o])
    BY <1>1, TablesTyped DEF RowsAgree
  <2>2. /\ cmd.to \in Status /\ cmd.paid \in Nat /\ cmd.add \in Nat
        /\ cmd.time \subseteq Times
    BY CommandsAreAllowed
  <2>3. r \in Row
    <3> DEFINE t == pg.rows[o].times \cup cmd.time
    <3>1. t \in SUBSET Times
      BY <2>1, <2>2 DEF Row
    <3>2. r = [pg.rows[o] EXCEPT !.status = cmd.to, !.version = @ + 1,
                                 !.paid = IF cmd.paid > 0 THEN cmd.paid ELSE @,
                                 !.refunded = @ + cmd.add, !.times = t]
      BY DEF MovedPG
    <3> HIDE DEF r, t
    <3> QED BY <2>1, <2>2, <3>1, <3>2, MovedTyped
  <2>4. s \in Row
    <3>1. s = [mem.rows[o] EXCEPT !.status = cmd.to, !.version = @ + 1,
                                  !.paid = IF cmd.paid > 0 THEN cmd.paid ELSE @,
                                  !.refunded = @ + cmd.add, !.times = cmd.time]
      BY DEF MovedMem
    <3>2. cmd.time \in SUBSET Times
      BY <2>2
    <3> HIDE DEF s
    <3> QED BY <2>1, <2>2, <3>1, <3>2, MovedTyped
  <2>6. r.client = pg.rows[o].client
    BY <2>1 DEF MovedPG, Row
  <2>5. Alike(r, s)
    BY <2>1, <2>2 DEF Alike, MovedPG, MovedMem, Row
  <2> HIDE DEF r, s
  <2> QED BY <1>1, <1>2, <1>3, <1>5, <2>3, <2>4, <2>5, <2>6, UpdateKeeps
<1> QED BY <1>4, <1>5

(* The statements without a version write the same on both sides. *)
LEMMA StatementKeeps ==
  ASSUME RepositoryInv, NEW o \in Order,
         \/ UpdatePaymentIntent(o) \/ UpdateRedemption(o)
         \/ \E n \in 0 .. MaxRenew - 1 : BumpRenew(o, n)
  PROVE  RepositoryInv'
<1>1. /\ Typed /\ RowsAgree
      /\ o \in DOMAIN pg.rows /\ o \in DOMAIN mem.rows /\ UNCHANGED <<claimed, now>>
  BY DEF RepositoryInv, UpdatePaymentIntent, UpdateRedemption, BumpRenew, BothRows
<1>2. pg.rows[o] \in Row /\ mem.rows[o] \in Row /\ Alike(pg.rows[o], mem.rows[o])
  BY <1>1, TablesTyped DEF RowsAgree
<1>3. CASE UpdatePaymentIntent(o)
  <2> DEFINE r == [pg.rows[o] EXCEPT !.intent = TRUE]
             s == [mem.rows[o] EXCEPT !.intent = TRUE]
  <2>1. /\ pg' = [pg EXCEPT !.rows = [pg.rows EXCEPT ![o] = r]]
        /\ mem' = [mem EXCEPT !.rows = [mem.rows EXCEPT ![o] = s]]
    BY <1>3 DEF UpdatePaymentIntent
  <2>2. r \in Row /\ s \in Row /\ r.client = pg.rows[o].client /\ Alike(r, s)
    BY <1>2 DEF Row, Alike
  <2> HIDE DEF r, s
  <2> QED BY <1>1, <2>1, <2>2, UpdateKeeps
<1>4. CASE UpdateRedemption(o)
  <2> DEFINE r == [pg.rows[o] EXCEPT !.redeemed = TRUE]
             s == [mem.rows[o] EXCEPT !.redeemed = TRUE]
  <2>1. /\ pg' = [pg EXCEPT !.rows = [pg.rows EXCEPT ![o] = r]]
        /\ mem' = [mem EXCEPT !.rows = [mem.rows EXCEPT ![o] = s]]
    BY <1>4 DEF UpdateRedemption
  <2>2. r \in Row /\ s \in Row /\ r.client = pg.rows[o].client /\ Alike(r, s)
    BY <1>2 DEF Row, Alike
  <2> HIDE DEF r, s
  <2> QED BY <1>1, <2>1, <2>2, UpdateKeeps
<1>5. ASSUME NEW n, BumpRenew(o, n) PROVE RepositoryInv'
  <2> DEFINE r == [pg.rows[o] EXCEPT !.renewCount = @ + 1]
             s == [mem.rows[o] EXCEPT !.renewCount = @ + 1]
  <2>1. BumpAnswer(pg.rows[o], n) = BumpAnswer(mem.rows[o], n)
    BY <1>2 DEF BumpAnswer, Alike
  <2>2. \/ UNCHANGED <<pg, mem>>
        \/ /\ pg' = [pg EXCEPT !.rows = [pg.rows EXCEPT ![o] = r]]
           /\ mem' = [mem EXCEPT !.rows = [mem.rows EXCEPT ![o] = s]]
    BY <1>5, <2>1 DEF BumpRenew
  <2>3. r \in Row /\ s \in Row /\ r.client = pg.rows[o].client /\ Alike(r, s)
    BY <1>2 DEF Row, Alike
  <2> HIDE DEF r, s
  <2> QED BY <1>1, <2>2, <2>3, UpdateKeeps, NothingKeeps DEF vars
<1> QED BY <1>3, <1>4, <1>5

(* The answer kept under a key is replaced on both sides. *)
LEMMA ResponseKeeps ==
  ASSUME RepositoryInv, NEW k \in Key, UpdateIdempotencyResponse(k)
  PROVE  RepositoryInv'
<1> DEFINE rec == [pg.idem[k] EXCEPT !.intent = TRUE]
<1>1. /\ Typed /\ RowsAgree /\ IndexAgrees /\ TicketsAgree
      /\ k \in DOMAIN pg.idem /\ pg.idem = mem.idem /\ UNCHANGED <<claimed, now>>
  BY DEF RepositoryInv, UpdateIdempotencyResponse, RowsAgree
<1>2. /\ pg' = [pg EXCEPT !.idem = [pg.idem EXCEPT ![k] = rec]]
      /\ mem' = [mem EXCEPT !.idem = [mem.idem EXCEPT ![k] = rec]]
  BY <1>1 DEF UpdateIdempotencyResponse
<1>3. rec \in Record /\ pg.idem \in Table(Key, Record)
  BY <1>1, TablesTyped DEF Record
<1> HIDE DEF rec
<1>4. /\ pg'.idem = [pg.idem EXCEPT ![k] = rec] /\ pg'.rows = pg.rows
      /\ pg'.tickets = pg.tickets
      /\ mem'.idem = [mem.idem EXCEPT ![k] = rec] /\ mem'.rows = mem.rows
      /\ mem'.tickets = mem.tickets /\ mem'.clientIx = mem.clientIx
  BY <1>1, <1>2 DEF Typed
<1>5. pg'.idem \in Table(Key, Record) /\ pg'.idem = mem'.idem
  BY <1>1, <1>3, <1>4, ExceptIs
<1>6. Typed'
  BY <1>1, <1>2, <1>4, <1>5 DEF Typed
<1>7. RowsAgree' /\ IndexAgrees' /\ TicketsAgree'
  BY <1>1, <1>4, <1>5, SMTT(30) DEF RowsAgree, IndexAgrees, TicketsAgree
<1> QED BY <1>6, <1>7 DEF RepositoryInv

-----------------------------------------------------------------------------
(* The tickets.                                                            *)

(* New tickets leave the orders alone. *)
LEMMA TicketsReplaced ==
  ASSUME RepositoryInv, NEW t \in Seq(Ticket), NEW u \in Seq(Ticket),
         pg' = [pg EXCEPT !.tickets = t], mem' = [mem EXCEPT !.tickets = u],
         claimed' \subseteq Nat, now' \in Nat
  PROVE  /\ Typed' /\ RowsAgree' /\ IndexAgrees'
         /\ pg'.tickets = t /\ mem'.tickets = u
<1>1. Typed /\ RowsAgree /\ IndexAgrees
  BY DEF RepositoryInv
<1>2. /\ pg'.tickets = t /\ pg'.rows = pg.rows /\ pg'.idem = pg.idem
      /\ mem'.tickets = u /\ mem'.rows = mem.rows /\ mem'.idem = mem.idem
      /\ mem'.clientIx = mem.clientIx
  BY <1>1 DEF Typed
<1>3. Typed'
  BY <1>1, <1>2 DEF Typed
<1> QED BY <1>1, <1>2, <1>3 DEF RowsAgree, IndexAgrees

(* A ticket is handled, put off or given up: it is in nobody's hands then. *)
LEMMA UpdateTicketKeeps ==
  ASSUME RepositoryInv, NEW i \in 1 .. Len(pg.tickets),
         NEW to \in {"pending", "done", "failed"}, NEW next \in Nat,
         to = "pending" => next # 0,
         UpdateCompensation(i, to, next),
         claimed' \subseteq claimed, claimed \ {i} \subseteq claimed', now' = now
  PROVE  RepositoryInv'
<1>1. /\ Typed /\ TicketsAgree /\ Len(pg.tickets) \in Nat
      /\ pg.tickets \in Seq(Ticket) /\ mem.tickets \in Seq(Ticket)
      /\ i \in 1 .. Len(mem.tickets)
  BY TablesTyped, LenProperties DEF RepositoryInv, TicketsAgree
<1>2. pg.tickets[i] \in Ticket /\ mem.tickets[i] \in Ticket
  BY <1>1, ElementOfSeq
<1> DEFINE a == [pg.tickets[i] EXCEPT !.status = to,
                                      !.next = IF next = 0 THEN @ ELSE next]
           b == [mem.tickets[i] EXCEPT !.status = to, !.next = next]
<1>3. /\ pg' = [pg EXCEPT !.tickets = [pg.tickets EXCEPT ![i] = a]]
      /\ mem' = [mem EXCEPT !.tickets = [mem.tickets EXCEPT ![i] = b]]
  <2>1. pg' = [pg EXCEPT !.tickets = [pg.tickets EXCEPT ![i] = a]]
    BY <1>1, <1>2, ZenonT(40) DEF UpdateCompensation, UpdatePG, Typed, Ticket
  <2>2. mem' = [mem EXCEPT !.tickets = [mem.tickets EXCEPT ![i] = b]]
    BY <1>1, <1>2, ZenonT(40) DEF UpdateCompensation, UpdateMem, Typed, Ticket
  <2> QED BY <2>1, <2>2
<1>4. /\ a \in Ticket /\ a.status = to /\ a.attempts = pg.tickets[i].attempts
      /\ next # 0 => a.next = next
      /\ b \in Ticket /\ b.status = to /\ b.attempts = mem.tickets[i].attempts
      /\ b.next = next
  BY <1>2 DEF Ticket
<1> HIDE DEF a, b
<1> DEFINE t == [pg.tickets EXCEPT ![i] = a]
           u == [mem.tickets EXCEPT ![i] = b]
<1>5. /\ t \in Seq(Ticket) /\ Len(t) = Len(pg.tickets)
      /\ \A j \in 1 .. Len(pg.tickets) : t[j] = IF j = i THEN a ELSE pg.tickets[j]
  BY <1>1, <1>4, ExceptSeq, SMTT(30)
<1>6. /\ u \in Seq(Ticket) /\ Len(u) = Len(mem.tickets)
      /\ \A j \in 1 .. Len(mem.tickets) : u[j] = IF j = i THEN b ELSE mem.tickets[j]
  BY <1>1, <1>4, ExceptSeq, SMTT(30)
<1>7. claimed' \subseteq Nat /\ now' \in Nat
  BY <1>1 DEF Typed
<1> HIDE DEF t, u
<1>8. /\ Typed' /\ RowsAgree' /\ IndexAgrees' /\ pg'.tickets = t /\ mem'.tickets = u
  BY <1>3, <1>5, <1>6, <1>7, TicketsReplaced DEF t, u
<1>9. TicketsAgree'
  <2>1. Len(t) = Len(u) /\ claimed' \subseteq 1 .. Len(t)
    BY <1>1, <1>5, <1>6 DEF TicketsAgree
  <2>2. ASSUME NEW j \in 1 .. Len(t)
        PROVE  /\ t[j].status = u[j].status /\ t[j].attempts = u[j].attempts
               /\ t[j].status \in {"pending", "running"} => t[j].next = u[j].next
               /\ t[j].status = "running" => j \in claimed'
    <3>1. CASE j = i
      <4>1. t[j] = a /\ u[j] = b /\ pg.tickets[i].attempts = mem.tickets[i].attempts
        BY <1>1, <1>5, <1>6, <3>1 DEF TicketsAgree
      <4> QED BY <1>4, <4>1
    <3>2. CASE j # i
      <4>1. t[j] = pg.tickets[j] /\ u[j] = mem.tickets[j] /\ j \in 1 .. Len(pg.tickets)
        BY <1>1, <1>5, <1>6, <3>2 DEF TicketsAgree
      <4> QED BY <1>1, <3>2, <4>1 DEF TicketsAgree
    <3> QED BY <3>1, <3>2
  <2> QED BY <1>8, <2>1, <2>2 DEF TicketsAgree
<1> QED BY <1>8, <1>9 DEF RepositoryInv

(* A new ticket is due at once on both sides. *)
LEMMA InsertTicketKeeps ==
  ASSUME RepositoryInv, InsertCompensation
  PROVE  RepositoryInv'
<1>1. /\ Typed /\ TicketsAgree /\ Len(pg.tickets) \in Nat
      /\ Len(mem.tickets) = Len(pg.tickets)
      /\ pg.tickets \in Seq(Ticket) /\ mem.tickets \in Seq(Ticket)
  BY TablesTyped, LenProperties DEF RepositoryInv, TicketsAgree
<1>2. NewTicket \in Ticket /\ NewTicket.status = "pending"
  BY DEF NewTicket, Ticket
<1> DEFINE n == Len(pg.tickets)
           t == Append(pg.tickets, NewTicket)
           u == Append(mem.tickets, NewTicket)
<1>3. /\ t \in Seq(Ticket) /\ Len(t) = n + 1 /\ t[n + 1] = NewTicket
      /\ \A j \in 1 .. n : t[j] = pg.tickets[j]
  BY <1>1, <1>2
<1>4. /\ u \in Seq(Ticket) /\ Len(u) = n + 1 /\ u[n + 1] = NewTicket
      /\ \A j \in 1 .. n : u[j] = mem.tickets[j]
  BY <1>1, <1>2, SMTT(30)
<1>5. /\ pg' = [pg EXCEPT !.tickets = t] /\ mem' = [mem EXCEPT !.tickets = u]
      /\ UNCHANGED <<claimed, now>> /\ claimed' \subseteq Nat /\ now' \in Nat
  BY <1>1 DEF InsertCompensation, Typed
<1> HIDE DEF t, u
<1>6. /\ Typed' /\ RowsAgree' /\ IndexAgrees' /\ pg'.tickets = t /\ mem'.tickets = u
  BY <1>3, <1>4, <1>5, TicketsReplaced
<1>7. TicketsAgree'
  <2>1. claimed' \subseteq 1 .. n + 1
    BY <1>1, <1>5 DEF TicketsAgree
  <2>2. ASSUME NEW j \in 1 .. n + 1
        PROVE  /\ t[j].status = u[j].status /\ t[j].attempts = u[j].attempts
               /\ t[j].status \in {"pending", "running"} => t[j].next = u[j].next
               /\ t[j].status = "running" => j \in claimed'
    <3>1. CASE j = n + 1
      BY <1>2, <1>3, <1>4, <3>1
    <3>2. CASE j # n + 1
      <4>1. j \in 1 .. n
        BY <1>1, <3>2
      <4> QED BY <1>1, <1>3, <1>4, <1>5, <4>1 DEF TicketsAgree
    <3> QED BY <3>1, <3>2
  <2> QED BY <1>3, <1>4, <1>6, <2>1, <2>2 DEF TicketsAgree
<1> QED BY <1>6, <1>7 DEF RepositoryInv

(* Between two ticks nothing is running, so that memory's wider claim      *)
(* finds no more than the one of Postgres.                                 *)
LEMMA DueAlike ==
  ASSUME Typed, TicketsAgree, claimed = {}
  PROVE  DuePG = DueMem
<1>1. /\ DOMAIN pg.tickets = 1 .. Len(pg.tickets) /\ DOMAIN mem.tickets = 1 .. Len(pg.tickets)
      /\ pg.tickets \in Seq(Ticket) /\ mem.tickets \in Seq(Ticket)
  BY TablesTyped, LenProperties DEF TicketsAgree
<1>2. ASSUME NEW i \in 1 .. Len(pg.tickets)
      PROVE  i \in DuePG <=> i \in DueMem
  <2>1. /\ pg.tickets[i].status = mem.tickets[i].status /\ pg.tickets[i].status # "running"
        /\ pg.tickets[i].status = "pending" => pg.tickets[i].next = mem.tickets[i].next
    BY DEF TicketsAgree
  <2>2. mem.tickets[i].next \in Nat /\ now \in Nat
    <3>1. i \in 1 .. Len(mem.tickets)
      BY DEF TicketsAgree
    <3>2. mem.tickets[i] \in Ticket
      BY <1>1, <3>1, ElementOfSeq
    <3> QED BY <3>2 DEF Ticket, Typed
  <2> QED BY <1>1, <2>1, <2>2, SMTT(30) DEF DuePG, DueMem
<1>3. DuePG \subseteq 1 .. Len(pg.tickets) /\ DueMem \subseteq 1 .. Len(pg.tickets)
  BY <1>1 DEF DuePG, DueMem
<1> QED BY <1>2, <1>3

(* What a claim makes of the tickets. *)
LEMMA ClaimIs ==
  ASSUME NEW s \in Seq(Ticket), NEW due
  PROVE  /\ Claim(s, due) \in Seq(Ticket) /\ Len(Claim(s, due)) = Len(s)
         /\ \A j \in 1 .. Len(s) :
              /\ j \in due => /\ Claim(s, due)[j].status = "running"
                              /\ Claim(s, due)[j].attempts = s[j].attempts + 1
                              /\ Claim(s, due)[j].next = s[j].next
              /\ j \notin due => Claim(s, due)[j] = s[j]
<1>1. DOMAIN s = 1 .. Len(s) /\ Len(s) \in Nat /\ \A j \in 1 .. Len(s) : s[j] \in Ticket
  BY LenProperties, ElementOfSeq
<1> DEFINE e(j) == IF j \in due THEN [s[j] EXCEPT !.status = "running", !.attempts = @ + 1]
                   ELSE s[j]
           g    == [j \in 1 .. Len(s) |-> e(j)]
<1>2. ASSUME NEW j \in 1 .. Len(s)
      PROVE  /\ e(j) \in Ticket
             /\ j \in due => /\ e(j).status = "running" /\ e(j).next = s[j].next
                             /\ e(j).attempts = s[j].attempts + 1
             /\ j \notin due => e(j) = s[j]
  <2>1. s[j] \in Ticket
    BY <1>1
  <2>2. CASE j \in due
    <3>1. s[j].attempts + 1 \in Nat
      BY <2>1, SMTT(30) DEF Ticket
    <3>2. e(j) = [s[j] EXCEPT !.status = "running", !.attempts = s[j].attempts + 1]
      BY <2>2
    <3> QED BY <2>1, <2>2, <3>1, <3>2 DEF Ticket
  <2>3. CASE j \notin due
    BY <2>1, <2>3
  <2> QED BY <2>2, <2>3
<1>3. Claim(s, due) = g
  BY <1>1 DEF Claim
<1> HIDE DEF e
<1>4. g \in [1 .. Len(s) -> Ticket] /\ \A j \in 1 .. Len(s) : g[j] = e(j)
  BY <1>2
<1> HIDE DEF g
<1>5. g \in Seq(Ticket) /\ Len(g) = Len(s)
  <2>1. g \in Seq(Ticket)
    BY <1>1, <1>4, SeqDef
  <2>2. DOMAIN g = 1 .. Len(s) /\ DOMAIN g = 1 .. Len(g) /\ Len(g) \in Nat
    BY <1>4, <2>1, LenProperties
  <2> QED BY <1>1, <2>1, <2>2
<1> QED BY <1>2, <1>3, <1>4, <1>5

(* A claim takes the same tickets on both sides. *)
LEMMA ClaimKeeps ==
  ASSUME RepositoryInv, ClaimCompensations
  PROVE  RepositoryInv'
<1>1. /\ Typed /\ TicketsAgree /\ claimed = {}
      /\ Len(mem.tickets) = Len(pg.tickets)
      /\ pg.tickets \in Seq(Ticket) /\ mem.tickets \in Seq(Ticket)
      /\ DOMAIN pg.tickets = 1 .. Len(pg.tickets) /\ Len(pg.tickets) \in Nat
  BY TablesTyped, LenProperties DEF RepositoryInv, TicketsAgree, ClaimCompensations
<1> DEFINE due == DuePG
           t == Claim(pg.tickets, due)
           u == Claim(mem.tickets, due)
<1>2. due = DueMem /\ due \subseteq 1 .. Len(pg.tickets)
  <2>1. due = DueMem
    BY <1>1, DueAlike
  <2>2. due \subseteq 1 .. Len(pg.tickets)
    BY <1>1 DEF DuePG
  <2> QED BY <2>1, <2>2
<1>3. /\ pg' = [pg EXCEPT !.tickets = t] /\ mem' = [mem EXCEPT !.tickets = u]
      /\ claimed' = due /\ now' = now
  BY <1>2 DEF ClaimCompensations
<1> HIDE DEF due
<1>4. claimed' \subseteq Nat /\ now' \in Nat
  BY <1>1, <1>2, <1>3 DEF Typed
<1>5. /\ t \in Seq(Ticket) /\ Len(t) = Len(pg.tickets)
      /\ \A j \in 1 .. Len(pg.tickets) :
           /\ j \in due => /\ t[j].status = "running" /\ t[j].next = pg.tickets[j].next
                           /\ t[j].attempts = pg.tickets[j].attempts + 1
           /\ j \notin due => t[j] = pg.tickets[j]
  BY <1>1, ClaimIs, SMTT(30)
<1>6. /\ u \in Seq(Ticket) /\ Len(u) = Len(mem.tickets)
      /\ \A j \in 1 .. Len(mem.tickets) :
           /\ j \in due => /\ u[j].status = "running" /\ u[j].next = mem.tickets[j].next
                           /\ u[j].attempts = mem.tickets[j].attempts + 1
           /\ j \notin due => u[j] = mem.tickets[j]
  BY <1>1, ClaimIs, SMTT(30)
<1> HIDE DEF t, u
<1>7. /\ Typed' /\ RowsAgree' /\ IndexAgrees' /\ pg'.tickets = t /\ mem'.tickets = u
  BY <1>3, <1>4, <1>5, <1>6, TicketsReplaced
<1>8. ASSUME NEW j \in 1 .. Len(pg.tickets)
      PROVE  /\ t[j].status = u[j].status /\ t[j].attempts = u[j].attempts
             /\ t[j].status \in {"pending", "running"} => t[j].next = u[j].next
             /\ t[j].status = "running" => j \in claimed'
  <2>1. /\ pg.tickets[j].status = mem.tickets[j].status
        /\ pg.tickets[j].attempts = mem.tickets[j].attempts
        /\ pg.tickets[j].status \in {"pending", "running"} =>
             pg.tickets[j].next = mem.tickets[j].next
        /\ pg.tickets[j].status # "running"
    BY <1>1 DEF TicketsAgree
  <2>2. CASE j \in due
    <3>1. pg.tickets[j].status = "pending"
      BY <2>2 DEF due, DuePG
    <3> QED BY <1>1, <1>3, <1>5, <1>6, <2>1, <2>2, <3>1
  <2>3. CASE j \notin due
    BY <1>1, <1>5, <1>6, <2>1, <2>3
  <2> QED BY <2>2, <2>3
<1>9. TicketsAgree'
  BY <1>1, <1>2, <1>3, <1>5, <1>6, <1>7, <1>8 DEF TicketsAgree
<1> QED BY <1>7, <1>9 DEF RepositoryInv

(* The next ticket of the worker's hands is one of them. *)
LEMMA NextTicketIs ==
  ASSUME NEW S \in SUBSET Nat, S # {}
  PROVE  Min(S) \in S
<1> DEFINE R == OpToRel(<, Nat)
<1>1. \A x, y \in Nat : y < x => <<y, x>> \in R
  BY DEF OpToRel
<1> HIDE DEF R
<1>2. IsWellFoundedOn(R, Nat)
  BY NatLessThanWellFounded DEF R
<1>3. PICK x \in S : \A y \in S : <<y, x>> \notin R
  BY <1>2, WFMin
<1>4. ASSUME NEW y \in S PROVE x <= y
  <2>1. x \in Nat /\ y \in Nat /\ <<y, x>> \notin R
    BY <1>3
  <2>2. ~(y < x)
    BY <1>1, <2>1
  <2> QED BY <2>1, <2>2
<1> QED BY <1>4 DEF Min

(* Every step of the worker, the console and the clock. *)
LEMMA TicketStep ==
  ASSUME RepositoryInv, TicketNext
  PROVE  RepositoryInv'
<1>1. /\ Typed /\ TicketsAgree /\ claimed \subseteq 1 .. Len(pg.tickets)
      /\ now \in Nat /\ claimed \subseteq Nat
      /\ DOMAIN pg.tickets = 1 .. Len(pg.tickets)
  BY TablesTyped, LenProperties DEF RepositoryInv, Typed, TicketsAgree
<1>2. CASE Tick
  <2> DEFINE i == Min(claimed)
  <2>1. /\ claimed' = claimed \ {i} /\ now' = now
        /\ \/ UpdateCompensation(i, "done", 0)
           \/ UpdateCompensation(i, "failed", 0)
           \/ \E next \in Later : UpdateCompensation(i, "pending", next)
    BY <1>2 DEF Tick
  <2>2. i \in 1 .. Len(pg.tickets)
    <3>1. i \in claimed
      BY <1>1, <1>2, NextTicketIs DEF Tick
    <3> QED BY <1>1, <3>1
  <2> HIDE DEF i
  <2>3. claimed' \subseteq claimed /\ claimed \ {i} \subseteq claimed'
    BY <2>1
  <2>4. \A next \in Later : next \in Nat /\ next # 0
    BY <1>1 DEF Later
  <2> QED BY <2>1, <2>2, <2>3, <2>4, UpdateTicketKeeps
<1>3. ASSUME NEW i, Retry(i) PROVE RepositoryInv'
  <2>1. /\ i \in 1 .. Len(pg.tickets) /\ claimed' = claimed /\ now' = now
        /\ \/ UpdateCompensation(i, "done", 0)
           \/ \E next \in Later : UpdateCompensation(i, "pending", next)
    BY <1>1, <1>3 DEF Retry
  <2>2. claimed' \subseteq claimed /\ claimed \ {i} \subseteq claimed'
    BY <2>1
  <2>3. \A next \in Later : next \in Nat /\ next # 0
    BY <1>1 DEF Later
  <2> QED BY <2>1, <2>2, <2>3, UpdateTicketKeeps
<1>4. CASE Advance
  BY <1>1, <1>4
  DEF Advance, RepositoryInv, Typed, RowsAgree, IndexAgrees, TicketsAgree
<1> QED BY <1>2, <1>3, <1>4, InsertTicketKeeps, ClaimKeeps DEF TicketNext

-----------------------------------------------------------------------------
(* The theorems.                                                           *)

(* The two repositories hold the same orders, index and tickets in every   *)
(* state the specification reaches.                                        *)
THEOREM RepositoryInvariant == Spec => []RepositoryInv
<1>1. Init => RepositoryInv
  <2> SUFFICES ASSUME Init PROVE RepositoryInv
    OBVIOUS
  <2>1. /\ pg.rows = << >> /\ pg.idem = << >> /\ pg.tickets = << >>
        /\ mem.rows = << >> /\ mem.idem = << >> /\ mem.tickets = << >>
        /\ mem.clientIx = << >> /\ claimed = {} /\ now = 0
        /\ DOMAIN << >> = {} /\ Len(<< >>) = 0
    BY DEF Init
  <2>2. \A K, V : << >> \in Table(K, V)
    <3> TAKE K, V
    <3>1. << >> \in [{} -> V]
      OBVIOUS
    <3> QED BY <3>1 DEF Table
  <2>3. << >> \in Seq(Ticket)
    OBVIOUS
  <2>4. Typed
    BY <2>2, <2>3 DEF Typed, Init
  <2> QED BY <2>1, <2>4 DEF RepositoryInv, RowsAgree, IndexAgrees, TicketsAgree
<1>2. RepositoryInv /\ [Next]_vars => RepositoryInv'
  BY InsertKeeps, TransitionKeeps, StatementKeeps, ResponseKeeps, TicketStep, NothingKeeps
  DEF Next, OrderNext
<1> QED BY <1>1, <1>2, PTL DEF Spec

(* Every command of the sagas, with a copy of any age, gets the answer     *)
(* from the memory repository that Postgres gives: what the tests show on  *)
(* the one holds of the other.                                             *)
THEOREM AnswersAgree == Spec => []SameAnswers
<1>1. RepositoryInv => SameAnswers
  <2> SUFFICES ASSUME RepositoryInv PROVE SameAnswers
    OBVIOUS
  <2>1. Typed /\ RowsAgree /\ IndexAgrees
    BY DEF RepositoryInv
  <2>2. \A o \in Order, c \in Client, k \in Key :
          Fresh(o) => InsertAnswerPG(o, c, k) = InsertAnswerMem(o, c, k)
    BY <2>1, InsertsAnsweredAlike
  <2>3. ASSUME NEW c \in Client PROVE FindClientPG(c) = FindClientMem(c)
    <3>1. CASE c \in DOMAIN mem.clientIx
      <4>1. ASSUME NEW o PROVE o \in FindClientPG(c) <=> o = mem.clientIx[c]
        BY <2>1, <3>1 DEF IndexAgrees, FindClientPG
      <4> QED BY <3>1, <4>1 DEF FindClientMem
    <3>2. CASE c \notin DOMAIN mem.clientIx
      <4>1. FindClientPG(c) = {}
        BY <2>1, <3>2 DEF IndexAgrees, FindClientPG
      <4> QED BY <3>2, <4>1 DEF FindClientMem
    <3> QED BY <3>1, <3>2
  <2>4. \A o \in DOMAIN pg.rows, cmd \in SagaCmd, version \in 1 .. MaxVersion :
          TransitionAnswerPG(o, cmd, version) = TransitionAnswerMem(o, cmd, version)
    BY <2>1, TransitionsAnsweredAlike
  <2> QED BY <2>2, <2>3, <2>4 DEF SameAnswers
<1> QED BY <1>1, RepositoryInvariant, PTL

(* Nothing that the sagas read of an order or of a kept answer differs     *)
(* between the two, but for the times.                                     *)
THEOREM RowsAgreeAlways == Spec => []SameRows
<1>1. RepositoryInv => SameRows
  <2> SUFFICES ASSUME RepositoryInv PROVE SameRows
    OBVIOUS
  <2>1. Typed /\ RowsAgree
    BY DEF RepositoryInv
  <2>2. ASSUME NEW o \in DOMAIN pg.rows
        PROVE  [pg.rows[o] EXCEPT !.times = {}] = [mem.rows[o] EXCEPT !.times = {}]
    <3>1. pg.rows[o] \in Row /\ mem.rows[o] \in Row /\ Alike(pg.rows[o], mem.rows[o])
      BY <2>1, TablesTyped DEF RowsAgree
    <3> QED BY <3>1 DEF Row, Alike
  <2> QED BY <2>1, <2>2 DEF SameRows, RowsAgree
<1> QED BY <1>1, RepositoryInvariant, PTL

(* Tickets have the same status and attempts on both sides, and the next   *)
(* claim takes the same ones.                                              *)
THEOREM TicketsAgreeAlways == Spec => []SameTickets
<1>1. RepositoryInv => SameTickets
  <2> SUFFICES ASSUME RepositoryInv PROVE SameTickets
    OBVIOUS
  <2>1. /\ Typed /\ TicketsAgree /\ DOMAIN pg.tickets = 1 .. Len(pg.tickets)
    BY TablesTyped, LenProperties DEF RepositoryInv
  <2>2. claimed = {} => DuePG = DueMem
    BY <2>1, DueAlike
  <2> QED BY <2>1, <2>2 DEF SameTickets, TicketsAgree
<1> QED BY <1>1, RepositoryInvariant, PTL

-----------------------------------------------------------------------------
(* The time of the payment.                                                *)

PaidAt(row) == row.paid > 0 <=> "paid_at" \in row.times

(* An update of one row that keeps PaidAt of that row keeps it of all. *)
LEMMA PaidAtOfOne ==
  ASSUME Typed, PaidAtStays, NEW o \in DOMAIN pg.rows, NEW r, PaidAt(r),
         pg' = [pg EXCEPT !.rows = [pg.rows EXCEPT ![o] = r]]
  PROVE  PaidAtStays'
<1>1. pg'.rows = [pg.rows EXCEPT ![o] = r]
  BY DEF Typed
<1>2. pg.rows \in [DOMAIN pg.rows -> Row]
  BY TablesTyped, TableIs
<1>3. /\ DOMAIN pg'.rows = DOMAIN pg.rows /\ pg'.rows[o] = r
      /\ \A x \in DOMAIN pg.rows : x # o => pg'.rows[x] = pg.rows[x]
  BY <1>1, <1>2
<1> QED BY <1>3 DEF PaidAtStays, PaidAt

(* Only the payment writes paid_at, and it writes the amount with it. *)
LEMMA PaidAtStep ==
  ASSUME Paid > 0, RepositoryInv, PaidAtStays, [Next]_vars
  PROVE  PaidAtStays'
<1>1. /\ Typed
      /\ \A o \in DOMAIN pg.rows : pg.rows[o] \in Row /\ PaidAt(pg.rows[o])
  BY TablesTyped DEF RepositoryInv, PaidAtStays, PaidAt
<1>2. ASSUME NEW o, NEW c, NEW k, InsertCheckout(o, c, k) PROVE PaidAtStays'
  <2>1. CASE pg' = pg
    BY <2>1 DEF PaidAtStays
  <2>2. CASE pg' # pg
    <3>1. pg'.rows = Put(pg.rows, o, NewRow(c))
      BY <1>1, <1>2, <2>2 DEF InsertCheckout, InsertPG, Typed
    <3>2. /\ DOMAIN pg'.rows = DOMAIN pg.rows \cup {o} /\ pg'.rows[o] = NewRow(c)
          /\ \A x \in DOMAIN pg.rows : x # o => pg'.rows[x] = pg.rows[x]
      BY <3>1 DEF Put
    <3>3. PaidAt(NewRow(c))
      BY DEF PaidAt, NewRow
    <3> QED BY <3>2, <3>3 DEF PaidAtStays, PaidAt
  <2> QED BY <2>1, <2>2
<1>3. ASSUME NEW o, NEW cmd \in SagaCmd, NEW age, Transition(o, cmd, age)
      PROVE  PaidAtStays'
  <2> DEFINE r == MovedPG(pg.rows[o], cmd)
  <2>1. /\ o \in DOMAIN pg.rows
        /\ pg' = pg \/ pg' = [pg EXCEPT !.rows = [pg.rows EXCEPT ![o] = r]]
    BY <1>3 DEF Transition, BothRows
  <2>2. PaidAt(r)
    <3>1. /\ pg.rows[o] \in Row /\ PaidAt(pg.rows[o])
          /\ ("paid_at" \in cmd.time) <=> cmd.to = "PAID"
          /\ cmd.paid = IF cmd.to = "PAID" THEN Paid ELSE 0
      BY <1>1, <2>1, CommandsAreAllowed
    <3>2. /\ r.times = pg.rows[o].times \cup cmd.time
          /\ r.paid = IF cmd.paid > 0 THEN cmd.paid ELSE pg.rows[o].paid
      BY <3>1 DEF MovedPG, Row
    <3> QED BY <3>1, <3>2 DEF PaidAt
  <2> HIDE DEF r
  <2>3. CASE pg' = pg
    BY <2>3 DEF PaidAtStays
  <2> QED BY <1>1, <2>1, <2>2, <2>3, PaidAtOfOne
<1>4. ASSUME NEW o, UpdatePaymentIntent(o) PROVE PaidAtStays'
  <2> DEFINE r == [pg.rows[o] EXCEPT !.intent = TRUE]
  <2>1. /\ o \in DOMAIN pg.rows
        /\ pg' = [pg EXCEPT !.rows = [pg.rows EXCEPT ![o] = r]]
    BY <1>4 DEF UpdatePaymentIntent, BothRows
  <2>2. PaidAt(r)
    BY <1>1, <2>1 DEF PaidAt, Row
  <2> HIDE DEF r
  <2> QED BY <1>1, <2>1, <2>2, PaidAtOfOne
<1>5. ASSUME NEW o, UpdateRedemption(o) PROVE PaidAtStays'
  <2> DEFINE r == [pg.rows[o] EXCEPT !.redeemed = TRUE]
  <2>1. /\ o \in DOMAIN pg.rows
        /\ pg' = [pg EXCEPT !.rows = [pg.rows EXCEPT ![o] = r]]
    BY <1>5 DEF UpdateRedemption, BothRows
  <2>2. PaidAt(r)
    BY <1>1, <2>1 DEF PaidAt, Row
  <2> HIDE DEF r
  <2> QED BY <1>1, <2>1, <2>2, PaidAtOfOne
<1>6. ASSUME NEW o, NEW n, BumpRenew(o, n) PROVE PaidAtStays'
  <2> DEFINE r == [pg.rows[o] EXCEPT !.renewCount = @ + 1]
  <2>1. /\ o \in DOMAIN pg.rows
        /\ pg' = pg \/ pg' = [pg EXCEPT !.rows = [pg.rows EXCEPT ![o] = r]]
    BY <1>6 DEF BumpRenew, BothRows
  <2>2. PaidAt(r)
    BY <1>1, <2>1 DEF PaidAt, Row
  <2> HIDE DEF r
  <2>3. CASE pg' = pg
    BY <2>3 DEF PaidAtStays
  <2> QED BY <1>1, <2>1, <2>2, <2>3, PaidAtOfOne
<1>7. ASSUME pg'.rows = pg.rows PROVE PaidAtStays'
  BY <1>7 DEF PaidAtStays
<1>8. ASSUME NEW k, UpdateIdempotencyResponse(k) PROVE PaidAtStays'
  <2>1. pg'.rows = pg.rows
    BY <1>1, <1>8 DEF UpdateIdempotencyResponse, Typed
  <2> QED BY <1>7, <2>1
<1>9. CASE TicketNext
  <2>1. pg'.rows = pg.rows
    BY <1>1, <1>9
    DEF TicketNext, InsertCompensation, ClaimCompensations, Tick, Retry, Advance,
        UpdateCompensation, UpdatePG, Typed
  <2> QED BY <1>7, <2>1
<1>10. CASE UNCHANGED vars
  BY <1>7, <1>10 DEF vars
<1> QED
  BY <1>2, <1>3, <1>4, <1>5, <1>6, <1>8, <1>9, <1>10 DEF Next, OrderNext

(* Where orders cost something, a row of Postgres has a time of payment if *)
(* and only if it was paid, whatever happens to the order afterwards.      *)
THEOREM PaidAtIsKept ==
  ASSUME Paid > 0
  PROVE  Spec => []PaidAtStays
<1>1. Init => PaidAtStays
  BY DEF Init, PaidAtStays
<1>2. RepositoryInv /\ PaidAtStays /\ [Next]_vars => PaidAtStays'
  BY PaidAtStep
<1> QED BY <1>1, <1>2, RepositoryInvariant, PTL DEF Spec

-----------------------------------------------------------------------------
(* Paging through the lists.                                               *)

(* The rows a page may still show come after the cursor, the ones already  *)
(* shown up to it; nothing that was there all the while lies in between    *)
(* without having been shown.                                              *)
Shown(c) ==
  \A o \in ListedOrder :
    /\ listed[o] = 1 => o = c \/ L!Before(o, c)
    /\ o \in steady /\ (o = c \/ L!Before(o, c)) => listed[o] = 1

Exact == repo = "postgres" \/ (repo = "memoryAdmin" /\ moves = 0)

ListTyped ==
  /\ repo \in {"postgres", "memoryBuyer", "memoryAdmin"}
  /\ created \in [ListedOrder -> Int] /\ rows \subseteq ListedOrder
  /\ cursor \in ListedOrder \cup {L!First, L!End}
  /\ listed \in [ListedOrder -> Nat] /\ moves \in Nat
  /\ steady \subseteq L!Matching

ListInv ==
  /\ ListTyped
  /\ Exact =>
       /\ \A o \in ListedOrder : listed[o] < 2
       /\ cursor = L!First => \A o \in ListedOrder : listed[o] = 0
       /\ cursor \in ListedOrder => Shown(cursor)
       /\ cursor = L!End => \A o \in steady : listed[o] = 1
       /\ repo = "memoryAdmin" /\ cursor \in ListedOrder => cursor \in L!Matching

(* The cursor of the first page and that of the end are no orders. *)
LEMMA OrderIds ==
  /\ ListedOrder \subseteq Nat \ {0} /\ L!First \notin ListedOrder /\ L!End \notin ListedOrder
  /\ L!First # L!End
  BY ListAssumption DEF L!First, L!End

(* Before orders the rows: by time, then by id. *)
LEMMA BeforeIs ==
  ASSUME ListTyped, NEW o \in ListedOrder, NEW p \in ListedOrder, NEW q \in ListedOrder
  PROVE  /\ ~L!Before(o, o)
         /\ o = p \/ L!Before(o, p) \/ L!Before(p, o)
         /\ ~(L!Before(o, p) /\ L!Before(p, o))
         /\ L!Before(o, p) /\ L!Before(p, q) => L!Before(o, q)
  <1>1. /\ o \in Nat /\ p \in Nat /\ q \in Nat
        /\ created[o] \in Int /\ created[p] \in Int /\ created[q] \in Int
    BY OrderIds DEF ListTyped
  <1> QED
    BY <1>1 DEF L!Before

(* The invariant holds when the scan begins. *)
LEMMA ListInit ==
  ASSUME L!Init
  PROVE  ListInv
  <1>1. \A o \in ListedOrder : listed[o] = 0
    BY DEF L!Init
  <1>2. ListTyped
    BY ListAssumption DEF L!Init, ListTyped, L!Matching
  <1>3. cursor = L!First /\ cursor \notin ListedOrder /\ cursor # L!End
    BY OrderIds DEF L!Init
  <1> QED
    BY <1>1, <1>2, <1>3 DEF ListInv

(* An order that is placed meanwhile, however old, keeps it. *)
LEMMA ListInsert ==
  ASSUME ListInv, NEW o \in ListedOrder, L!InsertCheckout(o), UNCHANGED repo
  PROVE  ListInv'
  <1>1. UNCHANGED <<repo, created, status, filter, cursor, listed, steady, moves>> /\ rows' = rows \cup {o}
    BY DEF L!InsertCheckout
  <1>2. L!Matching \subseteq L!Matching'
    BY <1>1 DEF L!Matching
  <1>3. ListTyped'
    BY <1>1, <1>2 DEF ListInv, ListTyped
  <1>4. Exact' <=> Exact
    BY <1>1 DEF Exact
  <1>5. ASSUME Shown(cursor) PROVE Shown(cursor)'
    BY <1>1, <1>5 DEF Shown, L!Before
  <1> QED
    BY <1>1, <1>2, <1>3, <1>4, <1>5 DEF ListInv

(* An order that changes its status keeps it. *)
LEMMA ListMove ==
  ASSUME ListInv, NEW o \in ListedOrder, L!Transition(o), UNCHANGED repo
  PROVE  ListInv'
  <1>1. /\ UNCHANGED <<repo, created, rows, filter, cursor, listed>> /\ moves' = moves + 1
        /\ status' = [status EXCEPT ![o] = IF @ = "open" THEN "closed" ELSE "open"]
        /\ steady' = IF filter = "any" THEN steady ELSE steady \ {o}
    BY DEF L!Transition
  <1>2. moves' \in Nat /\ moves' # 0
    BY <1>1 DEF ListInv, ListTyped
  <1>3. steady' \subseteq steady /\ steady' \subseteq L!Matching'
    <2>1. ASSUME NEW p \in steady' PROVE p \in steady /\ p \in L!Matching'
      <3>1. p \in steady /\ (filter = "any" \/ p # o)
        BY <1>1, <2>1
      <3>2. p \in L!Matching
        BY <3>1 DEF ListInv, ListTyped
      <3> QED
        BY <1>1, <3>1, <3>2 DEF L!Matching
    <2> QED
      BY <2>1
  <1>4. ListTyped'
    BY <1>1, <1>2, <1>3 DEF ListInv, ListTyped
  <1>5. Exact' => Exact /\ repo' = "postgres"
    BY <1>1, <1>2 DEF Exact
  <1>6. ASSUME Shown(cursor) PROVE Shown(cursor)'
    BY <1>1, <1>3, <1>6 DEF Shown, L!Before
  <1> QED
    BY <1>1, <1>3, <1>4, <1>5, <1>6 DEF ListInv

(* The rows a page is taken from, where lists are exact. *)
LEMMA PageOfRest ==
  ASSUME ListInv, Exact, NEW asked, L!List(asked)
  PROVE  \E limit : L!SortedPage(L!AfterCursor, limit)
  <1>1. CASE repo = "postgres"
    BY <1>1 DEF L!List, L!ListPostgres
  <1>2. CASE repo = "memoryAdmin"
    <2>1. L!AdminListMemory(L!Limit(asked)) /\ cursor # L!End
      BY <1>2 DEF L!List
    <2>2. cursor \in L!Matching \/ (cursor = L!First /\ L!AfterCursor = L!Matching)
      <3>1. cursor \in ListedOrder \/ cursor = L!First
        BY <2>1 DEF ListInv, ListTyped
      <3> QED
        BY <1>2, <3>1 DEF ListInv, L!AfterCursor
    <2> QED
      BY <2>1, <2>2 DEF L!AdminListMemory
  <1> QED
    BY <1>1, <1>2 DEF Exact

(* A page keeps it: what it shows comes after the cursor and before its    *)
(* rest.                                                                   *)
LEMMA ListPage ==
  ASSUME ListInv, NEW asked, L!List(asked), UNCHANGED repo
  PROVE  ListInv'
  <1>1. UNCHANGED <<repo, created, rows, status, filter, steady, moves>> /\ cursor # L!End
    BY DEF L!List
  <1>2. PICK todo, limit, page : page \subseteq todo /\ L!Page(todo, limit, page) /\ todo \subseteq L!Matching
    <2> DEFINE lim == L!Limit(asked)
    <2> HIDE DEF lim
    <2>1. L!ListPostgres(lim) \/ L!ListByBuyerMemory(lim) \/ L!AdminListMemory(lim)
      BY DEF L!List, ListInv, ListTyped, lim
    <2>2. ASSUME NEW todo, L!SortedPage(todo, lim), todo \subseteq L!Matching
          PROVE  \E page : page \subseteq todo /\ L!Page(todo, lim, page)
      BY <2>2 DEF L!SortedPage
    <2>3. L!AfterCursor \subseteq L!Matching
      BY DEF L!AfterCursor
    <2>4. CASE L!ListPostgres(lim)
      BY <2>2, <2>3, <2>4 DEF L!ListPostgres
    <2>5. CASE L!AdminListMemory(lim)
      BY <2>2, <2>3, <2>5 DEF L!AdminListMemory
    <2>6. CASE L!ListByBuyerMemory(lim)
      BY <2>6 DEF L!ListByBuyerMemory
    <2> QED
      BY <2>1, <2>4, <2>5, <2>6
  <1>3. L!Matching' = L!Matching /\ L!Matching \subseteq ListedOrder /\ (Exact' <=> Exact)
    BY <1>1 DEF L!Matching, Exact, ListInv, ListTyped
  <1>4. ListTyped'
    <2>1. listed' = [o \in ListedOrder |-> IF o \in page /\ listed[o] < 2 THEN listed[o] + 1 ELSE listed[o]]
      BY <1>2 DEF L!Page
    <2>2. listed' \in [ListedOrder -> Nat]
      BY <2>1 DEF ListInv, ListTyped
    <2>3. cursor' \in ListedOrder \cup {L!End}
      BY <1>2, <1>3 DEF L!Page
    <2> QED
      BY <1>1, <1>3, <2>2, <2>3 DEF ListInv, ListTyped
  <1>5. SUFFICES ASSUME Exact
                 PROVE  /\ \A o \in ListedOrder : listed'[o] < 2
                        /\ cursor' = L!First => \A o \in ListedOrder : listed'[o] = 0
                        /\ cursor' \in ListedOrder => Shown(cursor)'
                        /\ cursor' = L!End => \A o \in steady' : listed'[o] = 1
                        /\ repo' = "memoryAdmin" /\ cursor' \in ListedOrder => cursor' \in L!Matching'
    BY <1>3, <1>4 DEF ListInv
  <1> DEFINE rest == L!AfterCursor
  <1>6. PICK lim, shown :
           /\ shown \subseteq rest /\ L!Page(rest, lim, shown)
           /\ \A o \in shown : \A p \in rest \ shown : L!Before(o, p)
           /\ cursor' # L!End => \A o \in shown \ {cursor'} : L!Before(o, cursor')
    BY <1>5, PageOfRest DEF L!SortedPage
  <1>7. /\ \A o \in ListedOrder : listed'[o] = IF o \in shown /\ listed[o] < 2 THEN listed[o] + 1 ELSE listed[o]
        /\ IF shown = rest THEN cursor' = L!End ELSE cursor' \in shown
    BY <1>6 DEF L!Page
  <1>8. /\ rest \subseteq ListedOrder /\ steady \subseteq ListedOrder
        /\ cursor \in ListedOrder \cup {L!First}
        /\ \A o \in steady : o \in rest \/ (cursor # L!First /\ ~L!Before(cursor, o))
        /\ \A o \in rest : o \in L!Matching /\ (cursor = L!First \/ L!Before(cursor, o))
    BY <1>1, <1>3 DEF ListInv, ListTyped, L!AfterCursor
  <1> HIDE DEF rest
  <1>9. /\ \A o \in ListedOrder : listed[o] \in Nat /\ listed[o] < 2
        /\ cursor = L!First => \A o \in ListedOrder : listed[o] = 0
        /\ cursor \in ListedOrder => Shown(cursor)
    BY <1>5 DEF ListInv, ListTyped
  <1>10. ASSUME NEW o \in shown PROVE listed[o] = 0 /\ o \in ListedOrder /\ listed'[o] = 1
    <2>1. o \in ListedOrder /\ o \in rest /\ listed[o] \in Nat /\ listed[o] < 2
      BY <1>6, <1>8, <1>9
    <2>2. listed[o] # 1
      <3>1. CASE cursor = L!First
        BY <1>9, <2>1, <3>1
      <3>2. CASE cursor \in ListedOrder
        <4>1. L!Before(cursor, o)
          BY <1>8, <2>1, <3>2, OrderIds
        <4> QED
          BY <1>9, <2>1, <3>2, <4>1, BeforeIs DEF Shown, ListInv
      <3> QED
        BY <1>8, <3>1, <3>2
    <2>3. listed[o] = 0
      BY <2>1, <2>2
    <2> QED
      BY <1>7, <2>1, <2>3
  <1>11. ASSUME NEW o \in ListedOrder, o \notin shown PROVE listed'[o] = listed[o]
    BY <1>7, <1>11
  <1>12. \A o \in ListedOrder : listed'[o] < 2
    <2>1. ASSUME NEW o \in ListedOrder PROVE listed'[o] < 2
      <3>1. CASE o \in shown
        BY <1>10, <3>1
      <3>2. CASE o \notin shown
        BY <1>9, <1>11, <3>2
      <3> QED
        BY <3>1, <3>2
    <2> QED
      BY <2>1
  <1>13. cursor' # L!First
    BY <1>6, <1>7, <1>8, OrderIds
  (* What was there all the while and is not on the page was shown before, *)
  (* or comes after it.                                                    *)
  <1>14. ASSUME NEW o \in steady, o \notin shown, listed[o] # 1
         PROVE  o \in rest
    <2>1. CASE cursor = L!First
      BY <1>8, <2>1
    <2>2. CASE cursor \in ListedOrder
      <3>1. ~(o = cursor \/ L!Before(o, cursor))
        BY <1>8, <1>9, <1>14, <2>2 DEF Shown
      <3>2. L!Before(cursor, o)
        BY <1>8, <2>2, <3>1, BeforeIs DEF ListInv
      <3> QED
        BY <1>8, <3>2
    <2> QED
      BY <1>8, <2>1, <2>2
  <1>15. cursor' = L!End => \A o \in steady' : listed'[o] = 1
    <2>1. ASSUME cursor' = L!End, NEW o \in steady PROVE listed'[o] = 1
      <3>1. shown = rest
        BY <1>6, <1>7, <1>8, <2>1, OrderIds
      <3>2. CASE o \in shown
        BY <1>10, <3>2
      <3>3. CASE o \notin shown
        BY <1>8, <1>11, <1>14, <3>1, <3>3
      <3> QED
        BY <3>2, <3>3
    <2> QED
      BY <1>1, <2>1
  <1>16. ASSUME cursor' \in ListedOrder PROVE Shown(cursor)'
    <2> DEFINE c == cursor'
    <2>1. c \in shown /\ shown # rest /\ c # L!End /\ c \in rest
      BY <1>6, <1>7, <1>16, OrderIds
    <2>2. \A o \in ListedOrder : \A p \in ListedOrder : L!Before(o, p)' <=> L!Before(o, p)
      BY <1>1 DEF L!Before
    <2>3. \A o \in shown : o = c \/ L!Before(o, c)
      BY <1>6, <2>1
    <2> HIDE DEF c
    <2>4. c \in ListedOrder
      BY <1>8, <2>1
    <2>5. ASSUME NEW o \in ListedOrder, listed'[o] = 1 PROVE o = c \/ L!Before(o, c)
      <3>1. CASE o \in shown
        BY <2>3, <3>1
      <3>2. CASE o \notin shown
        <4>1. listed[o] = 1
          BY <1>11, <2>5, <3>2
        <4>2. cursor \in ListedOrder
          BY <1>8, <1>9, <4>1
        <4>3. o = cursor \/ L!Before(o, cursor)
          BY <1>9, <4>1, <4>2 DEF Shown
        <4>4. L!Before(cursor, c)
          BY <1>8, <2>1, <4>2, OrderIds
        <4> QED
          BY <2>4, <4>2, <4>3, <4>4, BeforeIs DEF ListInv
      <3> QED
        BY <3>1, <3>2
    <2>6. ASSUME NEW o \in steady, o = c \/ L!Before(o, c) PROVE listed'[o] = 1
      <3>1. CASE o \in shown
        BY <1>10, <3>1
      <3>2. CASE o \notin shown
        <4>1. o # c /\ L!Before(o, c) /\ o \in ListedOrder
          BY <1>8, <2>1, <2>6, <3>2
        <4>2. ~L!Before(c, o)
          BY <2>4, <4>1, BeforeIs DEF ListInv
        <4>3. o \notin rest
          BY <1>6, <2>1, <3>2, <4>2
        <4>4. listed[o] = 1
          BY <1>14, <3>2, <4>3
        <4> QED
          BY <1>11, <3>2, <4>1, <4>4
      <3> QED
        BY <3>1, <3>2
    <2>7. \A o \in ListedOrder : L!Before(o, cursor)' <=> L!Before(o, c)
      BY <1>1 DEF L!Before, c
    <2> QED
      BY <1>1, <2>5, <2>6, <2>7 DEF Shown, c
  <1>17. cursor' \in ListedOrder => cursor' \in L!Matching'
    BY <1>3, <1>6, <1>7, <1>8, OrderIds
  <1> QED
    BY <1>12, <1>13, <1>15, <1>16, <1>17

(* Every step keeps it, whichever part of the repository it is about. *)
LEMMA ListStep ==
  ASSUME ListInv, [PartNext]_<<vars, listVars, part>>
  PROVE  ListInv'
  <1>1. CASE L!Next
    BY <1>1, ListInsert, ListMove, ListPage DEF L!Next
  <1>2. CASE UNCHANGED listVars
    BY <1>2 DEF listVars, ListInv, ListTyped, Exact, Shown, L!Matching, L!Before
  <1> QED
    BY <1>1, <1>2 DEF PartNext

(* Paging with the cursor of Postgres, and of the console's list in memory *)
(* while no order moves, shows every order that was there all the while    *)
(* exactly once and none twice: for any orders, creation times and page    *)
(* sizes, and whatever is placed or changes its status between two pages.  *)
THEOREM ListsShowOnce ==
  PartSpec => []ListedOnce
  <1>1. PartInit => ListInv
    BY ListInit DEF PartInit
  <1>2. ListInv => ListedOnce
    BY DEF ListInv, ListedOnce, L!ListedOnce, Exact
  <1> QED
    BY <1>1, <1>2, ListStep, PTL DEF PartSpec

(* The parts TLC checks are behaviours of the repository, so that the      *)
(* theorems above hold of them as well.                                    *)
THEOREM PartsOfRepository ==
  PartSpec => Spec
  <1>1. [PartNext]_<<vars, listVars, part>> => [Next]_vars
    BY DEF PartNext, Next, vars
  <1> QED
    BY <1>1, PTL DEF PartSpec, PartInit, Spec
=============================================================================
