------------------------------ MODULE Checkout ------------------------------
(***************************************************************************)
(* CheckoutService.Checkout (internal/application/checkout.go) for one     *)
(* buyer: concurrent requests that may repeat a client_order_id or an      *)
(* idempotency key, each occupying a coupon, a ledger freeze and stock     *)
(* before one transaction inserts the order, and giving them back in the   *)
(* reverse order when it cannot.                                           *)
(*                                                                         *)
(* A request is a process p that makes one remote call or one database     *)
(* statement per step.  The order that InsertCheckout commits is where     *)
(* module OrderLifecycle starts.                                           *)
(***************************************************************************)
EXTENDS Naturals, FiniteSets

CONSTANTS
  Proc,          \* the goroutines that serve POST /orders
  Coid,          \* client_order_ids; idempotency keys are drawn from them too
  Body,          \* what else CheckoutHash covers: items, coupons, ledger pay
  OwnKeys,       \* clients send an Idempotency-Key of their own
  UsesOffer,     \* scene.NeedsOffer
  UsesLedger,    \* scene.NeedsLedger, and a ledger amount
  UsesStock,     \* scene.NeedsInventory
  ChannelPay,    \* order.NeedsChannelPay
  NoRow,         \* no order with that id
  MaxIds,        \* bound: order ids handed out
  MaxFaults      \* bound: failed calls, crashes, expired locks, lost commits

ASSUME FlagAssumption ==
  {OwnKeys, UsesOffer, UsesLedger, UsesStock, ChannelPay} \subseteq BOOLEAN
ASSUME LimitAssumption == {MaxIds, MaxFaults} \subseteq Nat
ASSUME ProcAssumption  == IsFiniteSet(Proc)

(* A missing key defaults to the client_order_id. *)
Ask == [coid: Coid, key: Coid, body: Body]
Asks == IF OwnKeys THEN Ask ELSE {a \in Ask : a.key = a.coid}
HashOfId(a)     == <<a.coid>>  \* mutant: the contents are not hashed
CheckoutHash(a) == <<a.coid, a.body>>

ASSUME RowAssumption == NoRow \notin Asks

OrderId == 1 .. MaxIds
NoId    == 0
NoHash  == <<>>
Resource == {"offer", "freeze", "stock"}

VARIABLES
  orders,   \* table orders: the request each row was made from
  idem,     \* table idempotency: the answer stored under each key
  locked,   \* the lock keys that exist; they carry no owner
  taken,    \* what OfferHub, the ledger and the adapter hold for each id
  nextId,   \* the id generator
  pc, ask,  \* each goroutine's next step and its request
  oid, got, \* the order id it drew, and what it knows it has taken
  reply,    \* the answer it gave last
  faults

vars == <<orders, idem, locked, taken, nextId, pc, ask, oid, got, reply, faults>>

NoRecord == [order |-> NoId, hash |-> NoHash, intent |-> FALSE]
NoReply  == [kind |-> "none", order |-> NoId]
Error(k) == [kind |-> k, order |-> NoId]
Ok(id)   == [kind |-> "ok", order |-> id]

Init ==
  /\ orders = [i \in OrderId |-> NoRow]
  /\ idem = [k \in Coid |-> NoRecord]
  /\ locked = {}
  /\ taken = [i \in OrderId |-> {}]
  /\ nextId = 1
  /\ pc = [p \in Proc |-> "idle"]
  /\ \E a \in Asks : ask = [p \in Proc |-> a]
  /\ oid = [p \in Proc |-> NoId]
  /\ got = [p \in Proc |-> {}]
  /\ reply = [p \in Proc |-> NoReply]
  /\ faults = [calls |-> 0, crashes |-> 0, expiries |-> 0, commits |-> 0]

-----------------------------------------------------------------------------
Goto(p, l) == pc' = [pc EXCEPT ![p] = l]

(* The answer is fixed; the deferred unlock runs before it is sent. *)
Answer(p, r, l) == /\ reply' = [reply EXCEPT ![p] = r]
                   /\ oid' = [oid EXCEPT ![p] = NoId]
                   /\ got' = [got EXCEPT ![p] = {}]
                   /\ Goto(p, l)

MayFail == faults.calls + faults.crashes + faults.expiries + faults.commits < MaxFaults
Fault      == MayFail /\ faults' = [faults EXCEPT !.calls = @ + 1]
LostCommit == MayFail /\ faults' = [faults EXCEPT !.commits = @ + 1]

Begin(p, a) ==
  /\ pc[p] = "idle"
  /\ ask' = [ask EXCEPT ![p] = a]
  /\ reply' = [reply EXCEPT ![p] = NoReply]
  /\ Goto(p, "check")
  /\ UNCHANGED <<orders, idem, locked, taken, nextId, oid, got, faults>>

(* FindIdempotency before and after the lock: the stored answer, or a      *)
(* conflict when the parameters differ.                                    *)
FindIdempotency(p, next, done) ==
  LET rec == idem[ask[p].key]
  IN  \/ /\ rec.order # NoId
         /\ Answer(p, IF rec.hash = CheckoutHash(ask[p]) THEN Ok(rec.order)
                      ELSE Error("idempotency_conflict"), done)
      \/ /\ rec.order = NoId
         /\ Goto(p, next)
         /\ UNCHANGED <<oid, got, reply>>

Check(p) ==
  /\ pc[p] = "check"
  /\ FindIdempotency(p, "find", "idle")
  /\ UNCHANGED <<orders, idem, locked, taken, nextId, ask, faults>>

Exists(c) == \E i \in OrderId : orders[i] # NoRow /\ orders[i].coid = c

FindByClientOrderID(p) ==
  /\ pc[p] = "find"
  /\ \/ Exists(ask[p].coid) /\ Answer(p, Error("client_order_conflict"), "idle")
     \/ ~Exists(ask[p].coid) /\ Goto(p, "lock") /\ UNCHANGED <<oid, got, reply>>
  /\ UNCHANGED <<orders, idem, locked, taken, nextId, ask, faults>>

(* Mutant: the lock is written whether or not it exists. *)
TryLockShared(p) ==
  /\ pc[p] = "lock"
  /\ locked' = locked \cup {ask[p].coid}
  /\ Goto(p, "recheck")
  /\ UNCHANGED <<orders, idem, taken, nextId, ask, oid, got, reply, faults>>

(* SetNX with a TTL. *)
TryLock(p) ==
  /\ pc[p] = "lock"
  /\ \/ /\ ask[p].coid \notin locked
        /\ locked' = locked \cup {ask[p].coid}
        /\ Goto(p, "recheck")
        /\ UNCHANGED <<oid, got, reply>>
     \/ /\ ask[p].coid \in locked
        /\ Answer(p, Error("in_progress"), "idle")
        /\ UNCHANGED locked
  /\ UNCHANGED <<orders, idem, taken, nextId, ask, faults>>

Recheck(p) ==
  /\ pc[p] = "recheck"
  /\ FindIdempotency(p, "price", "unlock")
  /\ UNCHANGED <<orders, idem, locked, taken, nextId, ask, faults>>

(* The steps a scene has no use for are skipped. *)
StockStep  == IF UsesStock THEN "stock" ELSE "insert"
FreezeStep == IF UsesLedger THEN "freeze" ELSE StockStep
OfferStep  == IF UsesOffer THEN "reserve" ELSE FreezeStep

(* resolveSnapshot, validation, Quote and the amounts: no effect but the   *)
(* order id that is drawn, and any of them may refuse.                     *)
Price(p) ==
  /\ pc[p] = "price"
  /\ \/ /\ nextId <= MaxIds
        /\ nextId' = nextId + 1
        /\ oid' = [oid EXCEPT ![p] = nextId]
        /\ Goto(p, OfferStep)
        /\ UNCHANGED <<got, reply>>
     \/ Answer(p, Error("refused"), "unlock") /\ UNCHANGED nextId
  /\ UNCHANGED <<orders, idem, locked, taken, ask, faults>>

(* A remote call takes effect and is answered, takes effect and loses its  *)
(* answer, or does not happen; the caller sees the last two alike.         *)
Occupy(p, r)  == taken' = [taken EXCEPT ![oid[p]] = @ \cup {r}]
Release(p, r) == taken' = [taken EXCEPT ![oid[p]] = @ \ {r}]
Know(p, r)    == got' = [got EXCEPT ![p] = @ \cup {r}]

(* Nothing is rolled back when Reserve fails: it is the first to occupy.   *)
Reserve(p) ==
  /\ pc[p] = "reserve"
  /\ \/ /\ Occupy(p, "offer") /\ Know(p, "offer")
        /\ Goto(p, FreezeStep)
        /\ UNCHANGED <<oid, reply, faults>>
     \/ Occupy(p, "offer") /\ Fault /\ Answer(p, Error("offer_reserve"), "unlock")
     \/ UNCHANGED taken /\ Fault /\ Answer(p, Error("offer_reserve"), "unlock")
  /\ UNCHANGED <<orders, idem, locked, nextId, ask>>

(* Mutant: the error is returned without a rollback. *)
FailAtOnce(p, k) == /\ reply' = [reply EXCEPT ![p] = Error(k)]
                    /\ Goto(p, "rolled_back")
                    /\ UNCHANGED <<oid, got>>

(* The error is kept in reply while the rollback runs. *)
Fail(p, k) == /\ reply' = [reply EXCEPT ![p] = Error(k)]
              /\ Goto(p, "undo_stock")
              /\ UNCHANGED <<oid, got>>

Freeze(p) ==
  /\ pc[p] = "freeze"
  /\ \/ /\ Occupy(p, "freeze") /\ Know(p, "freeze")
        /\ Goto(p, StockStep)
        /\ UNCHANGED <<oid, reply, faults>>
     \/ Occupy(p, "freeze") /\ Fault /\ Fail(p, "ledger_freeze")
     \/ UNCHANGED taken /\ Fault /\ Fail(p, "ledger_freeze")
  /\ UNCHANGED <<orders, idem, locked, nextId, ask>>

(* The in-memory adapter cannot fail. *)
ReserveStock(p) ==
  /\ pc[p] = "stock"
  /\ Occupy(p, "stock") /\ Know(p, "stock")
  /\ Goto(p, "insert")
  /\ UNCHANGED <<orders, idem, locked, nextId, ask, oid, reply, faults>>

(* Mutant: the key's record is written over instead of inserted. *)
InsertOrUpdateKey(p) ==
  /\ pc[p] = "insert"
  /\ ~Exists(ask[p].coid)
  /\ orders' = [orders EXCEPT ![oid[p]] = ask[p]]
  /\ idem' = [idem EXCEPT ![ask[p].key] =
                [order |-> oid[p], hash |-> CheckoutHash(ask[p]), intent |-> FALSE]]
  /\ Goto(p, IF ChannelPay THEN "intent" ELSE "created")
  /\ UNCHANGED <<locked, taken, nextId, ask, oid, got, reply, faults>>

(* InsertCheckout: one transaction over both tables.  The order row goes   *)
(* in first, so its unique index is the one that reports a double clash.   *)
(* A database error rolls back, also when the commit went through and only *)
(* its acknowledgement was lost.                                           *)
InsertCheckout(p) ==
  /\ pc[p] = "insert"
  /\ LET a == ask[p]
     IN  \/ /\ ~Exists(a.coid) /\ idem[a.key].order = NoId
            /\ orders' = [orders EXCEPT ![oid[p]] = a]
            /\ idem' = [idem EXCEPT ![a.key] =
                          [order |-> oid[p], hash |-> CheckoutHash(a), intent |-> FALSE]]
            /\ \/ /\ Goto(p, IF ChannelPay THEN "intent" ELSE "created")
                  /\ UNCHANGED <<oid, got, reply, faults>>
               \/ LostCommit /\ Fail(p, "internal")
         \/ /\ Exists(a.coid) /\ Fail(p, "client_order_conflict")
            /\ UNCHANGED <<orders, idem, faults>>
         \/ /\ ~Exists(a.coid) /\ idem[a.key].order # NoId
            /\ Fail(p, "idempotency_conflict") /\ UNCHANGED <<orders, idem, faults>>
         \/ Fault /\ Fail(p, "internal") /\ UNCHANGED <<orders, idem>>
  /\ UNCHANGED <<locked, taken, nextId, ask>>

(* rollback: stock, freeze, reservation; every error is ignored. *)
Undo(p, l, r, next) ==
  /\ pc[p] = l
  /\ Goto(p, next)
  /\ \/ r \notin got[p] /\ UNCHANGED <<taken, faults>>
     \/ r \in got[p] /\ Release(p, r) /\ UNCHANGED faults
     \/ r \in got[p] /\ r # "stock" /\ Fault /\ UNCHANGED taken
  /\ UNCHANGED <<orders, idem, locked, nextId, ask, oid, got, reply>>

Rollback(p) ==
  \/ Undo(p, "undo_stock", "stock", "undo_freeze")
  \/ Undo(p, "undo_freeze", "freeze", "undo_offer")
  \/ Undo(p, "undo_offer", "offer", "rolled_back")

(* After a clash of keys the stored answer is returned as it is. *)
Conflict(p) ==
  /\ pc[p] = "rolled_back"
  /\ LET rec == idem[ask[p].key]
     IN  Answer(p, IF reply[p].kind = "idempotency_conflict" /\ rec.order # NoId
                   THEN Ok(rec.order) ELSE reply[p], "unlock")
  /\ UNCHANGED <<orders, idem, locked, taken, nextId, ask, faults>>

(* Mutant: a failed intent undoes the order's reservations. *)
CreateIntentOrUndo(p) ==
  /\ pc[p] = "intent"
  /\ \/ Goto(p, "save_intent") /\ UNCHANGED <<oid, got, reply, faults>>
     \/ Fault /\ Fail(p, "internal")
  /\ UNCHANGED <<orders, idem, locked, taken, nextId, ask>>

(* The intent of a fresh order; without one the buyer asks again later.    *)
CreateIntent(p) ==
  /\ pc[p] = "intent"
  /\ \/ Goto(p, "save_intent") /\ UNCHANGED faults
     \/ Goto(p, "created") /\ Fault
  /\ UNCHANGED <<orders, idem, locked, taken, nextId, ask, oid, got, reply>>

UpdateIdempotencyResponse(p) ==
  /\ pc[p] = "save_intent"
  /\ idem' = [idem EXCEPT ![ask[p].key].intent = TRUE]
  /\ Goto(p, "created")
  /\ UNCHANGED <<orders, locked, taken, nextId, ask, oid, got, reply, faults>>

Created(p) ==
  /\ pc[p] = "created"
  /\ Answer(p, Ok(oid[p]), "unlock")
  /\ UNCHANGED <<orders, idem, locked, taken, nextId, ask, faults>>

(* Del, whoever set the key; an error is ignored. *)
Unlock(p) ==
  /\ pc[p] = "unlock"
  /\ Goto(p, "idle")
  /\ \/ locked' = locked \ {ask[p].coid} /\ UNCHANGED faults
     \/ Fault /\ UNCHANGED locked
  /\ UNCHANGED <<orders, idem, taken, nextId, ask, oid, got, reply>>

-----------------------------------------------------------------------------
(* A lock outlives its TTL of 30 s. *)
Expire(c) ==
  /\ c \in locked
  /\ MayFail
  /\ locked' = locked \ {c}
  /\ faults' = [faults EXCEPT !.expiries = @ + 1]
  /\ UNCHANGED <<orders, idem, taken, nextId, pc, ask, oid, got, reply>>

(* The binary dies between two steps: no answer, no rollback, no unlock.   *)
Crash(p) ==
  /\ pc[p] # "idle"
  /\ MayFail
  /\ faults' = [faults EXCEPT !.crashes = @ + 1]
  /\ Answer(p, NoReply, "idle")
  /\ UNCHANGED <<orders, idem, locked, taken, nextId, ask>>

Step(p) ==
  \/ Check(p) \/ FindByClientOrderID(p) \/ TryLock(p) \/ Recheck(p) \/ Price(p)
  \/ Reserve(p) \/ Freeze(p) \/ ReserveStock(p) \/ InsertCheckout(p) \/ Rollback(p)
  \/ Conflict(p) \/ CreateIntent(p) \/ UpdateIdempotencyResponse(p) \/ Created(p)
  \/ Unlock(p)

Next ==
  \/ \E p \in Proc : Step(p) \/ Crash(p) \/ \E a \in Asks : Begin(p, a)
  \/ \E c \in Coid : Expire(c)

Spec == Init /\ [][Next]_vars

-----------------------------------------------------------------------------
(* Properties.                                                             *)

Label == {"idle", "check", "find", "lock", "recheck", "price", "reserve", "freeze",
          "stock", "insert", "undo_stock", "undo_freeze", "undo_offer", "rolled_back",
          "intent", "save_intent", "created", "unlock"}

(* Every variable keeps the shape of the table, lock or call it models.    *)
TypeOK ==
  /\ orders \in [OrderId -> Asks \cup {NoRow}]
  /\ idem \in [Coid -> [order: OrderId \cup {NoId},
                        hash: (Coid \X Body) \cup {NoHash}, intent: BOOLEAN]]
  /\ locked \subseteq Coid
  /\ taken \in [OrderId -> SUBSET Resource]
  /\ nextId \in 1 .. MaxIds + 1
  /\ pc \in [Proc -> Label]
  /\ ask \in [Proc -> Asks]
  /\ oid \in [Proc -> OrderId \cup {NoId}]
  /\ got \in [Proc -> SUBSET Resource]
  /\ reply \in [Proc -> [kind: {"none", "ok", "idempotency_conflict", "in_progress",
                                "client_order_conflict", "refused", "offer_reserve",
                                "ledger_freeze", "internal"},
                         order: OrderId \cup {NoId}]]
  /\ faults \in [calls: Nat, crashes: Nat, expiries: Nat, commits: Nat]

Needed == {r \in Resource : \/ r = "offer" /\ UsesOffer
                            \/ r = "freeze" /\ UsesLedger
                            \/ r = "stock" /\ UsesStock}

(* An order that exists holds all that its scene needs: no rollback, late  *)
(* or of a rival request, ever gives back what a committed order lives on. *)
(* The one way to strip an order is a commit whose acknowledgement is lost. *)
Stripped == {i \in OrderId : orders[i] # NoRow /\ taken[i] # Needed}
OrderKeepsResources == Cardinality(Stripped) <= faults.commits

(* Whatever fails, what is left occupied without an order is accounted     *)
(* for: one resource per call that failed, three per goroutine that died.  *)
Orphans == {x \in OrderId \X Resource :
              /\ x[2] \in taken[x[1]] /\ orders[x[1]] = NoRow
              /\ \A p \in Proc : oid[p] # x[1]}
LeaksAreFaults == Cardinality(Orphans) <= faults.calls + 3 * faults.crashes

(* Requests under one idempotency key are all told of the same order, the  *)
(* one recorded under it, and it exists; the lock may expire meanwhile.    *)
OneOrderPerKey ==
  \A p \in Proc : reply[p].kind = "ok" =>
    /\ orders[reply[p].order] # NoRow
    /\ idem[ask[p].key].order = reply[p].order

(* A request that is told of an order is told of the one it asked for: the *)
(* same client_order_id with the same contents.  A reused key with other   *)
(* parameters is a conflict, never somebody else's order.                  *)
AnswersAsk ==
  \A p \in Proc : reply[p].kind = "ok" =>
    CheckoutHash(orders[reply[p].order]) = CheckoutHash(ask[p])

(* At most one goroutine per client_order_id is between lock and unlock,   *)
(* and one more for every lock that expired, although unlock deletes the   *)
(* key of whoever holds it by then.                                        *)
Inside(c) == {p \in Proc : /\ ask[p].coid = c
                           /\ pc[p] \notin {"idle", "check", "find", "lock"}}
SectionIsBounded == \A c \in Coid : Cardinality(Inside(c)) <= 1 + faults.expiries
=============================================================================
