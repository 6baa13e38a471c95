--------------------------- MODULE CheckoutProofs ---------------------------
(***************************************************************************)
(* The properties of Checkout for any number of goroutines, order ids and  *)
(* faults.  CheckoutInv is the inductive invariant: who owns which order   *)
(* id, what a goroutine has taken where it stands, what the keys record,   *)
(* and three counts that bound the damage of each kind of fault.           *)
(***************************************************************************)
EXTENDS Checkout, FiniteSetTheorems, TLAPS

USE FlagAssumption, LimitAssumption

-----------------------------------------------------------------------------
(* The inductive invariant.                                                *)

Occupying == {"reserve", "freeze", "stock", "insert"}
Undoing   == {"undo_stock", "undo_freeze", "undo_offer", "rolled_back"}
Inserted  == {"intent", "save_intent", "created"}

(* An order id belongs to the goroutine that drew it, until it answers;    *)
(* ids still to be drawn are unused.                                       *)
IdsOwned ==
  /\ \A p \in Proc : oid[p] # NoId <=> pc[p] \in Occupying \cup Undoing \cup Inserted
  /\ \A p \in Proc : oid[p] < nextId
  /\ \A p, q \in Proc : oid[p] # NoId /\ oid[p] = oid[q] => p = q
  /\ \A i \in OrderId : i >= nextId => taken[i] = {} /\ orders[i] = NoRow

(* On its way to InsertCheckout a goroutine knows all that it holds, and   *)
(* when it arrives that is all its scene needs.                            *)
Had(l) == CASE l = "reserve" -> {}
            [] l = "freeze"  -> Needed \cap {"offer"}
            [] l = "stock"   -> Needed \cap {"offer", "freeze"}
            [] OTHER         -> Needed
Used(l) == CASE l = "reserve" -> UsesOffer
             [] l = "freeze"  -> UsesLedger
             [] l = "stock"   -> UsesStock
             [] OTHER         -> TRUE
Holds(p) ==
  /\ got[p] = Had(pc[p]) /\ taken[oid[p]] = got[p] /\ orders[oid[p]] = NoRow
  /\ Used(pc[p])
HoldsWhatItKnows ==
  \A p \in Proc : /\ oid[p] = NoId => got[p] = {}
                  /\ pc[p] \in Occupying => Holds(p)

(* What is recorded under a key exists, and is what was answered. *)
KeysAgree ==
  /\ \A k \in Coid : idem[k].order # NoId => orders[idem[k].order] # NoRow
  /\ \A p \in Proc : pc[p] \in Inserted => idem[ask[p].key].order = oid[p]
  /\ \A p \in Proc : reply[p].kind = "ok" =>
       reply[p].order # NoId /\ idem[ask[p].key].order = reply[p].order

(* What the rollback of p, from where it stands, will still give back. *)
Pending(p) ==
  {r \in got[p] : \/ pc[p] \in Occupying \cup {"undo_stock"}
                  \/ pc[p] = "undo_freeze" /\ r # "stock"
                  \/ pc[p] = "undo_offer" /\ r = "offer"}

(* What is held without an order and no rollback will give back. *)
Lost == {x \in OrderId \X Resource :
           /\ x[2] \in taken[x[1]] /\ orders[x[1]] = NoRow
           /\ \A p \in Proc : oid[p] = x[1] => x[2] \notin Pending(p)}
LossIsFault == Cardinality(Lost) <= faults.calls + 3 * faults.crashes

(* Orders that are stripped, or whose goroutine believes it must roll back. *)
AtRisk == {i \in OrderId :
             /\ orders[i] # NoRow
             /\ \/ taken[i] # Needed
                \/ \E p \in Proc : oid[p] = i /\ pc[p] \in Undoing}
RiskIsLostCommit == Cardinality(AtRisk) <= faults.commits

(* A goroutine in the section holds the lock, or one expired before. *)
LocksAgree ==
  \A c \in Coid : Cardinality(Inside(c)) <= faults.expiries + IF c \in locked THEN 1 ELSE 0

CheckoutInv ==
  /\ TypeOK /\ IdsOwned /\ HoldsWhatItKnows /\ KeysAgree
  /\ LossIsFault /\ RiskIsLostCommit /\ LocksAgree

-----------------------------------------------------------------------------
(* Types.                                                                  *)

(* The fields of a request. *)
LEMMA AskFields ==
  ASSUME NEW a \in Asks
  PROVE  /\ a.coid \in Coid /\ a.key \in Coid /\ a.body \in Body /\ a # NoRow
         /\ CheckoutHash(a) \in Coid \X Body
  BY RowAssumption DEF Asks, Ask, CheckoutHash

(* The answers a request gets have the shape of an answer. *)
Replies == [kind: {"none", "ok", "idempotency_conflict", "in_progress",
                   "client_order_conflict", "refused", "offer_reserve",
                   "ledger_freeze", "internal"},
            order: OrderId \cup {NoId}]
(* The replies of the model are of their type. *)
LEMMA RepliesOK ==
  /\ \A id \in OrderId \cup {NoId} : Ok(id) \in Replies
  /\ \A k \in {"idempotency_conflict", "in_progress", "client_order_conflict", "refused",
               "offer_reserve", "ledger_freeze", "internal"} : Error(k) \in Replies
  /\ NoReply \in Replies
  BY DEF Ok, Error, NoReply, Replies, NoId

LocalsOK ==
  /\ pc \in [Proc -> Label] /\ ask \in [Proc -> Asks]
  /\ oid \in [Proc -> OrderId \cup {NoId}] /\ got \in [Proc -> SUBSET Resource]
  /\ reply \in [Proc -> Replies]

(* An answer leaves the locals of its goroutine well typed. *)
LEMMA AnswerOK ==
  ASSUME LocalsOK, NEW p \in Proc, NEW r \in Replies, NEW l \in Label,
         Answer(p, r, l), UNCHANGED ask
  PROVE  LocalsOK'
  BY DEF LocalsOK, Answer, Goto

(* So does a step that only goes on. *)
LEMMA GotoOK ==
  ASSUME LocalsOK, NEW p \in Proc, NEW l \in Label, Goto(p, l), UNCHANGED <<ask, oid, got, reply>>
  PROVE  LocalsOK'
  BY DEF LocalsOK, Goto

(* And an error that is kept while the rollback runs. *)
LEMMA FailOK ==
  ASSUME LocalsOK, NEW p \in Proc, NEW k \in {"client_order_conflict", "idempotency_conflict",
         "ledger_freeze", "internal"}, Fail(p, k), UNCHANGED ask
  PROVE  LocalsOK'
  BY RepliesOK DEF LocalsOK, Fail, Goto, Label

(* The labels a goroutine goes on to. *)
LEMMA StepsOK == {StockStep, FreezeStep, OfferStep} \subseteq Label
  BY DEF StockStep, FreezeStep, OfferStep, Label

(* What the look-up of a key answers has the right shape. *)
LEMMA FindOK ==
  ASSUME TypeOK, LocalsOK, NEW p \in Proc, NEW l \in Label, NEW m \in Label,
         FindIdempotency(p, l, m), UNCHANGED ask
  PROVE  LocalsOK'
  <1> DEFINE rec == idem[ask[p].key]
  <1>1. rec.order \in OrderId \cup {NoId}
    BY AskFields DEF TypeOK
  <1>2. CASE rec.order = NoId
    BY <1>2, GotoOK DEF FindIdempotency
  <1>3. CASE rec.order # NoId
    <2> DEFINE r == IF rec.hash = CheckoutHash(ask[p]) THEN Ok(rec.order)
                    ELSE Error("idempotency_conflict")
    <2>1. r \in Replies
      BY <1>1, RepliesOK
    <2> QED
      BY <1>3, <2>1, AnswerOK DEF FindIdempotency
  <1> QED
    BY <1>2, <1>3

(* The tables and the services. *)
TablesOK ==
  /\ orders \in [OrderId -> Asks \cup {NoRow}]
  /\ idem \in [Coid -> [order: OrderId \cup {NoId},
                        hash: (Coid \X Body) \cup {NoHash}, intent: BOOLEAN]]
  /\ locked \subseteq Coid
  /\ taken \in [OrderId -> SUBSET Resource]
  /\ nextId \in 1 .. MaxIds + 1
  /\ faults \in [calls: Nat, crashes: Nat, expiries: Nat, commits: Nat]

(* The type invariant in two halves: the tables, and the locals. *)
LEMMA TypeSplit ==
  (TypeOK <=> TablesOK /\ LocalsOK) /\ (TypeOK' <=> TablesOK' /\ LocalsOK')
  BY DEF TypeOK, TablesOK, LocalsOK, Replies

(* Counting a fault keeps the counters numbers. *)
LEMMA FaultOK ==
  ASSUME TablesOK, Fault \/ LostCommit \/ UNCHANGED faults
  PROVE  faults' \in [calls: Nat, crashes: Nat, expiries: Nat, commits: Nat]
  BY DEF TablesOK, Fault, LostCommit

(* Where nothing is occupied and nothing inserted. *)
LEMMA SearchTyped ==
  ASSUME TypeOK, NEW p \in Proc,
         Check(p) \/ FindByClientOrderID(p) \/ TryLock(p) \/ Recheck(p) \/ Price(p)
  PROVE  TypeOK'
  <1> USE TypeSplit
  <1>0. {"idle", "find", "price", "unlock", "lock", "recheck"} \subseteq Label
    BY DEF Label
  <1>1. CASE Check(p)
    BY <1>0, <1>1, FindOK DEF Check, TablesOK
  <1>2. CASE FindByClientOrderID(p)
    BY <1>0, <1>2, AnswerOK, GotoOK, RepliesOK DEF FindByClientOrderID, TablesOK
  <1>3. CASE TryLock(p)
    <2>1. LocalsOK'
      BY <1>0, <1>3, AnswerOK, GotoOK, RepliesOK DEF TryLock
    <2>2. ask[p].coid \in Coid
      BY AskFields DEF LocalsOK
    <2> QED
      BY <1>3, <2>1, <2>2 DEF TryLock, TablesOK
  <1>4. CASE Recheck(p)
    BY <1>0, <1>4, FindOK DEF Recheck, TablesOK
  <1>5. CASE Price(p)
    <2>1. CASE Answer(p, Error("refused"), "unlock") /\ UNCHANGED nextId
      BY <1>0, <1>5, <2>1, AnswerOK, RepliesOK DEF Price, TablesOK
    <2>2. CASE /\ nextId <= MaxIds /\ nextId' = nextId + 1
               /\ oid' = [oid EXCEPT ![p] = nextId] /\ Goto(p, OfferStep)
               /\ UNCHANGED <<got, reply>>
      BY <1>5, <2>2, StepsOK, SMTT(30) DEF Price, TablesOK, LocalsOK, Goto, OrderId
    <2> QED
      BY <1>5, <2>1, <2>2 DEF Price
  <1> QED
    BY <1>1, <1>2, <1>3, <1>4, <1>5

(* Occupying or releasing keeps the services typed. *)
LEMMA TakenOK ==
  ASSUME TablesOK, LocalsOK, NEW p \in Proc, NEW r \in Resource,
         Occupy(p, r) \/ Release(p, r) \/ UNCHANGED taken
  PROVE  taken' \in [OrderId -> SUBSET Resource]
  BY DEF TablesOK, LocalsOK, Occupy, Release

(* A call that was answered is remembered. *)
LEMMA KnowOK ==
  ASSUME LocalsOK, NEW p \in Proc, NEW r \in Resource, NEW l \in Label,
         Know(p, r), Goto(p, l), UNCHANGED <<ask, oid, reply>>
  PROVE  LocalsOK'
  BY DEF LocalsOK, Know, Goto

(* Where resources are taken or given back. *)
LEMMA OccupyTyped ==
  ASSUME TypeOK, NEW p \in Proc,
         Reserve(p) \/ Freeze(p) \/ ReserveStock(p) \/ Rollback(p)
  PROVE  TypeOK'
  <1> USE TypeSplit
  <1>0. /\ {"unlock", "insert", "undo_freeze", "undo_offer", "rolled_back"} \subseteq Label
        /\ {"offer", "freeze", "stock"} \subseteq Resource
    BY DEF Label, Resource
  <1>1. CASE Reserve(p)
    <2>1. LocalsOK'
      BY <1>0, <1>1, AnswerOK, KnowOK, RepliesOK, StepsOK DEF Reserve
    <2>2. taken' \in [OrderId -> SUBSET Resource] /\ (Fault \/ UNCHANGED faults)
      BY <1>0, <1>1, TakenOK DEF Reserve
    <2> QED
      BY <1>1, <2>1, <2>2, FaultOK DEF Reserve, TablesOK
  <1>2. CASE Freeze(p)
    <2>1. LocalsOK'
      BY <1>0, <1>2, FailOK, KnowOK, StepsOK DEF Freeze
    <2>2. taken' \in [OrderId -> SUBSET Resource] /\ (Fault \/ UNCHANGED faults)
      BY <1>0, <1>2, TakenOK DEF Freeze
    <2> QED
      BY <1>2, <2>1, <2>2, FaultOK DEF Freeze, TablesOK
  <1>3. CASE ReserveStock(p)
    <2>1. LocalsOK'
      BY <1>0, <1>3, KnowOK DEF ReserveStock
    <2>2. taken' \in [OrderId -> SUBSET Resource]
      BY <1>0, <1>3, TakenOK DEF ReserveStock
    <2> QED
      BY <1>3, <2>1, <2>2 DEF ReserveStock, TablesOK
  <1>4. CASE Rollback(p)
    <2>1. PICK l \in Label, r \in Resource, m \in Label : Undo(p, l, r, m)
      BY <1>0, <1>4 DEF Rollback, Label
    <2>2. LocalsOK'
      BY <2>1, GotoOK DEF Undo
    <2>3. taken' \in [OrderId -> SUBSET Resource] /\ (Fault \/ UNCHANGED faults)
      BY <2>1, TakenOK DEF Undo
    <2> QED
      BY <2>1, <2>2, <2>3, FaultOK DEF Undo, TablesOK
  <1> QED
    BY <1>1, <1>2, <1>3, <1>4

(* The record InsertCheckout writes under the key. *)
RecordOf(p) == [order |-> oid[p], hash |-> CheckoutHash(ask[p]), intent |-> FALSE]

(* Where the order is inserted, answered or given up. *)
LEMMA InsertTyped ==
  ASSUME TypeOK, IdsOwned, NEW p \in Proc,
         \/ InsertCheckout(p) \/ Conflict(p) \/ CreateIntent(p)
         \/ UpdateIdempotencyResponse(p) \/ Created(p) \/ Unlock(p)
  PROVE  TypeOK'
  <1> USE TypeSplit
  <1>0. {"unlock", "intent", "save_intent", "created", "idle"} \subseteq Label
    BY DEF Label
  <1>1. ask[p] \in Asks /\ ask[p].key \in Coid
    BY AskFields DEF LocalsOK
  <1>2. CASE InsertCheckout(p)
    <2>1. LocalsOK'
      BY <1>0, <1>2, GotoOK, FailOK DEF InsertCheckout
    <2>2. oid[p] \in OrderId
      BY <1>2 DEF InsertCheckout, IdsOwned, Occupying, LocalsOK
    <2>3. RecordOf(p) \in [order: OrderId \cup {NoId},
                          hash: (Coid \X Body) \cup {NoHash}, intent: BOOLEAN]
      BY <1>1, <2>2, AskFields DEF RecordOf
    <2>4. Fault \/ LostCommit \/ UNCHANGED faults
      BY <1>2 DEF InsertCheckout
    <2>5. \/ UNCHANGED <<orders, idem>>
          \/ /\ orders' = [orders EXCEPT ![oid[p]] = ask[p]]
             /\ idem' = [idem EXCEPT ![ask[p].key] = RecordOf(p)]
      BY <1>2 DEF InsertCheckout, RecordOf
    <2>6. UNCHANGED <<locked, taken, nextId>>
      BY <1>2 DEF InsertCheckout
    <2> QED
      BY <1>1, <2>1, <2>2, <2>3, <2>4, <2>5, <2>6, FaultOK DEF TablesOK
  <1>3. CASE Conflict(p)
    <2> DEFINE rec == idem[ask[p].key]
               r == IF reply[p].kind = "idempotency_conflict" /\ rec.order # NoId
                    THEN Ok(rec.order) ELSE reply[p]
    <2>1. r \in Replies
      BY <1>1, RepliesOK DEF TablesOK, LocalsOK
    <2> QED
      BY <1>0, <1>3, <2>1, AnswerOK DEF Conflict, TablesOK
  <1>4. CASE CreateIntent(p)
    <2>1. LocalsOK'
      BY <1>0, <1>4, GotoOK DEF CreateIntent
    <2> QED
      BY <1>4, <2>1, FaultOK DEF CreateIntent, TablesOK
  <1>5. CASE UpdateIdempotencyResponse(p)
    <2>1. LocalsOK'
      BY <1>0, <1>5, GotoOK DEF UpdateIdempotencyResponse
    <2> QED
      BY <1>1, <1>5, <2>1, ZenonT(40) DEF UpdateIdempotencyResponse, TablesOK
  <1>6. CASE Created(p)
    <2>1. Ok(oid[p]) \in Replies
      BY RepliesOK DEF LocalsOK
    <2> QED
      BY <1>0, <1>6, <2>1, AnswerOK DEF Created, TablesOK
  <1>7. CASE Unlock(p)
    <2>1. LocalsOK'
      BY <1>0, <1>7, GotoOK DEF Unlock
    <2> QED
      BY <1>7, <2>1, FaultOK DEF Unlock, TablesOK
  <1> QED
    BY <1>2, <1>3, <1>4, <1>5, <1>6, <1>7

(* A request begins, a goroutine dies, a lock expires. *)
LEMMA OtherTyped ==
  ASSUME TypeOK,
         \/ \E p \in Proc : Crash(p) \/ \E a \in Asks : Begin(p, a)
         \/ \E c \in Coid : Expire(c)
  PROVE  TypeOK'
  <1> USE TypeSplit
  <1>1. ASSUME NEW p \in Proc, Crash(p) PROVE TypeOK'
    <2>1. LocalsOK'
      BY <1>1, AnswerOK, RepliesOK DEF Crash, Label
    <2> QED
      BY <1>1, <2>1 DEF Crash, TablesOK
  <1>2. ASSUME NEW p \in Proc, NEW a \in Asks, Begin(p, a) PROVE TypeOK'
    BY <1>2, RepliesOK DEF Begin, Goto, TablesOK, LocalsOK, Label
  <1>3. ASSUME NEW c \in Coid, Expire(c) PROVE TypeOK'
    BY <1>3 DEF Expire, TablesOK, LocalsOK
  <1> QED
    BY <1>1, <1>2, <1>3

-----------------------------------------------------------------------------
(* Frames: what a step of p leaves alone.                                  *)

(* A step, the death or a new request of p. *)
Act(p) == Step(p) \/ Crash(p) \/ \E a \in Asks : Begin(p, a)

SameLocals(q) == /\ pc'[q] = pc[q] /\ ask'[q] = ask[q] /\ oid'[q] = oid[q]
                 /\ got'[q] = got[q] /\ reply'[q] = reply[q]

(* The locals of other goroutines stay as they are. *)
LEMMA OthersKeep ==
  ASSUME TypeOK, NEW p \in Proc, Act(p), NEW q \in Proc, q # p
  PROVE  SameLocals(q)
  <1> USE TypeSplit DEF LocalsOK, SameLocals
  <1>1. CASE Check(p) \/ FindByClientOrderID(p) \/ TryLock(p) \/ Recheck(p) \/ Price(p)
    BY <1>1 DEF Check, FindByClientOrderID, TryLock, Recheck, Price, FindIdempotency,
       Answer, Goto
  <1>2. CASE Reserve(p) \/ Freeze(p) \/ ReserveStock(p) \/ Rollback(p)
    BY <1>2 DEF Reserve, Freeze, ReserveStock, Rollback, Undo, Answer, Fail, Know, Goto
  <1>3. CASE InsertCheckout(p)
    BY <1>3 DEF InsertCheckout, Fail, Goto
  <1>4. CASE Conflict(p) \/ CreateIntent(p) \/ UpdateIdempotencyResponse(p) \/ Created(p) \/ Unlock(p)
    BY <1>4 DEF Conflict, CreateIntent, UpdateIdempotencyResponse, Created, Unlock, Answer, Goto
  <1>5. CASE Crash(p) \/ \E a \in Asks : Begin(p, a)
    BY <1>5 DEF Crash, Begin, Answer, Goto
  <1> QED
    BY <1>1, <1>2, <1>3, <1>4, <1>5 DEF Act, Step

(* p touches the order and the resources of its own id only. *)
LEMMA OtherOrdersKeep ==
  ASSUME TypeOK, NEW p \in Proc, Act(p), NEW i \in OrderId, i # oid[p]
  PROVE  taken'[i] = taken[i] /\ orders'[i] = orders[i]
  <1>1. CASE Reserve(p) \/ Freeze(p) \/ ReserveStock(p) \/ Rollback(p)
    BY <1>1, TypeSplit DEF TablesOK, Reserve, Freeze, ReserveStock, Rollback, Undo, Occupy, Release
  <1>2. CASE InsertCheckout(p)
    BY <1>2, TypeSplit DEF TablesOK, InsertCheckout
  <1>3. CASE ~(Reserve(p) \/ Freeze(p) \/ ReserveStock(p) \/ Rollback(p) \/ InsertCheckout(p))
    BY <1>3 DEF Act, Step, Check, FindByClientOrderID, TryLock, Recheck, Price, Conflict,
       CreateIntent, UpdateIdempotencyResponse, Created, Unlock, Crash, Begin
  <1> QED
    BY <1>1, <1>2, <1>3

-----------------------------------------------------------------------------
(* Ids.                                                                    *)

Owning == Occupying \cup Undoing \cup Inserted

(* A step that draws no id keeps ids owned if it gives up its own exactly  *)
(* when it leaves the steps that need it.                                  *)
LEMMA IdsKept ==
  ASSUME TypeOK, TypeOK', IdsOwned, NEW p \in Proc, Act(p), UNCHANGED nextId,
         oid'[p] \in {oid[p], NoId}, oid'[p] # NoId <=> pc'[p] \in Owning
  PROVE  IdsOwned'
  <1>1. \A q \in Proc \ {p} : pc'[q] = pc[q] /\ oid'[q] = oid[q]
    BY OthersKeep DEF SameLocals
  <1>2. \A i \in OrderId : i >= nextId => i # oid[p]
    BY DEF IdsOwned, TypeOK, OrderId, NoId
  <1>3. \A i \in OrderId : i >= nextId => taken'[i] = {} /\ orders'[i] = NoRow
    BY <1>2, OtherOrdersKeep DEF IdsOwned
  <1>4. \A q \in Proc : oid'[q] # NoId <=> pc'[q] \in Owning
    BY <1>1 DEF IdsOwned, Owning
  <1>5. \A q \in Proc : oid'[q] < nextId'
    BY <1>1, SMTT(30) DEF IdsOwned, TypeOK, NoId
  <1>6. \A q, r \in Proc : oid'[q] # NoId /\ oid'[q] = oid'[r] => q = r
    BY <1>1 DEF IdsOwned
  <1> QED
    BY <1>3, <1>4, <1>5, <1>6 DEF IdsOwned, Owning

(* Price draws an id nobody has. *)
LEMMA DrawnIsFresh ==
  ASSUME TypeOK, TypeOK', IdsOwned, NEW p \in Proc, Price(p), nextId' = nextId + 1,
         oid' = [oid EXCEPT ![p] = nextId], Goto(p, OfferStep)
  PROVE  IdsOwned'
  <1>1. \A q \in Proc \ {p} : pc'[q] = pc[q] /\ oid'[q] = oid[q]
    BY DEF TypeOK, Goto
  <1>2. oid'[p] = nextId /\ pc'[p] \in Owning
    BY DEF TypeOK, Goto, OfferStep, FreezeStep, StockStep, Owning, Occupying
  <1>3. UNCHANGED <<taken, orders>> /\ nextId # NoId /\ nextId \in Nat
    BY DEF Price, TypeOK, NoId
  <1>4. \A q \in Proc : oid'[q] # NoId <=> pc'[q] \in Owning
    BY <1>1, <1>2, <1>3 DEF IdsOwned, Owning
  <1>5. \A q \in Proc : oid[q] < nextId
    BY DEF IdsOwned
  <1>6. \A q \in Proc : oid'[q] < nextId'
    BY <1>1, <1>2, <1>3, <1>5, SMTT(30) DEF TypeOK, OrderId, NoId
  <1>7. \A q, r \in Proc : oid'[q] # NoId /\ oid'[q] = oid'[r] => q = r
    BY <1>1, <1>2, <1>3, <1>5, SMTT(30) DEF IdsOwned, TypeOK, OrderId, NoId
  <1>8. \A i \in OrderId : i >= nextId' => taken'[i] = {} /\ orders'[i] = NoRow
    BY <1>3 DEF IdsOwned, OrderId
  <1> QED
    BY <1>4, <1>6, <1>7, <1>8 DEF IdsOwned, Owning

(* Every step of a goroutine keeps the ids owned. *)
LEMMA IdsStep ==
  ASSUME TypeOK, TypeOK', IdsOwned, NEW p \in Proc, Act(p)
  PROVE  IdsOwned'
  <1> USE DEF Owning, Occupying, Undoing, Inserted
  <1>0. oid[p] # NoId <=> pc[p] \in Owning
    BY DEF IdsOwned
  <1>1. CASE Check(p) \/ FindByClientOrderID(p) \/ TryLock(p) \/ Recheck(p)
    <2>1. oid'[p] \in {oid[p], NoId} /\ oid[p] = NoId /\ pc'[p] \notin Owning /\ UNCHANGED nextId
      BY <1>0, <1>1 DEF TypeOK, Check, FindByClientOrderID, TryLock, Recheck, FindIdempotency,
         Answer, Goto
    <2> QED
      BY <2>1, IdsKept
  <1>2. CASE Price(p)
    <2>1. CASE Answer(p, Error("refused"), "unlock") /\ UNCHANGED nextId
      <3>1. oid'[p] = NoId /\ pc'[p] \notin Owning
        BY <2>1 DEF TypeOK, Answer, Goto
      <3> QED
        BY <2>1, <3>1, IdsKept
    <2> QED
      BY <1>2, <2>1, DrawnIsFresh DEF Price
  <1>3. CASE Reserve(p) \/ Freeze(p) \/ ReserveStock(p) \/ Rollback(p)
    <2>1. /\ oid'[p] \in {oid[p], NoId} /\ (oid'[p] # NoId <=> pc'[p] \in Owning)
          /\ UNCHANGED nextId
      BY <1>0, <1>3 DEF TypeOK, Reserve, Freeze, ReserveStock, Rollback, Undo, Answer, Fail,
         Goto, FreezeStep, StockStep
    <2> QED
      BY <2>1, IdsKept
  <1>4. CASE InsertCheckout(p)
    <2>1. oid'[p] = oid[p] /\ pc'[p] \in Owning /\ pc[p] \in Owning /\ UNCHANGED nextId
      BY <1>4 DEF TypeOK, InsertCheckout, Fail, Goto
    <2> QED
      BY <1>0, <2>1, IdsKept
  <1>5. CASE Conflict(p) \/ CreateIntent(p) \/ UpdateIdempotencyResponse(p) \/ Created(p) \/ Unlock(p)
    <2>1. /\ oid'[p] \in {oid[p], NoId} /\ (oid'[p] # NoId <=> pc'[p] \in Owning)
          /\ UNCHANGED nextId
      BY <1>0, <1>5 DEF TypeOK, Conflict, CreateIntent, UpdateIdempotencyResponse, Created,
         Unlock, Answer, Goto
    <2> QED
      BY <2>1, IdsKept
  <1>6. CASE Crash(p) \/ \E a \in Asks : Begin(p, a)
    <2>1. /\ oid'[p] \in {oid[p], NoId} /\ (oid'[p] # NoId <=> pc'[p] \in Owning)
          /\ UNCHANGED nextId
      BY <1>0, <1>6 DEF TypeOK, Crash, Begin, Answer, Goto
    <2> QED
      BY <2>1, IdsKept
  <1> QED
    BY <1>1, <1>2, <1>3, <1>4, <1>5, <1>6 DEF Act, Step

-----------------------------------------------------------------------------
(* Resources.                                                              *)

(* What a scene needs. *)
LEMMA NeededIs ==
  /\ Needed \subseteq Resource
  /\ "offer" \in Needed <=> UsesOffer
  /\ "freeze" \in Needed <=> UsesLedger
  /\ "stock" \in Needed <=> UsesStock
  BY DEF Needed, Resource

(* Each step on the way adds the resource it is named for. *)
LEMMA HadNext ==
  /\ Had(OfferStep) = {} /\ Used(OfferStep)
  /\ UsesOffer => Had(FreezeStep) = Had("reserve") \cup {"offer"}
  /\ UsesLedger => Had(StockStep) = Had("freeze") \cup {"freeze"}
  /\ UsesStock => Had("insert") = Had("stock") \cup {"stock"}
  /\ Used(FreezeStep) /\ Used(StockStep) /\ Used("insert")
  <1> USE NeededIs DEF Had, Used, OfferStep, FreezeStep, StockStep, Resource
  <1>1. Used(OfferStep) /\ Used(FreezeStep) /\ Used(StockStep) /\ Used("insert")
    OBVIOUS
  <1>2. UsesStock => Had("insert") = Had("stock") \cup {"stock"}
    OBVIOUS
  <1>3. UsesLedger => Had(StockStep) = Had("freeze") \cup {"freeze"}
    OBVIOUS
  <1>4. UsesOffer => Had(FreezeStep) = Had("reserve") \cup {"offer"}
    OBVIOUS
  <1>5. Had(OfferStep) = {}
    OBVIOUS
  <1> QED
    BY <1>1, <1>2, <1>3, <1>4, <1>5

(* The other goroutines' holdings are not touched. *)
LEMMA OthersHold ==
  ASSUME TypeOK, IdsOwned, HoldsWhatItKnows, NEW p \in Proc, Act(p), NEW q \in Proc, q # p
  PROVE  /\ oid'[q] = NoId => got'[q] = {}
         /\ pc'[q] \in Occupying => Holds(q)'
  <1>1. SameLocals(q)
    BY OthersKeep
  <1>2. CASE pc[q] \in Occupying
    <2>1. oid[q] \in OrderId /\ oid[q] # oid[p]
      BY <1>2 DEF IdsOwned, TypeOK
    <2>2. taken'[oid[q]] = taken[oid[q]] /\ orders'[oid[q]] = orders[oid[q]]
      BY <2>1, OtherOrdersKeep
    <2> QED
      BY <1>1, <1>2, <2>2 DEF SameLocals, HoldsWhatItKnows, Holds
  <1> QED
    BY <1>1, <1>2 DEF SameLocals, HoldsWhatItKnows

(* A call that is answered: what it took is held and known. *)
LEMMA OccupyHolds ==
  ASSUME TypeOK, IdsOwned, HoldsWhatItKnows, NEW p \in Proc, NEW r \in Resource, NEW l,
         pc[p] \in Occupying, Occupy(p, r), Know(p, r), Goto(p, l), UNCHANGED <<orders, oid>>,
         Had(l) = Had(pc[p]) \cup {r}, Used(l)
  PROVE  Holds(p)'
  <1>1. oid[p] \in OrderId
    BY DEF IdsOwned, TypeOK
  <1>2. taken'[oid[p]] = taken[oid[p]] \cup {r} /\ got'[p] = got[p] \cup {r} /\ pc'[p] = l
    BY <1>1 DEF TypeOK, Occupy, Know, Goto
  <1> QED
    BY <1>2 DEF HoldsWhatItKnows, Holds

(* Every step of a goroutine keeps what it holds in line with what it knows. *)
LEMMA HoldsStep ==
  ASSUME TypeOK, IdsOwned, HoldsWhatItKnows, NEW p \in Proc, Act(p)
  PROVE  HoldsWhatItKnows'
  <1> SUFFICES /\ oid'[p] = NoId => got'[p] = {}
               /\ pc'[p] \in Occupying => Holds(p)'
    BY OthersHold DEF HoldsWhatItKnows
  <1>0. oid[p] # NoId <=> pc[p] \in Owning
    BY DEF IdsOwned, Owning
  <1>1. CASE Check(p) \/ FindByClientOrderID(p) \/ TryLock(p) \/ Recheck(p)
    BY <1>0, <1>1 DEF Check, FindByClientOrderID, TryLock, Recheck, FindIdempotency, Answer, Goto,
       TypeOK, HoldsWhatItKnows, Owning, Occupying
  <1>2. CASE Price(p)
    <2>1. CASE Answer(p, Error("refused"), "unlock")
      BY <2>1 DEF Answer, Goto, TypeOK, Occupying
    <2>2. CASE /\ nextId <= MaxIds /\ oid' = [oid EXCEPT ![p] = nextId]
               /\ Goto(p, OfferStep) /\ UNCHANGED <<got, reply>>
      <3>1. got[p] = {} /\ nextId \in OrderId /\ nextId # NoId
        BY <1>0, <1>2, <2>2 DEF Price, Owning, Occupying, Undoing, Inserted, HoldsWhatItKnows,
           TypeOK, OrderId, NoId
      <3>2. taken[nextId] = {} /\ orders[nextId] = NoRow
        BY <3>1 DEF IdsOwned, OrderId
      <3>3. oid'[p] = nextId /\ pc'[p] = OfferStep /\ UNCHANGED <<taken, orders, got>>
        BY <1>2, <2>2 DEF Price, Goto, TypeOK
      <3> QED
        BY <3>1, <3>2, <3>3, HadNext DEF Holds
    <2> QED
      BY <1>2, <2>1, <2>2 DEF Price
  <1>3. CASE Reserve(p)
    <2>1. CASE Occupy(p, "offer") /\ Know(p, "offer") /\ Goto(p, FreezeStep) /\ UNCHANGED oid
      <3>1. pc[p] = "reserve" /\ pc[p] \in Occupying /\ UsesOffer
        BY <1>3 DEF Reserve, Occupying, HoldsWhatItKnows, Holds, Used
      <3> QED
        BY <1>0, <1>3, <2>1, <3>1, OccupyHolds, HadNext DEF Reserve, Resource, Owning
    <2>2. CASE Answer(p, Error("offer_reserve"), "unlock")
      BY <2>2 DEF Answer, Goto, TypeOK, Occupying
    <2> QED
      BY <1>3, <2>1, <2>2 DEF Reserve
  <1>4. CASE Freeze(p)
    <2>1. CASE Occupy(p, "freeze") /\ Know(p, "freeze") /\ Goto(p, StockStep) /\ UNCHANGED oid
      <3>1. pc[p] = "freeze" /\ pc[p] \in Occupying /\ UsesLedger
        BY <1>4 DEF Freeze, Occupying, HoldsWhatItKnows, Holds, Used
      <3> QED
        BY <1>0, <1>4, <2>1, <3>1, OccupyHolds, HadNext DEF Freeze, Resource, Owning
    <2>2. CASE Fail(p, "ledger_freeze")
      BY <1>0, <1>4, <2>2 DEF Freeze, Fail, Goto, TypeOK, Occupying, Owning
    <2> QED
      BY <1>4, <2>1, <2>2 DEF Freeze
  <1>5. CASE ReserveStock(p)
    <2>1. pc[p] = "stock" /\ pc[p] \in Occupying /\ UsesStock
      BY <1>5 DEF ReserveStock, Occupying, HoldsWhatItKnows, Holds, Used
    <2> QED
      BY <1>0, <1>5, <2>1, OccupyHolds, HadNext DEF ReserveStock, Resource, Owning
  <1>6. CASE InsertCheckout(p) \/ Rollback(p)
    BY <1>0, <1>6 DEF InsertCheckout, Rollback, Undo, Fail, Goto, TypeOK, Occupying, Owning, Undoing
  <1>7. CASE Conflict(p) \/ CreateIntent(p) \/ UpdateIdempotencyResponse(p) \/ Created(p) \/ Unlock(p)
    BY <1>0, <1>7 DEF Conflict, CreateIntent, UpdateIdempotencyResponse, Created, Unlock, Answer,
       Goto, TypeOK, Occupying, Owning, Undoing, Inserted, HoldsWhatItKnows
  <1>8. CASE Crash(p) \/ \E a \in Asks : Begin(p, a)
    BY <1>0, <1>8 DEF Crash, Begin, Answer, Goto, TypeOK, Occupying, Owning, HoldsWhatItKnows
  <1> QED
    BY <1>1, <1>2, <1>3, <1>4, <1>5, <1>6, <1>7, <1>8 DEF Act, Step

-----------------------------------------------------------------------------
(* Keys.                                                                   *)

(* A record, once written, names its order for good, and rows stay.  Only  *)
(* InsertCheckout writes either.                                           *)
LEMMA TablesGrow ==
  ASSUME TypeOK, IdsOwned, NEW p \in Proc, Act(p)
  PROVE  /\ \A i \in OrderId : orders[i] # NoRow => orders'[i] # NoRow
         /\ \A k \in Coid : idem[k].order # NoId => idem'[k].order = idem[k].order
         /\ \A k \in Coid : \/ idem'[k].order = idem[k].order
                            \/ InsertCheckout(p) /\ idem'[k].order = oid[p] /\ orders'[oid[p]] # NoRow
  <1>1. ask[p].key \in Coid /\ ask[p] # NoRow
    BY AskFields DEF TypeOK
  <1>2. CASE InsertCheckout(p)
    <2>1. oid[p] \in OrderId
      BY <1>2 DEF InsertCheckout, IdsOwned, Occupying, TypeOK
    <2>2. CASE UNCHANGED <<orders, idem>>
      BY <2>2
    <2>3. CASE /\ idem[ask[p].key].order = NoId
               /\ orders' = [orders EXCEPT ![oid[p]] = ask[p]]
               /\ idem' = [idem EXCEPT ![ask[p].key] = RecordOf(p)]
      <3>1. RecordOf(p).order = oid[p]
        BY DEF RecordOf
      <3>2. \A k \in Coid : idem'[k] = IF k = ask[p].key THEN RecordOf(p) ELSE idem[k]
        BY <1>1, <2>3 DEF TypeOK
      <3>3. \A i \in OrderId : orders'[i] = IF i = oid[p] THEN ask[p] ELSE orders[i]
        BY <2>1, <2>3 DEF TypeOK
      <3> QED
        BY <1>1, <1>2, <2>1, <2>3, <3>1, <3>2, <3>3
    <2> QED
      BY <1>2, <2>2, <2>3 DEF InsertCheckout, RecordOf
  <1>3. CASE UpdateIdempotencyResponse(p)
    BY <1>1, <1>3 DEF UpdateIdempotencyResponse, TypeOK
  <1>4. CASE ~InsertCheckout(p) /\ ~UpdateIdempotencyResponse(p)
    BY <1>4 DEF Act, Step, Check, FindByClientOrderID, TryLock, Recheck, Price, Reserve, Freeze,
       ReserveStock, Rollback, Undo, Conflict, CreateIntent, Created, Unlock, Crash, Begin
  <1> QED
    BY <1>2, <1>3, <1>4

(* The promise of one goroutine: its order is the one recorded under its key. *)
Told(p) ==
  /\ pc[p] \in Inserted => idem[ask[p].key].order = oid[p]
  /\ reply[p].kind = "ok" => reply[p].order # NoId /\ idem[ask[p].key].order = reply[p].order

(* A goroutine that does not move is told the same. *)
LEMMA ToldStays ==
  ASSUME TypeOK, IdsOwned, NEW p \in Proc, Act(p), NEW q \in Proc, SameLocals(q), Told(q)
  PROVE  Told(q)'
  <1>1. ask[q].key \in Coid
    BY AskFields DEF TypeOK
  <1>2. pc[q] \in Inserted => oid[q] # NoId
    BY DEF IdsOwned
  <1> QED
    BY <1>1, <1>2, TablesGrow DEF SameLocals, Told

(* The look-up answers with the recorded order, if it answers with one. *)
LEMMA FindTells ==
  ASSUME TypeOK, NEW p \in Proc, Told(p), NEW l, NEW m, l \notin Inserted, m \notin Inserted,
         FindIdempotency(p, l, m), UNCHANGED <<idem, ask>>
  PROVE  Told(p)'
  BY DEF FindIdempotency, Answer, Goto, TypeOK, Told, Ok, Error

(* Every step of a goroutine keeps keys and answers in line. *)
LEMMA KeysStep ==
  ASSUME TypeOK, IdsOwned, KeysAgree, NEW p \in Proc, Act(p)
  PROVE  KeysAgree'
  <1>0. \A q \in Proc : Told(q)
    BY DEF KeysAgree, Told
  <1>1. ASSUME NEW k \in Coid, idem'[k].order # NoId PROVE orders'[idem'[k].order] # NoRow
    <2>1. idem[k].order \in OrderId \cup {NoId}
      BY DEF TypeOK
    <2> QED
      BY <1>1, <2>1, TablesGrow DEF KeysAgree
  <1>2. ASSUME NEW q \in Proc, q # p PROVE Told(q)'
    BY <1>0, <1>2, OthersKeep, ToldStays
  <1>3. Told(p)'
    <2> USE DEF Inserted
    <2>1. CASE Check(p) \/ Recheck(p)
      BY <1>0, <2>1, FindTells DEF Check, Recheck
    <2>2. CASE FindByClientOrderID(p) \/ TryLock(p)
      BY <1>0, <2>2 DEF FindByClientOrderID, TryLock, Answer, Goto, TypeOK, Told, Error
    <2>3. CASE Price(p)
      BY <1>0, <2>3 DEF Price, Answer, Goto, TypeOK, Told, Error, OfferStep, FreezeStep, StockStep
    <2>4. CASE Reserve(p) \/ Freeze(p) \/ ReserveStock(p) \/ Rollback(p)
      BY <1>0, <2>4 DEF Reserve, Freeze, ReserveStock, Rollback, Undo, Answer, Fail, Goto, TypeOK,
         Told, Error, FreezeStep, StockStep
    <2>5. CASE InsertCheckout(p)
      <3>1. ask[p].key \in Coid
        BY AskFields DEF TypeOK
      <3>2. CASE Fail(p, "internal") \/ Fail(p, "client_order_conflict") \/ Fail(p, "idempotency_conflict")
        BY <2>5, <3>2 DEF Fail, Goto, TypeOK, Told, Error
      <3>3. CASE ~(Fail(p, "internal") \/ Fail(p, "client_order_conflict") \/ Fail(p, "idempotency_conflict"))
        <4>1. /\ idem[ask[p].key].order = NoId /\ UNCHANGED <<oid, reply, ask>>
              /\ idem'[ask[p].key].order = oid[p]
          BY <2>5, <3>1, <3>3 DEF InsertCheckout, TypeOK
        <4> QED
          BY <1>0, <4>1 DEF Told
      <3> QED
        BY <3>2, <3>3
    <2>6. CASE Conflict(p)
      BY <1>0, <2>6 DEF Conflict, Answer, Goto, TypeOK, Told, Ok
    <2>7. CASE CreateIntent(p) \/ Unlock(p)
      BY <1>0, <2>7 DEF CreateIntent, Unlock, Goto, TypeOK, Told
    <2>8. CASE UpdateIdempotencyResponse(p)
      <3>1. ask[p].key \in Coid
        BY AskFields DEF TypeOK
      <3>2. idem'[ask[p].key].order = idem[ask[p].key].order
        BY <2>8, <3>1 DEF UpdateIdempotencyResponse, TypeOK
      <3> QED
        BY <1>0, <2>8, <3>2 DEF UpdateIdempotencyResponse, Goto, TypeOK, Told
    <2>9. CASE Created(p)
      <3>1. oid[p] # NoId /\ idem[ask[p].key].order = oid[p]
        BY <1>0, <2>9 DEF Created, IdsOwned, Told
      <3> QED
        BY <2>9, <3>1 DEF Created, Answer, Goto, TypeOK, Told, Ok
    <2>10. CASE Crash(p) \/ \E a \in Asks : Begin(p, a)
      BY <1>0, <2>10 DEF Crash, Begin, Answer, Goto, TypeOK, Told, NoReply
    <2> QED
      BY <2>1, <2>2, <2>3, <2>4, <2>5, <2>6, <2>7, <2>8, <2>9, <2>10 DEF Act, Step
  <1> QED
    BY <1>1, <1>2, <1>3 DEF KeysAgree, Told

-----------------------------------------------------------------------------
(* Losses.                                                                 *)

(* One more element counts for one at most. *)
LEMMA OneMore ==
  ASSUME NEW S, NEW T, NEW x, IsFiniteSet(S), \A y \in T : y \in S \/ y = x
  PROVE  /\ IsFiniteSet(T) /\ Cardinality(S) \in Nat /\ Cardinality(T) \in Nat
         /\ Cardinality(T) <= Cardinality(S) + 1
  <1> DEFINE U == S \cup {x}
  <1>1. Cardinality(S) \in Nat
    BY FS_CardinalityType
  <1>2. IsFiniteSet(U) /\ Cardinality(U) = IF x \in S THEN Cardinality(S) ELSE Cardinality(S) + 1
    BY FS_AddElement
  <1>3. T \subseteq U
    OBVIOUS
  <1> HIDE DEF U
  <1>4. IsFiniteSet(T) /\ Cardinality(T) <= Cardinality(U)
    BY <1>2, <1>3, FS_Subset
  <1>5. Cardinality(T) \in Nat
    BY <1>4, FS_CardinalityType
  <1> QED
    BY <1>1, <1>2, <1>4, <1>5

(* Three resources of one order are three at most. *)
LEMMA ThreeAtMost ==
  ASSUME NEW a, NEW b, NEW c
  PROVE  IsFiniteSet({a, b, c}) /\ Cardinality({a, b, c}) <= 3
  <1> DEFINE A == {a}
             B == A \cup {b}
             C == B \cup {c}
  <1>1. IsFiniteSet(A) /\ Cardinality(A) = 1
    BY FS_Singleton
  <1>2. IsFiniteSet(B) /\ Cardinality(B) <= 2
    <2>1. \A y \in B : y \in A \/ y = b
      OBVIOUS
    <2> HIDE DEF A, B
    <2>2. /\ IsFiniteSet(B) /\ Cardinality(A) \in Nat /\ Cardinality(B) \in Nat
          /\ Cardinality(B) <= Cardinality(A) + 1
      BY <1>1, <2>1, OneMore
    <2> QED
      BY <1>1, <2>2
  <1>3. IsFiniteSet(C) /\ Cardinality(C) <= 3
    <2>1. \A y \in C : y \in B \/ y = c
      OBVIOUS
    <2> HIDE DEF B, C
    <2>2. /\ IsFiniteSet(C) /\ Cardinality(B) \in Nat /\ Cardinality(C) \in Nat
          /\ Cardinality(C) <= Cardinality(B) + 1
      BY <1>2, <2>1, OneMore
    <2> QED
      BY <1>2, <2>2
  <1>4. {a, b, c} = C
    OBVIOUS
  <1> HIDE DEF C
  <1> QED
    BY <1>3, <1>4

(* What is lost is a finite set. *)
LEMMA LostFinite == IsFiniteSet(Lost) /\ IsFiniteSet(Lost')
  <1>1. IsFiniteSet(OrderId)
    BY FS_Interval DEF OrderId
  <1>2. IsFiniteSet(Resource)
    BY ThreeAtMost DEF Resource
  <1>3. IsFiniteSet(OrderId \X Resource)
    BY <1>1, <1>2, FS_Product
  <1> QED
    BY <1>3, FS_Subset DEF Lost

(* A step that loses no more than it pays for in faults. *)
LEMMA LossPaid ==
  ASSUME TypeOK, TypeOK', LossIsFault, NEW E, IsFiniteSet(E), Lost' \subseteq Lost \cup E,
         NEW n \in Nat, Cardinality(E) <= n,
         faults'.calls + 3 * faults'.crashes >= faults.calls + 3 * faults.crashes + n
  PROVE  LossIsFault'
  <1>1. /\ Cardinality(Lost) \in Nat /\ Cardinality(Lost') \in Nat /\ Cardinality(E) \in Nat
        /\ Cardinality(Lost \cap E) \in Nat
    BY LostFinite, FS_CardinalityType, FS_Intersection
  <1>2. /\ IsFiniteSet(Lost \cup E)
        /\ Cardinality(Lost \cup E) = Cardinality(Lost) + Cardinality(E) - Cardinality(Lost \cap E)
    BY LostFinite, FS_Union
  <1>3. Cardinality(Lost') <= Cardinality(Lost \cup E)
    BY <1>2, FS_Subset
  <1>4. /\ faults.calls \in Nat /\ faults.crashes \in Nat
        /\ faults'.calls \in Nat /\ faults'.crashes \in Nat
    BY DEF TypeOK
  <1> QED
    BY <1>1, <1>2, <1>3, <1>4 DEF LossIsFault

(* r is held under the id of p, and the step of p is what lost it. *)
NewlyLost(p, r) ==
  /\ r \in taken'[oid[p]] /\ orders'[oid[p]] = NoRow
  /\ oid'[p] = oid[p] => r \notin Pending(p)'
  /\ r \notin taken[oid[p]] \/ r \in Pending(p)

(* A goroutine can only lose what is held under its own id. *)
LEMMA LostOwn ==
  ASSUME TypeOK, IdsOwned, NEW p \in Proc, Act(p), NEW x \in Lost', x \notin Lost
  PROVE  /\ oid[p] \in OrderId /\ x = <<oid[p], x[2]>> /\ x[2] \in Resource
         /\ NewlyLost(p, x[2])
  <1>1. x \in OrderId \X Resource /\ x[1] \in OrderId /\ x[2] \in Resource /\ x = <<x[1], x[2]>>
    BY DEF Lost
  <1>2. /\ x[2] \in taken'[x[1]] /\ orders'[x[1]] = NoRow
        /\ \A q \in Proc : oid'[q] = x[1] => x[2] \notin Pending(q)'
    BY DEF Lost
  <1>3. orders[x[1]] = NoRow
    BY <1>1, <1>2, TablesGrow
  <1>4. \A q \in Proc \ {p} : oid'[q] = oid[q] /\ (x[2] \in Pending(q)' <=> x[2] \in Pending(q))
    BY OthersKeep DEF SameLocals, Pending
  <1>5. x[2] \notin taken[x[1]] \/ \E q \in Proc : oid[q] = x[1] /\ x[2] \in Pending(q)
    BY <1>1, <1>3 DEF Lost
  <1>6. x[2] \notin taken[x[1]] \/ (oid[p] = x[1] /\ x[2] \in Pending(p))
    BY <1>2, <1>4, <1>5
  <1>7. x[1] = oid[p]
    BY <1>1, <1>2, <1>6, OtherOrdersKeep
  <1> QED
    BY <1>1, <1>2, <1>6, <1>7 DEF NewlyLost

(* A step that loses nothing, at most one resource for a failed call, or   *)
(* at most all three for a death, is accounted for.                        *)
LEMMA LossCases ==
  ASSUME TypeOK, TypeOK', IdsOwned, LossIsFault, NEW p \in Proc, Act(p),
         \/ \A r \in Resource : oid[p] \in OrderId => ~NewlyLost(p, r)
         \/ Fault /\ \E s : \A r \in Resource : NewlyLost(p, r) => r = s
         \/ Crash(p),
         Fault \/ LostCommit \/ UNCHANGED faults \/ Crash(p)
  PROVE  LossIsFault'
  <1>0. /\ faults.calls \in Nat /\ faults.crashes \in Nat
        /\ faults'.calls \in Nat /\ faults'.crashes \in Nat
    BY DEF TypeOK
  <1>1. /\ faults'.calls + 3 * faults'.crashes >= faults.calls + 3 * faults.crashes
        /\ Fault => faults'.calls + 3 * faults'.crashes >= faults.calls + 3 * faults.crashes + 1
        /\ Crash(p) => faults'.calls + 3 * faults'.crashes >= faults.calls + 3 * faults.crashes + 3
    BY DEF Fault, LostCommit, Crash, TypeOK
  <1>2. CASE \A r \in Resource : oid[p] \in OrderId => ~NewlyLost(p, r)
    <2>1. Lost' \subseteq Lost \cup {}
      BY <1>2, LostOwn
    <2> QED
      BY <1>1, <1>0, <2>1, LossPaid, FS_EmptySet
  <1>3. CASE Fault /\ \E s : \A r \in Resource : NewlyLost(p, r) => r = s
    <2>1. PICK s : \A r \in Resource : NewlyLost(p, r) => r = s
      BY <1>3
    <2>2. Lost' \subseteq Lost \cup {<<oid[p], s>>}
      BY <2>1, LostOwn
    <2>3. IsFiniteSet({<<oid[p], s>>}) /\ Cardinality({<<oid[p], s>>}) = 1
      BY FS_Singleton
    <2> QED
      BY <1>1, <1>3, <2>2, <2>3, LossPaid
  <1>4. CASE Crash(p)
    <2> DEFINE E == {<<oid[p], "offer">>, <<oid[p], "freeze">>, <<oid[p], "stock">>}
    <2>1. Lost' \subseteq Lost \cup E
      <3> SUFFICES ASSUME NEW x \in Lost', x \notin Lost PROVE x \in E
        OBVIOUS
      <3> QED
        BY LostOwn DEF Resource
    <2>2. IsFiniteSet(E) /\ Cardinality(E) <= 3
      BY ThreeAtMost
    <2> HIDE DEF E
    <2> QED
      BY <1>1, <1>4, <2>1, <2>2, LossPaid
  <1> QED
    BY <1>2, <1>3, <1>4

(* Where p holds no id, or has no rollback to come, and takes nothing and  *)
(* inserts nothing, nothing is newly lost.                                 *)
LEMMA NothingLost ==
  ASSUME NEW p \in Proc, Pending(p) = {}, UNCHANGED taken, NEW r
  PROVE  ~NewlyLost(p, r)
  BY DEF NewlyLost

(* While it occupies, and when it fails after that, the rollback will give *)
(* back all that it knows of.                                              *)
LEMMA PendingAll ==
  ASSUME TypeOK, TypeOK', NEW p \in Proc, pc'[p] \in Occupying \cup {"undo_stock"}
  PROVE  Pending(p)' = got'[p]
  BY DEF Pending

(* A step of the rollback settles one resource: it gives it back, was not  *)
(* holding it, or loses it with a fault.                                   *)
LEMMA UndoLoses ==
  ASSUME TypeOK, IdsOwned, NEW p \in Proc, NEW l, NEW s, NEW m, Undo(p, l, s, m),
         <<l, s, m>> \in {<<"undo_stock", "stock", "undo_freeze">>,
                          <<"undo_freeze", "freeze", "undo_offer">>,
                          <<"undo_offer", "offer", "rolled_back">>}
  PROVE  \/ \A r \in Resource : ~NewlyLost(p, r)
         \/ Fault /\ \A r \in Resource : NewlyLost(p, r) => r = s
  <1>1. oid[p] \in OrderId
    BY DEF Undo, IdsOwned, Undoing, TypeOK
  <1>2. pc[p] = l /\ pc'[p] = m /\ got'[p] = got[p] /\ oid'[p] = oid[p]
    BY DEF Undo, Goto, TypeOK
  <1>3. \A r \in Resource : r \in Pending(p) => r \in Pending(p)' \/ r = s
    BY <1>2 DEF Pending, Occupying, Resource
  <1>4. s \in Pending(p) => s \in got[p]
    BY DEF Pending
  <1>5. CASE s \notin got[p] /\ UNCHANGED taken
    BY <1>2, <1>3, <1>4, <1>5 DEF NewlyLost
  <1>6. CASE Release(p, s)
    <2>1. taken'[oid[p]] = taken[oid[p]] \ {s}
      BY <1>1, <1>6 DEF Release, TypeOK
    <2> QED
      BY <1>2, <1>3, <2>1 DEF NewlyLost
  <1>7. CASE Fault /\ UNCHANGED taken
    BY <1>2, <1>3, <1>7 DEF NewlyLost
  <1> QED
    BY <1>5, <1>6, <1>7 DEF Undo

(* A call that is answered loses nothing; one that fails, what it took. *)
LEMMA CallLoses ==
  ASSUME TypeOK, TypeOK', IdsOwned, HoldsWhatItKnows, NEW p \in Proc, NEW s \in Resource,
         pc[p] \in Occupying, UNCHANGED orders,
         \/ Occupy(p, s) /\ Know(p, s) /\ UNCHANGED oid /\ pc'[p] \in Occupying
         \/ /\ Occupy(p, s) \/ UNCHANGED taken
            /\ Fault /\ Fail(p, "ledger_freeze")
         \/ /\ got[p] = {} /\ (Occupy(p, s) \/ UNCHANGED taken)
            /\ Fault /\ Answer(p, Error("offer_reserve"), "unlock")
  PROVE  \/ \A r \in Resource : ~NewlyLost(p, r)
         \/ Fault /\ \A r \in Resource : NewlyLost(p, r) => r = s
  <1>1. oid[p] \in OrderId /\ taken[oid[p]] = got[p] /\ Pending(p) = got[p]
    BY DEF IdsOwned, TypeOK, HoldsWhatItKnows, Holds, Pending
  <1>2. Occupy(p, s) => taken'[oid[p]] = got[p] \cup {s}
    BY <1>1 DEF Occupy, TypeOK
  <1>3. CASE Occupy(p, s) /\ Know(p, s) /\ UNCHANGED oid /\ pc'[p] \in Occupying
    <2>1. got'[p] = got[p] \cup {s} /\ Pending(p)' = got'[p]
      BY <1>3, PendingAll DEF Know, TypeOK
    <2> QED
      BY <1>2, <1>3, <2>1, <1>1 DEF NewlyLost, Occupying
  <1>4. CASE Fault /\ Fail(p, "ledger_freeze") /\ (Occupy(p, s) \/ UNCHANGED taken)
    <2>1. oid'[p] = oid[p] /\ Pending(p)' = got[p]
      BY <1>4, PendingAll DEF Fail, Goto, TypeOK
    <2> QED
      BY <1>1, <1>2, <1>4, <2>1 DEF NewlyLost
  <1>5. CASE Fault /\ got[p] = {} /\ (Occupy(p, s) \/ UNCHANGED taken)
    BY <1>1, <1>2, <1>5 DEF NewlyLost
  <1> QED
    BY <1>3, <1>4, <1>5

(* Every step of a goroutine pays for what it loses. *)
LEMMA LossStep ==
  ASSUME TypeOK, TypeOK', IdsOwned, HoldsWhatItKnows, LossIsFault, NEW p \in Proc, Act(p)
  PROVE  LossIsFault'
  <1>0. oid[p] # NoId <=> pc[p] \in Owning
    BY DEF IdsOwned, Owning
  <1>1. CASE \/ Check(p) \/ FindByClientOrderID(p) \/ TryLock(p) \/ Recheck(p) \/ Price(p)
             \/ Unlock(p) \/ \E a \in Asks : Begin(p, a)
    <2>1. oid[p] = NoId /\ (Fault \/ UNCHANGED faults)
      BY <1>0, <1>1 DEF Check, FindByClientOrderID, TryLock, Recheck, Price, Unlock, Begin, Owning,
         Occupying, Undoing, Inserted
    <2>2. oid[p] \notin OrderId
      BY <2>1 DEF NoId, OrderId
    <2> QED
      BY <2>1, <2>2, LossCases
  <1>2. CASE Conflict(p) \/ CreateIntent(p) \/ UpdateIdempotencyResponse(p) \/ Created(p)
    <2>1. Pending(p) = {}
      BY <1>2 DEF Conflict, CreateIntent, UpdateIdempotencyResponse, Created, Pending, Occupying
    <2>2. UNCHANGED taken /\ (Fault \/ UNCHANGED faults)
      BY <1>2 DEF Conflict, CreateIntent, UpdateIdempotencyResponse, Created
    <2> QED
      BY <2>1, <2>2, NothingLost, LossCases
  <1>3. CASE Reserve(p) \/ Freeze(p) \/ ReserveStock(p)
    <2>1. Fault \/ UNCHANGED faults
      BY <1>3 DEF Reserve, Freeze, ReserveStock
    <2>2. /\ pc[p] \in Occupying /\ UNCHANGED orders
          /\ pc[p] = "reserve" => got[p] = {}
      BY <1>3 DEF Reserve, Freeze, ReserveStock, Occupying, HoldsWhatItKnows, Holds, Had
    <2>3. \E s \in Resource : \/ \A r \in Resource : ~NewlyLost(p, r)
                              \/ Fault /\ \A r \in Resource : NewlyLost(p, r) => r = s
      <3>0. {FreezeStep, StockStep, "insert"} \subseteq Occupying
        BY DEF FreezeStep, StockStep, Occupying
      <3>1. CASE Reserve(p)
        <4>1. /\ Goto(p, FreezeStep) => pc'[p] \in Occupying
              /\ "offer" \in Resource
          BY <3>0 DEF Goto, TypeOK, Resource
        <4> QED
          BY <2>2, <3>1, <4>1, CallLoses DEF Reserve
      <3>2. CASE Freeze(p)
        <4>1. /\ Goto(p, StockStep) => pc'[p] \in Occupying
              /\ "freeze" \in Resource
          BY <3>0 DEF Goto, TypeOK, Resource
        <4> QED
          BY <2>2, <3>2, <4>1, CallLoses DEF Freeze
      <3>3. CASE ReserveStock(p)
        <4>1. /\ Goto(p, "insert") => pc'[p] \in Occupying
              /\ "stock" \in Resource
          BY <3>0 DEF Goto, TypeOK, Resource
        <4> QED
          BY <2>2, <3>3, <4>1, CallLoses DEF ReserveStock
      <3> QED
        BY <1>3, <3>1, <3>2, <3>3
    <2> QED
      BY <2>1, <2>3, LossCases
  <1>4. CASE InsertCheckout(p)
    <2>1. Fault \/ LostCommit \/ UNCHANGED faults
      BY <1>4 DEF InsertCheckout
    <2>2. oid[p] \in OrderId /\ ask[p] # NoRow
      BY <1>4, AskFields DEF InsertCheckout, IdsOwned, Occupying, TypeOK
    <2>3. ASSUME NEW r \in Resource PROVE ~NewlyLost(p, r)
      <3>1. CASE orders'[oid[p]] # NoRow
        BY <3>1 DEF NewlyLost
      <3>2. CASE orders'[oid[p]] = NoRow
        <4>1. pc'[p] = "undo_stock" /\ UNCHANGED <<oid, got, taken>>
          BY <1>4, <2>2, <3>2 DEF InsertCheckout, Fail, Goto, TypeOK
        <4>2. Pending(p)' = got[p] /\ taken[oid[p]] = got[p]
          BY <1>4, <4>1, PendingAll DEF InsertCheckout, HoldsWhatItKnows, Holds, Occupying
        <4> QED
          BY <4>1, <4>2 DEF NewlyLost
      <3> QED
        BY <3>1, <3>2
    <2> QED
      BY <2>1, <2>3, LossCases
  <1>5. CASE Rollback(p)
    <2>1. PICK l, s, m : /\ Undo(p, l, s, m)
                         /\ <<l, s, m>> \in {<<"undo_stock", "stock", "undo_freeze">>,
                                             <<"undo_freeze", "freeze", "undo_offer">>,
                                             <<"undo_offer", "offer", "rolled_back">>}
      BY <1>5 DEF Rollback
    <2>2. Fault \/ UNCHANGED faults
      BY <2>1 DEF Undo
    <2> QED
      BY <2>1, <2>2, UndoLoses, LossCases
  <1>6. CASE Crash(p)
    BY <1>6, LossCases
  <1> QED
    BY <1>1, <1>2, <1>3, <1>4, <1>5, <1>6 DEF Act, Step

-----------------------------------------------------------------------------
(* Orders at risk.                                                         *)

(* A step puts at most its own order at risk, and that only where it       *)
(* inserts it.                                                             *)
LEMMA RiskOwn ==
  ASSUME TypeOK, TypeOK', IdsOwned, HoldsWhatItKnows, NEW p \in Proc, Act(p),
         NEW i \in AtRisk', i \notin AtRisk
  PROVE  InsertCheckout(p) /\ LostCommit /\ i = oid[p]
  <1> USE DEF Occupying, Undoing, Inserted, Owning
  <1>1. /\ i \in OrderId /\ orders'[i] # NoRow
        /\ taken'[i] # Needed \/ \E q \in Proc : oid'[q] = i /\ pc'[q] \in Undoing
    BY DEF AtRisk
  <1>2. \A q \in Proc \ {p} : oid'[q] = oid[q] /\ pc'[q] = pc[q]
    BY OthersKeep DEF SameLocals
  <1>3. oid[p] # NoId <=> pc[p] \in Owning
    BY DEF IdsOwned
  <1>4. pc'[p] \in Undoing => oid'[p] = oid[p]
    <2> USE DEF Goto, TypeOK, OfferStep, FreezeStep, StockStep
    <2>1. CASE Check(p) \/ FindByClientOrderID(p) \/ TryLock(p) \/ Recheck(p) \/ Price(p)
      BY <1>3, <2>1, SMTT(30) DEF Check, FindByClientOrderID, TryLock, Recheck, Price,
         FindIdempotency, Answer, Fail
    <2>2. CASE Reserve(p) \/ Freeze(p) \/ ReserveStock(p) \/ InsertCheckout(p)
      BY <1>3, <2>2, SMTT(30) DEF Reserve, Freeze, ReserveStock, InsertCheckout, Answer, Fail
    <2>3. CASE Rollback(p) \/ Conflict(p)
      BY <1>3, <2>3, SMTT(30) DEF Rollback, Undo, Conflict, FindIdempotency, Answer, Fail
    <2>4. CASE CreateIntent(p) \/ UpdateIdempotencyResponse(p) \/ Created(p) \/ Unlock(p)
      BY <1>3, <2>4, SMTT(30) DEF CreateIntent, UpdateIdempotencyResponse, Created, Unlock, Answer, Fail
    <2>5. CASE Crash(p) \/ \E a \in Asks : Begin(p, a)
      BY <1>3, <2>5, SMTT(30) DEF Crash, Begin, Answer
    <2> QED
      BY <2>1, <2>2, <2>3, <2>4, <2>5 DEF Act, Step
  <1>5. i = oid[p]
    BY <1>1, <1>2, <1>4, OtherOrdersKeep DEF AtRisk
  <1>6. pc[p] \in Owning
    BY <1>1, <1>3, <1>5 DEF OrderId, NoId
  <1>7. CASE pc[p] \in Undoing
    <2>1. UNCHANGED orders
      BY <1>7 DEF Act, Step, Check, FindByClientOrderID, TryLock, Recheck, Price, Reserve, Freeze,
         ReserveStock, InsertCheckout, Rollback, Undo, Conflict, CreateIntent, Created, Unlock,
         UpdateIdempotencyResponse, Crash, Begin
    <2> QED
      BY <1>1, <1>5, <1>7, <2>1 DEF AtRisk
  <1>8. CASE pc[p] \in Inserted
    <2>1. UNCHANGED <<orders, taken>> /\ pc'[p] \notin Undoing
      BY <1>8, SMTT(30) DEF Act, Step, Check, FindByClientOrderID, TryLock, Recheck, Price, Reserve, Freeze,
         ReserveStock, InsertCheckout, Rollback, Undo, Conflict, CreateIntent, Created, Unlock,
         UpdateIdempotencyResponse, Crash, Begin, Answer, Goto, TypeOK
    <2> QED
      BY <1>1, <1>2, <2>1 DEF AtRisk
  <1>9. CASE pc[p] \in Occupying
    <2>1. orders[i] = NoRow /\ (pc[p] = "insert" => taken[i] = Needed)
      BY <1>5, <1>9 DEF HoldsWhatItKnows, Holds, Had
    <2>2. InsertCheckout(p)
      BY <1>1, <1>9, <2>1 DEF Act, Step, Check, FindByClientOrderID, TryLock, Recheck, Price, Reserve,
         Freeze, ReserveStock, Rollback, Undo, Conflict, CreateIntent, Created, Unlock,
         UpdateIdempotencyResponse, Crash, Begin
    <2>3. taken'[i] = Needed /\ pc[p] = "insert"
      BY <2>1, <2>2 DEF InsertCheckout
    <2>4. \A q \in Proc \ {p} : oid[q] # i
      BY <1>1, <1>5 DEF IdsOwned, OrderId, NoId
    <2>5. pc'[p] \in Undoing
      BY <1>1, <1>2, <2>3, <2>4
    <2>6. LostCommit
      BY <1>1, <2>1, <2>2, <2>5 DEF InsertCheckout, Goto, TypeOK
    <2> QED
      BY <1>5, <2>2, <2>6
  <1> QED
    BY <1>6, <1>7, <1>8, <1>9

(* Every step of a goroutine pays for the order it puts at risk. *)
LEMMA RiskStep ==
  ASSUME TypeOK, TypeOK', IdsOwned, HoldsWhatItKnows, RiskIsLostCommit, NEW p \in Proc, Act(p)
  PROVE  RiskIsLostCommit'
  <1>1. IsFiniteSet(OrderId)
    BY FS_Interval DEF OrderId
  <1>2. IsFiniteSet(AtRisk) /\ IsFiniteSet(AtRisk')
    BY <1>1, FS_Subset DEF AtRisk
  <1>3. Cardinality(AtRisk) \in Nat /\ Cardinality(AtRisk') \in Nat
    BY <1>2, FS_CardinalityType
  <1>4. CASE AtRisk' \subseteq AtRisk
    <2>1. faults'.commits >= faults.commits /\ faults.commits \in Nat /\ faults'.commits \in Nat
      <3>1. faults.commits \in Nat /\ faults'.commits \in Nat
        BY DEF TypeOK
      <3>2. CASE Reserve(p) \/ Freeze(p) \/ ReserveStock(p) \/ Rollback(p)
        BY <3>1, <3>2 DEF Reserve, Freeze, ReserveStock, Rollback, Undo, Fault, TypeOK
      <3>3. CASE InsertCheckout(p) \/ CreateIntent(p) \/ UpdateIdempotencyResponse(p) \/ Unlock(p)
                   \/ Crash(p)
        BY <3>1, <3>3 DEF InsertCheckout, CreateIntent, UpdateIdempotencyResponse, Unlock, Crash,
           Fault, LostCommit, TypeOK
      <3>4. CASE \/ Check(p) \/ FindByClientOrderID(p) \/ TryLock(p) \/ Recheck(p) \/ Price(p)
                \/ Conflict(p) \/ Created(p) \/ \E a \in Asks : Begin(p, a)
        BY <3>1, <3>4 DEF Check, FindByClientOrderID, TryLock, Recheck, Price, Conflict, Created,
           Begin
      <3> QED
        BY <3>2, <3>3, <3>4 DEF Act, Step
    <2>2. Cardinality(AtRisk') <= Cardinality(AtRisk)
      BY <1>2, <1>4, FS_Subset
    <2> QED
      BY <1>3, <2>1, <2>2 DEF RiskIsLostCommit
  <1>5. CASE ~(AtRisk' \subseteq AtRisk)
    <2>1. LostCommit /\ \A i \in AtRisk' : i \in AtRisk \/ i = oid[p]
      BY <1>5, RiskOwn
    <2>2. Cardinality(AtRisk') <= Cardinality(AtRisk) + 1
      BY <1>2, <2>1, OneMore
    <2>3. faults'.commits = faults.commits + 1 /\ faults.commits \in Nat
      BY <2>1 DEF LostCommit, TypeOK
    <2> QED
      BY <1>3, <2>2, <2>3 DEF RiskIsLostCommit
  <1> QED
    BY <1>4, <1>5

-----------------------------------------------------------------------------
(* The lock.                                                               *)

LockOf(c) == IF c \in locked THEN 1 ELSE 0
LockAgrees(c) == Cardinality(Inside(c)) <= faults.expiries + LockOf(c)

(* Goroutines are finitely many. *)
LEMMA InsideFinite ==
  ASSUME NEW c
  PROVE  /\ IsFiniteSet(Inside(c)) /\ IsFiniteSet(Inside(c)')
         /\ Cardinality(Inside(c)) \in Nat /\ Cardinality(Inside(c)') \in Nat
  <1>1. IsFiniteSet(Inside(c)) /\ IsFiniteSet(Inside(c)')
    BY ProcAssumption, FS_Subset DEF Inside
  <1> QED
    BY <1>1, FS_CardinalityType

(* No goroutine enters and the lock is not given away. *)
LEMMA LockKept ==
  ASSUME TypeOK, TypeOK', NEW c \in Coid, LockAgrees(c), Inside(c)' \subseteq Inside(c),
         c \in locked => c \in locked', faults'.expiries >= faults.expiries
  PROVE  LockAgrees(c)'
  <1>1. Cardinality(Inside(c)') <= Cardinality(Inside(c))
    BY InsideFinite, FS_Subset
  <1> QED
    BY <1>1, InsideFinite DEF LockAgrees, LockOf, TypeOK

Outside == {"idle", "check", "find", "lock"}

(* Every step of a goroutine keeps the count of those inside. *)
LEMMA LockStep ==
  ASSUME TypeOK, TypeOK', NEW c \in Coid, LockAgrees(c), NEW p \in Proc, Act(p)
  PROVE  LockAgrees(c)'
  <1> USE DEF Outside
  <1>1. \A q \in Proc \ {p} : pc'[q] = pc[q] /\ ask'[q] = ask[q]
    BY OthersKeep DEF SameLocals
  <1>2. faults'.expiries = faults.expiries /\ faults.expiries \in Nat
    BY DEF Act, Step, Check, FindByClientOrderID, TryLock, Recheck, Price, Reserve, Freeze,
       ReserveStock, InsertCheckout, Rollback, Undo, Conflict, CreateIntent, Created, Unlock,
       UpdateIdempotencyResponse, Crash, Begin, Fault, LostCommit, TypeOK
  <1>3. CASE TryLock(p)
    <2>1. CASE ask[p].coid = c /\ c \notin locked
      <3>1. LockOf(c) = 0 /\ LockOf(c)' = 1
        BY <1>3, <2>1 DEF TryLock, LockOf
      <3>2. \A q \in Inside(c)' : q \in Inside(c) \/ q = p
        BY <1>1 DEF Inside
      <3>3. Cardinality(Inside(c)') <= Cardinality(Inside(c)) + 1
        BY <3>2, InsideFinite, OneMore
      <3> QED
        BY <1>2, <3>1, <3>3, InsideFinite DEF LockAgrees
    <2>2. CASE ~(ask[p].coid = c /\ c \notin locked)
      <3>1. ask'[p] = ask[p] /\ (c = ask[p].coid => pc'[p] \in Outside)
        BY <1>3, <2>2 DEF TryLock, Answer, Goto, TypeOK
      <3>2. Inside(c)' \subseteq Inside(c)
        BY <1>1, <3>1 DEF Inside
      <3>3. c \in locked => c \in locked'
        BY <1>3 DEF TryLock
      <3> QED
        BY <1>2, <3>2, <3>3, LockKept
    <2> QED
      BY <2>1, <2>2
  <1>4. CASE Unlock(p)
    <2>0. pc[p] = "unlock" /\ pc'[p] = "idle" /\ ask' = ask
      BY <1>4 DEF Unlock, Goto, TypeOK
    <2>1. CASE ask[p].coid = c
      <3>1. p \in Inside(c) /\ Inside(c)' \subseteq Inside(c) \ {p}
        BY <1>1, <2>0, <2>1 DEF Inside
      <3>2. /\ IsFiniteSet(Inside(c) \ {p})
            /\ Cardinality(Inside(c) \ {p}) = Cardinality(Inside(c)) - 1
        BY <3>1, InsideFinite, FS_RemoveElement
      <3>3. Cardinality(Inside(c)') <= Cardinality(Inside(c)) - 1
        BY <3>1, <3>2, FS_Subset
      <3> QED
        BY <1>2, <3>3, InsideFinite DEF LockAgrees, LockOf
    <2>2. CASE ask[p].coid # c
      <3>1. Inside(c)' \subseteq Inside(c) /\ (c \in locked => c \in locked')
        BY <1>1, <1>4, <2>0, <2>2 DEF Inside, Unlock
      <3> QED
        BY <1>2, <3>1, LockKept
    <2> QED
      BY <2>1, <2>2
  <1>5. CASE ~TryLock(p) /\ ~Unlock(p)
    <2>1. UNCHANGED locked
      BY <1>5 DEF Act, Step, Check, FindByClientOrderID, Recheck, Price, Reserve, Freeze,
         ReserveStock, InsertCheckout, Rollback, Undo, Conflict, CreateIntent, Created,
         UpdateIdempotencyResponse, Crash, Begin
    <2>2. pc'[p] \in Outside \/ (pc[p] \notin Outside /\ ask'[p] = ask[p])
      BY <1>5 DEF Act, Step, Check, FindByClientOrderID, Recheck, Price, Reserve, Freeze,
         ReserveStock, InsertCheckout, Rollback, Undo, Conflict, CreateIntent, Created,
         UpdateIdempotencyResponse, Crash, Begin, FindIdempotency, Answer, Goto, TypeOK
    <2>3. Inside(c)' \subseteq Inside(c)
      BY <1>1, <2>2 DEF Inside
    <2> QED
      BY <1>2, <2>1, <2>3, LockKept
  <1> QED
    BY <1>3, <1>4, <1>5

-----------------------------------------------------------------------------
(* The theorems.                                                           *)

(* The inductive invariant holds initially. *)
LEMMA CheckoutInit == Init => CheckoutInv
  <1> SUFFICES ASSUME Init PROVE CheckoutInv
    OBVIOUS
  <1>1. TypeOK
    <2>1. /\ \A k \in Coid : idem[k] \in [order: OrderId \cup {NoId},
                         hash: (Coid \X Body) \cup {NoHash}, intent: BOOLEAN]
          /\ NoReply \in Replies
      BY RepliesOK DEF Init, NoRecord
    <2> QED
      BY <2>1, TypeSplit DEF Init, TablesOK, LocalsOK, Label, OrderId, NoId
  <1>2. IdsOwned
    BY DEF Init, IdsOwned, Occupying, Undoing, Inserted, NoId
  <1>3. HoldsWhatItKnows
    BY DEF Init, HoldsWhatItKnows, Occupying
  <1>4. KeysAgree
    BY DEF Init, KeysAgree, Inserted, NoRecord, NoReply
  <1>5. LossIsFault
    <2>1. Lost = {}
      BY DEF Init, Lost
    <2> QED
      BY <2>1, FS_EmptySet DEF Init, LossIsFault
  <1>6. RiskIsLostCommit
    <2>1. AtRisk = {}
      BY DEF Init, AtRisk
    <2> QED
      BY <2>1, FS_EmptySet DEF Init, RiskIsLostCommit
  <1>7. LocksAgree
    <2> SUFFICES ASSUME NEW c \in Coid PROVE Cardinality(Inside(c)) = 0 /\ faults.expiries = 0
      BY DEF LocksAgree
    <2>1. Inside(c) = {}
      BY DEF Init, Inside
    <2> QED
      BY <2>1, FS_EmptySet DEF Init
  <1> QED
    BY <1>1, <1>2, <1>3, <1>4, <1>5, <1>6, <1>7 DEF CheckoutInv

(* A step of a goroutine keeps it. *)
LEMMA GoroutineStep ==
  ASSUME CheckoutInv, NEW p \in Proc, Act(p)
  PROVE  CheckoutInv'
  <1> USE DEF CheckoutInv
  <1>1. TypeOK'
    BY SearchTyped, OccupyTyped, InsertTyped, OtherTyped DEF Act, Step
  <1>2. LocksAgree'
    <2>1. \A c \in Coid : LockAgrees(c)
      BY DEF LocksAgree, LockAgrees, LockOf
    <2>2. \A c \in Coid : LockAgrees(c)'
      BY <1>1, <2>1, LockStep
    <2> QED
      BY <2>2 DEF LocksAgree, LockAgrees, LockOf
  <1> QED
    BY <1>1, <1>2, IdsStep, HoldsStep, KeysStep, LossStep, RiskStep

(* An expired lock may let one more goroutine in; nothing else changes. *)
LEMMA ExpireStep ==
  ASSUME CheckoutInv, NEW e \in Coid, Expire(e)
  PROVE  CheckoutInv'
  <1> USE DEF CheckoutInv
  <1>1. TypeOK'
    BY OtherTyped
  <1>2. UNCHANGED <<orders, idem, taken, nextId, pc, ask, oid, got, reply>>
    BY DEF Expire
  <1>3. /\ faults'.calls = faults.calls /\ faults'.crashes = faults.crashes
        /\ faults'.commits = faults.commits /\ faults'.expiries = faults.expiries + 1
    BY DEF Expire, TypeOK
  <1>4. IdsOwned' /\ HoldsWhatItKnows' /\ KeysAgree'
    BY <1>2 DEF IdsOwned, HoldsWhatItKnows, Holds, KeysAgree
  <1>5. LossIsFault'
    <2>1. Lost' = Lost
      BY <1>2 DEF Lost, Pending
    <2> QED
      BY <1>3, <2>1 DEF LossIsFault
  <1>6. RiskIsLostCommit'
    <2>1. AtRisk' = AtRisk
      BY <1>2 DEF AtRisk
    <2> QED
      BY <1>3, <2>1 DEF RiskIsLostCommit
  <1>7. LocksAgree'
    <2> SUFFICES ASSUME NEW c \in Coid PROVE LockAgrees(c)'
      BY DEF LocksAgree, LockAgrees, LockOf
    <2>1. Inside(c)' = Inside(c)
      BY <1>2 DEF Inside
    <2>2. /\ Cardinality(Inside(c)) <= faults.expiries + LockOf(c) /\ LockOf(c) \in {0, 1}
          /\ LockOf(c)' \in {0, 1}
      BY DEF LocksAgree, LockOf
    <2> QED
      BY <1>3, <2>1, <2>2, InsideFinite DEF LockAgrees, TypeOK
  <1> QED
    BY <1>1, <1>4, <1>5, <1>6, <1>7

(* A step that changes nothing keeps it. *)
LEMMA CheckoutStutter ==
  ASSUME CheckoutInv, UNCHANGED vars
  PROVE  CheckoutInv'
  <1> USE DEF vars
  <1>1. Lost' = Lost /\ AtRisk' = AtRisk /\ \A c \in Coid : Inside(c)' = Inside(c)
    BY DEF Lost, Pending, AtRisk, Inside
  <1> QED
    BY <1>1 DEF CheckoutInv, TypeOK, IdsOwned, HoldsWhatItKnows, Holds, KeysAgree, LossIsFault,
       RiskIsLostCommit, LocksAgree

(* The invariant holds of every behaviour of concurrent checkouts.         *)
THEOREM CheckoutInvariant == Spec => []CheckoutInv
  <1>1. Init => CheckoutInv
    BY CheckoutInit
  <1>2. CheckoutInv /\ [Next]_vars => CheckoutInv'
    <2> SUFFICES ASSUME CheckoutInv, [Next]_vars PROVE CheckoutInv'
      OBVIOUS
    <2>1. CASE \E p \in Proc : Act(p)
      BY <2>1, GoroutineStep
    <2>2. CASE \E c \in Coid : Expire(c)
      BY <2>2, ExpireStep
    <2>3. CASE UNCHANGED vars
      BY <2>3, CheckoutStutter
    <2> QED
      BY <2>1, <2>2, <2>3 DEF Next, Act
  <1> QED
    BY <1>1, <1>2, PTL DEF Spec

(* TypeOK: tables, locks and the locals of every goroutine keep their      *)
(* shapes under concurrent checkouts.                                      *)
THEOREM CheckoutTyped == Spec => []TypeOK
  <1>1. CheckoutInv => TypeOK
    BY DEF CheckoutInv
  <1> QED
    BY <1>1, CheckoutInvariant, PTL

(* OneOrderPerKey: every "ok" that checkout.go answers under a key names   *)
(* the one order that is recorded under the key, and that order exists,    *)
(* with any number of goroutines, expired locks and lost commits.          *)
THEOREM KeyNamesOneOrder == Spec => []OneOrderPerKey
  <1>1. CheckoutInv => OneOrderPerKey
    <2> SUFFICES ASSUME CheckoutInv, NEW p \in Proc, reply[p].kind = "ok"
                 PROVE  /\ orders[reply[p].order] # NoRow
                        /\ idem[ask[p].key].order = reply[p].order
      BY DEF OneOrderPerKey
    <2>1. ask[p].key \in Coid
      BY AskFields DEF CheckoutInv, TypeOK
    <2> QED
      BY <2>1 DEF CheckoutInv, KeysAgree
  <1> QED
    BY <1>1, CheckoutInvariant, PTL

(* OrderKeepsResources: rollbacks never strip a committed order of what    *)
(* its scene needs, but for one order per commit whose acknowledgement was *)
(* lost.                                                                   *)
THEOREM RollbackSparesOrders == Spec => []OrderKeepsResources
  <1>1. CheckoutInv => OrderKeepsResources
    <2> SUFFICES ASSUME CheckoutInv PROVE OrderKeepsResources
      OBVIOUS
    <2>1. IsFiniteSet(AtRisk) /\ Stripped \subseteq AtRisk
      <3>1. IsFiniteSet(OrderId)
        BY FS_Interval DEF OrderId
      <3> QED
        BY <3>1, FS_Subset DEF AtRisk, Stripped
    <2>2. IsFiniteSet(Stripped) /\ Cardinality(Stripped) <= Cardinality(AtRisk)
      BY <2>1, FS_Subset
    <2>3. Cardinality(Stripped) \in Nat /\ Cardinality(AtRisk) \in Nat
      BY <2>1, <2>2, FS_CardinalityType
    <2> QED
      BY <2>2, <2>3 DEF CheckoutInv, RiskIsLostCommit, OrderKeepsResources, TypeOK
  <1> QED
    BY <1>1, CheckoutInvariant, PTL

(* LeaksAreFaults: resources left without an order and without a goroutine *)
(* are no more than one per failed call and three per goroutine that died. *)
THEOREM LeaksAreAccountedFor == Spec => []LeaksAreFaults
  <1>1. CheckoutInv => LeaksAreFaults
    <2> SUFFICES ASSUME CheckoutInv PROVE LeaksAreFaults
      OBVIOUS
    <2>1. Orphans \subseteq Lost
      BY DEF Orphans, Lost
    <2>2. IsFiniteSet(Orphans) /\ Cardinality(Orphans) <= Cardinality(Lost)
      BY <2>1, LostFinite, FS_Subset
    <2>3. Cardinality(Orphans) \in Nat /\ Cardinality(Lost) \in Nat
      BY <2>2, LostFinite, FS_CardinalityType
    <2> QED
      BY <2>2, <2>3 DEF CheckoutInv, LossIsFault, LeaksAreFaults, TypeOK
  <1> QED
    BY <1>1, CheckoutInvariant, PTL

(* SectionIsBounded: between TryLock and Unlock of one client_order_id is  *)
(* one goroutine, and one more for each lock that outlived its TTL,        *)
(* although Unlock deletes a lock it may no longer own.                    *)
THEOREM SectionHasOneOwner == Spec => []SectionIsBounded
  <1>1. CheckoutInv => SectionIsBounded
    <2> SUFFICES ASSUME CheckoutInv, NEW c \in Coid
                 PROVE  Cardinality(Inside(c)) <= 1 + faults.expiries
      BY DEF SectionIsBounded
    <2>1. Cardinality(Inside(c)) <= faults.expiries + LockOf(c) /\ LockOf(c) \in {0, 1}
      BY DEF CheckoutInv, LocksAgree, LockOf
    <2> QED
      BY <2>1, InsideFinite DEF CheckoutInv, TypeOK
  <1> QED
    BY <1>1, CheckoutInvariant, PTL

(* A row and the order recorded under a key are for good: no step of any   *)
(* goroutine, rollback or retry takes an order out of the tables or lets a *)
(* key name another.                                                       *)
RecordsStay ==
  [][/\ \A i \in OrderId : orders[i] # NoRow => orders'[i] # NoRow
     /\ \A k \in Coid : idem[k].order # NoId => idem'[k].order = idem[k].order]_vars

(* No saga, rollback or retry undoes a commit: RecordsStay holds of every  *)
(* behaviour of checkout.go.                                               *)
THEOREM KeysForGood == Spec => RecordsStay
  <1> DEFINE Stay == /\ \A i \in OrderId : orders[i] # NoRow => orders'[i] # NoRow
                     /\ \A k \in Coid : idem[k].order # NoId => idem'[k].order = idem[k].order
  <1>1. CheckoutInv /\ [Next]_vars => [Stay]_vars
    <2> SUFFICES ASSUME CheckoutInv, Next PROVE Stay
      OBVIOUS
    <2>1. CASE \E p \in Proc : Act(p)
      BY <2>1, TablesGrow DEF CheckoutInv
    <2>2. CASE \E c \in Coid : Expire(c)
      BY <2>2 DEF Expire
    <2> QED
      BY <2>1, <2>2 DEF Next, Act
  <1> QED
    BY <1>1, CheckoutInvariant, PTL DEF Spec, RecordsStay
=============================================================================
