---------------------------- MODULE OutboxProofs ----------------------------
(***************************************************************************)
(* The safety properties of Outbox for any number of workers, sinks, rows, *)
(* failures and crashes.                                                   *)
(***************************************************************************)
EXTENDS Outbox, FiniteSetTheorems, WellFoundedInduction, TLAPS

USE WorkerAssumption, BatchAssumption, LimitAssumption

-----------------------------------------------------------------------------
(* The inductive invariant.                                                *)

Typed ==
  /\ rows \subseteq Event /\ published \subseteq Event
  /\ delivered \in [Event -> [1 .. Sinks -> Nat]]
  /\ batch \in [Worker -> SUBSET Event]
  /\ sink \in [Worker -> 1 .. Sinks + 1]
  /\ failed \in [Worker -> BOOLEAN]
  /\ faults \in [failures: Nat, crashes: Nat]

(* A worker that no sink has refused has reached the sinks it has called,  *)
(* and between ticks it starts afresh.                                     *)
Reached ==
  /\ \A w \in Worker : batch[w] = {} => sink[w] = 1 /\ ~failed[w]
  /\ \A w \in Worker, s \in 1 .. Sinks :
       batch[w] # {} /\ ~failed[w] /\ s < sink[w] => delivered[Current(w)][s] > 0
  /\ MarkedWasDelivered

(* The workers that will still call s with e in this tick, and those that  *)
(* will read e again in a later one unless it is marked meanwhile.         *)
ToCall(e, s) == {w \in Worker : e \in batch[w] /\ ~(Current(w) = e /\ sink[w] > s)}
ToRead(e)    == {w \in Worker : /\ e \notin published
                                /\ e \notin batch[w] \/ (failed[w] /\ Current(w) = e)}
Budget == Cardinality(Worker) + faults.failures + faults.crashes
CallsCounted ==
  \A e \in Event, s \in 1 .. Sinks :
    delivered[e][s] + Cardinality(ToCall(e, s)) + Cardinality(ToRead(e)) <= Budget

OutboxInv == Typed /\ Reached /\ CallsCounted

-----------------------------------------------------------------------------
(* Rows and workers.                                                       *)

(* A tick that has rows is at one of them, the oldest. *)
LEMMA CurrentIs ==
  ASSUME Typed, NEW w \in Worker, batch[w] # {}
  PROVE  Current(w) \in batch[w] /\ Current(w) \in Event
  <1>1. batch[w] \subseteq Event /\ batch[w] \subseteq Nat
    BY DEF Typed, Event
  <1> DEFINE R == OpToRel(<, Nat)
  <1>2. \A x, y \in Nat : y < x => <<y, x>> \in R
    BY DEF OpToRel
  <1> HIDE DEF R
  <1>3. IsWellFoundedOn(R, Nat)
    BY NatLessThanWellFounded DEF R
  <1>4. \E x \in batch[w] : \A y \in batch[w] : <<y, x>> \notin R
    BY <1>1, <1>3, WFMin
  <1>5. \E x \in batch[w] : \A y \in batch[w] : x <= y
    <2>1. PICK x \in batch[w] : \A y \in batch[w] : <<y, x>> \notin R
      BY <1>4
    <2>2. ASSUME NEW y \in batch[w] PROVE x <= y
      <3>1. x \in Nat /\ y \in Nat /\ <<y, x>> \notin R
        BY <1>1, <2>1
      <3>2. ~(y < x)
        BY <1>2, <3>1
      <3> QED
        BY <3>1, <3>2
    <2> QED
      BY <2>2
  <1> QED
    BY <1>1, <1>5 DEF Current

(* The rows another worker handles, and where it is, do not change. *)
LEMMA CurrentSame ==
  ASSUME NEW w, batch'[w] = batch[w]
  PROVE  Current(w)' = Current(w)
  BY DEF Current

Act(w) == Work(w) \/ Crash(w)

(* A step of one worker leaves the others as they are. *)
LEMMA OthersKeep ==
  ASSUME Typed, NEW w \in Worker, Act(w), NEW u \in Worker, u # w
  PROVE  /\ batch'[u] = batch[u] /\ sink'[u] = sink[u] /\ failed'[u] = failed[u]
         /\ Current(u)' = Current(u)
  <1>1. batch'[u] = batch[u] /\ sink'[u] = sink[u] /\ failed'[u] = failed[u]
    BY DEF Typed, Act, Work, Tick, Publish, MarkEventPublished, NextRow, Crash
  <1> QED
    BY <1>1, CurrentSame

(* What a tick reads is waiting to be published. *)
LEMMA ListIsWaiting == ListUnpublishedEvents \subseteq rows \ published
  BY DEF ListUnpublishedEvents

-----------------------------------------------------------------------------
(* Types.                                                                  *)

(* Counting a fault keeps the counters numbers. *)
LEMMA FaultsTyped ==
  ASSUME Typed, UNCHANGED faults \/ Fail \/ faults' = [faults EXCEPT !.crashes = @ + 1]
  PROVE  faults' \in [failures: Nat, crashes: Nat]
  BY SMTT(30) DEF Typed, Fail

(* Going on to the next row keeps the types. *)
LEMMA NextRowTyped ==
  ASSUME Typed, NEW w \in Worker, NextRow(w)
  PROVE  /\ batch' \in [Worker -> SUBSET Event] /\ sink' \in [Worker -> 1 .. Sinks + 1]
         /\ failed' \in [Worker -> BOOLEAN]
  <1>1. 1 \in 1 .. Sinks + 1
    OBVIOUS
  <1> QED
    BY <1>1 DEF Typed, NextRow

(* One more delivery leaves a table of deliveries. *)
LEMMA DeliveryTyped ==
  ASSUME NEW D, NEW S, NEW t \in [D -> [S -> Nat]], NEW e \in D, NEW k \in S
  PROVE  [t EXCEPT ![e][k] = @ + 1] \in [D -> [S -> Nat]]
  <1>1. t[e] \in [S -> Nat] /\ t[e][k] + 1 \in Nat
    OBVIOUS
  <1>2. [t[e] EXCEPT ![k] = @ + 1] \in [S -> Nat]
    BY <1>1
  <1> QED BY <1>2

(* Publish is at a row and at a sink. *)
LEMMA PublishAt ==
  ASSUME Typed, NEW w \in Worker, Publish(w)
  PROVE  /\ Current(w) \in Event /\ Current(w) \in batch[w]
         /\ sink[w] \in 1 .. Sinks /\ sink[w] + 1 \in 1 .. Sinks + 1
  <1>1. batch[w] # {} /\ sink[w] <= Sinks /\ sink[w] \in 1 .. Sinks + 1
    BY DEF Publish, Typed
  <1>2. sink[w] \in 1 .. Sinks /\ sink[w] + 1 \in 1 .. Sinks + 1
    BY <1>1
  <1> QED
    BY <1>1, <1>2, CurrentIs

(* Every step keeps the types. *)
LEMMA TypedStep ==
  ASSUME Typed, Next
  PROVE  Typed'
  <1>1. ASSUME NEW e \in Event, Commit(e) PROVE Typed'
    BY <1>1 DEF Commit, Typed
  <1>2. ASSUME NEW w \in Worker, Tick(w) PROVE Typed'
    BY <1>2, ListIsWaiting DEF Tick, Typed
  <1>3. ASSUME NEW w \in Worker, Publish(w) PROVE Typed'
    <2>1. /\ Current(w) \in Event
          /\ sink[w] \in 1 .. Sinks /\ sink[w] + 1 \in 1 .. Sinks + 1
      BY <1>3, PublishAt
    <2>2. [delivered EXCEPT ![Current(w)][sink[w]] = @ + 1] \in [Event -> [1 .. Sinks -> Nat]]
      BY <2>1, DeliveryTyped DEF Typed
    <2>3. delivered' \in [Event -> [1 .. Sinks -> Nat]]
      BY <1>3, <2>2 DEF Publish, Typed
    <2>4. sink' \in [Worker -> 1 .. Sinks + 1]
      BY <1>3, <2>1 DEF Publish, Typed
    <2>6. failed' \in [Worker -> BOOLEAN]
      BY <1>3 DEF Publish, Typed
    <2>5. UNCHANGED faults \/ Fail
      BY <1>3 DEF Publish
    <2> QED
      BY <1>3, <2>3, <2>4, <2>5, <2>6, FaultsTyped DEF Publish, Typed
  <1>4. ASSUME NEW w \in Worker, MarkEventPublished(w) PROVE Typed'
    <2>1. Current(w) \in Event /\ NextRow(w)
      BY <1>4, CurrentIs DEF MarkEventPublished
    <2>2. published' \subseteq Event
      BY <1>4, <2>1 DEF MarkEventPublished, Typed
    <2>3. UNCHANGED faults \/ Fail
      BY <1>4 DEF MarkEventPublished
    <2> QED
      BY <1>4, <2>1, <2>2, <2>3, FaultsTyped, NextRowTyped DEF MarkEventPublished, Typed
  <1>5. ASSUME NEW w \in Worker, Crash(w) PROVE Typed'
    <2>1. 1 \in 1 .. Sinks + 1
      OBVIOUS
    <2>2. /\ batch' \in [Worker -> SUBSET Event] /\ sink' \in [Worker -> 1 .. Sinks + 1]
          /\ failed' \in [Worker -> BOOLEAN]
      BY <1>5, <2>1 DEF Crash, Typed
    <2>3. faults' = [faults EXCEPT !.crashes = @ + 1]
      BY <1>5 DEF Crash
    <2> QED
      BY <1>5, <2>2, <2>3, FaultsTyped DEF Crash, Typed
  <1> QED
    BY <1>1, <1>2, <1>3, <1>4, <1>5 DEF Next, Work

-----------------------------------------------------------------------------
(* Deliveries.                                                             *)

(* Deliveries are never taken back; Publish may add one at the sink and    *)
(* row it is at.                                                           *)
LEMMA DeliveredStep ==
  ASSUME Typed, NEW w \in Worker, Act(w), NEW e \in Event, NEW s \in 1 .. Sinks
  PROVE  /\ delivered[e][s] \in Nat
         /\ \/ delivered'[e][s] = delivered[e][s]
            \/ /\ Publish(w) /\ e = Current(w) /\ s = sink[w]
               /\ delivered'[e][s] = delivered[e][s] + 1
  <1>1. delivered[e][s] \in Nat
    BY DEF Typed
  <1>2. CASE Publish(w)
    <2>1. Current(w) \in Event /\ sink[w] \in 1 .. Sinks
      BY <1>2, PublishAt
    <2>2. CASE delivered' = [delivered EXCEPT ![Current(w)][sink[w]] = @ + 1]
      BY <1>1, <1>2, <2>1, <2>2 DEF Typed
    <2> QED
      BY <1>1, <1>2, <2>2 DEF Publish
  <1>3. CASE ~Publish(w)
    BY <1>1, <1>3 DEF Act, Work, Tick, MarkEventPublished, Crash
  <1> QED
    BY <1>2, <1>3

(* Every step of a worker keeps what its sinks have reached, and marks     *)
(* only what all of them have.                                             *)
LEMMA ReachedStep ==
  ASSUME Typed, Typed', Reached, NEW w \in Worker, Act(w)
  PROVE  Reached'
  <1>0. \A e \in Event, s \in 1 .. Sinks : delivered[e][s] > 0 => delivered'[e][s] > 0
    BY DeliveredStep
  <1>1. ASSUME NEW u \in Worker, batch'[u] = {} PROVE sink'[u] = 1 /\ ~failed'[u]
    <2>1. CASE u # w
      BY <1>1, <2>1, OthersKeep DEF Reached
    <2>2. CASE u = w
      BY <1>1, <2>2 DEF Typed, Reached, Act, Work, Tick, Publish, MarkEventPublished, NextRow, Crash
    <2> QED
      BY <2>1, <2>2
  <1>2. ASSUME NEW u \in Worker, NEW s \in 1 .. Sinks, batch'[u] # {}, ~failed'[u], s < sink'[u]
        PROVE  delivered'[Current(u)'][s] > 0
    <2>1. CASE u # w
      <3>1. batch[u] # {} /\ ~failed[u] /\ s < sink[u] /\ Current(u)' = Current(u)
        BY <1>2, <2>1, OthersKeep
      <3>2. delivered[Current(u)][s] > 0 /\ Current(u) \in Event
        BY <3>1, CurrentIs DEF Reached
      <3> QED
        BY <1>0, <3>1, <3>2
    <2>2. CASE u = w /\ Publish(w)
      <3>1. batch[w] # {} /\ Current(w)' = Current(w) /\ Current(w) \in Event
        BY <2>2, CurrentIs, CurrentSame DEF Publish
      <3>2. /\ delivered' = [delivered EXCEPT ![Current(w)][sink[w]] = @ + 1]
            /\ ~failed[w] /\ sink'[w] = sink[w] + 1
        BY <1>2, <2>2 DEF Publish, Typed
      <3>3. CASE s < sink[w]
        BY <1>0, <2>2, <3>1, <3>2, <3>3 DEF Reached
      <3>4. CASE s = sink[w]
        BY <2>2, <3>1, <3>2, <3>4, SMTT(30) DEF Typed
      <3> QED
        BY <1>2, <2>2, <3>2, <3>3, <3>4, SMTT(30) DEF Typed
    <2>3. CASE u = w /\ ~Publish(w)
      <3>1. sink'[w] = 1
        BY <2>3 DEF Act, Work, Tick, MarkEventPublished, NextRow, Crash, Typed, Reached
      <3> QED
        BY <1>2, <2>3, <3>1
    <2> QED
      BY <2>1, <2>2, <2>3
  <1>3. ASSUME NEW e \in published', NEW s \in 1 .. Sinks PROVE delivered'[e][s] > 0
    <2>1. CASE e \in published
      BY <1>0, <2>1 DEF Reached, MarkedWasDelivered, Typed
    <2>2. CASE e \notin published
      <3>1. /\ MarkEventPublished(w) /\ e = Current(w) /\ ~failed[w]
            /\ batch[w] # {} /\ sink[w] = Sinks + 1
        BY <2>2 DEF Act, Work, Tick, Publish, MarkEventPublished, Crash
      <3>2. Current(w) \in Event /\ delivered[Current(w)][s] > 0
        BY <3>1, CurrentIs DEF Reached
      <3> QED
        BY <1>0, <3>1, <3>2
    <2> QED
      BY <2>1, <2>2
  <1> QED
    BY <1>1, <1>2, <1>3 DEF Reached, MarkedWasDelivered

-----------------------------------------------------------------------------
(* Calls that are still to come.                                           *)

(* Sets of workers that differ in w only. *)
LEMMA OneWorker ==
  ASSUME NEW S, S \subseteq Worker, NEW T, T \subseteq Worker, NEW w,
         \A u \in Worker : u # w /\ u \in T => u \in S
  PROVE  /\ Cardinality(S) \in Nat /\ Cardinality(T) \in Nat
         /\ Cardinality(T) <= Cardinality(S) + 1
         /\ w \in T /\ w \in S => Cardinality(T) <= Cardinality(S)
         /\ w \notin T => Cardinality(T) <= Cardinality(S)
         /\ w \notin T /\ w \in S => Cardinality(T) + 1 <= Cardinality(S)
  <1>1. IsFiniteSet(S) /\ IsFiniteSet(T)
    BY FS_Subset
  <1>2. Cardinality(S) \in Nat /\ Cardinality(T) \in Nat
    BY <1>1, FS_CardinalityType
  <1>3. ASSUME w \notin T \/ w \in S PROVE Cardinality(T) <= Cardinality(S)
    <2>1. T \subseteq S
      BY <1>3
    <2> QED
      BY <1>1, <2>1, FS_Subset
  <1>4. ASSUME w \notin T, w \in S PROVE Cardinality(T) + 1 <= Cardinality(S)
    <2> DEFINE U == S \ {w}
    <2>1. T \subseteq U
      BY <1>4
    <2>2. IsFiniteSet(U) /\ Cardinality(U) = Cardinality(S) - 1
      BY <1>1, <1>4, FS_RemoveElement
    <2> HIDE DEF U
    <2>3. Cardinality(T) <= Cardinality(U)
      BY <2>1, <2>2, FS_Subset
    <2> QED
      BY <1>2, <2>2, <2>3
  <1>5. Cardinality(T) <= Cardinality(S) + 1
    <2> DEFINE U == S \cup {w}
    <2>1. T \subseteq U
      OBVIOUS
    <2>2. /\ IsFiniteSet(U)
          /\ Cardinality(U) = IF w \in S THEN Cardinality(S) ELSE Cardinality(S) + 1
      BY <1>1, FS_AddElement
    <2> HIDE DEF U
    <2>3. Cardinality(T) <= Cardinality(U)
      BY <2>1, <2>2, FS_Subset
    <2> QED
      BY <1>2, <2>2, <2>3
  <1> QED
    BY <1>2, <1>3, <1>4, <1>5

(* The steps of w change these sets in w only, or make them smaller. *)
LEMMA SetsStep ==
  ASSUME Typed, NEW w \in Worker, Act(w), NEW e \in Event, NEW s \in 1 .. Sinks
  PROVE  /\ \A u \in Worker : u # w /\ u \in ToCall(e, s)' => u \in ToCall(e, s)
         /\ \A u \in Worker : u # w /\ u \in ToRead(e)' => u \in ToRead(e)
  <1>1. published \subseteq published'
    BY DEF Act, Work, Tick, Publish, MarkEventPublished, Crash
  <1> QED
    BY <1>1, OthersKeep DEF ToCall, ToRead

Counted(e, s) ==
  delivered[e][s] + Cardinality(ToCall(e, s)) + Cardinality(ToRead(e)) <= Budget

(* What w may add to the account of e and s, and what it pays for it. *)
Pays(w, e, s) ==
  \/ /\ delivered'[e][s] = delivered[e][s] /\ Budget' >= Budget
     /\ w \in ToCall(e, s)' => w \in ToCall(e, s)
     /\ w \in ToRead(e)' => w \in ToRead(e)
  \/ /\ delivered'[e][s] = delivered[e][s] /\ Budget' >= Budget
     /\ w \notin ToRead(e)' /\ w \in ToRead(e)
  \/ /\ delivered'[e][s] = delivered[e][s] /\ Budget' >= Budget + 1
     /\ w \in ToCall(e, s)' => w \in ToCall(e, s)
  \/ /\ delivered'[e][s] = delivered[e][s] + 1 /\ Budget' >= Budget
     /\ w \notin ToCall(e, s)' /\ w \in ToCall(e, s)
     /\ w \in ToRead(e)' => w \in ToRead(e)
  \/ /\ delivered'[e][s] = delivered[e][s] + 1 /\ Budget' >= Budget + 1
     /\ w \notin ToCall(e, s)' /\ w \in ToCall(e, s)

(* A step that pays keeps the account. *)
LEMMA PaidIsCounted ==
  ASSUME Typed, Typed', NEW w \in Worker, Act(w), NEW e \in Event, NEW s \in 1 .. Sinks,
         Counted(e, s), Pays(w, e, s)
  PROVE  Counted(e, s)'
  <1> DEFINE C == ToCall(e, s)   D == ToCall(e, s)'
             R == ToRead(e)      Q == ToRead(e)'
  <1>1. C \subseteq Worker /\ D \subseteq Worker /\ R \subseteq Worker /\ Q \subseteq Worker
    BY DEF ToCall, ToRead
  <1>2. /\ \A u \in Worker : u # w /\ u \in D => u \in C
        /\ \A u \in Worker : u # w /\ u \in Q => u \in R
    BY SetsStep
  <1>3. /\ delivered[e][s] \in Nat /\ delivered'[e][s] \in Nat
        /\ Budget \in Nat /\ Budget' \in Nat
    <2>1. Cardinality(Worker) \in Nat
      BY FS_CardinalityType
    <2>2. /\ faults.failures \in Nat /\ faults.crashes \in Nat
          /\ faults'.failures \in Nat /\ faults'.crashes \in Nat
      BY DEF Typed
    <2>3. Budget \in Nat /\ Budget' \in Nat
      BY <2>1, <2>2 DEF Budget
    <2> QED
      BY <2>3, SMTT(30) DEF Typed
  <1>4. /\ delivered[e][s] + Cardinality(C) + Cardinality(R) <= Budget
        /\ Counted(e, s)' <=> delivered'[e][s] + Cardinality(D) + Cardinality(Q) <= Budget'
    BY DEF Counted
  <1>5. \/ /\ delivered'[e][s] = delivered[e][s] /\ Budget' >= Budget
           /\ w \in D => w \in C
           /\ w \in Q => w \in R
        \/ /\ delivered'[e][s] = delivered[e][s] /\ Budget' >= Budget
           /\ w \notin Q /\ w \in R
        \/ /\ delivered'[e][s] = delivered[e][s] /\ Budget' >= Budget + 1
           /\ w \in D => w \in C
        \/ /\ delivered'[e][s] = delivered[e][s] + 1 /\ Budget' >= Budget
           /\ w \notin D /\ w \in C
           /\ w \in Q => w \in R
        \/ /\ delivered'[e][s] = delivered[e][s] + 1 /\ Budget' >= Budget + 1
           /\ w \notin D /\ w \in C
    BY DEF Pays
  <1> HIDE DEF C, D, R, Q
  <1>6. /\ Cardinality(C) \in Nat /\ Cardinality(D) \in Nat
        /\ Cardinality(D) <= Cardinality(C) + 1
        /\ (w \in D => w \in C) => Cardinality(D) <= Cardinality(C)
        /\ w \notin D /\ w \in C => Cardinality(D) + 1 <= Cardinality(C)
    BY <1>1, <1>2, OneWorker
  <1>7. /\ Cardinality(R) \in Nat /\ Cardinality(Q) \in Nat
        /\ Cardinality(Q) <= Cardinality(R) + 1
        /\ (w \in Q => w \in R) => Cardinality(Q) <= Cardinality(R)
        /\ w \notin Q /\ w \in R => Cardinality(Q) + 1 <= Cardinality(R)
    BY <1>1, <1>2, OneWorker
  <1> QED
    BY <1>3, <1>4, <1>5, <1>6, <1>7

(* A failure or a crash is paid for. *)
LEMMA BudgetStep ==
  ASSUME Typed, NEW w \in Worker, Act(w)
  PROVE  /\ Budget \in Nat /\ Budget' >= Budget
         /\ Fail \/ Crash(w) => Budget' >= Budget + 1
  <1>1. Cardinality(Worker) \in Nat /\ faults.failures \in Nat /\ faults.crashes \in Nat
    BY FS_CardinalityType DEF Typed
  <1>2. CASE Fail
    <2>1. faults'.failures = faults.failures + 1 /\ faults'.crashes = faults.crashes
      BY <1>2 DEF Fail, Typed
    <2> QED
      BY <1>1, <2>1 DEF Budget
  <1>3. CASE Crash(w)
    <2>1. faults'.failures = faults.failures /\ faults'.crashes = faults.crashes + 1
      BY <1>3 DEF Crash, Typed
    <2> QED
      BY <1>1, <2>1 DEF Budget
  <1>4. CASE UNCHANGED faults
    <2>1. Budget' = Budget /\ ~Fail /\ ~Crash(w)
      BY <1>1, <1>4 DEF Budget, Fail, Crash, Typed
    <2> QED
      BY <1>1, <2>1 DEF Budget
  <1> QED
    BY <1>2, <1>3, <1>4 DEF Act, Work, Tick, Publish, MarkEventPublished

(* Every step of a worker pays for what it adds. *)
LEMMA StepPays ==
  ASSUME Typed, Typed', Reached, NEW w \in Worker, Act(w), NEW e \in Event, NEW s \in 1 .. Sinks
  PROVE  Pays(w, e, s)
  <1>0. /\ Budget \in Nat /\ Budget' >= Budget
        /\ Fail \/ Crash(w) => Budget' >= Budget + 1
    BY BudgetStep
  <1>1. CASE Tick(w)
    <2>1. /\ batch[w] = {} /\ batch'[w] = ListUnpublishedEvents /\ sink'[w] = 1
          /\ ~failed'[w] /\ UNCHANGED <<published, delivered>>
      BY <1>1 DEF Tick, Typed, Reached
    <2>2. CASE e \in batch'[w]
      <3>1. e \notin published
        BY <2>1, <2>2, ListIsWaiting
      <3>2. w \in ToRead(e) /\ w \notin ToRead(e)'
        BY <2>1, <2>2, <3>1 DEF ToRead
      <3> QED
        BY <1>0, <2>1, <3>2 DEF Pays
    <2>3. CASE e \notin batch'[w]
      <3>1. w \notin ToCall(e, s)' /\ (w \in ToRead(e)' => w \in ToRead(e))
        BY <2>1, <2>3 DEF ToCall, ToRead
      <3> QED
        BY <1>0, <2>1, <3>1 DEF Pays
    <2> QED
      BY <2>2, <2>3
  <1>2. CASE Publish(w)
    <2>1. /\ Current(w) \in batch[w] /\ sink[w] \in 1 .. Sinks
          /\ sink'[w] = sink[w] + 1 /\ batch'[w] = batch[w] /\ Current(w)' = Current(w)
          /\ UNCHANGED published
      BY <1>2, PublishAt, CurrentSame DEF Publish, Typed
    <2>2. \/ failed'[w] = failed[w]
          \/ Fail
      BY <1>2 DEF Publish
    <2>3. \/ delivered'[e][s] = delivered[e][s]
          \/ e = Current(w) /\ s = sink[w] /\ delivered'[e][s] = delivered[e][s] + 1
      BY DeliveredStep
    <2>4. w \in ToCall(e, s)' => w \in ToCall(e, s)
      BY <2>1 DEF ToCall
    <2>5. ~Fail => (w \in ToRead(e)' => w \in ToRead(e))
      BY <2>1, <2>2 DEF ToRead
    <2>6. e = Current(w) /\ s = sink[w] => w \in ToCall(e, s) /\ w \notin ToCall(e, s)'
      BY <2>1 DEF ToCall
    <2> QED
      BY <1>0, <2>3, <2>4, <2>5, <2>6 DEF Pays
  <1>3. CASE MarkEventPublished(w)
    <2>1. /\ batch[w] # {} /\ sink[w] = Sinks + 1 /\ Current(w) \in batch[w]
          /\ batch'[w] = batch[w] \ {Current(w)} /\ sink'[w] = 1 /\ ~failed'[w]
          /\ UNCHANGED delivered
      BY <1>3, CurrentIs DEF MarkEventPublished, NextRow, Typed
    <2>2. CASE e # Current(w)
      <3>1. e \in published' <=> e \in published
        BY <1>3, <2>2 DEF MarkEventPublished
      <3>2. /\ w \in ToCall(e, s)' => w \in ToCall(e, s)
            /\ w \in ToRead(e)' => w \in ToRead(e)
        BY <2>1, <2>2, <3>1 DEF ToCall, ToRead
      <3> QED
        BY <1>0, <2>1, <3>2 DEF Pays
    <2>3. CASE e = Current(w)
      <3>1. w \notin ToCall(e, s)'
        BY <2>1, <2>3 DEF ToCall
      <3>2. CASE failed[w] /\ UNCHANGED published
        <4>1. w \in ToRead(e)' => w \in ToRead(e)
          BY <2>3, <3>2 DEF ToRead
        <4> QED
          BY <1>0, <2>1, <3>1, <4>1 DEF Pays
      <3>3. CASE published' = published \cup {Current(w)}
        <4>1. w \notin ToRead(e)'
          BY <2>3, <3>3 DEF ToRead
        <4> QED
          BY <1>0, <2>1, <3>1, <4>1 DEF Pays
      <3>4. CASE Fail
        BY <1>0, <2>1, <3>1, <3>4 DEF Pays
      <3> QED
        BY <1>3, <3>2, <3>3, <3>4 DEF MarkEventPublished
    <2> QED
      BY <2>2, <2>3
  <1>4. CASE Crash(w)
    <2>1. w \notin ToCall(e, s)' /\ UNCHANGED delivered
      BY <1>4 DEF Crash, ToCall, Typed
    <2> QED
      BY <1>0, <1>4, <2>1 DEF Pays
  <1> QED
    BY <1>1, <1>2, <1>3, <1>4 DEF Act, Work

-----------------------------------------------------------------------------
(* The theorems.                                                           *)

(* The inductive invariant holds initially. *)
LEMMA OutboxInit == Init => OutboxInv
  <1> SUFFICES ASSUME Init PROVE OutboxInv
    OBVIOUS
  <1>1. Typed
    <2>1. 1 \in 1 .. Sinks + 1
      OBVIOUS
    <2> QED
      BY <2>1 DEF Init, Typed
  <1>2. Reached
    BY DEF Init, Reached, MarkedWasDelivered
  <1>3. CallsCounted
    <2> SUFFICES ASSUME NEW e \in Event, NEW s \in 1 .. Sinks
                 PROVE  delivered[e][s] + Cardinality(ToCall(e, s)) + Cardinality(ToRead(e)) <= Budget
      BY DEF CallsCounted
    <2>1. ToCall(e, s) = {} /\ ToRead(e) = Worker
      BY DEF Init, ToCall, ToRead
    <2>2. Cardinality(ToCall(e, s)) = 0 /\ Cardinality(Worker) \in Nat
      BY <2>1, FS_EmptySet, FS_CardinalityType
    <2>3. delivered[e][s] = 0 /\ faults.failures = 0 /\ faults.crashes = 0
      BY DEF Init
    <2> QED
      BY <2>1, <2>2, <2>3 DEF Budget
  <1> QED
    BY <1>1, <1>2, <1>3 DEF OutboxInv

(* Every step keeps the inductive invariant. *)
LEMMA OutboxStep == OutboxInv /\ [Next]_vars => OutboxInv'
  <1> SUFFICES ASSUME OutboxInv, [Next]_vars PROVE OutboxInv'
    OBVIOUS
  <1> USE DEF OutboxInv
  <1>1. ASSUME NEW w \in Worker, Act(w) PROVE OutboxInv'
    <2>1. Typed'
      BY <1>1, TypedStep DEF Next, Act
    <2>2. Reached'
      BY <1>1, <2>1, ReachedStep
    <2>3. \A e \in Event, s \in 1 .. Sinks : Counted(e, s)
      BY DEF CallsCounted, Counted
    <2>4. \A e \in Event, s \in 1 .. Sinks : Counted(e, s)'
      BY <1>1, <2>1, <2>3, StepPays, PaidIsCounted
    <2>5. CallsCounted'
      BY <2>4 DEF CallsCounted, Counted
    <2> QED
      BY <2>1, <2>2, <2>5
  <1>2. CASE UNCHANGED <<published, delivered, batch, sink, failed, faults>>
    <2>1. \A w \in Worker : Current(w)' = Current(w)
      BY <1>2, CurrentSame
    <2>2. \A e \in Event : ToRead(e)' = ToRead(e)
      BY <1>2, <2>1 DEF ToRead
    <2>3. \A e \in Event, s \in 1 .. Sinks : ToCall(e, s)' = ToCall(e, s)
      BY <1>2, <2>1 DEF ToCall
    <2>4. CallsCounted'
      BY <1>2, <2>2, <2>3 DEF CallsCounted, Budget
    <2>5. Reached'
      BY <1>2, <2>1 DEF Reached, MarkedWasDelivered
    <2>6. ASSUME Next PROVE Typed'
      BY <2>6, TypedStep
    <2>7. ASSUME UNCHANGED vars PROVE Typed'
      BY <2>7 DEF vars, Typed
    <2> QED
      BY <2>4, <2>5, <2>6, <2>7
  <1> QED
    BY <1>1, <1>2 DEF Next, Act, Commit, vars

(* The invariant holds of every behaviour of the workers. *)
THEOREM OutboxInvariant == Spec => []OutboxInv
  BY OutboxInit, OutboxStep, PTL DEF Spec

(* MarkedWasDelivered: OutboxWorker.Tick never marks a row that some sink  *)
(* of the fan-out has not received, with any number of workers on the same *)
(* table, refusals and crashes.                                            *)
THEOREM NoEventIsLost == Spec => []MarkedWasDelivered
  <1>1. OutboxInv => MarkedWasDelivered
    BY DEF OutboxInv, Reached
  <1> QED
    BY <1>1, OutboxInvariant, PTL

(* DuplicatesHaveACause: a sink gets an event at most once per worker and  *)
(* once more per failure or crash, although no worker claims its rows.     *)
THEOREM DuplicatesAreBounded == Spec => []DuplicatesHaveACause
  <1>1. OutboxInv => DuplicatesHaveACause
    <2> SUFFICES ASSUME OutboxInv, NEW e \in Event, NEW s \in 1 .. Sinks
                 PROVE  delivered[e][s] <= Budget
      BY DEF DuplicatesHaveACause, Budget
    <2>1. ToCall(e, s) \subseteq Worker /\ ToRead(e) \subseteq Worker
      BY DEF ToCall, ToRead
    <2>2. IsFiniteSet(ToCall(e, s)) /\ IsFiniteSet(ToRead(e))
      BY <2>1, FS_Subset
    <2>3. Cardinality(ToCall(e, s)) \in Nat /\ Cardinality(ToRead(e)) \in Nat
      BY <2>2, FS_CardinalityType
    <2>4. delivered[e][s] \in Nat /\ Budget \in Nat
      <3>1. Cardinality(Worker) \in Nat /\ faults.failures \in Nat /\ faults.crashes \in Nat
        BY FS_CardinalityType DEF OutboxInv, Typed
      <3>2. Budget \in Nat
        BY <3>1 DEF Budget
      <3> QED
        BY <3>2 DEF OutboxInv, Typed
    <2>5. delivered[e][s] + Cardinality(ToCall(e, s)) + Cardinality(ToRead(e)) <= Budget
      BY DEF OutboxInv, CallsCounted
    <2> QED
      BY <2>3, <2>4, <2>5
  <1> QED
    BY <1>1, OutboxInvariant, PTL
=============================================================================
