------------------------------- MODULE Outbox -------------------------------
(***************************************************************************)
(* The delivery of domain events: OutboxWorker.Tick over the outbox table, *)
(* run by any number of worker processes, with the fan-out to the event    *)
(* sinks.  Rows are numbered by created_at, the order ListUnpublishedEvents *)
(* reads them in; the transactions that write them commit in any order.    *)
(***************************************************************************)
EXTENDS Naturals, FiniteSets

CONSTANTS
  Worker,      \* worker processes
  MaxEvents,   \* bound: rows ever written
  Sinks,       \* publishers of the fan-out, called in this order
  Batch,       \* rows a tick reads (200 in the code)
  MaxFailures, \* bound: calls and updates that fail
  MaxCrashes   \* bound: workers that die during a tick

ASSUME WorkerAssumption == IsFiniteSet(Worker)
ASSUME BatchAssumption == Batch \in Nat \ {0} /\ Sinks \in Nat
ASSUME LimitAssumption == {MaxEvents, MaxFailures, MaxCrashes} \subseteq Nat

VARIABLES
  rows,      \* rows committed to the outbox
  published, \* rows whose published_at is set
  delivered, \* delivered[e][s]: times sink s received event e
  batch,     \* rows a worker still has to handle in its tick, oldest first
  sink,      \* the sink a worker calls next; Sinks + 1: mark the row
  failed,    \* some sink refused the worker's current event
  faults     \* failures and crashes so far

vars == <<rows, published, delivered, batch, sink, failed, faults>>

Event == 1 .. MaxEvents

-----------------------------------------------------------------------------
Init ==
  /\ rows = {} /\ published = {}
  /\ delivered = [e \in Event |-> [s \in 1 .. Sinks |-> 0]]
  /\ batch = [w \in Worker |-> {}]
  /\ sink = [w \in Worker |-> 1]
  /\ failed = [w \in Worker |-> FALSE]
  /\ faults = [failures |-> 0, crashes |-> 0]

(* A transition of an order commits, and its event with it. *)
Commit(e) ==
  /\ e \notin rows
  /\ rows' = rows \cup {e}
  /\ UNCHANGED <<published, delivered, batch, sink, failed, faults>>

(* Mutants: published rows are listed too; the last row is cut off. *)
ListAllEvents  == rows
ListAllButLast ==
  LET todo == rows \ published
  IN  {e \in todo : /\ Cardinality({f \in todo : f < e}) < Batch
                    /\ \E f \in todo : f > e}

(* The oldest rows: ORDER BY created_at LIMIT Batch. *)
ListUnpublishedEvents ==
  LET todo == rows \ published
  IN  {e \in todo : Cardinality({f \in todo : f < e}) < Batch}

Tick(w) ==
  /\ batch[w] = {}
  /\ batch' = [batch EXCEPT ![w] = ListUnpublishedEvents]
  /\ UNCHANGED <<rows, published, delivered, sink, failed, faults>>

(* The row the tick is at. *)
Current(w) == CHOOSE e \in batch[w] : \A f \in batch[w] : e <= f

MayFail == faults.failures < MaxFailures
Fail    == faults' = [faults EXCEPT !.failures = @ + 1]

(* One call of the fan-out.  A call that fails may have reached the sink,  *)
(* and the sinks after it are called all the same.                         *)
Publish(w) ==
  /\ batch[w] # {} /\ sink[w] <= Sinks
  /\ LET received == [delivered EXCEPT ![Current(w)][sink[w]] = @ + 1]
     IN  \/ delivered' = received /\ UNCHANGED <<failed, faults>>
         \/ /\ MayFail /\ Fail
            /\ delivered' \in {delivered, received}
            /\ failed' = [failed EXCEPT ![w] = TRUE]
  /\ sink' = [sink EXCEPT ![w] = @ + 1]
  /\ UNCHANGED <<rows, published, batch>>

(* The tick goes on with its next row, whatever became of this one. *)
NextRow(w) ==
  /\ batch' = [batch EXCEPT ![w] = @ \ {Current(w)}]
  /\ sink' = [sink EXCEPT ![w] = 1]
  /\ failed' = [failed EXCEPT ![w] = FALSE]

(* Mutant: the error of the fan-out is dropped. *)
MarkAnyway(w) ==
  /\ batch[w] # {} /\ sink[w] = Sinks + 1
  /\ published' = published \cup {Current(w)}
  /\ NextRow(w)
  /\ UNCHANGED <<rows, delivered, faults>>

MarkEventPublished(w) ==
  /\ batch[w] # {} /\ sink[w] = Sinks + 1
  /\ \/ failed[w] /\ UNCHANGED <<published, faults>>
     \/ /\ ~failed[w]
        /\ published' = published \cup {Current(w)}
        /\ UNCHANGED faults
     \/ /\ ~failed[w] /\ MayFail /\ Fail
        /\ UNCHANGED published
  /\ NextRow(w)
  /\ UNCHANGED <<rows, delivered>>

(* The worker dies during a tick and is restarted. *)
Crash(w) ==
  /\ batch[w] # {}
  /\ faults.crashes < MaxCrashes
  /\ faults' = [faults EXCEPT !.crashes = @ + 1]
  /\ batch' = [batch EXCEPT ![w] = {}]
  /\ sink' = [sink EXCEPT ![w] = 1]
  /\ failed' = [failed EXCEPT ![w] = FALSE]
  /\ UNCHANGED <<rows, published, delivered>>

Work(w) == Tick(w) \/ Publish(w) \/ MarkEventPublished(w)

Next == \/ \E e \in Event : Commit(e)
        \/ \E w \in Worker : Work(w) \/ Crash(w)

Spec     == Init /\ [][Next]_vars
(* The worker's select loop keeps ticking. *)
FairSpec == Spec /\ \A w \in Worker : WF_vars(Work(w))

-----------------------------------------------------------------------------
(* Properties.                                                             *)

(* A row is marked only when every sink has its event: neither a refusal   *)
(* of one sink of the fan-out, nor a crash, nor another worker handling    *)
(* the same row loses an event.                                            *)
MarkedWasDelivered ==
  \A e \in published : \A s \in 1 .. Sinks : delivered[e][s] > 0

(* Delivery is at least once, and the duplicates have a cause: a sink gets *)
(* an event at most once from every worker that read the row before it was *)
(* marked, and once more for each failure or crash.                        *)
DuplicatesHaveACause ==
  \A e \in Event, s \in 1 .. Sinks :
    delivered[e][s] <= Cardinality(Worker) + faults.failures + faults.crashes

(* Once failures end, every event is delivered to every sink, also when    *)
(* more rows wait than a tick reads.                                       *)
EventuallyDelivered == \A e \in Event : (e \in rows) ~> (e \in published)
=============================================================================
