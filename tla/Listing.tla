------------------------------- MODULE Listing -------------------------------
(***************************************************************************)
(* Paging through orders: a reader asks for page after page with the       *)
(* cursor of the page before, while orders are placed (and commit in any   *)
(* order of their created_at) and change their status.  Postgres answers   *)
(* buyers and the console alike; the memory repository has two ways of     *)
(* its own.                                                                *)
(***************************************************************************)
EXTENDS Integers, FiniteSets

CONSTANTS
  Order,         \* order ids, numbers: ids are compared
  MaxCreated,    \* creation times are 1 .. MaxCreated
  DefaultLimit,  \* page size when none is asked for (20 in the code)
  MaxLimit,      \* largest page size (100 in the code)
  MaxMoves       \* bound: changes of status

VARIABLES
  repo,     \* who answers: "postgres", "memoryBuyer", "memoryAdmin"; fixed
  created,  \* created[o]: created_at of o, fixed when its checkout begins
  rows,     \* orders in the table
  status,   \* status[o], one of two
  filter,   \* the status asked for, or "any"
  cursor,   \* the last order of the page before; First, End
  listed,   \* listed[o]: times the reader saw o (two is too many)
  steady,   \* ghost: orders in the table, and in the filter, since the scan began
  moves     \* changes of status so far

vars == <<repo, created, rows, status, filter, cursor, listed, steady, moves>>

First == 0
End   == -1

Init ==
  /\ repo \in {"postgres", "memoryBuyer", "memoryAdmin"}
  /\ created \in [Order -> 1 .. MaxCreated]
  /\ rows \in SUBSET Order
  /\ status = [o \in Order |-> "open"]
  /\ filter \in {"any", "open"}
  /\ cursor = First
  /\ listed = [o \in Order |-> 0]
  /\ steady = {o \in rows : filter \in {"any", status[o]}}
  /\ moves = 0

-----------------------------------------------------------------------------
(* An order is committed.  Its created_at may be older than that of others. *)
InsertCheckout(o) ==
  /\ o \notin rows
  /\ rows' = rows \cup {o}
  /\ UNCHANGED <<created, status, filter, cursor, listed, steady, moves>>

Transition(o) ==
  /\ o \in rows /\ moves < MaxMoves
  /\ status' = [status EXCEPT ![o] = IF @ = "open" THEN "closed" ELSE "open"]
  /\ steady' = IF filter = "any" THEN steady ELSE steady \ {o}
  /\ moves' = moves + 1
  /\ UNCHANGED <<created, rows, filter, cursor, listed>>

(* The page size of a request: List and AdminList of QueryService. *)
Limit(asked) == IF asked = 0 \/ asked > MaxLimit THEN DefaultLimit ELSE asked

Matching == {o \in rows : filter \in {"any", status[o]}}

(* Newest first; orders of one time by id, the largest first. *)
Before(o, p) ==
  created[o] > created[p] \/ (created[o] = created[p] /\ o > p)

(* Mutant: only the time is compared. *)
AfterCursorTime ==
  {o \in Matching : cursor = First \/ (cursor # First /\ created[cursor] > created[o])}

AfterCursor == {o \in Matching : cursor = First \/ Before(cursor, o)}

(* A page of the rows in todo, as many as fit, and the cursor for more.    *)
Page(todo, limit, page) ==
  /\ IF Cardinality(todo) > limit THEN Cardinality(page) = limit ELSE page = todo
  /\ listed' = [o \in Order |->
       IF o \in page /\ listed[o] < 2 THEN listed[o] + 1 ELSE listed[o]]
  /\ IF page = todo THEN cursor' = End ELSE cursor' \in page

(* A page of the sorted rows: what is left comes after it, and its cursor  *)
(* is its last row.                                                        *)
SortedPage(todo, limit) ==
  \E page \in SUBSET todo :
    /\ Page(todo, limit, page)
    /\ \A o \in page : \A p \in todo \ page : Before(o, p)
    /\ cursor' # End => \A o \in page \ {cursor'} : Before(o, cursor')

(* The keyset query: everything after the cursor, one row more than asked. *)
ListPostgres(limit) == SortedPage(AfterCursor, limit)

(* The memory repository, for buyers: in the order of the map, which is    *)
(* any order; the cursor is not used.                                      *)
ListByBuyerMemory(limit) == \E page \in SUBSET Matching : Page(Matching, limit, page)

(* The memory repository, for the console: the sorted list is cut behind   *)
(* the cursor's order, if that is still in it.                             *)
AdminListMemory(limit) ==
  SortedPage(IF cursor \in Matching THEN AfterCursor ELSE Matching, limit)

List(asked) ==
  /\ cursor # End
  /\ CASE repo = "postgres"    -> ListPostgres(Limit(asked))
       [] repo = "memoryBuyer" -> ListByBuyerMemory(Limit(asked))
       [] repo = "memoryAdmin" -> AdminListMemory(Limit(asked))
  /\ UNCHANGED <<created, rows, status, filter, steady, moves>>

Next ==
  /\ UNCHANGED repo
  /\ \/ \E o \in Order : InsertCheckout(o) \/ Transition(o)
     \/ \E asked \in 0 .. MaxLimit + 1 : List(asked)

Spec == Init /\ [][Next]_vars

-----------------------------------------------------------------------------
(* Properties.                                                             *)

(* A reader who pages to the end sees every order that was there all the   *)
(* while exactly once, and no order twice: whatever is placed or moves     *)
(* between two pages, with orders of equal time, and for any page sizes.   *)
(* The memory repository keeps to it in the console's list, as long as no  *)
(* order moves, and not in the buyer's.                                    *)
ListedOnce ==
  repo = "postgres" \/ (repo = "memoryAdmin" /\ moves = 0) =>
    /\ \A o \in Order : listed[o] < 2
    /\ cursor = End => \A o \in steady : listed[o] = 1
=============================================================================
