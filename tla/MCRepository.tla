---------------------------- MODULE MCRepository ----------------------------
(* The repository for TLC.  The order rows, the tickets and the lists are  *)
(* three parts that no command of the interface touches together: a        *)
(* behaviour is about one of them.                                         *)
EXTENDS Repository, TLC

CONSTANTS ListedOrder, MaxCreated, DefaultLimit, MaxLimit, MaxMoves
VARIABLES repo, created, rows, status, filter, cursor, listed, steady, moves, part

listVars == <<repo, created, rows, status, filter, cursor, listed, steady, moves>>

L == INSTANCE Listing WITH Order <- ListedOrder

ASSUME ListAssumption ==
  /\ ListedOrder \subseteq Nat \ {0}
  /\ DefaultLimit \in 1 .. MaxLimit /\ {MaxLimit, MaxCreated, MaxMoves} \subseteq Nat

(* Orders, client_order_ids and keys are interchangeable. *)
Symmetry == Permutations(Order) \cup Permutations(Client) \cup Permutations(Key)

(* An empty table, where the lists are not the part at hand. *)
Unlisted ==
  /\ repo = "postgres" /\ filter = "any" /\ rows = {}
  /\ created = [o \in ListedOrder |-> 1]

PartInit ==
  /\ Init /\ L!Init
  /\ part \in {"orders", "tickets", "lists"}
  /\ part # "lists" => Unlisted

PartNext ==
  /\ UNCHANGED part
  /\ \/ part = "orders" /\ OrderNext /\ UNCHANGED listVars
     \/ part = "tickets" /\ TicketNext /\ UNCHANGED listVars
     \/ part = "lists" /\ L!Next /\ UNCHANGED vars

PartSpec == PartInit /\ [][PartNext]_<<vars, listVars, part>>

(* Paging shows every order once: ListedOnce of module Listing. *)
ListedOnce == L!ListedOnce
=============================================================================
