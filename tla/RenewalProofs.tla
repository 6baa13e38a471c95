---------------------------- MODULE RenewalProofs ----------------------------
(***************************************************************************)
(* The properties of Renewal for any number of orders and requests, any    *)
(* size of page, any timeouts and limits and any number of failures.       *)
(***************************************************************************)
EXTENDS Renewal, FiniteSetTheorems, TLAPS

USE RenewAssumption

-----------------------------------------------------------------------------
(* The inductive invariant of the count.                                   *)

RowType ==
  [status : {"NONE", "PENDING_PAY", "PAID", "CANCELLED"}, renewCount : Nat, expireAt : Nat]

ResvType ==
  [status : {"NONE", "ACTIVE", "COMMITTED", "RELEASED", "EXPIRED"}, expires : Nat,
   keys : SUBSET Nat]

Typed ==
  /\ clock \in Nat
  /\ ord \in [Order -> RowType]
  /\ resv \in [Order -> ResvType]
  /\ pc \in [Proc -> {"idle", "call", "bump"}]
  /\ copy \in [Proc -> (Order \X Nat) \cup {NoRow}]
  /\ page \in SUBSET (Order \X Nat)
  /\ left \in [Order -> Nat] /\ failed \in Nat

(* A copy is not ahead of its row and was below the limit. *)
OldRow(row) ==
  row \in Order \X Nat /\ row[2] <= ord[row[1]].renewCount /\ row[2] < MaxRenew

(* A goroutine has its renewal made before it counts it. *)
CopyIsOld(p) ==
  /\ pc[p] # "idle" => OldRow(copy[p])
  /\ pc[p] = "bump" => copy[p][2] + 1 \in resv[copy[p][1]].keys

Counted(o) ==
  /\ 1 .. ord[o].renewCount \subseteq resv[o].keys
  /\ resv[o].keys \subseteq 1 .. ord[o].renewCount + 1
  /\ resv[o].keys \subseteq 1 .. MaxRenew

CountInv ==
  /\ Typed
  /\ \A o \in Order : Counted(o)
  /\ \A p \in Proc : CopyIsOld(p)
  /\ \A row \in page : OldRow(row)
  /\ \A o \in Order : ord[o].status = "NONE" => ord[o].expireAt = 0

-----------------------------------------------------------------------------
(* What the steps do to a row, to a reservation and to a goroutine.        *)

(* A row only moves forward: its count grows, its deadline stays once it   *)
(* has one, and what has been decided stays decided.                       *)
Forward(o) ==
  /\ ord[o].renewCount <= ord'[o].renewCount
  /\ ord[o].status # "NONE" => ord'[o].status # "NONE" /\ ord'[o].expireAt = ord[o].expireAt
  /\ ord[o].status \notin {"NONE", "PENDING_PAY"} => ord'[o].status = ord[o].status
  /\ ord[o].expireAt <= ord'[o].expireAt

(* renewOne begins with a copy that is below the limit. *)
LEMMA BeginsCall ==
  ASSUME Typed, NEW p \in Proc, NEW row \in Order \X Nat, row[2] < MaxRenew,
         renewOne(p, row)
  PROVE  /\ pc' \in [Proc -> {"idle", "call", "bump"}]
         /\ copy' \in [Proc -> (Order \X Nat) \cup {NoRow}]
         /\ pc'[p] = "call" /\ copy'[p] = row
         /\ \A q \in Proc : q # p => pc'[q] = pc[q] /\ copy'[q] = copy[q]
<1>1. pc' = [pc EXCEPT ![p] = "call"] /\ copy' = [copy EXCEPT ![p] = row]
  BY DEF renewOne
<1> QED BY <1>1 DEF Typed

(* renewOne returns. *)
LEMMA Returns ==
  ASSUME Typed, NEW p \in Proc, Return(p)
  PROVE  /\ pc' \in [Proc -> {"idle", "call", "bump"}]
         /\ copy' \in [Proc -> (Order \X Nat) \cup {NoRow}]
         /\ pc'[p] = "idle"
         /\ \A q \in Proc : q # p => pc'[q] = pc[q] /\ copy'[q] = copy[q]
BY DEF Typed, Return

(* The call reaches OfferHub with a key it may have seen. *)
LEMMA OfferRenewEffect ==
  ASSUME Typed, NEW o \in Order, NEW key \in Nat, OfferRenew(o, key)
  PROVE  /\ resv' \in [Order -> ResvType]
         /\ resv'[o].keys = resv[o].keys \cup {key}
         /\ \A q \in Order : q # o => resv'[q] = resv[q]
<1>1. CASE key \in resv[o].keys
  <2>1. resv' = resv
    BY <1>1 DEF OfferRenew
  <2> QED BY <1>1, <2>1 DEF Typed
<1>2. CASE key \notin resv[o].keys
  <2>1. resv' = [resv EXCEPT ![o].expires = clock + TTL, ![o].keys = @ \cup {key}]
    BY <1>2 DEF OfferRenew
  <2>2. /\ clock + TTL \in Nat /\ resv[o].keys \cup {key} \in SUBSET Nat
        /\ resv[o] \in ResvType
    BY DEF Typed, ResvType
  <2>3. /\ resv'[o].keys = resv[o].keys \cup {key}
        /\ \A q \in Order : q # o => resv'[q] = resv[q]
    BY <2>1, <2>2 DEF Typed, ResvType
  <2>4. resv'[o] \in ResvType
    BY <2>1, <2>2 DEF Typed, ResvType
  <2>5. resv' \in [Order -> ResvType]
    BY <2>1, <2>3, <2>4 DEF Typed
  <2> QED BY <2>3, <2>5
<1> QED BY <1>1, <1>2

(* Copies stay old while rows move forward and OfferHub forgets no key. *)
LEMMA CopyStays ==
  ASSUME CountInv, NEW q \in Proc, pc'[q] = pc[q], copy'[q] = copy[q],
         ord' \in [Order -> RowType],
         \A o \in Order : Forward(o) /\ resv[o].keys \subseteq resv'[o].keys
  PROVE  CopyIsOld(q)'
<1>1. CopyIsOld(q)
  BY DEF CountInv
<1>2. CASE pc[q] = "idle"
  BY <1>2 DEF CopyIsOld
<1>3. CASE pc[q] # "idle"
  <2>1. /\ copy[q] \in Order \X Nat /\ copy[q][1] \in Order /\ copy[q][2] \in Nat
        /\ copy[q][2] <= ord[copy[q][1]].renewCount /\ copy[q][2] < MaxRenew
    BY <1>1, <1>3 DEF CopyIsOld, OldRow
  <2>2. /\ ord[copy[q][1]].renewCount <= ord'[copy[q][1]].renewCount
        /\ ord[copy[q][1]].renewCount \in Nat /\ ord'[copy[q][1]].renewCount \in Nat
    BY <2>1 DEF Forward, CountInv, Typed, RowType
  <2>3. copy[q][2] <= ord'[copy[q][1]].renewCount
    BY <2>1, <2>2
  <2> QED BY <1>1, <2>1, <2>3 DEF CopyIsOld, OldRow
<1> QED BY <1>2, <1>3

(* The same for the copies of a page. *)
LEMMA PageStays ==
  ASSUME CountInv, page' \in SUBSET page, ord' \in [Order -> RowType],
         \A o \in Order : Forward(o)
  PROVE  \A row \in page' : OldRow(row)'
<1> SUFFICES ASSUME NEW row \in page' PROVE OldRow(row)'
  OBVIOUS
<1>1. /\ row \in Order \X Nat /\ row[1] \in Order /\ row[2] \in Nat
      /\ row[2] <= ord[row[1]].renewCount /\ row[2] < MaxRenew
  BY DEF CountInv, OldRow
<1>2. /\ ord[row[1]].renewCount <= ord'[row[1]].renewCount
      /\ ord[row[1]].renewCount \in Nat /\ ord'[row[1]].renewCount \in Nat
  BY <1>1 DEF Forward, CountInv, Typed, RowType
<1> QED BY <1>1, <1>2 DEF OldRow

(* Rows that stay as they are have moved forward. *)
LEMMA StaysForward ==
  ASSUME Typed, NEW o \in Order, ord'[o] = ord[o]
  PROVE  Forward(o)
BY DEF Forward, Typed, RowType


-----------------------------------------------------------------------------
(* The count, one lemma per kind of step.                                  *)

(* An order is placed: nobody has a copy of its row yet. *)
LEMMA PlaceCounts ==
  ASSUME CountInv, NEW o \in Order, Place(o)
  PROVE  CountInv' /\ \A q \in Order : Forward(q)
<1>1. /\ Typed /\ ord[o].status = "NONE" /\ ord[o].expireAt = 0
      /\ UNCHANGED <<clock, pc, copy, page, left, failed>>
  BY DEF CountInv, Place
<1>2. /\ clock + PayTimeout \in Nat /\ clock + TTL \in Nat
      /\ ord[o] \in RowType /\ resv[o] \in ResvType
  BY <1>1 DEF Typed
<1>3. /\ ord' \in [Order -> RowType]
      /\ ord'[o].status = "PENDING_PAY" /\ ord'[o].expireAt = clock + PayTimeout
      /\ ord'[o].renewCount = ord[o].renewCount
      /\ \A q \in Order : q # o => ord'[q] = ord[q]
  BY <1>1, <1>2 DEF Place, Typed, RowType
<1>4. /\ resv' \in [Order -> ResvType]
      /\ resv'[o].keys = resv[o].keys
      /\ \A q \in Order : q # o => resv'[q] = resv[q]
  BY <1>1, <1>2 DEF Place, Typed, ResvType
<1>5. Typed'
  BY <1>1, <1>3, <1>4 DEF Typed
<1>6. \A q \in Order : Forward(q) /\ resv'[q].keys = resv[q].keys
  <2> TAKE q \in Order
  <2>1. CASE q = o
    BY <1>1, <1>2, <1>3, <1>4, <2>1 DEF Forward, RowType
  <2>2. CASE q # o
    BY <1>1, <1>3, <1>4, <2>2, StaysForward
  <2> QED BY <2>1, <2>2
<1>7. \A q \in Order : Counted(q)'
  <2>1. \A q \in Order : Counted(q) /\ ord'[q].renewCount = ord[q].renewCount
    BY <1>3 DEF CountInv
  <2> QED BY <2>1, <1>6 DEF Counted
<1>8. \A p \in Proc : CopyIsOld(p)'
  BY <1>1, <1>3, <1>6, CopyStays
<1>9. \A row \in page' : OldRow(row)'
  BY <1>1, <1>3, <1>6, PageStays
<1>10. \A q \in Order : ord'[q].status = "NONE" => ord'[q].expireAt = 0
  BY <1>3 DEF CountInv
<1> QED BY <1>5, <1>6, <1>7, <1>8, <1>9, <1>10 DEF CountInv

(* A request or the worker begins with a copy of a row. *)
LEMMA BeginCounts ==
  ASSUME CountInv, NEW p \in Proc, NEW row, OldRow(row), renewOne(p, row),
         page' \in SUBSET page, UNCHANGED <<clock, ord, resv, left, failed>>
  PROVE  CountInv' /\ \A q \in Order : Forward(q)
<1>1. Typed /\ row \in Order \X Nat /\ row[2] < MaxRenew
  BY DEF CountInv, OldRow
<1>2. /\ pc' \in [Proc -> {"idle", "call", "bump"}]
      /\ copy' \in [Proc -> (Order \X Nat) \cup {NoRow}]
      /\ pc'[p] = "call" /\ copy'[p] = row
      /\ \A q \in Proc : q # p => pc'[q] = pc[q] /\ copy'[q] = copy[q]
  BY <1>1, BeginsCall
<1>3. ord' \in [Order -> RowType] /\ \A q \in Order : Forward(q)
  BY <1>1, StaysForward DEF Typed
<1>4. Typed'
  BY <1>1, <1>2 DEF Typed
<1>5. \A o \in Order : Counted(o)'
  BY DEF CountInv, Counted
<1>6. ASSUME NEW q \in Proc PROVE CopyIsOld(q)'
  <2>1. CASE q = p
    BY <1>2, <2>1 DEF CopyIsOld, OldRow
  <2>2. CASE q # p
    BY <1>2, <1>3, <2>2, CopyStays
  <2> QED BY <2>1, <2>2
<1>7. \A r \in page' : OldRow(r)'
  BY <1>3, PageStays
<1> QED BY <1>3, <1>4, <1>5, <1>6, <1>7 DEF CountInv

(* The worker reads a page. *)
LEMMA TickCounts ==
  ASSUME CountInv, Tick
  PROVE  CountInv' /\ \A q \in Order : Forward(q)
<1>1. /\ Typed /\ UNCHANGED <<clock, ord, resv, pc, copy, failed>>
  BY DEF CountInv, Tick
<1>2. PICK P \in ListPendingPayForRenew :
        /\ page' = {<<q, ord[q].renewCount>> : q \in P}
        /\ left' = [o \in Order |-> left[o] + (IF o \in Due \ P THEN 1 ELSE 0)]
  BY DEF Tick
<1>3. \A q \in P : q \in Order /\ ord[q].renewCount < MaxRenew /\ ord[q].renewCount \in Nat
  BY <1>1, <1>2 DEF ListPendingPayForRenew, Due, Typed, RowType
<1>4. ord' \in [Order -> RowType] /\ \A q \in Order : Forward(q)
  BY <1>1, StaysForward DEF Typed
<1>5. \A row \in page' : OldRow(row)'
  BY <1>1, <1>2, <1>3 DEF OldRow
<1>6. left' \in [Order -> Nat]
  BY <1>1, <1>2 DEF Typed
<1>7. Typed'
  BY <1>1, <1>2, <1>3, <1>6 DEF Typed
<1>8. \A o \in Order : Counted(o)'
  BY <1>1 DEF CountInv, Counted
<1>9. \A q \in Proc : CopyIsOld(q)'
  BY <1>1, <1>4, CopyStays
<1> QED BY <1>1, <1>4, <1>5, <1>7, <1>8, <1>9 DEF CountInv

(* The worker takes the next row of its page. *)
LEMMA NextRowCounts ==
  ASSUME CountInv, NextRow
  PROVE  CountInv' /\ \A q \in Order : Forward(q)
<1>1. PICK row \in page : page' = page \ {row} /\ renewOne(Job, row)
  BY DEF NextRow
<1>2. /\ OldRow(row) /\ Job \in Proc /\ page' \in SUBSET page
      /\ UNCHANGED <<clock, ord, resv, left, failed>>
  BY <1>1 DEF CountInv, NextRow, Proc
<1> QED BY <1>1, <1>2, BeginCounts

(* A request reads the row it is about. *)
LEMMA RenewCounts ==
  ASSUME CountInv, NEW p \in Caller, Renew(p)
  PROVE  CountInv' /\ \A q \in Order : Forward(q)
<1>1. PICK o \in Order : renewOne(p, <<o, ord[o].renewCount>>)
  BY DEF Renew
<1>2. /\ Typed /\ p \in Proc /\ UNCHANGED <<clock, ord, resv, page, left, failed>>
      /\ ord[o].renewCount \in Nat
  BY DEF CountInv, Renew, Proc, Typed, RowType
<1>3. CASE ord[o].renewCount < MaxRenew
  <2>1. OldRow(<<o, ord[o].renewCount>>) /\ page' \in SUBSET page
    BY <1>2, <1>3 DEF OldRow
  <2> QED BY <1>1, <1>2, <2>1, BeginCounts
<1>4. CASE ~(ord[o].renewCount < MaxRenew)
  <2>1. UNCHANGED <<pc, copy>>
    BY <1>1, <1>4 DEF renewOne
  <2>2. CountInv'
    BY <1>2, <2>1 DEF CountInv, Typed, Counted, CopyIsOld, OldRow
  <2> QED BY <1>2, <2>2, StaysForward
<1> QED BY <1>3, <1>4


(* renewOne returns and leaves the rows as they are: an error, or a bump   *)
(* that changes nothing.                                                   *)
LEMMA ReturnCounts ==
  ASSUME CountInv, NEW p \in Proc, Return(p), page' \in SUBSET page,
         failed' \in Nat, UNCHANGED <<clock, ord, resv, left>>
  PROVE  CountInv' /\ \A q \in Order : Forward(q)
<1>1. Typed
  BY DEF CountInv
<1>2. /\ pc' \in [Proc -> {"idle", "call", "bump"}]
      /\ copy' \in [Proc -> (Order \X Nat) \cup {NoRow}]
      /\ pc'[p] = "idle"
      /\ \A q \in Proc : q # p => pc'[q] = pc[q] /\ copy'[q] = copy[q]
  BY <1>1, Returns
<1>3. ord' \in [Order -> RowType] /\ \A q \in Order : Forward(q)
  BY <1>1, StaysForward DEF Typed
<1>4. Typed'
  BY <1>1, <1>2 DEF Typed
<1>5. \A o \in Order : Counted(o)'
  BY DEF CountInv, Counted
<1>6. ASSUME NEW q \in Proc PROVE CopyIsOld(q)'
  <2>1. CASE q = p
    BY <1>2, <2>1 DEF CopyIsOld
  <2>2. CASE q # p
    BY <1>2, <1>3, <2>2, CopyStays
  <2> QED BY <2>1, <2>2
<1>7. \A r \in page' : OldRow(r)'
  BY <1>3, PageStays
<1> QED BY <1>3, <1>4, <1>5, <1>6, <1>7 DEF CountInv

(* The call of renewOne makes at most one renewal that is not counted: its *)
(* key is one above a count that is not ahead of the row.                  *)
LEMMA CallCounts ==
  ASSUME CountInv, NEW p \in Proc, CallRenew(p)
  PROVE  CountInv' /\ \A q \in Order : Forward(q)
<1> DEFINE o == copy[p][1]
           n == copy[p][2]
<1>1. /\ Typed /\ pc[p] = "call" /\ UNCHANGED <<clock, ord, page, left>>
      /\ o \in Order /\ n \in Nat /\ n <= ord[o].renewCount /\ n < MaxRenew
      /\ ord[o].renewCount \in Nat /\ copy[p] \in Order \X Nat
  BY DEF CountInv, CallRenew, CopyIsOld, OldRow, Typed, RowType
<1>2. \/ resv' = resv
      \/ OfferRenew(o, n + 1)
  BY DEF CallRenew
<1>3. /\ resv' \in [Order -> ResvType]
      /\ \A q \in Order : resv[q].keys \subseteq resv'[q].keys
      /\ resv'[o].keys \subseteq resv[o].keys \cup {n + 1}
      /\ \A q \in Order : q # o => resv'[q] = resv[q]
  <2>1. CASE resv' = resv
    BY <1>1, <2>1 DEF Typed
  <2>2. CASE OfferRenew(o, n + 1)
    <3>1. /\ resv' \in [Order -> ResvType]
          /\ resv'[o].keys = resv[o].keys \cup {n + 1}
          /\ \A q \in Order : q # o => resv'[q] = resv[q]
      BY <1>1, <2>2, OfferRenewEffect
    <3> QED BY <3>1
  <2> QED BY <1>2, <2>1, <2>2
<1>4. ord' \in [Order -> RowType] /\ \A q \in Order : Forward(q)
  BY <1>1, StaysForward DEF Typed
<1>5. ASSUME NEW q \in Order PROVE Counted(q)'
  <2>1. Counted(q)
    BY DEF CountInv
  <2>2. CASE q # o
    BY <1>1, <1>3, <2>1, <2>2 DEF Counted
  <2>3. CASE q = o
    <3>1. n + 1 \in 1 .. ord[o].renewCount + 1 /\ n + 1 \in 1 .. MaxRenew
      BY <1>1
    <3>2. /\ 1 .. ord[o].renewCount \subseteq resv'[o].keys
          /\ resv'[o].keys \subseteq 1 .. ord[o].renewCount + 1
          /\ resv'[o].keys \subseteq 1 .. MaxRenew
      BY <1>3, <2>1, <2>3, <3>1 DEF Counted
    <3> QED BY <1>1, <2>3, <3>2 DEF Counted
  <2> QED BY <2>2, <2>3
<1>6. /\ pc' \in [Proc -> {"idle", "call", "bump"}]
      /\ copy' \in [Proc -> (Order \X Nat) \cup {NoRow}]
      /\ failed' \in Nat
      /\ \A q \in Proc : q # p => pc'[q] = pc[q] /\ copy'[q] = copy[q]
      /\ pc'[p] = "idle" \/ (pc'[p] = "bump" /\ copy' = copy /\ OfferRenew(o, n + 1))
  <2>1. CASE OfferRenew(o, n + 1) /\ pc' = [pc EXCEPT ![p] = "bump"] /\ UNCHANGED <<copy, failed>>
    BY <1>1, <2>1 DEF Typed
  <2>2. CASE Fail(p)
    <3>1. Return(p) /\ failed' \in Nat
      BY <1>1, <2>2 DEF Fail, Typed
    <3> QED BY <1>1, <3>1, Returns
  <2> QED BY <2>1, <2>2 DEF CallRenew
<1>7. Typed'
  BY <1>1, <1>3, <1>6 DEF Typed
<1>8. ASSUME NEW q \in Proc PROVE CopyIsOld(q)'
  <2>1. CASE q # p
    BY <1>3, <1>4, <1>6, <2>1, CopyStays
  <2>2. CASE q = p /\ pc'[p] = "idle"
    BY <2>2 DEF CopyIsOld
  <2>3. CASE q = p /\ pc'[p] = "bump" /\ copy' = copy /\ OfferRenew(o, n + 1)
    <3>1. n + 1 \in resv'[o].keys
      BY <1>1, <2>3, OfferRenewEffect
    <3>2. OldRow(copy[p])
      BY <1>1 DEF OldRow
    <3> QED BY <1>1, <2>3, <3>1, <3>2 DEF CopyIsOld, OldRow
  <2> QED BY <1>6, <2>1, <2>2, <2>3
<1>9. \A r \in page' : OldRow(r)'
  BY <1>1, <1>4, PageStays
<1> QED BY <1>1, <1>4, <1>5, <1>7, <1>8, <1>9 DEF CountInv

(* The keys of n renewals and the next one. *)
LEMMA OneMoreKey ==
  ASSUME NEW n \in Nat, NEW K, 1 .. n \subseteq K, K \subseteq 1 .. n + 1, n + 1 \in K
  PROVE  1 .. n + 1 \subseteq K /\ K \subseteq 1 .. n + 1 + 1
OBVIOUS

(* BumpRenew counts only what its own renewal made: the compare-and-set    *)
(* finds the count its key was made from.                                  *)
LEMMA BumpCounts ==
  ASSUME CountInv, NEW p \in Proc, BumpRenew(p)
  PROVE  CountInv' /\ \A q \in Order : Forward(q)
<1> DEFINE o == copy[p][1]
           n == copy[p][2]
<1>1. /\ Typed /\ pc[p] = "bump" /\ UNCHANGED <<clock, resv, page, left>>
      /\ o \in Order /\ n \in Nat /\ n < MaxRenew /\ n + 1 \in resv[o].keys
      /\ ord[o] \in RowType /\ ord[o].renewCount \in Nat
  BY DEF CountInv, BumpRenew, CopyIsOld, OldRow, Typed, RowType
<1>2. Return(p) /\ failed' \in Nat
  BY <1>1 DEF BumpRenew, Fail, Typed
<1>3. CASE ord' = ord
  BY <1>1, <1>2, <1>3, ReturnCounts
<1>4. CASE ord' # ord
  <2>1. /\ ord' = [ord EXCEPT ![o].renewCount = @ + 1]
        /\ ord[o].status = "PENDING_PAY" /\ ord[o].renewCount = n
    BY <1>4 DEF BumpRenew
  <2>2. /\ ord' \in [Order -> RowType]
        /\ ord'[o].renewCount = ord[o].renewCount + 1
        /\ ord'[o].status = ord[o].status /\ ord'[o].expireAt = ord[o].expireAt
        /\ \A q \in Order : q # o => ord'[q] = ord[q]
    BY <1>1, <2>1 DEF Typed, RowType
  <2>3. \A q \in Order : Forward(q)
    <3> TAKE q \in Order
    <3>1. CASE q = o
      <4>1. /\ ord[o].renewCount <= ord'[o].renewCount
            /\ ord[o].expireAt <= ord'[o].expireAt
        BY <1>1, <2>2 DEF RowType
      <4> QED BY <2>2, <3>1, <4>1 DEF Forward
    <3>2. CASE q # o
      BY <1>1, <2>2, <3>2, StaysForward
    <3> QED BY <3>1, <3>2
  <2>4. ASSUME NEW q \in Order PROVE Counted(q)'
    <3>1. Counted(q)
      BY DEF CountInv
    <3>2. CASE q # o
      BY <1>1, <2>2, <3>1, <3>2 DEF Counted
    <3>3. CASE q = o
      <4>1. /\ 1 .. n \subseteq resv[o].keys
            /\ resv[o].keys \subseteq 1 .. n + 1 /\ resv[o].keys \subseteq 1 .. MaxRenew
        BY <2>1, <3>1, <3>3 DEF Counted
      <4>2. 1 .. n + 1 \subseteq resv[o].keys /\ resv[o].keys \subseteq 1 .. n + 1 + 1
        BY <1>1, <4>1, OneMoreKey
      <4> QED BY <1>1, <2>1, <2>2, <3>3, <4>1, <4>2 DEF Counted
    <3> QED BY <3>2, <3>3
  <2>5. /\ pc' \in [Proc -> {"idle", "call", "bump"}]
        /\ copy' \in [Proc -> (Order \X Nat) \cup {NoRow}]
        /\ pc'[p] = "idle"
        /\ \A q \in Proc : q # p => pc'[q] = pc[q] /\ copy'[q] = copy[q]
    BY <1>1, <1>2, Returns
  <2>6. Typed'
    BY <1>1, <1>2, <2>2, <2>5 DEF Typed
  <2>7. ASSUME NEW q \in Proc PROVE CopyIsOld(q)'
    <3>1. CASE q = p
      BY <2>5, <3>1 DEF CopyIsOld
    <3>2. CASE q # p
      BY <1>1, <2>2, <2>3, <2>5, <3>2, CopyStays
    <3> QED BY <3>1, <3>2
  <2>8. \A r \in page' : OldRow(r)'
    BY <1>1, <2>2, <2>3, PageStays
  <2>9. \A q \in Order : ord'[q].status = "NONE" => ord'[q].expireAt = 0
    BY <2>1, <2>2 DEF CountInv
  <2> QED BY <2>3, <2>4, <2>6, <2>7, <2>8, <2>9 DEF CountInv
<1> QED BY <1>3, <1>4

(* Payment, cancellation, settlement, expiry and the clock. *)
LEMMA OutsideCounts ==
  ASSUME CountInv,
         \/ \E o \in Order : Decide(o) \/ Settle(o) \/ Expire(o)
         \/ Advance \/ UNCHANGED vars
  PROVE  CountInv' /\ \A q \in Order : Forward(q)
<1>1. Typed /\ UNCHANGED <<pc, copy, page, left, failed>>
  BY DEF CountInv, Decide, Settle, Expire, Advance, vars
<1>2. clock' \in Nat
  BY <1>1 DEF Typed, Decide, Settle, Expire, Advance, vars
<1>3. /\ ord' \in [Order -> RowType]
      /\ \A q \in Order : Forward(q) /\ ord'[q].renewCount = ord[q].renewCount
      /\ \A q \in Order : ord'[q].status = "NONE" => ord'[q].expireAt = 0
  <2>1. CASE ord' = ord
    BY <1>1, <2>1, StaysForward DEF Typed, CountInv
  <2>2. ASSUME NEW o \in Order, Decide(o)
        PROVE  /\ ord' \in [Order -> RowType]
               /\ \A q \in Order : Forward(q) /\ ord'[q].renewCount = ord[q].renewCount
               /\ \A q \in Order : ord'[q].status = "NONE" => ord'[q].expireAt = 0
    <3>1. PICK s \in {"PAID", "CANCELLED"} : ord' = [ord EXCEPT ![o].status = s]
      BY <2>2 DEF Decide
    <3>2. ord[o] \in RowType /\ ord[o].status = "PENDING_PAY"
      BY <1>1, <2>2 DEF Decide, Typed
    <3>3. /\ ord' \in [Order -> RowType] /\ ord'[o].status = s
          /\ ord'[o].renewCount = ord[o].renewCount /\ ord'[o].expireAt = ord[o].expireAt
          /\ \A q \in Order : q # o => ord'[q] = ord[q]
      BY <1>1, <3>1, <3>2 DEF Typed, RowType
    <3>4. \A q \in Order : Forward(q) /\ ord'[q].renewCount = ord[q].renewCount
      <4> TAKE q \in Order
      <4>1. CASE q = o
        BY <3>2, <3>3, <4>1 DEF Forward, RowType
      <4>2. CASE q # o
        BY <1>1, <3>3, <4>2, StaysForward
      <4> QED BY <4>1, <4>2
    <3>5. \A q \in Order : ord'[q].status = "NONE" => ord'[q].expireAt = 0
      BY <3>3 DEF CountInv
    <3> QED BY <3>3, <3>4, <3>5
  <2> QED BY <2>1, <2>2 DEF Settle, Expire, Advance, vars
<1>4. /\ resv' \in [Order -> ResvType]
      /\ \A q \in Order : resv'[q].keys = resv[q].keys
  <2>1. CASE resv' = resv
    BY <1>1, <2>1 DEF Typed
  <2>2. ASSUME NEW o \in Order, Settle(o) \/ Expire(o)
        PROVE  resv' \in [Order -> ResvType] /\ \A q \in Order : resv'[q].keys = resv[q].keys
    <3>1. PICK s \in {"COMMITTED", "RELEASED", "EXPIRED"} : resv' = [resv EXCEPT ![o].status = s]
      BY <2>2 DEF Settle, Expire
    <3>2. resv[o] \in ResvType
      BY <1>1 DEF Typed
    <3> QED BY <1>1, <3>1, <3>2 DEF Typed, ResvType
  <2> QED BY <2>1, <2>2 DEF Decide, Advance, vars
<1>5. Typed'
  BY <1>1, <1>2, <1>3, <1>4 DEF Typed
<1>6. \A q \in Order : Counted(q)'
  <2>1. \A q \in Order : Counted(q)
    BY DEF CountInv
  <2> QED BY <1>3, <1>4, <2>1 DEF Counted
<1>7. \A p \in Proc : CopyIsOld(p)'
  BY <1>1, <1>3, <1>4, CopyStays
<1>8. \A r \in page' : OldRow(r)'
  BY <1>1, <1>3, PageStays
<1> QED BY <1>3, <1>5, <1>6, <1>7, <1>8 DEF CountInv


(* Copies come from finitely many orders and are below the limit. *)
LEMMA PageFinite ==
  ASSUME CountInv
  PROVE  IsFiniteSet(page) /\ Cardinality(page) \in Nat
<1>1. IsFiniteSet(0 .. MaxRenew - 1)
  BY FS_Interval
<1>2. IsFiniteSet(Order \X (0 .. MaxRenew - 1))
  BY <1>1, FS_Product
<1>3. page \in SUBSET (Order \X (0 .. MaxRenew - 1))
  <2> SUFFICES ASSUME NEW row \in page PROVE row \in Order \X (0 .. MaxRenew - 1)
    OBVIOUS
  <2>1. row \in Order \X Nat /\ row[1] \in Order /\ row[2] \in Nat /\ row[2] < MaxRenew
    BY DEF CountInv, OldRow
  <2>2. row = <<row[1], row[2]>> /\ row[2] \in 0 .. MaxRenew - 1
    BY <2>1
  <2> QED BY <2>1, <2>2
<1>4. IsFiniteSet(page)
  BY <1>2, <1>3, FS_Subset
<1> QED BY <1>4, FS_CardinalityType

(* Every step keeps the count, and rows only move forward. *)
LEMMA CountStep ==
  ASSUME CountInv, [Next]_vars
  PROVE  CountInv' /\ \A q \in Order : Forward(q)
<1>1. CASE Restart
  <2>1. failed' \in Nat /\ Job \in Proc /\ page' \in SUBSET page /\ Return(Job)
        /\ UNCHANGED <<clock, ord, resv, left>>
    BY <1>1, PageFinite DEF Restart, CountInv, Typed, Proc
  <2> QED BY <2>1, ReturnCounts
<1> QED
  BY <1>1, RenewCounts, CallCounts, BumpCounts, TickCounts, NextRowCounts, PlaceCounts,
     OutsideCounts DEF Next

(* The count holds before any order is placed. *)
LEMMA InitCounts ==
  ASSUME Init
  PROVE  CountInv
<1>1. Typed
  BY DEF Init, Typed, RowType, ResvType
<1>2. \A o \in Order : Counted(o)
  BY DEF Init, Counted
<1> QED BY <1>1, <1>2 DEF Init, CountInv, CopyIsOld

(* renew_count and the renewals OfferHub has made differ by one at most,   *)
(* and the limit bounds both, for any number of overlapping requests, old  *)
(* copies of a page and lost answers.                                      *)
THEOREM CountAgrees == Spec => []RenewalsCounted
<1>1. Init => CountInv
  BY InitCounts
<1>2. CountInv /\ [Next]_vars => CountInv'
  BY CountStep
<1>3. CountInv => RenewalsCounted
  BY DEF CountInv, Counted, RenewalsCounted
<1> QED BY <1>1, <1>2, <1>3, PTL DEF Spec

-----------------------------------------------------------------------------
(* The places of the pages.                                                *)

(* The places that the rows ahead of an order have between them. *)
Places(o) == Ahead(o) \X (0 .. MaxRenew - 1)

(* Those that are used up: counted, or the row is no longer unpaid. *)
UsedUp(o) ==
  {x \in Places(o) : x[2] < ord[x[1]].renewCount \/ ord[x[1]].status # "PENDING_PAY"}

(* The copies the worker still has in hand. *)
Hand == page \cup (IF pc[Job] = "idle" THEN {} ELSE {copy[Job]})

Taken(o) == UsedUp(o) \cup (Hand \cap Places(o))

(* A page that leaves an order out takes PageSize places of the rows ahead *)
(* of it; a place is used up, or in hand, or its renewal has failed.       *)
PlacesTaken(o) == left[o] * PageSize <= Cardinality(Taken(o)) + failed

PlaceInv == CountInv /\ \A o \in Order : PlacesTaken(o)

(* Places of some orders can be counted. *)
LEMMA PlacesFinite ==
  ASSUME NEW A \in SUBSET Order, NEW T \in SUBSET (A \X (0 .. MaxRenew - 1))
  PROVE  /\ IsFiniteSet(T) /\ Cardinality(T) \in Nat /\ Cardinality(A) \in Nat
         /\ Cardinality(T) <= MaxRenew * Cardinality(A)
<1>1. IsFiniteSet(0 .. MaxRenew - 1) /\ Cardinality(0 .. MaxRenew - 1) = MaxRenew
  <2>1. MaxRenew \in Nat /\ 0 \in Int /\ MaxRenew - 1 \in Int
    OBVIOUS
  <2>2. /\ IsFiniteSet(0 .. MaxRenew - 1)
        /\ Cardinality(0 .. MaxRenew - 1) =
             IF 0 > MaxRenew - 1 THEN 0 ELSE (MaxRenew - 1) - 0 + 1
    BY <2>1, FS_Interval
  <2>3. (IF 0 > MaxRenew - 1 THEN 0 ELSE (MaxRenew - 1) - 0 + 1) = MaxRenew
    BY <2>1
  <2> QED BY <2>2, <2>3
<1>2. IsFiniteSet(A)
  BY FS_Subset
<1>3. Cardinality(A) \in Nat
  BY <1>2, FS_CardinalityType
<1>4. /\ IsFiniteSet(A \X (0 .. MaxRenew - 1))
      /\ Cardinality(A \X (0 .. MaxRenew - 1)) = Cardinality(A) * MaxRenew
  BY <1>1, <1>2, FS_Product
<1>5. IsFiniteSet(T) /\ Cardinality(T) <= Cardinality(A) * MaxRenew
  BY <1>4, FS_Subset
<1>6. Cardinality(T) \in Nat
  BY <1>5, FS_CardinalityType
<1>7. Cardinality(A) * MaxRenew = MaxRenew * Cardinality(A)
  BY <1>3
<1> QED BY <1>3, <1>5, <1>6, <1>7

(* Sizes of finite sets: of a part, and of a set covered by two. *)
LEMMA SizeOfCover ==
  ASSUME NEW S, NEW T, NEW U, IsFiniteSet(S), IsFiniteSet(T), IsFiniteSet(U),
         S \subseteq T \cup U
  PROVE  Cardinality(S) <= Cardinality(T) + Cardinality(U)
<1>1. /\ IsFiniteSet(T \cup U) /\ IsFiniteSet(T \cap U)
      /\ Cardinality(T \cup U) = Cardinality(T) + Cardinality(U) - Cardinality(T \cap U)
  <2>1. T \cap U \in SUBSET T
    OBVIOUS
  <2> QED BY <2>1, FS_Union, FS_Subset
<1>2. Cardinality(S) <= Cardinality(T \cup U)
  BY <1>1, FS_Subset
<1>3. /\ Cardinality(S) \in Nat /\ Cardinality(T) \in Nat /\ Cardinality(U) \in Nat
      /\ Cardinality(T \cap U) \in Nat /\ Cardinality(T \cup U) \in Nat
  BY <1>1, FS_CardinalityType
<1> QED BY <1>1, <1>2, <1>3


(* Rows that move forward stay ahead of an order, and used places stay     *)
(* used.                                                                   *)
LEMMA PlacesGrow ==
  ASSUME CountInv, CountInv', NEW o \in Order, \A q \in Order : Forward(q)
  PROVE  /\ Ahead(o) \subseteq Ahead(o)' /\ Places(o) \subseteq Places(o)'
         /\ UsedUp(o) \subseteq UsedUp(o)'
<1>1. \A q \in Order : /\ ord[q].expireAt \in Nat /\ ord'[q].expireAt \in Nat
                       /\ ord[q].renewCount \in Nat /\ ord'[q].renewCount \in Nat
  BY DEF CountInv, Typed, RowType
<1>2. ASSUME NEW q \in Ahead(o) PROVE q \in Ahead(o)'
  <2>1. q \in Order \ {o} /\ ord[q].status # "NONE" /\ ord[q].expireAt <= ord[o].expireAt
    BY DEF Ahead
  <2>2. ord'[q].status # "NONE" /\ ord'[q].expireAt = ord[q].expireAt
    BY <2>1 DEF Forward
  <2>3. ord[o].expireAt <= ord'[o].expireAt
    BY DEF Forward
  <2>4. ord'[q].expireAt <= ord'[o].expireAt
    BY <1>1, <2>1, <2>2, <2>3
  <2> QED BY <2>1, <2>2, <2>4 DEF Ahead
<1>3. Places(o) \subseteq Places(o)'
  BY <1>2 DEF Places
<1>4. ASSUME NEW x \in UsedUp(o) PROVE x \in UsedUp(o)'
  <2>1. /\ x \in Places(o) /\ x \in Places(o)' /\ x[1] \in Order /\ x[2] \in Nat
        /\ ord[x[1]].status # "NONE"
        /\ x[2] < ord[x[1]].renewCount \/ ord[x[1]].status # "PENDING_PAY"
    BY <1>3 DEF UsedUp, Places, Ahead
  <2>2. CASE x[2] < ord[x[1]].renewCount
    <3>1. ord[x[1]].renewCount <= ord'[x[1]].renewCount
      BY <2>1 DEF Forward
    <3>2. x[2] < ord'[x[1]].renewCount
      BY <1>1, <2>1, <2>2, <3>1
    <3> QED BY <2>1, <3>2 DEF UsedUp
  <2>3. CASE ord[x[1]].status # "PENDING_PAY"
    <3>1. ord'[x[1]].status = ord[x[1]].status
      BY <2>1, <2>3 DEF Forward
    <3> QED BY <2>1, <2>3, <3>1 DEF UsedUp
  <2> QED BY <2>1, <2>2, <2>3
<1> QED BY <1>2, <1>3, <1>4

(* The arithmetic of a copy that leaves. *)
LEMMA BoundMoves ==
  ASSUME NEW m \in Nat, NEW a \in Nat, NEW b \in Nat, NEW u \in Nat,
         NEW f \in Nat, NEW g \in Nat, m <= a + f, a <= b + u, f + u <= g
  PROVE  m <= b + g
OBVIOUS

(* A step that reads no page keeps the bound when every copy that leaves   *)
(* the worker's hand is of a place used up, or is counted as failed.       *)
LEMMA HandGoes ==
  ASSUME CountInv, CountInv', \A q \in Order : Forward(q),
         NEW o \in Order, PlacesTaken(o), left'[o] = left[o],
         NEW U, IsFiniteSet(U), failed + Cardinality(U) <= failed',
         \A x \in Hand : x \in Hand' \/ x \in U \/ (x \in Places(o)' => x \in UsedUp(o)')
  PROVE  PlacesTaken(o)'
<1>1. /\ Ahead(o) \in SUBSET Order /\ Ahead(o)' \in SUBSET Order
      /\ Taken(o) \in SUBSET (Ahead(o) \X (0 .. MaxRenew - 1))
      /\ Taken(o)' \in SUBSET (Ahead(o)' \X (0 .. MaxRenew - 1))
  BY DEF Ahead, Taken, UsedUp, Places
<1>2. Taken(o) \subseteq Taken(o)' \cup U
  <2> SUFFICES ASSUME NEW x \in Taken(o), x \notin U PROVE x \in Taken(o)'
    OBVIOUS
  <2>1. CASE x \in UsedUp(o)
    BY <2>1, PlacesGrow DEF Taken
  <2>2. CASE x \in Hand /\ x \in Places(o)
    <3>1. x \in Places(o)'
      BY <2>2, PlacesGrow
    <3>2. x \in Hand' \/ x \in UsedUp(o)'
      BY <2>2, <3>1
    <3> QED BY <3>1, <3>2 DEF Taken
  <2> QED BY <2>1, <2>2 DEF Taken
<1>3. /\ IsFiniteSet(Taken(o)) /\ Cardinality(Taken(o)) \in Nat
      /\ IsFiniteSet(Taken(o)') /\ Cardinality(Taken(o)') \in Nat
      /\ Cardinality(U) \in Nat
  BY <1>1, PlacesFinite, FS_CardinalityType
<1>4. Cardinality(Taken(o)) <= Cardinality(Taken(o)') + Cardinality(U)
  BY <1>2, <1>3, SizeOfCover
<1>5. left[o] * PageSize \in Nat /\ failed \in Nat /\ failed' \in Nat
  BY DEF CountInv, Typed
<1>6. left[o] * PageSize <= Cardinality(Taken(o)) + failed
  BY DEF PlacesTaken
<1>7. left[o] * PageSize <= Cardinality(Taken(o)') + failed'
  BY <1>3, <1>4, <1>5, <1>6, BoundMoves
<1> QED BY <1>7 DEF PlacesTaken


(* The arithmetic of a full page. *)
LEMMA PageMoves ==
  ASSUME NEW m \in Nat, NEW a \in Nat, NEW b \in Nat, NEW u \in Nat, NEW f \in Nat,
         m <= a + f, u <= b
  PROVE  m + u <= a + b + f
OBVIOUS

(* One more page. *)
LEMMA OneMore ==
  ASSUME NEW m \in Nat, NEW b \in Nat
  PROVE  (m + 1) * b = m * b + b /\ m * b \in Nat
OBVIOUS

(* A page that leaves an order out is full of rows ahead of it, with counts *)
(* that no page had before.                                                *)
LEMMA TickTakes ==
  ASSUME PlaceInv, CountInv', \A q \in Order : Forward(q), Tick, NEW o \in Order
  PROVE  PlacesTaken(o)'
<1>1. /\ CountInv /\ Typed /\ PlacesTaken(o) /\ Job \in Proc
      /\ UNCHANGED <<clock, ord, resv, pc, copy, failed>>
      /\ pc[Job] = "idle" /\ page = {} /\ Hand = {}
  BY DEF PlaceInv, CountInv, Tick, Hand, Proc
<1>2. PICK P \in ListPendingPayForRenew :
        /\ page' = {<<q, ord[q].renewCount>> : q \in P}
        /\ left' = [q \in Order |-> left[q] + (IF q \in Due \ P THEN 1 ELSE 0)]
  BY DEF Tick
<1>3. CASE o \notin Due \ P
  <2>1. left'[o] = left[o] /\ failed + 0 <= failed'
    BY <1>1, <1>2, <1>3 DEF Typed
  <2>2. IsFiniteSet({}) /\ Cardinality({}) = 0
    BY FS_EmptySet
  <2> QED BY <1>1, <2>1, <2>2, HandGoes
<1>4. CASE o \in Due \ P
  <2>1. /\ left'[o] = left[o] + 1 /\ left[o] \in Nat /\ PageSize \in Nat
        /\ P \subseteq Due /\ Cardinality(P) = PageSize
        /\ \A q \in P : ord[q].expireAt <= ord[o].expireAt
    BY <1>1, <1>2, <1>4 DEF ListPendingPayForRenew, Typed
  <2>2. \A q \in P : /\ q \in Ahead(o) /\ ord[q].status = "PENDING_PAY"
                     /\ ord[q].renewCount \in 0 .. MaxRenew - 1
    <3> TAKE q \in P
    <3>1. /\ q \in Order /\ q # o /\ ord[q].status = "PENDING_PAY"
          /\ ord[q].renewCount < MaxRenew
      BY <1>4, <2>1 DEF Due
    <3>2. ord[q].renewCount \in Nat
      BY <1>1, <3>1 DEF Typed, RowType
    <3> QED BY <2>1, <3>1, <3>2 DEF Ahead
  <2>3. page' \in SUBSET Places(o)
    BY <1>2, <2>2 DEF Places
  <2>4. page' \cap UsedUp(o) = {}
    <3> SUFFICES ASSUME NEW q \in P, <<q, ord[q].renewCount>> \in UsedUp(o) PROVE FALSE
      BY <1>2
    <3>1. ord[q].renewCount < ord[q].renewCount \/ ord[q].status # "PENDING_PAY"
      BY DEF UsedUp
    <3> QED BY <2>2, <3>1
  <2>5. Taken(o)' = UsedUp(o) \cup page' /\ Taken(o) = UsedUp(o)
    <3>1. Places(o)' = Places(o) /\ UsedUp(o)' = UsedUp(o)
      BY <1>1 DEF Places, UsedUp, Ahead
    <3>2. Hand' = page'
      BY <1>1 DEF Hand
    <3> QED BY <1>1, <2>3, <3>1, <3>2 DEF Taken
  <2>6. /\ IsFiniteSet(UsedUp(o)) /\ Cardinality(UsedUp(o)) \in Nat
        /\ IsFiniteSet(page') /\ Cardinality(page') \in Nat
    <3>1. /\ Ahead(o) \in SUBSET Order
          /\ UsedUp(o) \in SUBSET (Ahead(o) \X (0 .. MaxRenew - 1))
          /\ page' \in SUBSET (Ahead(o) \X (0 .. MaxRenew - 1))
      BY <2>3 DEF Ahead, UsedUp, Places
    <3> QED BY <3>1, PlacesFinite
  <2>7. PageSize <= Cardinality(page')
    <3> DEFINE f == [q \in P |-> <<q, ord[q].renewCount>>]
    <3>1. f \in Injection(P, page')
      BY <1>2 DEF Injection, IsInjective
    <3>2. Cardinality(P) <= Cardinality(page')
      BY <2>6, <3>1, FS_Injection
    <3> QED BY <2>1, <3>2
  <2>8. Cardinality(Taken(o)') = Cardinality(Taken(o)) + Cardinality(page')
    <3>1. UsedUp(o) \cap page' = {} /\ Cardinality({}) = 0
      BY <2>4, FS_EmptySet
    <3>2. Cardinality(UsedUp(o) \cup page') = Cardinality(UsedUp(o)) + Cardinality(page') - 0
      BY <2>6, <3>1, FS_Union
    <3>3. Cardinality(UsedUp(o)) + Cardinality(page') - 0
            = Cardinality(UsedUp(o)) + Cardinality(page')
      BY <2>6
    <3> QED BY <2>5, <3>2, <3>3
  <2>9. (left[o] + 1) * PageSize = left[o] * PageSize + PageSize
        /\ left[o] * PageSize \in Nat
    BY <2>1, OneMore
  <2>10. left[o] * PageSize + PageSize
           <= Cardinality(Taken(o)) + Cardinality(page') + failed
    <3>1. left[o] * PageSize <= Cardinality(Taken(o)) + failed
      BY <1>1 DEF PlacesTaken
    <3>2. failed \in Nat /\ Cardinality(Taken(o)) \in Nat
      BY <1>1, <2>5, <2>6 DEF Typed
    <3> QED BY <2>1, <2>6, <2>7, <2>9, <3>1, <3>2, PageMoves
  <2> QED BY <1>1, <2>1, <2>8, <2>9, <2>10 DEF PlacesTaken
<1> QED BY <1>3, <1>4

(* Steps that leave the worker's hand as it is. *)
LEMMA HandStays ==
  ASSUME PlaceInv, CountInv', \A q \in Order : Forward(q), NEW o \in Order,
         left' = left, failed' = failed, Hand \subseteq Hand'
  PROVE  PlacesTaken(o)'
<1>1. CountInv /\ PlacesTaken(o) /\ failed + 0 <= failed'
  BY DEF PlaceInv, CountInv, Typed
<1>2. IsFiniteSet({}) /\ Cardinality({}) = 0
  BY FS_EmptySet
<1> QED BY <1>1, <1>2, HandGoes

(* A copy whose renewal failed leaves the worker's hand. *)
LEMMA FailTakes ==
  ASSUME PlaceInv, CountInv', \A q \in Order : Forward(q), NEW o \in Order,
         Fail(Job), UNCHANGED <<page, left>>
  PROVE  PlacesTaken(o)'
<1>1. /\ CountInv /\ PlacesTaken(o) /\ Typed /\ Job \in Proc /\ failed' = failed + 1
      /\ left'[o] = left[o]
  BY DEF PlaceInv, CountInv, Fail, Proc
<1>2. IsFiniteSet({copy[Job]}) /\ Cardinality({copy[Job]}) = 1
  BY FS_Singleton
<1>3. failed + Cardinality({copy[Job]}) <= failed'
  BY <1>1, <1>2 DEF Typed
<1>4. \A x \in Hand : x \in Hand' \/ x \in {copy[Job]}
  BY DEF Hand
<1> QED BY <1>1, <1>2, <1>3, <1>4, HandGoes


(* Every step keeps the bound. *)
LEMMA PlaceStep ==
  ASSUME PlaceInv, [Next]_vars
  PROVE  PlaceInv'
<1>1. CountInv /\ Typed /\ Job \in Proc /\ CopyIsOld(Job)
  BY DEF PlaceInv, CountInv, Proc
<1>2. CountInv' /\ \A q \in Order : Forward(q)
  BY <1>1, CountStep
<1> SUFFICES ASSUME NEW o \in Order PROVE PlacesTaken(o)'
  BY <1>2 DEF PlaceInv
<1>3. CASE \/ \E q \in Order : Place(q) \/ Decide(q) \/ Settle(q) \/ Expire(q)
           \/ Advance \/ UNCHANGED vars
  <2>1. UNCHANGED <<pc, copy, page, left, failed>>
    BY <1>3 DEF Place, Decide, Settle, Expire, Advance, vars
  <2>2. Hand \subseteq Hand'
    BY <2>1 DEF Hand
  <2> QED BY <1>2, <2>1, <2>2, HandStays
<1>4. ASSUME NEW p \in Caller, Renew(p) PROVE PlacesTaken(o)'
  <2>1. /\ p # Job /\ UNCHANGED <<page, left, failed>>
        /\ pc'[Job] = pc[Job] /\ copy'[Job] = copy[Job]
    BY <1>1, <1>4 DEF Renew, renewOne, Typed
  <2>2. Hand \subseteq Hand'
    BY <2>1 DEF Hand
  <2> QED BY <1>2, <2>1, <2>2, HandStays
<1>5. ASSUME NEW p \in Proc, p # Job, CallRenew(p) \/ BumpRenew(p) PROVE PlacesTaken(o)'
  <2>1. /\ UNCHANGED <<page, left, failed>>
        /\ pc'[Job] = pc[Job] /\ copy'[Job] = copy[Job]
    BY <1>1, <1>5 DEF CallRenew, BumpRenew, Fail, Return, Typed
  <2>2. Hand \subseteq Hand'
    BY <2>1 DEF Hand
  <2> QED BY <1>2, <2>1, <2>2, HandStays
<1>6. CASE CallRenew(Job)
  <2>1. UNCHANGED <<page, left>> /\ pc[Job] = "call"
    BY <1>6 DEF CallRenew
  <2>2. CASE Fail(Job)
    BY <1>2, <2>1, <2>2, FailTakes
  <2>3. CASE pc' = [pc EXCEPT ![Job] = "bump"] /\ UNCHANGED <<copy, failed>>
    <3>1. pc'[Job] = "bump" /\ copy'[Job] = copy[Job]
      BY <1>1, <2>3 DEF Typed
    <3>2. Hand \subseteq Hand'
      BY <2>1, <3>1 DEF Hand
    <3> QED BY <1>2, <2>1, <2>3, <3>2, HandStays
  <2> QED BY <1>6, <2>2, <2>3 DEF CallRenew
<1>7. CASE BumpRenew(Job)
  <2>1. UNCHANGED <<page, left>> /\ pc[Job] = "bump"
    BY <1>7 DEF BumpRenew
  <2>2. CASE Fail(Job)
    BY <1>2, <2>1, <2>2, FailTakes
  <2>3. CASE ~Fail(Job)
    <3> DEFINE q == copy[Job][1]
               n == copy[Job][2]
    <3>1. /\ q \in Order /\ n \in Nat /\ n <= ord[q].renewCount
          /\ ord[q] \in RowType /\ ord[q].renewCount \in Nat
      BY <1>1, <2>1 DEF CopyIsOld, OldRow, Typed, RowType
    <3>2. /\ UNCHANGED failed
          /\ ord' = IF ord[q].status = "PENDING_PAY" /\ ord[q].renewCount = n
                    THEN [ord EXCEPT ![q].renewCount = @ + 1]
                    ELSE ord
      BY <1>7, <2>3 DEF BumpRenew
    <3>3. n < ord'[q].renewCount \/ ord'[q].status # "PENDING_PAY"
      <4>1. CASE ord[q].status = "PENDING_PAY" /\ ord[q].renewCount = n
        BY <1>1, <3>1, <3>2, <4>1 DEF Typed, RowType
      <4>2. CASE ord[q].status # "PENDING_PAY"
        BY <3>2, <4>2
      <4>3. CASE ord[q].renewCount # n
        BY <3>1, <3>2, <4>3
      <4> QED BY <4>1, <4>2, <4>3
    <3>4. \A x \in Hand : x \in Hand' \/ x \in {} \/ (x \in Places(o)' => x \in UsedUp(o)')
      <4> SUFFICES ASSUME NEW x \in Hand, x \notin page, x \in Places(o)'
                   PROVE  x \in UsedUp(o)'
        BY <2>1 DEF Hand
      <4>1. x = copy[Job]
        BY DEF Hand
      <4> QED BY <3>3, <4>1 DEF UsedUp
    <3>5. IsFiniteSet({}) /\ Cardinality({}) = 0
      BY FS_EmptySet
    <3>6. PlacesTaken(o) /\ left'[o] = left[o] /\ failed + 0 <= failed'
      BY <1>1, <2>1, <3>2 DEF PlaceInv, Typed
    <3> QED BY <1>1, <1>2, <3>4, <3>5, <3>6, HandGoes
  <2> QED BY <2>2, <2>3
<1>8. CASE Tick
  BY <1>2, <1>8, TickTakes
<1>9. CASE NextRow
  <2>1. PICK row \in page : page' = page \ {row} /\ renewOne(Job, row)
    BY <1>9 DEF NextRow
  <2>2. row \in Order \X Nat /\ row[2] < MaxRenew
    BY <1>1 DEF CountInv, OldRow
  <2>3. pc'[Job] = "call" /\ copy'[Job] = row
    BY <1>1, <2>1, <2>2, BeginsCall
  <2>4. /\ pc[Job] = "idle" /\ UNCHANGED <<left, failed>>
    BY <1>9 DEF NextRow
  <2>5. Hand \subseteq Hand'
    BY <2>1, <2>3, <2>4 DEF Hand
  <2> QED BY <1>2, <2>4, <2>5, HandStays
<1>10. CASE Restart
  <2>1. /\ failed' = failed + Cardinality(page) + (IF pc[Job] = "idle" THEN 0 ELSE 1)
        /\ left'[o] = left[o] /\ PlacesTaken(o) /\ failed \in Nat
    BY <1>1, <1>10 DEF Restart, PlaceInv, Typed
  <2>2. IsFiniteSet(page) /\ Cardinality(page) \in Nat
    BY <1>1, PageFinite
  <2>3. IsFiniteSet(Hand) /\ failed + Cardinality(Hand) <= failed'
    <3>1. CASE pc[Job] = "idle"
      <4>1. Hand = page
        BY <3>1 DEF Hand
      <4> QED BY <2>1, <2>2, <3>1, <4>1
    <3>2. CASE pc[Job] # "idle"
      <4>1. Hand = page \cup {copy[Job]}
        BY <3>2 DEF Hand
      <4>2. /\ IsFiniteSet(page \cup {copy[Job]})
            /\ Cardinality(page \cup {copy[Job]}) =
                 IF copy[Job] \in page THEN Cardinality(page) ELSE Cardinality(page) + 1
        BY <2>2, FS_AddElement
      <4> QED BY <2>1, <2>2, <3>2, <4>1, <4>2
    <3> QED BY <3>1, <3>2
  <2> QED BY <1>1, <1>2, <2>1, <2>3, HandGoes
<1> QED
  BY <1>3, <1>4, <1>5, <1>6, <1>7, <1>8, <1>9, <1>10 DEF Next

(* The arithmetic of the bound. *)
LEMMA BoundHolds ==
  ASSUME NEW m \in Nat, NEW a \in Nat, NEW b \in Nat, NEW f \in Nat, m <= a + f, a <= b
  PROVE  m <= b + f
OBVIOUS

(* A due order is left out of the worker's pages no more often than the    *)
(* renewals of the rows ahead of it, and the renewals that failed, fill    *)
(* them: for any number of orders and any size of page, however requests   *)
(* and payments come between.                                              *)
THEOREM RowsGiveWay == Spec => []LeftOutSeldom
<1>1. Init => PlaceInv
  <2> SUFFICES ASSUME Init PROVE PlaceInv
    OBVIOUS
  <2>1. ASSUME NEW o \in Order PROVE PlacesTaken(o)
    <3>1. Taken(o) \in SUBSET (Ahead(o) \X (0 .. MaxRenew - 1)) /\ Ahead(o) \in SUBSET Order
      BY DEF Taken, UsedUp, Places, Ahead
    <3>2. Cardinality(Taken(o)) \in Nat
      BY <3>1, PlacesFinite
    <3>3. left[o] * PageSize = 0 /\ failed = 0
      BY DEF Init
    <3> QED BY <3>2, <3>3 DEF PlacesTaken
  <2> QED BY <2>1, InitCounts DEF PlaceInv
<1>2. PlaceInv /\ [Next]_vars => PlaceInv'
  BY PlaceStep
<1>3. PlaceInv => LeftOutSeldom
  <2> SUFFICES ASSUME PlaceInv, NEW o \in Order
               PROVE  left[o] * PageSize <= MaxRenew * Cardinality(Ahead(o)) + failed
    BY DEF LeftOutSeldom
  <2>1. Taken(o) \in SUBSET (Ahead(o) \X (0 .. MaxRenew - 1)) /\ Ahead(o) \in SUBSET Order
    BY DEF Taken, UsedUp, Places, Ahead
  <2>2. /\ Cardinality(Taken(o)) \in Nat
        /\ Cardinality(Taken(o)) <= MaxRenew * Cardinality(Ahead(o))
        /\ Cardinality(Ahead(o)) \in Nat
    BY <2>1, PlacesFinite
  <2>3. /\ left[o] * PageSize <= Cardinality(Taken(o)) + failed
        /\ failed \in Nat /\ left[o] \in Nat
    BY DEF PlaceInv, PlacesTaken, CountInv, Typed
  <2>4. left[o] * PageSize \in Nat /\ MaxRenew * Cardinality(Ahead(o)) \in Nat
    BY <2>2, <2>3, OneMore
  <2> QED BY <2>2, <2>3, <2>4, BoundHolds
<1> QED BY <1>1, <1>2, <1>3, PTL DEF Spec
=============================================================================
