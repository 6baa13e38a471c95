--------------------------- MODULE SnowflakeProofs ---------------------------
(***************************************************************************)
(* The safety properties of Snowflake for any number of binaries, any      *)
(* width of machine id and sequence number, any clock.                     *)
(***************************************************************************)
EXTENDS Snowflake, TLAPS

USE SpanAssumption, EnvAssumption, IdBounds

-----------------------------------------------------------------------------
(* The inductive invariant.                                                *)

Typed ==
  /\ clock \in [Binary -> Nat \ {0}]
  /\ lastMs \in [Binary -> Nat]
  /\ seq \in [Binary -> 0 .. SeqSpan - 1]
  /\ spinning \in [Binary -> BOOLEAN]
  /\ issued \in [Binary -> Seq(Nat)]
  /\ starts \in [Binary -> SUBSET Nat]
  /\ faults \in [back : Nat, restarts : Nat]

(* A generator that has issued something since it came up remembers it:    *)
(* its last id is the one of lastMs and seq, or, while it waits, the one   *)
(* of the last sequence number.  A fresh one has no millisecond yet.       *)
Remembers(b) ==
  LET n == Len(issued[b])
  IN  /\ \A i \in starts[b] : i <= n
      /\ n > 0 /\ n \notin starts[b] =>
           issued[b][n] =
             Pack(b, lastMs[b], IF spinning[b] THEN SeqSpan - 1 ELSE seq[b])
      /\ n = 0 \/ n \in starts[b] => lastMs[b] = 0 /\ ~spinning[b]

(* Every id carries the machine id of its binary. *)
Marked(b) ==
  \A i \in 1 .. Len(issued[b]) :
    \E ms \in Nat, s \in 0 .. SeqSpan - 1 : issued[b][i] = Pack(b, ms, s)

(* Ids grow from life to life too, unless a restart was the cause of a     *)
(* step down.                                                              *)
Rising(b) ==
  ~Regressed(b) =>
    \A i, j \in 1 .. Len(issued[b]) : i < j => issued[b][i] < issued[b][j]

Growing(b) ==
  \A i \in 1 .. Len(issued[b]) - 1 :
    i \notin starts[b] => issued[b][i] < issued[b][i + 1]

SnowflakeInv ==
  Typed /\ \A b \in Binary : Remembers(b) /\ Marked(b) /\ Growing(b) /\ Rising(b)


-----------------------------------------------------------------------------
(* The packing.                                                            *)

(* Multiplying by a span keeps the order, and leaves room for a remainder. *)
LEMMA SpanMonotone ==
  ASSUME NEW x \in Nat, NEW y \in Nat, NEW w \in Nat \ {0}, x < y
  PROVE  x * w + w <= y * w
<1>1. PICK d \in Nat : y = x + 1 + d
  <2>1. y - x - 1 \in Nat /\ y = x + 1 + (y - x - 1)
    OBVIOUS
  <2> QED BY <2>1
<1>2. y * w = x * w + w + d * w
  BY <1>1
<1>3. d * w \in Nat /\ x * w \in Nat
  OBVIOUS
<1> QED BY <1>2, <1>3

(* An environment gives every binary a machine id within the span. *)
LEMMA MachineInSpan ==
  ASSUME NEW b \in Binary
  PROVE  machineID(b) \in 0 .. MachineSpan - 1
<1>1. CASE Env[b] = Unset
  BY <1>1 DEF machineID
<1>2. CASE Env[b] # Unset
  <2>1. Env[b] \in Nat
    BY <1>2
  <2> QED BY <1>2, <2>1 DEF machineID
<1> QED BY <1>1, <1>2

(* Ids, and the parts they are packed from, are natural numbers. *)
LEMMA PackTyped ==
  ASSUME NEW b \in Binary, NEW ms \in Nat, NEW s \in 0 .. SeqSpan - 1
  PROVE  /\ ms * MachineSpan \in Nat
         /\ ms * MachineSpan + machineID(b) \in Nat
         /\ (ms * MachineSpan + machineID(b)) * SeqSpan \in Nat
         /\ Pack(b, ms, s) \in Nat
<1>1. ms * MachineSpan + machineID(b) \in Nat /\ ms * MachineSpan \in Nat
  BY MachineInSpan
<1> DEFINE x == ms * MachineSpan + machineID(b)
<1> HIDE DEF x
<1>2. x \in Nat
  BY <1>1 DEF x
<1>3. x * SeqSpan \in Nat /\ x * SeqSpan + s \in Nat
  BY <1>2
<1> QED BY <1>1, <1>3 DEF x, Pack

(* A later millisecond packs to a larger id, whatever the sequences. *)
LEMMA LaterIsLarger ==
  ASSUME NEW b \in Binary, NEW m \in Nat, NEW n \in Nat, m < n,
         NEW s \in 0 .. SeqSpan - 1, NEW t \in 0 .. SeqSpan - 1
  PROVE  Pack(b, m, s) < Pack(b, n, t)
<1> DEFINE x == m * MachineSpan + machineID(b)
           y == n * MachineSpan + machineID(b)
<1>1. x \in Nat /\ y \in Nat /\ m * MachineSpan \in Nat /\ n * MachineSpan \in Nat
  BY PackTyped
<1>2. m * MachineSpan + MachineSpan <= n * MachineSpan
  BY SpanMonotone
<1>3. x < y
  BY <1>1, <1>2, MachineInSpan
<1>4. Pack(b, m, s) = x * SeqSpan + s /\ Pack(b, n, t) = y * SeqSpan + t
  BY DEF Pack
<1> HIDE DEF x, y
<1>5. x * SeqSpan + SeqSpan <= y * SeqSpan
  BY <1>1, <1>3, SpanMonotone
<1>6. x * SeqSpan \in Nat /\ y * SeqSpan \in Nat
  BY <1>1
<1> QED BY <1>4, <1>5, <1>6

(* Sums with different remainders, or of products a span apart, differ. *)
LEMMA RemaindersApart ==
  ASSUME NEW p \in Nat, NEW q \in Nat, NEW w \in Nat \ {0},
         NEW i \in 0 .. w - 1, NEW j \in 0 .. w - 1,
         \/ p = q /\ i # j
         \/ p + w <= q
         \/ q + w <= p
  PROVE  p + i # q + j
  OBVIOUS

(* Binaries with different machine ids never pack to the same id. *)
LEMMA MachinesAreApart ==
  ASSUME NEW b \in Binary, NEW c \in Binary, machineID(b) # machineID(c),
         NEW m \in Nat, NEW n \in Nat,
         NEW s \in 0 .. SeqSpan - 1, NEW t \in 0 .. SeqSpan - 1
  PROVE  Pack(b, m, s) # Pack(c, n, t)
<1> DEFINE x == m * MachineSpan + machineID(b)
           y == n * MachineSpan + machineID(c)
<1>1. x \in Nat /\ y \in Nat /\ m * MachineSpan \in Nat /\ n * MachineSpan \in Nat
  BY PackTyped
<1>2. x # y
  <2> DEFINE p == m * MachineSpan
             q == n * MachineSpan
  <2>1. \/ p = q
        \/ p + MachineSpan <= q
        \/ q + MachineSpan <= p
    <3>1. CASE m = n
      BY <3>1
    <3>2. CASE m < n
      BY <3>2, SpanMonotone
    <3>3. CASE n < m
      BY <3>3, SpanMonotone
    <3> QED BY <3>1, <3>2, <3>3
  <2>2. p \in Nat /\ q \in Nat
    BY <1>1
  <2>3. machineID(b) \in 0 .. MachineSpan - 1 /\ machineID(c) \in 0 .. MachineSpan - 1
    BY MachineInSpan
  <2> HIDE DEF p, q
  <2>4. p + machineID(b) # q + machineID(c)
    BY <2>1, <2>2, <2>3, RemaindersApart
  <2> QED BY <2>4 DEF p, q
<1>3. Pack(b, m, s) = x * SeqSpan + s /\ Pack(c, n, t) = y * SeqSpan + t
  BY DEF Pack
<1> HIDE DEF x, y
<1>4. x * SeqSpan \in Nat /\ y * SeqSpan \in Nat
  BY <1>1
<1>5. CASE x < y
  <2>1. x * SeqSpan + SeqSpan <= y * SeqSpan
    BY <1>1, <1>5, SpanMonotone
  <2> QED BY <2>1, <1>3, <1>4
<1>6. CASE y < x
  <2>1. y * SeqSpan + SeqSpan <= x * SeqSpan
    BY <1>1, <1>6, SpanMonotone
  <2> QED BY <2>1, <1>3, <1>4
<1> QED BY <1>1, <1>2, <1>5, <1>6


-----------------------------------------------------------------------------
(* The steps.                                                              *)

(* What a step does not touch of a binary keeps what is said of it. *)
LEMMA Untouched ==
  ASSUME NEW c \in Binary, Remembers(c) /\ Marked(c) /\ Growing(c) /\ Rising(c),
         issued'[c] = issued[c], starts'[c] = starts[c], lastMs'[c] = lastMs[c],
         seq'[c] = seq[c], spinning'[c] = spinning[c]
  PROVE  (Remembers(c) /\ Marked(c) /\ Growing(c) /\ Rising(c))'
BY DEF Remembers, Marked, Growing, Rising, Regressed, Pack, machineID

(* The elements of a sequence of ids are ids. *)
LEMMA ElementTyped ==
  ASSUME NEW q \in Seq(Nat), NEW k \in 1 .. Len(q)
  PROVE  q[k] \in Nat
BY SMTT(30)

(* An id above the last one of this life keeps the invariant. *)
LEMMA IssueKeeps ==
  ASSUME SnowflakeInv, NEW b \in Binary, NEW ms \in Nat, ms # 0,
         NEW s \in 0 .. SeqSpan - 1,
         Issue(b, ms, s), UNCHANGED <<clock, starts, faults>>,
         spinning' = [spinning EXCEPT ![b] = FALSE],
         /\ Len(issued[b]) > 0 /\ Len(issued[b]) \notin starts[b]
         => issued[b][Len(issued[b])] < Pack(b, ms, s)
  PROVE  SnowflakeInv'
<1> DEFINE n  == Len(issued[b])
           id == Pack(b, ms, s)
<1>1. /\ Typed /\ n \in Nat /\ issued[b] \in Seq(Nat)
      /\ Remembers(b) /\ Marked(b) /\ Growing(b) /\ Rising(b)
  BY SMTT(30) DEF SnowflakeInv, Typed
<1>2. id \in Nat
  BY PackTyped
<1>3. issued'[b] = Append(issued[b], id)
  BY <1>1 DEF Issue, Typed
<1> HIDE DEF id
<1>4. /\ Len(issued'[b]) = n + 1
      /\ issued'[b][n + 1] = id
      /\ \A i \in 1 .. n : issued'[b][i] = issued[b][i]
  BY <1>1, <1>2, <1>3, SMTT(30)
<1>5. Typed'
  <2>1. issued' = [issued EXCEPT ![b] = Append(@, id)]
    BY DEF Issue, id
  <2>2. Append(issued[b], id) \in Seq(Nat)
    BY <1>1, <1>2
  <2>3. issued' \in [Binary -> Seq(Nat)]
    BY <1>1, <2>1, <2>2 DEF Typed
  <2> QED BY <1>1, <2>3 DEF Typed, Issue
<1>6. lastMs'[b] = ms /\ seq'[b] = s /\ spinning'[b] = FALSE /\ starts'[b] = starts[b]
  BY <1>1 DEF Typed, Issue
<1>0. n \in Nat /\ \A k \in 1 .. n : issued[b][k] \in Nat
  BY <1>1, ElementTyped
<1>7. \A i \in starts[b] : i \in Nat /\ i <= n
  BY <1>1 DEF Typed, Remembers
<1>n. n \in Nat
  BY <1>1
<1>8. Remembers(b)'
  <2>1. (n + 1) \notin starts'[b] /\ \A i \in starts'[b] : i <= n + 1
    BY <1>1, <1>6, <1>7, SMTT(30)
  <2>2. Pack(b, lastMs[b], IF spinning[b] THEN SeqSpan - 1 ELSE seq[b])' = id
    BY <1>6 DEF id, Pack, machineID
  <2> QED BY <1>1, <1>4, <2>1, <2>2, SMTT(30) DEF Remembers
<1>9. Marked(b)'
  <2> SUFFICES ASSUME NEW i \in 1 .. n + 1
               PROVE  \E m \in Nat, t \in 0 .. SeqSpan - 1 : issued'[b][i] = Pack(b, m, t)
    BY <1>4 DEF Marked, Pack, machineID
  <2>1. CASE i = n + 1
    BY <2>1, <1>4 DEF id
  <2>2. CASE i # n + 1
    <3>1. i \in 1 .. n
      BY <2>2, <1>1, SMTT(30)
    <3> QED BY <3>1, <1>1, <1>4 DEF Marked
  <2> QED BY <2>1, <2>2
<1>10. Growing(b)'
  <2> SUFFICES ASSUME NEW i \in 1 .. n, i \notin starts[b]
               PROVE  issued'[b][i] < issued'[b][i + 1]
    BY <1>1, <1>4, <1>6, SMTT(30) DEF Growing
  <2>1. CASE i = n
    <3>1. n > 0 /\ n \in 1 .. n
      BY <2>1, <1>0
    <3>2. issued[b][n] < id
      BY <2>1, <3>1 DEF id
    <3> QED BY <2>1, <3>1, <3>2, <1>4
  <2>2. CASE i # n
    <3>1. i \in 1 .. n - 1 /\ i + 1 \in 1 .. n
      <4> HIDE DEF n
      <4> QED BY <2>2, <1>n, SMTT(30)
    <3>2. issued[b][i] < issued[b][i + 1]
      BY <3>1, <1>1 DEF Growing
    <3> QED BY <3>1, <3>2, <1>4
  <2> QED BY <2>1, <2>2
<1>11. Rising(b)'
  <2> SUFFICES ASSUME ~Regressed(b)',
                      NEW i \in 1 .. n + 1, NEW j \in 1 .. n + 1, i < j
               PROVE  issued'[b][i] < issued'[b][j]
    BY <1>4 DEF Rising
  <2>1. \A k \in starts[b] \ {0, n + 1} : ~(issued'[b][k + 1] <= issued'[b][k])
    BY <1>4, <1>6 DEF Regressed
  <2>2. ~Regressed(b)
    <3> SUFFICES ASSUME NEW k \in starts[b] \ {0, n}
                 PROVE  ~(issued[b][k + 1] <= issued[b][k])
      BY DEF Regressed
    <3>1. k \in 1 .. n /\ k + 1 \in 1 .. n
      <4> HIDE DEF n
      <4>1. k \in Nat /\ k <= n /\ k # 0 /\ k # n
        BY <1>7
      <4> QED BY <4>1, <1>n
    <3>2. k \in starts[b] \ {0, n + 1}
      BY <1>1, <1>7, SMTT(30)
    <3> QED BY <3>1, <3>2, <2>1, <1>4
  <2>3. \A k, l \in 1 .. n : k < l => issued[b][k] < issued[b][l]
    BY <1>1, <2>2 DEF Rising
  <2> HIDE DEF n
  <2>5. CASE j # n + 1
    <3>1. i \in 1 .. n /\ j \in 1 .. n
      BY <2>5, <1>0
    <3> QED BY <3>1, <2>3, <1>4
  <2>6. CASE j = n + 1
    <3>1. n > 0 /\ i \in 1 .. n /\ n \in 1 .. n
      BY <2>6, <1>0, SMTT(30)
    <3>2. issued[b][n] < id
      <4>1. CASE n \notin starts[b]
        BY <4>1, <3>1 DEF id, n
      <4>2. CASE n \in starts[b]
        <5>1. n \in starts[b] \ {0, n + 1}
          BY <4>2, <3>1, SMTT(30)
        <5>2. ~(id <= issued[b][n])
          BY <5>1, <3>1, <2>1, <1>4
        <5> QED BY <5>2, <3>1, <1>0, <1>2, SMTT(30)
      <4> QED BY <4>1, <4>2
    <3>3. i = n \/ issued[b][i] < issued[b][n]
      <4>1. CASE i < n
        BY <4>1, <3>1, <2>3
      <4> QED BY <4>1, <3>1, <1>0
    <3>4. issued[b][i] \in Nat /\ issued[b][n] \in Nat
      BY <3>1, <1>0
    <3>5. issued[b][i] < id
      BY <3>2, <3>3, <3>4, <1>2, SMTT(30)
    <3> QED BY <3>1, <3>5, <2>6, <1>4
  <2> QED BY <2>5, <2>6
<1>12. ASSUME NEW c \in Binary, c # b
       PROVE  (Remembers(c) /\ Marked(c) /\ Growing(c) /\ Rising(c))'
  <2>1. /\ issued'[c] = issued[c] /\ starts'[c] = starts[c]
        /\ lastMs'[c] = lastMs[c] /\ seq'[c] = seq[c] /\ spinning'[c] = spinning[c]
    BY <1>1, <1>12 DEF Typed, Issue
  <2> QED BY <2>1, Untouched DEF SnowflakeInv
<1> QED BY <1>5, <1>8, <1>9, <1>10, <1>11, <1>12 DEF SnowflakeInv


(* next keeps the invariant: a later millisecond, or the next sequence     *)
(* number of the same one, or the wait after the last one.                 *)
LEMMA NextKeeps ==
  ASSUME SnowflakeInv, NEW b \in Binary, next(b)
  PROVE  SnowflakeInv'
<1> DEFINE n   == Len(issued[b])
           now == IF clock[b] < lastMs[b] THEN lastMs[b] ELSE clock[b]
           s   == (seq[b] + 1) % SeqSpan
<1>1. Typed /\ Remembers(b)
  BY DEF SnowflakeInv
<1>2. /\ now \in Nat \ {0} /\ now >= lastMs[b]
      /\ lastMs[b] \in Nat /\ seq[b] \in 0 .. SeqSpan - 1
      /\ spinning[b] = FALSE
  BY <1>1, SMTT(30) DEF Typed, next
<1>3. s \in 0 .. SeqSpan - 1 /\ (s = 0 => seq[b] = SeqSpan - 1) /\ (s # 0 => s = seq[b] + 1)
  <2>1. CASE seq[b] = SeqSpan - 1
    BY <1>2, <2>1
  <2>2. CASE seq[b] # SeqSpan - 1
    <3>1. seq[b] + 1 \in 0 .. SeqSpan - 1
      BY <1>2, <2>2
    <3>2. (seq[b] + 1) % SeqSpan = seq[b] + 1
      BY <3>1
    <3> QED BY <3>1, <3>2, <1>2
  <2> QED BY <2>1, <2>2
<1>4. /\ n > 0 /\ n \notin starts[b] => issued[b][n] = Pack(b, lastMs[b], seq[b])
      /\ n = 0 \/ n \in starts[b] => lastMs[b] = 0
  BY <1>1, <1>2 DEF Remembers
<1>5. UNCHANGED <<clock, starts, faults>>
  BY DEF next
<1>6. ASSUME UNCHANGED spinning PROVE spinning' = [spinning EXCEPT ![b] = FALSE]
  BY <1>6, <1>1, <1>2 DEF Typed
<1>7. CASE now > lastMs[b] /\ Issue(b, now, 0) /\ UNCHANGED spinning
  <2>1. Pack(b, lastMs[b], seq[b]) < Pack(b, now, 0)
    BY <1>2, <1>7, LaterIsLarger
  <2>2. n > 0 /\ n \notin starts[b] => issued[b][n] < Pack(b, now, 0)
    BY <1>4, <2>1
  <2>3. 0 \in 0 .. SeqSpan - 1
    OBVIOUS
  <2> HIDE DEF now
  <2> QED BY <1>2, <1>5, <1>6, <1>7, <2>2, <2>3, IssueKeeps
<1>8. CASE now = lastMs[b] /\ s # 0 /\ Issue(b, now, s) /\ UNCHANGED spinning
  <2>1. Pack(b, lastMs[b], seq[b]) < Pack(b, now, s)
    <3> DEFINE x == (lastMs[b] * MachineSpan + machineID(b)) * SeqSpan
    <3>1. x \in Nat
      BY <1>2, PackTyped
    <3>2. Pack(b, lastMs[b], seq[b]) = x + seq[b] /\ Pack(b, now, s) = x + s
      BY <1>8 DEF Pack
    <3> HIDE DEF x, s, now
    <3> QED BY <1>2, <1>3, <1>8, <3>1, <3>2
  <2>2. n > 0 /\ n \notin starts[b] => issued[b][n] < Pack(b, now, s)
    BY <1>4, <2>1
  <2> HIDE DEF now, s
  <2> QED BY <1>2, <1>3, <1>5, <1>6, <1>8, <2>2, IssueKeeps
<1>9. CASE /\ now = lastMs[b] /\ s = 0
           /\ spinning' = [spinning EXCEPT ![b] = TRUE]
           /\ seq' = [seq EXCEPT ![b] = 0]
           /\ UNCHANGED <<lastMs, issued>>
  <2> HIDE DEF now, s
  <2>1. Typed'
    <3>1. spinning' \in [Binary -> BOOLEAN]
      BY <1>1, <1>9 DEF Typed
    <3>2. 0 \in 0 .. SeqSpan - 1
      OBVIOUS
    <3>3. seq' \in [Binary -> 0 .. SeqSpan - 1]
      BY <1>1, <1>9, <3>2 DEF Typed
    <3> QED BY <1>1, <1>5, <1>9, <3>1, <3>3 DEF Typed
  <2>2. lastMs[b] # 0 /\ n > 0 /\ n \notin starts[b]
    <3>1. lastMs[b] # 0
      BY <1>2, <1>9
    <3> QED BY <3>1, <1>1, <1>4 DEF Typed
  <2>3. spinning'[b] = TRUE /\ lastMs'[b] = lastMs[b] /\ UNCHANGED <<issued, starts>>
    BY <1>1, <1>5, <1>9 DEF Typed
  <2>4. Pack(b, lastMs[b], IF spinning[b] THEN SeqSpan - 1 ELSE seq[b])'
          = Pack(b, lastMs[b], seq[b])
    <3>1. seq[b] = SeqSpan - 1
      BY <1>3, <1>9
    <3> QED BY <3>1, <2>3 DEF Pack, machineID
  <2>5. Remembers(b)'
    BY <1>1, <1>4, <2>2, <2>3, <2>4 DEF Remembers
  <2>6. (Marked(b) /\ Growing(b) /\ Rising(b))'
    BY <2>3 DEF SnowflakeInv, Marked, Growing, Rising, Regressed, Pack, machineID
  <2>7. ASSUME NEW c \in Binary, c # b
        PROVE  (Remembers(c) /\ Marked(c) /\ Growing(c) /\ Rising(c))'
    <3>1. /\ issued'[c] = issued[c] /\ starts'[c] = starts[c]
          /\ lastMs'[c] = lastMs[c] /\ seq'[c] = seq[c] /\ spinning'[c] = spinning[c]
      BY <1>1, <1>5, <1>9, <2>7 DEF Typed
    <3> QED BY <3>1, Untouched DEF SnowflakeInv
  <2> QED BY <2>1, <2>5, <2>6, <2>7 DEF SnowflakeInv
<1> QED BY <1>7, <1>8, <1>9 DEF next

(* The end of the wait issues an id of a later millisecond. *)
LEMMA SpinKeeps ==
  ASSUME SnowflakeInv, NEW b \in Binary, spin(b)
  PROVE  SnowflakeInv'
<1> DEFINE n == Len(issued[b])
<1>1. Typed /\ Remembers(b)
  BY DEF SnowflakeInv
<1>2. /\ clock[b] \in Nat \ {0} /\ lastMs[b] \in Nat /\ clock[b] > lastMs[b]
      /\ spinning[b] = TRUE
      /\ 0 \in 0 .. SeqSpan - 1 /\ SeqSpan - 1 \in 0 .. SeqSpan - 1
  BY <1>1 DEF Typed, spin
<1>3. n > 0 /\ n \notin starts[b] => issued[b][n] = Pack(b, lastMs[b], SeqSpan - 1)
  BY <1>1, <1>2 DEF Remembers
<1>4. Pack(b, lastMs[b], SeqSpan - 1) < Pack(b, clock[b], 0)
  BY <1>2, LaterIsLarger
<1>5. n > 0 /\ n \notin starts[b] => issued[b][n] < Pack(b, clock[b], 0)
  BY <1>3, <1>4
<1> QED BY <1>2, <1>5, IssueKeeps DEF spin

(* A fresh generator has no memory, and its life begins after the ids of   *)
(* the last one.                                                           *)
LEMMA RestartKeeps ==
  ASSUME SnowflakeInv, NEW b \in Binary, NewSnowflake(b)
  PROVE  SnowflakeInv'
<1> DEFINE n == Len(issued[b])
<1>1. /\ Typed /\ n \in Nat
      /\ Remembers(b) /\ Marked(b) /\ Growing(b) /\ Rising(b)
  BY SMTT(30) DEF SnowflakeInv, Typed
<1>2. Typed'
  <2>1. lastMs' \in [Binary -> Nat] /\ seq' \in [Binary -> 0 .. SeqSpan - 1]
    BY <1>1, SMTT(30) DEF Typed, NewSnowflake
  <2>2. spinning' \in [Binary -> BOOLEAN] /\ starts' \in [Binary -> SUBSET Nat]
    BY <1>1 DEF Typed, NewSnowflake
  <2>3. faults' \in [back : Nat, restarts : Nat]
    <3>1. faults \in [back : Nat, restarts : Nat]
      BY <1>1 DEF Typed
    <3>2. faults' = [faults EXCEPT !.restarts = @ + 1]
      BY DEF NewSnowflake
    <3> QED BY <3>1, <3>2
  <2>4. UNCHANGED <<clock, issued>>
    BY DEF NewSnowflake
  <2> QED BY <1>1, <2>1, <2>2, <2>3, <2>4 DEF Typed
<1>3. /\ lastMs'[b] = 0 /\ spinning'[b] = FALSE /\ issued' = issued
      /\ starts'[b] = starts[b] \cup {n}
  BY <1>1 DEF Typed, NewSnowflake
<1> HIDE DEF n
<1>4. Remembers(b)'
  BY <1>1, <1>3 DEF Remembers, n
<1>5. Marked(b)' /\ Growing(b)'
  BY <1>1, <1>3, SMTT(30) DEF Marked, Growing, Pack, machineID
<1>6. Rising(b)'
  <2>1. starts'[b] \ {0, n} = starts[b] \ {0, n}
    BY <1>3
  <2>2. Regressed(b)' <=> Regressed(b)
    BY <1>3, <2>1 DEF Regressed, n
  <2> QED BY <1>1, <1>3, <2>2 DEF Rising
<1>7. ASSUME NEW c \in Binary, c # b
      PROVE  (Remembers(c) /\ Marked(c) /\ Growing(c) /\ Rising(c))'
  <2>1. /\ issued'[c] = issued[c] /\ starts'[c] = starts[c]
        /\ lastMs'[c] = lastMs[c] /\ seq'[c] = seq[c] /\ spinning'[c] = spinning[c]
    BY <1>1, <1>7 DEF Typed, NewSnowflake
  <2> QED BY <2>1, Untouched DEF SnowflakeInv
<1> QED BY <1>2, <1>4, <1>5, <1>6, <1>7 DEF SnowflakeInv

(* The clock may move either way: no part of the invariant but its type    *)
(* speaks of it.                                                           *)
LEMMA ClockKeeps ==
  ASSUME SnowflakeInv, NEW b \in Binary, Advance(b) \/ StepBack(b)
  PROVE  SnowflakeInv'
<1>1. Typed
  BY DEF SnowflakeInv
<1>2. UNCHANGED <<lastMs, seq, spinning, issued, starts>>
  BY DEF Advance, StepBack
<1>3. Typed'
  <2>1. CASE Advance(b)
    BY <1>1, <2>1, SMTT(30) DEF Typed, Advance
  <2>2. CASE StepBack(b)
    <3>1. PICK t \in 1 .. clock[b] - 1 : clock' = [clock EXCEPT ![b] = t]
      BY <2>2 DEF StepBack
    <3>2. t \in Nat \ {0}
      BY <3>1, <1>1 DEF Typed
    <3>3. clock' \in [Binary -> Nat \ {0}]
      BY <3>1, <3>2, <1>1 DEF Typed
    <3>4. faults' \in [back : Nat, restarts : Nat]
      <4>1. faults \in [back : Nat, restarts : Nat]
        BY <1>1 DEF Typed
      <4>2. faults' = [faults EXCEPT !.back = @ + 1]
        BY <2>2 DEF StepBack
      <4> QED BY <4>1, <4>2
    <3> QED BY <1>1, <1>2, <3>3, <3>4 DEF Typed
  <2> QED BY <2>1, <2>2
<1>4. ASSUME NEW c \in Binary
      PROVE  (Remembers(c) /\ Marked(c) /\ Growing(c) /\ Rising(c))'
  BY <1>2, Untouched DEF SnowflakeInv
<1> QED BY <1>3, <1>4 DEF SnowflakeInv


-----------------------------------------------------------------------------
(* The theorems.                                                           *)

(* What a generator remembers bounds what it has issued, in every state    *)
(* the specification reaches.                                              *)
THEOREM SnowflakeInvariant == Spec => []SnowflakeInv
<1>1. Init => SnowflakeInv
  <2> SUFFICES ASSUME Init PROVE SnowflakeInv
    OBVIOUS
  <2>1. Typed
    <3>1. <<>> \in Seq(Nat) /\ 0 \in 0 .. SeqSpan - 1
      OBVIOUS
    <3> QED BY <3>1 DEF Init, Typed
  <2>2. ASSUME NEW b \in Binary
        PROVE  Remembers(b) /\ Marked(b) /\ Growing(b) /\ Rising(b)
    <3>1. /\ issued[b] = <<>> /\ Len(issued[b]) = 0 /\ starts[b] = {}
          /\ lastMs[b] = 0 /\ spinning[b] = FALSE
      BY DEF Init
    <3> QED BY <3>1 DEF Remembers, Marked, Growing, Rising
  <2> QED BY <2>1, <2>2 DEF SnowflakeInv
<1>2. SnowflakeInv /\ [Next]_vars => SnowflakeInv'
  <2> SUFFICES ASSUME SnowflakeInv, [Next]_vars PROVE SnowflakeInv'
    OBVIOUS
  <2>1. CASE Next
    BY <2>1, ClockKeeps, NextKeeps, SpinKeeps, RestartKeeps DEF Next
  <2>2. CASE UNCHANGED vars
    <3>1. Typed'
      BY <2>2 DEF SnowflakeInv, Typed, vars
    <3>2. ASSUME NEW c \in Binary
          PROVE  (Remembers(c) /\ Marked(c) /\ Growing(c) /\ Rising(c))'
      BY <2>2, Untouched DEF SnowflakeInv, vars
    <3> QED BY <3>1, <3>2 DEF SnowflakeInv
  <2> QED BY <2>1, <2>2
<1> QED BY <1>1, <1>2, PTL DEF Spec

(* Snowflake.next returns growing ids within one life of the binary,       *)
(* however its clock is stepped back and however many ids a millisecond    *)
(* needs.                                                                  *)
THEOREM IdsGrowInALife == Spec => []IdsGrow
<1>1. SnowflakeInv => IdsGrow
  BY DEF SnowflakeInv, Growing, IdsGrow
<1> QED BY <1>1, SnowflakeInvariant, PTL

(* Two equal ids come from binaries with the same machine id after the     *)
(* mask, or from one whose restart found its clock not past the last id;   *)
(* from nothing else.                                                      *)
THEOREM IdsAreUnique == Spec => []RepeatsHaveACause
<1>1. SnowflakeInv => RepeatsHaveACause
  <2> SUFFICES ASSUME SnowflakeInv PROVE RepeatsHaveACause
    OBVIOUS
  <2>1. Typed
    BY DEF SnowflakeInv
  <2>2. ASSUME NEW b \in Binary, ~Regressed(b)
        PROVE  IsInjective(issued[b])
    <3>1. /\ issued[b] \in Seq(Nat) /\ Len(issued[b]) \in Nat
          /\ DOMAIN issued[b] = 1 .. Len(issued[b])
      BY <2>1 DEF Typed
    <3>2. \A i, j \in 1 .. Len(issued[b]) : i < j => issued[b][i] < issued[b][j]
      BY <2>2 DEF SnowflakeInv, Rising
    <3>3. ASSUME NEW i \in 1 .. Len(issued[b]), NEW j \in 1 .. Len(issued[b]), i < j
          PROVE  issued[b][i] # issued[b][j]
      BY <3>1, <3>2, <3>3, ElementTyped, SMTT(30)
    <3>4. ASSUME NEW i \in DOMAIN issued[b], NEW j \in DOMAIN issued[b],
                 issued[b][i] = issued[b][j]
          PROVE  i = j
      <4>1. i \in Nat /\ j \in Nat
        BY <3>1, SMTT(30)
      <4> QED BY <4>1, <3>1, <3>3, <3>4
    <3> QED BY <3>4 DEF IsInjective
  <2>3. ASSUME NEW b \in Binary, NEW c \in Binary, machineID(b) # machineID(c)
        PROVE  Ids(b) \cap Ids(c) = {}
    <3> SUFFICES ASSUME NEW id \in Ids(b), id \in Ids(c) PROVE FALSE
      OBVIOUS
    <3>0. /\ DOMAIN issued[b] = 1 .. Len(issued[b])
          /\ DOMAIN issued[c] = 1 .. Len(issued[c])
      BY <2>1 DEF Typed
    <3>1. PICK i \in 1 .. Len(issued[b]) : id = issued[b][i]
      BY <3>0 DEF Ids, ToSet
    <3>2. PICK j \in 1 .. Len(issued[c]) : id = issued[c][j]
      BY <3>0 DEF Ids, ToSet
    <3>3. PICK m \in Nat, s \in 0 .. SeqSpan - 1 : id = Pack(b, m, s)
      BY <3>1 DEF SnowflakeInv, Marked
    <3>4. PICK n \in Nat, t \in 0 .. SeqSpan - 1 : id = Pack(c, n, t)
      BY <3>2 DEF SnowflakeInv, Marked
    <3> QED BY <2>3, <3>3, <3>4, MachinesAreApart
  <2> QED BY <2>2, <2>3 DEF RepeatsHaveACause
<1> QED BY <1>1, SnowflakeInvariant, PTL
=============================================================================
