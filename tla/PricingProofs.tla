--------------------------- MODULE PricingProofs ----------------------------
(***************************************************************************)
(* Proofs about Pricing, for every width of the integers, every bound on   *)
(* the inputs and orders of any number of lines.                           *)
(***************************************************************************)
EXTENDS Pricing, TLAPS, WellFoundedInduction, NaturalsInduction

-----------------------------------------------------------------------------
(* Induction over 0 .. m, and functions defined by recursion on it.  Both  *)
(* are stated of sets and functions, so that a use names the set of the    *)
(* numbers at which a claim holds.                                         *)

(* A set with 0 and with the successor of each of its members below m      *)
(* holds all of 0 .. m.                                                    *)
LEMMA Upwards ==
  ASSUME NEW m \in Nat, NEW T, 0 \in T, \A n \in 0 .. m : n \in T /\ n < m => n + 1 \in T
  PROVE  \A n \in 0 .. m : n \in T
  <1> DEFINE R   == OpToRel(<, Nat)
             Bad == {n \in 0 .. m : n \notin T}
  <1>1. \A x, y \in Nat : y < x => <<y, x>> \in R
    BY DEF OpToRel
  <1>2. IsWellFoundedOn(R, Nat)
    BY NatLessThanWellFounded
  <1> HIDE DEF R
  <1>3. SUFFICES ASSUME Bad # {} PROVE FALSE
    OBVIOUS
  <1>4. Bad \subseteq Nat
    OBVIOUS
  <1>5. \E x \in Bad : \A y \in Bad : <<y, x>> \notin R
    BY <1>2, <1>3, <1>4, WFMin
  <1>6. PICK x \in Bad : \A y \in Bad : <<y, x>> \notin R
    BY <1>5
  <1>7. x \in 0 .. m /\ x \notin T /\ x # 0
    BY <1>6
  <1>8. x - 1 \in 0 .. m /\ x - 1 < m /\ (x - 1) + 1 = x /\ x - 1 \in Nat /\ x \in Nat /\ x - 1 < x
    BY <1>7
  <1>9. x - 1 \notin Bad
    BY <1>1, <1>6, <1>8
  <1>10. x - 1 \in T
    BY <1>8, <1>9
  <1> QED
    BY <1>7, <1>8, <1>10

Iterates(g, m, S, c, F) ==
  g \in [0 .. m -> S] /\ g[0] = c /\ \A n \in 1 .. m : g[n] = F[n][g[n - 1]]

(* There is a function that starts at c and takes the step F[n] at each n. *)
LEMMA Recursion ==
  ASSUME NEW m \in Nat, NEW S, NEW c \in S, NEW F \in [1 .. m -> [S -> S]]
  PROVE  \E g : Iterates(g, m, S, c, F)
  <1> DEFINE Is(g, k) == g[0] = c /\ \A n \in 1 .. k : g[n] = F[n][g[n - 1]]
             T == {k \in 0 .. m : \E g \in [0 .. k -> S] : Is(g, k)}
  <1>1. 0 \in T
    <2> DEFINE f == [i \in 0 .. 0 |-> c]
    <2>1. f \in [0 .. 0 -> S] /\ f[0] = c /\ 0 \in 0 .. m
      OBVIOUS
    <2> HIDE DEF f
    <2>2. Is(f, 0)
      BY <2>1
    <2> QED
      BY <2>1, <2>2
  <1>2. ASSUME NEW k \in 0 .. m, k \in T, k < m PROVE k + 1 \in T
    <2>1. PICK g \in [0 .. k -> S] : Is(g, k)
      BY <1>2
    <2>2. k \in Nat /\ k + 1 \in 1 .. m /\ k + 1 \in 0 .. m /\ k \in 0 .. k
      BY <1>2
    <2>3. g[k] \in S
      BY <2>2
    <2>4. F[k + 1][g[k]] \in S
      BY <2>2, <2>3
    <2> DEFINE h == [i \in 0 .. k + 1 |-> IF i = k + 1 THEN F[k + 1][g[k]] ELSE g[i]]
    <2>5. /\ h \in [0 .. k + 1 -> S] /\ h[k + 1] = F[k + 1][g[k]]
          /\ \A i \in 0 .. k : h[i] = g[i]
      <3>1. ASSUME NEW i \in 0 .. k + 1 PROVE (IF i = k + 1 THEN F[k + 1][g[k]] ELSE g[i]) \in S
        <4>1. i = k + 1 \/ i \in 0 .. k
          BY <2>2
        <4> QED
          BY <2>1, <2>4, <4>1
      <3>2. h \in [0 .. k + 1 -> S]
        BY <3>1
      <3>3. k + 1 \in 0 .. k + 1 /\ \A i \in 0 .. k : i \in 0 .. k + 1 /\ i # k + 1
        BY <2>2
      <3> QED
        BY <3>2, <3>3
    <2> HIDE DEF h
    <2>6. h[0] = c
      BY <2>1, <2>2, <2>5
    <2>7. ASSUME NEW n \in 1 .. k + 1 PROVE h[n] = F[n][h[n - 1]]
      <3>1. CASE n = k + 1
        <4>1. n - 1 = k /\ h[k] = g[k]
          BY <2>2, <2>5, <3>1
        <4> QED
          BY <2>5, <3>1, <4>1
      <3>2. CASE n # k + 1
        <4>1. n \in 1 .. k /\ n \in 0 .. k /\ n - 1 \in 0 .. k
          BY <2>2, <3>2
        <4>2. h[n] = g[n] /\ h[n - 1] = g[n - 1] /\ g[n] = F[n][g[n - 1]]
          BY <2>1, <2>5, <4>1
        <4> QED
          BY <4>2
      <3> QED
        BY <3>1, <3>2
    <2>8. \E f \in [0 .. k + 1 -> S] : Is(f, k + 1)
      BY <2>5, <2>6, <2>7
    <2> QED
      BY <2>2, <2>8
  <1> HIDE DEF T
  <1>3. m \in T
    BY <1>1, <1>2, Upwards, m \in 0 .. m
  <1> QED
    BY <1>3 DEF T, Iterates

-----------------------------------------------------------------------------
(* Two's complement.                                                       *)

USE IntAssumption

(* Integer division with a remainder. *)
LEMMA Division ==
  ASSUME NEW a \in Int, NEW b \in Nat, b > 0
  PROVE  \E k \in Int : \E r \in 0 .. b - 1 : a = b * k + r /\ r = a % b
  OBVIOUS

(* The remainder is the only one. *)
LEMMA Remainder ==
  ASSUME NEW a \in Int, NEW b \in Nat, b > 0, NEW k \in Int, NEW r \in 0 .. b - 1, a = b * k + r
  PROVE  a % b = r
  OBVIOUS

(* The number of integers of the width. *)
LEMMA SpanIs ==
  Span \in Nat /\ Span > 0 /\ Span = MaxInt + MaxInt + 2
  BY DEF Span

(* Wrap adds a multiple of the span, and it is the only number of its      *)
(* class that fits.                                                        *)
LEMMA WrapIs ==
  ASSUME NEW x \in Int
  PROVE  /\ Wrap(x) \in Int /\ Fits(Wrap(x))
         /\ \E k \in Int : Wrap(x) = x + Span * k
  <1>1. x + MaxInt + 1 \in Int
    OBVIOUS
  <1>2. PICK k \in Int, r \in 0 .. Span - 1 : x + MaxInt + 1 = Span * k + r /\ r = (x + MaxInt + 1) % Span
    BY <1>1, SpanIs, Division
  <1>3. Wrap(x) = r - MaxInt - 1
    BY <1>2 DEF Wrap
  <1> DEFINE p == Span * k
  <1>4. p \in Int /\ Span * (-k) = -p
    BY SpanIs
  <1>5. x + MaxInt + 1 = p + r
    BY <1>2
  <1> HIDE DEF p
  <1>6. Wrap(x) \in Int /\ Fits(Wrap(x)) /\ Wrap(x) = x + (-p)
    BY <1>3, <1>4, <1>5, SpanIs DEF Fits
  <1> QED
    BY <1>4, <1>6

(* A number that fits is what any other of its class wraps to. *)
LEMMA WrapUnique ==
  ASSUME NEW x \in Int, NEW y \in Int, Fits(y), NEW k \in Int, y = x + Span * k
  PROVE  Wrap(x) = y
  <1> DEFINE p == Span * (-k)
  <1>1. p \in Int /\ x = y + p
    BY SpanIs
  <1>2. x + MaxInt + 1 = p + (y + MaxInt + 1) /\ y + MaxInt + 1 \in 0 .. Span - 1 /\ x + MaxInt + 1 \in Int
    BY <1>1, SpanIs DEF Fits
  <1>3. (x + MaxInt + 1) % Span = y + MaxInt + 1
    <2>1. -k \in Int /\ x + MaxInt + 1 = Span * (-k) + (y + MaxInt + 1)
      BY <1>2
    <2> QED
      BY <1>2, <2>1, SpanIs, Remainder, ZenonT(40)
  <1> QED
    BY <1>3 DEF Wrap

(* A number that fits stays as it is. *)
LEMMA WrapFits ==
  ASSUME NEW x \in Int, Fits(x)
  PROVE  Wrap(x) = x
  <1>1. 0 \in Int /\ x = x + Span * 0
    BY SpanIs
  <1> QED
    BY <1>1, WrapUnique

(* Numbers that differ by a multiple of the span wrap to the same one. *)
LEMMA WrapSame ==
  ASSUME NEW x \in Int, NEW y \in Int, NEW k \in Int, y = x + Span * k
  PROVE  Wrap(x) = Wrap(y)
  <1>1. Wrap(y) \in Int /\ Fits(Wrap(y))
    BY WrapIs
  <1>2. PICK j \in Int : Wrap(y) = y + Span * j
    BY WrapIs
  <1>3. k + j \in Int /\ Wrap(y) = x + Span * (k + j)
    <2>1. Span * (k + j) = Span * k + Span * j /\ Span * k \in Int /\ Span * j \in Int
      BY <1>2, SpanIs
    <2> DEFINE p == Span * k
               q == Span * j
    <2>2. p \in Int /\ q \in Int /\ y = x + p /\ Wrap(y) = y + q /\ Span * (k + j) = p + q
      BY <1>2, <2>1
    <2> HIDE DEF p, q
    <2> QED
      BY <1>1, <1>2, <2>2
  <1> QED
    BY <1>1, <1>3, WrapUnique

(* The overflow test of Add, for the operands SumOriginal gives it. *)
LEMMA AddIs ==
  ASSUME NEW a \in 0 .. MaxInt, NEW b \in 0 .. MaxInt
  PROVE  Add(a, b) = IF a + b <= MaxInt THEN Ok(a + b) ELSE Overflow
  <1>1. CASE a + b <= MaxInt
    <2>1. a + b \in Int /\ Fits(a + b)
      BY <1>1 DEF Fits
    <2>2. Wrap(a + b) = a + b
      BY <2>1, WrapFits
    <2> QED
      BY <1>1, <2>2 DEF Add
  <1>2. CASE a + b > MaxInt
    <2> DEFINE y == a + b - Span
    <2>1. a + b \in Int /\ y \in Int /\ Fits(y) /\ y = a + b + Span * (-1)
      BY <1>2, SpanIs DEF Fits
    <2>2. Wrap(a + b) = y
      BY <2>1, WrapUnique
    <2>3. b > 0 /\ y < a
      BY <1>2, SpanIs
    <2> HIDE DEF y
    <2> QED
      BY <1>2, <2>2, <2>3 DEF Add
  <1> QED
    BY <1>1, <1>2

(* What Mul divides by: the quotient of numbers that are not negative. *)
LEMMA Quotient ==
  ASSUME NEW r \in Nat, NEW a \in Nat, a > 0
  PROVE  /\ r \div a \in Nat /\ r \div a <= r
         /\ a * (r \div a) \in Nat /\ a * (r \div a) <= r /\ r < a * (r \div a) + a
  <1>1. PICK q : q = r \div a
    OBVIOUS
  <1>2. q \in Int
    BY <1>1
  <1>3. a * q <= r
    BY <1>1, Z3T(30)
  <1>4. r < a * q + a
    BY <1>1, Z3T(30)
  <1>5. q >= 0
    BY <1>1, Z3T(30)
  <1>6. q <= r
    BY <1>1, <1>2, <1>3, <1>5, Z3T(30)
  <1> QED
    BY <1>1, <1>2, <1>3, <1>4, <1>5, <1>6

(* The overflow test of Mul, for a price and a quantity. *)
LEMMA MulIs ==
  ASSUME NEW a \in 0 .. MaxInt, NEW b \in 1 .. MaxInt
  PROVE  Mul(a, b) = IF a * b <= MaxInt THEN Ok(a * b) ELSE Overflow
  <1>0. a * b \in Nat
    OBVIOUS
  <1>1. CASE a = 0
    <2>1. 0 * b = 0 /\ 0 <= MaxInt
      OBVIOUS
    <2> QED
      BY <1>1, <2>1 DEF Mul
  <1>2. CASE a > 0 /\ a * b <= MaxInt
    <2>1. Fits(a * b) /\ a * b \in Int
      BY <1>0, <1>2 DEF Fits
    <2>2. Wrap(a * b) = a * b
      BY <2>1, WrapFits
    <2>3. (a * b) \div a = b
      BY <1>2
    <2>4. Quo(a * b, a) = b
      BY <1>0, <1>2, <2>3 DEF Quo
    <2>5. Wrap(b) = b
      BY WrapFits DEF Fits
    <2> QED
      BY <1>2, <2>2, <2>4, <2>5 DEF Mul
  <1>3. CASE a > 0 /\ a * b > MaxInt
    <2> DEFINE r == Wrap(a * b)
    <2>1. r \in Int /\ Fits(r)
      BY <1>0, WrapIs
    <2> HIDE DEF r
    <2>2. CASE r >= 0
      <3>1. r \in Nat /\ r <= MaxInt /\ a \in Nat
        BY <2>1, <2>2 DEF Fits
      <3>2. Quo(r, a) = r \div a
        BY <1>3, <2>2 DEF Quo
      <3> DEFINE q == r \div a
      <3>3. q \in Nat /\ q <= r /\ a * q <= r
        BY <1>3, <3>1, Quotient
      <3> HIDE DEF q
      <3>4. q # b
        BY <1>0, <1>3, <3>1, <3>3
      <3>5. Wrap(q) = q
        BY <3>1, <3>3, WrapFits DEF Fits
      <3>6. Wrap(Quo(r, a)) # b
        BY <3>2, <3>4, <3>5 DEF q
      <3> QED
        BY <1>3, <3>6 DEF Mul, r
    <2>3. CASE r < 0
      <3>1. -r \in Nat /\ -r <= MaxInt + 1 /\ a \in Nat
        BY <2>1, <2>3 DEF Fits
      <3>2. Quo(r, a) = -((-r) \div a)
        BY <1>3, <2>1, <2>3 DEF Quo
      <3> DEFINE q == (-r) \div a
      <3>3. q \in Nat /\ q <= -r
        BY <1>3, <3>1, Quotient
      <3> HIDE DEF q
      <3>4. -q \in Int /\ Fits(-q) /\ -q # b
        BY <3>1, <3>3 DEF Fits
      <3>5. Wrap(-q) = -q
        BY <3>4, WrapFits
      <3>6. Wrap(Quo(r, a)) # b
        BY <3>2, <3>4, <3>5 DEF q
      <3> QED
        BY <1>3, <3>6 DEF Mul, r
    <2> QED
      BY <2>1, <2>2, <2>3
  <1> QED
    BY <1>0, <1>1, <1>2, <1>3

-----------------------------------------------------------------------------
(* Sums.                                                                   *)

(* A function on 1 .. m is a sequence of length m. *)
LEMMA LenIs ==
  ASSUME NEW m \in Nat, NEW S, NEW v \in [1 .. m -> S]
  PROVE  Len(v) = m
  OBVIOUS

(* The running sums are what their recursion says. *)
LEMMA TotalsAre ==
  ASSUME NEW m \in Nat, NEW v \in [1 .. m -> Int]
  PROVE  /\ Totals(v) \in [0 .. m -> Int] /\ Totals(v)[0] = 0 /\ Total(v) = Totals(v)[m]
         /\ \A n \in 1 .. m : Totals(v)[n] = Totals(v)[n - 1] + v[n]
  <1>1. Len(v) = m
    BY LenIs
  <1> DEFINE F == [n \in 1 .. m |-> [x \in Int |-> x + v[n]]]
             D(g) == [n \in 0 .. m |-> IF n = 0 THEN 0 ELSE g[n - 1] + v[n]]
  <1>2. F \in [1 .. m -> [Int -> Int]]
    OBVIOUS
  <1>3. PICK g \in [0 .. m -> Int] : g[0] = 0 /\ \A n \in 1 .. m : g[n] = F[n][g[n - 1]]
    <2> HIDE DEF F
    <2> DEFINE S == Int
               c == 0
    <2>1. c \in S /\ F \in [1 .. m -> [S -> S]]
      BY <1>2
    <2> HIDE DEF S, c
    <2>2. \E g : Iterates(g, m, S, c, F)
      BY <2>1, Recursion
    <2> QED
      BY <2>2 DEF Iterates, S, c
  <1>4. ASSUME NEW n \in 1 .. m PROVE g[n] = g[n - 1] + v[n]
    <2>1. n - 1 \in 0 .. m
      OBVIOUS
    <2>2. g[n - 1] \in Int
      BY <1>3, <2>1
    <2> QED
      BY <1>3, <2>2
  <1>5. g = D(g)
    <2>1. ASSUME NEW n \in 0 .. m PROVE g[n] = D(g)[n]
      <3>1. n = 0 \/ n \in 1 .. m
        OBVIOUS
      <3> QED
        BY <1>3, <1>4, <3>1
    <2> QED
      BY <1>3, <2>1
  <1>6. Totals(v) = CHOOSE s : s = D(s)
    BY <1>1 DEF Totals
  <1>7. Totals(v) = D(Totals(v))
    <2> HIDE DEF D
    <2> QED
      BY <1>5, <1>6
  <1> DEFINE s == Totals(v)
  <1> HIDE DEF s
  <1>8. s[0] = 0 /\ \A n \in 1 .. m : s[n] = s[n - 1] + v[n]
    <2>1. s = D(s)
      BY <1>7 DEF s
    <2>2. ASSUME NEW n \in 0 .. m PROVE s[n] = IF n = 0 THEN 0 ELSE s[n - 1] + v[n]
      BY <2>1
    <2>3. 0 \in 0 .. m /\ \A n \in 1 .. m : n \in 0 .. m /\ n # 0
      OBVIOUS
    <2>4. s[0] = 0
      BY <2>2, <2>3
    <2>5. ASSUME NEW n \in 1 .. m PROVE s[n] = s[n - 1] + v[n]
      BY <2>2, <2>3
    <2> QED
      BY <2>4, <2>5
  <1> DEFINE T == {n \in 0 .. m : s[n] \in Int}
  <1>9. \A n \in 0 .. m : n \in T
    <2>1. 0 \in T
      BY <1>8
    <2>2. ASSUME NEW n \in 0 .. m, n \in T, n < m PROVE n + 1 \in T
      <3>1. n + 1 \in 1 .. m /\ (n + 1) - 1 = n /\ s[n] \in Int /\ n + 1 \in 0 .. m
        BY <2>2
      <3>2. s[n + 1] = s[n] + v[n + 1]
        BY <1>8, <3>1
      <3> QED
        BY <3>1, <3>2
    <2> HIDE DEF T
    <2> QED
      BY <2>1, <2>2, Upwards
  <1>10. s \in [0 .. m -> Int]
    BY <1>7, <1>9 DEF s
  <1> QED
    BY <1>1, <1>8, <1>10 DEF s, Total

(* A sum of integers is an integer. *)
LEMMA TotalTyped ==
  ASSUME NEW m \in Nat, NEW v \in [1 .. m -> Int]
  PROVE  Total(v) \in Int
  <1>1. Totals(v) \in [0 .. m -> Int] /\ Total(v) = Totals(v)[m] /\ m \in 0 .. m
    BY TotalsAre
  <1> QED
    BY <1>1

(* Wrapping once at the end is as good as wrapping after each addition. *)
LEMMA WrapOnce ==
  ASSUME NEW x \in Int, NEW y \in Int
  PROVE  Wrap(Wrap(x) + y) = Wrap(x + y)
  <1>1. Wrap(x) \in Int
    BY WrapIs
  <1>2. PICK k \in Int : Wrap(x) = x + Span * k
    BY WrapIs
  <1>3. x + y \in Int /\ Wrap(x) + y \in Int /\ Wrap(x) + y = (x + y) + Span * k
    <2> DEFINE p == Span * k
    <2>1. p \in Int /\ Wrap(x) = x + p
      BY <1>2, SpanIs
    <2> HIDE DEF p
    <2>2. Wrap(x) + y = (x + y) + p
      BY <2>1
    <2> QED
      BY <1>1, <2>2 DEF p
  <1> QED
    BY <1>2, <1>3, WrapSame

(* Wrapping after every addition is wrapping once at the end. *)
LEMMA WrapTotalIs ==
  ASSUME NEW m \in Nat, NEW v \in [1 .. m -> Int]
  PROVE  WrapTotal(v) = Wrap(Total(v))
  <1>1. Len(v) = m
    BY LenIs
  <1> DEFINE t == Totals(v)
             g == [n \in 0 .. m |-> Wrap(t[n])]
             D(f) == [n \in 0 .. m |-> IF n = 0 THEN 0 ELSE Wrap(f[n - 1] + v[n])]
             s == WrapTotals(v)
  <1>2. /\ t \in [0 .. m -> Int] /\ t[0] = 0 /\ Total(v) = t[m]
        /\ \A n \in 1 .. m : t[n] = t[n - 1] + v[n]
    BY TotalsAre
  <1> HIDE DEF t
  <1>3. Wrap(0) = 0
    BY WrapFits DEF Fits
  <1>4. ASSUME NEW n \in 1 .. m PROVE g[n] = Wrap(g[n - 1] + v[n])
    <2>1. n \in 0 .. m /\ n - 1 \in 0 .. m /\ t[n - 1] \in Int /\ v[n] \in Int
      BY <1>2
    <2>2. Wrap(Wrap(t[n - 1]) + v[n]) = Wrap(t[n])
      BY <1>2, <2>1, WrapOnce
    <2> QED
      BY <2>1, <2>2
  <1>5. g = D(g)
    <2>1. ASSUME NEW n \in 0 .. m PROVE g[n] = IF n = 0 THEN 0 ELSE Wrap(g[n - 1] + v[n])
      <3>1. n = 0 \/ (n # 0 /\ n \in 1 .. m)
        OBVIOUS
      <3> QED
        BY <1>2, <1>3, <1>4, <3>1
    <2> QED
      BY <2>1
  <1>6. s = CHOOSE f : f = D(f)
    BY <1>1 DEF WrapTotals
  <1>7. s = D(s)
    <2> HIDE DEF D, g, s
    <2> QED
      BY <1>5, <1>6
  <1> HIDE DEF s, g
  <1>8. ASSUME NEW n \in 0 .. m PROVE s[n] = IF n = 0 THEN 0 ELSE Wrap(s[n - 1] + v[n])
    BY <1>7
  <1>9. g[0] = 0
    BY <1>2, <1>3 DEF g
  <1> HIDE DEF D
  <1> DEFINE T == {n \in 0 .. m : s[n] = g[n]}
  <1>10. \A n \in 0 .. m : n \in T
    <2>1. 0 \in T
      BY <1>8, <1>9
    <2>2. ASSUME NEW n \in 0 .. m, n \in T, n < m PROVE n + 1 \in T
      <3>1. n + 1 \in 1 .. m /\ n + 1 \in 0 .. m /\ n + 1 # 0 /\ (n + 1) - 1 = n
        BY <2>2
      <3>2. s[n + 1] = Wrap(s[n] + v[n + 1]) /\ g[n + 1] = Wrap(g[n] + v[n + 1])
        BY <1>4, <1>8, <3>1
      <3> QED
        BY <2>2, <3>1, <3>2
    <2> HIDE DEF T
    <2> QED
      BY <2>1, <2>2, Upwards
  <1> QED
    BY <1>1, <1>2, <1>10 DEF WrapTotal, s, g

-----------------------------------------------------------------------------
(* SumOriginal.                                                            *)

Worth(ls) == [i \in DOMAIN ls |-> ls[i].price * ls[i].qty]
Fine(l)   == l.price >= 0 /\ l.qty > 0

(* LineOriginal gives the exact worth of a sound line that fits, and       *)
(* refuses every other line.                                               *)
LEMMA LineOriginalIs ==
  ASSUME NEW l \in Line
  PROVE  /\ l.price * l.qty \in Int
         /\ Fine(l) => l.price * l.qty >= 0
         /\ LineOriginal(l) = IF Fine(l) /\ l.price * l.qty <= MaxInt
                              THEN Ok(l.price * l.qty) ELSE Overflow
  <1> DEFINE a == l.price
             b == l.qty
  <1>1. a \in -1 .. MaxPrice /\ b \in 0 .. MaxQuantity
    BY DEF Line
  <1>2. MaxPrice \in 0 .. MaxInt /\ MaxQuantity \in 0 .. MaxInt
    BY InputAssumption
  <1>3. LineOriginal(l) = IF a < 0 \/ b <= 0 THEN Overflow ELSE Mul(a, b)
    BY DEF LineOriginal
  <1>4. Fine(l) <=> ~(a < 0 \/ b <= 0)
    BY <1>1, <1>2 DEF Fine
  <1> HIDE DEF a, b
  <1>5. a * b \in Int
    BY <1>1, <1>2
  <1>6. CASE Fine(l)
    <2>1. a \in 0 .. MaxInt /\ b \in 1 .. MaxInt /\ a \in Nat /\ b \in Nat
      BY <1>1, <1>2, <1>4, <1>6
    <2>2. Mul(a, b) = IF a * b <= MaxInt THEN Ok(a * b) ELSE Overflow
      BY <2>1, MulIs
    <2>3. a * b >= 0
      BY <2>1
    <2> QED
      BY <1>3, <1>4, <1>5, <1>6, <2>2, <2>3 DEF a, b
  <1>7. CASE ~Fine(l)
    BY <1>3, <1>4, <1>5, <1>7 DEF a, b
  <1> QED
    BY <1>6, <1>7

(* One iteration of the loop of SumOriginal: what it has after n lines is  *)
(* the exact sum, if that fits and all lines so far are sound.             *)
After(ok, t) == IF ok /\ t <= MaxInt THEN Ok(t) ELSE Overflow

(* The iteration keeps that form. *)
LEMMA SumStep ==
  ASSUME NEW fine \in BOOLEAN, NEW t \in Int, fine => t >= 0, NEW l \in Line
  PROVE  LET s == After(fine, t)
         IN  After(fine /\ Fine(l), t + l.price * l.qty) =
               IF ~s.ok \/ ~LineOriginal(l).ok THEN Overflow
               ELSE Add(s.val, LineOriginal(l).val)
  <1> DEFINE s == After(fine, t)
             w == l.price * l.qty
             o == LineOriginal(l)
  <1>1. w \in Int /\ (Fine(l) => w >= 0) /\ o = IF Fine(l) /\ w <= MaxInt THEN Ok(w) ELSE Overflow
    BY LineOriginalIs
  <1>2. s = IF fine /\ t <= MaxInt THEN Ok(t) ELSE Overflow
    BY DEF After
  <1>3. ~Overflow.ok /\ \A x \in Int : Ok(x).ok /\ Ok(x).val = x
    BY DEF Overflow, Ok
  <1> HIDE DEF s, w, o
  <1>4. SUFFICES After(fine /\ Fine(l), t + w) =
                   IF ~s.ok \/ ~o.ok THEN Overflow ELSE Add(s.val, o.val)
    BY DEF s, w, o
  <1>5. CASE fine /\ t <= MaxInt /\ Fine(l) /\ w <= MaxInt
    <2>1. s.ok /\ o.ok /\ s.val = t /\ o.val = w
      BY <1>1, <1>2, <1>3, <1>5
    <2>2. t \in 0 .. MaxInt /\ w \in 0 .. MaxInt
      BY <1>1, <1>5
    <2>3. Add(t, w) = IF t + w <= MaxInt THEN Ok(t + w) ELSE Overflow
      BY <2>2, AddIs
    <2> QED
      BY <1>5, <2>1, <2>3 DEF After
  <1>6. CASE ~(fine /\ t <= MaxInt /\ Fine(l) /\ w <= MaxInt)
    <2>1. ~s.ok \/ ~o.ok
      BY <1>1, <1>2, <1>3, <1>6
    <2>2. ~(fine /\ Fine(l) /\ t + w <= MaxInt)
      BY <1>1, <1>6
    <2> QED
      BY <2>1, <2>2 DEF After
  <1> QED
    BY <1>5, <1>6

(* The exact worth of the lines, and its sum. *)
LEMMA WorthIs ==
  ASSUME NEW m \in Nat, NEW ls \in [1 .. m -> Line]
  PROVE  /\ Worth(ls) \in [1 .. m -> Int] /\ Exact(ls) = Total(Worth(ls))
         /\ \A i \in 1 .. m : Worth(ls)[i] = ls[i].price * ls[i].qty
  <1>1. DOMAIN ls = 1 .. m
    OBVIOUS
  <1>2. ASSUME NEW i \in 1 .. m PROVE ls[i].price * ls[i].qty \in Int
    BY LineOriginalIs
  <1>3. Worth(ls) = [i \in 1 .. m |-> ls[i].price * ls[i].qty]
    BY <1>1 DEF Worth
  <1> QED
    BY <1>2, <1>3 DEF Exact, Worth

SoundTo(ls, n) == \A i \in 1 .. n : Fine(ls[i])

(* The first n lines are sound when the first n - 1 and line n are. *)
LEMMA SoundMore ==
  ASSUME NEW m \in Nat, NEW ls \in [1 .. m -> Line], NEW n \in 1 .. m
  PROVE  SoundTo(ls, n) <=> SoundTo(ls, n - 1) /\ Fine(ls[n])
  <1>1. \A i \in 1 .. n : i \in 1 .. n - 1 \/ i = n
    OBVIOUS
  <1>2. n \in 1 .. n /\ \A i \in 1 .. n - 1 : i \in 1 .. n
    OBVIOUS
  <1> QED
    BY <1>1, <1>2 DEF SoundTo

(* Running sums of sound lines are not negative. *)
LEMMA SoundNonNegative ==
  ASSUME NEW m \in Nat, NEW ls \in [1 .. m -> Line]
  PROVE  \A n \in 0 .. m : SoundTo(ls, n) => Totals(Worth(ls))[n] >= 0
  <1> DEFINE v == Worth(ls)
             t == Totals(v)
             T == {n \in 0 .. m : SoundTo(ls, n) => t[n] >= 0}
  <1>1. v \in [1 .. m -> Int] /\ \A i \in 1 .. m : v[i] = ls[i].price * ls[i].qty
    BY WorthIs
  <1> HIDE DEF v
  <1>2. /\ t \in [0 .. m -> Int] /\ t[0] = 0
        /\ \A n \in 1 .. m : t[n] = t[n - 1] + v[n]
    BY <1>1, TotalsAre
  <1> HIDE DEF t
  <1>3. 0 \in T
    BY <1>2
  <1>4. ASSUME NEW n \in 0 .. m, n \in T, n < m PROVE n + 1 \in T
    <2>1. n + 1 \in 1 .. m /\ (n + 1) - 1 = n /\ n + 1 \in 0 .. m /\ t[n] \in Int /\ v[n + 1] \in Int
      BY <1>1, <1>2, <1>4
    <2>2. t[n + 1] = t[n] + v[n + 1]
      BY <1>2, <2>1
    <2>3. SUFFICES ASSUME SoundTo(ls, n + 1) PROVE t[n + 1] >= 0
      BY <2>1
    <2>4. SoundTo(ls, n) /\ Fine(ls[n + 1])
      BY <2>1, <2>3, SoundMore
    <2>5. v[n + 1] >= 0
      BY <1>1, <2>1, <2>4, LineOriginalIs
    <2>6. t[n] >= 0
      BY <1>4, <2>4
    <2> QED
      BY <2>1, <2>2, <2>5, <2>6
  <1>5. \A n \in 0 .. m : n \in T
    <2> HIDE DEF T
    <2> QED
      BY <1>3, <1>4, Upwards
  <1> QED
    BY <1>5 DEF t, v

(* The loop of SumOriginal, over any number of lines. *)
LEMMA SumOriginalIs ==
  ASSUME NEW m \in Nat, NEW ls \in [1 .. m -> Line]
  PROVE  SumOriginal(ls) = After(SoundTo(ls, m), Exact(ls))
  <1>1. Len(ls) = m
    BY LenIs
  <1> DEFINE v == Worth(ls)
             t == Totals(v)
             g == [n \in 0 .. m |-> After(SoundTo(ls, n), t[n])]
             step(x, l) == IF ~x.ok \/ ~LineOriginal(l).ok THEN Overflow
                           ELSE Add(x.val, LineOriginal(l).val)
             D(f) == [n \in 0 .. m |-> IF n = 0 THEN Ok(0) ELSE step(f[n - 1], ls[n])]
             s == SumLines(ls)
  <1>2. /\ v \in [1 .. m -> Int] /\ Exact(ls) = Total(v)
        /\ \A i \in 1 .. m : v[i] = ls[i].price * ls[i].qty
    BY WorthIs
  <1>3. \A n \in 0 .. m : SoundTo(ls, n) => t[n] >= 0
    BY SoundNonNegative
  <1> HIDE DEF v
  <1>4. /\ t \in [0 .. m -> Int] /\ t[0] = 0 /\ Total(v) = t[m]
        /\ \A n \in 1 .. m : t[n] = t[n - 1] + v[n]
    BY <1>2, TotalsAre
  <1> HIDE DEF t
  <1>5. s = CHOOSE f : f = D(f)
    BY <1>1 DEF SumLines
  <1> HIDE DEF step, s
  <1>6. g[0] = Ok(0)
    <2>1. SoundTo(ls, 0)
      BY DEF SoundTo
    <2> QED
      BY <1>4, <2>1 DEF After
  <1>7. ASSUME NEW n \in 1 .. m PROVE g[n] = step(g[n - 1], ls[n])
    <2>1. n \in 0 .. m /\ n - 1 \in 0 .. m /\ t[n - 1] \in Int /\ ls[n] \in Line
      BY <1>4
    <2>2. t[n] = t[n - 1] + ls[n].price * ls[n].qty
      BY <1>2, <1>4
    <2> DEFINE fine == SoundTo(ls, n - 1)
    <2>3. fine \in BOOLEAN /\ (fine => t[n - 1] >= 0)
      BY <1>3, <2>1 DEF SoundTo
    <2>4. SoundTo(ls, n) <=> fine /\ Fine(ls[n])
      BY SoundMore
    <2>5. g[n] = After(SoundTo(ls, n), t[n]) /\ g[n - 1] = After(fine, t[n - 1])
      BY <2>1
    <2> HIDE DEF fine, g
    <2>6. After(fine /\ Fine(ls[n]), t[n - 1] + ls[n].price * ls[n].qty) = step(After(fine, t[n - 1]), ls[n])
      BY <2>1, <2>3, SumStep DEF step
    <2>7. After(SoundTo(ls, n), t[n]) = After(fine /\ Fine(ls[n]), t[n])
      BY <2>4 DEF After
    <2> QED
      BY <2>2, <2>5, <2>6, <2>7
  <1>8. g = D(g)
    <2>1. ASSUME NEW n \in 0 .. m PROVE g[n] = IF n = 0 THEN Ok(0) ELSE step(g[n - 1], ls[n])
      <3>1. n = 0 \/ (n # 0 /\ n \in 1 .. m)
        OBVIOUS
      <3> HIDE DEF g
      <3> QED
        BY <1>6, <1>7, <3>1
    <2> QED
      BY <2>1
  <1> HIDE DEF g
  <1>9. s = D(s)
    <2> HIDE DEF D
    <2> QED
      BY <1>5, <1>8
  <1>10. ASSUME NEW n \in 0 .. m PROVE s[n] = IF n = 0 THEN Ok(0) ELSE step(s[n - 1], ls[n])
    BY <1>9
  <1> HIDE DEF D
  <1> DEFINE T == {n \in 0 .. m : s[n] = g[n]}
  <1>11. \A n \in 0 .. m : n \in T
    <2>1. 0 \in T
      BY <1>6, <1>10
    <2>2. ASSUME NEW n \in 0 .. m, n \in T, n < m PROVE n + 1 \in T
      <3>1. n + 1 \in 1 .. m /\ n + 1 \in 0 .. m /\ n + 1 # 0 /\ (n + 1) - 1 = n
        BY <2>2
      <3>2. s[n + 1] = step(s[n], ls[n + 1]) /\ g[n + 1] = step(g[n], ls[n + 1])
        BY <1>7, <1>10, <3>1
      <3> QED
        BY <2>2, <3>1, <3>2
    <2> HIDE DEF T
    <2> QED
      BY <2>1, <2>2, Upwards
  <1> QED
    BY <1>1, <1>2, <1>4, <1>11 DEF SumOriginal, s, g

-----------------------------------------------------------------------------
(* AllocateDiscount: the lines add up.                                     *)

(* Sums of numbers of the same classes, of differences, and of all numbers *)
(* but the last.                                                           *)
Same(x, y) == \E k \in Int : x = y + Span * k

(* Classes add up. *)
LEMMA SameSum ==
  ASSUME NEW a \in Int, NEW b \in Int, NEW c \in Int, NEW d \in Int, Same(a, b), Same(c, d)
  PROVE  Same(a + c, b + d)
  <1>1. PICK k \in Int : a = b + Span * k
    BY DEF Same
  <1>2. PICK j \in Int : c = d + Span * j
    BY DEF Same
  <1> DEFINE p == Span * k
             q == Span * j
  <1>3. p \in Int /\ q \in Int
    BY SpanIs
  <1>4. Span * (k + j) = p + q /\ k + j \in Int
    BY SpanIs
  <1>5. a = b + p /\ c = d + q
    BY <1>1, <1>2
  <1> HIDE DEF p, q
  <1>6. a + c = (b + d) + (p + q)
    BY <1>3, <1>5
  <1> QED
    BY <1>4, <1>6 DEF Same

(* Numbers of one class wrap to the same. *)
LEMMA SameWrap ==
  ASSUME NEW a \in Int, NEW b \in Int, Same(a, b)
  PROVE  Wrap(a) = Wrap(b)
  BY WrapSame DEF Same

(* Sums of numbers of the same classes wrap to the same. *)
LEMMA TotalCongruent ==
  ASSUME NEW m \in Nat, NEW v \in [1 .. m -> Int], NEW w \in [1 .. m -> Int],
         \A i \in 1 .. m : Same(v[i], w[i])
  PROVE  Wrap(Total(v)) = Wrap(Total(w))
  <1> DEFINE tv == Totals(v)
             tw == Totals(w)
             T == {n \in 0 .. m : Same(tv[n], tw[n])}
  <1>1. /\ tv \in [0 .. m -> Int] /\ tv[0] = 0 /\ Total(v) = tv[m]
        /\ \A n \in 1 .. m : tv[n] = tv[n - 1] + v[n]
    BY TotalsAre
  <1>2. /\ tw \in [0 .. m -> Int] /\ tw[0] = 0 /\ Total(w) = tw[m]
        /\ \A n \in 1 .. m : tw[n] = tw[n - 1] + w[n]
    BY TotalsAre
  <1> HIDE DEF tv, tw
  <1>3. 0 \in T
    <2>1. 0 = 0 + Span * 0 /\ 0 \in Int /\ 0 \in 0 .. m
      BY SpanIs
    <2>2. Same(0, 0)
      BY <2>1 DEF Same
    <2> QED
      BY <1>1, <1>2, <2>1, <2>2
  <1>4. ASSUME NEW n \in 0 .. m, n \in T, n < m PROVE n + 1 \in T
    <2>1. n + 1 \in 1 .. m /\ (n + 1) - 1 = n /\ n + 1 \in 0 .. m
      BY <1>4
    <2>2. Same(tv[n], tw[n]) /\ Same(v[n + 1], w[n + 1])
      BY <1>4, <2>1
    <2>3. tv[n + 1] = tv[n] + v[n + 1] /\ tw[n + 1] = tw[n] + w[n + 1]
      BY <1>1, <1>2, <2>1
    <2>4. tv[n] \in Int /\ tw[n] \in Int /\ v[n + 1] \in Int /\ w[n + 1] \in Int
      BY <1>1, <1>2, <2>1
    <2>5. Same(tv[n + 1], tw[n + 1])
      BY <2>2, <2>3, <2>4, SameSum
    <2> QED
      BY <2>1, <2>5
  <1>5. \A n \in 0 .. m : n \in T
    <2> HIDE DEF T
    <2> QED
      BY <1>3, <1>4, Upwards
  <1>6. Same(tv[m], tw[m]) /\ tv[m] \in Int /\ tw[m] \in Int
    BY <1>1, <1>2, <1>5
  <1> QED
    BY <1>1, <1>2, <1>6, SameWrap

(* The sum of differences is the difference of the sums. *)
LEMMA TotalMinus ==
  ASSUME NEW m \in Nat, NEW v \in [1 .. m -> Int], NEW w \in [1 .. m -> Int]
  PROVE  Total([i \in 1 .. m |-> v[i] - w[i]]) = Total(v) - Total(w)
  <1> DEFINE u == [i \in 1 .. m |-> v[i] - w[i]]
             tu == Totals(u)
             tv == Totals(v)
             tw == Totals(w)
             T == {n \in 0 .. m : tu[n] = tv[n] - tw[n]}
  <1>0. u \in [1 .. m -> Int] /\ \A i \in 1 .. m : u[i] = v[i] - w[i]
    OBVIOUS
  <1> HIDE DEF u
  <1>1. /\ tv \in [0 .. m -> Int] /\ tv[0] = 0 /\ Total(v) = tv[m]
        /\ \A n \in 1 .. m : tv[n] = tv[n - 1] + v[n]
    BY TotalsAre
  <1>2. /\ tw \in [0 .. m -> Int] /\ tw[0] = 0 /\ Total(w) = tw[m]
        /\ \A n \in 1 .. m : tw[n] = tw[n - 1] + w[n]
    BY TotalsAre
  <1>3. /\ tu \in [0 .. m -> Int] /\ tu[0] = 0 /\ Total(u) = tu[m]
        /\ \A n \in 1 .. m : tu[n] = tu[n - 1] + u[n]
    BY <1>0, TotalsAre
  <1> HIDE DEF tu, tv, tw
  <1>4. 0 \in T
    BY <1>1, <1>2, <1>3
  <1>5. ASSUME NEW n \in 0 .. m, n \in T, n < m PROVE n + 1 \in T
    <2>1. n + 1 \in 1 .. m /\ (n + 1) - 1 = n /\ n + 1 \in 0 .. m
      BY <1>5
    <2>2. /\ tv[n + 1] = tv[n] + v[n + 1] /\ tw[n + 1] = tw[n] + w[n + 1]
          /\ tu[n + 1] = tu[n] + (v[n + 1] - w[n + 1]) /\ tu[n] = tv[n] - tw[n]
      BY <1>0, <1>1, <1>2, <1>3, <1>5, <2>1
    <2>3. tv[n] \in Int /\ tw[n] \in Int /\ v[n + 1] \in Int /\ w[n + 1] \in Int
      BY <1>1, <1>2, <2>1
    <2>4. tu[n + 1] = tv[n + 1] - tw[n + 1]
      BY <2>2, <2>3, SMTT(30)
    <2> QED
      BY <2>1, <2>4
  <1>6. \A n \in 0 .. m : n \in T
    <2> HIDE DEF T
    <2> QED
      BY <1>4, <1>5, Upwards
  <1>7. Total(u) = Total(v) - Total(w)
    BY <1>1, <1>2, <1>3, <1>6
  <1> QED
    BY <1>7 DEF u

(* Running sums depend on the numbers so far only. *)
LEMMA TotalsPrefix ==
  ASSUME NEW m \in Nat, NEW v \in [1 .. m -> Int], NEW k \in 0 .. m, NEW w \in [1 .. k -> Int],
         \A i \in 1 .. k : v[i] = w[i]
  PROVE  \A n \in 0 .. k : Totals(v)[n] = Totals(w)[n]
  <1> DEFINE tv == Totals(v)
             tw == Totals(w)
             T == {n \in 0 .. k : tv[n] = tw[n]}
  <1>1. /\ tv \in [0 .. m -> Int] /\ tv[0] = 0
        /\ \A n \in 1 .. m : tv[n] = tv[n - 1] + v[n]
    BY TotalsAre
  <1>2. /\ tw \in [0 .. k -> Int] /\ tw[0] = 0
        /\ \A n \in 1 .. k : tw[n] = tw[n - 1] + w[n]
    BY TotalsAre, k \in Nat
  <1> HIDE DEF tv, tw
  <1>3. 0 \in T
    BY <1>1, <1>2
  <1>4. ASSUME NEW n \in 0 .. k, n \in T, n < k PROVE n + 1 \in T
    <2>1. n + 1 \in 1 .. k /\ n + 1 \in 1 .. m /\ (n + 1) - 1 = n /\ n + 1 \in 0 .. k
      BY <1>4
    <2>2. tv[n + 1] = tv[n] + v[n + 1] /\ tw[n + 1] = tw[n] + w[n + 1] /\ v[n + 1] = w[n + 1]
      BY <1>1, <1>2, <2>1
    <2> QED
      BY <1>4, <2>1, <2>2
  <1> HIDE DEF T
  <1>5. \A n \in 0 .. k : n \in T
    BY <1>3, <1>4, Upwards, k \in Nat
  <1> QED
    BY <1>5 DEF T, tv, tw

(* A sum of zeros is zero. *)
LEMMA TotalZero ==
  ASSUME NEW m \in Nat, NEW v \in [1 .. m -> Int], \A i \in 1 .. m : v[i] = 0
  PROVE  Total(v) = 0
  <1>1. Total([i \in 1 .. m |-> v[i] - v[i]]) = Total(v) - Total(v)
    BY TotalMinus
  <1>2. v = [i \in 1 .. m |-> v[i] - v[i]]
    OBVIOUS
  <1>3. Total(v) \in Int
    BY TotalsAre
  <1> QED
    BY <1>1, <1>2, <1>3

Row == [price: Int, qty: Int, original: Int, discount: Int, payable: Int]

Shares(ls, m, d, total) == [i \in 1 .. m - 1 |-> Share(ls[i], d, total)]

(* Division of Go, where it does not truncate below zero. *)
LEMMA QuoIs ==
  ASSUME NEW a \in Int, NEW b \in Nat, b > 0
  PROVE  Quo(a, b) \in Int /\ (a >= 0 => Quo(a, b) = a \div b)
  <1>1. CASE a >= 0
    <2>1. Quo(a, b) = a \div b
      BY <1>1 DEF Quo
    <2> QED
      BY <2>1
  <1>2. CASE a < 0
    <2>1. Quo(a, b) = -((-a) \div b)
      BY <1>2 DEF Quo
    <2>2. (-a) \div b \in Int
      OBVIOUS
    <2> QED
      BY <1>2, <2>1, <2>2
  <1> QED
    BY <1>1, <1>2

(* What AllocateDiscount makes of an order worth something. *)
LEMMA AllocateIs ==
  ASSUME NEW m \in Nat, m > 0, NEW ls \in [1 .. m -> Row],
         NEW total \in Nat, total > 0, NEW d \in Int
  PROVE  LET sh == Shares(ls, m, d, total)
             al == AllocateDiscount(ls, d, total)
         IN  /\ sh \in [1 .. m - 1 -> Int]
             /\ al \in [1 .. m -> Row]
             /\ al[m].discount = Wrap(d - Wrap(Total(sh)))
             /\ \A i \in 1 .. m - 1 : al[i].discount = sh[i]
             /\ \A i \in 1 .. m :
                  /\ al[i].price = ls[i].price /\ al[i].qty = ls[i].qty
                  /\ al[i].original = ls[i].original
                  /\ al[i].payable = Wrap(ls[i].original - al[i].discount)
  <1> DEFINE sh == Shares(ls, m, d, total)
             al == AllocateDiscount(ls, d, total)
             last == Wrap(d - WrapTotal(sh))
             off(i) == IF i = m THEN last ELSE sh[i]
  <1>1. Len(ls) = m
    BY LenIs
  <1>2. sh \in [1 .. m - 1 -> Int]
    <2>1. ASSUME NEW i \in 1 .. m - 1 PROVE Share(ls[i], d, total) \in Int
      <3>1. ls[i] \in Row
        OBVIOUS
      <3>2. ls[i].original * d \in Int
        BY <3>1, SMTT(30) DEF Row
      <3>3. Wrap(ls[i].original * d) \in Int
        BY <3>2, WrapIs
      <3> QED
        BY <3>3, QuoIs DEF Share
    <2> QED
      BY <2>1 DEF Shares
  <1>3. WrapTotal(sh) = Wrap(Total(sh)) /\ Total(sh) \in Int
    BY <1>2, WrapTotalIs, TotalsAre, m - 1 \in Nat, SMTT(30)
  <1>4. last \in Int
    <2>1. Wrap(Total(sh)) \in Int
      BY <1>3, WrapIs
    <2>2. d - WrapTotal(sh) \in Int
      BY <1>3, <2>1
    <2> QED
      BY <2>2, WrapIs
  <1>5. al = [i \in 1 .. m |-> [ls[i] EXCEPT !.discount = off(i),
                                            !.payable = Wrap(ls[i].original - off(i))]]
    <2>1. ASSUME NEW i \in 1 .. m, i # m PROVE Share(ls[i], d, total) = sh[i]
      <3>1. i \in 1 .. m - 1
        BY <2>1
      <3> QED
        BY <3>1 DEF Shares
    <2>2. WrapTotal([i \in 1 .. m - 1 |-> Share(ls[i], d, total)]) = WrapTotal(sh)
      BY DEF Shares
    <2> HIDE DEF sh, last
    <2>3. total # 0
      OBVIOUS
    <2>4. al = [i \in 1 .. m |->
                 [ls[i] EXCEPT !.discount = IF i = m THEN last ELSE Share(ls[i], d, total),
                               !.payable = Wrap(ls[i].original - (IF i = m THEN last ELSE Share(ls[i], d, total)))]]
      BY <1>1, <2>2, <2>3 DEF AllocateDiscount, last
    <2> QED
      BY <2>1, <2>4
  <1> HIDE DEF sh, al, last
  <1>6. ASSUME NEW i \in 1 .. m
        PROVE  /\ al[i] \in Row /\ al[i].discount = off(i)
               /\ al[i].price = ls[i].price /\ al[i].qty = ls[i].qty
               /\ al[i].original = ls[i].original
               /\ al[i].payable = Wrap(ls[i].original - al[i].discount)
    <2>1. off(i) \in Int
      <3>1. i = m \/ i \in 1 .. m - 1
        OBVIOUS
      <3> QED
        BY <1>2, <1>4, <3>1
    <2> HIDE DEF off
    <2>2. ls[i] \in Row /\ ls[i].original \in Int
      BY DEF Row
    <2>3. ls[i].original - off(i) \in Int
      BY <2>1, <2>2
    <2> DEFINE p == Wrap(ls[i].original - off(i))
    <2>4. p \in Int
      BY <2>3, WrapIs
    <2>5. al[i] = [ls[i] EXCEPT !.discount = off(i), !.payable = p]
      BY <1>5
    <2> HIDE DEF p
    <2>6. /\ al[i] \in Row /\ al[i].discount = off(i)
          /\ al[i].price = ls[i].price /\ al[i].qty = ls[i].qty
          /\ al[i].original = ls[i].original /\ al[i].payable = p
      BY <2>1, <2>2, <2>4, <2>5 DEF Row
    <2> QED
      BY <2>6 DEF p
  <1>7. al \in [1 .. m -> Row]
    <2>1. DOMAIN al = 1 .. m /\ al = [i \in 1 .. m |-> al[i]]
      BY <1>5
    <2> QED
      BY <1>6, <2>1
  <1>8. al[m].discount = Wrap(d - Wrap(Total(sh)))
    BY <1>3, <1>6 DEF last
  <1>9. ASSUME NEW i \in 1 .. m - 1 PROVE al[i].discount = sh[i]
    <2>1. i \in 1 .. m /\ i # m
      OBVIOUS
    <2> QED
      BY <1>6, <2>1
  <1> QED
    BY <1>2, <1>6, <1>7, <1>8, <1>9 DEF sh, al

Column(ls, f) == [i \in DOMAIN ls |-> ls[i][f]]

(* A column of the lines is a sequence of integers. *)
LEMMA ColumnIs ==
  ASSUME NEW m \in Nat, NEW ls \in [1 .. m -> Row], NEW f \in {"price", "qty", "original", "discount", "payable"}
  PROVE  Column(ls, f) \in [1 .. m -> Int] /\ \A i \in 1 .. m : Column(ls, f)[i] = ls[i][f]
  <1>1. ASSUME NEW i \in 1 .. m PROVE ls[i][f] \in Int
    <2>1. ls[i] \in Row
      OBVIOUS
    <2> QED
      BY <2>1 DEF Row
  <1>2. DOMAIN ls = 1 .. m
    OBVIOUS
  <1> QED
    BY <1>1, <1>2 DEF Column

(* An order worth nothing gets no discount and costs nothing. *)
LEMMA AllocateNothing ==
  ASSUME NEW m \in Nat, NEW ls \in [1 .. m -> Row], NEW d \in Int
  PROVE  LET al == AllocateDiscount(ls, d, 0)
         IN  /\ al \in [1 .. m -> Row]
             /\ \A i \in 1 .. m :
                  /\ al[i].price = ls[i].price /\ al[i].qty = ls[i].qty
                  /\ al[i].original = ls[i].original
                  /\ al[i].discount = 0 /\ al[i].payable = 0
  <1> DEFINE al == AllocateDiscount(ls, d, 0)
             z  == 0
  <1>1. al = [i \in 1 .. m |-> [ls[i] EXCEPT !.discount = z, !.payable = z]]
    BY LenIs DEF AllocateDiscount
  <1>4. z \in Int
    OBVIOUS
  <1> HIDE DEF al, z
  <1>2. ASSUME NEW i \in 1 .. m
        PROVE  /\ al[i] \in Row /\ al[i].price = ls[i].price /\ al[i].qty = ls[i].qty
               /\ al[i].original = ls[i].original
               /\ al[i].discount = 0 /\ al[i].payable = 0
    <2>1. ls[i] \in Row /\ z \in Int /\ al[i] = [ls[i] EXCEPT !.discount = z, !.payable = z]
      BY <1>1, <1>4
    <2>2. /\ al[i].price = ls[i].price /\ al[i].qty = ls[i].qty
          /\ al[i].original = ls[i].original
          /\ al[i].discount = z /\ al[i].payable = z
      BY <2>1 DEF Row
    <2>3. al[i] \in Row
      BY <2>1 DEF Row
    <2> QED
      BY <2>2, <2>3 DEF z
  <1>3. al \in [1 .. m -> Row]
    BY <1>1, <1>2
  <1> QED
    BY <1>2, <1>3 DEF al

(* AllocateDiscount writes discount and payable only. *)
LEMMA AllocateKeeps ==
  ASSUME NEW m \in Nat, m > 0, NEW ls \in [1 .. m -> Row], NEW total \in Nat, NEW d \in Int
  PROVE  /\ AllocateDiscount(ls, d, total) \in [1 .. m -> Row]
         /\ \A i \in 1 .. m :
              /\ AllocateDiscount(ls, d, total)[i].price = ls[i].price
              /\ AllocateDiscount(ls, d, total)[i].qty = ls[i].qty
              /\ AllocateDiscount(ls, d, total)[i].original = ls[i].original
  <1>1. CASE total = 0
    BY <1>1, AllocateNothing
  <1>2. CASE total > 0
    <2> DEFINE al == AllocateDiscount(ls, d, total)
    <2>1. al \in [1 .. m -> Row]
      BY <1>2, AllocateIs
    <2>2. \A i \in 1 .. m : /\ al[i].price = ls[i].price /\ al[i].qty = ls[i].qty
                            /\ al[i].original = ls[i].original
                            /\ al[i].payable = Wrap(ls[i].original - al[i].discount)
      BY <1>2, AllocateIs, ZenonT(40)
    <2> HIDE DEF al
    <2>3. \A i \in 1 .. m : /\ al[i].price = ls[i].price /\ al[i].qty = ls[i].qty
                            /\ al[i].original = ls[i].original
      BY <2>2
    <2> QED
      BY <2>1, <2>3 DEF al
  <1> QED
    BY <1>1, <1>2

(* The discounts of the lines, last line included, are of the class of d. *)
LEMMA DiscountsAddUp ==
  ASSUME NEW m \in Nat, m > 0, NEW ls \in [1 .. m -> Row],
         NEW total \in Nat, total > 0, NEW d \in Int
  PROVE  LET v == Column(AllocateDiscount(ls, d, total), "discount")
         IN  v \in [1 .. m -> Int] /\ Same(Total(v), d)
  <1> DEFINE al == AllocateDiscount(ls, d, total)
             v == Column(al, "discount")
             sh == Shares(ls, m, d, total)
             S == Total(sh)
  <1>1. /\ sh \in [1 .. m - 1 -> Int] /\ al \in [1 .. m -> Row]
        /\ al[m].discount = Wrap(d - Wrap(S))
        /\ \A i \in 1 .. m - 1 : al[i].discount = sh[i]
    BY AllocateIs
  <1> HIDE DEF al, sh
  <1>2. v \in [1 .. m -> Int] /\ \A i \in 1 .. m : v[i] = al[i].discount
    BY <1>1, ColumnIs
  <1> HIDE DEF v
  <1>3. m - 1 \in Nat /\ m - 1 \in 0 .. m /\ m \in 1 .. m /\ \A i \in 1 .. m - 1 : i \in 1 .. m
    OBVIOUS
  <1>4. Totals(sh)[m - 1] = S /\ S \in Int
    BY <1>1, <1>3, TotalsAre
  <1> HIDE DEF S
  <1>5. Totals(v)[m - 1] = S
    <2>1. \A i \in 1 .. m - 1 : v[i] = sh[i]
      BY <1>1, <1>2, <1>3
    <2>2. m - 1 \in 0 .. m - 1
      OBVIOUS
    <2> QED
      BY <1>1, <1>2, <1>3, <1>4, <2>1, <2>2, TotalsPrefix
  <1>6. Total(v) = S + Wrap(d - Wrap(S))
    <2>1. Total(v) = Totals(v)[m] /\ Totals(v)[m] = Totals(v)[m - 1] + v[m]
      BY <1>2, <1>3, TotalsAre
    <2>2. v[m] = Wrap(d - Wrap(S))
      BY <1>1, <1>2, <1>3 DEF S
    <2> QED
      BY <1>5, <2>1, <2>2
  <1>7. PICK j \in Int : Wrap(S) = S + Span * j
    BY <1>4, WrapIs
  <1>8. Wrap(S) \in Int /\ d - Wrap(S) \in Int
    <2>1. Wrap(S) \in Int
      BY <1>4, WrapIs
    <2> QED
      BY <2>1
  <1>9. PICK k \in Int : Wrap(d - Wrap(S)) = (d - Wrap(S)) + Span * k
    BY <1>8, WrapIs
  <1> DEFINE p == Span * j
             q == Span * k
  <1>10. p \in Int /\ q \in Int
    BY SpanIs
  <1>11. Span * (k - j) = q - p /\ k - j \in Int
    BY SpanIs
  <1>12. Wrap(S) = S + p /\ Wrap(d - Wrap(S)) = (d - Wrap(S)) + q
    BY <1>7, <1>9
  <1> HIDE DEF p, q
  <1>13. Total(v) = d + (q - p)
    BY <1>4, <1>6, <1>8, <1>10, <1>12
  <1> QED
    BY <1>2, <1>11, <1>13 DEF Same, v, al

(* Discounts and payables of the lines add up, whatever wrapped on the     *)
(* way.                                                                    *)
LEMMA AllocateAddsUp ==
  ASSUME NEW m \in Nat, m > 0, NEW ls \in [1 .. m -> Row],
         NEW total \in 0 .. MaxInt, Total(Column(ls, "original")) = total,
         NEW d \in 0 .. total
  PROVE  LET al == AllocateDiscount(ls, d, total)
         IN  /\ Wrap(Total(Column(al, "discount"))) = d
             /\ Wrap(Total(Column(al, "payable"))) = total - d
  <1> DEFINE al == AllocateDiscount(ls, d, total)
             v == Column(al, "discount")
             w == Column(al, "payable")
             o == Column(ls, "original")
  <1>0. Wrap(0) = 0 /\ Wrap(d) = d /\ Wrap(total - d) = total - d /\ total \in Nat
    BY WrapFits DEF Fits
  <1>1. CASE total = 0
    <2>1. /\ al \in [1 .. m -> Row]
          /\ \A i \in 1 .. m : al[i].discount = 0 /\ al[i].payable = 0
      BY <1>1, AllocateNothing
    <2> HIDE DEF al
    <2>2. /\ v \in [1 .. m -> Int] /\ \A i \in 1 .. m : v[i] = al[i].discount
          /\ w \in [1 .. m -> Int] /\ \A i \in 1 .. m : w[i] = al[i].payable
      BY <2>1, ColumnIs
    <2> HIDE DEF v, w
    <2>3. Total(v) = 0 /\ Total(w) = 0
      BY <2>1, <2>2, TotalZero
    <2> QED
      BY <1>0, <1>1, <2>3 DEF v, w, al
  <1>2. CASE total > 0
    <2>1. v \in [1 .. m -> Int] /\ Same(Total(v), d)
      BY <1>0, <1>2, DiscountsAddUp
    <2>2. /\ al \in [1 .. m -> Row]
          /\ \A i \in 1 .. m : al[i].payable = Wrap(ls[i].original - al[i].discount)
      BY <1>0, <1>2, AllocateIs, SMTT(30)
    <2> HIDE DEF al
    <2>3. /\ w \in [1 .. m -> Int] /\ \A i \in 1 .. m : w[i] = al[i].payable
          /\ \A i \in 1 .. m : v[i] = al[i].discount
          /\ o \in [1 .. m -> Int] /\ \A i \in 1 .. m : o[i] = ls[i].original
      BY <2>2, ColumnIs
    <2>o. Total(o) = total
      OBVIOUS
    <2> HIDE DEF v, w, o
    <2> DEFINE u == [i \in 1 .. m |-> o[i] - v[i]]
    <2>4. u \in [1 .. m -> Int] /\ \A i \in 1 .. m : u[i] = o[i] - v[i]
      BY <2>1, <2>3
    <2>5. Total(u) = total - Total(v)
      BY <2>1, <2>3, <2>o, TotalMinus
    <2> HIDE DEF u
    <2>6. ASSUME NEW i \in 1 .. m PROVE Same(w[i], u[i])
      <3>1. w[i] = Wrap(u[i]) /\ u[i] \in Int
        BY <2>2, <2>3, <2>4
      <3> QED
        BY <3>1, WrapIs DEF Same
    <2>7. Wrap(Total(w)) = Wrap(Total(u))
      BY <2>3, <2>4, <2>6, TotalCongruent
    <2>8. Total(v) \in Int /\ Total(u) \in Int
      BY <2>1, <2>4, TotalTyped
    <2>9. Same(Total(u), total - d)
      <3>1. PICK k \in Int : Total(v) = d + Span * k
        BY <2>1 DEF Same
      <3> DEFINE p == Span * k
      <3>2. p \in Int /\ Span * (-k) = -p /\ -k \in Int
        BY SpanIs
      <3>3. Total(v) = d + p
        BY <3>1
      <3> HIDE DEF p
      <3>4. Total(u) = (total - d) + (-p)
        BY <2>5, <2>8, <3>2, <3>3
      <3> QED
        BY <3>2, <3>4 DEF Same
    <2>10. Wrap(Total(v)) = Wrap(d) /\ Wrap(Total(u)) = Wrap(total - d)
      BY <2>1, <2>8, <2>9, SameWrap
    <2> QED
      BY <1>0, <2>7, <2>10 DEF v, w, al
  <1> QED
    BY <1>1, <1>2

-----------------------------------------------------------------------------
(* AllocateDiscount: the rounding.                                         *)

(* Products of sums and of successors, term by term. *)
LEMMA Distribute ==
  ASSUME NEW a \in Int, NEW b \in Int, NEW c \in Int
  PROVE  /\ a * b \in Int /\ a * c \in Int /\ a * b = b * a
         /\ a * (b + c) = a * b + a * c /\ a * (b - c) = a * b - a * c
  OBVIOUS

(* A share rounded down from a product that did not wrap. *)
LEMMA ShareIs ==
  ASSUME NEW l \in Row, l.original \in Nat, NEW d \in Nat, NEW total \in Nat, total > 0,
         Fits(l.original * d)
  PROVE  /\ Share(l, d, total) \in Nat
         /\ l.original * d - total * Share(l, d, total) \in 0 .. total - 1
  <1> DEFINE x == l.original * d
             q == Share(l, d, total)
  <1>1. x \in Nat
    OBVIOUS
  <1>2. Wrap(x) = x
    BY <1>1, WrapFits
  <1>3. q = x \div total
    <2>1. q = Quo(Wrap(x), total)
      BY DEF Share
    <2> HIDE DEF x, q
    <2> QED
      BY <1>1, <1>2, <2>1, QuoIs
  <1> HIDE DEF x
  <1>4. /\ q \in Nat /\ total * q \in Nat /\ total * q <= x /\ x < total * q + total
    BY <1>1, <1>3, Quotient
  <1> HIDE DEF q
  <1> DEFINE p == total * q
  <1>5. p \in Nat /\ p <= x /\ x < p + total
    BY <1>4
  <1> HIDE DEF p
  <1>6. x - p \in 0 .. total - 1
    BY <1>1, <1>5
  <1> QED
    BY <1>4, <1>6 DEF x, p, q

(* What the first n lines are short of, together. *)
Short(o, h, d, total) == h >= 0 /\ o * d - total * h \in 0 .. total - 1

(* Shares that are each less than a unit short are together short by less  *)
(* than a unit each.                                                       *)
LEMMA Shortfall ==
  ASSUME NEW k \in Nat, NEW o \in [1 .. k -> Int], NEW h \in [1 .. k -> Int],
         NEW d \in Nat, NEW total \in Nat,
         \A i \in 1 .. k : Short(o[i], h[i], d, total)
  PROVE  /\ Total(h) \in Nat
         /\ d * Total(o) - total * Total(h) \in 0 .. k * (total - 1)
  <1> DEFINE W == Totals(o)
             S == Totals(h)
             T == {n \in 0 .. k : S[n] >= 0 /\ d * W[n] - total * S[n] \in 0 .. n * (total - 1)}
  <1>1. /\ W \in [0 .. k -> Int] /\ W[0] = 0 /\ Total(o) = W[k]
        /\ \A n \in 1 .. k : W[n] = W[n - 1] + o[n]
    BY TotalsAre
  <1>2. /\ S \in [0 .. k -> Int] /\ S[0] = 0 /\ Total(h) = S[k]
        /\ \A n \in 1 .. k : S[n] = S[n - 1] + h[n]
    BY TotalsAre
  <1> HIDE DEF W, S
  <1>3. 0 \in T
    <2>1. d * 0 - total * 0 = 0 /\ 0 * (total - 1) = 0 /\ 0 \in 0 .. 0 /\ 0 \in 0 .. k
      OBVIOUS
    <2> QED
      BY <1>1, <1>2, <2>1
  <1>4. ASSUME NEW n \in 0 .. k, n \in T, n < k PROVE n + 1 \in T
    <2>1. n + 1 \in 1 .. k /\ (n + 1) - 1 = n /\ n + 1 \in 0 .. k
      BY <1>4
    <2> DEFINE w == W[n]
               s == S[n]
               x == o[n + 1]
               y == h[n + 1]
    <2>2. w \in Int /\ s \in Int /\ x \in Int /\ y \in Int /\ n \in Int /\ total - 1 \in Int
      <3> HIDE DEF T
      <3>1. w \in Int /\ s \in Int
        BY <1>1, <1>2
      <3>2. x \in Int /\ y \in Int
        BY <2>1
      <3> QED
        BY <3>1, <3>2
    <2>3. W[n + 1] = w + x /\ S[n + 1] = s + y
      BY <1>1, <1>2, <2>1
    <2>4. s >= 0 /\ d * w - total * s \in 0 .. n * (total - 1)
      BY <1>4
    <2>5. y >= 0 /\ x * d - total * y \in 0 .. total - 1
      BY <2>1 DEF Short
    <2> HIDE DEF w, s, x, y
    <2> DEFINE dw == d * w
               ts == total * s
               dx == d * x
               ty == total * y
               nt == n * (total - 1)
    <2>6. dw \in Int /\ ts \in Int /\ dx \in Int /\ ty \in Int /\ nt \in Int
      BY <2>2, Distribute
    <2>7. d * (w + x) = dw + dx /\ total * (s + y) = ts + ty /\ x * d = dx
      BY <2>2, Distribute
    <2>8. (n + 1) * (total - 1) = nt + (total - 1)
      BY <2>2
    <2>9. dw - ts \in 0 .. nt /\ dx - ty \in 0 .. total - 1
      BY <2>4, <2>5, <2>7
    <2> HIDE DEF dw, ts, dx, ty, nt
    <2>10. (dw + dx) - (ts + ty) \in 0 .. nt + (total - 1)
      BY <2>6, <2>9
    <2>11. s + y >= 0
      BY <2>2, <2>4, <2>5
    <2>12. d * W[n + 1] - total * S[n + 1] \in 0 .. (n + 1) * (total - 1)
      BY <2>3, <2>7, <2>8, <2>10
    <2> QED
      BY <2>1, <2>3, <2>11, <2>12
  <1>5. \A n \in 0 .. k : n \in T
    <2> HIDE DEF T
    <2> QED
      BY <1>3, <1>4, Upwards
  <1>6. k \in T /\ S[k] \in Int
    BY <1>2, <1>5
  <1> QED
    BY <1>1, <1>2, <1>6

(* Where the products fit, the lines get their shares but for the          *)
(* rounding.                                                               *)
LEMMA AllocateFair ==
  ASSUME NEW m \in Nat, m > 0, NEW ls \in [1 .. m -> Row],
         NEW total \in 1 .. MaxInt, Total(Column(ls, "original")) = total,
         NEW d \in 0 .. total,
         \A i \in 1 .. m : ls[i].original \in Nat /\ Fits(ls[i].original * d)
  PROVE  LET al == AllocateDiscount(ls, d, total)
         IN  /\ \A i \in 1 .. m - 1 :
                  ls[i].original * d - total * al[i].discount \in 0 .. total - 1
             /\ total * al[m].discount - ls[m].original * d \in 0 .. (m - 1) * (total - 1)
  <1> DEFINE al == AllocateDiscount(ls, d, total)
             h == Shares(ls, m, d, total)
             o == Column(ls, "original")
             f == [i \in 1 .. m - 1 |-> o[i]]
  <1>0. total \in Nat /\ total > 0 /\ d \in Nat /\ d \in Int /\ m - 1 \in Nat /\ m - 1 \in 0 .. m /\ m \in 1 .. m
    OBVIOUS
  <1>1. /\ h \in [1 .. m - 1 -> Int]
        /\ al[m].discount = Wrap(d - Wrap(Total(h)))
        /\ \A i \in 1 .. m - 1 : al[i].discount = h[i]
    BY <1>0, AllocateIs
  <1>2. o \in [1 .. m -> Int] /\ \A i \in 1 .. m : o[i] = ls[i].original
    BY ColumnIs
  <1>3. ASSUME NEW i \in 1 .. m - 1 PROVE h[i] >= 0 /\ ls[i].original * d - total * h[i] \in 0 .. total - 1
    <2>1. h[i] = Share(ls[i], d, total) /\ i \in 1 .. m
      BY DEF Shares
    <2>2. ls[i] \in Row /\ ls[i].original \in Nat /\ Fits(ls[i].original * d)
      BY <2>1
    <2>3. Share(ls[i], d, total) \in Nat /\ ls[i].original * d - total * Share(ls[i], d, total) \in 0 .. total - 1
      BY <1>0, <2>2, ShareIs
    <2> QED
      BY <2>1, <2>3
  <1>4. Total(o) = total
    OBVIOUS
  <1> HIDE DEF al, h, o
  <1>5. /\ f \in [1 .. m - 1 -> Int] /\ \A i \in 1 .. m - 1 : f[i] = o[i] /\ f[i] = ls[i].original
    <2>1. \A i \in 1 .. m - 1 : i \in 1 .. m
      OBVIOUS
    <2> QED
      BY <1>2, <2>1
  <1> HIDE DEF f
  <1> DEFINE W == Total(f)
             S == Total(h)
             x == ls[m].original
  <1>6. S \in Nat /\ d * W - total * S \in 0 .. (m - 1) * (total - 1)
    <2>1. \A i \in 1 .. m - 1 : Short(f[i], h[i], d, total)
      BY <1>3, <1>5 DEF Short
    <2> QED
      BY <1>0, <1>1, <1>5, <2>1, Shortfall
  <1>7. W \in Int /\ total = W + x /\ x \in Nat
    <2>1. Totals(o)[m - 1] = Totals(f)[m - 1]
      <3>1. m - 1 \in 0 .. m - 1
        BY <1>0
      <3> QED
        BY <1>0, <1>2, <1>5, <3>1, TotalsPrefix
    <2>2. Total(f) = Totals(f)[m - 1] /\ Total(f) \in Int
      BY <1>0, <1>5, TotalsAre, TotalTyped
    <2>3. Total(o) = Totals(o)[m] /\ Totals(o)[m] = Totals(o)[m - 1] + o[m]
      BY <1>0, <1>2, TotalsAre
    <2> QED
      BY <1>0, <1>2, <1>4, <2>1, <2>2, <2>3
  <1> HIDE DEF W, S, x
  <1> DEFINE dW == d * W
             tS == total * S
             dx == d * x
             dt == d * total
             mt == (m - 1) * (total - 1)
  <1>8. /\ dW \in Int /\ tS \in Int /\ dx \in Int /\ dt \in Int /\ dt = total * d /\ x * d = dx /\ dx >= 0
        /\ dt = dW + dx
    <2>1. dW \in Int /\ tS \in Int /\ dx \in Int /\ dt \in Int /\ dt = total * d /\ x * d = dx /\ dx >= 0
      BY <1>0, <1>6, <1>7
    <2>2. d * (W + x) = dW + dx
      BY <1>0, <1>7
    <2> QED
      BY <1>7, <2>1, <2>2
  <1>9. mt \in Int /\ dW - tS \in 0 .. mt
    BY <1>0, <1>6
  <1>10. S <= d
    <2>1. tS <= dt
      <3> HIDE DEF dW, tS, dx, dt, mt
      <3> QED
        BY <1>8, <1>9
    <2>2. SUFFICES ASSUME S >= d + 1 PROVE FALSE
      BY <1>0, <1>6
    <2>3. total * S >= total * (d + 1)
      BY <1>0, <1>6, <2>2
    <2>4. total * (d + 1) = dt + total
      BY <1>0
    <2> HIDE DEF dt
    <2> QED
      BY <1>0, <1>8, <2>1, <2>3, <2>4
  <1>11. al[m].discount = d - S
    <2>1. Wrap(S) = S
      BY <1>0, <1>6, <1>10, WrapFits DEF Fits
    <2>2. Wrap(d - S) = d - S
      BY <1>0, <1>6, <1>10, WrapFits DEF Fits
    <2> QED
      BY <1>1, <2>1, <2>2 DEF S
  <1>12. total * (d - S) = dt - tS
    BY <1>0, <1>6
  <1>13. total * al[m].discount - x * d \in 0 .. mt
    <2> HIDE DEF dW, tS, dx, dt, mt
    <2>1. (dt - tS) - dx = dW - tS
      BY <1>8
    <2> QED
      BY <1>8, <1>9, <1>11, <1>12, <2>1
  <1> QED
    BY <1>1, <1>3, <1>13 DEF x, al

-----------------------------------------------------------------------------
(* The invariant.                                                          *)

(* Before the discount is quoted every line has its exact worth, and the   *)
(* order their sum, which fits.                                            *)
Summed ==
  /\ Len(lines) \in Nat \ {0} /\ lines \in [1 .. Len(lines) -> Row]
  /\ \A i \in 1 .. Len(lines) :
       lines[i].original \in Nat /\ lines[i].original = lines[i].price * lines[i].qty
  /\ original \in 0 .. MaxInt
  /\ Total(Column(lines, "original")) = original

PricingInv ==
  /\ stage = "sum" => Len(lines) \in Nat \ {0} /\ lines \in [1 .. Len(lines) -> Line]
  /\ stage = "allocate" => Summed
  /\ SumIsExact
  /\ LinesAddUp
  /\ AllocationIsFair

(* A sum of numbers that are not negative is at least each of them. *)
LEMMA TotalsBound ==
  ASSUME NEW m \in Nat, NEW v \in [1 .. m -> Int], \A i \in 1 .. m : v[i] >= 0
  PROVE  Total(v) >= 0 /\ \A i \in 1 .. m : v[i] <= Total(v)
  <1> DEFINE t == Totals(v)
             T == {n \in 0 .. m : t[n] >= 0 /\ \A i \in 1 .. n : v[i] <= t[n]}
  <1>1. /\ t \in [0 .. m -> Int] /\ t[0] = 0 /\ Total(v) = t[m]
        /\ \A n \in 1 .. m : t[n] = t[n - 1] + v[n]
    BY TotalsAre
  <1> HIDE DEF t
  <1>2. 0 \in T
    BY <1>1
  <1>3. ASSUME NEW n \in 0 .. m, n \in T, n < m PROVE n + 1 \in T
    <2>1. n + 1 \in 1 .. m /\ (n + 1) - 1 = n /\ n + 1 \in 0 .. m
      BY <1>3
    <2>2. t[n + 1] = t[n] + v[n + 1] /\ t[n] \in Int /\ v[n + 1] \in Int /\ v[n + 1] >= 0 /\ t[n] >= 0
      BY <1>1, <1>3, <2>1
    <2>3. t[n + 1] >= 0 /\ v[n + 1] <= t[n + 1] /\ t[n] <= t[n + 1] /\ t[n + 1] \in Int
      BY <2>2
    <2>4. ASSUME NEW i \in 1 .. n + 1 PROVE v[i] <= t[n + 1]
      <3>1. CASE i = n + 1
        BY <2>3, <3>1
      <3>2. CASE i # n + 1
        <4>1. i \in 1 .. n /\ i \in 1 .. m
          BY <2>1, <3>2
        <4>2. v[i] <= t[n] /\ v[i] \in Int
          BY <1>3, <4>1
        <4> QED
          BY <2>2, <2>3, <4>2
      <3> QED
        BY <3>1, <3>2
    <2> QED
      BY <2>1, <2>3, <2>4
  <1>4. \A n \in 0 .. m : n \in T
    <2> HIDE DEF T
    <2> QED
      BY <1>2, <1>3, Upwards
  <1>5. m \in T
    BY <1>4
  <1> QED
    BY <1>1, <1>5

(* All lines are sound. *)
LEMMA SoundIs ==
  ASSUME NEW m \in Nat, NEW ls \in [1 .. m -> Line]
  PROVE  Sound(ls) <=> SoundTo(ls, m)
  <1>1. DOMAIN ls = 1 .. m
    OBVIOUS
  <1> QED
    BY <1>1 DEF Sound, SoundTo, Fine

(* SumOriginal accepts exactly the sound orders whose exact total fits. *)
LEMMA SumOriginalExact ==
  ASSUME NEW m \in Nat, NEW ls \in [1 .. m -> Line]
  PROVE  /\ SumOriginal(ls).ok <=> Sound(ls) /\ Fits(Exact(ls))
         /\ SumOriginal(ls).ok => SumOriginal(ls).val = Exact(ls) /\ Exact(ls) \in 0 .. MaxInt
  <1>1. SumOriginal(ls) = After(SoundTo(ls, m), Exact(ls))
    BY SumOriginalIs
  <1>2. Exact(ls) \in Int /\ (SoundTo(ls, m) => Exact(ls) >= 0)
    <2> DEFINE v == Worth(ls)
    <2>1. v \in [1 .. m -> Int] /\ Exact(ls) = Total(v)
      BY WorthIs
    <2>3. SoundTo(ls, m) => Totals(v)[m] >= 0
      BY SoundNonNegative
    <2> HIDE DEF v
    <2>2. Total(v) = Totals(v)[m] /\ Total(v) \in Int
      BY <2>1, TotalsAre, TotalTyped
    <2> QED
      BY <2>1, <2>2, <2>3
  <1> DEFINE x == Exact(ls)
             b == SoundTo(ls, m)
  <1>3. Sound(ls) <=> b
    BY SoundIs
  <1> HIDE DEF x, b
  <1>4. x \in Int /\ (b => x >= 0) /\ SumOriginal(ls) = After(b, x)
    BY <1>1, <1>2 DEF x, b
  <1>5. CASE b /\ x <= MaxInt
    <2>1. SumOriginal(ls) = Ok(x) /\ Fits(x) /\ x \in 0 .. MaxInt
      BY <1>4, <1>5 DEF After, Fits
    <2>2. SumOriginal(ls).ok /\ SumOriginal(ls).val = x
      BY <2>1 DEF Ok
    <2> QED
      BY <1>3, <1>5, <2>1, <2>2 DEF x
  <1>6. CASE ~(b /\ x <= MaxInt)
    <2>1. SumOriginal(ls) = Overflow /\ ~(b /\ Fits(x))
      BY <1>4, <1>6 DEF After, Fits
    <2>2. ~SumOriginal(ls).ok
      BY <2>1 DEF Overflow
    <2> QED
      BY <1>3, <2>1, <2>2 DEF x
  <1> QED
    BY <1>5, <1>6

(* The invariant holds of an order that is not summed yet. *)
LEMMA PricingInit ==
  ASSUME Init
  PROVE  PricingInv
  <1>1. PICK m \in 1 .. MaxLines : lines \in [1 .. m -> Line]
    BY DEF Init
  <1>2. m \in Nat \ {0} /\ m \in Nat
    BY <1>1, InputAssumption
  <1>3. Len(lines) = m
    BY <1>1, <1>2, LenIs
  <1>4. stage = "sum"
    BY DEF Init
  <1>5. SumOriginal(lines).ok <=> Sound(lines) /\ Fits(Exact(lines))
    BY <1>1, <1>2, SumOriginalExact
  <1> QED
    BY <1>1, <1>2, <1>3, <1>4, <1>5 DEF PricingInv, SumIsExact, LinesAddUp, AllocationIsFair, Priced

(* A step that refuses the order leaves nothing to show. *)
LEMMA RefuseStep ==
  ASSUME Refuse
  PROVE  PricingInv'
  BY DEF Refuse, PricingInv, SumIsExact, LinesAddUp, AllocationIsFair, Priced

(* Nor does a step that changes neither the lines nor the totals. *)
LEMMA KeepStep ==
  ASSUME PricingInv, UNCHANGED <<lines, discount, original>>,
         stage' = stage \/ (stage = "build" /\ stage' = "paid")
  PROVE  PricingInv'
  <1>1. SumIsExact'
    BY DEF PricingInv, SumIsExact
  <1>2. Priced' <=> Priced
    BY DEF Priced
  <1>3. LinesAddUp'
    BY <1>2 DEF PricingInv, LinesAddUp
  <1>4. AllocationIsFair'
    BY <1>2 DEF PricingInv, AllocationIsFair
  <1> QED
    BY <1>1, <1>3, <1>4 DEF PricingInv, Summed

(* SumOriginal keeps the invariant. *)
LEMMA SumStepInv ==
  ASSUME PricingInv, Sum
  PROVE  PricingInv'
  <1>1. CASE Refuse
    BY <1>1, RefuseStep
  <1>2. CASE ~Refuse
    <2> DEFINE m == Len(lines)
    <2>1. m \in Nat \ {0} /\ m \in Nat /\ m > 0 /\ lines \in [1 .. m -> Line]
      BY DEF Sum, PricingInv
    <2>2. /\ SumOriginal(lines).ok /\ original' = SumOriginal(lines).val /\ stage' = "allocate"
          /\ lines' = [i \in DOMAIN lines |->
                        [lines[i] EXCEPT !.original = LineOriginal(lines[i]).val]]
      BY <1>2 DEF Sum
    <2> HIDE DEF m
    <2>3. /\ SoundTo(lines, m) /\ original' = Exact(lines) /\ Exact(lines) \in 0 .. MaxInt
      BY <2>1, <2>2, SumOriginalExact, SoundIs
    <2> DEFINE v == Worth(lines)
    <2>4. /\ v \in [1 .. m -> Int] /\ Exact(lines) = Total(v)
          /\ \A i \in 1 .. m : v[i] = lines[i].price * lines[i].qty
      BY <2>1, WorthIs
    <2> HIDE DEF v
    <2>5. ASSUME NEW i \in 1 .. m PROVE v[i] >= 0
      BY <2>1, <2>3, <2>4, LineOriginalIs DEF SoundTo
    <2>6. ASSUME NEW i \in 1 .. m PROVE v[i] <= MaxInt /\ v[i] \in Nat
      <3>1. v[i] <= Total(v) /\ Total(v) \in 0 .. MaxInt /\ v[i] \in Int
        BY <2>1, <2>3, <2>4, <2>5, TotalsBound
      <3> QED
        BY <2>5, <3>1
    <2>7. ASSUME NEW i \in 1 .. m
          PROVE  /\ lines'[i] \in Row /\ lines'[i].original = v[i]
                 /\ lines'[i].price = lines[i].price /\ lines'[i].qty = lines[i].qty
      <3>1. lines[i] \in Line /\ Fine(lines[i])
        BY <2>1, <2>3 DEF SoundTo
      <3>2. LineOriginal(lines[i]) = Ok(v[i])
        BY <2>4, <2>6, <3>1, LineOriginalIs
      <3>3. LineOriginal(lines[i]).val = v[i]
        BY <3>2 DEF Ok
      <3>4. lines'[i] = [lines[i] EXCEPT !.original = v[i]]
        BY <2>1, <2>2, <3>3
      <3> DEFINE l == lines[i]
                 x == v[i]
      <3>5. x \in Int
        BY <2>4
      <3>6. l \in Row
        BY <3>1, InputAssumption DEF Row, Line
      <3> HIDE DEF l, x
      <3>7. [l EXCEPT !.original = x] \in Row
        BY <3>5, <3>6 DEF Row
      <3>8. /\ [l EXCEPT !.original = x].original = x
            /\ [l EXCEPT !.original = x].price = l.price
            /\ [l EXCEPT !.original = x].qty = l.qty
        BY <3>6 DEF Row
      <3> QED
        BY <3>4, <3>7, <3>8 DEF l, x
    <2>8. lines' \in [1 .. m -> Row] /\ DOMAIN lines' = 1 .. m
      <3>1. DOMAIN lines' = 1 .. m /\ lines' = [i \in 1 .. m |-> lines'[i]]
        BY <2>1, <2>2
      <3> QED
        BY <2>7, <3>1
    <2>9. Len(lines') = m
      BY <2>1, <2>8, LenIs
    <2>10. Column(lines', "original") = v
      <3>1. Column(lines', "original") = [i \in 1 .. m |-> lines'[i].original]
        BY <2>8 DEF Column
      <3> QED
        BY <2>4, <2>7, <3>1
    <2>11. Exact(lines') = Exact(lines)
      <3>1. [i \in DOMAIN lines' |-> lines'[i].price * lines'[i].qty] =
            [i \in DOMAIN lines |-> lines[i].price * lines[i].qty]
        BY <2>1, <2>7, <2>8
      <3> QED
        BY <3>1 DEF Exact
    <2>12. Summed'
      BY <2>1, <2>3, <2>4, <2>6, <2>7, <2>8, <2>9, <2>10 DEF Summed
    <2>13. SumIsExact'
      BY <2>2, <2>3, <2>11 DEF SumIsExact
    <2>14. LinesAddUp' /\ AllocationIsFair'
      BY <2>2 DEF LinesAddUp, AllocationIsFair, Priced
    <2> QED
      BY <2>2, <2>12, <2>13, <2>14 DEF PricingInv
  <1> QED
    BY <1>1, <1>2

(* AllocateDiscount keeps the invariant. *)
LEMMA AllocateStepInv ==
  ASSUME PricingInv, NEW d \in -1 .. MaxDiscount, Allocate(d)
  PROVE  PricingInv'
  <1>1. CASE Refuse
    BY <1>1, RefuseStep
  <1>2. CASE ~Refuse
    <2> DEFINE m == Len(lines)
    <2>1. /\ m \in Nat /\ m > 0 /\ lines \in [1 .. m -> Row]
          /\ \A i \in 1 .. m :
               lines[i].original \in Nat /\ lines[i].original = lines[i].price * lines[i].qty
          /\ original \in 0 .. MaxInt /\ Total(Column(lines, "original")) = original
      BY DEF Allocate, PricingInv, Summed
    <2>2. /\ d \in 0 .. original /\ lines' = AllocateDiscount(lines, d, original)
          /\ discount' = d /\ stage' = "build" /\ original' = original
      BY <1>2 DEF Allocate
    <2> HIDE DEF m
    <2>3. /\ lines' \in [1 .. m -> Row]
          /\ \A i \in 1 .. m : /\ lines'[i].price = lines[i].price
                               /\ lines'[i].qty = lines[i].qty
                               /\ lines'[i].original = lines[i].original
      <3>1. original \in Nat /\ d \in Int
        BY <2>1, <2>2
      <3> QED
        BY <2>1, <2>2, <3>1, AllocateKeeps, SMTT(30)
    <2>4. DOMAIN lines' = 1 .. m /\ DOMAIN lines = 1 .. m /\ Len(lines') = m
      BY <2>1, <2>3, LenIs
    <2>5. SumIsExact'
      <3>1. [i \in DOMAIN lines' |-> lines'[i].price * lines'[i].qty] =
            [i \in DOMAIN lines |-> lines[i].price * lines[i].qty]
        BY <2>3, <2>4
      <3>2. Exact(lines') = Exact(lines)
        BY <3>1 DEF Exact
      <3>3. original = Exact(lines)
        BY DEF PricingInv, SumIsExact, Allocate
      <3> QED
        BY <2>2, <3>2, <3>3 DEF SumIsExact
    <2>6. LinesAddUp'
      <3>1. /\ Wrap(Total(Column(lines', "discount"))) = d
            /\ Wrap(Total(Column(lines', "payable"))) = original - d
        BY <2>1, <2>2, AllocateAddsUp
      <3> QED
        BY <2>2, <3>1 DEF LinesAddUp, Column
    <2>7. AllocationIsFair'
      <3>1. SUFFICES ASSUME \A i \in 1 .. m : Fits(lines[i].original * d),
                            NEW i \in 1 .. m, original > 0
                     PROVE  LET off == lines'[i].discount * original - lines'[i].original * d
                            IN  IF i < m THEN -off \in 0 .. original - 1
                                ELSE off >= 0 /\ off <= (m - 1) * (original - 1)
        BY <2>2, <2>3, <2>4 DEF AllocationIsFair
      <3>2. original \in 1 .. MaxInt
        BY <2>1, <3>1
      <3>3. /\ \A j \in 1 .. m - 1 :
                 lines[j].original * d - original * lines'[j].discount \in 0 .. original - 1
            /\ original * lines'[m].discount - lines[m].original * d \in 0 .. (m - 1) * (original - 1)
        BY <2>1, <2>2, <3>1, <3>2, AllocateFair
      <3> DEFINE a == lines'[i].discount
                 o == lines[i].original
                 p == original * a
                 q == o * d
                 M == (m - 1) * (original - 1)
      <3>4. a \in Int /\ o \in Int /\ lines'[i].original = o
        BY <2>1, <2>3 DEF Row
      <3>5. p \in Int /\ q \in Int /\ M \in Int /\ a * original = p
        <4> HIDE DEF a, o
        <4> QED
          BY <2>1, <2>2, <3>2, <3>4
      <3>6. i < m => q - p \in 0 .. original - 1
        <4>1. i < m => i \in 1 .. m - 1
          BY <2>1
        <4> QED
          BY <3>3, <4>1
      <3>7. i >= m => p - q \in 0 .. M
        <4>1. i >= m => i = m
          BY <2>1
        <4> QED
          BY <3>3, <4>1
      <3>8. SUFFICES IF i < m THEN -(p - q) \in 0 .. original - 1
                     ELSE p - q >= 0 /\ p - q <= M
        BY <3>4, <3>5
      <3> HIDE DEF p, q, M
      <3>9. CASE i < m
        BY <2>1, <3>2, <3>5, <3>6, <3>9
      <3>10. CASE ~(i < m)
        BY <2>1, <3>5, <3>7, <3>10
      <3> QED
        BY <3>9, <3>10
    <2> QED
      BY <2>2, <2>5, <2>6, <2>7 DEF PricingInv
  <1> QED
    BY <1>1, <1>2

(* BuildAmounts keeps the invariant. *)
LEMMA BuildStepInv ==
  ASSUME PricingInv, NEW asked, Build(asked)
  PROVE  PricingInv'
  <1>1. CASE Refuse
    BY <1>1, RefuseStep
  <1>2. CASE ~Refuse
    BY <1>2, KeepStep DEF Build
  <1> QED
    BY <1>1, <1>2

(* Refunds of lines keep the invariant. *)
LEMMA RefundStepInv ==
  ASSUME PricingInv, NEW entries, Refund(entries)
  PROVE  PricingInv'
  BY KeepStep DEF Refund

(* Every step keeps the invariant. *)
LEMMA PricingStep ==
  ASSUME PricingInv, [Next]_vars
  PROVE  PricingInv'
  <1>1. CASE Next
    BY <1>1, SumStepInv, AllocateStepInv, BuildStepInv, RefundStepInv DEF Next
  <1>2. CASE UNCHANGED vars
    BY <1>2, KeepStep DEF vars
  <1> QED
    BY <1>1, <1>2

(* The invariant of Pricing, for integers of any width. *)
LEMMA Pricings ==
  Spec => []PricingInv
  BY PricingInit, PricingStep, PTL DEF Spec

(* The overflow tests of Mul and Add are exact: SumOriginal, whatever the  *)
(* width of the integers and however many lines there are, returns the     *)
(* exact total of a sound order that fits and refuses every other order.   *)
THEOREM ExactSum ==
  Spec => []SumIsExact
  <1>1. PricingInv => SumIsExact
    BY DEF PricingInv
  <1> QED
    BY <1>1, Pricings, PTL

(* AllocateDiscount loses nothing: even where the product of a share wraps *)
(* around, the line discounts and payables add up to those of the order.   *)
THEOREM AddUp ==
  Spec => []LinesAddUp
  <1>1. PricingInv => LinesAddUp
    BY DEF PricingInv
  <1> QED
    BY <1>1, Pricings, PTL

(* AllocateDiscount rounds by less than one unit for each line but the     *)
(* last, which takes up at most as much from each of them.                 *)
THEOREM FairShares ==
  Spec => []AllocationIsFair
  <1>1. PricingInv => AllocationIsFair
    BY DEF PricingInv
  <1> QED
    BY <1>1, Pricings, PTL
=============================================================================
