----------------------------- MODULE CashProofs -----------------------------
(*************************************************************************)
(* Proof that CashProvenance accounts for points and for the revenue     *)
(* made of them, for all purchases, titles, amounts and shares.          *)
(*                                                                       *)
(* The invariant has two halves.  RevenueInv: the entries of a revenue   *)
(* event are its first one and reversals that come to exactly what the   *)
(* refunds of its source take back; rounding is monotone, which gives    *)
(* every party its sign and the excess its bound.  WalletRight: every    *)
(* point of a source is in one lot or in one use, a charge's reserved    *)
(* uses come to its points, and what was given back is in lots again.    *)
(* Events have keys of their own because two lots never stand at one     *)
(* position.                                                             *)
(*************************************************************************)
EXTENDS MoneyProofs, CashProvenance

-----------------------------------------------------------------------------
(* Quotients.                                                            *)

\* A quotient is the largest number whose product with the divisor is no larger.
LEMMA QuotientBounds ==
  ASSUME NEW a \in Int, NEW d \in Int, d > 0
  PROVE  /\ a \div d \in Int
         /\ d * (a \div d) <= a
         /\ a < d * (a \div d) + d
OBVIOUS

\* Whatever times d is at most a is at most the quotient.
LEMMA LargestQuotient ==
  ASSUME NEW a \in Int, NEW d \in Int, d > 0, NEW q \in Int, d * q <= a
  PROVE  q <= a \div d
<1> DEFINE k == a \div d
<1>1. k \in Int /\ d * k <= a /\ a < d * k + d
  BY QuotientBounds
<1> HIDE DEF k
<1>2. d * q < d * (k + 1)
  BY <1>1
<1>3. q < k + 1
  BY <1>1, <1>2
<1> QED BY <1>1, <1>3 DEF k

\* A number whose successor times d exceeds a is at least the quotient.
LEMMA SmallestQuotient ==
  ASSUME NEW a \in Int, NEW d \in Int, d > 0, NEW q \in Int, a < d * (q + 1)
  PROVE  a \div d <= q
<1> DEFINE k == a \div d
<1>1. k \in Int /\ d * k <= a /\ a < d * k + d
  BY QuotientBounds
<1> HIDE DEF k
<1>2. d * k < d * (q + 1)
  BY <1>1
<1>3. k < q + 1
  BY <1>1, <1>2
<1> QED BY <1>1, <1>3 DEF k

\* Rounding down keeps the order of amounts.
LEMMA QuotientGrows ==
  ASSUME NEW a \in Int, NEW b \in Int, a <= b, NEW d \in Int, d > 0
  PROVE  a \div d <= b \div d
<1>1. a \div d \in Int /\ d * (a \div d) <= b
  BY QuotientBounds
<1> QED BY <1>1, LargestQuotient

\* Products with a natural number keep the order of their factors.
LEMMA ProductGrows ==
  ASSUME NEW a \in Int, NEW b \in Int, a <= b, NEW c \in Nat
  PROVE  a * c <= b * c /\ c * a <= c * b
OBVIOUS

\* Parts of an amount compare as the fractions a / d and b / f do, rounded or not.
LEMMA FractionsCompare ==
  ASSUME NEW g \in Nat, NEW a \in Nat, NEW d \in Int, d > 0, NEW b \in Nat, NEW f \in Int, f > 0,
         a * f <= b * d
  PROVE  (g * a) \div d <= (g * b) \div f
<1> DEFINE q == (g * a) \div d
<1>1. q \in Int /\ d * q <= g * a
  BY QuotientBounds
<1> HIDE DEF q
<1>2. (d * q) * f <= (g * a) * f
  BY <1>1, ProductGrows
<1>3. (g * a) * f = g * (a * f) /\ (d * q) * f = d * (f * q)
  BY <1>1
<1>4. g * (a * f) <= g * (b * d)
  BY ProductGrows
<1>5. d * (f * q) <= d * (g * b)
  BY <1>1, <1>2, <1>3, <1>4
<1>6. f * q <= g * b
  BY <1>1, <1>5
<1>7. q <= (g * b) \div f
  BY <1>1, <1>6, LargestQuotient
<1> QED BY <1>7 DEF q

-----------------------------------------------------------------------------
(* Sums, element by element.                                             *)

\* What holds of the empty set, and of a set if it holds of the set without an
\* element, holds of a finite set.
LEMMA ElementByElement ==
  ASSUME NEW S, IsFiniteSet(S), NEW Good \in SUBSET SUBSET S, {} \in Good,
         \A X \in SUBSET S : \A x \in X : X \ {x} \in Good => X \in Good
  PROVE  S \in Good
<1> DEFINE P == (SUBSET S) \ Good
<1>1. ASSUME P # {} PROVE FALSE
  <2>1. PICK X \in P : \A Y \in P : Y \subseteq X => Y = X
    <3>1. P \subseteq SUBSET S
      OBVIOUS
    <3> HIDE DEF P
    <3> QED BY <1>1, <3>1, SmallestSubset
  <2>2. X \in SUBSET S /\ X \notin Good
    OBVIOUS
  <2>3. PICK x \in X : TRUE
    BY <2>2
  <2>4. X \ {x} \notin P
    <3> HIDE DEF P
    <3> QED BY <2>1, <2>3
  <2> QED BY <2>2, <2>3, <2>4
<1> QED BY <1>1

\* The sum of one element and the rest.
LEMMA SumOfRest ==
  ASSUME NEW S, IsFiniteSet(S), NEW X \in SUBSET S, NEW x \in X, NEW f, \A y \in S : f[y] \in Int
  PROVE  /\ SumFunctionOnSet(f, X) = f[x] + SumFunctionOnSet(f, X \ {x})
         /\ SumFunctionOnSet(f, X \ {x}) \in Int
<1>1. IsFiniteSet(X) /\ IsFiniteSet(X \ {x}) /\ \A y \in X : f[y] \in Int
  BY FS_Subset
<1>2. SumFunctionOnSet(f, X) = f[x] + SumFunctionOnSet(f, X \ {x})
  BY <1>1, SumTakesAny
<1>3. SumFunctionOnSet(f, X \ {x}) \in Int
  BY <1>1, SumsAreIntegers
<1> QED BY <1>2, <1>3

\* Nothing comes to 0.
LEMMA SumOfNothing ==
  ASSUME NEW f
  PROVE  SumFunctionOnSet(f, {}) = 0
<1>1. IsFiniteSet({})
  BY FS_EmptySet
<1> QED BY <1>1, SumTakesOne

\* A sum of differences is the difference of the sums.
LEMMA SumsDiffer ==
  ASSUME NEW S, IsFiniteSet(S), NEW f, NEW g, NEW h,
         \A x \in S : f[x] \in Int /\ g[x] \in Int /\ h[x] = f[x] - g[x]
  PROVE  SumFunctionOnSet(h, S) = SumFunctionOnSet(f, S) - SumFunctionOnSet(g, S)
<1> DEFINE Good == {X \in SUBSET S :
             SumFunctionOnSet(h, X) = SumFunctionOnSet(f, X) - SumFunctionOnSet(g, X)}
<1>1. {} \in Good
  BY SumOfNothing
<1>2. ASSUME NEW X \in SUBSET S, NEW x \in X, X \ {x} \in Good PROVE X \in Good
  <2>1. \A y \in S : h[y] \in Int
    OBVIOUS
  <2>2. /\ SumFunctionOnSet(f, X) = f[x] + SumFunctionOnSet(f, X \ {x})
        /\ SumFunctionOnSet(f, X \ {x}) \in Int
    BY SumOfRest
  <2>3. /\ SumFunctionOnSet(g, X) = g[x] + SumFunctionOnSet(g, X \ {x})
        /\ SumFunctionOnSet(g, X \ {x}) \in Int
    BY SumOfRest
  <2>4. SumFunctionOnSet(h, X) = h[x] + SumFunctionOnSet(h, X \ {x})
    BY ONLY IsFiniteSet(S), X \in SUBSET S, x \in X, <2>1, SumOfRest
  <2> QED BY <1>2, <2>2, <2>3, <2>4
<1>3. Good \in SUBSET SUBSET S
  OBVIOUS
<1>4. S \in Good
  <2> HIDE DEF Good
  <2> QED BY <1>1, <1>2, <1>3, ElementByElement
<1> QED BY <1>4

\* What is no more element by element is no more in sum.
LEMMA SumsCompare ==
  ASSUME NEW S, IsFiniteSet(S), NEW f, NEW g,
         \A x \in S : f[x] \in Int /\ g[x] \in Int /\ f[x] <= g[x]
  PROVE  SumFunctionOnSet(f, S) <= SumFunctionOnSet(g, S)
<1> DEFINE Good == {X \in SUBSET S : SumFunctionOnSet(f, X) <= SumFunctionOnSet(g, X)}
<1>1. {} \in Good
  BY SumOfNothing
<1>2. ASSUME NEW X \in SUBSET S, NEW x \in X, X \ {x} \in Good PROVE X \in Good
  <2>2. /\ SumFunctionOnSet(f, X) = f[x] + SumFunctionOnSet(f, X \ {x})
        /\ SumFunctionOnSet(g, X) = g[x] + SumFunctionOnSet(g, X \ {x})
        /\ SumFunctionOnSet(f, X \ {x}) \in Int /\ SumFunctionOnSet(g, X \ {x}) \in Int
    BY SumOfRest
  <2> QED BY <1>2, <2>2
<1>3. Good \in SUBSET SUBSET S
  OBVIOUS
<1>4. S \in Good
  <2> HIDE DEF Good
  <2> QED BY <1>1, <1>2, <1>3, ElementByElement
<1> QED BY <1>4

\* A factor can be taken out of a sum.
LEMMA SumScales ==
  ASSUME NEW S, IsFiniteSet(S), NEW f, NEW g, NEW c \in Int,
         \A x \in S : f[x] \in Int /\ g[x] = c * f[x]
  PROVE  SumFunctionOnSet(g, S) = c * SumFunctionOnSet(f, S)
<1> DEFINE Good == {X \in SUBSET S : SumFunctionOnSet(g, X) = c * SumFunctionOnSet(f, X)}
<1>1. {} \in Good
  BY SumOfNothing
<1>2. ASSUME NEW X \in SUBSET S, NEW x \in X, X \ {x} \in Good PROVE X \in Good
  <2>1. \A y \in S : g[y] \in Int
    OBVIOUS
  <2>2. /\ SumFunctionOnSet(f, X) = f[x] + SumFunctionOnSet(f, X \ {x})
        /\ SumFunctionOnSet(f, X \ {x}) \in Int
    BY SumOfRest
  <2>4. SumFunctionOnSet(g, X) = g[x] + SumFunctionOnSet(g, X \ {x})
    BY ONLY IsFiniteSet(S), X \in SUBSET S, x \in X, <2>1, SumOfRest, SMTT(30)
  <2>3. c * (f[x] + SumFunctionOnSet(f, X \ {x})) = c * f[x] + c * SumFunctionOnSet(f, X \ {x})
    BY <2>2
  <2> QED BY <1>2, <2>2, <2>3, <2>4
<1>3. Good \in SUBSET SUBSET S
  OBVIOUS
<1>4. S \in Good
  <2> HIDE DEF Good
  <2> QED BY <1>1, <1>2, <1>3, ElementByElement
<1> QED BY <1>4

\* A sum over disjoint parts is the sum of the sums of the parts.
LEMMA SumOfFibers ==
  ASSUME NEW S, IsFiniteSet(S), NEW F, NEW f, NEW g,
         \A x \in S : IsFiniteSet(F[x]) /\ g[x] = SumFunctionOnSet(f, F[x]),
         \A x \in S : \A b \in F[x] : f[b] \in Int,
         \A x, y \in S : x # y => F[x] \cap F[y] = {}
  PROVE  /\ IsFiniteSet(UNION {F[x] : x \in S})
         /\ SumFunctionOnSet(f, UNION {F[x] : x \in S}) = SumFunctionOnSet(g, S)
<1> DEFINE U(X) == UNION {F[x] : x \in X}
           Holds(X) == /\ IsFiniteSet(U(X))
                       /\ SumFunctionOnSet(f, U(X)) = SumFunctionOnSet(g, X)
           Good == {X \in SUBSET S : Holds(X)}
<1>0. \A x \in S : g[x] \in Int
  BY SumsAreIntegers
<1>1. {} \in Good
  <2>1. U({}) = {}
    OBVIOUS
  <2>2. IsFiniteSet({})
    BY FS_EmptySet
  <2> HIDE DEF U
  <2> QED BY <2>1, <2>2, SumOfNothing
<1>2. ASSUME NEW X \in SUBSET S, NEW x \in X, X \ {x} \in Good PROVE X \in Good
  <2>1. /\ SumFunctionOnSet(g, X) = g[x] + SumFunctionOnSet(g, X \ {x})
        /\ SumFunctionOnSet(g, X \ {x}) \in Int
    BY <1>0, SumOfRest
  <2> DEFINE rest == U(X \ {x})
             all == U(X)
             own == F[x]
  <2>2. IsFiniteSet(rest) /\ SumFunctionOnSet(f, rest) = SumFunctionOnSet(g, X \ {x})
    BY <1>2
  <2>3. all = rest \cup own /\ rest \cap own = {}
    OBVIOUS
  <2>4. IsFiniteSet(own) /\ SumFunctionOnSet(f, own) = g[x]
    OBVIOUS
  <2>5. \A b \in all : f[b] \in Int
    OBVIOUS
  <2>6. Holds(X) <=> IsFiniteSet(all) /\ SumFunctionOnSet(f, all) = SumFunctionOnSet(g, X)
    OBVIOUS
  <2> HIDE DEF rest, all, own, Holds
  <2>7. IsFiniteSet(all) /\ all \ own = rest /\ own \in SUBSET all
    BY <2>2, <2>3, <2>4, FS_Union
  <2>8. SumFunctionOnSet(f, all) = SumFunctionOnSet(f, own) + SumFunctionOnSet(f, all \ own)
    BY <2>5, <2>7, SumSplits
  <2>9. SumFunctionOnSet(f, all) = g[x] + SumFunctionOnSet(g, X \ {x})
    BY <2>2, <2>4, <2>7, <2>8
  <2> QED BY <2>1, <2>6, <2>7, <2>9
<1>3. Good \in SUBSET SUBSET S
  OBVIOUS
<1>4. S \in Good
  <2> HIDE DEF Good
  <2> QED BY <1>1, <1>2, <1>3, ElementByElement
<1> QED BY <1>4

\* A set of natural numbers that is not empty has a least one.
LEMMA LeastNumber ==
  ASSUME NEW N \in SUBSET Nat, N # {}
  PROVE  \E n \in N : \A m \in N : n <= m
<1>0. PICK top \in N : TRUE
  OBVIOUS
<1> DEFINE few == {m \in N : m <= top}
           P == {0 .. n : n \in few}
           all == 0 .. top
<1>1. top \in few /\ \A m \in few : 0 .. m \subseteq all
  <2>1. ASSUME NEW m \in few PROVE 0 .. m \subseteq all
    <3>1. m \in Nat /\ top \in Nat /\ m <= top
      BY <1>0
    <3> QED BY <3>1
  <2> QED BY <1>0, <2>1
<1>2. IsFiniteSet(all)
  BY <1>0, FS_Interval
<1>3. PICK X \in P : \A Y \in P : Y \subseteq X => Y = X
  <2>1. P \subseteq SUBSET all /\ P # {}
    <3> HIDE DEF few, all
    <3> QED BY <1>1
  <2> HIDE DEF P, few, all
  <2> QED BY <1>2, <2>1, SmallestSubset
<1>4. PICK n \in few : X = 0 .. n
  OBVIOUS
<1>5. ASSUME NEW m \in N, m < n PROVE FALSE
  <2>1. m \in few /\ m \in Nat /\ n \in Nat
    BY <1>5
  <2>2. 0 .. m \in P
    BY <2>1
  <2>3. 0 .. m \subseteq X
    BY <1>4, <1>5, <2>1
  <2>4. 0 .. m = 0 .. n
    <3> HIDE DEF P
    <3> QED BY <1>3, <1>4, <2>2, <2>3
  <2>5. n \in 0 .. n
    BY <2>1
  <2>6. n \notin 0 .. m
    BY <1>5, <2>1
  <2> QED BY <2>4, <2>5, <2>6
<1> QED BY <1>4, <1>5

-----------------------------------------------------------------------------
(* Entries of an event.                                                  *)

RevenueEvents ==
  [title : Titles, source : Sources, start : Nat, points : Nat, basis : {"none", "gross", "net"},
   share : Shares \cup {NoShare}, state : {"unvalued", "posted"}, month : Nat, refunded : Nat]

CashEntries ==
  [event : Titles \X Sources \X Nat, upto : Nat, gross : Int, hq : Int, creator : Int,
   month : Nat, status : {"pending", "settled"}]

CashAmounts(c) ==
  /\ c \in [Sources -> [refunded : Nat, net : Int]]
  /\ \A s \in Sources : c[s].refunded <= Gross[s] /\ c[s].net \in {Unknown} \cup 0 .. Gross[s]

\* What of a reversal of t of entry o headquarters and the creator pay.
HqPart(o, t) == IF o.gross = 0 THEN 0 ELSE (o.hq * t) \div o.gross
CreatorPart(o, t) ==
  IF o.gross = o.hq THEN 0 ELSE (o.creator * (t - HqPart(o, t))) \div (o.gross - o.hq)

\* An entry that gives to every party, and one that takes from every party.
Gives(b) == b.hq >= 0 /\ b.creator >= 0 /\ b.hq + b.creator <= b.gross
Takes(b) == b.hq <= 0 /\ b.creator <= 0 /\ b.gross <= b.hq + b.creator

\* Entries B of an event are its first one, o, and reversals of n of it.
Explains(B, o, n) ==
  /\ o \in B /\ o.upto = 0 /\ Gives(o)
  /\ \A b \in B \ {o} : 0 < b.upto /\ b.upto <= n /\ Takes(b)
  /\ n <= o.gross
  /\ GrossOf(B \ {o}) = -n
  /\ HqOf(B \ {o}) = -HqPart(o, n)
  /\ CreatorOf(B \ {o}) = -CreatorPart(o, n)

\* An event's entries are what its state and its terms say.
FairEntries(B, e) ==
  /\ e.state = "unvalued" => B = {} /\ e.refunded = 0
  /\ e.state = "posted" =>
       \E o \in B : /\ Explains(B, o, e.refunded)
                    /\ e.basis = "gross" => o.gross = CashValue(Gross[e.source], e)

\* A range of points is never worth less than nothing.
LEMMA CashValueIsNatural ==
  ASSUME NEW a \in Nat, NEW e, e.start \in Nat, e.points \in Nat, e.source \in Sources
  PROVE  CashValue(a, e) \in Nat
<1>1. PaidPoints[e.source] \in Int /\ PaidPoints[e.source] > 0
  BY AmountsAssumption
<1> DEFINE d == PaidPoints[e.source]
           low == a * e.start
           high == a * (e.start + e.points)
<1>2. low \in Int /\ high \in Int /\ low <= high
  <2>1. a * e.start <= a * (e.start + e.points)
    BY ProductGrows
  <2> QED BY <2>1
<1>3. CashValue(a, e) = high \div d - low \div d
  BY DEF CashValue
<1> HIDE DEF d, low, high
<1>4. low \div d <= high \div d /\ low \div d \in Int /\ high \div d \in Int
  BY <1>1, <1>2, QuotientGrows, QuotientBounds DEF d
<1> QED BY <1>3, <1>4

\* What parties pay of a reversal grows with it, and is no more than it.
LEMMA HqPartGrows ==
  ASSUME NEW o, o.gross \in Int, o.hq \in Int, 0 <= o.hq, o.hq <= o.gross,
         NEW n \in Nat, NEW t \in Nat, n <= t, t <= o.gross
  PROVE  /\ HqPart(o, n) \in Int /\ HqPart(o, t) \in Int
         /\ 0 <= HqPart(o, n) /\ HqPart(o, n) <= HqPart(o, t)
         /\ n - HqPart(o, n) <= t - HqPart(o, t)
         /\ HqPart(o, t) <= o.hq
         /\ HqPart(o, t) <= t
         /\ t - HqPart(o, t) <= o.gross - o.hq
<1>1. CASE o.gross = 0
  BY <1>1 DEF HqPart
<1>2. CASE o.gross # 0
  <2> DEFINE g == o.gross
             h == o.hq
  <2>1. g \in Int /\ h \in Int /\ g > 0 /\ h \in Nat /\ h <= g /\ t <= g
    BY <1>2
  <2>2. HqPart(o, n) = (h * n) \div g /\ HqPart(o, t) = (h * t) \div g
    BY <1>2 DEF HqPart
  <2> HIDE DEF g, h
  <2> DEFINE p == (h * n) \div g
             q == (h * t) \div g
  <2>3. p \in Int /\ q \in Int /\ g * p <= h * n /\ h * n < g * p + g /\ g * q <= h * t /\ h * t < g * q + g
    BY <2>1, QuotientBounds
  <2>4. h * n <= h * t /\ 0 <= h * n
    BY <2>1, ProductGrows
  <2>5. p <= q
    BY <2>1, <2>4, QuotientGrows
  <2>6. 0 <= p
    <3>1. g * 0 <= h * n
      BY <2>1, <2>4
    <3> QED BY <2>1, <3>1, LargestQuotient
  <2>7. q <= p + (t - n)
    <3>1. h * t = h * n + h * (t - n)
      BY <2>1
    <3>2. h * (t - n) <= g * (t - n)
      BY <2>1, ProductGrows
    <3>3. g * (p + (t - n) + 1) = g * p + g * (t - n) + g
      BY <2>1, <2>3
    <3>4. h * t < g * (p + (t - n) + 1)
      <4> HIDE DEF p, q
      <4> QED BY <2>1, <2>3, <3>1, <3>2, <3>3
    <3> QED BY <2>1, <2>3, <3>4, SmallestQuotient
  <2>8. q <= h
    <3>1. h * t <= h * g
      BY <2>1, ProductGrows
    <3>2. h * t < g * (h + 1)
      BY <2>1, <3>1
    <3> QED BY <2>1, <3>2, SmallestQuotient
  <2>9. g - h >= t - q
    <3>1. h * g = h * t + h * (g - t)
      BY <2>1
    <3>2. h * (g - t) <= g * (g - t)
      BY <2>1, ProductGrows
    <3>3. g * (q + (g - t) + 1) = g * q + g * (g - t) + g
      BY <2>1, <2>3
    <3>4. g * h < g * (q + (g - t) + 1)
      <4> HIDE DEF p, q
      <4> QED BY <2>1, <2>3, <3>1, <3>2, <3>3
    <3>5. h < q + (g - t) + 1
      <4> HIDE DEF p, q
      <4> QED BY <2>1, <2>3, <3>4
    <3> QED BY <2>1, <2>3, <3>5
  <2>10. q <= t
    <3>1. h * t <= g * t
      BY <2>1, ProductGrows
    <3>2. h * t < g * (t + 1)
      BY <2>1, <3>1
    <3> QED BY <2>1, <3>2, SmallestQuotient
  <2> HIDE DEF p, q
  <2>11. HqPart(o, n) = p /\ HqPart(o, t) = q
    BY <2>2 DEF p, q
  <2> QED BY <2>1, <2>3, <2>5, <2>6, <2>7, <2>8, <2>9, <2>10, <2>11 DEF g, h
<1> QED BY <1>1, <1>2

\* Nor does the creator's part of a reversal shrink as the reversal grows, nor what is
\* left to the tenant: this is what apportioning one part after the other is for.
LEMMA CreatorPartGrows ==
  ASSUME NEW o, o.gross \in Int, o.hq \in Int, o.creator \in Int, Gives(o),
         NEW n \in Nat, NEW t \in Nat, n <= t, t <= o.gross
  PROVE  /\ CreatorPart(o, n) \in Int /\ CreatorPart(o, t) \in Int
         /\ 0 <= CreatorPart(o, n) /\ CreatorPart(o, n) <= CreatorPart(o, t)
         /\ CreatorPart(o, t) <= o.creator
         /\ n - HqPart(o, n) - CreatorPart(o, n) <= t - HqPart(o, t) - CreatorPart(o, t)
         /\ t - HqPart(o, t) - CreatorPart(o, t) <= o.gross - o.hq - o.creator
<1>1. /\ o.hq >= 0 /\ o.creator >= 0 /\ o.hq + o.creator <= o.gross /\ o.hq <= o.gross
  BY DEF Gives
<1>2. /\ HqPart(o, n) \in Int /\ HqPart(o, t) \in Int
      /\ 0 <= HqPart(o, n) /\ HqPart(o, n) <= HqPart(o, t)
      /\ n - HqPart(o, n) <= t - HqPart(o, t)
      /\ HqPart(o, t) <= t
      /\ t - HqPart(o, t) <= o.gross - o.hq
  BY <1>1, HqPartGrows
<1>3. HqPart(o, n) <= n
  BY <1>1, HqPartGrows
\* The creator's part is headquarters' part of the rest.
<1> DEFINE rest == [gross |-> o.gross - o.hq, hq |-> o.creator]
           m == n - HqPart(o, n)
           u == t - HqPart(o, t)
<1>4. m \in Nat /\ u \in Nat /\ m <= u /\ u <= rest.gross
  BY <1>2, <1>3
<1>5. CreatorPart(o, n) = HqPart(rest, m) /\ CreatorPart(o, t) = HqPart(rest, u)
  <2>1. rest.gross = 0 <=> o.gross = o.hq
    BY <1>1
  <2> QED BY <2>1 DEF CreatorPart, HqPart
<1>6. rest.gross \in Int /\ rest.hq \in Int /\ 0 <= rest.hq /\ rest.hq <= rest.gross
  BY <1>1
<1>7. rest.hq = o.creator /\ rest.gross = o.gross - o.hq
  OBVIOUS
<1> HIDE DEF rest, m, u
<1>8. /\ HqPart(rest, m) \in Int /\ HqPart(rest, u) \in Int
      /\ 0 <= HqPart(rest, m) /\ HqPart(rest, m) <= HqPart(rest, u)
      /\ m - HqPart(rest, m) <= u - HqPart(rest, u)
      /\ HqPart(rest, u) <= rest.hq
      /\ u - HqPart(rest, u) <= rest.gross - rest.hq
  BY <1>4, <1>6, HqPartGrows
<1> QED BY <1>2, <1>5, <1>7, <1>8 DEF m, u

-----------------------------------------------------------------------------
(* What is taken back.                                                   *)

\* Of an amount a, r of which was refunded, what was refunded of the consumed part n.
Consumed(n, a, r) == Greatest(0, n - (a - r))
\* What a reversal of m out of n takes of a part g.
TakenShare(g, n, m) == IF n = 0 THEN 0 ELSE (g * m) \div n

\* No more consumed cash is refunded than was consumed.
LEMMA ConsumedBounds ==
  ASSUME NEW n \in Nat, NEW a \in Nat, NEW r \in Nat, r <= a
  PROVE  Consumed(n, a, r) \in Nat /\ Consumed(n, a, r) <= n
BY DEF Consumed, Greatest

\* What is taken back of a part is no more than the part.
LEMMA TakenShareBounds ==
  ASSUME NEW g \in Nat, NEW n \in Nat, NEW m \in Nat, m <= n
  PROVE  TakenShare(g, n, m) \in Nat /\ TakenShare(g, n, m) <= g
<1>1. CASE n = 0
  BY <1>1 DEF TakenShare
<1>2. CASE n # 0
  <2>1. g * m <= g * n /\ 0 <= g * m /\ g * m \in Int
    BY ProductGrows
  <2>2. n * 0 <= g * m /\ g * m < n * (g + 1)
    BY <1>2, <2>1
  <2>3. 0 <= (g * m) \div n /\ (g * m) \div n <= g /\ (g * m) \div n \in Int
    BY <1>2, <2>1, <2>2, LargestQuotient, SmallestQuotient, QuotientBounds
  <2> QED BY <1>2, <2>3 DEF TakenShare
<1> QED BY <1>1, <1>2

\* What is taken back of a part grows with the refund, and with what else was consumed.
LEMMA TakenShareGrows ==
  ASSUME NEW g \in Nat, NEW n \in Nat, NEW k \in Nat, n <= k, NEW a \in Nat,
         NEW r \in Nat, NEW q \in Nat, r <= q, q <= a
  PROVE  TakenShare(g, n, Consumed(n, a, r)) <= TakenShare(g, k, Consumed(k, a, q))
<1> DEFINE m == Consumed(n, a, r)
           l == Consumed(k, a, q)
<1>0. r <= a
  OBVIOUS
<1>1. m \in Nat /\ m <= n /\ l \in Nat /\ l <= k
  BY <1>0, ConsumedBounds
<1>2. TakenShare(g, k, l) \in Nat
  BY <1>1, TakenShareBounds
<1>3. CASE m = 0
  <2>1. TakenShare(g, n, m) = 0
    <3>1. CASE n = 0
      BY <3>1 DEF TakenShare
    <3>2. CASE n # 0
      <4>1. g * m = 0 /\ 0 \div n = 0
        BY <1>3, <3>2
      <4> HIDE DEF m
      <4> QED BY <3>2, <4>1 DEF TakenShare
    <3> QED BY <3>1, <3>2
  <2> QED BY <1>2, <2>1
<1>4. CASE m # 0
  <2>1. m = n - (a - r) /\ l = k - (a - q) /\ n > 0 /\ k > 0 /\ a - q <= a - r
    BY <1>4 DEF Consumed, Greatest
  <2>2. (a - q) * n <= (a - r) * n /\ (a - r) * n <= (a - r) * k
    BY <2>1, ProductGrows
  <2>3. m * k = n * k - (a - r) * k /\ l * n = n * k - (a - q) * n
    BY <2>1
  <2>4. m * k <= l * n
    <3> HIDE DEF m, l
    <3> QED BY <2>2, <2>3
  <2>5. (g * m) \div n <= (g * l) \div k
    <3> HIDE DEF m, l
    <3> QED BY <1>1, <2>1, <2>4, FractionsCompare
  <2> QED BY <2>1, <2>5 DEF TakenShare
<1> QED BY <1>3, <1>4

\* An entry adds its parts to those of the others.
LEMMA PartsAdd ==
  ASSUME NEW B, IsFiniteSet(B), B \subseteq CashEntries, NEW b \in CashEntries, b \notin B
  PROVE  /\ GrossOf(B) \in Int /\ GrossOf(B \cup {b}) = GrossOf(B) + b.gross
         /\ HqOf(B) \in Int /\ HqOf(B \cup {b}) = HqOf(B) + b.hq
         /\ CreatorOf(B) \in Int /\ CreatorOf(B \cup {b}) = CreatorOf(B) + b.creator
<1> DEFINE all == B \cup {b}
           G == [x \in all |-> x.gross]
           H == [x \in all |-> x.hq]
           C == [x \in all |-> x.creator]
<1>1. \A x \in all : G[x] \in Int /\ H[x] \in Int /\ C[x] \in Int
  BY DEF CashEntries
<1>2. /\ SumFunctionOnSet(G, all) = SumFunctionOnSet(G, B) + G[b]
      /\ SumFunctionOnSet(H, all) = SumFunctionOnSet(H, B) + H[b]
      /\ SumFunctionOnSet(C, all) = SumFunctionOnSet(C, B) + C[b]
  <2> HIDE DEF G, H, C
  <2>1. SumFunctionOnSet(G, all) = SumFunctionOnSet(G, B) + G[b]
    BY <1>1, SumAdds
  <2>2. SumFunctionOnSet(H, all) = SumFunctionOnSet(H, B) + H[b]
    BY <1>1, SumAdds
  <2>3. SumFunctionOnSet(C, all) = SumFunctionOnSet(C, B) + C[b]
    BY <1>1, SumAdds
  <2> QED BY <2>1, <2>2, <2>3
<1>3. GrossOf(B) = SumFunctionOnSet(G, B)
  BY SumIsOfValues DEF GrossOf
<1>4. HqOf(B) = SumFunctionOnSet(H, B)
  BY SumIsOfValues DEF HqOf
<1>5. CreatorOf(B) = SumFunctionOnSet(C, B)
  BY SumIsOfValues DEF CreatorOf
<1>6. GrossOf(all) = SumFunctionOnSet(G, all) /\ HqOf(all) = SumFunctionOnSet(H, all)
      /\ CreatorOf(all) = SumFunctionOnSet(C, all)
  BY DEF GrossOf, HqOf, CreatorOf
<1>7. SumFunctionOnSet(G, B) \in Int
  BY <1>1, SumsAreIntegers
<1>8. SumFunctionOnSet(H, B) \in Int
  BY <1>1, SumsAreIntegers
<1>9. SumFunctionOnSet(C, B) \in Int
  BY <1>1, SumsAreIntegers
<1>10. G[b] = b.gross /\ H[b] = b.hq /\ C[b] = b.creator
  OBVIOUS
<1> HIDE DEF G, H, C
<1> QED BY <1>2, <1>3, <1>4, <1>5, <1>6, <1>7, <1>8, <1>9, <1>10

\* No entries come to nothing.
LEMMA PartsOfNothing == GrossOf({}) = 0 /\ HqOf({}) = 0 /\ CreatorOf({}) = 0
BY SumOfNothing DEF GrossOf, HqOf, CreatorOf

\* The first entry of an event explains it while nothing was taken back.
LEMMA FirstExplains ==
  ASSUME NEW b \in CashEntries, b.upto = 0, Gives(b)
  PROVE  Explains({b}, b, 0)
<1>1. {b} \ {b} = {}
  OBVIOUS
<1>2. HqPart(b, 0) = 0 /\ CreatorPart(b, 0) = 0
  <2>1. b.gross \in Int /\ b.hq \in Int /\ b.creator \in Int /\ b.gross >= 0 /\ b.hq <= b.gross
    BY DEF CashEntries, Gives
  <2>2. HqPart(b, 0) = 0
    BY <2>1 DEF HqPart
  <2>3. b.creator * (0 - HqPart(b, 0)) = 0
    BY <2>1, <2>2
  <2> QED BY <2>1, <2>2, <2>3 DEF CreatorPart
<1>3. 0 <= b.gross
  BY DEF CashEntries, Gives
<1> QED BY <1>1, <1>2, <1>3, PartsOfNothing DEF Explains

\* A reversal goes on from what was taken back before.
LEMMA ReversalExplains ==
  ASSUME NEW B, IsFiniteSet(B), B \subseteq CashEntries, NEW o, NEW n \in Nat, Explains(B, o, n),
         NEW t \in Nat, n < t, t <= o.gross, NEW b \in CashEntries, b.upto = t, b.gross = n - t,
         b.hq = -HqPart(o, t) - HqOf(B \ {o}), b.creator = -CreatorPart(o, t) - CreatorOf(B \ {o})
  PROVE  b \notin B /\ Explains(B \cup {b}, o, t)
<1>1. o \in CashEntries /\ o.gross \in Int /\ o.hq \in Int /\ o.creator \in Int
  BY DEF Explains, CashEntries
<1>2. 0 <= o.hq /\ o.hq <= o.gross
  BY <1>1 DEF Explains, Gives
<1>3. /\ HqPart(o, n) \in Int /\ HqPart(o, t) \in Int /\ HqPart(o, n) <= HqPart(o, t)
  BY <1>1, <1>2, HqPartGrows
<1>4. /\ CreatorPart(o, n) \in Int /\ CreatorPart(o, t) \in Int
      /\ CreatorPart(o, n) <= CreatorPart(o, t)
      /\ n - HqPart(o, n) - CreatorPart(o, n) <= t - HqPart(o, t) - CreatorPart(o, t)
  BY <1>1, CreatorPartGrows DEF Explains
<1> DEFINE rest == B \ {o}
<1>5. HqOf(rest) = -HqPart(o, n) /\ CreatorOf(rest) = -CreatorPart(o, n) /\ GrossOf(rest) = -n
  BY DEF Explains
<1>6. Takes(b)
  BY <1>3, <1>4, <1>5 DEF Takes
<1>7. b \notin B
  <2>1. \A x \in B : x.upto <= n
    BY DEF Explains
  <2> QED BY <2>1
<1>8. b # o /\ (B \cup {b}) \ {o} = rest \cup {b}
  BY <1>7 DEF Explains
<1>9. IsFiniteSet(rest) /\ rest \subseteq CashEntries
  BY FS_Subset
<1>10. /\ GrossOf(rest \cup {b}) = GrossOf(rest) + b.gross
       /\ HqOf(rest \cup {b}) = HqOf(rest) + b.hq
       /\ CreatorOf(rest \cup {b}) = CreatorOf(rest) + b.creator
  <2> HIDE DEF rest
  <2> QED BY <1>7, <1>9, PartsAdd DEF rest
<1>11. /\ GrossOf(rest \cup {b}) = -t
       /\ HqOf(rest \cup {b}) = -HqPart(o, t)
       /\ CreatorOf(rest \cup {b}) = -CreatorPart(o, t)
  BY <1>3, <1>4, <1>5, <1>10
<1>12. \A x \in rest \cup {b} : 0 < x.upto /\ x.upto <= t /\ Takes(x)
  <2>1. \A x \in rest : 0 < x.upto /\ x.upto <= n /\ Takes(x) /\ x.upto \in Nat
    BY <1>9 DEF Explains, CashEntries
  <2> QED BY <1>6, <2>1
<1>13. o \in B \cup {b} /\ o.upto = 0 /\ Gives(o)
  BY DEF Explains
<1> HIDE DEF rest
<1> QED BY <1>7, <1>8, <1>11, <1>12, <1>13 DEF Explains

-----------------------------------------------------------------------------
(* First entries.                                                        *)

\* Among some entries there is at most one first one.
OneOriginal(B) == \A a, b \in B : a.upto = 0 /\ b.upto = 0 => a = b

\* The entries of an event have one first entry, which the reversals are reversals of.
LEMMA FairHasOneOriginal ==
  ASSUME NEW B, NEW e, e.state \in {"unvalued", "posted"}, FairEntries(B, e)
  PROVE  /\ OneOriginal(B)
         /\ B # {} => \E o \in B : Explains(B, o, e.refunded)
                                   /\ (e.basis = "gross" => o.gross = CashValue(Gross[e.source], e))
<1>1. CASE e.state = "unvalued"
  BY <1>1 DEF FairEntries, OneOriginal
<1>2. CASE e.state = "posted"
  <2>1. PICK o \in B : Explains(B, o, e.refunded)
                       /\ (e.basis = "gross" => o.gross = CashValue(Gross[e.source], e))
    BY <1>2 DEF FairEntries
  <2>2. \A b \in B \ {o} : 0 < b.upto
    BY <2>1 DEF Explains
  <2>3. \A b \in B : b.upto = 0 => b = o
    BY <2>2
  <2> QED BY <2>1, <2>3 DEF OneOriginal
<1> QED BY <1>1, <1>2

\* What is taken back of an event is its share of the consumed cash refunded.
LEMMA TakenBackIsShare ==
  ASSUME NEW E, NEW B, NEW e, NEW c, OneOriginal(EntriesOf(B, e))
  PROVE  /\ EntriesOf(B, e) = {} => TakenBack(E, B, e, c) = 0
         /\ \A o \in EntriesOf(B, e) : o.upto = 0 =>
              /\ Original(B, e) = o
              /\ TakenBack(E, B, e, c) =
                   TakenShare(o.gross, Recognized(E, e.source),
                     Consumed(Recognized(E, e.source), Gross[e.source], c[e.source].refunded))
<1>1. ASSUME NEW o \in EntriesOf(B, e), o.upto = 0 PROVE Original(B, e) = o
  BY <1>1 DEF Original, OneOriginal
<1>2. ASSUME NEW o \in EntriesOf(B, e), o.upto = 0
      PROVE  TakenBack(E, B, e, c) =
               TakenShare(o.gross, Recognized(E, e.source),
                 Consumed(Recognized(E, e.source), Gross[e.source], c[e.source].refunded))
  <2>1. EntriesOf(B, e) # {}
    BY <1>2
  <2>2. Original(B, e) = o
    BY <1>1, <1>2
  <2> QED BY <2>1, <2>2 DEF TakenBack, TakenShare, RefundedConsumption, Consumed
<1>3. EntriesOf(B, e) = {} => TakenBack(E, B, e, c) = 0
  BY DEF TakenBack
<1> QED BY <1>1, <1>2, <1>3

\* What is taken back of an event with fair entries is a part of it.
LEMMA TakenBackBounds ==
  ASSUME NEW E, NEW B, NEW e, NEW c, e.state \in {"unvalued", "posted"}, e.source \in Sources,
         EntriesOf(B, e) \subseteq CashEntries,
         FairEntries(EntriesOf(B, e), e), Recognized(E, e.source) \in Nat, CashAmounts(c)
  PROVE  /\ TakenBack(E, B, e, c) \in Nat
         /\ EntriesOf(B, e) = {} => TakenBack(E, B, e, c) = 0
         /\ \A o \in EntriesOf(B, e) : o.upto = 0 => TakenBack(E, B, e, c) <= o.gross
<1> DEFINE S == EntriesOf(B, e)
           n == Recognized(E, e.source)
           m == Consumed(n, Gross[e.source], c[e.source].refunded)
           T == TakenBack(E, B, e, c)
<1>1. OneOriginal(S)
  BY FairHasOneOriginal
<1>2. m \in Nat /\ m <= n
  <2>1. Gross[e.source] \in Nat /\ c[e.source].refunded \in Nat /\ c[e.source].refunded <= Gross[e.source]
    BY AmountsAssumption DEF CashAmounts
  <2> QED BY <2>1, ConsumedBounds
<1>3. ASSUME NEW o \in S, o.upto = 0 PROVE T \in Nat /\ T <= o.gross
  <2>1. o.gross \in Nat
    <3>1. PICK a \in S : Explains(S, a, e.refunded)
      BY <1>3, FairHasOneOriginal
    <3>2. a = o
      BY <1>1, <1>3, <3>1 DEF OneOriginal, Explains
    <3> QED BY <3>1, <3>2 DEF Explains, Gives, CashEntries
  <2>2. T = TakenShare(o.gross, n, m)
    BY <1>1, <1>3, TakenBackIsShare
  <2> HIDE DEF T, m, n
  <2>3. n \in Nat
    BY DEF n
  <2> QED BY <1>2, <2>1, <2>2, <2>3, TakenShareBounds
<1>4. S = {} => T = 0
  BY TakenBackIsShare, <1>1
<1>5. S # {} => T \in Nat
  <2>1. ASSUME S # {} PROVE T \in Nat
    <3>1. PICK o \in S : Explains(S, o, e.refunded)
      BY <2>1, FairHasOneOriginal
    <3> QED BY <1>3, <3>1 DEF Explains
  <2> QED BY <2>1
<1> QED BY <1>3, <1>4, <1>5

\* The first entry of an event that can be valued gives to every party.
LEMMA EntryIsFair ==
  ASSUME NEW e \in RevenueEvents, NEW accept \in BOOLEAN, NEW c, CashAmounts(c),
         basis \in {"none", "gross", "net"}, share \in Shares \cup {NoShare},
         month \in Nat, month \notin closed,
         NEW b \in CashEntry(e, accept, c)
  PROVE  /\ CashEntry(e, accept, c) = {b}
         /\ b \in CashEntries /\ b.event = EventKey(e) /\ b.upto = 0 /\ Gives(b)
         /\ b.status = "pending" /\ b.month \notin closed
         /\ e.state = "unvalued" /\ BasisOf(e) # "none"
         /\ BasisOf(e) = "gross" => b.gross = CashValue(Gross[e.source], e)
         /\ ShareOf(e, accept) \in Shares
<1> DEFINE amount == IF BasisOf(e) = "gross" THEN Gross[e.source] ELSE c[e.source].net
           s == ShareOf(e, accept)
           total == CashValue(amount, e)
           entry == [event |-> EventKey(e), upto |-> 0, gross |-> total, hq |-> (total * s.hq) \div 10000,
                     creator |-> (total * s.creator) \div 10000,
                     month |-> IF e.month \in closed THEN month ELSE e.month, status |-> "pending"]
<1>1. CashEntry(e, accept, c) =
        IF e.state = "posted" \/ BasisOf(e) = "none" \/ s = NoShare \/ amount = Unknown THEN {} ELSE {entry}
  BY DEF CashEntry
<1>2. /\ e.state # "posted" /\ BasisOf(e) # "none" /\ s # NoShare /\ amount # Unknown
      /\ b = entry
  <2> HIDE DEF entry, s, amount
  <2> QED BY <1>1
<1>3. /\ e.source \in Sources /\ e.start \in Nat /\ e.points \in Nat /\ e.month \in Nat
      /\ e.title \in Titles /\ e.state \in {"unvalued", "posted"} /\ e.share \in Shares \cup {NoShare}
  BY DEF RevenueEvents
<1>4. s \in Shares
  BY <1>2, <1>3 DEF ShareOf
<1>5. s.hq \in Nat /\ s.creator \in Nat /\ s.hq + s.creator <= 10000
  <2> HIDE DEF s
  <2> QED BY <1>4, AmountsAssumption
<1>6. amount \in Nat
  BY <1>2, <1>3, AmountsAssumption DEF CashAmounts, Unknown
<1>7. total \in Nat
  <2> HIDE DEF amount
  <2> QED BY <1>3, <1>6, CashValueIsNatural
<1> DEFINE hq == (total * s.hq) \div 10000
           creator == (total * s.creator) \div 10000
<1>8. hq \in Int /\ creator \in Int /\ hq >= 0 /\ creator >= 0 /\ hq + creator <= total
  <2>1. ASSUME NEW x \in Nat, NEW y \in Nat, NEW z \in Nat, y + z <= 10000
        PROVE  /\ (x * y) \div 10000 >= 0 /\ (x * z) \div 10000 >= 0
               /\ (x * y) \div 10000 \in Int /\ (x * z) \div 10000 \in Int
               /\ (x * y) \div 10000 + (x * z) \div 10000 <= x
    <3> DEFINE p == (x * y) \div 10000
               q == (x * z) \div 10000
    <3>1. p \in Int /\ 10000 * p <= x * y /\ x * y < 10000 * p + 10000
      BY QuotientBounds
    <3>2. q \in Int /\ 10000 * q <= x * z /\ x * z < 10000 * q + 10000
      BY QuotientBounds
    <3>3. 0 <= x * y /\ 0 <= x * z
      BY ProductGrows
    <3>4. x * y + x * z = x * (y + z) /\ x * (y + z) <= x * 10000
      BY <2>1, ProductGrows
    <3> HIDE DEF p, q
    <3>5. p >= 0 /\ q >= 0 /\ p + q <= x
      BY <3>1, <3>2, <3>3, <3>4
    <3> QED BY <3>1, <3>2, <3>5 DEF p, q
  <2> HIDE DEF total, s
  <2> QED BY <1>5, <1>7, <2>1
<1>9. entry = [event |-> EventKey(e), upto |-> 0, gross |-> total, hq |-> hq, creator |-> creator,
               month |-> IF e.month \in closed THEN month ELSE e.month, status |-> "pending"]
  OBVIOUS
<1>10. EventKey(e) \in Titles \X Sources \X Nat
  BY <1>3 DEF EventKey
<1>11. BasisOf(e) = "gross" => total = CashValue(Gross[e.source], e)
  OBVIOUS
<1>12. CashEntry(e, accept, c) = {b}
  <2> HIDE DEF entry, s, amount
  <2> QED BY <1>1, <1>2
<1>13. (IF e.month \in closed THEN month ELSE e.month) \in Nat
       /\ (IF e.month \in closed THEN month ELSE e.month) \notin closed
  BY <1>3
<1> HIDE DEF entry, total, hq, creator, amount
<1>14. /\ b.event = EventKey(e) /\ b.upto = 0 /\ b.gross = total /\ b.hq = hq /\ b.creator = creator
       /\ b.month = (IF e.month \in closed THEN month ELSE e.month) /\ b.status = "pending"
  BY <1>2, <1>9
<1>15. b \in CashEntries
  BY <1>2, <1>7, <1>8, <1>9, <1>10, <1>13 DEF CashEntries
<1> QED BY <1>2, <1>3, <1>4, <1>7, <1>8, <1>11, <1>12, <1>13, <1>14, <1>15 DEF Gives

-----------------------------------------------------------------------------
(* Reversals.                                                            *)

\* What the reversal of an event adds leaves its entries fair, and exact.
LEMMA ReversalIsFair ==
  ASSUME NEW E, NEW B, NEW e \in RevenueEvents, NEW v \in RevenueEvents, NEW c,
         EventKey(v) = EventKey(e), v.points = e.points, v.refunded = e.refunded,
         EntriesOf(B, e) \subseteq CashEntries, IsFiniteSet(EntriesOf(B, e)),
         FairEntries(EntriesOf(B, e), v),
         Recognized(E, e.source) \in Nat, CashAmounts(c), month \in Nat,
         e.refunded <= TakenBack(E, B, e, c)
  PROVE  LET T == TakenBack(E, B, e, c)
             S == EntriesOf(B, e) \cup Reversal(E, B, e, c)
         IN /\ T \in Nat
            /\ FairEntries(S, [v EXCEPT !.refunded = T])
            /\ IsFiniteSet(Reversal(E, B, e, c))
            /\ \A b \in Reversal(E, B, e, c) :
                 /\ b \in CashEntries /\ b.event = EventKey(e) /\ b.upto # 0
                 /\ b.month = month /\ b.status = "pending"
<1> DEFINE T == TakenBack(E, B, e, c)
           S == EntriesOf(B, e)
           o == Original(B, e)
           w == [v EXCEPT !.refunded = T]
           b == [event |-> EventKey(e), upto |-> T, gross |-> e.refunded - T,
                 hq |-> -HqPart(o, T) - HqOf(S \ {o}), creator |-> -CreatorPart(o, T) - CreatorOf(S \ {o}),
                 month |-> month, status |-> "pending"]
<1>1. /\ e.source \in Sources /\ v.source = e.source /\ e.refunded \in Nat
      /\ v.state \in {"unvalued", "posted"} /\ e.state \in {"unvalued", "posted"}
      /\ EventKey(e) \in Titles \X Sources \X Nat /\ v.start = e.start
  BY DEF RevenueEvents, EventKey
<1>2. EntriesOf(B, v) = S /\ Original(B, v) = o
  BY DEF EntriesOf, Original
<1>3. TakenBack(E, B, v, c) = T
  BY <1>1, <1>2 DEF TakenBack
<1>4. /\ T \in Nat
      /\ S = {} => T = 0
      /\ \A a \in S : a.upto = 0 => T <= a.gross
  <2>1. /\ EntriesOf(B, v) \subseteq CashEntries /\ FairEntries(EntriesOf(B, v), v)
        /\ Recognized(E, v.source) \in Nat /\ v.source \in Sources
    BY <1>1, <1>2
  <2>2. /\ TakenBack(E, B, v, c) \in Nat
        /\ EntriesOf(B, v) = {} => TakenBack(E, B, v, c) = 0
        /\ \A a \in EntriesOf(B, v) : a.upto = 0 => TakenBack(E, B, v, c) <= a.gross
    BY <1>1, <2>1, TakenBackBounds
  <2> HIDE DEF T, S
  <2> QED BY <1>2, <1>3, <2>2
<1>5. Reversal(E, B, e, c) = IF T <= e.refunded THEN {} ELSE {b}
  BY DEF Reversal, HqPart, CreatorPart
<1>6. w.state = v.state /\ w.basis = v.basis /\ w.source = v.source /\ w.refunded = T
      /\ w.start = v.start /\ w.points = v.points
  BY DEF RevenueEvents
<1>7. \A a : CashValue(a, w) = CashValue(a, v)
  BY <1>6 DEF CashValue
<1>10. FairEntries(S, v)
  OBVIOUS
<1>8. CASE T <= e.refunded
  <2>1. T = e.refunded
    BY <1>1, <1>4, <1>8
  <2>2. FairEntries(S, w)
    <3> HIDE DEF w, T, S
    <3> QED BY <1>6, <1>7, <1>10, <2>1 DEF FairEntries
  <2>3. Reversal(E, B, e, c) = {}
    BY <1>5, <1>8
  <2> HIDE DEF w, T, S, b
  <2>4. S \cup {} = S /\ IsFiniteSet({})
    BY FS_EmptySet
  <2> QED BY <1>4, <2>2, <2>3, <2>4 DEF w, T, S
<1>9. CASE e.refunded < T
  <2>1. S # {} /\ v.state = "posted"
    BY <1>1, <1>4, <1>9 DEF FairEntries
  <2>2. OneOriginal(S)
    BY <1>1, FairHasOneOriginal
  <2>3. PICK a \in S : Explains(S, a, v.refunded)
                       /\ (v.basis = "gross" => a.gross = CashValue(Gross[v.source], v))
    BY <1>1, <2>1, FairHasOneOriginal
  <2>4. o = a
    BY <2>2, <2>3, TakenBackIsShare DEF Explains
  <2>5. T <= o.gross /\ o \in CashEntries
    BY <1>4, <2>3, <2>4 DEF Explains
  <2> HIDE DEF T, S, o
  <2>6. /\ o.gross \in Int /\ o.hq \in Int /\ o.creator \in Int /\ Gives(o)
    BY <2>3, <2>4, <2>5 DEF CashEntries, Explains
  <2>7. HqPart(o, T) \in Int /\ CreatorPart(o, T) \in Int
    <3>1. 0 <= o.hq /\ o.hq <= o.gross
      BY <2>6 DEF Gives
    <3>2. HqPart(o, T) \in Int
      BY <1>4, <2>5, <2>6, <3>1, HqPartGrows
    <3>3. CreatorPart(o, T) \in Int
      BY <1>4, <2>5, <2>6, CreatorPartGrows
    <3> QED BY <3>2, <3>3
  <2>8. HqOf(S \ {o}) \in Int /\ CreatorOf(S \ {o}) \in Int
    <3>1. S \ {o} \subseteq CashEntries /\ IsFiniteSet(S \ {o}) /\ o \notin S \ {o}
      BY FS_Subset DEF S
    <3> QED BY <2>5, <3>1, PartsAdd
  <2>9. b \in CashEntries
    BY <1>1, <1>4, <2>7, <2>8 DEF CashEntries
  <2>10. /\ b.event = EventKey(e) /\ b.upto = T /\ b.gross = e.refunded - T /\ b.month = month
         /\ b.status = "pending"
         /\ b.hq = -HqPart(o, T) - HqOf(S \ {o}) /\ b.creator = -CreatorPart(o, T) - CreatorOf(S \ {o})
    OBVIOUS
  <2> HIDE DEF b
  <2>11. IsFiniteSet(S) /\ S \subseteq CashEntries
    BY DEF S
  <2>12. Explains(S, o, e.refunded)
    BY <2>3, <2>4
  <2>13. Explains(S \cup {b}, o, T)
    BY <1>1, <1>4, <1>9, <2>5, <2>9, <2>10, <2>11, <2>12, ReversalExplains
  <2>14. w.basis = "gross" => o.gross = CashValue(Gross[w.source], w)
    BY <1>6, <1>7, <2>3, <2>4
  <2> HIDE DEF w
  <2>15. FairEntries(S \cup {b}, w)
    BY <1>6, <2>1, <2>3, <2>4, <2>13, <2>14 DEF FairEntries
  <2>16. Reversal(E, B, e, c) = {b}
    BY <1>1, <1>4, <1>5, <1>9
  <2>17. IsFiniteSet({b})
    BY FS_Singleton
  <2>18. b.upto # 0
    BY <1>1, <1>4, <1>9, <2>10
  <2> QED BY <1>4, <2>9, <2>10, <2>15, <2>16, <2>17, <2>18 DEF w, T, S
<1> QED BY <1>1, <1>4, <1>8, <1>9

\* What the ledger says of the events, and the months its entries are in.
FairBook(r) ==
  /\ IsFiniteSet(r.events) /\ r.events \subseteq RevenueEvents
  /\ IsFiniteSet(r.book) /\ r.book \subseteq CashEntries
  /\ \A d, e \in r.events : EventKey(d) = EventKey(e) => d = e
  /\ \A b \in r.book : \E e \in r.events : b.event = EventKey(e)
  /\ \A e \in r.events : FairEntries(EntriesOf(r.book, e), e)

MonthsAreRight(r, over) ==
  /\ \A b \in r.book : b.month \in over <=> b.status = "settled"
  /\ \A e \in r.events : e.month \in over => e.state = "posted"

\* What is taken back of every event is exactly what its source says.
Exact(r, c) == \A e \in r.events : e.refunded = TakenBack(r.events, r.book, e, c)

\* Recognized is a natural number, and says the same of events whose ranges are the same.
LEMMA RecognizedIsNatural ==
  ASSUME NEW E, IsFiniteSet(E), E \subseteq RevenueEvents, NEW s \in Sources
  PROVE  Recognized(E, s) \in Nat
<1> DEFINE own == EventsOf(E, s)
           f == [e \in own |-> CashValue(Gross[s], e)]
<1>1. IsFiniteSet(own) /\ \A e \in own : e \in RevenueEvents
  <2>1. own \in SUBSET E
    BY DEF EventsOf
  <2> QED BY <2>1, FS_Subset
<1>2. \A e \in own : f[e] \in Nat
  <2>1. ASSUME NEW e \in own PROVE CashValue(Gross[s], e) \in Nat
    <3>1. e.start \in Nat /\ e.points \in Nat /\ e.source \in Sources
      BY <1>1 DEF RevenueEvents
    <3>2. Gross[s] \in Nat
      BY AmountsAssumption
    <3> QED BY <3>1, <3>2, CashValueIsNatural
  <2> QED BY <2>1
<1>3. Recognized(E, s) = SumFunctionOnSet(f, own)
  BY DEF Recognized
<1> HIDE DEF f, own
<1> QED BY <1>1, <1>2, <1>3, SumsAreNatural

\* What events were valued at depends on their ranges, not on what was posted of them.
LEMMA RecognizedKept ==
  ASSUME NEW E, IsFiniteSet(E), E \subseteq RevenueEvents,
         \A d, e \in E : EventKey(d) = EventKey(e) => d = e,
         NEW g, \A e \in E : EventKey(g[e]) = EventKey(e) /\ g[e].points = e.points,
         NEW s \in Sources
  PROVE  Recognized({g[e] : e \in E}, s) = Recognized(E, s)
<1> DEFINE own == EventsOf(E, s)
           new == EventsOf({g[e] : e \in E}, s)
           f == [e \in own |-> CashValue(Gross[s], e)]
           h == [e \in new |-> CashValue(Gross[s], e)]
<1>1. own \in SUBSET E /\ IsFiniteSet(own)
  <2>1. own \in SUBSET E
    BY DEF EventsOf
  <2> QED BY <2>1, FS_Subset
<1>2. \A e \in E : g[e].source = e.source /\ g[e].start = e.start
  BY DEF EventKey
<1>3. new = {g[e] : e \in own}
  BY <1>2 DEF EventsOf
<1>4. \A e \in own : f[e] \in Int /\ h[g[e]] = f[e]
  <2>1. ASSUME NEW e \in own PROVE CashValue(Gross[s], e) \in Nat /\ CashValue(Gross[s], g[e]) = CashValue(Gross[s], e)
    <3>1. e.start \in Nat /\ e.points \in Nat /\ e.source \in Sources
      BY <1>1 DEF RevenueEvents
    <3>2. Gross[s] \in Nat
      BY AmountsAssumption
    <3>3. CashValue(Gross[s], g[e]) = CashValue(Gross[s], e)
      BY <1>1, <1>2 DEF CashValue
    <3> QED BY <3>1, <3>2, <3>3, CashValueIsNatural
  <2>2. \A e \in own : g[e] \in new
    BY <1>3
  <2> HIDE DEF own, new
  <2> QED BY <2>1, <2>2
<1>5. \A d, e \in own : g[d] = g[e] => d = e
  <2>1. ASSUME NEW d \in own, NEW e \in own, g[d] = g[e] PROVE d = e
    <3>1. EventKey(d) = EventKey(e)
      BY <1>1, <2>1
    <3> QED BY <1>1, <3>1
  <2> QED BY <2>1
<1>6. Recognized(E, s) = SumFunctionOnSet(f, own) /\ Recognized({g[e] : e \in E}, s) = SumFunctionOnSet(h, new)
  BY DEF Recognized
<1> HIDE DEF f, h, own, new
<1>7. SumFunctionOnSet(h, {g[e] : e \in own}) = SumFunctionOnSet(f, own)
  BY ONLY <1>1, <1>4, <1>5, SumOfImage
<1> QED BY <1>3, <1>6, <1>7

-----------------------------------------------------------------------------
(* Posting.                                                              *)

\* A finite set has a finite image.
LEMMA ImagesAreFinite ==
  ASSUME NEW S, IsFiniteSet(S), NEW f
  PROVE  IsFiniteSet({f[x] : x \in S})
<1> DEFINE T == {f[x] : x \in S}
           g == [x \in S |-> f[x]]
<1>1. g \in Surjection(S, T)
  BY DEF Surjection
<1> HIDE DEF T, g
<1>2. IsFiniteSet(T)
  BY <1>1, FS_Surjection
<1> QED BY <1>2 DEF T

\* Finitely many finite sets have a finite union.
LEMMA UnionsAreFinite ==
  ASSUME NEW S, IsFiniteSet(S), NEW f, \A x \in S : IsFiniteSet(f[x])
  PROVE  IsFiniteSet(UNION {f[x] : x \in S})
<1> DEFINE T == {f[x] : x \in S}
<1>1. IsFiniteSet(T) /\ \A t \in T : IsFiniteSet(t)
  BY ImagesAreFinite
<1> HIDE DEF T
<1>2. IsFiniteSet(UNION T)
  BY <1>1, FS_UNION
<1> QED BY <1>2 DEF T

\* post_cash_event leaves the ledger fair and exact.
LEMMA PostKeepsFair ==
  ASSUME NEW r, FairBook(r), NEW W \in SUBSET r.events, NEW accept \in BOOLEAN,
         NEW c, CashAmounts(c), basis \in {"none", "gross", "net"}, share \in Shares \cup {NoShare},
         month \in Nat, month \notin closed, MonthsAreRight(r, closed),
         \A e \in r.events : e.refunded <= TakenBack(r.events, r.book, e, c),
         \A e \in r.events \ W : e.refunded = TakenBack(r.events, r.book, e, c)
  PROVE  LET q == PostCashEvents(r, W, accept, c)
         IN /\ FairBook(q) /\ Exact(q, c) /\ MonthsAreRight(q, closed)
            /\ \A d \in q.events : \E e \in r.events : EventKey(d) = EventKey(e)
<1> DEFINE q == PostCashEvents(r, W, accept, c)
           entry == [e \in W |-> CashEntry(e, accept, c)]
           first == r.book \cup UNION {entry[e] : e \in W}
           T == [e \in r.events |-> TakenBack(r.events, first, e, c)]
           reversal == [e \in W |-> Reversal(r.events, first, e, c)]
           valued == [e \in W |-> IF entry[e] = {} THEN e
                        ELSE [e EXCEPT !.state = "posted", !.basis = BasisOf(e), !.share = ShareOf(e, accept)]]
           posted == [e \in W |-> [valued[e] EXCEPT !.refunded = Greatest(@, T[e])]]
           g == [e \in r.events |-> IF e \in W THEN posted[e] ELSE e]
           last == first \cup UNION {reversal[e] : e \in W}
\* The pieces.
<1>1. q = [events |-> (r.events \ W) \cup {posted[e] : e \in W}, book |-> last]
  <2> DEFINE given(e) == CashEntry(e, accept, c)
             one == r.book \cup UNION {given(e) : e \in W}
             taken(e) == Reversal(r.events, one, e, c)
             told(e) == IF given(e) = {} THEN e
                        ELSE [e EXCEPT !.state = "posted", !.basis = BasisOf(e), !.share = ShareOf(e, accept)]
             kept(e) == [told(e) EXCEPT !.refunded = Greatest(@, TakenBack(r.events, one, e, c))]
  <2>1. q = [events |-> (r.events \ W) \cup {kept(e) : e \in W}, book |-> one \cup UNION {taken(e) : e \in W}]
    BY DEF PostCashEvents
  <2>2. first = one
    <3>1. \A e \in W : entry[e] = given(e)
      OBVIOUS
    <3> HIDE DEF entry, given
    <3> QED BY <3>1
  <2>3. \A e \in W : reversal[e] = taken(e)
    <3>1. \A e \in W : reversal[e] = Reversal(r.events, first, e, c)
      OBVIOUS
    <3> HIDE DEF first, reversal, one
    <3> QED BY <2>2, <3>1
  <2>4. \A e \in W : posted[e] = kept(e)
    <3>1. \A e \in W : valued[e] = told(e)
      OBVIOUS
    <3>2. \A e \in W : T[e] = TakenBack(r.events, first, e, c)
      OBVIOUS
    <3>3. \A e \in W : posted[e] = [valued[e] EXCEPT !.refunded = Greatest(@, T[e])]
      OBVIOUS
    <3> HIDE DEF posted, valued, T, first, one, told
    <3> QED BY <2>2, <3>1, <3>2, <3>3
  <2> HIDE DEF q, posted, reversal, first, one, kept, taken
  <2> QED BY <2>1, <2>2, <2>3, <2>4
<1>2. q.events = {g[e] : e \in r.events} /\ q.book = last
  <2>1. {g[e] : e \in r.events} = (r.events \ W) \cup {posted[e] : e \in W}
    <3> HIDE DEF posted
    <3> QED OBVIOUS
  <2> HIDE DEF q, g, last, posted
  <2> QED BY <1>1, <2>1
<1>3. /\ IsFiniteSet(r.events) /\ r.events \subseteq RevenueEvents
      /\ IsFiniteSet(r.book) /\ r.book \subseteq CashEntries
      /\ \A d, e \in r.events : EventKey(d) = EventKey(e) => d = e
      /\ \A b \in r.book : \E e \in r.events : b.event = EventKey(e)
      /\ \A e \in r.events : FairEntries(EntriesOf(r.book, e), e)
  BY DEF FairBook
<1>4. ASSUME NEW e \in W, NEW b \in entry[e]
      PROVE  /\ entry[e] = {b}
             /\ b \in CashEntries /\ b.event = EventKey(e) /\ b.upto = 0 /\ Gives(b)
             /\ b.status = "pending" /\ b.month \notin closed
             /\ e.state = "unvalued" /\ BasisOf(e) # "none"
             /\ BasisOf(e) = "gross" => b.gross = CashValue(Gross[e.source], e)
             /\ ShareOf(e, accept) \in Shares
  <2>1. b \in CashEntry(e, accept, c) /\ entry[e] = CashEntry(e, accept, c) /\ e \in RevenueEvents
    BY <1>3
  <2> HIDE DEF entry
  <2> QED BY <2>1, EntryIsFair
<1>5. /\ q.book = last /\ last = first \cup UNION {reversal[e] : e \in W}
      /\ first = r.book \cup UNION {entry[e] : e \in W}
  BY <1>2
<1>6. \A e \in W : reversal[e] = Reversal(r.events, first, e, c)
  BY DEF reversal
<1>7. \A e \in r.events : T[e] = TakenBack(r.events, first, e, c)
  BY DEF T
<1>8. \A e \in r.events : g[e] = IF e \in W THEN posted[e] ELSE e
  BY DEF g
<1>9. \A e \in W : posted[e] = [valued[e] EXCEPT !.refunded = Greatest(@, T[e])]
  BY DEF posted
<1> HIDE DEF q, last, reversal, T, g, posted
<1>10. \A e \in r.events : EntriesOf(first, e) = EntriesOf(r.book, e) \cup (IF e \in W THEN entry[e] ELSE {})
  <2>1. ASSUME NEW e \in r.events
        PROVE  EntriesOf(first, e) = EntriesOf(r.book, e) \cup (IF e \in W THEN entry[e] ELSE {})
    <3>1. ASSUME NEW d \in W, NEW b \in entry[d], b.event = EventKey(e) PROVE d = e
      BY <1>3, <1>4, <3>1
    <3>2. ASSUME e \in W, NEW b \in entry[e] PROVE b.event = EventKey(e)
      BY <1>4, <3>2
    <3> HIDE DEF first, entry
    <3> QED BY <1>5, <3>1, <3>2 DEF EntriesOf
  <2> QED BY <2>1
<1>11. \A e \in W : valued[e] = IF entry[e] = {} THEN e
          ELSE [e EXCEPT !.state = "posted", !.basis = BasisOf(e), !.share = ShareOf(e, accept)]
  BY DEF valued
<1> HIDE DEF entry, first, valued
\* Entries after the first half.
<1>12. ASSUME NEW e \in W
       PROVE  /\ valued[e] \in RevenueEvents /\ EventKey(valued[e]) = EventKey(e)
              /\ valued[e].points = e.points /\ valued[e].refunded = e.refunded
              /\ valued[e].month = e.month /\ valued[e].source = e.source
              /\ e.state = "posted" => valued[e].state = "posted"
              /\ FairEntries(EntriesOf(first, e), valued[e])
  <2>1. e \in RevenueEvents /\ FairEntries(EntriesOf(r.book, e), e)
    BY <1>3
  <2>2. CASE entry[e] = {}
    <3>1. valued[e] = e /\ EntriesOf(first, e) = EntriesOf(r.book, e)
      BY <1>10, <1>11, <2>2
    <3> QED BY <2>1, <3>1
  <2>3. CASE entry[e] # {}
    <3>1. PICK b \in entry[e] : TRUE
      BY <2>3
    <3>2. /\ entry[e] = {b}
          /\ b \in CashEntries /\ b.event = EventKey(e) /\ b.upto = 0 /\ Gives(b)
          /\ e.state = "unvalued" /\ BasisOf(e) # "none"
          /\ BasisOf(e) = "gross" => b.gross = CashValue(Gross[e.source], e)
          /\ ShareOf(e, accept) \in Shares
      BY <1>4
    <3>3. EntriesOf(r.book, e) = {} /\ e.refunded = 0
      BY <2>1, <3>2 DEF FairEntries
    <3>4. EntriesOf(first, e) = {b}
      BY <1>10, <3>2, <3>3
    <3>5. BasisOf(e) \in {"gross", "net"}
      BY <2>1, <3>2 DEF BasisOf, RevenueEvents
    <3>6. valued[e] = [e EXCEPT !.state = "posted", !.basis = BasisOf(e), !.share = ShareOf(e, accept)]
      BY <1>11, <3>2
    <3>7. /\ valued[e] \in RevenueEvents /\ valued[e].state = "posted" /\ valued[e].basis = BasisOf(e)
          /\ valued[e].title = e.title /\ valued[e].source = e.source /\ valued[e].start = e.start
          /\ valued[e].points = e.points /\ valued[e].refunded = e.refunded /\ valued[e].month = e.month
      BY <2>1, <3>2, <3>5, <3>6 DEF RevenueEvents
    <3>8. EventKey(valued[e]) = EventKey(e)
      BY <3>7 DEF EventKey
    <3>9. CashValue(Gross[e.source], valued[e]) = CashValue(Gross[e.source], e)
      BY <3>7 DEF CashValue
    <3>10. Explains({b}, b, 0)
      BY <3>2, FirstExplains
    <3>11. FairEntries({b}, valued[e])
      BY <3>2, <3>3, <3>7, <3>9, <3>10 DEF FairEntries
    <3> QED BY <3>4, <3>7, <3>8, <3>11
  <2> QED BY <2>2, <2>3
<1>13. \A e \in r.events : EntriesOf(first, e) \subseteq CashEntries /\ IsFiniteSet(EntriesOf(first, e))
  <2>1. ASSUME NEW e \in r.events PROVE EntriesOf(first, e) \subseteq CashEntries /\ IsFiniteSet(EntriesOf(first, e))
    <3>1. EntriesOf(r.book, e) \in SUBSET r.book /\ IsFiniteSet(EntriesOf(r.book, e))
      <4>1. EntriesOf(r.book, e) \in SUBSET r.book
        BY DEF EntriesOf
      <4> QED BY <1>3, <4>1, FS_Subset
    <3>2. CASE e \in W /\ entry[e] # {}
      <4>1. PICK b \in entry[e] : TRUE
        BY <3>2
      <4>2. entry[e] = {b} /\ b \in CashEntries
        BY <1>4, <3>2
      <4>3. EntriesOf(first, e) = EntriesOf(r.book, e) \cup {b}
        BY <1>10, <3>2, <4>2
      <4> QED BY <1>3, <3>1, <4>2, <4>3, FS_AddElement
    <3>3. CASE ~(e \in W /\ entry[e] # {})
      <4>1. EntriesOf(first, e) = EntriesOf(r.book, e)
        BY <1>10, <3>3
      <4> QED BY <1>3, <3>1, <4>1
    <3> QED BY <3>2, <3>3
  <2> QED BY <2>1
\* What is taken back.
<1>14. ASSUME NEW e \in r.events, EntriesOf(first, e) = EntriesOf(r.book, e)
       PROVE  T[e] = TakenBack(r.events, r.book, e, c)
  BY <1>7, <1>14 DEF TakenBack, Original
<1>15. \A s \in Sources : Recognized(r.events, s) \in Nat
  BY <1>3, RecognizedIsNatural
<1>16. ASSUME NEW e \in W PROVE e.refunded <= T[e] /\ e.refunded \in Nat /\ e.source \in Sources
  <2>1. e \in RevenueEvents /\ e.refunded \in Nat /\ e.source \in Sources
    BY <1>3 DEF RevenueEvents
  <2>2. CASE entry[e] = {}
    <3>1. EntriesOf(first, e) = EntriesOf(r.book, e)
      BY <1>10, <2>2
    <3>2. T[e] = TakenBack(r.events, r.book, e, c)
      BY <1>14, <3>1
    <3> QED BY <2>1, <3>2
  <2>3. CASE entry[e] # {}
    <3>1. PICK b \in entry[e] : TRUE
      BY <2>3
    <3>2. e.state = "unvalued"
      BY <1>4
    <3>3. e.refunded = 0
      BY <1>3, <3>2 DEF FairEntries
    <3> DEFINE v == valued[e]
    <3>4. EntriesOf(first, v) = EntriesOf(first, e) /\ Original(first, v) = Original(first, e) /\ v.source = e.source
      BY <1>12 DEF EntriesOf, Original
    <3>5. TakenBack(r.events, first, v, c) = T[e]
      BY <1>7, <3>4 DEF TakenBack
    <3>6. /\ v.state \in {"unvalued", "posted"} /\ v.source \in Sources
          /\ EntriesOf(first, v) \subseteq CashEntries /\ FairEntries(EntriesOf(first, v), v)
      BY <1>12, <1>13, <3>4 DEF RevenueEvents
    <3> HIDE DEF v
    <3>7. TakenBack(r.events, first, v, c) \in Nat
      BY <1>15, <3>6, TakenBackBounds
    <3> QED BY <2>1, <3>3, <3>5, <3>7
  <2> QED BY <2>2, <2>3
\* The second half.
<1>17. ASSUME NEW e \in W
       PROVE  /\ T[e] \in Nat
              /\ g[e] = [valued[e] EXCEPT !.refunded = T[e]]
              /\ FairEntries(EntriesOf(first, e) \cup reversal[e], g[e])
              /\ IsFiniteSet(reversal[e])
              /\ \A b \in reversal[e] : /\ b \in CashEntries /\ b.event = EventKey(e) /\ b.upto # 0
                                        /\ b.month = month /\ b.status = "pending"
  <2> DEFINE v == valued[e]
             t == TakenBack(r.events, first, e, c)
             v2 == [v EXCEPT !.refunded = t]
  <2>1. /\ e \in RevenueEvents /\ v \in RevenueEvents /\ EventKey(v) = EventKey(e) /\ v.points = e.points
        /\ v.refunded = e.refunded /\ FairEntries(EntriesOf(first, e), v)
    BY <1>3, <1>12
  <2>2. EntriesOf(first, e) \subseteq CashEntries /\ IsFiniteSet(EntriesOf(first, e))
    BY <1>13
  <2>3. Recognized(r.events, e.source) \in Nat
    BY <1>15, <1>16
  <2>4. e.refunded <= t /\ t = T[e]
    BY <1>7, <1>16
  <2> HIDE DEF v
  <2>5. /\ t \in Nat
        /\ FairEntries(EntriesOf(first, e) \cup Reversal(r.events, first, e, c), v2)
        /\ IsFiniteSet(Reversal(r.events, first, e, c))
        /\ \A b \in Reversal(r.events, first, e, c) :
              /\ b \in CashEntries /\ b.event = EventKey(e) /\ b.upto # 0
              /\ b.month = month /\ b.status = "pending"
    BY <2>1, <2>2, <2>3, <2>4, ReversalIsFair
  <2>6. Greatest(v.refunded, t) = t
    BY <1>16, <2>1, <2>4, <2>5 DEF Greatest
  <2>7. g[e] = v2
    BY <1>8, <1>9, <2>4, <2>6 DEF v
  <2> HIDE DEF t
  <2> QED BY <1>6, <2>4, <2>5, <2>7 DEF v
<1>18. ASSUME NEW e \in r.events \ W
       PROVE  /\ T[e] = e.refunded /\ g[e] = e /\ EntriesOf(first, e) = EntriesOf(r.book, e)
  BY <1>8, <1>10, <1>14
<1>19. ASSUME NEW e \in r.events
       PROVE  /\ g[e] \in RevenueEvents /\ EventKey(g[e]) = EventKey(e) /\ g[e].points = e.points
              /\ g[e].refunded = T[e] /\ g[e].month = e.month /\ g[e].source = e.source
              /\ e.state = "posted" => g[e].state = "posted"
  <2>1. CASE e \in W
    <3> DEFINE v == valued[e]
    <3>1. v \in RevenueEvents /\ g[e] = [v EXCEPT !.refunded = T[e]] /\ T[e] \in Nat
      BY <1>12, <1>17, <2>1
    <3>2. /\ EventKey(v) = EventKey(e) /\ v.points = e.points /\ v.month = e.month /\ v.source = e.source
          /\ e.state = "posted" => v.state = "posted"
      BY <1>12, <2>1
    <3> HIDE DEF v
    <3>3. /\ g[e] \in RevenueEvents /\ g[e].refunded = T[e] /\ g[e].points = v.points
          /\ g[e].month = v.month /\ g[e].source = v.source /\ g[e].state = v.state
          /\ g[e].title = v.title /\ g[e].start = v.start
      BY <3>1 DEF RevenueEvents
    <3>4. EventKey(g[e]) = EventKey(v)
      BY <3>3 DEF EventKey
    <3> QED BY <3>2, <3>3, <3>4
  <2>2. CASE e \notin W
    BY <1>3, <1>18, <2>2
  <2> QED BY <2>1, <2>2
<1>20. ASSUME NEW e \in r.events
       PROVE  EntriesOf(last, g[e]) = EntriesOf(first, e) \cup (IF e \in W THEN reversal[e] ELSE {})
  <2>1. ASSUME NEW d \in W, NEW b \in reversal[d], b.event = EventKey(e) PROVE d = e
    <3>1. b.event = EventKey(d)
      BY <1>17
    <3> QED BY <1>3, <2>1, <3>1
  <2>2. ASSUME e \in W, NEW b \in reversal[e] PROVE b.event = EventKey(e)
    BY <1>17, <2>2
  <2> QED BY <1>5, <1>19, <2>1, <2>2 DEF EntriesOf
<1>21. ASSUME NEW e \in r.events PROVE FairEntries(EntriesOf(last, g[e]), g[e])
  <2>1. CASE e \in W
    BY <1>17, <1>20, <2>1
  <2>2. CASE e \notin W
    <3>1. EntriesOf(last, g[e]) = EntriesOf(r.book, e)
      BY <1>18, <1>20, <2>2
    <3> QED BY <1>3, <1>18, <2>2, <3>1
  <2> QED BY <2>1, <2>2
<1>22. \A s \in Sources : Recognized(q.events, s) = Recognized(r.events, s)
  <2>1. ASSUME NEW s \in Sources PROVE Recognized({g[e] : e \in r.events}, s) = Recognized(r.events, s)
    BY <1>3, <1>19, RecognizedKept
  <2> QED BY <1>2, <2>1
<1>23. ASSUME NEW e \in r.events PROVE g[e].refunded = TakenBack(q.events, q.book, g[e], c)
  <2> DEFINE S == EntriesOf(first, e)
             L == EntriesOf(last, g[e])
  <2>1. OneOriginal(L) /\ (L # {} => \E o \in L : Explains(L, o, g[e].refunded))
    BY <1>19, <1>21, FairHasOneOriginal DEF RevenueEvents
  <2>2. \A b \in L : b.upto = 0 => b \in S
    BY ZenonT(60), <1>17, <1>20
  <2>3. S \subseteq L
    BY <1>20
  <2>4. OneOriginal(S)
    BY <2>1, <2>3 DEF OneOriginal
  <2>5. CASE L = {}
    <3>1. S = {}
      BY <2>3, <2>5
    <3>2. TakenBack(q.events, last, g[e], c) = 0
      BY <2>1, <2>5, TakenBackIsShare
    <3>3. TakenBack(r.events, first, e, c) = 0
      BY <2>4, <3>1, TakenBackIsShare
    <3> QED BY <1>5, <1>7, <1>19, <3>2, <3>3
  <2>6. CASE L # {}
    <3>1. PICK o \in L : o.upto = 0
      BY <2>1, <2>6 DEF Explains
    <3>2. o \in S
      BY <2>2, <3>1
    <3>3. TakenBack(q.events, last, g[e], c) =
            TakenShare(o.gross, Recognized(q.events, g[e].source),
              Consumed(Recognized(q.events, g[e].source), Gross[g[e].source], c[g[e].source].refunded))
      BY <2>1, <3>1, TakenBackIsShare
    <3>4. TakenBack(r.events, first, e, c) =
            TakenShare(o.gross, Recognized(r.events, e.source),
              Consumed(Recognized(r.events, e.source), Gross[e.source], c[e.source].refunded))
      BY <2>4, <3>1, <3>2, TakenBackIsShare
    <3>5. e.source \in Sources /\ g[e].source = e.source
      BY <1>3, <1>19 DEF RevenueEvents
    <3> QED BY <1>5, <1>7, <1>19, <1>22, <3>3, <3>4, <3>5
  <2> QED BY <2>5, <2>6
\* The whole.
<1>24. IsFiniteSet(q.events)
  BY <1>2, <1>3, ImagesAreFinite
<1>25. IsFiniteSet(q.book)
  <2>1. \A e \in W : IsFiniteSet(entry[e])
    <3>1. ASSUME NEW e \in W PROVE IsFiniteSet(entry[e])
      <4>1. entry[e] = {} \/ \E b \in entry[e] : entry[e] = {b}
        BY <1>4
      <4>2. \A b : IsFiniteSet({b})
        BY FS_Singleton
      <4>3. IsFiniteSet({})
        BY FS_EmptySet
      <4> QED BY <4>1, <4>2, <4>3
    <3> QED BY <3>1
  <2>2. IsFiniteSet(W)
    BY <1>3, FS_Subset
  <2>3. IsFiniteSet(UNION {entry[e] : e \in W})
    BY <2>1, <2>2, UnionsAreFinite
  <2>4. \A e \in W : IsFiniteSet(reversal[e])
    BY <1>17
  <2>5. IsFiniteSet(UNION {reversal[e] : e \in W})
    BY <2>2, <2>4, UnionsAreFinite
  <2>6. IsFiniteSet(first)
    BY <1>3, <1>5, <2>3, FS_Union
  <2>7. IsFiniteSet(first \cup UNION {reversal[e] : e \in W})
    BY <2>5, <2>6, FS_Union
  <2> QED BY <1>5, <2>7
<1>26. ASSUME NEW b \in q.book
       PROVE  /\ b \in CashEntries
              /\ \E e \in r.events : b.event = EventKey(e)
              /\ b.month \in closed <=> b.status = "settled"
  <2>1. CASE b \in r.book
    BY <1>3, <2>1 DEF MonthsAreRight
  <2>2. CASE \E e \in W : b \in entry[e]
    BY <1>4, <2>2
  <2>3. CASE \E e \in W : b \in reversal[e]
    BY <1>17, <2>3
  <2> QED BY <1>5, <2>1, <2>2, <2>3
<1>27. FairBook(q)
  <2>1. q.events \subseteq RevenueEvents
    BY <1>2, <1>19
  <2>2. \A d, e \in q.events : EventKey(d) = EventKey(e) => d = e
    BY <1>2, <1>3, <1>19
  <2>3. \A b \in q.book : \E e \in q.events : b.event = EventKey(e)
    BY <1>2, <1>19, <1>26
  <2>4. \A e \in q.events : FairEntries(EntriesOf(q.book, e), e)
    BY <1>2, <1>5, <1>21
  <2> QED BY <1>24, <1>25, <1>26, <2>1, <2>2, <2>3, <2>4 DEF FairBook
<1>28. Exact(q, c)
  BY <1>2, <1>23 DEF Exact
<1>29. MonthsAreRight(q, closed)
  <2>1. \A e \in r.events : e.month \in closed => e.state = "posted"
    BY DEF MonthsAreRight
  <2> QED BY <1>2, <1>19, <1>26, <2>1 DEF MonthsAreRight
<1>30. \A d \in q.events : \E e \in r.events : EventKey(d) = EventKey(e)
  BY <1>2, <1>19
<1> QED BY <1>27, <1>28, <1>29, <1>30 DEF q

-----------------------------------------------------------------------------
(* What fair books say.                                                  *)

\* If no element exceeds by more than k, a sum exceeds by at most k per element.
LEMMA SumsCompareUpTo ==
  ASSUME NEW S, IsFiniteSet(S), NEW f, NEW g, NEW k \in Int,
         \A x \in S : f[x] \in Int /\ g[x] \in Int /\ f[x] <= g[x] + k
  PROVE  /\ SumFunctionOnSet(f, S) <= SumFunctionOnSet(g, S) + k * Cardinality(S)
         /\ Cardinality(S) \in Nat /\ SumFunctionOnSet(f, S) \in Int /\ SumFunctionOnSet(g, S) \in Int
<1> DEFINE Good == {X \in SUBSET S : SumFunctionOnSet(f, X) <= SumFunctionOnSet(g, X) + k * Cardinality(X)}
<1>1. {} \in Good
  <2>1. SumFunctionOnSet(f, {}) = 0 /\ SumFunctionOnSet(g, {}) = 0 /\ Cardinality({}) = 0
    BY SumOfNothing, FS_EmptySet
  <2> QED BY <2>1
<1>2. ASSUME NEW X \in SUBSET S, NEW x \in X, X \ {x} \in Good PROVE X \in Good
  <2>1. /\ SumFunctionOnSet(f, X) = f[x] + SumFunctionOnSet(f, X \ {x})
        /\ SumFunctionOnSet(f, X \ {x}) \in Int
    BY SumOfRest
  <2>2. /\ SumFunctionOnSet(g, X) = g[x] + SumFunctionOnSet(g, X \ {x})
        /\ SumFunctionOnSet(g, X \ {x}) \in Int
    BY SumOfRest
  <2>3. IsFiniteSet(X)
    BY FS_Subset
  <2>4. Cardinality(X \ {x}) = Cardinality(X) - 1 /\ Cardinality(X) \in Nat
    BY <2>3, FS_RemoveElement, FS_CardinalityType
  <2>5. k * Cardinality(X) = k * (Cardinality(X) - 1) + k
    BY <2>4
  <2>6. /\ f[x] <= g[x] + k /\ f[x] \in Int /\ g[x] \in Int
        /\ SumFunctionOnSet(f, X \ {x}) <= SumFunctionOnSet(g, X \ {x}) + k * Cardinality(X \ {x})
    BY <1>2
  <2>7. k * (Cardinality(X) - 1) \in Int
    BY <2>4
  <2> QED BY <2>1, <2>2, <2>4, <2>5, <2>6, <2>7
<1>3. Good \in SUBSET SUBSET S
  OBVIOUS
<1>4. S \in Good
  <2> HIDE DEF Good
  <2> QED BY <1>1, <1>2, <1>3, ElementByElement
<1>5. SumFunctionOnSet(f, S) \in Int /\ SumFunctionOnSet(g, S) \in Int
  BY SumsAreIntegers
<1> QED BY <1>4, <1>5, FS_CardinalityType

\* The entries of an event with fair entries: what they come to.
LEMMA FairTotals ==
  ASSUME NEW B, IsFiniteSet(B), B \subseteq CashEntries, NEW o, NEW n \in Nat, Explains(B, o, n)
  PROVE  /\ o \in CashEntries
         /\ GrossOf(B) = o.gross - n /\ HqOf(B) = o.hq - HqPart(o, n)
         /\ CreatorOf(B) = o.creator - CreatorPart(o, n)
<1> DEFINE rest == B \ {o}
<1>1. o \in CashEntries /\ rest \cup {o} = B /\ o \notin rest /\ rest \subseteq CashEntries
  BY DEF Explains
<1>2. IsFiniteSet(rest)
  BY FS_Subset
<1>3. GrossOf(rest) = -n /\ HqOf(rest) = -HqPart(o, n) /\ CreatorOf(rest) = -CreatorPart(o, n)
  BY DEF Explains
<1> HIDE DEF rest
<1>4. /\ GrossOf(rest) \in Int /\ GrossOf(rest \cup {o}) = GrossOf(rest) + o.gross
      /\ HqOf(rest) \in Int /\ HqOf(rest \cup {o}) = HqOf(rest) + o.hq
      /\ CreatorOf(rest) \in Int /\ CreatorOf(rest \cup {o}) = CreatorOf(rest) + o.creator
  BY <1>1, <1>2, PartsAdd
<1>5. o.gross \in Int /\ o.hq \in Int /\ o.creator \in Int
  BY <1>1 DEF CashEntries
<1>6. -HqPart(o, n) \in Int /\ -CreatorPart(o, n) \in Int
  BY <1>3, <1>4
<1>7. HqPart(o, n) \in Int /\ CreatorPart(o, n) \in Int
  <2>1. n <= o.gross /\ Gives(o) /\ 0 <= o.hq /\ o.hq <= o.gross
    BY <1>5 DEF Explains, Gives
  <2>2. HqPart(o, n) \in Int
    BY <1>5, <2>1, HqPartGrows
  <2>3. CreatorPart(o, n) \in Int
    BY <1>5, <2>1, CreatorPartGrows
  <2> QED BY <2>2, <2>3
<1>8. GrossOf(B) = GrossOf(rest \cup {o}) /\ HqOf(B) = HqOf(rest \cup {o}) /\ CreatorOf(B) = CreatorOf(rest \cup {o})
  BY <1>1
<1>9. GrossOf(B) = o.gross - n
  BY <1>3, <1>4, <1>5, <1>8
<1>10. HqOf(B) = o.hq - HqPart(o, n)
  BY <1>3, <1>4, <1>5, <1>7, <1>8
<1>11. CreatorOf(B) = o.creator - CreatorPart(o, n)
  BY <1>3, <1>4, <1>5, <1>7, <1>8
<1> QED BY <1>1, <1>9, <1>10, <1>11

\* No party of a fair ledger is ever taken more than it was given.
LEMMA FairOverchargesNobody ==
  ASSUME FairBook(Revenue)
  PROVE  NoPartyIsOvercharged
<1>1. /\ revenues \subseteq RevenueEvents /\ IsFiniteSet(book) /\ book \subseteq CashEntries
      /\ \A b \in book : \E e \in revenues : b.event = EventKey(e)
      /\ \A e \in revenues : FairEntries(EntriesOf(book, e), e)
  BY DEF FairBook, Revenue
<1>2. ASSUME NEW e \in revenues, EntriesOf(book, e) # {}
      PROVE  \E o \in EntriesOf(book, e) : Explains(EntriesOf(book, e), o, e.refunded)
  <2>1. e.state \in {"unvalued", "posted"}
    BY <1>1 DEF RevenueEvents
  <2> QED BY <1>1, <1>2, <2>1, FairHasOneOriginal
<1>3. ASSUME NEW b \in book
      PROVE  IF b.upto = 0 THEN Gives(b) ELSE Takes(b)
  <2>1. PICK e \in revenues : b.event = EventKey(e)
    BY <1>1
  <2>2. b \in EntriesOf(book, e)
    BY <2>1 DEF EntriesOf
  <2>3. PICK o \in EntriesOf(book, e) : Explains(EntriesOf(book, e), o, e.refunded)
    BY <1>2, <2>2
  <2>4. CASE b = o
    BY <2>3, <2>4 DEF Explains
  <2>5. CASE b # o
    BY <2>2, <2>3, <2>5 DEF Explains
  <2> QED BY <2>4, <2>5
<1>4. ASSUME NEW e \in revenues
      PROVE  LET B == EntriesOf(book, e)
             IN HqOf(B) >= 0 /\ CreatorOf(B) >= 0 /\ GrossOf(B) - HqOf(B) - CreatorOf(B) >= 0
  <2> DEFINE B == EntriesOf(book, e)
  <2>1. CASE B = {}
    BY <2>1, PartsOfNothing
  <2>2. CASE B # {}
    <3>1. PICK o \in B : Explains(B, o, e.refunded)
      BY <1>2, <2>2
    <3>2. B \in SUBSET book
      BY DEF EntriesOf
    <3> DEFINE n == e.refunded
    <3>3. n \in Nat /\ IsFiniteSet(B) /\ B \subseteq CashEntries
      BY <1>1, <3>2, FS_Subset DEF RevenueEvents
    <3>4. Explains(B, o, n)
      BY <3>1
    <3> HIDE DEF n, B
    <3>5. /\ o \in CashEntries
          /\ GrossOf(B) = o.gross - n /\ HqOf(B) = o.hq - HqPart(o, n)
          /\ CreatorOf(B) = o.creator - CreatorPart(o, n)
      BY <3>3, <3>4, FairTotals
    <3>6. o.gross \in Int /\ o.hq \in Int /\ o.creator \in Int /\ n <= o.gross /\ Gives(o)
      BY <3>4, <3>5 DEF CashEntries, Explains
    <3>7. 0 <= o.hq /\ o.hq <= o.gross
      BY <3>6 DEF Gives
    <3>8. HqPart(o, n) \in Int /\ HqPart(o, n) <= o.hq
      BY <3>3, <3>6, <3>7, HqPartGrows
    <3>9. /\ CreatorPart(o, n) \in Int /\ CreatorPart(o, n) <= o.creator
          /\ n - HqPart(o, n) - CreatorPart(o, n) <= o.gross - o.hq - o.creator
      BY <3>3, <3>6, CreatorPartGrows
    <3>10. HqOf(B) >= 0 /\ CreatorOf(B) >= 0 /\ GrossOf(B) - HqOf(B) - CreatorOf(B) >= 0
      BY <3>3, <3>5, <3>6, <3>8, <3>9
    <3> QED BY <3>10 DEF B
  <2> QED BY <2>1, <2>2
<1>5. ASSUME NEW b \in book
      PROVE  LET tenant == b.gross - b.hq - b.creator
             IN IF b.upto = 0 THEN b.gross >= 0 /\ b.hq >= 0 /\ b.creator >= 0 /\ tenant >= 0
                              ELSE b.gross <= 0 /\ b.hq <= 0 /\ b.creator <= 0 /\ tenant <= 0
  <2>1. b.gross \in Int /\ b.hq \in Int /\ b.creator \in Int
    BY <1>1 DEF CashEntries
  <2> QED BY <1>3, <2>1 DEF Gives, Takes
<1> QED BY <1>4, <1>5 DEF NoPartyIsOvercharged

\* What a fair and exact ledger claws back of a source.
LEMMA FairClawsBackTheExcess ==
  ASSUME FairBook(Revenue), Exact(Revenue, cash), CashAmounts(cash)
  PROVE  OnlyTheExcessIsClawedBack
<1> SUFFICES ASSUME NEW s \in Sources
             PROVE  LET own  == {e \in EventsOf(revenues, s) : e.state = "posted" /\ e.basis = "gross"}
                        keys == {EventKey(e) : e \in own}
                        kept == GrossOf({b \in book : b.event \in keys})
                        clawed == SumFunctionOnSet([e \in own |-> e.refunded], own)
                    IN /\ kept <= Gross[s] - cash[s].refunded + Greatest(0, Cardinality(own) - 1)
                       /\ clawed <= RefundedConsumption(revenues, s, cash[s].refunded)
  BY DEF OnlyTheExcessIsClawedBack
<1> DEFINE own == {e \in EventsOf(revenues, s) : e.state = "posted" /\ e.basis = "gross"}
           keys == {EventKey(e) : e \in own}
           mine == {b \in book : b.event \in keys}
           taken == [e \in own |-> e.refunded]
           worth == [e \in EventsOf(revenues, s) |-> CashValue(Gross[s], e)]
           K == Gross[s] - cash[s].refunded
           n == Recognized(revenues, s)
           m == RefundedConsumption(revenues, s, cash[s].refunded)
           W == SumFunctionOnSet(worth, own)
           C == SumFunctionOnSet(taken, own)
<1>1. /\ IsFiniteSet(revenues) /\ revenues \subseteq RevenueEvents
      /\ IsFiniteSet(book) /\ book \subseteq CashEntries
      /\ \A d, e \in revenues : EventKey(d) = EventKey(e) => d = e
      /\ \A e \in revenues : FairEntries(EntriesOf(book, e), e)
      /\ \A e \in revenues : e.refunded = TakenBack(revenues, book, e, cash)
  BY DEF FairBook, Exact, Revenue
<1>2. /\ Gross[s] \in Nat /\ cash[s].refunded \in Nat /\ cash[s].refunded <= Gross[s] /\ K \in Nat
  BY AmountsAssumption DEF CashAmounts
<1>3. n \in Nat /\ m = Consumed(n, Gross[s], cash[s].refunded) /\ m \in Nat /\ m <= n
      /\ m = (IF n - K > 0 THEN n - K ELSE 0)
  <2>1. n \in Nat /\ m = Consumed(n, Gross[s], cash[s].refunded)
    BY <1>1, RecognizedIsNatural DEF RefundedConsumption, Consumed
  <2> HIDE DEF n, m
  <2>2. m \in Nat /\ m <= n
    BY <1>2, <2>1, ConsumedBounds
  <2>3. m = (IF n - K > 0 THEN n - K ELSE 0)
    BY <1>2, <2>1 DEF Consumed, Greatest
  <2> QED BY <2>1, <2>2, <2>3
<1>4. own \in SUBSET EventsOf(revenues, s) /\ own \in SUBSET revenues /\ EventsOf(revenues, s) \in SUBSET revenues
  BY DEF EventsOf
<1>5. IsFiniteSet(own) /\ IsFiniteSet(EventsOf(revenues, s))
  <2> HIDE DEF own
  <2> QED BY <1>1, <1>4, FS_Subset
<1>6. \A e \in EventsOf(revenues, s) : worth[e] \in Nat /\ worth[e] = CashValue(Gross[s], e)
  <2>1. ASSUME NEW e \in EventsOf(revenues, s) PROVE CashValue(Gross[s], e) \in Nat
    <3>1. e.start \in Nat /\ e.points \in Nat /\ e.source \in Sources
      BY <1>1, <1>4 DEF RevenueEvents
    <3> QED BY <1>2, <3>1, CashValueIsNatural
  <2> QED BY <2>1
<1>7. n = SumFunctionOnSet(worth, EventsOf(revenues, s))
  BY DEF Recognized
\* One event.
<1>8. ASSUME NEW e \in own
      PROVE  /\ e.source = s /\ e.refunded \in Nat
             /\ e.refunded = TakenShare(worth[e], n, m)
             /\ IsFiniteSet(EntriesOf(book, e)) /\ EntriesOf(book, e) \subseteq CashEntries
             /\ GrossOf(EntriesOf(book, e)) = worth[e] - e.refunded
  <2> DEFINE B == EntriesOf(book, e)
  <2>1. /\ e \in revenues /\ e \in RevenueEvents /\ e.source = s /\ e.state = "posted" /\ e.basis = "gross"
        /\ e \in EventsOf(revenues, s) /\ e.refunded \in Nat
    BY <1>1, <1>4 DEF EventsOf, RevenueEvents
  <2>2. B \in SUBSET book /\ FairEntries(B, e)
    BY <1>1, <2>1 DEF EntriesOf
  <2>3. IsFiniteSet(B) /\ B \subseteq CashEntries
    BY <1>1, <2>2, FS_Subset
  <2>4. PICK o \in B : Explains(B, o, e.refunded) /\ o.gross = CashValue(Gross[s], e)
    BY <2>1, <2>2 DEF FairEntries
  <2>5. OneOriginal(B) /\ o.upto = 0
    BY <2>1, <2>2, <2>4, FairHasOneOriginal DEF Explains
  <2>6. o.gross = worth[e]
    BY <1>6, <2>1, <2>4
  <2>7. TakenBack(revenues, book, e, cash) = TakenShare(o.gross, n, Consumed(n, Gross[s], cash[s].refunded))
    BY <2>1, <2>4, <2>5, TakenBackIsShare
  <2>8. e.refunded = TakenShare(worth[e], n, m)
    BY <1>1, <1>3, <2>1, <2>6, <2>7
  <2>9. GrossOf(B) = o.gross - e.refunded
    <3> HIDE DEF B
    <3> QED BY <2>1, <2>3, <2>4, FairTotals
  <2> QED BY <2>1, <2>3, <2>6, <2>8, <2>9
\* What they come to.
<1>9. GrossOf(mine) = W - C
  <2> DEFINE F == [e \in own |-> EntriesOf(book, e)]
             f == [b \in book |-> b.gross]
             g == [e \in own |-> GrossOf(EntriesOf(book, e))]
  <2>1. mine = UNION {F[e] : e \in own}
    <3>1. \A e \in own : F[e] = {b \in book : b.event = EventKey(e)}
      BY DEF EntriesOf
    <3>2. \A b : b \in mine <=> b \in book /\ \E e \in own : b.event = EventKey(e)
      <4> HIDE DEF own
      <4> QED OBVIOUS
    <3> HIDE DEF F, mine, own
    <3> QED BY <3>1, <3>2
  <2>2. ASSUME NEW e \in own PROVE IsFiniteSet(F[e]) /\ g[e] = SumFunctionOnSet(f, F[e])
    <3> DEFINE B == EntriesOf(book, e)
               h == [b \in B |-> b.gross]
    <3>1. IsFiniteSet(B) /\ \A b \in B : f[b] = h[b]
      BY <1>8 DEF EntriesOf
    <3>2. SumFunctionOnSet(f, B) = SumFunctionOnSet(h, B)
      <4> HIDE DEF f, h, B
      <4> QED BY <3>1, SumIsOfValues
    <3> QED BY <3>1, <3>2 DEF GrossOf
  <2>3. \A e \in own : \A b \in F[e] : f[b] \in Int
    BY <1>1 DEF EntriesOf, CashEntries
  <2>4. \A d, e \in own : d # e => F[d] \cap F[e] = {}
    BY <1>1, <1>4 DEF EntriesOf
  <2>5. \A e \in own : g[e] = worth[e] - taken[e] /\ worth[e] \in Int /\ taken[e] \in Int
    <3>1. ASSUME NEW e \in own PROVE g[e] = worth[e] - taken[e] /\ worth[e] \in Int /\ taken[e] \in Int
      <4>1. GrossOf(EntriesOf(book, e)) = worth[e] - e.refunded /\ e.refunded \in Nat
        BY <1>8
      <4>2. worth[e] \in Nat
        BY <1>4, <1>6
      <4> HIDE DEF worth
      <4> QED BY <4>1, <4>2
    <3> QED BY <3>1
  <2>6. GrossOf(mine) = SumFunctionOnSet(f, mine)
    <3> DEFINE h == [b \in mine |-> b.gross]
    <3>1. mine \in SUBSET book
      OBVIOUS
    <3>2. IsFiniteSet(mine)
      BY <1>1, <3>1, FS_Subset
    <3>3. \A b \in mine : f[b] = h[b]
      OBVIOUS
    <3>4. GrossOf(mine) = SumFunctionOnSet(h, mine)
      BY DEF GrossOf
    <3> HIDE DEF f, h, mine
    <3> QED BY <3>2, <3>3, <3>4, SumIsOfValues
  <2> HIDE DEF F, f, g, own, mine, worth, taken
  <2>7. SumFunctionOnSet(f, UNION {F[e] : e \in own}) = SumFunctionOnSet(g, own)
    BY <1>5, <2>2, <2>3, <2>4, SumOfFibers
  <2>8. SumFunctionOnSet(g, own) = SumFunctionOnSet(worth, own) - SumFunctionOnSet(taken, own)
    BY <1>5, <2>5, SumsDiffer
  <2> QED BY <2>1, <2>6, <2>7, <2>8
<1>10. W \in Nat /\ W <= n
  <2> HIDE DEF worth, own
  <2>1. \A e \in own : worth[e] \in Nat
    BY <1>4, <1>6
  <2>2. W \in Nat
    BY <1>5, <2>1, SumsAreNatural
  <2>3. W <= n
    BY <1>4, <1>5, <1>6, <1>7, PartsAreNoMore
  <2> QED BY <2>2, <2>3
<1>11. \A e \in own : worth[e] \in Nat /\ taken[e] \in Nat /\ taken[e] = TakenShare(worth[e], n, m)
  BY <1>4, <1>6, <1>8
<1>12. C \in Nat
  <2> HIDE DEF taken, own
  <2> QED BY <1>5, <1>11, SumsAreNatural
<1>13. Cardinality(own) \in Nat /\ (Cardinality(own) = 0 <=> own = {})
  BY <1>5, FS_CardinalityType, FS_EmptySet
<1> DEFINE card == Cardinality(own)
<1> HIDE DEF own, worth, taken, n, m, K, mine
<1>14. C <= m /\ W - C <= K + Greatest(0, card - 1)
  <2>0. Greatest(0, card - 1) \in Nat
    BY <1>13 DEF Greatest
  <2>1. CASE m = 0
    <3>1. \A e \in own : taken[e] \in Int /\ taken[e] <= 0
      <4>1. ASSUME NEW e \in own PROVE taken[e] = 0
        <5>1. CASE n = 0
          BY <1>11, <5>1 DEF TakenShare
        <5>2. CASE n # 0
          <6>1. worth[e] * m = 0 /\ 0 \div n = 0
            BY <1>3, <1>11, <2>1, <5>2
          <6> QED BY <1>11, <5>2, <6>1 DEF TakenShare
        <5> QED BY <5>1, <5>2
      <4> QED BY <4>1
    <3> DEFINE none == [e \in own |-> 0]
    <3>2. \A e \in own : none[e] \in Int /\ taken[e] <= none[e] + 0 /\ none[e] = 0 * taken[e]
      BY <3>1
    <3> HIDE DEF none
    <3>3. SumFunctionOnSet(none, own) = 0 * C
      BY <1>5, <3>1, <3>2, SumScales
    <3>7. \A e \in own : taken[e] \in Int /\ none[e] \in Int /\ taken[e] <= none[e] + 0
      BY <3>1, <3>2
    <3>4. C <= SumFunctionOnSet(none, own) + 0 * Cardinality(own)
      BY ONLY 0 \in Int, <1>5, <3>7, SumsCompareUpTo DEF C
    <3>5. C = 0
      BY <1>12, <1>13, <3>3, <3>4
    <3>6. W <= K
      BY <1>2, <1>3, <1>10, <2>1
    <3> QED BY <1>2, <1>10, <2>0, <2>1, <3>5, <3>6
  <2>2. CASE m # 0
    <3>1. n > 0 /\ m = n - K
      BY <1>2, <1>3, <2>2
    <3> DEFINE part == [e \in own |-> m * worth[e]]
               back == [e \in own |-> n * taken[e]]
    <3>2. ASSUME NEW e \in own
          PROVE  part[e] \in Int /\ back[e] \in Int /\ back[e] <= part[e] + 0 /\ part[e] <= back[e] + (n - 1)
      <4>1. taken[e] = (worth[e] * m) \div n /\ worth[e] \in Nat /\ taken[e] \in Nat
        BY <1>11, <3>1 DEF TakenShare
      <4>2. worth[e] * m \in Int /\ worth[e] * m = m * worth[e]
        BY <1>3, <4>1
      <4>3. n * taken[e] <= worth[e] * m /\ worth[e] * m < n * taken[e] + n
        <5> DEFINE a == worth[e] * m
        <5> HIDE DEF a
        <5>1. a \in Int /\ taken[e] = a \div n /\ n \in Int
          BY <1>3, <4>1, <4>2 DEF a
        <5>2. n * taken[e] <= a /\ a < n * taken[e] + n
          BY <3>1, <5>1, QuotientBounds
        <5> QED BY <5>2 DEF a
      <4> QED BY <1>3, <4>1, <4>2, <4>3
    <3>3. \A e \in own : worth[e] \in Int /\ part[e] = m * worth[e]
      BY <1>11
    <3>4. \A e \in own : taken[e] \in Int /\ back[e] = n * taken[e]
      BY <1>11
    <3> HIDE DEF part, back
    <3>5. SumFunctionOnSet(part, own) = m * W
      BY <1>3, <1>5, <3>3, SumScales
    <3>6. SumFunctionOnSet(back, own) = n * C
      BY <1>3, <1>5, <3>4, SumScales
    <3>14. \A e \in own : back[e] \in Int /\ part[e] \in Int /\ back[e] <= part[e] + 0
      BY <3>2
    <3>7. SumFunctionOnSet(back, own) <= SumFunctionOnSet(part, own) + 0 * Cardinality(own)
      BY ONLY 0 \in Int, <1>5, <3>14, SumsCompareUpTo
    <3> DEFINE k == n - 1
    <3>15. \A e \in own : part[e] \in Int /\ back[e] \in Int /\ part[e] <= back[e] + k
      BY <3>2
    <3>16. k \in Int
      BY <1>3
    <3>8. SumFunctionOnSet(part, own) <= SumFunctionOnSet(back, own) + (n - 1) * Cardinality(own)
      <4> HIDE DEF k
      <4>1. SumFunctionOnSet(part, own) <= SumFunctionOnSet(back, own) + k * Cardinality(own)
        BY ONLY <3>16, <1>5, <3>15, SumsCompareUpTo
      <4> QED BY <4>1 DEF k
    <3>9. n * C <= m * W /\ m * W <= n * C + (n - 1) * card
      BY <1>3, <1>10, <1>13, <3>5, <3>6, <3>7, <3>8
    <3> HIDE DEF W, C, card
    <3>10. m * W <= m * n
      BY <1>3, <1>10, ProductGrows
    <3>11. C <= m
      <4>1. n * C <= n * m
        BY <1>3, <1>10, <1>12, <3>9, <3>10
      <4> QED BY <1>3, <1>12, <3>1, <4>1
    <3>12. CASE card = 0
      <4>1. own = {}
        BY <1>13, <3>12 DEF card
      <4>2. W = 0 /\ C = 0
        BY <4>1, SumOfNothing DEF W, C
      <4> QED BY <1>2, <2>0, <3>11, <4>2
    <3>13. CASE card # 0
      <4>1. card \in Nat /\ card > 0 /\ Greatest(0, card - 1) = card - 1
        BY <1>13, <3>13 DEF card, Greatest
      <4>2. K * W <= K * n
        BY <1>2, <1>3, <1>10, ProductGrows
      <4>3. n * W = m * W + K * W
        BY <1>2, <1>3, <1>10, <3>1
      <4>4. (n - 1) * card = n * card - card
        BY <1>3, <4>1
      <4>5. n * (W - C) = n * W - n * C
        BY <1>3, <1>10, <1>12
      <4>6. n * (K + card) = K * n + n * card
        BY <1>2, <1>3, <4>1
      <4>7. n * (W - C) < n * (K + card)
        <5>1. n * W \in Int /\ n * C \in Int /\ m * W \in Int /\ K * W \in Int /\ n * card \in Int /\ K * n \in Int
          BY <1>2, <1>3, <1>10, <1>12, <4>1
        <5> QED BY <3>9, <4>1, <4>2, <4>3, <4>4, <4>5, <4>6, <5>1
      <4>8. W - C < K + card
        <5> DEFINE x == W - C
                   y == K + card
        <5>1. x \in Int /\ y \in Int /\ n * x < n * y /\ n \in Int
          BY <1>2, <1>3, <1>10, <1>12, <4>1, <4>7
        <5> HIDE DEF x, y
        <5>2. x < y
          BY <3>1, <5>1
        <5> QED BY <5>2 DEF x, y
      <4> QED BY <1>2, <1>10, <1>12, <3>11, <4>1, <4>8
    <3> QED BY <1>13, <3>12, <3>13 DEF card
  <2> QED BY <2>1, <2>2
<1> QED BY <1>9, <1>14 DEF own, taken, K, m, mine

\* In a closed month nothing is pending and nothing is to be valued.
LEMMA RightMonthsAreSettled ==
  ASSUME MonthsAreRight(Revenue, closed)
  PROVE  ClosedMonthsAreSettled
BY DEF MonthsAreRight, ClosedMonthsAreSettled, Revenue

-----------------------------------------------------------------------------
(* Cash is refunded.                                                     *)

\* A refund that grows, or more consumed cash, takes back no less of an event.
LEMMA TakenBackGrows ==
  ASSUME NEW B, NEW e, e.state \in {"unvalued", "posted"}, e.source \in Sources,
         EntriesOf(B, e) \subseteq CashEntries, FairEntries(EntriesOf(B, e), e),
         NEW E, NEW F, Recognized(E, e.source) \in Nat, Recognized(F, e.source) \in Nat,
         Recognized(E, e.source) <= Recognized(F, e.source),
         NEW c, NEW d, CashAmounts(c), CashAmounts(d), c[e.source].refunded <= d[e.source].refunded
  PROVE  TakenBack(E, B, e, c) <= TakenBack(F, B, e, d)
<1> DEFINE S == EntriesOf(B, e)
<1>1. OneOriginal(S) /\ (S # {} => \E o \in S : Explains(S, o, e.refunded))
  BY FairHasOneOriginal
<1>2. CASE S = {}
  BY <1>1, <1>2, TakenBackIsShare
<1>3. CASE S # {}
  <2>1. PICK o \in S : o.upto = 0 /\ Gives(o) /\ o \in CashEntries
    BY <1>1, <1>3 DEF Explains
  <2>2. TakenBack(E, B, e, c) = TakenShare(o.gross, Recognized(E, e.source),
            Consumed(Recognized(E, e.source), Gross[e.source], c[e.source].refunded))
    BY <1>1, <2>1, TakenBackIsShare
  <2>3. TakenBack(F, B, e, d) = TakenShare(o.gross, Recognized(F, e.source),
            Consumed(Recognized(F, e.source), Gross[e.source], d[e.source].refunded))
    BY <1>1, <2>1, TakenBackIsShare
  <2>4. o.gross \in Nat
    BY <2>1 DEF Gives, CashEntries
  <2>5. /\ Gross[e.source] \in Nat /\ c[e.source].refunded \in Nat /\ d[e.source].refunded \in Nat
        /\ d[e.source].refunded <= Gross[e.source]
    BY AmountsAssumption DEF CashAmounts
  <2> DEFINE n == Recognized(E, e.source)
             k == Recognized(F, e.source)
             a == Gross[e.source]
             x == c[e.source].refunded
             y == d[e.source].refunded
  <2>6. n \in Nat /\ k \in Nat /\ n <= k /\ a \in Nat /\ x \in Nat /\ y \in Nat /\ x <= y /\ y <= a
    BY <2>5
  <2> HIDE DEF n, k, a, x, y
  <2>7. TakenShare(o.gross, n, Consumed(n, a, x)) <= TakenShare(o.gross, k, Consumed(k, a, y))
    BY <2>4, <2>6, TakenShareGrows
  <2> QED BY <2>2, <2>3, <2>7 DEF n, k, a, x, y
<1> QED BY <1>2, <1>3

\* Another event adds what it is worth to what is recognized of its source.
LEMMA RecognizedGrows ==
  ASSUME NEW E, IsFiniteSet(E), E \subseteq RevenueEvents, NEW n \in RevenueEvents, n \notin E,
         NEW s \in Sources
  PROVE  /\ Recognized(E, s) \in Nat /\ Recognized(E \cup {n}, s) \in Nat
         /\ Recognized(E, s) <= Recognized(E \cup {n}, s)
         /\ n.source # s => Recognized(E \cup {n}, s) = Recognized(E, s)
<1> DEFINE all == E \cup {n}
           own == EventsOf(E, s)
           more == EventsOf(all, s)
           f == [e \in own |-> CashValue(Gross[s], e)]
           g == [e \in more |-> CashValue(Gross[s], e)]
<1>1. IsFiniteSet(all) /\ all \subseteq RevenueEvents
  BY FS_AddElement
<1>2. Recognized(E, s) \in Nat /\ Recognized(all, s) \in Nat
  <2> HIDE DEF all
  <2> QED BY <1>1, RecognizedIsNatural
<1>3. own \in SUBSET more /\ (n.source # s => own = more) /\ more \in SUBSET all /\ own \in SUBSET E
  BY DEF EventsOf
<1>4. IsFiniteSet(own) /\ IsFiniteSet(more)
  <2> HIDE DEF own, more, all
  <2> QED BY <1>1, <1>3, FS_Subset
<1>5. \A e \in more : g[e] \in Nat
  <2>1. ASSUME NEW e \in more PROVE CashValue(Gross[s], e) \in Nat
    <3>1. e.start \in Nat /\ e.points \in Nat /\ e.source \in Sources
      BY <1>1, <1>3 DEF RevenueEvents
    <3>2. Gross[s] \in Nat
      BY AmountsAssumption
    <3> QED BY <3>1, <3>2, CashValueIsNatural
  <2> QED BY <2>1
<1>6. Recognized(E, s) = SumFunctionOnSet(f, own) /\ Recognized(all, s) = SumFunctionOnSet(g, more)
  BY DEF Recognized
<1>7. \A e \in own : f[e] = g[e]
  BY <1>3
<1> HIDE DEF f, g, own, more
<1>8. SumFunctionOnSet(f, own) = SumFunctionOnSet(g, own)
  BY <1>4, <1>7, SumIsOfValues
<1>9. SumFunctionOnSet(g, own) <= SumFunctionOnSet(g, more)
  BY <1>3, <1>4, <1>5, PartsAreNoMore
<1> HIDE DEF all
<1>10. Recognized(E, s) <= Recognized(all, s) /\ (n.source # s => Recognized(all, s) = Recognized(E, s))
  BY <1>3, <1>6, <1>8, <1>9
<1> QED BY <1>2, <1>10 DEF all

\* What the ledger, the cash sources and the terms satisfy in every state.
TermsAreRight ==
  /\ basis \in {"none", "gross", "net"} /\ share \in Shares \cup {NoShare}
  /\ month \in Nat /\ closed \subseteq Nat /\ \A m \in closed : m < month

RevenueInv ==
  /\ FairBook(Revenue) /\ Exact(Revenue, cash) /\ MonthsAreRight(Revenue, closed)
  /\ CashAmounts(cash) /\ TermsAreRight
  /\ \A e \in revenues : e.title \in unlocked

\* settleMonth never closes the month that runs.
LEMMA ThisMonthIsOpen ==
  ASSUME TermsAreRight
  PROVE  month \notin closed
BY DEF TermsAreRight

\* sync_cash_source.
LEMMA SyncKeepsRevenue ==
  ASSUME RevenueInv, NEW s \in Sources, NEW refunded \in Nat, refunded <= Gross[s],
         NEW net \in {Unknown} \cup 0 .. Gross[s], SyncCash(s, refunded, net), UNCHANGED <<termVars, unlocked>>
  PROVE  RevenueInv'
<1> DEFINE c == [cash EXCEPT ![s].refunded = Greatest(@, refunded), ![s].net = IF @ = Unknown THEN net ELSE @]
           W == EventsOf(revenues, s)
           q == PostCashEvents(Revenue, W, FALSE, c)
<1>1. /\ FairBook(Revenue) /\ Exact(Revenue, cash) /\ MonthsAreRight(Revenue, closed)
      /\ CashAmounts(cash) /\ TermsAreRight /\ \A e \in revenues : e.title \in unlocked
  BY DEF RevenueInv
<1>2. cash' = c /\ revenues' = q.events /\ book' = q.book
  BY DEF SyncCash, Keep
<1>3. CashAmounts(c) /\ \A x \in Sources : cash[x].refunded <= c[x].refunded /\ (x # s => c[x] = cash[x])
  <2>1. cash \in [Sources -> [refunded : Nat, net : Int]]
    BY <1>1 DEF CashAmounts
  <2>2. cash[s].refunded \in Nat /\ cash[s].refunded <= Gross[s] /\ cash[s].net \in {Unknown} \cup 0 .. Gross[s]
        /\ Gross[s] \in Nat
    BY <1>1, AmountsAssumption DEF CashAmounts
  <2> DEFINE g == Greatest(cash[s].refunded, refunded)
             h == IF cash[s].net = Unknown THEN net ELSE cash[s].net
  <2>3. c = [cash EXCEPT ![s] = [refunded |-> g, net |-> h]]
    <3> DEFINE d == [cash EXCEPT ![s].refunded = Greatest(@, refunded)]
    <3>1. c = [d EXCEPT ![s].net = IF @ = Unknown THEN net ELSE @]
      OBVIOUS
    <3>2. d = [cash EXCEPT ![s] = [cash[s] EXCEPT !.refunded = g]]
      OBVIOUS
    <3>3. [cash[s] EXCEPT !.refunded = g] = [refunded |-> g, net |-> cash[s].net]
      BY <2>1
    <3>4. d[s] = [refunded |-> g, net |-> cash[s].net] /\ DOMAIN d = Sources
          /\ \A x \in Sources : x # s => d[x] = cash[x]
      BY <2>1, <3>2, <3>3
    <3>5. c = [d EXCEPT ![s] = [refunded |-> g, net |-> h]]
      BY <3>1, <3>4
    <3> HIDE DEF c, d, g, h
    <3>6. DOMAIN c = Sources /\ \A x \in Sources : c[x] = IF x = s THEN [refunded |-> g, net |-> h] ELSE cash[x]
      BY <3>4, <3>5
    <3>7. c = [x \in Sources |-> IF x = s THEN [refunded |-> g, net |-> h] ELSE cash[x]]
      BY <3>4, <3>5, <3>6
    <3> QED BY <2>1, <3>7
  <2>4. /\ g \in Nat /\ g <= Gross[s] /\ cash[s].refunded <= g
        /\ h \in {Unknown} \cup 0 .. Gross[s] /\ h \in Int
    BY <2>2 DEF Greatest, Unknown
  <2> HIDE DEF c, g, h
  <2>5. c \in [Sources -> [refunded : Nat, net : Int]]
    BY <2>1, <2>3, <2>4
  <2>6. \A x \in Sources : c[x] = IF x = s THEN [refunded |-> g, net |-> h] ELSE cash[x]
    BY <2>1, <2>3
  <2>7. \A x \in Sources : c[x].refunded <= Gross[x] /\ c[x].net \in {Unknown} \cup 0 .. Gross[x]
                           /\ cash[x].refunded <= c[x].refunded
    <3>1. ASSUME NEW x \in Sources
          PROVE  c[x].refunded <= Gross[x] /\ c[x].net \in {Unknown} \cup 0 .. Gross[x]
                 /\ cash[x].refunded <= c[x].refunded
      <4>1. CASE x = s
        BY <2>4, <2>6, <4>1
      <4>2. CASE x # s
        BY <1>1, <2>1, <2>6, <4>2 DEF CashAmounts
      <4> QED BY <4>1, <4>2
    <3> QED BY <3>1
  <2> QED BY <2>5, <2>6, <2>7 DEF CashAmounts
<1>4. /\ IsFiniteSet(revenues) /\ revenues \subseteq RevenueEvents /\ book \subseteq CashEntries
      /\ \A e \in revenues : FairEntries(EntriesOf(book, e), e)
      /\ \A e \in revenues : e.refunded = TakenBack(revenues, book, e, cash)
      /\ Revenue.events = revenues /\ Revenue.book = book
  BY <1>1 DEF FairBook, Exact, Revenue
<1>5. W \in SUBSET Revenue.events
  BY <1>4 DEF EventsOf
<1> HIDE DEF c
<1>6. \A e \in Revenue.events : e.refunded <= TakenBack(Revenue.events, Revenue.book, e, c)
  <2>1. ASSUME NEW e \in revenues PROVE e.refunded <= TakenBack(revenues, book, e, c)
    <3>1. e.state \in {"unvalued", "posted"} /\ e.source \in Sources
      BY <1>4 DEF RevenueEvents
    <3>2. Recognized(revenues, e.source) \in Nat
      BY <1>4, <3>1, RecognizedIsNatural
    <3>3. EntriesOf(book, e) \subseteq CashEntries /\ FairEntries(EntriesOf(book, e), e)
      BY <1>4 DEF EntriesOf
    <3>4. cash[e.source].refunded <= c[e.source].refunded
      BY <1>3, <3>1
    <3>5. TakenBack(revenues, book, e, cash) <= TakenBack(revenues, book, e, c)
      BY <1>1, <1>3, <3>1, <3>2, <3>3, <3>4, TakenBackGrows
    <3> QED BY <1>4, <3>5
  <2> QED BY <1>4, <2>1
<1>7. \A e \in Revenue.events \ W : e.refunded = TakenBack(Revenue.events, Revenue.book, e, c)
  <2>1. ASSUME NEW e \in revenues, e.source # s PROVE e.refunded = TakenBack(revenues, book, e, c)
    <3>1. c[e.source] = cash[e.source]
      BY <1>3, <1>4, <2>1 DEF RevenueEvents
    <3>2. TakenBack(revenues, book, e, c) = TakenBack(revenues, book, e, cash)
      BY <3>1 DEF TakenBack
    <3> QED BY <1>4, <3>2
  <2> QED BY <1>4, <2>1 DEF EventsOf
<1>8. /\ basis \in {"none", "gross", "net"} /\ share \in Shares \cup {NoShare}
      /\ month \in Nat /\ month \notin closed
  BY <1>1, ThisMonthIsOpen DEF TermsAreRight
<1> DEFINE r == Revenue
<1>9. /\ FairBook(q) /\ Exact(q, c) /\ MonthsAreRight(q, closed)
      /\ \A d \in q.events : \E e \in revenues : EventKey(d) = EventKey(e)
  <2>1. /\ FairBook(r) /\ MonthsAreRight(r, closed) /\ W \in SUBSET r.events
        /\ \A e \in r.events : e.refunded <= TakenBack(r.events, r.book, e, c)
        /\ \A e \in r.events \ W : e.refunded = TakenBack(r.events, r.book, e, c)
    BY <1>1, <1>5, <1>6, <1>7
  <2> HIDE DEF r, W
  <2> DEFINE accept == FALSE
             p == PostCashEvents(r, W, accept, c)
  <2>2. accept \in BOOLEAN
    OBVIOUS
  <2> HIDE DEF accept
  <2>3. /\ FairBook(p) /\ Exact(p, c) /\ MonthsAreRight(p, closed)
        /\ \A d \in p.events : \E e \in r.events : EventKey(d) = EventKey(e)
    <3>1. CashAmounts(c)
      BY <1>3
    <3> HIDE DEF p
    <3>3. FairBook(PostCashEvents(r, W, accept, c)) /\ Exact(PostCashEvents(r, W, accept, c), c)
      BY ONLY <3>1, <1>8, <2>1, <2>2, PostKeepsFair
    <3>4. MonthsAreRight(PostCashEvents(r, W, accept, c), closed)
      BY ONLY <3>1, <1>8, <2>1, <2>2, PostKeepsFair
    <3>5. \A d \in PostCashEvents(r, W, accept, c).events : \E e \in r.events : EventKey(d) = EventKey(e)
      BY ONLY <3>1, <1>8, <2>1, <2>2, PostKeepsFair
    <3> QED BY <3>3, <3>4, <3>5 DEF p
  <2>4. p = q
    BY DEF accept, r
  <2>5. r.events = revenues
    BY <1>4 DEF r
  <2> HIDE DEF p, q
  <2> QED BY <2>3, <2>4, <2>5
<1> HIDE DEF q, r
<1>10. \A d \in q.events : d.title \in unlocked
  BY <1>1, <1>9 DEF EventKey
<1>11. Revenue' = [events |-> q.events, book |-> q.book]
  BY <1>2 DEF Revenue
<1>12. FairBook(Revenue') /\ Exact(Revenue', c) /\ MonthsAreRight(Revenue', closed)
  <2> DEFINE p == Revenue'
  <2>1. p.events = q.events /\ p.book = q.book
    BY <1>11
  <2> HIDE DEF p
  <2>2. FairBook(p)
    BY <1>9, <2>1 DEF FairBook
  <2>3. Exact(p, c)
    BY <1>9, <2>1 DEF Exact
  <2>4. MonthsAreRight(p, closed)
    BY <1>9, <2>1 DEF MonthsAreRight
  <2> QED BY <2>2, <2>3, <2>4 DEF p
<1>13. closed' = closed /\ unlocked' = unlocked /\ basis' = basis /\ share' = share /\ month' = month
  BY DEF termVars
<1>14. TermsAreRight'
  BY <1>1, <1>13 DEF TermsAreRight
<1>15. /\ FairBook(Revenue)' /\ Exact(Revenue, cash)' /\ MonthsAreRight(Revenue, closed)'
  BY <1>2, <1>12, <1>13 DEF FairBook, Exact, MonthsAreRight
<1>16. CashAmounts(cash)'
  BY <1>2, <1>3 DEF CashAmounts
<1> QED BY <1>2, <1>10, <1>13, <1>14, <1>15, <1>16 DEF RevenueInv

-----------------------------------------------------------------------------
(* Points are sold.                                                      *)

\* The fields of a ledger are all that its parts look at.
LEMMA SameFields ==
  ASSUME NEW p, NEW q, p.events = q.events, p.book = q.book
  PROVE  /\ FairBook(p) <=> FairBook(q)
         /\ \A c : Exact(p, c) <=> Exact(q, c)
         /\ \A over : MonthsAreRight(p, over) <=> MonthsAreRight(q, over)
BY DEF FairBook, Exact, MonthsAreRight

\* A ledger that what was sold so far may be added to.
SoldFairly(r) ==
  FairBook(r) /\ Exact(r, cash) /\ MonthsAreRight(r, closed)

\* One lot: its event has a key of its own.
LEMMA SellKeepsFair ==
  ASSUME NEW r, SoldFairly(r), CashAmounts(cash), TermsAreRight, NEW t \in Titles, NEW lot, NEW n \in Nat,
         lot.source \in Sources, lot.paid \in BOOLEAN, Position(lot) \in Nat,
         n > 0 /\ lot.paid => \A e \in r.events : EventKey(e) # <<t, lot.source, Position(lot)>>
  PROVE  /\ SoldFairly(SellPoints(r, t, lot, n))
         /\ \A d \in SellPoints(r, t, lot, n).events :
              \/ \E e \in r.events : EventKey(d) = EventKey(e)
              \/ n > 0 /\ lot.paid /\ EventKey(d) = <<t, lot.source, Position(lot)>>
<1>1. CASE n = 0 \/ ~lot.paid
  <2>1. SellPoints(r, t, lot, n) = r
    BY <1>1 DEF SellPoints
  <2> QED BY <2>1
<1>2. CASE n # 0 /\ lot.paid
  <2> DEFINE new == RevenueEvent(t, lot, n)
             E == r.events \cup {new}
             s == lot.source
             W == EventsOf(E, s)
             p == [events |-> E, book |-> r.book]
             accept == FALSE
             q == PostCashEvents(p, W, accept, cash)
  <2>1. SellPoints(r, t, lot, n) = q
    BY <1>2 DEF SellPoints
  <2>2. /\ IsFiniteSet(r.events) /\ r.events \subseteq RevenueEvents
        /\ IsFiniteSet(r.book) /\ r.book \subseteq CashEntries
        /\ \A d, e \in r.events : EventKey(d) = EventKey(e) => d = e
        /\ \A b \in r.book : \E e \in r.events : b.event = EventKey(e)
        /\ \A e \in r.events : FairEntries(EntriesOf(r.book, e), e)
        /\ \A e \in r.events : e.refunded = TakenBack(r.events, r.book, e, cash)
        /\ MonthsAreRight(r, closed)
    BY DEF SoldFairly, FairBook, Exact
  <2>3. /\ basis \in {"none", "gross", "net"} /\ share \in Shares \cup {NoShare}
        /\ month \in Nat /\ month \notin closed
    BY ThisMonthIsOpen DEF TermsAreRight
  <2>4. /\ new \in RevenueEvents /\ EventKey(new) = <<t, s, Position(lot)>>
        /\ new.state = "unvalued" /\ new.refunded = 0 /\ new.month = month /\ new.source = s
    BY <2>3 DEF RevenueEvent, RevenueEvents, EventKey
  <2> HIDE DEF new
  <2>5. \A e \in r.events : EventKey(e) # EventKey(new)
    BY <1>2, <2>4
  <2>6. new \notin r.events /\ EntriesOf(r.book, new) = {}
    BY <2>2, <2>5 DEF EntriesOf
  <2>7. FairEntries(EntriesOf(r.book, new), new)
    BY <2>4, <2>6 DEF FairEntries
  <2>8. p.events = E /\ p.book = r.book
    OBVIOUS
  <2>9. FairBook(p)
    <3>1. IsFiniteSet(E)
      BY <2>2, FS_AddElement
    <3> HIDE DEF p
    <3> QED BY <2>2, <2>4, <2>5, <2>7, <2>8, <3>1 DEF FairBook
  <2>10. MonthsAreRight(p, closed)
    <3> HIDE DEF p
    <3> QED BY <2>2, <2>3, <2>4, <2>8 DEF MonthsAreRight
  <2>11. ASSUME NEW x \in Sources
         PROVE  /\ Recognized(r.events, x) \in Nat /\ Recognized(E, x) \in Nat
                /\ Recognized(r.events, x) <= Recognized(E, x)
                /\ x # s => Recognized(E, x) = Recognized(r.events, x)
    BY <2>2, <2>4, <2>6, RecognizedGrows
  <2>12. TakenBack(E, r.book, new, cash) = 0
    BY <2>6 DEF TakenBack
  <2>13. ASSUME NEW e \in r.events
         PROVE  /\ e.refunded <= TakenBack(E, r.book, e, cash)
                /\ e.source # s => e.refunded = TakenBack(E, r.book, e, cash)
    <3>1. e.state \in {"unvalued", "posted"} /\ e.source \in Sources
      BY <2>2 DEF RevenueEvents
    <3>2. EntriesOf(r.book, e) \subseteq CashEntries /\ FairEntries(EntriesOf(r.book, e), e)
      BY <2>2 DEF EntriesOf
    <3>3. /\ Recognized(r.events, e.source) \in Nat /\ Recognized(E, e.source) \in Nat
          /\ Recognized(r.events, e.source) <= Recognized(E, e.source)
          /\ e.source # s => Recognized(E, e.source) = Recognized(r.events, e.source)
      BY <2>11, <3>1
    <3>4. cash[e.source].refunded <= cash[e.source].refunded
      BY <3>1 DEF CashAmounts
    <3> HIDE DEF E
    <3>5. TakenBack(r.events, r.book, e, cash) <= TakenBack(E, r.book, e, cash)
      BY <3>1, <3>2, <3>3, <3>4, TakenBackGrows
    <3>6. e.source # s => TakenBack(E, r.book, e, cash) = TakenBack(r.events, r.book, e, cash)
      BY <3>3 DEF TakenBack, RefundedConsumption
    <3> QED BY <2>2, <3>5, <3>6
  <2>14. /\ \A e \in p.events : e.refunded <= TakenBack(p.events, p.book, e, cash)
         /\ \A e \in p.events \ W : e.refunded = TakenBack(p.events, p.book, e, cash)
    <3>1. \A e \in E \ W : e \in r.events /\ e.source # s
      BY <2>4 DEF EventsOf
    <3>2. ASSUME NEW e \in E PROVE e.refunded <= TakenBack(E, r.book, e, cash)
      <4>1. CASE e = new
        BY <2>4, <2>12, <4>1
      <4>2. CASE e \in r.events
        BY <2>13, <4>2
      <4> QED BY <4>1, <4>2
    <3>3. ASSUME NEW e \in E \ W PROVE e.refunded = TakenBack(E, r.book, e, cash)
      BY <2>13, <3>1
    <3> HIDE DEF p, W, E
    <3> QED BY <2>8, <3>2, <3>3
  <2>15. W \in SUBSET p.events /\ accept \in BOOLEAN
    BY DEF EventsOf
  <2> HIDE DEF p, W, accept, q
  <2>16. /\ FairBook(q) /\ Exact(q, cash) /\ MonthsAreRight(q, closed)
         /\ \A d \in q.events : \E e \in p.events : EventKey(d) = EventKey(e)
    <3>1. CashAmounts(cash)
      OBVIOUS
    <3>2. FairBook(PostCashEvents(p, W, accept, cash)) /\ Exact(PostCashEvents(p, W, accept, cash), cash)
      BY ONLY <2>3, <2>9, <2>10, <2>14, <2>15, <3>1, PostKeepsFair
    <3>3. MonthsAreRight(PostCashEvents(p, W, accept, cash), closed)
      BY ONLY <2>3, <2>9, <2>10, <2>14, <2>15, <3>1, PostKeepsFair
    <3>4. \A d \in PostCashEvents(p, W, accept, cash).events : \E e \in p.events : EventKey(d) = EventKey(e)
      BY ONLY <2>3, <2>9, <2>10, <2>14, <2>15, <3>1, PostKeepsFair
    <3> QED BY <3>2, <3>3, <3>4 DEF q
  <2> QED BY <1>2, <2>1, <2>4, <2>8, <2>16 DEF SoldFairly
<1> QED BY <1>1, <1>2

\* f says how the ledger grows, lot by lot.
SoldLotByLot(f, t, lots, draw) ==
  f[0] = Revenue /\ \A i \in 1 .. Len(lots) : f[i] = SellPoints(f[i - 1], t, lots[i], draw[i])

\* All lots, one after the other.
LEMMA SoldIsRecursive ==
  ASSUME NEW t, NEW lots, Len(lots) \in Nat, NEW draw
  PROVE  \E f : Sold(t, lots, draw) = f[Len(lots)] /\ SoldLotByLot(f, t, lots, draw)
<1> DEFINE Of(n, f) == f = [i \in 0 .. n |-> IF i = 0 THEN Revenue
                                             ELSE SellPoints(f[i - 1], t, lots[i], draw[i])]
           Has(n) == \E f : Of(n, f)
           N == {n \in Nat : ~Has(n)}
<1>1. ASSUME N # {} PROVE FALSE
  <2>1. PICK n \in N : \A k \in N : n <= k
    <3>1. N \in SUBSET Nat
      OBVIOUS
    <3> HIDE DEF N
    <3> QED BY <1>1, <3>1, LeastNumber
  <2>2. n \in Nat /\ ~Has(n)
    OBVIOUS
  <2>3. CASE n = 0
    <3> DEFINE f == [i \in 0 .. 0 |-> Revenue]
    <3>1. f = [i \in 0 .. 0 |-> IF i = 0 THEN Revenue ELSE SellPoints(f[i - 1], t, lots[i], draw[i])]
      OBVIOUS
    <3> HIDE DEF f
    <3>2. Of(0, f)
      BY <3>1
    <3> HIDE DEF Of
    <3> QED BY <2>2, <2>3, <3>2
  <2>4. CASE n # 0
    <3>1. n - 1 \in Nat /\ n - 1 \notin N
      <4> HIDE DEF N
      <4> QED BY <2>1, <2>2, <2>4
    <3>2. PICK f : Of(n - 1, f)
      BY <3>1
    <3> DEFINE next == SellPoints(f[n - 1], t, lots[n], draw[n])
               g == [i \in 0 .. n |-> IF i = n THEN next ELSE f[i]]
               step(h, i) == IF i = 0 THEN Revenue ELSE SellPoints(h[i - 1], t, lots[i], draw[i])
    <3>3. ASSUME NEW i \in 0 .. n PROVE g[i] = step(g, i)
      <4>1. CASE i = n
        <5>1. g[n - 1] = f[n - 1] /\ g[n] = next
          BY <2>2, <2>4
        <5> HIDE DEF g
        <5> QED BY <2>2, <2>4, <4>1, <5>1
      <4>2. CASE i # n
        <5>1. i \in 0 .. (n - 1) /\ g[i] = f[i] /\ (i # 0 => g[i - 1] = f[i - 1])
          BY <2>2, <4>2
        <5>2. f[i] = step(f, i)
          BY <3>2, <5>1
        <5> HIDE DEF g
        <5> QED BY <5>1, <5>2
      <4> QED BY <4>1, <4>2
    <3>4. g = [i \in 0 .. n |-> step(g, i)]
      <4>1. g = [i \in 0 .. n |-> g[i]]
        OBVIOUS
      <4> HIDE DEF g, step
      <4> QED BY <3>3, <4>1
    <3> HIDE DEF g
    <3>5. Of(n, g)
      BY <3>4
    <3> HIDE DEF Of
    <3> QED BY <2>2, <3>5
  <2> QED BY <2>3, <2>4
<1>2. Has(Len(lots))
  <2> HIDE DEF Has
  <2> QED BY <1>1
<1> DEFINE f == CHOOSE f : Of(Len(lots), f)
<1>3. Of(Len(lots), f)
  BY <1>2
<1>4. Sold(t, lots, draw) = f[Len(lots)]
  BY DEF Sold
<1> HIDE DEF f
<1>5. f[0] = Revenue
  <2>1. 0 \in 0 .. Len(lots)
    OBVIOUS
  <2> QED BY <1>3, <2>1
<1>6. ASSUME NEW i \in 1 .. Len(lots) PROVE f[i] = SellPoints(f[i - 1], t, lots[i], draw[i])
  <2>1. i \in 0 .. Len(lots) /\ i # 0
    OBVIOUS
  <2> QED BY <1>3, <2>1
<1>7. SoldLotByLot(f, t, lots, draw)
  BY <1>5, <1>6 DEF SoldLotByLot
<1> QED BY <1>4, <1>7

\* Selling a title keeps the ledger fair, if no two paid lots were drawn on at
\* one point and the title was not sold before.
LEMMA SoldKeepsFair ==
  ASSUME RevenueInv, NEW t \in Titles, t \notin unlocked, NEW lots, Len(lots) \in Nat, NEW draw,
         \A i \in 1 .. Len(lots) : /\ draw[i] \in Nat /\ lots[i].source \in Sources
                                   /\ lots[i].paid \in BOOLEAN /\ Position(lots[i]) \in Nat,
         \A i, j \in 1 .. Len(lots) :
            /\ i # j /\ draw[i] > 0 /\ draw[j] > 0 /\ lots[i].paid /\ lots[j].paid
            /\ lots[i].source = lots[j].source
            => Position(lots[i]) # Position(lots[j])
  PROVE  /\ SoldFairly(Sold(t, lots, draw))
         /\ \A e \in Sold(t, lots, draw).events : e.title \in unlocked \cup {t}
<1>0. PICK f : Sold(t, lots, draw) = f[Len(lots)] /\ SoldLotByLot(f, t, lots, draw)
  BY ONLY Len(lots) \in Nat, SoldIsRecursive
<1>1. /\ Sold(t, lots, draw) = f[Len(lots)]
      /\ f[0] = Revenue
      /\ \A i \in 1 .. Len(lots) : f[i] = SellPoints(f[i - 1], t, lots[i], draw[i])
  BY <1>0 DEF SoldLotByLot
<1> DEFINE From(i, d) == \/ \E e \in revenues : EventKey(d) = EventKey(e)
                         \/ \E j \in 1 .. i : /\ draw[j] > 0 /\ lots[j].paid
                                              /\ EventKey(d) = <<t, lots[j].source, Position(lots[j])>>
           Good(i) == SoldFairly(f[i]) /\ \A d \in f[i].events : From(i, d)
           N == {i \in 0 .. Len(lots) : ~Good(i)}
<1>2. CashAmounts(cash) /\ TermsAreRight /\ \A e \in revenues : e.title \in unlocked
  BY DEF RevenueInv
<1>3. Good(0)
  <2>1. SoldFairly(Revenue) /\ Revenue.events = revenues
    BY DEF RevenueInv, SoldFairly, Revenue
  <2> QED BY <1>1, <2>1
<1>4. ASSUME NEW i \in 1 .. Len(lots), Good(i - 1) PROVE Good(i)
  <2> DEFINE r == f[i - 1]
             lot == lots[i]
             n == draw[i]
  <2>1. /\ n \in Nat /\ lot.source \in Sources /\ lot.paid \in BOOLEAN /\ Position(lot) \in Nat
        /\ SoldFairly(r) /\ f[i] = SellPoints(r, t, lot, n)
    BY <1>1, <1>4
  <2>2. ASSUME n > 0, lot.paid, NEW e \in r.events PROVE EventKey(e) # <<t, lot.source, Position(lot)>>
    <3>1. CASE \E d \in revenues : EventKey(e) = EventKey(d)
      BY <1>2, <3>1 DEF EventKey
    <3>2. CASE \E j \in 1 .. (i - 1) : /\ draw[j] > 0 /\ lots[j].paid
                                       /\ EventKey(e) = <<t, lots[j].source, Position(lots[j])>>
      BY <2>2, <3>2
    <3> QED BY <1>4, <3>1, <3>2
  <2> HIDE DEF n, lot, r
  <2>3. /\ SoldFairly(SellPoints(r, t, lot, n))
        /\ \A d \in SellPoints(r, t, lot, n).events :
             \/ \E e \in r.events : EventKey(d) = EventKey(e)
             \/ n > 0 /\ lot.paid /\ EventKey(d) = <<t, lot.source, Position(lot)>>
    BY ONLY <1>2, <2>1, <2>2, t \in Titles, SellKeepsFair
  <2>4. ASSUME NEW d \in f[i].events PROVE From(i, d)
    <3>1. CASE \E e \in r.events : EventKey(d) = EventKey(e)
      <4>1. PICK e \in r.events : EventKey(d) = EventKey(e)
        BY <3>1
      <4>2. From(i - 1, e)
        BY <1>4 DEF r
      <4> QED BY <4>1, <4>2
    <3>2. CASE n > 0 /\ lot.paid /\ EventKey(d) = <<t, lot.source, Position(lot)>>
      BY <3>2 DEF n, lot
    <3> QED BY <2>1, <2>3, <3>1, <3>2
  <2> QED BY <2>1, <2>3, <2>4
<1>5. ASSUME N # {} PROVE FALSE
  <2>1. PICK i \in N : \A k \in N : i <= k
    <3>1. N \in SUBSET Nat
      OBVIOUS
    <3> HIDE DEF N
    <3> QED BY <1>5, <3>1, LeastNumber
  <2>2. i \in 0 .. Len(lots) /\ ~Good(i)
    OBVIOUS
  <2>3. i # 0
    BY <1>3, <2>2
  <2>4. i - 1 \in 0 .. Len(lots) /\ i - 1 \notin N /\ i \in 1 .. Len(lots)
    <3> HIDE DEF N
    <3> QED BY <2>1, <2>2, <2>3
  <2>5. Good(i - 1)
    <3> HIDE DEF Good
    <3> QED BY <2>4
  <2> HIDE DEF Good
  <2> QED BY <1>4, <2>2, <2>4, <2>5
<1>6. Good(Len(lots))
  <2> HIDE DEF Good
  <2> QED BY <1>5
<1>7. ASSUME NEW d \in f[Len(lots)].events PROVE d.title \in unlocked \cup {t}
  BY <1>2, <1>6 DEF EventKey
<1> QED BY <1>1, <1>6, <1>7

-----------------------------------------------------------------------------
(* Other steps of the revenue ledger.                                    *)

\* Entries that differ in their status only come to the same.
LEMMA SettledTotals ==
  ASSUME NEW B, IsFiniteSet(B), B \subseteq CashEntries, NEW h,
         \A b \in B : h[b].gross = b.gross /\ h[b].hq = b.hq /\ h[b].creator = b.creator,
         \A a, b \in B : h[a] = h[b] => a = b
  PROVE  LET H == {h[b] : b \in B}
         IN GrossOf(H) = GrossOf(B) /\ HqOf(H) = HqOf(B) /\ CreatorOf(H) = CreatorOf(B)
<1> DEFINE H == {h[b] : b \in B}
           g1 == [b \in B |-> b.gross]
           f1 == [b \in H |-> b.gross]
           g2 == [b \in B |-> b.hq]
           f2 == [b \in H |-> b.hq]
           g3 == [b \in B |-> b.creator]
           f3 == [b \in H |-> b.creator]
<1>1. \A b \in B : g1[b] \in Int /\ f1[h[b]] = g1[b]
  BY DEF CashEntries
<1>2. \A b \in B : g2[b] \in Int /\ f2[h[b]] = g2[b]
  BY DEF CashEntries
<1>3. \A b \in B : g3[b] \in Int /\ f3[h[b]] = g3[b]
  BY DEF CashEntries
<1>4. /\ GrossOf(H) = SumFunctionOnSet(f1, H) /\ GrossOf(B) = SumFunctionOnSet(g1, B)
      /\ HqOf(H) = SumFunctionOnSet(f2, H) /\ HqOf(B) = SumFunctionOnSet(g2, B)
      /\ CreatorOf(H) = SumFunctionOnSet(f3, H) /\ CreatorOf(B) = SumFunctionOnSet(g3, B)
  BY DEF GrossOf, HqOf, CreatorOf
<1>5. IsFiniteSet(B) /\ \A a, b \in B : h[a] = h[b] => a = b
  OBVIOUS
<1> HIDE DEF f1, f2, f3, g1, g2, g3
<1>6. SumFunctionOnSet(f1, {h[b] : b \in B}) = SumFunctionOnSet(g1, B)
  BY ONLY <1>1, <1>5, SumOfImage
<1>7. SumFunctionOnSet(f2, {h[b] : b \in B}) = SumFunctionOnSet(g2, B)
  BY ONLY <1>2, <1>5, SumOfImage
<1>8. SumFunctionOnSet(f3, {h[b] : b \in B}) = SumFunctionOnSet(g3, B)
  BY ONLY <1>3, <1>5, SumOfImage
<1> QED BY <1>4, <1>6, <1>7, <1>8

\* Settling entries leaves what they explain of their event.
LEMMA SettledStaysFair ==
  ASSUME NEW B, IsFiniteSet(B), B \subseteq CashEntries, NEW h,
         \A b \in B : /\ h[b].gross = b.gross /\ h[b].hq = b.hq /\ h[b].creator = b.creator
                      /\ h[b].upto = b.upto,
         \A a, b \in B : h[a] = h[b] => a = b,
         NEW e, FairEntries(B, e)
  PROVE  FairEntries({h[b] : b \in B}, e)
<1> DEFINE H == {h[b] : b \in B}
<1>1. CASE e.state # "posted"
  BY <1>1 DEF FairEntries
<1>2. CASE e.state = "posted"
  <2>1. PICK o \in B : /\ Explains(B, o, e.refunded)
                       /\ e.basis = "gross" => o.gross = CashValue(Gross[e.source], e)
    BY <1>2 DEF FairEntries
  <2> DEFINE n == e.refunded
             R == B \ {o}
  <2>2. /\ IsFiniteSet(R) /\ R \subseteq CashEntries
        /\ \A b \in R : h[b].gross = b.gross /\ h[b].hq = b.hq /\ h[b].creator = b.creator
        /\ \A a, b \in R : h[a] = h[b] => a = b
    BY FS_Subset
  <2>3. H \ {h[o]} = {h[b] : b \in R}
    OBVIOUS
  <2> HIDE DEF R
  <2>4. /\ GrossOf({h[b] : b \in R}) = GrossOf(R) /\ HqOf({h[b] : b \in R}) = HqOf(R)
        /\ CreatorOf({h[b] : b \in R}) = CreatorOf(R)
    BY ONLY <2>2, SettledTotals
  <2>5. /\ h[o] \in H /\ h[o].gross = o.gross /\ h[o].hq = o.hq /\ h[o].creator = o.creator
        /\ h[o].upto = o.upto
    OBVIOUS
  <2>6. HqPart(h[o], n) = HqPart(o, n) /\ CreatorPart(h[o], n) = CreatorPart(o, n)
    BY <2>5 DEF HqPart, CreatorPart
  <2>7. \A b \in R : /\ h[b].gross = b.gross /\ h[b].hq = b.hq /\ h[b].creator = b.creator
                     /\ h[b].upto = b.upto
    BY DEF R
  <2>8. \A b \in H \ {h[o]} : 0 < b.upto /\ b.upto <= n /\ Takes(b)
    <3>1. \A b \in R : 0 < b.upto /\ b.upto <= n /\ Takes(b)
      BY <2>1 DEF Explains, R
    <3>2. \A b \in R : Takes(h[b])
      BY <2>7, <3>1 DEF Takes
    <3> HIDE DEF H, n
    <3> QED BY <2>3, <2>7, <3>1, <3>2
  <2>9. /\ o.upto = 0 /\ Gives(o) /\ n <= o.gross
        /\ GrossOf(R) = -n /\ HqOf(R) = -HqPart(o, n) /\ CreatorOf(R) = -CreatorPart(o, n)
    BY <2>1 DEF Explains, R
  <2>10. Gives(h[o])
    BY <2>5, <2>9 DEF Gives
  <2> HIDE DEF H
  <2>11. Explains(H, h[o], n)
    BY <2>3, <2>4, <2>5, <2>6, <2>8, <2>9, <2>10 DEF Explains
  <2> QED BY <1>2, <2>1, <2>5, <2>11 DEF FairEntries, H
<1> QED BY <1>1, <1>2

\* settleMonth keeps the ledger right.
LEMMA SettleKeepsRevenue ==
  ASSUME RevenueInv, NEW m \in Months, SettleMonth(m)
  PROVE  RevenueInv'
<1> DEFINE h == [b \in book |-> IF b.month = m THEN [b EXCEPT !.status = "settled"] ELSE b]
<1>1. /\ m < month /\ m \notin closed /\ (\A e \in Unvalued : e.month > m) /\ closed' = closed \cup {m}
      /\ revenues' = revenues /\ cash' = cash /\ basis' = basis /\ share' = share /\ month' = month
      /\ unlocked' = unlocked
      /\ book' = {IF b.month = m THEN [b EXCEPT !.status = "settled"] ELSE b : b \in book}
  BY DEF SettleMonth
<1>2. book' = {h[b] : b \in book}
  BY <1>1
<1>3. /\ FairBook(Revenue) /\ Exact(Revenue, cash) /\ MonthsAreRight(Revenue, closed)
      /\ CashAmounts(cash) /\ TermsAreRight /\ \A e \in revenues : e.title \in unlocked
  BY DEF RevenueInv
<1>4. /\ IsFiniteSet(revenues) /\ revenues \subseteq RevenueEvents
      /\ IsFiniteSet(book) /\ book \subseteq CashEntries
      /\ \A d, e \in revenues : EventKey(d) = EventKey(e) => d = e
      /\ \A b \in book : \E e \in revenues : b.event = EventKey(e)
      /\ \A e \in revenues : FairEntries(EntriesOf(book, e), e)
      /\ \A e \in revenues : e.refunded = TakenBack(revenues, book, e, cash)
      /\ \A b \in book : b.month \in closed <=> b.status = "settled"
      /\ \A e \in revenues : e.month \in closed => e.state = "posted"
  BY <1>3 DEF FairBook, Exact, MonthsAreRight, Revenue
<1>5. ASSUME NEW b \in book
      PROVE  /\ h[b] \in CashEntries /\ h[b].event = b.event /\ h[b].upto = b.upto /\ h[b].gross = b.gross
             /\ h[b].hq = b.hq /\ h[b].creator = b.creator /\ h[b].month = b.month
             /\ h[b].status = (IF b.month = m THEN "settled" ELSE b.status)
  BY <1>4 DEF CashEntries
<1>6. ASSUME NEW a \in book, NEW b \in book, h[a] = h[b] PROVE a = b
  <2>1. a \in CashEntries /\ b \in CashEntries
    BY <1>4
  <2>2. a.month = b.month /\ (a.month = m => a.status = "pending" /\ b.status = "pending")
    BY <1>1, <1>4, <1>5, <1>6, <2>1 DEF CashEntries
  <2> HIDE DEF h
  <2>3. a.event = b.event /\ a.upto = b.upto /\ a.gross = b.gross /\ a.hq = b.hq /\ a.creator = b.creator
    BY <1>5, <1>6
  <2>4. a.status = b.status
    BY <1>5, <1>6, <2>2
  <2> QED BY <2>1, <2>2, <2>3, <2>4 DEF CashEntries
<1> HIDE DEF h
<1>7. ASSUME NEW e \in revenues
      PROVE  /\ EntriesOf(book', e) = {h[b] : b \in EntriesOf(book, e)}
             /\ FairEntries(EntriesOf(book', e), e)
             /\ TakenBack(revenues, book', e, cash) = TakenBack(revenues, book, e, cash)
  <2> DEFINE B == EntriesOf(book, e)
             H == EntriesOf(book', e)
  <2>1. H = {h[b] : b \in B}
    BY <1>2, <1>5 DEF EntriesOf
  <2>2. B \in SUBSET book
    BY DEF EntriesOf
  <2>3. FairEntries(B, e) /\ e.state \in {"unvalued", "posted"}
    BY <1>4 DEF RevenueEvents
  <2>4. /\ IsFiniteSet(B) /\ B \subseteq CashEntries
        /\ \A b \in B : /\ h[b].gross = b.gross /\ h[b].hq = b.hq /\ h[b].creator = b.creator
                        /\ h[b].upto = b.upto
        /\ \A a, b \in B : h[a] = h[b] => a = b
    BY <1>4, <1>5, <1>6, <2>2, FS_Subset
  <2> HIDE DEF B, H
  <2>5. FairEntries({h[b] : b \in B}, e)
    BY ONLY <2>3, <2>4, SettledStaysFair
  <2>6. FairEntries(H, e)
    BY <2>1, <2>5
  <2>7. OneOriginal(B) /\ OneOriginal(H) /\ (B # {} => \E o \in B : Explains(B, o, e.refunded))
    BY <2>3, <2>6, FairHasOneOriginal
  <2>8. TakenBack(revenues, book', e, cash) = TakenBack(revenues, book, e, cash)
    <3>1. CASE B = {}
      <4>1. H = {}
        BY <2>1, <3>1
      <4>2. TakenBack(revenues, book, e, cash) = 0
        BY <2>7, <3>1, TakenBackIsShare DEF B
      <4>3. TakenBack(revenues, book', e, cash) = 0
        BY <2>7, <4>1, TakenBackIsShare DEF H
      <4> QED BY <4>2, <4>3
    <3>2. CASE B # {}
      <4>1. PICK o \in B : o.upto = 0
        BY <2>7, <3>2 DEF Explains
      <4>2. h[o] \in H /\ h[o].upto = 0 /\ h[o].gross = o.gross
        BY <2>1, <2>4, <4>1
      <4> DEFINE R == Recognized(revenues, e.source)
                 K == Consumed(R, Gross[e.source], cash[e.source].refunded)
      <4>3. TakenBack(revenues, book, e, cash) = TakenShare(o.gross, R, K)
        BY <2>7, <4>1, TakenBackIsShare DEF B
      <4>4. TakenBack(revenues, book', e, cash) = TakenShare(h[o].gross, R, K)
        BY <2>7, <4>2, TakenBackIsShare DEF H
      <4> QED BY <4>2, <4>3, <4>4
    <3> QED BY <3>1, <3>2
  <2> QED BY <2>1, <2>6, <2>8 DEF B, H
<1>8. FairBook(Revenue)'
  <2>1. IsFiniteSet(book')
    BY <1>2, <1>4, ImagesAreFinite
  <2>2. book' \subseteq CashEntries /\ \A b \in book' : \E e \in revenues : b.event = EventKey(e)
    BY <1>2, <1>4, <1>5
  <2> QED BY <1>1, <1>4, <1>7, <2>1, <2>2 DEF FairBook, Revenue
<1>9. Exact(Revenue, cash)'
  BY <1>1, <1>4, <1>7 DEF Exact, Revenue
<1>10. MonthsAreRight(Revenue, closed)'
  <2>1. \A b \in book : h[b].month \in closed \cup {m} <=> h[b].status = "settled"
    BY <1>4, <1>5
  <2>2. \A e \in revenues : e.month = m => e.state = "posted"
    <3>1. ASSUME NEW e \in revenues, e.month = m, e.state # "posted" PROVE FALSE
      <4>1. e \in Unvalued /\ e.month \in Nat
        BY <1>4, <3>1 DEF Unvalued, RevenueEvents
      <4> QED BY <1>1, <3>1, <4>1
    <3> QED BY <3>1
  <2> QED BY <1>1, <1>2, <1>4, <2>1, <2>2 DEF MonthsAreRight, Revenue
<1>11. TermsAreRight'
  BY <1>1, <1>3 DEF TermsAreRight, Months
<1> QED BY <1>1, <1>3, <1>8, <1>9, <1>10, <1>11 DEF RevenueInv

\* attachNetStatement.
LEMMA AttachKeepsRevenue ==
  ASSUME RevenueInv, NEW s \in Sources, AttachNetStatement(s)
  PROVE  RevenueInv'
<1>1. /\ cash' = [cash EXCEPT ![s].net = Net[s]] /\ Net[s] # Unknown
      /\ revenues' = revenues /\ book' = book /\ unlocked' = unlocked
      /\ basis' = basis /\ share' = share /\ month' = month /\ closed' = closed
  BY DEF AttachNetStatement, revenueVars, termVars
<1>2. /\ FairBook(Revenue) /\ Exact(Revenue, cash) /\ MonthsAreRight(Revenue, closed)
      /\ CashAmounts(cash) /\ TermsAreRight /\ \A e \in revenues : e.title \in unlocked
      /\ revenues \subseteq RevenueEvents
  BY DEF RevenueInv, FairBook, Revenue
<1>3. CashAmounts(cash') /\ \A x \in Sources : cash'[x].refunded = cash[x].refunded
  <2>1. cash \in [Sources -> [refunded : Nat, net : Int]]
    BY <1>2 DEF CashAmounts
  <2>2. Net[s] \in 0 .. Gross[s] /\ Gross[s] \in Nat
    BY <1>1, AmountsAssumption
  <2>3. cash' = [cash EXCEPT ![s] = [cash[s] EXCEPT !.net = Net[s]]]
    BY <1>1
  <2>4. [cash[s] EXCEPT !.net = Net[s]] = [refunded |-> cash[s].refunded, net |-> Net[s]]
    BY <2>1
  <2>5. \A x \in Sources : cash'[x] = IF x = s THEN [refunded |-> cash[s].refunded, net |-> Net[s]] ELSE cash[x]
    BY <2>1, <2>3, <2>4
  <2>6. cash' \in [Sources -> [refunded : Nat, net : Int]]
    BY <2>1, <2>2, <2>3, <2>4
  <2>7. \A x \in Sources : cash'[x].refunded = cash[x].refunded /\ cash'[x].net \in {Unknown} \cup 0 .. Gross[x]
    <3>1. ASSUME NEW x \in Sources
          PROVE  cash'[x].refunded = cash[x].refunded /\ cash'[x].net \in {Unknown} \cup 0 .. Gross[x]
      <4>1. CASE x = s
        BY <2>2, <2>5, <4>1
      <4>2. CASE x # s
        BY <1>2, <2>5, <4>2 DEF CashAmounts
      <4> QED BY <4>1, <4>2
    <3> QED BY <3>1
  <2> QED BY <1>2, <2>6, <2>7 DEF CashAmounts
<1>4. ASSUME NEW e \in revenues PROVE TakenBack(revenues, book, e, cash') = TakenBack(revenues, book, e, cash)
  <2>1. e.source \in Sources
    BY <1>2 DEF RevenueEvents
  <2> QED BY <1>3, <2>1 DEF TakenBack
<1>5. Exact(Revenue, cash)'
  BY <1>1, <1>2, <1>4 DEF Exact, Revenue
<1>6. FairBook(Revenue)' /\ MonthsAreRight(Revenue, closed)' /\ TermsAreRight'
  BY <1>1, <1>2 DEF FairBook, MonthsAreRight, TermsAreRight, Revenue
<1>7. CashAmounts(cash)'
  BY <1>3 DEF CashAmounts
<1> QED BY <1>1, <1>2, <1>5, <1>6, <1>7 DEF RevenueInv

\* reconcile.
LEMMA ReconcileKeepsRevenue ==
  ASSUME RevenueInv, Reconcile
  PROVE  RevenueInv'
<1> DEFINE r == Revenue
           W == Unvalued
           accept == TRUE
           q == PostCashEvents(r, W, accept, cash)
<1>1. /\ revenues' = q.events /\ book' = q.book /\ cash' = cash /\ unlocked' = unlocked
      /\ basis' = basis /\ share' = share /\ month' = month /\ closed' = closed
  BY DEF Reconcile, Keep, termVars
<1>2. /\ FairBook(r) /\ Exact(r, cash) /\ MonthsAreRight(r, closed)
      /\ CashAmounts(cash) /\ TermsAreRight /\ (\A e \in revenues : e.title \in unlocked)
      /\ revenues \subseteq RevenueEvents /\ r.events = revenues
  BY DEF RevenueInv, FairBook, Revenue
<1>3. /\ basis \in {"none", "gross", "net"} /\ share \in Shares \cup {NoShare}
      /\ month \in Nat /\ month \notin closed
  BY <1>2, ThisMonthIsOpen DEF TermsAreRight
<1>4. W \in SUBSET r.events /\ accept \in BOOLEAN
  BY <1>2 DEF Unvalued
<1> HIDE DEF r, W, accept
<1>5. /\ \A e \in r.events : e.refunded <= TakenBack(r.events, r.book, e, cash)
      /\ \A e \in r.events \ W : e.refunded = TakenBack(r.events, r.book, e, cash)
  BY <1>2 DEF Exact, RevenueEvents
<1>6. CashAmounts(cash) /\ FairBook(r) /\ MonthsAreRight(r, closed)
  BY <1>2
<1>7. FairBook(q) /\ Exact(q, cash)
  BY ONLY <1>3, <1>4, <1>5, <1>6, PostKeepsFair
<1>8. MonthsAreRight(q, closed)
  BY ONLY <1>3, <1>4, <1>5, <1>6, PostKeepsFair
<1>9. \A d \in q.events : \E e \in r.events : EventKey(d) = EventKey(e)
  BY ONLY <1>3, <1>4, <1>5, <1>6, PostKeepsFair
<1> HIDE DEF q
<1>10. /\ Revenue.events' = q.events /\ Revenue.book' = q.book
  BY <1>1 DEF Revenue
<1>11. FairBook(Revenue)' /\ Exact(Revenue, cash)' /\ MonthsAreRight(Revenue, closed)'
  BY <1>1, <1>7, <1>8, <1>10 DEF FairBook, Exact, MonthsAreRight
<1>12. CashAmounts(cash)' /\ TermsAreRight'
  BY <1>1, <1>2 DEF CashAmounts, TermsAreRight
<1>13. \A d \in revenues' : d.title \in unlocked'
  BY <1>1, <1>2, <1>9 DEF EventKey
<1> QED BY <1>11, <1>12, <1>13 DEF RevenueInv

\* Steps that leave the ledger alone.
LEMMA QuietKeepsRevenue ==
  ASSUME RevenueInv, UNCHANGED <<revenueVars, cash, closed>>, unlocked \subseteq unlocked', TermsAreRight'
  PROVE  RevenueInv'
<1>1. revenues' = revenues /\ book' = book /\ cash' = cash /\ closed' = closed
  BY DEF revenueVars
<1>2. FairBook(Revenue)' /\ Exact(Revenue, cash)' /\ MonthsAreRight(Revenue, closed)' /\ CashAmounts(cash)'
  BY <1>1 DEF RevenueInv, FairBook, Exact, MonthsAreRight, CashAmounts, Revenue
<1> QED BY <1>1, <1>2 DEF RevenueInv

\* So do new terms, which hold for what is sold from then on, and a new month.
LEMMA TermsKeepRevenue ==
  ASSUME RevenueInv, ConfigureBasis \/ UpsertPolicy \/ NextMonth
  PROVE  RevenueInv'
<1>1. UNCHANGED <<revenueVars, cash, closed>> /\ unlocked' = unlocked
  BY DEF ConfigureBasis, UpsertPolicy, NextMonth
<1>2. TermsAreRight
  BY DEF RevenueInv
<1>3. TermsAreRight'
  <2>1. CASE ConfigureBasis
    BY <1>2, <2>1 DEF ConfigureBasis, TermsAreRight
  <2>2. CASE UpsertPolicy
    BY <1>2, <2>2 DEF UpsertPolicy, TermsAreRight
  <2>3. CASE NextMonth
    BY <1>2, <2>3 DEF NextMonth, TermsAreRight
  <2> QED BY <2>1, <2>2, <2>3
<1> QED BY <1>1, <1>3, QuietKeepsRevenue

\* At first nothing was sold.
LEMMA RevenueInitially ==
  ASSUME CashInit
  PROVE  RevenueInv
<1>1. FairBook(Revenue)
  BY FS_EmptySet DEF FairBook, CashInit, Revenue
<1>2. Exact(Revenue, cash) /\ MonthsAreRight(Revenue, closed) /\ TermsAreRight
  BY DEF Exact, MonthsAreRight, TermsAreRight, CashInit, Revenue
<1>3. CashAmounts(cash)
  BY AmountsAssumption DEF CashInit, CashAmounts, Unknown
<1> QED BY <1>1, <1>2, <1>3 DEF RevenueInv, CashInit

-----------------------------------------------------------------------------
(* Lots and draws.                                                       *)

\* Lots, the uses made of them, and the debts of store refunds.
CashLots ==
  [source : Sources, paid : BOOLEAN, start : Nat, points : Nat, remaining : Nat]

PointDebits ==
  ({"reclaim"} \X StorePurchases \X Nat) \cup ({"reserve"} \X TopUps \X Nat) \cup ({"unlock"} \X Titles \X {0})

CashUses ==
  [debit : PointDebits, source : Sources, paid : BOOLEAN, start : Nat, points : Nat]

Debts == [StorePurchases -> [paid : Nat, bonus : Nat]]

\* The fields of lots.
LEMMA LotsAreTyped ==
  ASSUME NEW lots \in Seq(CashLots)
  PROVE  /\ Len(lots) \in Nat /\ DOMAIN lots = 1 .. Len(lots) /\ DOMAIN lots \in SUBSET Nat
         /\ \A i \in DOMAIN lots :
              /\ lots[i] \in CashLots
              /\ lots[i].source \in Sources /\ lots[i].paid \in BOOLEAN /\ lots[i].start \in Nat
              /\ lots[i].points \in Nat /\ lots[i].remaining \in Nat
<1>1. Len(lots) \in Nat /\ DOMAIN lots = 1 .. Len(lots) /\ DOMAIN lots \in SUBSET Nat
  OBVIOUS
<1>2. \A i \in DOMAIN lots : lots[i] \in CashLots
  BY <1>1
<1> QED BY <1>1, <1>2 DEF CashLots

\* What is left in some lots is a natural number.
LEMMA RemainingIsASum ==
  ASSUME NEW lots \in Seq(CashLots), NEW X \in SUBSET DOMAIN lots
  PROVE  /\ IsFiniteSet(X)
         /\ Remaining(lots, X) = SumFunctionOnSet([i \in DOMAIN lots |-> lots[i].remaining], X)
         /\ Remaining(lots, X) \in Nat
<1> DEFINE rem == [i \in DOMAIN lots |-> lots[i].remaining]
           own == [i \in X |-> lots[i].remaining]
<1>1. IsFiniteSet(DOMAIN lots)
  <2>1. DOMAIN lots = 1 .. Len(lots) /\ Len(lots) \in Nat
    OBVIOUS
  <2>2. IsFiniteSet(1 .. Len(lots))
    BY <2>1, FS_Interval
  <2> QED BY <2>1, <2>2
<1>2. IsFiniteSet(X)
  BY <1>1, FS_Subset
<1>3. \A i \in X : own[i] = rem[i] /\ own[i] \in Nat
  BY LotsAreTyped
<1> HIDE DEF rem
<1>4. SumFunctionOnSet(own, X) = SumFunctionOnSet(rem, X) /\ SumFunctionOnSet(own, X) \in Nat
  <2> HIDE DEF own
  <2> QED BY <1>2, <1>3, SumIsOfValues, SumsAreNatural
<1>5. Remaining(lots, X) = SumFunctionOnSet(own, X)
  BY DEF Remaining
<1> HIDE DEF own
<1> QED BY <1>2, <1>4, <1>5 DEF rem

\* What is drawn from a lot is there.
LEMMA DrawsAreCovered ==
  ASSUME NEW lots \in Seq(CashLots), NEW rank, NEW n \in Nat, NEW i \in DOMAIN lots
  PROVE  LET before == {j \in DOMAIN lots : rank[j] < rank[i] \/ (rank[j] = rank[i] /\ j < i)}
         IN /\ Draw(lots, rank, n)[i] = Least(lots[i].remaining, Greatest(0, n - Remaining(lots, before)))
            /\ Draw(lots, rank, n)[i] \in Nat
            /\ Draw(lots, rank, n)[i] <= lots[i].remaining
<1> DEFINE before == {j \in DOMAIN lots : rank[j] < rank[i] \/ (rank[j] = rank[i] /\ j < i)}
<1>1. Draw(lots, rank, n)[i] = Least(lots[i].remaining, Greatest(0, n - Remaining(lots, before)))
  BY DEF Draw
<1>2. Remaining(lots, before) \in Nat /\ lots[i].remaining \in Nat
  <2>1. before \in SUBSET DOMAIN lots
    OBVIOUS
  <2> HIDE DEF before
  <2> QED BY <2>1, RemainingIsASum, LotsAreTyped
<1> HIDE DEF before
<1>3. /\ Draw(lots, rank, n)[i] \in Nat
      /\ Draw(lots, rank, n)[i] <= lots[i].remaining
  BY <1>1, <1>2 DEF Least, Greatest
<1> QED BY <1>1, <1>3 DEF before

\* Of a set of lots that is not empty, one comes last.
LEMMA OneComesLast ==
  ASSUME NEW D \in SUBSET Nat, NEW X \in SUBSET D, IsFiniteSet(X), X # {}, NEW rank, \A i \in D : rank[i] \in Nat
  PROVE  \E i \in X : \A j \in X \ {i} : rank[j] < rank[i] \/ (rank[j] = rank[i] /\ j < i)
<1> DEFINE Last(Y, i) == \A j \in Y \ {i} : rank[j] < rank[i] \/ (rank[j] = rank[i] /\ j < i)
           Good == {Y \in SUBSET X : Y = {} \/ \E i \in Y : Last(Y, i)}
<1>1. Good \in SUBSET SUBSET X /\ {} \in Good
  OBVIOUS
<1>2. ASSUME NEW Y \in SUBSET X, NEW x \in Y, Y \ {x} \in Good PROVE Y \in Good
  <2>1. CASE Y \ {x} = {}
    <3>1. Last(Y, x)
      BY <2>1
    <3> QED BY <3>1
  <2>2. CASE \E i \in Y \ {x} : Last(Y \ {x}, i)
    <3>1. PICK i \in Y \ {x} : Last(Y \ {x}, i)
      BY <2>2
    <3>2. /\ i \in Nat /\ x \in Nat /\ rank[i] \in Nat /\ rank[x] \in Nat
          /\ \A j \in Y : j \in Nat /\ rank[j] \in Nat
      OBVIOUS
    <3>3. CASE rank[x] < rank[i] \/ (rank[x] = rank[i] /\ x < i)
      <4>1. Last(Y, i)
        BY <3>1, <3>3
      <4> HIDE DEF Last
      <4> QED BY <4>1
    <3>4. CASE ~(rank[x] < rank[i] \/ (rank[x] = rank[i] /\ x < i))
      <4>1. rank[i] < rank[x] \/ (rank[x] = rank[i] /\ i < x)
        BY <3>2, <3>4
      <4>2. Last(Y, x)
        BY <3>1, <3>2, <4>1
      <4> HIDE DEF Last
      <4> QED BY <4>2
    <3> QED BY <3>3, <3>4
  <2> HIDE DEF Last
  <2> QED BY <1>2, <2>1, <2>2
<1>3. X \in Good
  <2> HIDE DEF Good
  <2> QED BY <1>1, <1>2, ElementByElement
<1> QED BY <1>3

\* What is drawn from all lots is what was asked for, if the lots have it.
LEMMA DrawsAddUp ==
  ASSUME NEW lots \in Seq(CashLots), NEW rank, \A i \in DOMAIN lots : rank[i] \in Nat,
         NEW n \in Nat, n <= Remaining(lots, DOMAIN lots)
  PROVE  SumFunctionOnSet(Draw(lots, rank, n), DOMAIN lots) = n
<1> DEFINE D == DOMAIN lots
           draw == Draw(lots, rank, n)
           rem == [i \in D |-> lots[i].remaining]
           Before(j, i) == rank[j] < rank[i] \/ (rank[j] = rank[i] /\ j < i)
           Downward(X) == \A i \in X : \A j \in D : Before(j, i) => j \in X
           Right(X) == SumFunctionOnSet(draw, X) = Least(n, SumFunctionOnSet(rem, X))
           P == {X \in SUBSET D : Downward(X) /\ ~Right(X)}
<1>1. D \in SUBSET Nat /\ IsFiniteSet(D)
  <2>1. D \in SUBSET DOMAIN lots
    OBVIOUS
  <2> QED BY <2>1, RemainingIsASum, LotsAreTyped
<1>2. \A i \in D : rank[i] \in Nat /\ draw[i] \in Nat /\ rem[i] \in Nat
  BY DrawsAreCovered, LotsAreTyped
<1>3. \A X \in SUBSET D : /\ IsFiniteSet(X)
                          /\ Remaining(lots, X) = SumFunctionOnSet(rem, X)
                          /\ SumFunctionOnSet(rem, X) \in Nat
  BY RemainingIsASum
<1>4. \A i \in D : draw[i] = Least(rem[i], Greatest(0, n - Remaining(lots, {j \in D : Before(j, i)})))
  BY DrawsAreCovered
<1> HIDE DEF draw, rem, D
<1>5. ASSUME P # {} PROVE FALSE
  <2>1. PICK X \in P : \A Y \in P : Y \subseteq X => Y = X
    <3>1. P \subseteq SUBSET D
      OBVIOUS
    <3> HIDE DEF P
    <3> QED BY <1>1, <1>5, <3>1, SmallestSubset
  <2>2. X \in SUBSET D /\ Downward(X) /\ ~Right(X) /\ IsFiniteSet(X)
    BY <1>3
  <2>3. X # {}
    <3>1. SumFunctionOnSet(draw, {}) = 0 /\ SumFunctionOnSet(rem, {}) = 0
      BY SumOfNothing
    <3>2. ASSUME X = {} PROVE Right(X)
      <4>1. SumFunctionOnSet(draw, X) = 0 /\ SumFunctionOnSet(rem, X) = 0
        BY <3>1, <3>2
      <4> QED BY <4>1 DEF Least
    <3> HIDE DEF Right
    <3> QED BY <2>2, <3>2
  <2>4. PICK x \in X : \A j \in X \ {x} : Before(j, x)
    BY <1>1, <1>2, <2>2, <2>3, OneComesLast
  <2> DEFINE Y == {j \in D : Before(j, x)}
  <2>5. Y = X \ {x}
    <3>1. rank[x] \in Nat /\ x \in Nat /\ x \in D
      BY <1>1, <1>2, <2>2
    <3>2. x \notin Y
      BY <3>1
    <3>3. Y \subseteq X
      BY <2>2
    <3>4. X \ {x} \subseteq Y
      BY <2>2, <2>4
    <3> HIDE DEF Y
    <3> QED BY <3>2, <3>3, <3>4
  <2>6. Y \in SUBSET D /\ Y \subseteq X /\ Y # X /\ Downward(Y)
    <3>1. ASSUME NEW i \in Y, NEW j \in D, Before(j, i) PROVE j \in Y
      <4>1. /\ x \in Nat /\ i \in Nat /\ j \in Nat /\ rank[x] \in Nat /\ rank[i] \in Nat /\ rank[j] \in Nat
        BY <1>1, <1>2, <2>2
      <4>2. Before(i, x)
        BY <3>1
      <4> QED BY <3>1, <4>1, <4>2
    <3> QED BY <2>4, <2>5, <3>1
  <2>7. Right(Y)
    <3> HIDE DEF Right, Downward, Y
    <3> QED BY <2>1, <2>6
  <2>8. /\ SumFunctionOnSet(draw, X) = draw[x] + SumFunctionOnSet(draw, Y)
        /\ SumFunctionOnSet(rem, X) = rem[x] + SumFunctionOnSet(rem, Y)
    <3>1. X \in SUBSET D /\ x \in X
      BY <2>2
    <3>2. \A i \in D : draw[i] \in Int /\ rem[i] \in Int
      BY <1>2
    <3>3. SumFunctionOnSet(draw, X) = draw[x] + SumFunctionOnSet(draw, X \ {x})
      <4> HIDE DEF Y, P, Downward, Right, Before
      <4>1. IsFiniteSet(X) /\ \A i \in X : draw[i] \in Int
        BY <2>2, <3>1, <3>2
      <4> QED BY ONLY <3>1, <4>1, SumTakesAny
    <3>4. SumFunctionOnSet(rem, X) = rem[x] + SumFunctionOnSet(rem, X \ {x})
      <4> HIDE DEF Y, P, Downward, Right, Before
      <4>1. IsFiniteSet(X) /\ \A i \in X : rem[i] \in Int
        BY <2>2, <3>1, <3>2
      <4> QED BY ONLY <3>1, <4>1, SumTakesAny
    <3> QED BY <2>5, <3>3, <3>4
  <2>9. /\ SumFunctionOnSet(rem, Y) \in Nat /\ rem[x] \in Nat
        /\ draw[x] = Least(rem[x], Greatest(0, n - SumFunctionOnSet(rem, Y)))
    BY <1>2, <1>3, <1>4, <2>2
  <2> HIDE DEF Y
  <2> QED BY <2>2, <2>7, <2>8, <2>9 DEF Least, Greatest
<1>6. Right(D)
  BY <1>5
<1> QED BY <1>3, <1>6 DEF Least, D, draw

-----------------------------------------------------------------------------
(* Wallets.                                                              *)

\* How many paid or bonus points a source has, and where one of them is.
Amount(s, paid) == IF paid THEN PaidPoints[s] ELSE BonusPoints[s]

HasLots(lots, s) == \E i \in DOMAIN lots : lots[i].source = s

LotsAt(lots, s, paid, k) ==
  {i \in DOMAIN lots : /\ lots[i].source = s /\ lots[i].paid = paid
                       /\ Position(lots[i]) <= k /\ k < lots[i].start + lots[i].points}

UsesAt(uses, given, s, paid, k) ==
  {u \in uses : /\ u.debit \notin given /\ u.source = s /\ u.paid = paid
                /\ u.start <= k /\ k < u.start + u.points}

InOnePlace(L, U) == (\E i : L = {i} /\ U = {}) \/ (L = {} /\ \E u : U = {u})

PointsOf(U) == SumFunctionOnSet([u \in U |-> u.points], U)

Wallets == [balance : Nat, lots : Seq(CashLots), uses : SUBSET CashUses, debt : Debts]

\* A wallet that says where all its points are, when the debits in given were undone.
Traced(lots, uses, given) ==
  \A s \in Sources : HasLots(lots, s) =>
    \A paid \in BOOLEAN : \A k \in 0 .. Amount(s, paid) - 1 :
      InOnePlace(LotsAt(lots, s, paid, k), UsesAt(uses, given, s, paid, k))

WithinSources(lots, uses) ==
  /\ \A i \in DOMAIN lots : /\ lots[i].remaining <= lots[i].points
                            /\ lots[i].start + lots[i].points <= Amount(lots[i].source, lots[i].paid)
  /\ \A u \in uses : HasLots(lots, u.source) /\ u.start + u.points <= Amount(u.source, u.paid)

GoodWallet(w, given) ==
  /\ w \in Wallets /\ IsFiniteSet(w.uses)
  /\ w.balance = Remaining(w.lots, DOMAIN w.lots)
  /\ WithinSources(w.lots, w.uses)
  /\ Traced(w.lots, w.uses, given)

\* A source has so many points of each kind.
LEMMA AmountsAreNatural ==
  ASSUME NEW s \in Sources, NEW paid \in BOOLEAN
  PROVE  Amount(s, paid) \in Nat
BY AmountsAssumption DEF Amount

\* Two lots from which points can be drawn do not stand at the same point.
LEMMA LotsStandApart ==
  ASSUME NEW lots \in Seq(CashLots), NEW uses, NEW given, WithinSources(lots, uses), Traced(lots, uses, given),
         NEW i \in DOMAIN lots, NEW j \in DOMAIN lots, lots[i].remaining > 0, lots[j].remaining > 0,
         lots[i].source = lots[j].source, lots[i].paid = lots[j].paid, Position(lots[i]) = Position(lots[j])
  PROVE  i = j
<1> DEFINE s == lots[i].source
           p == lots[i].paid
           k == Position(lots[i])
<1>1. s \in Sources /\ p \in BOOLEAN /\ HasLots(lots, s)
  BY LotsAreTyped DEF HasLots
<1>2. k \in 0 .. Amount(s, p) - 1 /\ i \in LotsAt(lots, s, p, k) /\ j \in LotsAt(lots, s, p, k)
  <2>1. /\ lots[i].start \in Nat /\ lots[i].points \in Nat /\ lots[i].remaining \in Nat
        /\ lots[j].start \in Nat /\ lots[j].points \in Nat /\ lots[j].remaining \in Nat
        /\ lots[i].remaining <= lots[i].points /\ lots[i].start + lots[i].points <= Amount(s, p)
        /\ Amount(s, p) \in Nat
    BY <1>1, LotsAreTyped, AmountsAreNatural DEF WithinSources
  <2>2. k = lots[i].start + lots[i].points - lots[i].remaining
        /\ k = lots[j].start + lots[j].points - lots[j].remaining
    BY DEF Position
  <2>3. k \in Nat /\ k < Amount(s, p) /\ k < lots[i].start + lots[i].points /\ k < lots[j].start + lots[j].points
    <3>1. lots[i].remaining > 0 /\ lots[j].remaining > 0
      OBVIOUS
    <3> HIDE DEF k, s, p
    <3> DEFINE a == Amount(s, p)
               x == lots[i].start
               y == lots[i].points
               z == lots[i].remaining
               t == lots[j].start + lots[j].points
               r == lots[j].remaining
    <3>2. /\ a \in Nat /\ x \in Nat /\ y \in Nat /\ z \in Nat /\ t \in Nat /\ r \in Nat
          /\ z <= y /\ x + y <= a /\ k = x + y - z /\ k = t - r /\ z > 0 /\ r > 0
      BY SMTT(60), <2>1, <2>2, <3>1
    <3>3. t = lots[j].start + lots[j].points
      OBVIOUS
    <3> HIDE DEF a, x, y, z, t, r
    <3>4. k \in Nat /\ k < a /\ k < x + y /\ k < t
      BY ONLY <3>2
    <3> QED BY <3>3, <3>4 DEF a, x, y
  <2> HIDE DEF k
  <2>4. i \in LotsAt(lots, s, p, k)
    BY <2>1, <2>3 DEF LotsAt, k
  <2>5. j \in LotsAt(lots, s, p, k)
    BY <2>1, <2>3 DEF LotsAt, k
  <2> QED BY <2>1, <2>3, <2>4, <2>5
<1>3. InOnePlace(LotsAt(lots, s, p, k), UsesAt(uses, given, s, p, k))
  <2> HIDE DEF s, p, k
  <2> QED BY <1>1, <1>2 DEF Traced
<1> HIDE DEF s, p, k
<1> QED BY <1>2, <1>3 DEF InOnePlace

\* What record_point_cash does, field by field.
Debited(w, n, v, draw, use) ==
  /\ v = [balance |-> w.balance - n, lots |-> v.lots, uses |-> v.uses, debt |-> w.debt]
  /\ v.balance = w.balance - n /\ v.debt = w.debt
  /\ v.uses = w.uses \cup {use[i] : i \in {j \in DOMAIN w.lots : draw[j] > 0}}
  /\ DOMAIN v.lots = DOMAIN w.lots /\ Len(v.lots) = Len(w.lots) /\ v.lots \in Seq(CashLots)
  /\ \A i \in DOMAIN w.lots :
       /\ v.lots[i].source = w.lots[i].source /\ v.lots[i].paid = w.lots[i].paid
       /\ v.lots[i].start = w.lots[i].start /\ v.lots[i].points = w.lots[i].points
       /\ v.lots[i].remaining = w.lots[i].remaining - draw[i]
       /\ Position(v.lots[i]) = Position(w.lots[i]) + draw[i]

\* What record_point_cash makes of a wallet, field by field.
LEMMA DebitIs ==
  ASSUME NEW w, w \in Wallets, NEW debit \in PointDebits, NEW rank, NEW n \in Nat,
         NEW v, v = Debit(w, debit, rank, n), NEW draw, draw = Draw(w.lots, rank, n),
         NEW use, use = [i \in DOMAIN w.lots |->
                           [debit |-> debit, source |-> w.lots[i].source, paid |-> w.lots[i].paid,
                            start |-> Position(w.lots[i]), points |-> draw[i]]]
  PROVE  Debited(w, n, v, draw, use)
<1> DEFINE D    == DOMAIN w.lots
           next == [i \in D |-> [w.lots[i] EXCEPT !.remaining = @ - draw[i]]]
<1>1. w.lots \in Seq(CashLots) /\ w = [balance |-> w.balance, lots |-> w.lots, uses |-> w.uses, debt |-> w.debt]
  BY DEF Wallets
<1>2. \A i \in D : draw[i] \in Nat /\ draw[i] <= w.lots[i].remaining
  BY <1>1, DrawsAreCovered
<1>3. v = [w EXCEPT !.balance = @ - n, !.lots = next,
                    !.uses = @ \cup {use[i] : i \in {j \in D : draw[j] > 0}}]
  <2>1. {use[i] : i \in {j \in D : draw[j] > 0}}
          = {[debit |-> debit, source |-> w.lots[i].source, paid |-> w.lots[i].paid,
              start |-> Position(w.lots[i]), points |-> draw[i]] : i \in {j \in D : draw[j] > 0}}
    OBVIOUS
  <2>2. next = [i \in DOMAIN w.lots |-> [w.lots[i] EXCEPT !.remaining = @ - draw[i]]]
    OBVIOUS
  <2> HIDE DEF next
  <2> QED BY <2>1, <2>2 DEF Debit
<1> HIDE DEF next
<1>4. /\ v.lots = next /\ v.balance = w.balance - n /\ v.debt = w.debt
      /\ v.uses = w.uses \cup {use[i] : i \in {j \in D : draw[j] > 0}}
      /\ v = [balance |-> w.balance - n, lots |-> v.lots, uses |-> v.uses, debt |-> w.debt]
  BY <1>1, <1>3
<1>5. ASSUME NEW i \in D
      PROVE  /\ next[i] \in CashLots
             /\ next[i].source = w.lots[i].source /\ next[i].paid = w.lots[i].paid
             /\ next[i].start = w.lots[i].start /\ next[i].points = w.lots[i].points
             /\ next[i].remaining = w.lots[i].remaining - draw[i]
             /\ Position(next[i]) = Position(w.lots[i]) + draw[i]
  <2>1. /\ w.lots[i] \in CashLots /\ w.lots[i].remaining \in Nat /\ w.lots[i].start \in Nat /\ w.lots[i].points \in Nat
        /\ draw[i] \in Nat /\ draw[i] <= w.lots[i].remaining
    BY <1>1, <1>2, LotsAreTyped
  <2>2. next[i] = [w.lots[i] EXCEPT !.remaining = @ - draw[i]]
    BY DEF next
  <2>3. /\ next[i] \in CashLots
        /\ next[i].source = w.lots[i].source /\ next[i].paid = w.lots[i].paid
        /\ next[i].start = w.lots[i].start /\ next[i].points = w.lots[i].points
        /\ next[i].remaining = w.lots[i].remaining - draw[i]
    BY <2>1, <2>2 DEF CashLots
  <2>4. Position(next[i]) = Position(w.lots[i]) + draw[i]
    BY <2>1, <2>3 DEF Position
  <2> QED BY <2>3, <2>4
<1>6. DOMAIN next = D /\ D = 1 .. Len(w.lots) /\ Len(w.lots) \in Nat
  BY <1>1, LotsAreTyped DEF next
<1>7. next \in Seq(CashLots) /\ Len(next) = Len(w.lots)
  <2>1. next \in [1 .. Len(w.lots) -> CashLots]
    BY <1>5, <1>6 DEF next
  <2> HIDE DEF D
  <2> QED BY <1>6, <2>1
<1> QED BY <1>4, <1>5, <1>6, <1>7 DEF Debited

-----------------------------------------------------------------------------
(* Debits.                                                               *)

\* What is left of a lot lies at its end, within its source.
LEMMA PositionsAreNatural ==
  ASSUME NEW lots \in Seq(CashLots), NEW uses, WithinSources(lots, uses), NEW i \in DOMAIN lots
  PROVE  /\ Position(lots[i]) \in Nat
         /\ Position(lots[i]) + lots[i].remaining = lots[i].start + lots[i].points
         /\ lots[i].start + lots[i].points <= Amount(lots[i].source, lots[i].paid)
<1> DEFINE x == lots[i].start
           y == lots[i].points
           z == lots[i].remaining
<1>1. x \in Nat /\ y \in Nat /\ z \in Nat /\ z <= y /\ x + y <= Amount(lots[i].source, lots[i].paid)
  BY LotsAreTyped DEF WithinSources
<1>2. Position(lots[i]) = x + y - z
  BY DEF Position
<1> HIDE DEF x, y, z
<1>3. Position(lots[i]) \in Nat /\ Position(lots[i]) + z = x + y
  BY ONLY <1>1, <1>2
<1> QED BY <1>1, <1>3 DEF x, y, z

\* The uses a debit of n points makes, one of every lot that it draws on.
UsesDraws(w, rank, n, use) ==
  \A i \in DOMAIN w.lots : /\ use[i].source = w.lots[i].source /\ use[i].paid = w.lots[i].paid
                           /\ use[i].start = Position(w.lots[i])
                           /\ use[i].points = Draw(w.lots, rank, n)[i]

DrawnUses(w, rank, n, use) == {use[i] : i \in {j \in DOMAIN w.lots : Draw(w.lots, rank, n)[j] > 0}}

\* What a debit takes of the lots comes to what it is for, use by use.
LEMMA UsesComeToDebit ==
  ASSUME NEW w, NEW given, GoodWallet(w, given), NEW rank, \A i \in DOMAIN w.lots : rank[i] \in Nat,
         NEW n \in Nat, n <= w.balance, NEW use, UsesDraws(w, rank, n, use)
  PROVE  IsFiniteSet(DrawnUses(w, rank, n, use)) /\ PointsOf(DrawnUses(w, rank, n, use)) = n
<1> DEFINE D == DOMAIN w.lots
           draw == Draw(w.lots, rank, n)
           J == {j \in D : draw[j] > 0}
           U == DrawnUses(w, rank, n, use)
           f == [u \in U |-> u.points]
<1>a. \A i \in D : /\ use[i].source = w.lots[i].source /\ use[i].paid = w.lots[i].paid
                   /\ use[i].start = Position(w.lots[i]) /\ use[i].points = draw[i]
  BY DEF UsesDraws
<1> USE <1>a
<1>b. U = {use[i] : i \in J}
  BY DEF DrawnUses
<1> HIDE DEF U
<1>1. w.lots \in Seq(CashLots) /\ n <= Remaining(w.lots, D) /\ WithinSources(w.lots, w.uses) /\ Traced(w.lots, w.uses, given)
  BY DEF GoodWallet, Wallets
<1>2. SumFunctionOnSet(draw, D) = n
  BY <1>1, DrawsAddUp
<1>3. \A i \in D : draw[i] \in Nat /\ draw[i] <= w.lots[i].remaining /\ w.lots[i].remaining \in Nat
  BY <1>1, DrawsAreCovered, LotsAreTyped
<1>4. IsFiniteSet(D) /\ IsFiniteSet(J) /\ IsFiniteSet(D \ J) /\ J \in SUBSET D
  <2>1. D \in SUBSET D /\ J \in SUBSET D /\ D \ J \in SUBSET D
    OBVIOUS
  <2> HIDE DEF J
  <2> QED BY <1>1, <2>1, RemainingIsASum
<1>5. ASSUME NEW i \in J, NEW j \in J, use[i] = use[j] PROVE i = j
  <2>1. i \in D /\ j \in D /\ w.lots[i].remaining > 0 /\ w.lots[j].remaining > 0
    <3>1. i \in D /\ j \in D /\ draw[i] > 0 /\ draw[j] > 0
      OBVIOUS
    <3> HIDE DEF draw, J
    <3> QED BY <1>3, <3>1
  <2>2. /\ w.lots[i].source = w.lots[j].source /\ w.lots[i].paid = w.lots[j].paid
        /\ Position(w.lots[i]) = Position(w.lots[j])
    BY <1>5, <2>1
  <2> HIDE DEF J
  <2> QED BY <1>1, <2>1, <2>2, LotsStandApart
<1>0. U = {use[i] : i \in J}
  BY <1>b
<1>6. \A i \in J : use[i] \in U /\ f[use[i]] = draw[i] /\ draw[i] \in Nat
  BY <1>0, <1>3
<1> HIDE DEF draw
<1>7. SumFunctionOnSet(draw, D) = SumFunctionOnSet(draw, J) + SumFunctionOnSet(draw, D \ J)
  <2>1. \A i \in D : draw[i] \in Int
    BY <1>3
  <2> HIDE DEF J
  <2> QED BY <1>4, <2>1, SumSplits
<1>8. SumFunctionOnSet(draw, D \ J) = 0 /\ SumFunctionOnSet(draw, J) \in Nat
  <2>1. \A i \in D \ J : draw[i] \in Int /\ draw[i] = 0 * draw[i]
    BY <1>3
  <2>2. \A i \in J : draw[i] \in Nat
    BY <1>3
  <2> DEFINE R == D \ J
  <2>3. IsFiniteSet(R) /\ \A i \in R : draw[i] \in Int /\ draw[i] = 0 * draw[i]
    BY <1>4, <2>1
  <2> HIDE DEF J, R
  <2>4. SumFunctionOnSet(draw, R) = 0 * SumFunctionOnSet(draw, R)
    BY ONLY <2>3, 0 \in Int, SumScales
  <2>5. SumFunctionOnSet(draw, R) \in Int
    BY <2>3, SumsAreIntegers
  <2>6. SumFunctionOnSet(draw, J) \in Nat
    BY <1>4, <2>2, SumsAreNatural
  <2>7. SumFunctionOnSet(draw, R) = 0
    BY <2>4, <2>5
  <2> QED BY <2>6, <2>7 DEF R
<1>9. /\ IsFiniteSet({use[i] : i \in J})
      /\ SumFunctionOnSet(f, {use[i] : i \in J}) = SumFunctionOnSet(draw, J)
  <2>1. \A i \in J : draw[i] \in Int /\ f[use[i]] = draw[i]
    <3> HIDE DEF f, J
    <3> QED BY <1>6
  <2>2. \A i, j \in J : use[i] = use[j] => i = j
    BY <1>5
  <2> HIDE DEF J, f
  <2> QED BY ONLY SMTT(60), <1>4, <2>1, <2>2, SumOfImage
<1>10. PointsOf(U) = SumFunctionOnSet(f, U)
  BY DEF PointsOf
<1>11. IsFiniteSet(U) /\ SumFunctionOnSet(f, U) = SumFunctionOnSet(draw, J)
  <2> HIDE DEF f, J
  <2> QED BY ONLY <1>0, <1>9
<1> HIDE DEF f, J
<1>12. IsFiniteSet(U) /\ PointsOf(U) = n
  BY ONLY n \in Nat, <1>2, <1>7, <1>8, <1>10, <1>11
<1> QED BY <1>12 DEF U

\* record_point_cash keeps a wallet good.
LEMMA DebitKeepsGood ==
  ASSUME NEW w, NEW given, GoodWallet(w, given), NEW debit \in PointDebits, debit \notin given,
         NEW rank, \A i \in DOMAIN w.lots : rank[i] \in Nat, NEW n \in Nat, n <= w.balance
  PROVE  LET v == Debit(w, debit, rank, n)
         IN /\ GoodWallet(v, given)
            /\ v.balance = w.balance - n /\ v.debt = w.debt /\ Len(v.lots) = Len(w.lots)
            /\ \A i \in DOMAIN w.lots : v.lots[i].source = w.lots[i].source
            /\ \E U : /\ v.uses = w.uses \cup U /\ \A u \in U : u.debit = debit
                      /\ IsFiniteSet(U) /\ PointsOf(U) = n
<1> DEFINE v    == Debit(w, debit, rank, n)
           D    == DOMAIN w.lots
           draw == Draw(w.lots, rank, n)
           use  == [i \in D |->
                      [debit |-> debit, source |-> w.lots[i].source, paid |-> w.lots[i].paid,
                       start |-> Position(w.lots[i]), points |-> draw[i]]]
           U    == {use[i] : i \in {j \in D : draw[j] > 0}}
<1>1. /\ w \in Wallets /\ IsFiniteSet(w.uses) /\ w.balance = Remaining(w.lots, D)
      /\ WithinSources(w.lots, w.uses) /\ Traced(w.lots, w.uses, given)
      /\ w.lots \in Seq(CashLots) /\ w.balance \in Nat /\ w.uses \in SUBSET CashUses /\ w.debt \in Debts
  BY DEF GoodWallet, Wallets
<1>2. /\ v = [balance |-> w.balance - n, lots |-> v.lots, uses |-> v.uses, debt |-> w.debt]
      /\ v.balance = w.balance - n /\ v.debt = w.debt /\ v.uses = w.uses \cup U
      /\ DOMAIN v.lots = D /\ Len(v.lots) = Len(w.lots) /\ v.lots \in Seq(CashLots)
      /\ \A i \in D :
           /\ v.lots[i].source = w.lots[i].source /\ v.lots[i].paid = w.lots[i].paid
           /\ v.lots[i].start = w.lots[i].start /\ v.lots[i].points = w.lots[i].points
           /\ v.lots[i].remaining = w.lots[i].remaining - draw[i]
           /\ Position(v.lots[i]) = Position(w.lots[i]) + draw[i]
  <2>1. v = Debit(w, debit, rank, n) /\ draw = Draw(w.lots, rank, n)
    OBVIOUS
  <2>2. use = [i \in DOMAIN w.lots |->
                 [debit |-> debit, source |-> w.lots[i].source, paid |-> w.lots[i].paid,
                  start |-> Position(w.lots[i]), points |-> draw[i]]]
    OBVIOUS
  <2> HIDE DEF v, draw, use
  <2>3. Debited(w, n, v, draw, use)
    BY ONLY <1>1, <2>1, <2>2, debit \in PointDebits, n \in Nat, DebitIs
  <2> QED BY <2>3 DEF Debited
<1>3. \A i \in D : draw[i] \in Nat /\ draw[i] <= w.lots[i].remaining
  BY <1>1, DrawsAreCovered
<1>4. \A i \in D : /\ use[i].debit = debit /\ use[i].source = w.lots[i].source /\ use[i].paid = w.lots[i].paid
                   /\ use[i].start = Position(w.lots[i]) /\ use[i].points = draw[i]
  OBVIOUS
<1>5. IsFiniteSet(U) /\ PointsOf(U) = n
  <2>1. \A i \in D : /\ use[i].source = w.lots[i].source /\ use[i].paid = w.lots[i].paid
                     /\ use[i].start = Position(w.lots[i]) /\ use[i].points = Draw(w.lots, rank, n)[i]
    BY <1>4
  <2> HIDE DEF use
  <2>2. U = DrawnUses(w, rank, n, use)
    BY DEF DrawnUses
  <2>3. UsesDraws(w, rank, n, use)
    BY <2>1 DEF UsesDraws
  <2> HIDE DEF U
  <2>4. \A i \in DOMAIN w.lots : rank[i] \in Nat
    OBVIOUS
  <2>5. n \in Nat /\ n <= w.balance /\ GoodWallet(w, given)
    OBVIOUS
  <2> QED BY ONLY <2>2, <2>3, <2>4, <2>5, UsesComeToDebit
<1>6. \A i \in D : /\ Position(w.lots[i]) \in Nat
                   /\ Position(w.lots[i]) + w.lots[i].remaining = w.lots[i].start + w.lots[i].points
                   /\ w.lots[i].start + w.lots[i].points <= Amount(w.lots[i].source, w.lots[i].paid)
                   /\ w.lots[i].source \in Sources /\ w.lots[i].paid \in BOOLEAN /\ w.lots[i].remaining \in Nat
                   /\ w.lots[i].start \in Nat /\ w.lots[i].points \in Nat
                   /\ Amount(w.lots[i].source, w.lots[i].paid) \in Nat
  BY <1>1, PositionsAreNatural, LotsAreTyped, AmountsAreNatural
<1>7. \A i \in D : use[i] \in CashUses
  BY <1>3, <1>6 DEF CashUses
<1> HIDE DEF v, draw, use
<1>8. v \in Wallets /\ IsFiniteSet(v.uses)
  <2>1. w.balance - n \in Nat
    BY <1>1
  <2>2. v.uses \in SUBSET CashUses
    BY <1>1, <1>2, <1>7
  <2>3. IsFiniteSet(v.uses)
    <3>1. v.uses = w.uses \cup U
      BY <1>2
    <3> HIDE DEF U
    <3> QED BY <1>1, <1>5, <3>1, FS_Union
  <2> QED BY <1>1, <1>2, <2>1, <2>2, <2>3 DEF Wallets
<1>9. v.balance = Remaining(v.lots, D)
  <2> DEFINE rw == [i \in D |-> w.lots[i].remaining]
             rv == [i \in D |-> v.lots[i].remaining]
  <2>1. /\ D \in SUBSET D /\ D \in SUBSET DOMAIN v.lots
    BY <1>2
  <2>2. /\ IsFiniteSet(D) /\ Remaining(w.lots, D) = SumFunctionOnSet(rw, D)
    BY <1>1, <2>1, RemainingIsASum
  <2>3. Remaining(v.lots, D) = SumFunctionOnSet(rv, D)
    BY <1>2, <2>1, RemainingIsASum
  <2>4. \A i \in D : rw[i] \in Int /\ draw[i] \in Int /\ rv[i] = rw[i] - draw[i]
    BY <1>2, <1>3, <1>6
  <2>5. SumFunctionOnSet(draw, D) = n
    BY <1>1, DrawsAddUp DEF draw
  <2> HIDE DEF rw, rv, D
  <2>6. SumFunctionOnSet(rv, D) = SumFunctionOnSet(rw, D) - SumFunctionOnSet(draw, D)
    BY <2>2, <2>4, SumsDiffer
  <2> QED BY <1>1, <1>2, <2>2, <2>3, <2>5, <2>6
<1>10. \A s : HasLots(v.lots, s) <=> HasLots(w.lots, s)
  BY <1>2 DEF HasLots
<1>11. WithinSources(v.lots, v.uses)
  <2>1. ASSUME NEW i \in D
        PROVE  /\ v.lots[i].remaining <= v.lots[i].points
               /\ v.lots[i].start + v.lots[i].points <= Amount(v.lots[i].source, v.lots[i].paid)
    <3>1. w.lots[i].remaining <= w.lots[i].points
      BY <1>1 DEF WithinSources
    <3>2. /\ v.lots[i].source = w.lots[i].source /\ v.lots[i].paid = w.lots[i].paid
          /\ v.lots[i].start = w.lots[i].start /\ v.lots[i].points = w.lots[i].points
          /\ v.lots[i].remaining = w.lots[i].remaining - draw[i]
      BY <1>2
    <3>3. draw[i] \in Nat /\ w.lots[i].remaining \in Nat /\ w.lots[i].points \in Nat
      BY <1>3, <1>6
    <3>4. v.lots[i].remaining <= v.lots[i].points
      BY <3>1, <3>2, <3>3
    <3>5. v.lots[i].start + v.lots[i].points <= Amount(v.lots[i].source, v.lots[i].paid)
      BY <1>6, <3>2
    <3> QED BY <3>4, <3>5
  <2>2. ASSUME NEW u \in v.uses
        PROVE  HasLots(v.lots, u.source) /\ u.start + u.points <= Amount(u.source, u.paid)
    <3>1. CASE u \in w.uses
      BY <1>1, <1>10, <3>1 DEF WithinSources
    <3>2. CASE u \in U
      <4>1. PICK i \in D : u = use[i]
        BY <3>2
      <4>2. HasLots(w.lots, u.source)
        BY <1>4, <4>1 DEF HasLots
      <4>3. u.start + u.points <= Amount(u.source, u.paid)
        BY <1>3, <1>4, <1>6, <4>1
      <4> QED BY <1>10, <4>2, <4>3
    <3> QED BY <1>2, <3>1, <3>2
  <2> QED BY <1>2, <2>1, <2>2 DEF WithinSources
<1>12. ASSUME NEW s \in Sources, HasLots(v.lots, s), NEW paid \in BOOLEAN, NEW k \in 0 .. Amount(s, paid) - 1
       PROVE  InOnePlace(LotsAt(v.lots, s, paid, k), UsesAt(v.uses, given, s, paid, k))
  <2> DEFINE L  == LotsAt(w.lots, s, paid, k)
             O  == UsesAt(w.uses, given, s, paid, k)
             L1 == LotsAt(v.lots, s, paid, k)
             O1 == UsesAt(v.uses, given, s, paid, k)
             Gone(i) == k < Position(w.lots[i]) + draw[i]
  <2>1. InOnePlace(L, O)
    BY <1>1, <1>10, <1>12 DEF Traced
  <2>2. L \subseteq D /\ k \in Int
    BY AmountsAreNatural DEF LotsAt
  <2>3. L1 = {i \in L : ~Gone(i)}
    <3>1. ASSUME NEW i \in L1 PROVE i \in L /\ ~Gone(i)
      BY <1>2, <1>3, <1>6, <2>2 DEF LotsAt
    <3>2. ASSUME NEW i \in L, ~Gone(i) PROVE i \in L1
      BY <1>2, <1>3, <1>6, <2>2, <3>2 DEF LotsAt
    <3> QED BY <3>1, <3>2
  <2>4. O1 = O \cup {use[i] : i \in {j \in L : Gone(j)}}
    <3>1. ASSUME NEW u \in O1 PROVE u \in O \cup {use[i] : i \in {j \in L : Gone(j)}}
      <4>1. CASE u \in w.uses
        BY <4>1 DEF UsesAt
      <4>2. CASE u \in U
        <5>1. PICK i \in D : u = use[i]
          BY <4>2
        <5>2. i \in L /\ Gone(i)
          BY <1>3, <1>4, <1>6, <2>2, <5>1 DEF LotsAt, UsesAt
        <5> QED BY <5>1, <5>2
      <4> QED BY <1>2, <4>1, <4>2 DEF UsesAt
    <3>2. ASSUME NEW u \in O PROVE u \in O1
      BY <1>2 DEF UsesAt
    <3>3. ASSUME NEW i \in L, Gone(i) PROVE use[i] \in O1
      <4>1. /\ i \in D /\ w.lots[i].source = s /\ w.lots[i].paid = paid /\ Position(w.lots[i]) <= k
        BY DEF LotsAt
      <4>2. draw[i] > 0
        BY <1>3, <1>6, <2>2, <3>3, <4>1
      <4>3. use[i] \in v.uses
        BY <1>2, <4>1, <4>2
      <4> QED BY <1>4, <3>3, <4>1, <4>3 DEF UsesAt
    <3> QED BY <3>1, <3>2, <3>3
  <2> HIDE DEF L, O, L1, O1, Gone
  <2>5. ASSUME L = {}, NEW u, O = {u} PROVE InOnePlace(L1, O1)
    <3>1. L1 = {} /\ O1 = {u}
      BY <2>3, <2>4, <2>5
    <3> QED BY <3>1 DEF InOnePlace
  <2>6. ASSUME NEW i, L = {i}, O = {} PROVE InOnePlace(L1, O1)
    <3>1. CASE Gone(i)
      <4>1. L1 = {} /\ O1 = {use[i]}
        BY <2>3, <2>4, <2>6, <3>1
      <4> QED BY <4>1 DEF InOnePlace
    <3>2. CASE ~Gone(i)
      <4>1. L1 = {i} /\ O1 = {}
        BY <2>3, <2>4, <2>6, <3>2
      <4> QED BY <4>1 DEF InOnePlace
    <3> QED BY <3>1, <3>2
  <2>7. InOnePlace(L1, O1)
    BY <2>1, <2>5, <2>6 DEF InOnePlace
  <2> QED BY <2>7 DEF L1, O1
<1>13. GoodWallet(v, given)
  <2>1. Traced(v.lots, v.uses, given)
    BY <1>12 DEF Traced
  <2> QED BY <1>2, <1>8, <1>9, <1>11, <2>1 DEF GoodWallet
<1>14. \A u \in U : u.debit = debit
  BY <1>4
<1> HIDE DEF U
<1> QED BY <1>2, <1>5, <1>13, <1>14 DEF v

-----------------------------------------------------------------------------
(* More lots.                                                            *)

\* What more lots add.
JoinedTo(lots, more, all) ==
  LET n == Len(lots) IN
  /\ all \in Seq(CashLots) /\ n \in Nat /\ DOMAIN all = DOMAIN lots \cup {n + i : i \in DOMAIN more}
  /\ \A i \in DOMAIN lots : all[i] = lots[i] /\ i <= n
  /\ \A i \in DOMAIN more : all[n + i] = more[i] /\ n + i \notin DOMAIN lots
  /\ Remaining(all, DOMAIN all) = Remaining(lots, DOMAIN lots) + Remaining(more, DOMAIN more)

\* Lots that are appended leave the others where they were.
LEMMA MoreLots ==
  ASSUME NEW lots \in Seq(CashLots), NEW more \in Seq(CashLots)
  PROVE  JoinedTo(lots, more, lots \o more)
<1> DEFINE all == lots \o more
           n   == Len(lots)
           M   == DOMAIN more
           N   == {n + i : i \in M}
           f   == [i \in DOMAIN all |-> all[i].remaining]
           g   == [i \in M |-> more[i].remaining]
           h   == [i \in DOMAIN lots |-> lots[i].remaining]
           e   == [i \in M |-> n + i]
<1>1. /\ n \in Nat /\ Len(more) \in Nat /\ DOMAIN lots = 1 .. n /\ M = 1 .. Len(more)
      /\ all \in Seq(CashLots) /\ Len(all) = n + Len(more) /\ DOMAIN all = 1 .. n + Len(more)
  BY LotsAreTyped
<1>2. \A i \in DOMAIN lots : all[i] = lots[i] /\ i <= n
  BY <1>1
<1>3. ASSUME NEW i \in M PROVE all[n + i] = more[i] /\ n + i \notin DOMAIN lots
  <2>1. i \in Nat /\ 0 < i /\ i <= Len(more) /\ n + i \in Nat /\ n < n + i /\ n + i <= n + Len(more)
    BY <1>1
  <2> QED BY <1>1, <2>1
<1>4. DOMAIN all = DOMAIN lots \cup N /\ N = DOMAIN all \ DOMAIN lots
  <2>1. ASSUME NEW j \in DOMAIN all, j \notin DOMAIN lots PROVE j \in N
    <3>1. j - n \in M /\ j = n + (j - n)
      BY <1>1, <2>1
    <3> QED BY <3>1
  <2>2. N \subseteq DOMAIN all
    BY <1>1
  <2>3. DOMAIN lots \subseteq DOMAIN all
    BY <1>1
  <2>4. \A j \in N : j \notin DOMAIN lots
    BY <1>3
  <2> HIDE DEF N, all, M
  <2> QED BY <2>1, <2>2, <2>3, <2>4
<1>5. /\ IsFiniteSet(DOMAIN all) /\ Remaining(all, DOMAIN all) = SumFunctionOnSet(f, DOMAIN all)
      /\ IsFiniteSet(M) /\ Remaining(more, M) = SumFunctionOnSet(g, M)
      /\ IsFiniteSet(DOMAIN lots) /\ Remaining(lots, DOMAIN lots) = SumFunctionOnSet(h, DOMAIN lots)
  <2>1. DOMAIN all \in SUBSET DOMAIN all /\ M \in SUBSET DOMAIN more /\ DOMAIN lots \in SUBSET DOMAIN lots
    OBVIOUS
  <2> HIDE DEF all, M
  <2> QED BY <1>1, <2>1, RemainingIsASum DEF M
<1>6. /\ \A i \in DOMAIN all : f[i] \in Int
      /\ \A i \in M : g[i] \in Int /\ f[e[i]] = g[i] /\ e[i] = n + i
      /\ \A i \in DOMAIN lots : f[i] = h[i]
      /\ \A i, j \in M : e[i] = e[j] => i = j
  <2>1. \A i \in DOMAIN all : f[i] \in Int
    BY <1>1, LotsAreTyped
  <2>2. \A i \in DOMAIN lots : f[i] = h[i]
    <3> HIDE DEF all
    <3> QED BY <1>2, <1>4
  <2>3. ASSUME NEW i \in M PROVE g[i] \in Int /\ f[e[i]] = g[i] /\ e[i] = n + i
    <3>1. e[i] = n + i /\ n + i \in DOMAIN all /\ g[i] = more[i].remaining
      BY <1>4
    <3>2. more[i].remaining \in Int
      BY LotsAreTyped
    <3> HIDE DEF all, e, g, M
    <3> QED BY <1>3, <3>1, <3>2
  <2>4. ASSUME NEW i \in M, NEW j \in M, e[i] = e[j] PROVE i = j
    <3>1. i \in Nat /\ j \in Nat /\ n + i = n + j
      BY <1>1, <2>4
    <3> QED BY <1>1, <3>1
  <2> HIDE DEF all, e, g, f, h, M
  <2> QED BY <2>1, <2>2, <2>3, <2>4
<1> DEFINE A == DOMAIN all
           L == DOMAIN lots
<1>7. SumFunctionOnSet(f, A) = SumFunctionOnSet(f, L) + SumFunctionOnSet(f, N)
  <2>1. IsFiniteSet(A) /\ (\A i \in A : f[i] \in Int) /\ L \in SUBSET A /\ N = A \ L
    BY <1>4, <1>5, <1>6
  <2> HIDE DEF A, L, f, N
  <2> QED BY ONLY <2>1, SumSplits
<1>8. SumFunctionOnSet(f, L) = SumFunctionOnSet(h, L)
  <2>1. IsFiniteSet(L) /\ \A i \in L : f[i] = h[i]
    BY <1>5, <1>6
  <2> HIDE DEF L, f, h
  <2> QED BY ONLY <2>1, SumIsOfValues
<1>9. SumFunctionOnSet(f, N) = SumFunctionOnSet(g, M)
  <2>1. N = {e[i] : i \in M}
    OBVIOUS
  <2>2. IsFiniteSet(M)
    BY <1>5
  <2>3. \A i \in M : g[i] \in Int /\ f[e[i]] = g[i]
    BY <1>6
  <2>4. \A i, j \in M : e[i] = e[j] => i = j
    BY <1>6
  <2> HIDE DEF f, g, M, e, N
  <2>5. SumFunctionOnSet(f, {e[i] : i \in M}) = SumFunctionOnSet(g, M)
    BY ONLY <2>2, <2>3, <2>4, SumOfImage
  <2> QED BY <2>1, <2>5
<1>10. Remaining(all, DOMAIN all) = Remaining(lots, DOMAIN lots) + Remaining(more, DOMAIN more)
  <2> HIDE DEF f, g, h, all, N
  <2> QED BY <1>5, <1>7, <1>8, <1>9
<1> HIDE DEF f, g, h
<1> QED BY <1>1, <1>2, <1>3, <1>4, <1>10 DEF JoinedTo

\* The same of one lot.
LEMMA OneMoreLot ==
  ASSUME NEW lots \in Seq(CashLots), NEW x \in CashLots
  PROVE  LET all == lots \o <<x>>
             n   == Len(lots)
         IN /\ all \in Seq(CashLots) /\ n \in Nat /\ Len(all) = n + 1 /\ DOMAIN all = DOMAIN lots \cup {n + 1}
            /\ \A i \in DOMAIN lots : all[i] = lots[i] /\ i <= n
            /\ all[n + 1] = x
            /\ Remaining(all, DOMAIN all) = Remaining(lots, DOMAIN lots) + x.remaining
<1> DEFINE more == <<x>>
           rem == [i \in DOMAIN more |-> more[i].remaining]
<1>1. more \in Seq(CashLots) /\ DOMAIN more = {1} /\ more[1] = x /\ rem[1] = x.remaining /\ x.remaining \in Int
  BY DEF CashLots
<1>2. Remaining(more, {1}) = SumFunctionOnSet(rem, {1})
  <2>1. {1} \in SUBSET DOMAIN more
    BY <1>1
  <2> HIDE DEF more
  <2> QED BY <1>1, <2>1, RemainingIsASum
<1>3. SumFunctionOnSet(rem, {1}) = x.remaining
  <2>1. SumFunctionOnSet(rem, {}) = 0 /\ {} \cup {1} = {1} /\ IsFiniteSet({})
    BY SumOfNothing, FS_EmptySet
  <2> HIDE DEF rem
  <2>2. SumFunctionOnSet(rem, {} \cup {1}) = SumFunctionOnSet(rem, {}) + rem[1]
    BY ZenonT(60), <1>1, <2>1, SumAdds
  <2> QED BY <1>1, <2>1, <2>2
<1> HIDE DEF rem
<1>4. Remaining(more, DOMAIN more) = x.remaining
  BY <1>1, <1>2, <1>3
<1> DEFINE all == lots \o more
           n   == Len(lots)
<1>5. /\ all \in Seq(CashLots) /\ n \in Nat /\ DOMAIN all = DOMAIN lots \cup {n + i : i \in DOMAIN more}
      /\ \A i \in DOMAIN lots : all[i] = lots[i] /\ i <= n
      /\ \A i \in DOMAIN more : all[n + i] = more[i]
      /\ Remaining(all, DOMAIN all) = Remaining(lots, DOMAIN lots) + Remaining(more, DOMAIN more)
  <2>1. JoinedTo(lots, more, all)
    BY <1>1, MoreLots
  <2> HIDE DEF more, all
  <2> QED BY <2>1 DEF JoinedTo
<1>6. Len(all) = n + 1
  BY <1>5
<1>7. {n + i : i \in DOMAIN more} = {n + 1} /\ all[n + 1] = x
  <2> HIDE DEF more, all
  <2> QED BY <1>1, <1>5
<1>8. DOMAIN all = DOMAIN lots \cup {n + 1} /\ Remaining(all, DOMAIN all) = Remaining(lots, DOMAIN lots) + x.remaining
  <2> HIDE DEF more, all
  <2> QED BY <1>4, <1>5, <1>7
<1> QED BY <1>5, <1>6, <1>7, <1>8

-----------------------------------------------------------------------------
(* Credits.                                                              *)

\* A new lot has everything left.
LEMMA LotFields ==
  ASSUME NEW s, NEW paid, NEW n \in Nat, NEW x, x = Lot(s, paid, n)
  PROVE  /\ x.source = s /\ x.paid = paid /\ x.start = 0 /\ x.points = n /\ x.remaining = n
         /\ Position(x) = 0
         /\ s \in Sources /\ paid \in BOOLEAN => x \in CashLots
<1>1. /\ x.source = s /\ x.paid = paid /\ x.start = 0 /\ x.points = n /\ x.remaining = n
      /\ x = [source |-> s, paid |-> paid, start |-> 0, points |-> n, remaining |-> n]
  BY DEF Lot
<1>2. s \in Sources /\ paid \in BOOLEAN => x \in CashLots
  BY <1>1 DEF CashLots
<1>3. Position(x) = 0
  BY <1>1 DEF Position
<1> QED BY <1>1, <1>2, <1>3

\* The lots of a top-up.
CreditedTo(lots, s, all) ==
  LET n == Len(lots) IN
  /\ all \in Seq(CashLots) /\ n \in Nat
  /\ DOMAIN all = DOMAIN lots \cup (IF BonusPoints[s] > 0 THEN {n + 1, n + 2} ELSE {n + 1})
  /\ \A i \in DOMAIN lots : all[i] = lots[i]
  /\ n + 1 \notin DOMAIN lots /\ n + 2 \notin DOMAIN lots
  /\ LET x == all[n + 1] IN
     /\ x.source = s /\ x.paid /\ x.start = 0 /\ x.points = PaidPoints[s] /\ x.remaining = PaidPoints[s]
     /\ Position(x) = 0
  /\ LET y == all[n + 2] IN BonusPoints[s] > 0 =>
     /\ y.source = s /\ ~y.paid /\ y.start = 0 /\ y.points = BonusPoints[s] /\ y.remaining = BonusPoints[s]
     /\ Position(y) = 0
  /\ Remaining(all, DOMAIN all) = Remaining(lots, DOMAIN lots) + PaidPoints[s] + BonusPoints[s]

\* A top-up adds a paid lot, and a bonus lot if there is a bonus.
LEMMA CreditedLots ==
  ASSUME NEW lots \in Seq(CashLots), NEW s \in Sources, NEW all,
         all = lots \o <<Lot(s, TRUE, PaidPoints[s])>>
                    \o (IF BonusPoints[s] > 0 THEN <<Lot(s, FALSE, BonusPoints[s])>> ELSE <<>>)
  PROVE  CreditedTo(lots, s, all)
<1> DEFINE P == PaidPoints[s]
           B == BonusPoints[s]
           yes == TRUE
           no == FALSE
           x == Lot(s, yes, P)
           y == Lot(s, no, B)
           n == Len(lots)
           mid == lots \o <<x>>
<1>1. P \in Nat /\ B \in Nat /\ n \in Nat /\ DOMAIN lots = 1 .. n
  BY AmountsAssumption
<1>0. all = mid \o (IF B > 0 THEN <<y>> ELSE <<>>)
  OBVIOUS
<1>2. /\ x \in CashLots /\ x.source = s /\ x.paid /\ x.start = 0 /\ x.points = P /\ x.remaining = P
      /\ Position(x) = 0
      /\ y \in CashLots /\ y.source = s /\ ~y.paid /\ y.start = 0 /\ y.points = B /\ y.remaining = B
      /\ Position(y) = 0
  <2>1. x = Lot(s, yes, P) /\ y = Lot(s, no, B) /\ yes \in BOOLEAN /\ no \in BOOLEAN
    OBVIOUS
  <2>2. yes /\ ~no
    OBVIOUS
  <2> HIDE DEF x, y, yes, no, P, B
  <2>3. /\ x \in CashLots /\ x.source = s /\ x.paid = yes /\ x.start = 0 /\ x.points = P /\ x.remaining = P
        /\ Position(x) = 0
    BY <1>1, <2>1, LotFields
  <2>4. /\ y \in CashLots /\ y.source = s /\ y.paid = no /\ y.start = 0 /\ y.points = B /\ y.remaining = B
        /\ Position(y) = 0
    BY <1>1, <2>1, LotFields
  <2> QED BY <2>2, <2>3, <2>4
<1> HIDE DEF x, y, P, B
<1>3. /\ mid \in Seq(CashLots) /\ Len(mid) = n + 1 /\ DOMAIN mid = DOMAIN lots \cup {n + 1}
      /\ \A i \in DOMAIN lots : mid[i] = lots[i]
      /\ mid[n + 1] = x
      /\ Remaining(mid, DOMAIN mid) = Remaining(lots, DOMAIN lots) + P
  BY <1>2, OneMoreLot
<1>4. n + 1 \notin DOMAIN lots /\ n + 2 \notin DOMAIN lots /\ Remaining(lots, DOMAIN lots) \in Nat
  <2>1. DOMAIN lots \in SUBSET DOMAIN lots
    OBVIOUS
  <2>2. Remaining(lots, DOMAIN lots) \in Nat
    BY <2>1, RemainingIsASum
  <2>3. n + 1 \notin 1 .. n /\ n + 2 \notin 1 .. n
    BY <1>1
  <2> HIDE DEF n
  <2> QED BY <1>1, <2>2, <2>3
<1> HIDE DEF mid
<1>5. CASE B > 0
  <2>1. all = mid \o <<y>>
    BY <1>0, <1>5
  <2>2. /\ all \in Seq(CashLots) /\ DOMAIN all = DOMAIN mid \cup {Len(mid) + 1}
        /\ \A i \in DOMAIN mid : all[i] = mid[i]
        /\ all[Len(mid) + 1] = y
        /\ Remaining(all, DOMAIN all) = Remaining(mid, DOMAIN mid) + B
    <3>1. LET a == mid \o <<y>>
          IN /\ a \in Seq(CashLots) /\ DOMAIN a = DOMAIN mid \cup {Len(mid) + 1}
             /\ \A i \in DOMAIN mid : a[i] = mid[i]
             /\ a[Len(mid) + 1] = y
             /\ Remaining(a, DOMAIN a) = Remaining(mid, DOMAIN mid) + B
      BY <1>2, <1>3, OneMoreLot
    <3> QED BY <2>1, <3>1
  <2>3. Len(mid) + 1 = n + 2
    BY <1>1, <1>3
  <2>4. DOMAIN all = DOMAIN lots \cup {n + 1, n + 2}
    BY <1>3, <2>2, <2>3
  <2>5. Remaining(all, DOMAIN all) = Remaining(lots, DOMAIN lots) + P + B
    BY <1>1, <1>3, <1>4, <2>2
  <2>6. /\ \A i \in DOMAIN lots : all[i] = lots[i]
        /\ all[n + 1] = x /\ all[n + 2] = y
    BY <1>3, <2>2, <2>3
  <2> HIDE DEF n
  <2> QED BY <1>1, <1>2, <1>4, <1>5, <2>2, <2>4, <2>5, <2>6 DEF CreditedTo, P, B, n
<1>6. CASE ~(B > 0)
  <2>1. all = mid /\ B = 0
    <3>1. all = mid \o <<>>
      BY <1>0, <1>6
    <3>2. mid \o <<>> = mid
      BY <1>3
    <3>3. B = 0
      BY <1>1, <1>6
    <3> QED BY <3>1, <3>2, <3>3
  <2>2. Remaining(all, DOMAIN all) = Remaining(lots, DOMAIN lots) + P + B
    <3>1. Remaining(all, DOMAIN all) = Remaining(mid, DOMAIN mid)
      BY <2>1
    <3>2. Remaining(all, DOMAIN all) = Remaining(lots, DOMAIN lots) + P
      BY <1>3, <3>1
    <3> DEFINE q == Remaining(lots, DOMAIN lots)
    <3>3. q \in Nat
      BY <1>4
    <3> HIDE DEF q
    <3>4. q + P = q + P + B
      BY <1>1, <2>1, <3>3
    <3> QED BY <3>2, <3>4 DEF q
  <2>3. all \in Seq(CashLots) /\ DOMAIN all = DOMAIN lots \cup {n + 1} /\ all[n + 1] = x
        /\ \A i \in DOMAIN lots : all[i] = lots[i]
    BY <1>3, <2>1
  <2> QED BY <1>1, <1>2, <1>4, <1>6, <2>2, <2>3 DEF CreditedTo, P, B
<1> QED BY <1>5, <1>6

\* A top-up keeps a wallet good.
LEMMA CreditKeepsGood ==
  ASSUME NEW w, NEW given, GoodWallet(w, given), NEW s \in Sources, ~HasLots(w.lots, s)
  PROVE  LET v == Credit(w, s)
         IN /\ GoodWallet(v, given) /\ v.uses = w.uses /\ v.debt = w.debt
            /\ \A t : HasLots(v.lots, t) <=> HasLots(w.lots, t) \/ t = s
<1> DEFINE P == PaidPoints[s]
           B == BonusPoints[s]
           D == DOMAIN w.lots
           n == Len(w.lots)
           v == Credit(w, s)
<1>1. /\ w \in Wallets /\ IsFiniteSet(w.uses) /\ w.balance = Remaining(w.lots, D)
      /\ WithinSources(w.lots, w.uses) /\ Traced(w.lots, w.uses, given)
      /\ w.lots \in Seq(CashLots) /\ w.balance \in Nat /\ w.uses \in SUBSET CashUses /\ w.debt \in Debts
      /\ w = [balance |-> w.balance, lots |-> w.lots, uses |-> w.uses, debt |-> w.debt]
  BY DEF GoodWallet, Wallets
<1>2. /\ P \in Nat /\ B \in Nat
      /\ \A paid \in BOOLEAN : (paid => Amount(s, paid) = P) /\ (~paid => Amount(s, paid) = B)
  BY AmountsAssumption DEF Amount
<1> DEFINE lots == v.lots
<1>3. /\ v.balance = w.balance + P + B /\ v.uses = w.uses /\ v.debt = w.debt
      /\ v = [balance |-> v.balance, lots |-> lots, uses |-> w.uses, debt |-> w.debt]
      /\ lots = w.lots \o <<Lot(s, TRUE, PaidPoints[s])>>
                      \o (IF BonusPoints[s] > 0 THEN <<Lot(s, FALSE, BonusPoints[s])>> ELSE <<>>)
  <2> DEFINE next == w.lots \o <<Lot(s, TRUE, PaidPoints[s])>>
                           \o (IF BonusPoints[s] > 0 THEN <<Lot(s, FALSE, BonusPoints[s])>> ELSE <<>>)
  <2>1. v = [w EXCEPT !.balance = @ + PaidPoints[s] + BonusPoints[s], !.lots = next]
    BY DEF Credit
  <2> HIDE DEF next, v
  <2>2. v = [balance |-> w.balance + P + B, lots |-> next, uses |-> w.uses, debt |-> w.debt]
    BY <1>1, <2>1
  <2> QED BY <2>2 DEF next
<1> HIDE DEF v, lots
<1>4. CreditedTo(w.lots, s, lots)
  <2>1. w.lots \in Seq(CashLots)
    BY <1>1
  <2>2. lots = w.lots \o <<Lot(s, TRUE, PaidPoints[s])>>
                      \o (IF BonusPoints[s] > 0 THEN <<Lot(s, FALSE, BonusPoints[s])>> ELSE <<>>)
    BY <1>3
  <2> QED BY ONLY s \in Sources, <2>1, <2>2, CreditedLots
<1>5. ASSUME NEW i \in DOMAIN lots
      PROVE  \/ i \in D /\ lots[i] = w.lots[i]
             \/ /\ i = n + 1 /\ lots[i].source = s /\ lots[i].paid /\ lots[i].start = 0
                /\ lots[i].points = P /\ lots[i].remaining = P /\ Position(lots[i]) = 0
             \/ /\ i = n + 2 /\ lots[i].source = s /\ ~lots[i].paid /\ lots[i].start = 0
                /\ lots[i].points = B /\ lots[i].remaining = B /\ Position(lots[i]) = 0
  <2>1. (i \in D /\ lots[i] = w.lots[i]) \/ i = n + 1 \/ (i = n + 2 /\ B > 0)
    BY <1>4 DEF CreditedTo
  <2> QED BY <1>4, <2>1 DEF CreditedTo
<1>6. /\ D \subseteq DOMAIN lots /\ n + 1 \in DOMAIN lots /\ (B > 0 => n + 2 \in DOMAIN lots)
      /\ n + 1 \notin D /\ n + 2 \notin D /\ n + 1 # n + 2
      /\ \A i \in D : lots[i] = w.lots[i]
      /\ lots \in Seq(CashLots) /\ Remaining(lots, DOMAIN lots) = Remaining(w.lots, D) + P + B
  BY <1>4 DEF CreditedTo
<1> HIDE DEF n, D, P, B
<1>8. \A t : HasLots(lots, t) <=> HasLots(w.lots, t) \/ t = s
  <2>1. ASSUME NEW t, HasLots(lots, t) PROVE HasLots(w.lots, t) \/ t = s
    BY <1>5, <2>1 DEF HasLots, D
  <2>2. ASSUME NEW t, HasLots(w.lots, t) PROVE HasLots(lots, t)
    BY <1>6, <2>2 DEF HasLots, D
  <2>3. HasLots(lots, s)
    BY <1>5, <1>6 DEF HasLots
  <2> QED BY <2>1, <2>2, <2>3
<1>9. WithinSources(lots, w.uses)
  <2>1. ASSUME NEW i \in DOMAIN lots
        PROVE  /\ lots[i].remaining <= lots[i].points
               /\ lots[i].start + lots[i].points <= Amount(lots[i].source, lots[i].paid)
    <3>1. CASE i \in D /\ lots[i] = w.lots[i]
      BY <1>1, <3>1 DEF WithinSources, D
    <3>2. CASE i \notin D
      <4>1. lots[i].paid \in BOOLEAN
        BY <1>6, LotsAreTyped
      <4>2. Amount(lots[i].source, lots[i].paid) = lots[i].points /\ lots[i].start = 0
            /\ lots[i].remaining = lots[i].points /\ lots[i].points \in Nat
        BY <1>2, <1>5, <3>2, <4>1
      <4> QED BY <4>2
    <3> QED BY <1>5, <1>6, <3>1, <3>2
  <2> QED BY <1>1, <1>8, <2>1 DEF WithinSources
<1>10. ASSUME NEW t \in Sources, HasLots(lots, t), NEW paid \in BOOLEAN, NEW k \in 0 .. Amount(t, paid) - 1
       PROVE  InOnePlace(LotsAt(lots, t, paid, k), UsesAt(w.uses, given, t, paid, k))
  <2>1. CASE t # s
    <3>1. InOnePlace(LotsAt(w.lots, t, paid, k), UsesAt(w.uses, given, t, paid, k))
      BY <1>1, <1>8, <1>10, <2>1 DEF Traced
    <3>2. LotsAt(lots, t, paid, k) = LotsAt(w.lots, t, paid, k)
      <4>1. ASSUME NEW i \in LotsAt(lots, t, paid, k) PROVE i \in LotsAt(w.lots, t, paid, k)
        BY <1>5, <2>1 DEF LotsAt, D
      <4>2. ASSUME NEW i \in LotsAt(w.lots, t, paid, k) PROVE i \in LotsAt(lots, t, paid, k)
        BY <1>6 DEF LotsAt, D
      <4> QED BY <4>1, <4>2
    <3> QED BY <3>1, <3>2
  <2>2. CASE t = s
    <3>1. UsesAt(w.uses, given, t, paid, k) = {}
      BY <1>1, <2>2 DEF UsesAt, WithinSources
    <3>2. ASSUME NEW i \in D PROVE i \notin LotsAt(lots, t, paid, k)
      BY <1>6, <2>2 DEF LotsAt, HasLots, D
    <3>3. k \in Nat /\ k < Amount(s, paid)
      BY <2>2, AmountsAreNatural
    <3>4. ASSUME NEW i \in LotsAt(lots, t, paid, k)
          PROVE  (i = n + 1 /\ paid) \/ (i = n + 2 /\ ~paid)
      <4>1. i \in DOMAIN lots /\ lots[i].paid = paid /\ i \notin D
        BY <3>2 DEF LotsAt
      <4> QED BY <1>5, <4>1
    <3>5. CASE paid
      <4>1. /\ n + 1 \in DOMAIN lots /\ lots[n + 1].source = s /\ lots[n + 1].paid
            /\ lots[n + 1].start = 0 /\ lots[n + 1].points = P /\ Position(lots[n + 1]) = 0
        BY <1>5, <1>6
      <4>2. n + 1 \in LotsAt(lots, t, paid, k)
        <5>1. lots[n + 1].paid = paid
          BY <1>6, <3>5, <4>1, LotsAreTyped
        <5>2. 0 <= k /\ k < 0 + P
          <6>1. Amount(s, paid) = P
            BY <1>2, <3>5
          <6> QED BY <1>2, <3>3, <6>1
        <5> QED BY <2>2, <4>1, <5>1, <5>2 DEF LotsAt
      <4>3. LotsAt(lots, t, paid, k) = {n + 1}
        BY <3>4, <3>5, <4>2
      <4> QED BY <3>1, <4>3 DEF InOnePlace
    <3>6. CASE ~paid
      <4>1. B > 0 /\ k < B
        BY <1>2, <3>3, <3>6
      <4>2. /\ n + 2 \in DOMAIN lots /\ lots[n + 2].source = s /\ ~lots[n + 2].paid
            /\ lots[n + 2].start = 0 /\ lots[n + 2].points = B /\ Position(lots[n + 2]) = 0
        BY <1>5, <1>6, <4>1
      <4>3. n + 2 \in LotsAt(lots, t, paid, k)
        <5>1. lots[n + 2].paid = paid
          BY <1>6, <3>6, <4>2, LotsAreTyped
        <5>2. 0 <= k /\ k < 0 + B
          BY <1>2, <3>3, <4>1
        <5> QED BY <2>2, <4>2, <5>1, <5>2 DEF LotsAt
      <4>4. LotsAt(lots, t, paid, k) = {n + 2}
        BY <3>4, <3>6, <4>3
      <4> QED BY <3>1, <4>4 DEF InOnePlace
    <3> QED BY <3>5, <3>6
  <2> QED BY <2>1, <2>2
<1>11. Traced(lots, w.uses, given)
  BY <1>10 DEF Traced
<1>12. v \in Wallets
  <2>1. w.balance + P + B \in Nat
    BY <1>1, <1>2
  <2>2. v = [balance |-> w.balance + P + B, lots |-> lots, uses |-> w.uses, debt |-> w.debt]
    BY <1>3
  <2> QED BY <1>1, <1>6, <2>1, <2>2 DEF Wallets
<1>13. GoodWallet(v, given)
  <2>1. v.balance = Remaining(lots, DOMAIN lots) /\ v.lots = lots /\ v.uses = w.uses
    BY <1>1, <1>3, <1>6 DEF lots
  <2> QED BY <1>1, <1>9, <1>11, <1>12, <2>1 DEF GoodWallet
<1> QED BY <1>3, <1>8, <1>13 DEF v, lots

-----------------------------------------------------------------------------
(* Debts are settled.                                                    *)

\* What settling debts leaves alone.
Reclaims(w, v) ==
  /\ Len(v.lots) = Len(w.lots) /\ \A i \in DOMAIN w.lots : v.lots[i].source = w.lots[i].source
  /\ w.uses \subseteq v.uses /\ \A u \in v.uses : u \in w.uses \/ u.debit[1] = "reclaim"

Reservations == {"reserve"} \X TopUps \X Nat

\* What settles debts after what settles debts settles debts.
LEMMA ReclaimsAddUp ==
  ASSUME NEW u, NEW v, NEW w, u.lots \in Seq(CashLots), v.lots \in Seq(CashLots), Reclaims(u, v), Reclaims(v, w)
  PROVE  Reclaims(u, w)
<1>1. DOMAIN v.lots = DOMAIN u.lots
  BY LotsAreTyped DEF Reclaims
<1>2. \A i \in DOMAIN u.lots : w.lots[i].source = u.lots[i].source
  BY <1>1 DEF Reclaims
<1>3. Len(w.lots) = Len(u.lots) /\ u.uses \subseteq w.uses
  BY DEF Reclaims
<1>4. \A x \in w.uses : x \in u.uses \/ x.debit[1] = "reclaim"
  BY DEF Reclaims
<1> QED BY <1>2, <1>3, <1>4 DEF Reclaims

\* settleNativeRefundDebt, for one debt.
LEMMA SettleOneKeepsGood ==
  ASSUME NEW w, NEW given \in SUBSET Reservations, GoodWallet(w, given), NEW p \in StorePurchases
  PROVE  GoodWallet(SettleOne(w, p), given) /\ Reclaims(w, SettleOne(w, p))
<1> DEFINE op     == w.debt[p].paid
           ob     == w.debt[p].bonus
           amount == Least(w.balance, op + ob)
           paid   == Least(amount, op)
           rest   == amount - paid
           debit  == <<"reclaim", p, op + ob>>
           yes    == TRUE
           no     == FALSE
           rank1  == OwnFirst(w.lots, p, yes)
           first  == Debit(w, debit, rank1, paid)
           rank2  == OwnFirst(w.lots, p, no)
           second == Debit(first, debit, rank2, rest)
<1>1. /\ w.lots \in Seq(CashLots) /\ w.balance \in Nat /\ w.debt \in Debts
      /\ op \in Nat /\ ob \in Nat
  <2>1. w \in Wallets
    BY DEF GoodWallet
  <2>2. w.debt \in Debts /\ w.lots \in Seq(CashLots) /\ w.balance \in Nat
    BY <2>1 DEF Wallets
  <2>3. w.debt[p] \in [paid : Nat, bonus : Nat]
    BY <2>2 DEF Debts
  <2> QED BY <2>2, <2>3
<1> HIDE DEF op, ob
<1>2. /\ amount \in Nat /\ amount <= w.balance /\ paid \in Nat /\ paid <= op /\ paid <= w.balance
      /\ rest \in Nat /\ rest <= ob /\ rest <= w.balance - paid
      /\ op - paid \in Nat /\ ob - rest \in Nat
  BY <1>1 DEF Least
<1>3. debit \in PointDebits /\ debit \notin given /\ debit[1] = "reclaim"
  <2>1. op + ob \in Nat
    BY <1>1
  <2> QED BY <2>1 DEF PointDebits, Reservations
<1> HIDE DEF amount, paid, rest, debit
<1>4. ASSUME NEW b
      PROVE  \A i \in DOMAIN w.lots : OwnFirst(w.lots, p, b)[i] \in Nat
  BY DEF OwnFirst
<1>5. /\ GoodWallet(first, given) /\ first.balance = w.balance - paid /\ first.debt = w.debt
      /\ Reclaims(w, first) /\ DOMAIN first.lots = DOMAIN w.lots
  <2>1. \A i \in DOMAIN w.lots : rank1[i] \in Nat
    BY <1>4
  <2> HIDE DEF rank1
  <2>2. /\ GoodWallet(first, given)
        /\ first.balance = w.balance - paid /\ first.debt = w.debt /\ Len(first.lots) = Len(w.lots)
        /\ \A i \in DOMAIN w.lots : first.lots[i].source = w.lots[i].source
        /\ \E U : /\ first.uses = w.uses \cup U /\ \A u \in U : u.debit = debit
                  /\ IsFiniteSet(U) /\ PointsOf(U) = paid
    BY <1>2, <1>3, <2>1, DebitKeepsGood
  <2> HIDE DEF first
  <2>3. Reclaims(w, first)
    BY <1>3, <2>2 DEF Reclaims
  <2>4. first.lots \in Seq(CashLots)
    BY <2>2 DEF GoodWallet, Wallets
  <2>5. DOMAIN first.lots = DOMAIN w.lots
    BY <1>1, <2>2, <2>4, LotsAreTyped
  <2> QED BY <2>2, <2>3, <2>5
<1>6. GoodWallet(second, given) /\ second.debt = w.debt /\ Reclaims(first, second)
  <2>1. \A i \in DOMAIN first.lots : rank2[i] \in Nat
    BY <1>4, <1>5
  <2>2. rest \in Nat /\ rest <= first.balance
    BY <1>2, <1>5
  <2> HIDE DEF rank2, first
  <2>3. /\ GoodWallet(second, given)
        /\ second.debt = first.debt /\ Len(second.lots) = Len(first.lots)
        /\ \A i \in DOMAIN first.lots : second.lots[i].source = first.lots[i].source
        /\ \E U : /\ second.uses = first.uses \cup U /\ \A u \in U : u.debit = debit
                  /\ IsFiniteSet(U) /\ PointsOf(U) = rest
    <3>1. GoodWallet(first, given) /\ debit \in PointDebits /\ debit \notin given
      BY <1>3, <1>5
    <3> HIDE DEF debit, rest
    <3> QED BY ONLY <2>1, <2>2, <3>1, DebitKeepsGood
  <2> HIDE DEF second
  <2>4. Reclaims(first, second)
    BY <1>3, <2>3 DEF Reclaims
  <2> QED BY <1>5, <2>3, <2>4
<1> DEFINE v == SettleOne(w, p)
           now == [paid |-> op - paid, bonus |-> ob - rest]
<1>7. v = [second EXCEPT !.debt[p] = now]
  BY DEF SettleOne, amount, paid, rest, debit, op, ob
<1> HIDE DEF first, second, v
<1>8. now \in [paid : Nat, bonus : Nat]
  BY <1>2
<1> HIDE DEF now
<1>9. /\ second \in Wallets /\ second.debt \in Debts /\ second.lots \in Seq(CashLots)
      /\ second.uses \in SUBSET CashUses /\ second.balance \in Nat
      /\ second = [balance |-> second.balance, lots |-> second.lots, uses |-> second.uses, debt |-> second.debt]
  BY <1>6 DEF GoodWallet, Wallets
<1>10. /\ v = [balance |-> second.balance, lots |-> second.lots, uses |-> second.uses,
               debt |-> [second.debt EXCEPT ![p] = now]]
       /\ v.balance = second.balance /\ v.lots = second.lots /\ v.uses = second.uses
  BY <1>7, <1>9
<1>11. [second.debt EXCEPT ![p] = now] \in Debts
  BY <1>8, <1>9 DEF Debts
<1>12. v \in Wallets
  BY <1>9, <1>10, <1>11 DEF Wallets
<1>13. GoodWallet(v, given)
  BY <1>6, <1>10, <1>12 DEF GoodWallet
<1>14. Reclaims(first, v)
  BY <1>6, <1>10 DEF Reclaims
<1>15. Reclaims(w, v)
  <2>1. first.lots \in Seq(CashLots)
    BY <1>5 DEF GoodWallet, Wallets
  <2> QED BY <1>1, <1>5, <1>14, <2>1, ReclaimsAddUp
<1> QED BY <1>13, <1>15 DEF v

\* Debt by debt.
LEMMA SettleIsRecursive ==
  ASSUME NEW w
  PROVE  \E f : /\ SettleDebts(w) = f[MaxPurchases]
                /\ f[0] = w
                /\ \A p \in StorePurchases : f[p] = SettleOne(f[p - 1], p)
<1>0. MaxPurchases \in Nat
  BY AmountsAssumption
<1> DEFINE Of(n, f) == f = [p \in 0 .. n |-> IF p = 0 THEN w ELSE SettleOne(f[p - 1], p)]
           Has(n) == \E f : Of(n, f)
           N == {n \in Nat : ~Has(n)}
<1>1. ASSUME N # {} PROVE FALSE
  <2>1. PICK n \in N : \A k \in N : n <= k
    <3>1. N \in SUBSET Nat
      OBVIOUS
    <3> HIDE DEF N
    <3> QED BY <1>1, <3>1, LeastNumber
  <2>2. n \in Nat /\ ~Has(n)
    OBVIOUS
  <2>3. CASE n = 0
    <3> DEFINE f == [p \in 0 .. 0 |-> w]
    <3>1. f = [p \in 0 .. 0 |-> IF p = 0 THEN w ELSE SettleOne(f[p - 1], p)]
      OBVIOUS
    <3> HIDE DEF f
    <3>2. Of(0, f)
      BY <3>1
    <3> HIDE DEF Of
    <3> QED BY <2>2, <2>3, <3>2
  <2>4. CASE n # 0
    <3>1. n - 1 \in Nat /\ n - 1 \notin N
      <4> HIDE DEF N
      <4> QED BY <2>1, <2>2, <2>4
    <3>2. PICK f : Of(n - 1, f)
      BY <3>1
    <3> DEFINE next == SettleOne(f[n - 1], n)
               g == [p \in 0 .. n |-> IF p = n THEN next ELSE f[p]]
               step(h, p) == IF p = 0 THEN w ELSE SettleOne(h[p - 1], p)
    <3>3. ASSUME NEW p \in 0 .. n PROVE g[p] = step(g, p)
      <4>1. CASE p = n
        <5>1. g[n - 1] = f[n - 1] /\ g[n] = next
          BY <2>2, <2>4
        <5> HIDE DEF g
        <5> QED BY <2>2, <2>4, <4>1, <5>1
      <4>2. CASE p # n
        <5>1. p \in 0 .. (n - 1) /\ g[p] = f[p] /\ (p # 0 => g[p - 1] = f[p - 1])
          BY <2>2, <4>2
        <5>2. f[p] = step(f, p)
          BY <3>2, <5>1
        <5> HIDE DEF g
        <5> QED BY <5>1, <5>2
      <4> QED BY <4>1, <4>2
    <3>4. g = [p \in 0 .. n |-> step(g, p)]
      <4>1. g = [p \in 0 .. n |-> g[p]]
        OBVIOUS
      <4> HIDE DEF g, step
      <4> QED BY <3>3, <4>1
    <3> HIDE DEF g
    <3>5. Of(n, g)
      BY <3>4
    <3> HIDE DEF Of
    <3> QED BY <2>2, <3>5
  <2> QED BY <2>3, <2>4
<1>2. Has(MaxPurchases)
  <2> HIDE DEF Has
  <2> QED BY <1>0, <1>1
<1> DEFINE f == CHOOSE f : Of(MaxPurchases, f)
<1>3. Of(MaxPurchases, f)
  BY <1>2
<1>4. SettleDebts(w) = f[MaxPurchases]
  BY DEF SettleDebts
<1> HIDE DEF f
<1>5. f[0] = w
  <2>1. 0 \in 0 .. MaxPurchases
    BY <1>0
  <2> QED BY <1>3, <2>1
<1>6. ASSUME NEW p \in StorePurchases PROVE f[p] = SettleOne(f[p - 1], p)
  <2>1. p \in 0 .. MaxPurchases /\ p # 0
    BY <1>0 DEF StorePurchases
  <2> QED BY <1>3, <2>1
<1> QED BY <1>4, <1>5, <1>6

\* settleNativeRefundDebt keeps a wallet good, for any number of debts.
LEMMA SettleKeepsGood ==
  ASSUME NEW w, NEW given \in SUBSET Reservations, GoodWallet(w, given)
  PROVE  GoodWallet(SettleDebts(w), given) /\ Reclaims(w, SettleDebts(w))
<1>1. PICK f : /\ SettleDebts(w) = f[MaxPurchases]
               /\ f[0] = w
               /\ \A p \in StorePurchases : f[p] = SettleOne(f[p - 1], p)
  BY SettleIsRecursive
<1>2. MaxPurchases \in Nat /\ StorePurchases = 1 .. MaxPurchases
  BY AmountsAssumption DEF StorePurchases
<1> DEFINE Good(p) == GoodWallet(f[p], given) /\ Reclaims(w, f[p])
           N == {p \in 0 .. MaxPurchases : ~Good(p)}
<1>3. Good(0)
  <2>1. Reclaims(w, w)
    BY DEF Reclaims
  <2> QED BY <1>1, <2>1
<1>4. ASSUME NEW p \in StorePurchases, Good(p - 1) PROVE Good(p)
  <2> DEFINE u == f[p - 1]
             v == f[p]
  <2>1. v = SettleOne(u, p) /\ GoodWallet(u, given) /\ Reclaims(w, u)
    BY <1>1, <1>4
  <2> HIDE DEF u, v
  <2>2. GoodWallet(v, given) /\ Reclaims(u, v)
    BY <2>1, SettleOneKeepsGood
  <2>3. w.lots \in Seq(CashLots) /\ u.lots \in Seq(CashLots)
    BY <2>1 DEF GoodWallet, Wallets
  <2>4. Reclaims(w, v)
    BY <2>1, <2>2, <2>3, ReclaimsAddUp
  <2> QED BY <2>2, <2>4 DEF v
<1>5. ASSUME N # {} PROVE FALSE
  <2>1. PICK p \in N : \A k \in N : p <= k
    <3>1. N \in SUBSET Nat
      BY <1>2
    <3> HIDE DEF N
    <3> QED BY <1>5, <3>1, LeastNumber
  <2>2. p \in 0 .. MaxPurchases /\ ~Good(p)
    OBVIOUS
  <2>3. p # 0
    BY <1>3, <2>2
  <2> HIDE DEF Good
  <2>4. p - 1 \in 0 .. MaxPurchases /\ p \in StorePurchases
    BY <1>2, <2>2, <2>3
  <2>5. p - 1 \notin N
    <3> HIDE DEF N
    <3> QED BY <1>2, <2>1, <2>2, <2>4
  <2>6. Good(p - 1)
    BY <2>4, <2>5
  <2> QED BY <1>4, <2>2, <2>4, <2>6
<1>6. Good(MaxPurchases)
  <2> HIDE DEF Good
  <2> QED BY <1>2, <1>5
<1> QED BY <1>1, <1>6

-----------------------------------------------------------------------------
(* Refunds that failed.                                                  *)

\* A way to go through a set one by one meets no element twice.
LEMMA OrdersMeetOnce ==
  ASSUME NEW R, IsFiniteSet(R), NEW turn \in [1 .. Cardinality(R) -> R],
         \A u \in R : \E i \in DOMAIN turn : turn[i] = u
  PROVE  \A i, j \in DOMAIN turn : turn[i] = turn[j] => i = j
<1> DEFINE c == Cardinality(R)
           S == 1 .. c
<1>1. c \in Nat
  BY FS_CardinalityType
<1>2. IsFiniteSet(S) /\ Cardinality(S) = c
  BY <1>1, FS_Interval
<1>3. turn \in [S -> R] /\ DOMAIN turn = S
  OBVIOUS
<1> HIDE DEF S
<1>4. turn \in Surjection(S, R)
  BY <1>3 DEF Surjection
<1>5. turn \in Injection(S, R)
  BY <1>2, <1>4, FS_SurjSameCardinalityImpliesInj DEF c
<1> QED BY <1>3, <1>5 DEF Injection, IsInjective

\* The lots that a release makes of the uses of a debit.
ReleasedAs(R, turn, more) ==
  /\ more \in Seq(CashLots) /\ DOMAIN more = DOMAIN turn
  /\ \A i \in DOMAIN turn :
       /\ turn[i] \in R
       /\ more[i].source = turn[i].source /\ more[i].paid = turn[i].paid
       /\ more[i].start = turn[i].start /\ more[i].points = turn[i].points
       /\ more[i].remaining = turn[i].points /\ Position(more[i]) = turn[i].start
  /\ Remaining(more, DOMAIN more) = PointsOf(R)

\* The lots that a release makes of uses have their sources, ranges and points.
LEMMA ReleasedLots ==
  ASSUME NEW R \in SUBSET CashUses, IsFiniteSet(R), NEW turn \in [1 .. Cardinality(R) -> R],
         \A u \in R : \E i \in DOMAIN turn : turn[i] = u,
         NEW more, more = [i \in DOMAIN turn |->
                             [source |-> turn[i].source, paid |-> turn[i].paid, start |-> turn[i].start,
                              points |-> turn[i].points, remaining |-> turn[i].points]]
  PROVE  ReleasedAs(R, turn, more)
<1> DEFINE M == DOMAIN turn
           f == [u \in R |-> u.points]
           g == [i \in M |-> more[i].remaining]
<1>1. Cardinality(R) \in Nat /\ M = 1 .. Cardinality(R) /\ DOMAIN more = M
  BY FS_CardinalityType
<1>2. ASSUME NEW i \in M
      PROVE  /\ turn[i] \in R /\ more[i] \in CashLots
             /\ more[i].source = turn[i].source /\ more[i].paid = turn[i].paid
             /\ more[i].start = turn[i].start /\ more[i].points = turn[i].points
             /\ more[i].remaining = turn[i].points /\ Position(more[i]) = turn[i].start
             /\ turn[i].points \in Nat
  <2>1. turn[i] \in R
    OBVIOUS
  <2>2. turn[i] \in CashUses
    BY <2>1
  <2>3. more[i] = [source |-> turn[i].source, paid |-> turn[i].paid, start |-> turn[i].start,
                   points |-> turn[i].points, remaining |-> turn[i].points]
    OBVIOUS
  <2> HIDE DEF M
  <2> DEFINE u == turn[i]
             x == more[i]
  <2> HIDE DEF u, x
  <2>4. /\ u \in CashUses
        /\ x = [source |-> u.source, paid |-> u.paid, start |-> u.start, points |-> u.points, remaining |-> u.points]
    BY <2>2, <2>3 DEF u, x
  <2>5. /\ x \in CashLots /\ x.source = u.source /\ x.paid = u.paid /\ x.start = u.start /\ x.points = u.points
        /\ x.remaining = u.points /\ u.points \in Nat /\ u.start \in Nat
    BY ONLY <2>4 DEF CashUses, CashLots
  <2>6. Position(x) = u.start
    BY ONLY <2>5 DEF Position
  <2> QED BY <2>1, <2>5, <2>6 DEF u, x
<1>3. more \in Seq(CashLots)
  <2>1. more \in [1 .. Cardinality(R) -> CashLots]
    BY <1>1, <1>2
  <2> QED BY <1>1, <2>1
<1>4. IsFiniteSet(M) /\ Remaining(more, M) = SumFunctionOnSet(g, M)
  <2>1. M \in SUBSET DOMAIN more
    BY <1>1
  <2> HIDE DEF M
  <2> QED BY <1>1, <1>3, <2>1, RemainingIsASum
<1>5. \A i \in M : g[i] \in Int /\ f[turn[i]] = g[i]
  BY <1>2
<1>6. \A i, j \in M : turn[i] = turn[j] => i = j
  BY OrdersMeetOnce
<1>7. {turn[i] : i \in M} = R
  BY <1>2
<1>8. SumFunctionOnSet(f, {turn[i] : i \in M}) = SumFunctionOnSet(g, M)
  <2> DEFINE e == turn
  <2>1. IsFiniteSet(M)
    BY <1>4
  <2>2. \A i \in M : g[i] \in Int /\ f[e[i]] = g[i]
    BY <1>5
  <2>3. \A i, j \in M : e[i] = e[j] => i = j
    BY <1>6
  <2> HIDE DEF f, g, M, e
  <2>4. SumFunctionOnSet(f, {e[i] : i \in M}) = SumFunctionOnSet(g, M)
    BY ONLY <2>1, <2>2, <2>3, SumOfImage
  <2> QED BY <2>4 DEF e
<1>9. Remaining(more, DOMAIN more) = PointsOf(R)
  <2>1. PointsOf(R) = SumFunctionOnSet(f, R)
    BY DEF PointsOf
  <2> HIDE DEF f, g, M
  <2> QED BY <1>1, <1>4, <1>7, <1>8, <2>1
<1> QED BY <1>1, <1>2, <1>3, <1>9 DEF ReleasedAs


\* What a release makes of a wallet.
LotsBack(turn) == [i \in DOMAIN turn |->
                     [source |-> turn[i].source, paid |-> turn[i].paid, start |-> turn[i].start,
                      points |-> turn[i].points, remaining |-> turn[i].points]]
IsTurn(turn, R) ==
  turn \in [1 .. Cardinality(R) -> R] /\ \A u \in R : \E i \in DOMAIN turn : turn[i] = u
AlsoGiven(w, given, R, after) ==
  /\ R \in SUBSET w.uses /\ \A u \in R : u.debit \notin given
  /\ \A u \in w.uses : u.debit \in after <=> u.debit \in given \/ u \in R
GivenPointsBack(w, n, more) == [w EXCEPT !.balance = @ + n, !.lots = @ \o more]

\* A release keeps a wallet good, if its uses are what is given back.
LEMMA ReleaseKeepsGood ==
  ASSUME NEW w, NEW given, GoodWallet(w, given), NEW R, NEW after, AlsoGiven(w, given, R, after),
         NEW turn, IsTurn(turn, R), NEW more, more = LotsBack(turn), NEW n \in Nat, n = PointsOf(R),
         NEW v, v = GivenPointsBack(w, n, more)
  PROVE  /\ GoodWallet(v, after) /\ v.uses = w.uses
         /\ \A t : HasLots(v.lots, t) <=> HasLots(w.lots, t)
<1> DEFINE D == DOMAIN w.lots
           M == DOMAIN turn
           m == Len(w.lots)
           lots == v.lots
<1>a. more = [i \in DOMAIN turn |->
                [source |-> turn[i].source, paid |-> turn[i].paid, start |-> turn[i].start,
                 points |-> turn[i].points, remaining |-> turn[i].points]]
  BY DEF LotsBack
<1>b. v = [w EXCEPT !.balance = @ + n, !.lots = @ \o more]
  BY DEF GivenPointsBack
<1>c. /\ R \in SUBSET w.uses /\ \A u \in R : u.debit \notin given
      /\ \A u \in w.uses : u.debit \in after <=> u.debit \in given \/ u \in R
  BY DEF AlsoGiven
<1>d. turn \in [1 .. Cardinality(R) -> R] /\ \A u \in R : \E i \in DOMAIN turn : turn[i] = u
  BY DEF IsTurn
<1> USE <1>a, <1>b, <1>c, <1>d
<1>1. /\ w \in Wallets /\ IsFiniteSet(w.uses) /\ w.balance = Remaining(w.lots, D)
      /\ WithinSources(w.lots, w.uses) /\ Traced(w.lots, w.uses, given)
      /\ w.lots \in Seq(CashLots) /\ w.balance \in Nat /\ w.uses \in SUBSET CashUses /\ w.debt \in Debts
      /\ w = [balance |-> w.balance, lots |-> w.lots, uses |-> w.uses, debt |-> w.debt]
  BY DEF GoodWallet, Wallets
<1>2. /\ v = [balance |-> w.balance + n, lots |-> lots, uses |-> w.uses, debt |-> w.debt]
      /\ v.balance = w.balance + n /\ lots = w.lots \o more /\ v.uses = w.uses
  BY <1>1
<1> HIDE DEF lots
<1>3. /\ more \in Seq(CashLots) /\ DOMAIN more = M
      /\ \A i \in M :
           /\ turn[i] \in R
           /\ more[i].source = turn[i].source /\ more[i].paid = turn[i].paid
           /\ more[i].start = turn[i].start /\ more[i].points = turn[i].points
           /\ more[i].remaining = turn[i].points /\ Position(more[i]) = turn[i].start
      /\ Remaining(more, DOMAIN more) = n
  <2>1. R \in SUBSET CashUses /\ IsFiniteSet(R)
    BY <1>1, FS_Subset
  <2>2. ReleasedAs(R, turn, more)
    BY <2>1, ReleasedLots
  <2> QED BY <2>2 DEF ReleasedAs
<1>4. \A i, j \in M : turn[i] = turn[j] => i = j
  <2>1. IsFiniteSet(R)
    BY <1>1, FS_Subset
  <2> QED BY <2>1, OrdersMeetOnce
<1>5. /\ lots \in Seq(CashLots) /\ m \in Nat /\ DOMAIN lots = D \cup {m + i : i \in M}
      /\ \A i \in D : lots[i] = w.lots[i]
      /\ \A i \in M : lots[m + i] = more[i] /\ m + i \notin D
      /\ Remaining(lots, DOMAIN lots) = Remaining(w.lots, D) + n
  <2>1. w.lots \in Seq(CashLots) /\ more \in Seq(CashLots)
    BY <1>1, <1>3
  <2>2. JoinedTo(w.lots, more, w.lots \o more)
    BY ONLY <2>1, MoreLots
  <2>3. JoinedTo(w.lots, more, lots)
    BY <1>2, <2>2
  <2>4. DOMAIN more = M /\ Remaining(more, DOMAIN more) = n
    BY <1>3
  <2> HIDE DEF M
  <2> QED BY ONLY <2>3, <2>4 DEF JoinedTo
<1>6. \A j \in DOMAIN lots : j \in D \/ \E i \in M : j = m + i
  BY <1>5
<1>7. D \subseteq DOMAIN lots /\ \A i \in M : m + i \in DOMAIN lots
  BY <1>5
<1> HIDE DEF D, M, m
<1>8. \A u \in R : HasLots(w.lots, u.source) /\ u.start + u.points <= Amount(u.source, u.paid)
  BY <1>1 DEF WithinSources
<1>9. \A t : HasLots(lots, t) <=> HasLots(w.lots, t)
  <2>1. ASSUME NEW t, HasLots(w.lots, t) PROVE HasLots(lots, t)
    BY <1>5, <1>7, <2>1 DEF HasLots, D
  <2>2. ASSUME NEW t, HasLots(lots, t) PROVE HasLots(w.lots, t)
    <3>1. PICK j \in DOMAIN lots : lots[j].source = t
      BY <2>2 DEF HasLots
    <3>2. CASE j \in D
      BY <1>5, <3>1, <3>2 DEF HasLots, D
    <3>3. CASE \E i \in M : j = m + i
      <4>1. PICK i \in M : j = m + i
        BY <3>3
      <4>2. turn[i].source = t /\ turn[i] \in R
        BY ONLY <1>3, <1>5, <3>1, <4>1
      <4> QED BY <1>8, <4>2
    <3> QED BY <1>6, <3>2, <3>3
  <2> QED BY <2>1, <2>2
<1>10. WithinSources(lots, w.uses)
  <2>1. ASSUME NEW j \in DOMAIN lots
        PROVE  /\ lots[j].remaining <= lots[j].points
               /\ lots[j].start + lots[j].points <= Amount(lots[j].source, lots[j].paid)
    <3>1. CASE j \in D
      BY <1>1, <1>5, <3>1 DEF WithinSources, D
    <3>2. ASSUME NEW i \in M, j = m + i
          PROVE  /\ lots[j].remaining <= lots[j].points
                 /\ lots[j].start + lots[j].points <= Amount(lots[j].source, lots[j].paid)
      <4>1. lots[j] = more[i] /\ lots[j].points \in Nat
        BY <1>5, <3>2, LotsAreTyped
      <4>2. turn[i] \in R
        BY <1>3
      <4>3. turn[i].start + turn[i].points <= Amount(turn[i].source, turn[i].paid)
        BY <1>8, <4>2
      <4>4. /\ lots[j].source = turn[i].source /\ lots[j].paid = turn[i].paid /\ lots[j].start = turn[i].start
            /\ lots[j].points = turn[i].points /\ lots[j].remaining = turn[i].points
        BY ONLY <1>3, <4>1, i \in M
      <4>5. lots[j].remaining <= lots[j].points
        BY ONLY <4>1, <4>4
      <4> QED BY <4>3, <4>4, <4>5
    <3> QED BY <1>6, <3>1, <3>2
  <2> QED BY <1>1, <1>9, <2>1 DEF WithinSources
<1>11. ASSUME NEW s \in Sources, HasLots(lots, s), NEW paid \in BOOLEAN, NEW k \in 0 .. Amount(s, paid) - 1
       PROVE  InOnePlace(LotsAt(lots, s, paid, k), UsesAt(w.uses, after, s, paid, k))
  <2> DEFINE L  == LotsAt(w.lots, s, paid, k)
             O  == UsesAt(w.uses, given, s, paid, k)
             L1 == LotsAt(lots, s, paid, k)
             O1 == UsesAt(w.uses, after, s, paid, k)
  <2>1. InOnePlace(L, O)
    BY <1>1, <1>9, <1>11 DEF Traced
  <2>2. O1 = O \ R
    BY DEF UsesAt
  <2>3. ASSUME NEW i \in M PROVE m + i \in L1 <=> turn[i] \in O
    <3>1. /\ m + i \in DOMAIN lots /\ lots[m + i] = more[i] /\ turn[i] \in R /\ turn[i] \in w.uses
          /\ turn[i].debit \notin given
      BY <1>3, <1>5, <1>7
    <3>2. /\ lots[m + i].source = turn[i].source /\ lots[m + i].paid = turn[i].paid
          /\ lots[m + i].start = turn[i].start /\ lots[m + i].points = turn[i].points
          /\ Position(lots[m + i]) = turn[i].start
      BY ONLY <1>3, <3>1, i \in M
    <3> DEFINE j == m + i
    <3>3. j \in DOMAIN lots
      BY <3>1
    <3> HIDE DEF j
    <3>4. j \in L1 <=> /\ turn[i].source = s /\ turn[i].paid = paid
                       /\ turn[i].start <= k /\ k < turn[i].start + turn[i].points
      BY <3>2, <3>3 DEF LotsAt, j
    <3>5. turn[i] \in O <=> /\ turn[i].source = s /\ turn[i].paid = paid
                            /\ turn[i].start <= k /\ k < turn[i].start + turn[i].points
      BY <3>1 DEF UsesAt
    <3> QED BY <3>4, <3>5 DEF j
  <2>4. ASSUME NEW j \in D PROVE j \in L1 <=> j \in L
    BY <1>5, <1>7 DEF LotsAt, D
  <2>5. L \subseteq D /\ L1 \subseteq DOMAIN lots
    BY DEF LotsAt, D
  <2> HIDE DEF L, O, L1, O1
  <2>6. L1 = L \cup {m + i : i \in {j \in M : turn[j] \in O}}
    <3>1. ASSUME NEW j \in L1 PROVE j \in L \cup {m + i : i \in {h \in M : turn[h] \in O}}
      BY <1>6, <2>3, <2>4, <2>5
    <3>2. ASSUME NEW i \in M, turn[i] \in O PROVE m + i \in L1
      BY <2>3, <3>2
    <3>3. L \subseteq L1
      BY <2>4, <2>5
    <3> QED BY <3>1, <3>2, <3>3
  <2>7. ASSUME NEW i, L = {i}, O = {} PROVE InOnePlace(L1, O1)
    <3>1. L1 = {i} /\ O1 = {}
      BY <2>2, <2>6, <2>7
    <3> QED BY <3>1 DEF InOnePlace
  <2>8. ASSUME NEW u, L = {}, O = {u} PROVE InOnePlace(L1, O1)
    <3>1. CASE u \in R
      <4>1. PICK i \in M : turn[i] = u
        BY <3>1 DEF M
      <4>2. {j \in M : turn[j] \in O} = {i}
        BY <1>4, <2>8, <4>1
      <4>3. L1 = {m + i} /\ O1 = {}
        BY <2>2, <2>6, <2>8, <3>1, <4>2
      <4> QED BY <4>3 DEF InOnePlace
    <3>2. CASE u \notin R
      <4>1. \A j \in M : turn[j] \notin O
        BY <1>3, <2>8, <3>2
      <4>2. L1 = {} /\ O1 = {u}
        BY <2>2, <2>6, <2>8, <3>2, <4>1
      <4> QED BY <4>2 DEF InOnePlace
    <3> QED BY <3>1, <3>2
  <2>9. InOnePlace(L1, O1)
    BY <2>1, <2>7, <2>8 DEF InOnePlace
  <2> QED BY <2>9 DEF L1, O1
<1>12. v \in Wallets
  <2>1. w.balance + n \in Nat
    BY <1>1
  <2> QED BY <1>1, <1>2, <1>5, <2>1 DEF Wallets
<1>13. GoodWallet(v, after)
  <2>1. Traced(lots, w.uses, after)
    BY <1>11 DEF Traced
  <2>2. v.lots = lots /\ v.balance = Remaining(lots, DOMAIN lots)
    BY <1>1, <1>2, <1>5 DEF lots
  <2> QED BY <1>1, <1>2, <1>10, <1>12, <2>1, <2>2 DEF GoodWallet
<1> QED BY <1>2, <1>9, <1>13 DEF lots

-----------------------------------------------------------------------------
(* Wallets and charges.                                                  *)

\* The debits of a charge's refunds that were given back.
ChargeStates == [TopUps -> {"none", "paid", "reserved", "refunded"}]
ReserveCounts == [TopUps -> Nat]

GivenBack(ch, rs) == {d \in Reservations : ch[d[2]] = "paid" \/ d[3] < rs[d[2]]}

ReservedUses(w, c, k) == {u \in w.uses : u.debit = <<"reserve", c, k>>}

\* A wallet that goes with what was done to the charges.
WalletRight(w, ch, rs) ==
  /\ GoodWallet(w, GivenBack(ch, rs))
  /\ \A c \in TopUps : ch[c] = "none" => rs[c] = 0 /\ ~HasLots(w.lots, c)
  /\ \A u \in w.uses : u.debit[1] = "reserve" =>
       u.debit \in Reservations /\ 0 < u.debit[3] /\ u.debit[3] <= rs[u.debit[2]]
  /\ \A c \in TopUps : ch[c] = "reserved" =>
       PointsOf(ReservedUses(w, c, rs[c])) = PaidPoints[c] + BonusPoints[c]

\* Only which uses are given back matters.
LEMMA GoodIsOfGiven ==
  ASSUME NEW w, NEW given, NEW after, GoodWallet(w, given), \A u \in w.uses : u.debit \in given <=> u.debit \in after
  PROVE  GoodWallet(w, after)
<1>1. ASSUME NEW s, NEW paid, NEW k PROVE UsesAt(w.uses, given, s, paid, k) = UsesAt(w.uses, after, s, paid, k)
  BY DEF UsesAt
<1>2. Traced(w.lots, w.uses, given) => Traced(w.lots, w.uses, after)
  BY <1>1 DEF Traced
<1> QED BY <1>2 DEF GoodWallet

\* What grows without touching the charges.
LEMMA GrowthKeepsRight ==
  ASSUME NEW ch \in ChargeStates, NEW rs \in ReserveCounts, NEW w, WalletRight(w, ch, rs),
         NEW v, GoodWallet(v, GivenBack(ch, rs)), w.uses \subseteq v.uses,
         \A u \in v.uses : u \in w.uses \/ u.debit[1] # "reserve",
         \A c \in TopUps : ch[c] = "none" => ~HasLots(v.lots, c)
  PROVE  WalletRight(v, ch, rs)
<1>1. \A u \in v.uses : u.debit[1] = "reserve" =>
        u.debit \in Reservations /\ 0 < u.debit[3] /\ u.debit[3] <= rs[u.debit[2]]
  BY DEF WalletRight
<1>2. ASSUME NEW c, NEW k PROVE ReservedUses(v, c, k) = ReservedUses(w, c, k)
  BY DEF ReservedUses
<1>3. \A c \in TopUps : ch[c] = "reserved" =>
        PointsOf(ReservedUses(v, c, rs[c])) = PaidPoints[c] + BonusPoints[c]
  BY <1>2 DEF WalletRight
<1>4. \A c \in TopUps : ch[c] = "none" => rs[c] = 0 /\ ~HasLots(v.lots, c)
  BY DEF WalletRight
<1> QED BY <1>1, <1>3, <1>4 DEF WalletRight

\* settleNativeRefundDebt spends nothing that a refund reserved.
LEMMA SettleKeepsRight ==
  ASSUME NEW ch \in ChargeStates, NEW rs \in ReserveCounts, NEW w, WalletRight(w, ch, rs)
  PROVE  WalletRight(SettleDebts(w), ch, rs)
<1> DEFINE v == SettleDebts(w)
           given == GivenBack(ch, rs)
<1>1. given \in SUBSET Reservations /\ GoodWallet(w, given)
  BY DEF GivenBack, WalletRight
<1> HIDE DEF given
<1>2. GoodWallet(v, given) /\ Reclaims(w, v)
  BY <1>1, SettleKeepsGood
<1> HIDE DEF v
<1>3. w.uses \subseteq v.uses /\ \A u \in v.uses : u \in w.uses \/ u.debit[1] # "reserve"
  BY <1>2 DEF Reclaims
<1>4. w.lots \in Seq(CashLots) /\ v.lots \in Seq(CashLots)
  BY <1>1, <1>2 DEF GoodWallet, Wallets
<1>5. DOMAIN v.lots = DOMAIN w.lots
  BY <1>2, <1>4, LotsAreTyped DEF Reclaims
<1>6. \A c : HasLots(v.lots, c) => HasLots(w.lots, c)
  BY <1>2, <1>5 DEF HasLots, Reclaims
<1>7. \A c \in TopUps : ch[c] = "none" => ~HasLots(v.lots, c)
  BY <1>6 DEF WalletRight
<1>8. WalletRight(v, ch, rs)
  BY <1>2, <1>3, <1>7, GrowthKeepsRight DEF given
<1> QED BY <1>8 DEF v

\* A source is credited once, and a charge only when it is paid.
LEMMA CreditKeepsRight ==
  ASSUME NEW ch \in ChargeStates, NEW rs \in ReserveCounts, NEW w, WalletRight(w, ch, rs),
         NEW s \in Sources, ~HasLots(w.lots, s), s \in TopUps => ch[s] # "none"
  PROVE  WalletRight(Credit(w, s), ch, rs)
<1> DEFINE v == Credit(w, s)
           given == GivenBack(ch, rs)
<1>1. GoodWallet(w, given)
  BY DEF WalletRight
<1> HIDE DEF given
<1>2. /\ GoodWallet(v, given) /\ v.uses = w.uses
      /\ \A t : HasLots(v.lots, t) <=> HasLots(w.lots, t) \/ t = s
  BY <1>1, CreditKeepsGood
<1> HIDE DEF v
<1>3. \A c \in TopUps : ch[c] = "none" => ~HasLots(v.lots, c)
  BY <1>2 DEF WalletRight
<1>4. WalletRight(v, ch, rs)
  BY <1>2, <1>3, GrowthKeepsRight DEF given
<1> QED BY <1>4 DEF v

\* Points may be owed that the wallet does not have.
LEMMA OwingKeepsRight ==
  ASSUME NEW ch \in ChargeStates, NEW rs \in ReserveCounts, NEW w, WalletRight(w, ch, rs),
         NEW p \in StorePurchases, NEW owed \in [paid : Nat, bonus : Nat],
         NEW v, v = [w EXCEPT !.debt[p] = owed]
  PROVE  WalletRight(v, ch, rs)
<1> DEFINE given == GivenBack(ch, rs)
<1>1. GoodWallet(w, given)
  BY DEF WalletRight
<1>2. /\ w \in Wallets /\ w.debt \in Debts /\ w.lots \in Seq(CashLots) /\ w.balance \in Nat
      /\ w.uses \in SUBSET CashUses
      /\ w = [balance |-> w.balance, lots |-> w.lots, uses |-> w.uses, debt |-> w.debt]
  BY <1>1 DEF GoodWallet, Wallets
<1>3. /\ v = [balance |-> w.balance, lots |-> w.lots, uses |-> w.uses, debt |-> [w.debt EXCEPT ![p] = owed]]
      /\ v.balance = w.balance /\ v.lots = w.lots /\ v.uses = w.uses
  BY <1>2
<1>4. [w.debt EXCEPT ![p] = owed] \in Debts
  BY <1>2 DEF Debts
<1>5. v \in Wallets
  BY <1>2, <1>3, <1>4 DEF Wallets
<1>6. GoodWallet(v, given)
  BY <1>1, <1>3, <1>5 DEF GoodWallet
<1>7. \A c \in TopUps : ch[c] = "none" => ~HasLots(v.lots, c)
  BY <1>3 DEF WalletRight
<1> QED BY <1>3, <1>6, <1>7, GrowthKeepsRight

\* An unlock takes points that no refund reserved.
LEMMA UnlockKeepsRight ==
  ASSUME NEW ch \in ChargeStates, NEW rs \in ReserveCounts, NEW w, WalletRight(w, ch, rs),
         NEW t \in Titles, NEW n \in Nat, n <= w.balance
  PROVE  WalletRight(Debit(w, <<"unlock", t, 0>>, InOrder(w.lots), n), ch, rs)
<1> DEFINE debit == <<"unlock", t, 0>>
           rank == InOrder(w.lots)
           v == Debit(w, debit, rank, n)
           given == GivenBack(ch, rs)
<1>1. GoodWallet(w, given)
  BY DEF WalletRight
<1>2. debit \in PointDebits /\ debit \notin given /\ debit[1] # "reserve"
  BY DEF PointDebits, GivenBack, Reservations
<1>3. \A i \in DOMAIN w.lots : rank[i] \in Nat
  BY DEF InOrder
<1> HIDE DEF given, debit, rank
<1>4. /\ GoodWallet(v, given)
      /\ Len(v.lots) = Len(w.lots)
      /\ \A i \in DOMAIN w.lots : v.lots[i].source = w.lots[i].source
      /\ \E U : /\ v.uses = w.uses \cup U /\ \A u \in U : u.debit = debit
                /\ IsFiniteSet(U) /\ PointsOf(U) = n
  BY <1>1, <1>2, <1>3, DebitKeepsGood
<1> HIDE DEF v
<1>5. w.uses \subseteq v.uses /\ \A u \in v.uses : u \in w.uses \/ u.debit[1] # "reserve"
  BY <1>2, <1>4
<1>6. w.lots \in Seq(CashLots) /\ v.lots \in Seq(CashLots)
  BY <1>1, <1>4 DEF GoodWallet, Wallets
<1>7. DOMAIN v.lots = DOMAIN w.lots
  BY <1>4, <1>6, LotsAreTyped
<1>8. \A c : HasLots(v.lots, c) => HasLots(w.lots, c)
  BY <1>4, <1>7 DEF HasLots
<1>9. \A c \in TopUps : ch[c] = "none" => ~HasLots(v.lots, c)
  BY <1>8 DEF WalletRight
<1>10. WalletRight(v, ch, rs)
  BY <1>4, <1>5, <1>9, GrowthKeepsRight DEF given
<1> QED BY <1>10 DEF v, debit, rank

-----------------------------------------------------------------------------
(* Refunds.                                                              *)

\* A refund's debit names its charge and its number.
LEMMA ReserveDebits ==
  ASSUME NEW c \in TopUps, NEW k \in Nat
  PROVE  LET d == <<"reserve", c, k>>
         IN d \in PointDebits /\ d \in Reservations /\ d[1] = "reserve" /\ d[2] = c /\ d[3] = k
BY DEF PointDebits, Reservations

\* And nothing else does.
LEMMA ReservationsAreTriples ==
  ASSUME NEW d \in Reservations
  PROVE  d[1] = "reserve" /\ d[2] \in TopUps /\ d[3] \in Nat /\ d = <<"reserve", d[2], d[3]>>
BY DEF Reservations

\* A payment: no refund of the charge was tried and it has no lots yet.
LEMMA PaymentKeepsRight ==
  ASSUME NEW ch \in ChargeStates, NEW rs \in ReserveCounts, NEW w, WalletRight(w, ch, rs),
         NEW c \in TopUps, ch[c] = "none", NEW after, after = [ch EXCEPT ![c] = "paid"]
  PROVE  WalletRight(w, after, rs) /\ ~HasLots(w.lots, c)
<1>1. /\ after \in ChargeStates /\ after[c] = "paid" /\ \A x \in TopUps : x # c => after[x] = ch[x]
  BY DEF ChargeStates
<1>2. ASSUME NEW u \in w.uses
      PROVE  u.debit \in GivenBack(ch, rs) <=> u.debit \in GivenBack(after, rs)
  <2>1. CASE u.debit \in Reservations
    <3>1. u.debit[1] = "reserve" /\ u.debit[2] \in TopUps /\ u.debit[3] \in Nat
      BY <2>1, ReservationsAreTriples
    <3>2. u.debit[2] # c
      BY <3>1 DEF WalletRight, ReserveCounts
    <3> QED BY <1>1, <3>1, <3>2 DEF GivenBack
  <2>2. CASE u.debit \notin Reservations
    BY <2>2 DEF GivenBack
  <2> QED BY <2>1, <2>2
<1>3. GoodWallet(w, GivenBack(after, rs))
  <2>1. GoodWallet(w, GivenBack(ch, rs))
    BY DEF WalletRight
  <2> QED BY <1>2, <2>1, GoodIsOfGiven
<1>4. WalletRight(w, after, rs)
  BY <1>1, <1>3 DEF WalletRight
<1>5. ~HasLots(w.lots, c)
  BY DEF WalletRight
<1> QED BY <1>4, <1>5

\* The refund succeeded: what was reserved stays taken.
LEMMA SuccessKeepsRight ==
  ASSUME NEW ch \in ChargeStates, NEW rs \in ReserveCounts, NEW w, WalletRight(w, ch, rs),
         NEW c \in TopUps, ch[c] = "reserved", NEW after, after = [ch EXCEPT ![c] = "refunded"]
  PROVE  WalletRight(w, after, rs)
<1>1. /\ after \in ChargeStates /\ after[c] = "refunded" /\ \A x \in TopUps : x # c => after[x] = ch[x]
  BY DEF ChargeStates
<1>2. GivenBack(ch, rs) = GivenBack(after, rs)
  <2>1. \A x \in TopUps : ch[x] = "paid" <=> after[x] = "paid"
    BY <1>1
  <2>2. \A d \in Reservations : d[2] \in TopUps
    BY ReservationsAreTriples
  <2> QED BY <2>1, <2>2 DEF GivenBack
<1> QED BY <1>1, <1>2 DEF WalletRight

\* reserveTopupPoints.
LEMMA ReserveKeepsRight ==
  ASSUME NEW ch \in ChargeStates, NEW rs \in ReserveCounts, NEW w, WalletRight(w, ch, rs),
         NEW c \in TopUps, ch[c] = "paid", PaidPoints[c] + BonusPoints[c] <= w.balance,
         NEW after, after = [ch EXCEPT ![c] = "reserved"], NEW more, more = [rs EXCEPT ![c] = @ + 1],
         NEW v, v = Debit(w, <<"reserve", c, rs[c] + 1>>, InOrder(w.lots), PaidPoints[c] + BonusPoints[c])
  PROVE  WalletRight(v, after, more)
<1> DEFINE n == PaidPoints[c] + BonusPoints[c]
           k == rs[c] + 1
           debit == <<"reserve", c, k>>
           rank == InOrder(w.lots)
           given == GivenBack(after, more)
<1>1. /\ after \in ChargeStates /\ after[c] = "reserved" /\ \A x \in TopUps : x # c => after[x] = ch[x]
      /\ more \in ReserveCounts /\ more[c] = k /\ (\A x \in TopUps : x # c => more[x] = rs[x])
      /\ rs[c] \in Nat /\ k \in Nat /\ k > rs[c]
  BY DEF ChargeStates, ReserveCounts
<1>2. n \in Nat /\ n <= w.balance
  BY AmountsAssumption DEF Sources
<1>3. \A i \in DOMAIN w.lots : rank[i] \in Nat
  BY DEF InOrder
<1>4. debit \in PointDebits /\ debit \in Reservations /\ debit[1] = "reserve" /\ debit[2] = c /\ debit[3] = k
  BY <1>1, ReserveDebits
<1> HIDE DEF n, k, debit, rank
<1>5. debit \notin given
  BY <1>1, <1>4 DEF GivenBack
<1>6. ASSUME NEW u \in w.uses, u.debit[1] = "reserve"
      PROVE  /\ u.debit \in Reservations /\ 0 < u.debit[3] /\ u.debit[3] <= rs[u.debit[2]]
             /\ u.debit[2] \in TopUps /\ u.debit[3] \in Nat /\ rs[u.debit[2]] \in Nat
             /\ rs[u.debit[2]] <= more[u.debit[2]]
  <2>1. u.debit \in Reservations /\ 0 < u.debit[3] /\ u.debit[3] <= rs[u.debit[2]]
    BY <1>6 DEF WalletRight
  <2>2. u.debit[2] \in TopUps /\ u.debit[3] \in Nat
    BY <2>1, ReservationsAreTriples
  <2>3. rs[u.debit[2]] \in Nat /\ rs[u.debit[2]] <= more[u.debit[2]]
    BY <1>1, <2>2 DEF ReserveCounts
  <2> QED BY <2>1, <2>2, <2>3
<1>7. ASSUME NEW u \in w.uses
      PROVE  u.debit \in GivenBack(ch, rs) <=> u.debit \in given
  <2>1. CASE u.debit \in Reservations
    <3>1. u.debit[1] = "reserve"
      BY <2>1, ReservationsAreTriples
    <3>2. CASE u.debit[2] = c
      <4>1. u.debit[3] < more[u.debit[2]]
        BY <1>1, <1>6, <3>1, <3>2
      <4> QED BY <2>1, <3>2, <4>1 DEF GivenBack
    <3>3. CASE u.debit[2] # c
      BY <1>1, <1>6, <2>1, <3>1, <3>3 DEF GivenBack
    <3> QED BY <3>2, <3>3
  <2>2. CASE u.debit \notin Reservations
    BY <2>2 DEF GivenBack
  <2> QED BY <2>1, <2>2
<1> HIDE DEF given
<1>8. GoodWallet(w, given)
  <2>1. GoodWallet(w, GivenBack(ch, rs))
    BY DEF WalletRight
  <2> QED BY <1>7, <2>1, GoodIsOfGiven
<1>9. v = Debit(w, debit, rank, n)
  BY DEF debit, rank, n, k
<1>10. /\ GoodWallet(v, given)
       /\ Len(v.lots) = Len(w.lots)
       /\ \A i \in DOMAIN w.lots : v.lots[i].source = w.lots[i].source
       /\ \E U : /\ v.uses = w.uses \cup U /\ \A u \in U : u.debit = debit
                 /\ IsFiniteSet(U) /\ PointsOf(U) = n
  <2> DEFINE x == Debit(w, debit, rank, n)
  <2>1. n \in Nat
    BY <1>2
  <2>2. n <= w.balance
    BY <1>2
  <2>3. debit \in PointDebits
    BY <1>4
  <2>4. /\ GoodWallet(x, given)
        /\ x.balance = w.balance - n /\ x.debt = w.debt /\ Len(x.lots) = Len(w.lots)
        /\ \A i \in DOMAIN w.lots : x.lots[i].source = w.lots[i].source
        /\ \E U : /\ x.uses = w.uses \cup U /\ \A u \in U : u.debit = debit
                  /\ IsFiniteSet(U) /\ PointsOf(U) = n
    BY ONLY SMTT(60), <1>3, <1>5, <1>8, <2>1, <2>2, <2>3, DebitKeepsGood
  <2>5. v = x
    BY <1>9
  <2> HIDE DEF x
  <2> QED BY <2>4, <2>5
<1>11. PICK U : v.uses = w.uses \cup U /\ (\A u \in U : u.debit = debit) /\ PointsOf(U) = n
  BY <1>10
<1>12. \A x : HasLots(v.lots, x) => HasLots(w.lots, x)
  <2>1. w.lots \in Seq(CashLots) /\ v.lots \in Seq(CashLots)
    BY <1>8, <1>10 DEF GoodWallet, Wallets
  <2>2. DOMAIN v.lots = DOMAIN w.lots
    BY <1>10, <2>1, LotsAreTyped
  <2> QED BY <1>10, <2>2 DEF HasLots
<1>13. ASSUME NEW x \in TopUps, after[x] = "none" PROVE more[x] = 0 /\ ~HasLots(v.lots, x)
  <2>1. x # c /\ ch[x] = "none" /\ more[x] = rs[x]
    BY <1>1, <1>13
  <2> QED BY <1>12, <2>1 DEF WalletRight
<1>14. ASSUME NEW u \in v.uses, u.debit[1] = "reserve"
       PROVE  u.debit \in Reservations /\ 0 < u.debit[3] /\ u.debit[3] <= more[u.debit[2]]
  <2>1. CASE u \in w.uses
    BY <1>1, <1>6, <1>14, <2>1 DEF ReserveCounts
  <2>2. CASE u \in U
    <3>1. u.debit = debit
      BY <1>11, <2>2
    <3> QED BY <1>1, <1>4, <3>1
  <2> QED BY <1>11, <2>1, <2>2
<1>15. ASSUME NEW x \in TopUps, after[x] = "reserved"
       PROVE  PointsOf(ReservedUses(v, x, more[x])) = PaidPoints[x] + BonusPoints[x]
  <2>1. CASE x = c
    <3>1. ASSUME NEW u \in w.uses PROVE u.debit # debit
      BY <1>1, <1>4, <1>6
    <3>2. ReservedUses(v, c, k) = U
      BY <1>11, <3>1 DEF ReservedUses, debit
    <3> QED BY <1>1, <1>11, <2>1, <3>2 DEF n
  <2>2. CASE x # c
    <3>1. ch[x] = "reserved" /\ more[x] = rs[x]
      BY <1>1, <1>15, <2>2
    <3>2. ReservedUses(v, x, rs[x]) = ReservedUses(w, x, rs[x])
      <4>1. <<"reserve", x, rs[x]>> # debit
        BY <2>2 DEF debit
      <4> QED BY <1>11, <4>1 DEF ReservedUses
    <3>3. PointsOf(ReservedUses(w, x, rs[x])) = PaidPoints[x] + BonusPoints[x]
      BY <3>1 DEF WalletRight
    <3> QED BY <3>1, <3>2, <3>3
  <2> QED BY <2>1, <2>2
<1> QED BY <1>10, <1>13, <1>14, <1>15 DEF WalletRight, given

\* The refund failed.
LEMMA ReleaseKeepsRight ==
  ASSUME NEW ch \in ChargeStates, NEW rs \in ReserveCounts, NEW w, WalletRight(w, ch, rs),
         NEW c \in TopUps, ch[c] = "reserved", NEW after, after = [ch EXCEPT ![c] = "paid"],
         NEW R, R = ReservedUses(w, c, rs[c]),
         NEW turn, IsTurn(turn, R),
         NEW v, v = GivenPointsBack(w, PaidPoints[c] + BonusPoints[c], LotsBack(turn))
  PROVE  WalletRight(v, after, rs)
<1> DEFINE n == PaidPoints[c] + BonusPoints[c]
           k == rs[c]
           debit == <<"reserve", c, k>>
           given == GivenBack(ch, rs)
           then == GivenBack(after, rs)
           more == LotsBack(turn)
<1>1. /\ after \in ChargeStates /\ after[c] = "paid" /\ \A x \in TopUps : x # c => after[x] = ch[x]
      /\ k \in Nat
  BY DEF ChargeStates, ReserveCounts
<1>2. n \in Nat
  BY AmountsAssumption DEF Sources
<1>3. n = PointsOf(R)
  BY DEF WalletRight
<1>4. debit \in Reservations /\ debit[1] = "reserve" /\ debit[2] = c /\ debit[3] = k
  BY <1>1, ReserveDebits
<1>5. v = GivenPointsBack(w, n, more)
  OBVIOUS
<1>6. R \in SUBSET w.uses /\ \A u \in R : u.debit = debit
  BY DEF ReservedUses
<1>7. \A u \in w.uses : u.debit = debit => u \in R
  BY DEF ReservedUses
<1>8. more = LotsBack(turn)
  OBVIOUS
<1> HIDE DEF n, more
<1>9. GoodWallet(w, given)
  BY DEF WalletRight
<1>10. \A u \in R : u.debit \notin given
  <2>1. debit \notin given
    BY <1>1, <1>4 DEF GivenBack
  <2> QED BY <1>6, <2>1
<1>11. ASSUME NEW u \in w.uses
       PROVE  u.debit \in then <=> u.debit \in given \/ u \in R
  <2>1. CASE u.debit \in Reservations
    <3>1. /\ u.debit[1] = "reserve" /\ u.debit[2] \in TopUps /\ u.debit[3] \in Nat
          /\ u.debit = <<"reserve", u.debit[2], u.debit[3]>>
      BY <2>1, ReservationsAreTriples
    <3>2. u.debit[3] <= rs[u.debit[2]]
      BY <3>1 DEF WalletRight
    <3>3. CASE u.debit[2] = c
      <4>1. u.debit \in then
        BY <1>1, <2>1, <3>3 DEF GivenBack
      <4>2. u.debit \in given <=> u.debit[3] < k
        BY <2>1, <3>3 DEF GivenBack
      <4>3. u.debit[3] = k => u \in R
        BY <1>7, <3>1, <3>3
      <4> QED BY <1>1, <3>1, <3>2, <3>3, <4>1, <4>2, <4>3
    <3>4. CASE u.debit[2] # c
      <4>1. u \notin R
        BY <1>4, <1>6, <3>4
      <4> QED BY <1>1, <2>1, <3>1, <3>4, <4>1 DEF GivenBack
    <3> QED BY <3>3, <3>4
  <2>2. CASE u.debit \notin Reservations
    <3>1. u \notin R
      BY <1>4, <1>6, <2>2
    <3> QED BY <2>2, <3>1 DEF GivenBack
  <2> QED BY <2>1, <2>2
<1> HIDE DEF given, then
<1>12. /\ GoodWallet(v, then) /\ v.uses = w.uses
       /\ \A t : HasLots(v.lots, t) <=> HasLots(w.lots, t)
  <2>1. R \in SUBSET w.uses
    BY <1>6
  <2>2. \A u \in w.uses : u.debit \in then <=> u.debit \in given \/ u \in R
    BY <1>11
  <2>3. AlsoGiven(w, given, R, then)
    BY <1>10, <2>1, <2>2 DEF AlsoGiven
  <2>4. IsTurn(turn, R)
    OBVIOUS
  <2> QED BY ONLY <1>2, <1>3, <1>5, <1>8, <1>9, <2>3, <2>4, ReleaseKeepsGood
<1>13. ASSUME NEW x \in TopUps, after[x] = "none" PROVE rs[x] = 0 /\ ~HasLots(v.lots, x)
  <2>1. ch[x] = "none"
    BY <1>1, <1>13
  <2> QED BY <1>12, <2>1 DEF WalletRight
<1>14. ASSUME NEW x \in TopUps, after[x] = "reserved"
       PROVE  PointsOf(ReservedUses(v, x, rs[x])) = PaidPoints[x] + BonusPoints[x]
  <2>1. ch[x] = "reserved"
    BY <1>1, <1>14
  <2>2. ReservedUses(v, x, rs[x]) = ReservedUses(w, x, rs[x])
    BY <1>12 DEF ReservedUses
  <2> QED BY <2>1, <2>2 DEF WalletRight
<1>15. \A u \in v.uses : u.debit[1] = "reserve" =>
         u.debit \in Reservations /\ 0 < u.debit[3] /\ u.debit[3] <= rs[u.debit[2]]
  BY <1>12 DEF WalletRight
<1> QED BY <1>12, <1>13, <1>14, <1>15 DEF WalletRight, then

-----------------------------------------------------------------------------
(* Purchases, and the wallet of a state.                                 *)

\* Rounding up keeps the order, and a part of the points grows no faster than the points.
LEMMA CeilingGrows ==
  ASSUME NEW a \in Nat, NEW t \in Nat, t > 0, a <= t, NEW x \in Nat, NEW y \in Nat, x <= y
  PROVE  /\ CeilDiv(x * a, t) \in Nat /\ CeilDiv(y * a, t) \in Nat
         /\ CeilDiv(x * a, t) <= CeilDiv(y * a, t)
         /\ CeilDiv(y * a, t) - CeilDiv(x * a, t) <= y - x
<1> DEFINE p == x * a
           q == y * a
           u == (p + t - 1) \div t
           v == (q + t - 1) \div t
<1>1. p \in Nat /\ q \in Nat /\ p <= q
  BY ProductGrows
<1>2. q <= p + (y - x) * t
  <2>1. (y - x) * a <= (y - x) * t /\ (y - x) * a = q - p
    BY ProductGrows
  <2>2. (y - x) * a \in Int /\ (y - x) * t \in Int
    OBVIOUS
  <2> HIDE DEF p, q
  <2> QED BY <1>1, <2>1, <2>2
<1> HIDE DEF p, q
<1>3. /\ u \in Int /\ t * u <= p + t - 1 /\ p + t - 1 < t * u + t
      /\ v \in Int /\ t * v <= q + t - 1 /\ q + t - 1 < t * v + t
  BY <1>1, QuotientBounds
<1>4. u <= v
  BY <1>1, QuotientGrows
<1>5. 0 <= u
  <2>1. t * 0 <= p + t - 1
    BY <1>1
  <2> QED BY <1>1, <2>1, LargestQuotient
<1> HIDE DEF u
<1>6. v <= u + (y - x)
  <2> DEFINE d == u + (y - x)
  <2>1. d \in Int
    BY <1>3
  <2>2. t * (d + 1) = t * u + t + (y - x) * t
    BY <1>3
  <2>3. t * u \in Int /\ (y - x) * t \in Int
    BY <1>3
  <2>4. q + t - 1 < t * (d + 1)
    <3> DEFINE e == t * u
               f == (y - x) * t
               g == t * (d + 1)
    <3>1. e \in Int /\ f \in Int /\ g = e + t + f /\ q <= p + f /\ p + t - 1 < e + t
      BY <1>2, <1>3, <2>2, <2>3
    <3> HIDE DEF e, f, g
    <3>2. q + t - 1 < g
      BY <1>1, <3>1
    <3> QED BY <3>2 DEF g
  <2> HIDE DEF d
  <2>5. v <= d
    BY <1>1, <2>1, <2>4, SmallestQuotient
  <2> QED BY <2>5 DEF d
<1> HIDE DEF v
<1>7. CeilDiv(x * a, t) = u /\ CeilDiv(y * a, t) = v
  BY DEF CeilDiv, u, v, p, q
<1> QED BY <1>3, <1>4, <1>5, <1>6, <1>7

\* Of what more is reclaimed of a purchase, the paid part is no more than all of it: neither
\* part of the debt becomes negative.
LEMMA PaidPartGrows ==
  ASSUME NEW p \in StorePurchases, NEW x \in Nat, NEW y \in Nat, x <= y
  PROVE  /\ PaidPart(p, y) - PaidPart(p, x) \in Nat
         /\ PaidPart(p, y) - PaidPart(p, x) <= y - x
<1> DEFINE a == PaidPoints[p]
           t == PaidPoints[p] + BonusPoints[p]
<1>1. a \in Nat /\ t \in Nat /\ t > 0 /\ a <= t
  BY AmountsAssumption DEF Sources
<1>2. PaidPart(p, x) = CeilDiv(x * a, t) /\ PaidPart(p, y) = CeilDiv(y * a, t)
  BY DEF PaidPart
<1> HIDE DEF a, t
<1>3. /\ CeilDiv(x * a, t) \in Nat /\ CeilDiv(y * a, t) \in Nat
      /\ CeilDiv(x * a, t) <= CeilDiv(y * a, t)
      /\ CeilDiv(y * a, t) - CeilDiv(x * a, t) <= y - x
  BY <1>1, CeilingGrows
<1> DEFINE m == CeilDiv(x * a, t)
           n == CeilDiv(y * a, t)
<1> HIDE DEF m, n
<1>4. m \in Nat /\ n \in Nat /\ m <= n /\ n - m <= y - x
  BY <1>3 DEF m, n
<1>5. n - m \in Nat
  BY <1>4
<1> QED BY <1>2, <1>4, <1>5 DEF m, n

\* What a store refund takes back is a number of points.
LEMMA ReclaimedIsNatural ==
  ASSUME NEW p \in StorePurchases, NEW st, NEW r \in Nat
  PROVE  Reclaimed(p, st, r) \in Nat
<1> DEFINE t == PaidPoints[p] + BonusPoints[p]
           g == Gross[p]
<1>1. t \in Nat /\ g \in Nat
  BY AmountsAssumption DEF Sources
<1>2. CASE st # "refunded" /\ g # 0
  <2>1. t * r \in Nat
    BY <1>1
  <2> DEFINE n == t * r
  <2> HIDE DEF n
  <2>2. g * 0 <= n + g - 1 /\ n + g - 1 \in Int /\ g \in Int /\ g > 0
    BY <1>1, <1>2, <2>1 DEF n
  <2>3. (n + g - 1) \div g \in Int /\ 0 <= (n + g - 1) \div g
    BY <2>2, QuotientBounds, LargestQuotient
  <2>4. Reclaimed(p, st, r) = (n + g - 1) \div g
    BY <1>2 DEF Reclaimed, CeilDiv, n
  <2> HIDE DEF g
  <2> QED BY <2>3, <2>4
<1>3. CASE ~(st # "refunded" /\ g # 0)
  BY <1>1, <1>3 DEF Reclaimed
<1> QED BY <1>2, <1>3

\* The store refunds no more than was paid.
LEMMA StoreRefundsAreAmounts ==
  ASSUME NEW p \in StorePurchases, NEW at \in 0 .. Len(StoreRefunds[p])
  PROVE  RefundedAt(p, at) \in Nat /\ RefundedAt(p, at) <= Gross[p] /\ Gross[p] \in Nat
<1>1. StoreRefunds[p] \in Seq(0 .. Gross[p]) /\ Gross[p] \in Nat
  BY AmountsAssumption DEF Sources
<1>2. at # 0 => StoreRefunds[p][at] \in 0 .. Gross[p]
  BY <1>1
<1> QED BY <1>1, <1>2 DEF RefundedAt

Receipts == [StorePurchases -> [status : {"none", "active", "refunded"}, observed : Nat, refundedPoints : Nat]]

WalletInv ==
  /\ charge \in ChargeStates /\ reserves \in ReserveCounts /\ receipt \in Receipts
  /\ WalletRight(pointWallet, charge, reserves)

\* What is in one place is counted once.
LEMMA OnePlaceIsCounted ==
  ASSUME NEW L, NEW U, InOnePlace(L, U)
  PROVE  Cardinality(L) + Cardinality(U) = 1
<1>1. Cardinality({}) = 0 /\ \A x : Cardinality({x}) = 1
  BY FS_EmptySet, FS_Singleton
<1>2. CASE \E i : L = {i} /\ U = {}
  <2>1. Cardinality(L) = 1 /\ Cardinality(U) = 0
    BY <1>1, <1>2
  <2> QED BY <2>1
<1>3. CASE L = {} /\ \E u : U = {u}
  <2>1. Cardinality(L) = 0 /\ Cardinality(U) = 1
    BY <1>1, <1>3
  <2> QED BY <2>1
<1> QED BY <1>2, <1>3 DEF InOnePlace

\* The invariant of the wallet says where every point is.
LEMMA RightWalletIsTraced ==
  ASSUME WalletInv
  PROVE  EveryPointIsTraced
<1> DEFINE lots == pointWallet.lots
           uses == pointWallet.uses
           given == GivenBack(charge, reserves)
<1>1. /\ pointWallet.balance = Remaining(lots, DOMAIN lots) /\ Traced(lots, uses, given)
  BY DEF WalletInv, WalletRight, GoodWallet
<1>2. ASSUME NEW u \in uses PROVE Given(u) <=> u.debit \in given
  <2>1. CASE u.debit[1] = "reserve"
    <3>1. u.debit \in Reservations
      BY <2>1 DEF WalletInv, WalletRight
    <3> QED BY <2>1, <3>1 DEF Given, GivenBack
  <2>2. CASE u.debit[1] # "reserve"
    <3>1. u.debit \notin Reservations
      BY <2>2, ReservationsAreTriples
    <3> QED BY <2>2, <3>1 DEF Given, GivenBack
  <2> QED BY <2>1, <2>2
<1> HIDE DEF given
<1> DEFINE L(s, paid, k) == {i \in DOMAIN lots :
                                lots[i].source = s /\ lots[i].paid = paid /\ Position(lots[i]) <= k
                                /\ k < lots[i].start + lots[i].points}
           U(s, paid, k) == {u \in uses : ~Given(u) /\ (u.source = s /\ u.paid = paid /\ u.start <= k
                                          /\ k < u.start + u.points)}
<1>3. ASSUME NEW s \in Sources, HasLots(lots, s), NEW paid \in BOOLEAN, NEW k \in 0 .. Amount(s, paid) - 1
      PROVE  Cardinality(L(s, paid, k)) + Cardinality(U(s, paid, k)) = 1
  <2>1. L(s, paid, k) = LotsAt(lots, s, paid, k)
    BY DEF LotsAt
  <2>2. U(s, paid, k) = UsesAt(uses, given, s, paid, k)
    BY <1>2 DEF UsesAt
  <2>3. InOnePlace(LotsAt(lots, s, paid, k), UsesAt(uses, given, s, paid, k))
    BY <1>1, <1>3 DEF Traced
  <2> HIDE DEF L, U
  <2> QED BY <2>1, <2>2, <2>3, OnePlaceIsCounted
<1> HIDE DEF L, U
<1> DEFINE yes == TRUE
           no  == FALSE
<1>4. yes \in BOOLEAN /\ no \in BOOLEAN /\ yes /\ ~no
  OBVIOUS
<1> HIDE DEF yes, no
<1>5. ASSUME NEW s \in Sources, HasLots(lots, s)
      PROVE  /\ \A k \in 0 .. PaidPoints[s] - 1 : Cardinality(L(s, yes, k)) + Cardinality(U(s, yes, k)) = 1
             /\ \A k \in 0 .. BonusPoints[s] - 1 : Cardinality(L(s, no, k)) + Cardinality(U(s, no, k)) = 1
  <2>1. Amount(s, yes) = PaidPoints[s] /\ Amount(s, no) = BonusPoints[s]
    BY <1>4 DEF Amount
  <2> QED BY <1>3, <1>4, <1>5, <2>1
<1>6. ASSUME NEW s \in {x \in Sources : \E i \in DOMAIN lots : lots[i].source = x}
      PROVE  s \in Sources /\ HasLots(lots, s)
  BY DEF HasLots
<1>7. \A s \in {x \in Sources : \E i \in DOMAIN lots : lots[i].source = x} :
        /\ \A k \in 0 .. PaidPoints[s] - 1 : Cardinality(L(s, TRUE, k)) + Cardinality(U(s, TRUE, k)) = 1
        /\ \A k \in 0 .. BonusPoints[s] - 1 : Cardinality(L(s, FALSE, k)) + Cardinality(U(s, FALSE, k)) = 1
  BY <1>5, <1>6, Zenon DEF yes, no
<1> QED BY <1>1, <1>7, Zenon DEF EveryPointIsTraced, L, U

-----------------------------------------------------------------------------
(* What the store says.                                                  *)

\* The inductive invariant: the wallet goes with the charges, and the ledger with the cash.
PointsInv == WalletInv /\ RevenueInv

\* At first there are no points.
LEMMA WalletInitially ==
  ASSUME CashInit
  PROVE  WalletInv
<1> DEFINE w == pointWallet
<1>1. /\ w = [balance |-> 0, lots |-> <<>>, uses |-> {},
              debt |-> [p \in StorePurchases |-> [paid |-> 0, bonus |-> 0]]]
      /\ charge = [c \in TopUps |-> "none"] /\ reserves = [c \in TopUps |-> 0]
      /\ receipt = [p \in StorePurchases |-> [status |-> "none", observed |-> 0, refundedPoints |-> 0]]
  BY DEF CashInit
<1>2. charge \in ChargeStates /\ reserves \in ReserveCounts /\ receipt \in Receipts
  BY <1>1 DEF ChargeStates, ReserveCounts, Receipts
<1>3. /\ w.balance = 0 /\ w.lots = <<>> /\ w.uses = {}
      /\ w.debt = [p \in StorePurchases |-> [paid |-> 0, bonus |-> 0]]
  BY <1>1
<1>4. w.lots \in Seq(CashLots) /\ DOMAIN w.lots = {}
  BY <1>3
<1>5. w.debt \in Debts
  BY <1>3 DEF Debts
<1>6. w.balance = Remaining(w.lots, DOMAIN w.lots)
  BY <1>3, <1>4, SumOfNothing DEF Remaining
<1>7. \A s : ~HasLots(w.lots, s)
  BY <1>4 DEF HasLots
<1>8. w \in Wallets
  BY <1>1, <1>3, <1>4, <1>5 DEF Wallets
<1>9. IsFiniteSet(w.uses)
  BY <1>3, FS_EmptySet
<1>10. WithinSources(w.lots, w.uses)
  BY <1>3, <1>4 DEF WithinSources
<1>11. \A given : Traced(w.lots, w.uses, given)
  BY <1>7 DEF Traced
<1> HIDE DEF w
<1>12. \A given : GoodWallet(w, given)
  BY <1>6, <1>8, <1>9, <1>10, <1>11 DEF GoodWallet
<1>13. \A c \in TopUps : charge[c] = "none" /\ reserves[c] = 0
  BY <1>1
<1>14. WalletRight(w, charge, reserves)
  BY <1>3, <1>7, <1>12, <1>13 DEF WalletRight
<1> QED BY <1>2, <1>14 DEF WalletInv, w

\* A store purchase is not a charge.
LEMMA PurchasesAreNotTopUps ==
  ASSUME NEW p \in StorePurchases
  PROVE  p \in Sources /\ p \notin TopUps
<1>1. p \in Nat /\ TopUps \cap Nat = {}
  BY AmountsAssumption DEF StorePurchases
<1> QED BY <1>1 DEF Sources

\* apply, whatever the store said, in whatever order it was heard.
LEMMA ApplyKeepsPoints ==
  ASSUME PointsInv, NEW p \in StorePurchases, NEW at \in 0 .. Len(StoreRefunds[p]),
         NEW net \in {Unknown, Net[p]}, Apply(p, at, net)
  PROVE  PointsInv'
<1> DEFINE w        == pointWallet
           state    == StatusAt(p, at)
           was      == receipt[p]
           credited == \E i \in DOMAIN w.lots : w.lots[i].source = p
           topped   == IF ~credited /\ state = "active" THEN Credit(w, p) ELSE w
           points   == Reclaimed(p, state, RefundedAt(p, at))
           more     == points - was.refundedPoints
           paid     == PaidPart(p, points) - PaidPart(p, was.refundedPoints)
           owed     == [paid |-> topped.debt[p].paid + paid, bonus |-> topped.debt[p].bonus + more - paid]
           owing    == IF more > 0 THEN [topped EXCEPT !.debt[p] = [paid  |-> @.paid + paid,
                                                                    bonus |-> @.bonus + more - paid]]
                       ELSE topped
           delivered == credited \/ state = "active"
           r        == RefundedAt(p, at)
           Right(x) == WalletRight(x, charge, reserves)
<1>1. /\ receipt' = [receipt EXCEPT ![p] =
           [status |-> state, observed |-> at,
            refundedPoints |-> IF delivered /\ more > 0 THEN points ELSE @.refundedPoints]]
      /\ pointWallet' = IF delivered THEN SettleDebts(owing) ELSE w
      /\ SyncCash(p, r, IF r = 0 THEN net ELSE Unknown)
      /\ UNCHANGED <<charge, reserves, unlocked, termVars>>
  BY DEF Apply
<1>2. /\ charge \in ChargeStates /\ reserves \in ReserveCounts /\ receipt \in Receipts /\ Right(w)
      /\ RevenueInv
  BY DEF PointsInv, WalletInv
<1>3. p \in Sources /\ p \notin TopUps
  BY PurchasesAreNotTopUps
<1>4. r \in Nat /\ r <= Gross[p] /\ Gross[p] \in Nat
  BY StoreRefundsAreAmounts
<1>5. points \in Nat /\ was.refundedPoints \in Nat
  BY <1>2, <1>4, ReclaimedIsNatural DEF Receipts
<1>6. Right(topped)
  <2>1. CASE ~credited /\ state = "active"
    <3>1. ~HasLots(w.lots, p)
      BY <2>1 DEF HasLots
    <3> HIDE DEF w
    <3>2. WalletRight(Credit(w, p), charge, reserves)
      BY <1>2, <1>3, <3>1, CreditKeepsRight
    <3> QED BY <2>1, <3>2
  <2>2. CASE ~(~credited /\ state = "active")
    BY <1>2, <2>2
  <2> QED BY <2>1, <2>2
<1> HIDE DEF topped
<1>7. Right(owing)
  <2>1. CASE more > 0
    <3>1. paid \in Nat /\ paid <= more /\ more \in Nat
      <4>1. was.refundedPoints <= points
        BY <1>5, <2>1
      <4>2. paid \in Nat /\ paid <= points - was.refundedPoints
        BY <1>5, <4>1, PaidPartGrows
      <4> HIDE DEF paid
      <4> QED BY <1>5, <2>1, <4>2
    <3> HIDE DEF paid, more
    <3>2. topped.debt[p].paid \in Nat /\ topped.debt[p].bonus \in Nat
      BY <1>6 DEF WalletRight, GoodWallet, Wallets, Debts
    <3>3. owed \in [paid : Nat, bonus : Nat]
      BY SMTT(60), <3>1, <3>2
    <3>4. [topped EXCEPT !.debt[p] = [paid  |-> @.paid + paid, bonus |-> @.bonus + more - paid]]
            = [topped EXCEPT !.debt[p] = owed]
      OBVIOUS
    <3> HIDE DEF owed
    <3>5. WalletRight([topped EXCEPT !.debt[p] = owed], charge, reserves)
      BY <1>2, <1>6, <3>3, OwingKeepsRight
    <3> QED BY <2>1, <3>4, <3>5
  <2>2. CASE ~(more > 0)
    BY <1>6, <2>2
  <2> QED BY <2>1, <2>2
<1> HIDE DEF owing
<1>8. Right(SettleDebts(owing))
  BY <1>2, <1>7, SettleKeepsRight
<1>9. Right(pointWallet')
  BY <1>1, <1>2, <1>8
<1>10. receipt' \in Receipts
  <2>1. state \in {"none", "active", "refunded"}
    BY DEF StatusAt
  <2>2. at \in Nat
    OBVIOUS
  <2> HIDE DEF state, more, points, delivered
  <2>3. (IF delivered /\ more > 0 THEN points ELSE receipt[p].refundedPoints) \in Nat
    BY <1>5
  <2> DEFINE x == IF delivered /\ more > 0 THEN points ELSE receipt[p].refundedPoints
  <2>4. receipt' = [receipt EXCEPT ![p] = [status |-> state, observed |-> at, refundedPoints |-> x]]
    BY <1>1
  <2>5. x \in Nat
    BY <2>3
  <2> HIDE DEF x
  <2> QED BY <1>2, <2>1, <2>2, <2>4, <2>5 DEF Receipts
<1>11. WalletInv'
  BY <1>1, <1>2, <1>9, <1>10 DEF WalletInv
<1>12. RevenueInv'
  <2> DEFINE m == IF r = 0 THEN net ELSE Unknown
  <2>1. m \in {Unknown} \cup 0 .. Gross[p]
    BY <1>3, AmountsAssumption
  <2>2. SyncCash(p, r, m) /\ UNCHANGED <<termVars, unlocked>>
    BY <1>1
  <2> HIDE DEF m, r
  <2> QED BY <1>2, <1>3, <1>4, <2>1, <2>2, SyncKeepsRevenue
<1> QED BY <1>11, <1>12 DEF PointsInv

-----------------------------------------------------------------------------
(* Every step.                                                           *)

\* What leaves the wallet, the charges and the receipts alone keeps them right.
LEMMA QuietKeepsWallet ==
  ASSUME WalletInv, UNCHANGED <<charge, reserves, receipt, pointWallet>>
  PROVE  WalletInv'
BY DEF WalletInv

\* fulfillOrder of a top-up.
LEMMA PayKeepsPoints ==
  ASSUME PointsInv, NEW c \in TopUps, PayTopup(c)
  PROVE  PointsInv'
<1> DEFINE w == pointWallet
           ch == charge
           after == charge'
           rs == reserves
<1>1. /\ ch[c] = "none" /\ after = [ch EXCEPT ![c] = "paid"] /\ w' = SettleDebts(Credit(w, c))
      /\ SyncCash(c, 0, Unknown) /\ UNCHANGED <<receipt, reserves, unlocked, termVars>>
  BY DEF PayTopup, storeVars
<1>2. /\ ch \in ChargeStates /\ rs \in ReserveCounts /\ receipt \in Receipts /\ WalletRight(w, ch, rs)
      /\ RevenueInv
  BY DEF PointsInv, WalletInv
<1>3. c \in Sources /\ after \in ChargeStates /\ after[c] # "none"
  BY <1>1, <1>2 DEF Sources, ChargeStates
<1> DEFINE w2 == w'
<1>4. WalletRight(w2, after, rs)
  <2> HIDE DEF w, ch, after, rs
  <2>1. WalletRight(w, after, rs) /\ ~HasLots(w.lots, c)
    BY <1>1, <1>2, PaymentKeepsRight
  <2>2. WalletRight(Credit(w, c), after, rs)
    BY <1>2, <1>3, <2>1, CreditKeepsRight
  <2>3. WalletRight(SettleDebts(Credit(w, c)), after, rs)
    BY <1>2, <1>3, <2>2, SettleKeepsRight
  <2> QED BY <1>1, <2>3
<1>5. WalletInv'
  BY <1>1, <1>2, <1>3, <1>4 DEF WalletInv
<1>6. RevenueInv'
  <2>1. /\ Unknown \in {Unknown} \cup 0 .. Gross[c] /\ 0 \in Nat /\ 0 <= Gross[c]
    BY <1>3, AmountsAssumption
  <2> QED BY <1>1, <1>2, <1>3, <2>1, SyncKeepsRevenue
<1> QED BY <1>5, <1>6 DEF PointsInv

\* reserveTopupPoints.
LEMMA ReserveKeepsPoints ==
  ASSUME PointsInv, NEW c \in TopUps, ReservePoints(c)
  PROVE  PointsInv'
<1> DEFINE w == pointWallet
           v == pointWallet'
           ch == charge
           after == charge'
           rs == reserves
           counts == reserves'
           n == PaidPoints[c] + BonusPoints[c]
<1>1. /\ ch[c] = "paid" /\ n <= w.balance /\ after = [ch EXCEPT ![c] = "reserved"]
      /\ counts = [rs EXCEPT ![c] = @ + 1]
      /\ v = Debit(w, <<"reserve", c, rs[c] + 1>>, InOrder(w.lots), n)
      /\ UNCHANGED <<receipt, unlocked, cash, revenueVars, termVars>>
  <2>1. w.balance >= n => n <= w.balance
    <3>1. w.balance \in Nat
      BY DEF PointsInv, WalletInv, WalletRight, GoodWallet, Wallets
    <3>2. n \in Nat
      BY AmountsAssumption DEF Sources
    <3> HIDE DEF n
    <3> QED BY <3>1, <3>2
  <2> QED BY <2>1 DEF ReservePoints, storeVars
<1>2. /\ ch \in ChargeStates /\ rs \in ReserveCounts /\ receipt \in Receipts /\ WalletRight(w, ch, rs)
      /\ RevenueInv
  BY DEF PointsInv, WalletInv
<1>3. after \in ChargeStates /\ counts \in ReserveCounts
  BY <1>1, <1>2 DEF ChargeStates, ReserveCounts
<1>4. WalletRight(v, after, counts)
  <2> HIDE DEF w, v, ch, after, rs, counts
  <2> QED BY <1>1, <1>2, ReserveKeepsRight
<1>5. WalletInv'
  BY <1>1, <1>2, <1>3, <1>4 DEF WalletInv
<1>6. RevenueInv'
  <2>1. TermsAreRight'
    BY <1>1, <1>2 DEF RevenueInv, TermsAreRight, termVars
  <2> QED BY <1>1, <1>2, <2>1, QuietKeepsRevenue DEF termVars
<1> QED BY <1>5, <1>6 DEF PointsInv

\* releaseTopupPointsIfNeeded.
LEMMA ReleaseKeepsPoints ==
  ASSUME PointsInv, NEW c \in TopUps, ReleasePoints(c)
  PROVE  PointsInv'
<1> DEFINE w == pointWallet
           v == pointWallet'
           ch == charge
           after == charge'
           rs == reserves
           R == ReservedUses(w, c, rs[c])
<1>1. Returned(c) = R
  BY DEF Returned, ReservedUses
<1>2. PICK turn : /\ IsTurn(turn, R)
                  /\ v = [w EXCEPT !.balance = @ + PaidPoints[c] + BonusPoints[c],
                                   !.lots = @ \o LotsBack(turn)]
  <2> DEFINE Q == Returned(c)
  <2>1. PICK turn \in [1 .. Cardinality(Q) -> Q] :
          /\ \A u \in Q : \E i \in DOMAIN turn : turn[i] = u
          /\ v = [w EXCEPT !.balance = @ + PaidPoints[c] + BonusPoints[c],
                           !.lots = @ \o [i \in DOMAIN turn |->
                             [source |-> turn[i].source, paid |-> turn[i].paid, start |-> turn[i].start,
                              points |-> turn[i].points, remaining |-> turn[i].points]]]
    BY Zenon DEF ReleasePoints
  <2>2. IsTurn(turn, Q)
    BY <2>1 DEF IsTurn
  <2>3. v = [w EXCEPT !.balance = @ + PaidPoints[c] + BonusPoints[c], !.lots = @ \o LotsBack(turn)]
    BY <2>1, Zenon DEF LotsBack
  <2>4. Q = R
    BY <1>1
  <2> HIDE DEF Q, R
  <2> QED BY <2>2, <2>3, <2>4
<1>3. /\ ch[c] = "reserved" /\ after = [ch EXCEPT ![c] = "paid"]
      /\ UNCHANGED <<receipt, reserves, unlocked, cash, revenueVars, termVars>>
  BY DEF ReleasePoints, storeVars
<1>4. /\ ch \in ChargeStates /\ rs \in ReserveCounts /\ receipt \in Receipts /\ WalletRight(w, ch, rs)
      /\ RevenueInv
  BY DEF PointsInv, WalletInv
<1>5. after \in ChargeStates
  BY <1>3, <1>4 DEF ChargeStates
<1>6. v = GivenPointsBack(w, PaidPoints[c] + BonusPoints[c], LotsBack(turn))
  <2>1. w.balance \in Nat /\ PaidPoints[c] \in Nat /\ BonusPoints[c] \in Nat
    BY <1>4, AmountsAssumption DEF WalletRight, GoodWallet, Wallets, Sources
  <2>2. w.balance + PaidPoints[c] + BonusPoints[c] = w.balance + (PaidPoints[c] + BonusPoints[c])
    BY <2>1
  <2> QED BY <1>2, <2>2 DEF GivenPointsBack
<1>7. WalletRight(v, after, rs)
  <2>1. R = ReservedUses(w, c, rs[c])
    OBVIOUS
  <2> HIDE DEF w, v, ch, after, rs, R
  <2>2. ch \in ChargeStates /\ rs \in ReserveCounts /\ WalletRight(w, ch, rs)
    BY <1>4
  <2>3. ch[c] = "reserved" /\ after = [ch EXCEPT ![c] = "paid"] /\ c \in TopUps
    BY <1>3
  <2>4. IsTurn(turn, R)
    BY <1>2
  <2> QED BY ONLY <1>6, <2>1, <2>2, <2>3, <2>4, ReleaseKeepsRight
<1>8. WalletInv'
  BY <1>3, <1>4, <1>5, <1>7 DEF WalletInv
<1>9. RevenueInv'
  <2>1. TermsAreRight'
    BY <1>3, <1>4 DEF RevenueInv, TermsAreRight, termVars
  <2> QED BY <1>3, <1>4, <2>1, QuietKeepsRevenue DEF termVars
<1> QED BY <1>8, <1>9 DEF PointsInv

\* A refund that succeeded.
LEMMA RefundKeepsPoints ==
  ASSUME PointsInv, NEW c \in TopUps, RefundSucceeds(c)
  PROVE  PointsInv'
<1> DEFINE w == pointWallet
           ch == charge
           after == charge'
           rs == reserves
<1>1. /\ ch[c] = "reserved" /\ after = [ch EXCEPT ![c] = "refunded"]
      /\ SyncCash(c, Gross[c], Unknown)
      /\ UNCHANGED <<receipt, reserves, pointWallet, unlocked, termVars>>
  BY DEF RefundSucceeds, storeVars
<1>2. /\ ch \in ChargeStates /\ rs \in ReserveCounts /\ receipt \in Receipts /\ WalletRight(w, ch, rs)
      /\ RevenueInv
  BY DEF PointsInv, WalletInv
<1>3. c \in Sources /\ after \in ChargeStates
  BY <1>1, <1>2 DEF Sources, ChargeStates
<1>4. WalletRight(w, after, rs)
  <2> HIDE DEF w, ch, after, rs
  <2> QED BY <1>1, <1>2, SuccessKeepsRight
<1>5. WalletInv'
  BY <1>1, <1>2, <1>3, <1>4 DEF WalletInv
<1>6. RevenueInv'
  <2>1. Gross[c] \in Nat /\ Gross[c] <= Gross[c] /\ Unknown \in {Unknown} \cup 0 .. Gross[c]
    BY <1>3, AmountsAssumption
  <2> QED BY <1>1, <1>2, <1>3, <2>1, SyncKeepsRevenue
<1> QED BY <1>5, <1>6 DEF PointsInv

\* unlock: the debts first, then the price, then the revenue of what was drawn.
LEMMA UnlockKeepsPoints ==
  ASSUME PointsInv, NEW t \in Titles, Unlock(t)
  PROVE  PointsInv'
<1> DEFINE w == SettleDebts(pointWallet)
           v == pointWallet'
           n == Price[t]
           draw == Draw(w.lots, InOrder(w.lots), n)
           r == Sold(t, w.lots, draw)
           given == GivenBack(charge, reserves)
<1>1. /\ t \notin unlocked /\ w.balance >= n /\ unlocked' = unlocked \cup {t}
      /\ v = Debit(w, <<"unlock", t, 0>>, InOrder(w.lots), n)
      /\ Keep(r) /\ UNCHANGED <<receipt, charge, reserves, cash, termVars>>
  BY DEF Unlock, storeVars
<1>2. /\ charge \in ChargeStates /\ reserves \in ReserveCounts /\ receipt \in Receipts
      /\ WalletRight(pointWallet, charge, reserves) /\ RevenueInv
  BY DEF PointsInv, WalletInv
<1>3. WalletRight(w, charge, reserves)
  BY <1>2, SettleKeepsRight
<1> HIDE DEF w
<1>4. GoodWallet(w, given)
  BY <1>3 DEF WalletRight
<1> HIDE DEF given
<1>5. /\ w.lots \in Seq(CashLots) /\ w.balance \in Nat /\ WithinSources(w.lots, w.uses)
      /\ Traced(w.lots, w.uses, given)
  BY <1>4 DEF GoodWallet, Wallets
<1>6. n \in Nat /\ n <= w.balance
  <2>1. n \in Nat
    BY AmountsAssumption
  <2> HIDE DEF n
  <2> QED BY <1>1, <1>5, <2>1
<1>7. WalletRight(v, charge, reserves)
  <2> HIDE DEF n, v
  <2> QED BY <1>1, <1>2, <1>3, <1>6, UnlockKeepsRight
<1>8. WalletInv'
  BY <1>1, <1>2, <1>7 DEF WalletInv
<1>9. /\ Len(w.lots) \in Nat /\ DOMAIN w.lots = 1 .. Len(w.lots)
      /\ \A i \in DOMAIN w.lots : w.lots[i].source \in Sources /\ w.lots[i].paid \in BOOLEAN
                                  /\ w.lots[i].remaining \in Nat
  BY <1>5, LotsAreTyped
<1> HIDE DEF n
<1>10. \A i \in DOMAIN w.lots : draw[i] \in Nat /\ draw[i] <= w.lots[i].remaining
  BY <1>5, <1>6, DrawsAreCovered
<1>11. \A i \in DOMAIN w.lots : Position(w.lots[i]) \in Nat
  BY <1>5, PositionsAreNatural
<1> HIDE DEF draw
<1>12. \A i \in 1 .. Len(w.lots) : /\ draw[i] \in Nat /\ w.lots[i].source \in Sources
                                   /\ w.lots[i].paid \in BOOLEAN /\ Position(w.lots[i]) \in Nat
  BY <1>9, <1>10, <1>11
<1>13. \A i, j \in 1 .. Len(w.lots) :
          /\ i # j /\ draw[i] > 0 /\ draw[j] > 0 /\ w.lots[i].paid /\ w.lots[j].paid
          /\ w.lots[i].source = w.lots[j].source
          => Position(w.lots[i]) # Position(w.lots[j])
  <2> SUFFICES ASSUME NEW i \in 1 .. Len(w.lots), NEW j \in 1 .. Len(w.lots),
                      draw[i] > 0, draw[j] > 0, w.lots[i].paid, w.lots[j].paid,
                      w.lots[i].source = w.lots[j].source, Position(w.lots[i]) = Position(w.lots[j])
               PROVE  i = j
    OBVIOUS
  <2>1. i \in DOMAIN w.lots /\ j \in DOMAIN w.lots
    BY <1>9
  <2>2. w.lots[i].remaining > 0 /\ w.lots[j].remaining > 0
    BY <1>9, <1>10, <2>1
  <2>3. w.lots[i].paid = w.lots[j].paid
    BY <1>9, <2>1
  <2>4. w.lots[i].source = w.lots[j].source /\ Position(w.lots[i]) = Position(w.lots[j])
    OBVIOUS
  <2>5. w.lots[i].remaining > 0
    BY <2>2
  <2>6. w.lots[j].remaining > 0
    BY <2>2
  <2>7. i \in DOMAIN w.lots
    BY <2>1
  <2>8. j \in DOMAIN w.lots
    BY <2>1
  <2> QED BY ONLY <1>5, <2>3, <2>4, <2>5, <2>6, <2>7, <2>8, LotsStandApart
<1>14. SoldFairly(r) /\ \A e \in r.events : e.title \in unlocked \cup {t}
  BY <1>1, <1>2, <1>9, <1>12, <1>13, SoldKeepsFair
<1> HIDE DEF r
<1>15. RevenueInv'
  <2>1. revenues' = r.events /\ book' = r.book
    BY <1>1 DEF Keep
  <2> DEFINE q == [events |-> revenues', book |-> book']
  <2>2. q.events = r.events /\ q.book = r.book
    BY <2>1
  <2>3. Revenue' = q
    BY DEF Revenue
  <2> HIDE DEF q
  <2>4. FairBook(q) /\ Exact(q, cash) /\ MonthsAreRight(q, closed)
    BY <1>14, <2>2, SameFields DEF SoldFairly
  <2>5. cash' = cash /\ closed' = closed /\ basis' = basis /\ share' = share /\ month' = month
    BY <1>1 DEF termVars
  <2>6. FairBook(Revenue') /\ Exact(Revenue', cash') /\ MonthsAreRight(Revenue', closed')
    BY <2>3, <2>4, <2>5
  <2>7. CashAmounts(cash)' /\ TermsAreRight'
    BY <1>2, <2>5 DEF RevenueInv, TermsAreRight, CashAmounts
  <2>8. \A e \in revenues' : e.title \in unlocked'
    BY <1>1, <1>14, <2>1
  <2> QED BY <2>6, <2>7, <2>8 DEF RevenueInv, FairBook, Exact, MonthsAreRight
<1> QED BY <1>8, <1>15 DEF PointsInv

\* The store, headquarters and time.
LEMMA OthersKeepPoints ==
  ASSUME PointsInv,
         \/ \E p \in StorePurchases : RefundAtStore(p)
         \/ ConfigureBasis \/ UpsertPolicy \/ Reconcile \/ NextMonth
         \/ \E s \in Sources : AttachNetStatement(s)
         \/ \E m \in Months : SettleMonth(m)
         \/ UNCHANGED cashVars
  PROVE  PointsInv'
<1>1. WalletInv /\ RevenueInv
  BY DEF PointsInv
<1>2. UNCHANGED <<charge, reserves, receipt, pointWallet>>
  BY DEF RefundAtStore, ConfigureBasis, UpsertPolicy, Reconcile, NextMonth, AttachNetStatement,
         SettleMonth, cashVars, storeVars
<1>3. WalletInv'
  BY <1>1, <1>2, QuietKeepsWallet
<1>4. CASE (\E p \in StorePurchases : RefundAtStore(p)) \/ UNCHANGED cashVars
  <2>1. UNCHANGED <<unlocked, cash, revenueVars, termVars>>
    BY <1>4 DEF RefundAtStore, cashVars
  <2>2. TermsAreRight'
    BY <1>1, <2>1 DEF RevenueInv, TermsAreRight, termVars
  <2>3. RevenueInv'
    BY <1>1, <2>1, <2>2, QuietKeepsRevenue DEF termVars
  <2> QED BY <1>3, <2>3 DEF PointsInv
<1>5. CASE ConfigureBasis \/ UpsertPolicy \/ NextMonth
  BY <1>1, <1>3, <1>5, TermsKeepRevenue DEF PointsInv
<1>6. CASE Reconcile
  BY <1>1, <1>3, <1>6, ReconcileKeepsRevenue DEF PointsInv
<1>7. CASE \E s \in Sources : AttachNetStatement(s)
  BY <1>1, <1>3, <1>7, AttachKeepsRevenue DEF PointsInv
<1>8. CASE \E m \in Months : SettleMonth(m)
  BY <1>1, <1>3, <1>8, SettleKeepsRevenue DEF PointsInv
<1> QED BY <1>4, <1>5, <1>6, <1>7, <1>8

\* The invariant says all that the property asks.
LEMMA PointsInvHolds == PointsInv => PointsAreAccountedFor
<1> SUFFICES ASSUME PointsInv PROVE PointsAreAccountedFor
  OBVIOUS
<1>1. EveryPointIsTraced
  BY RightWalletIsTraced DEF PointsInv
<1>2. NoPartyIsOvercharged
  BY FairOverchargesNobody DEF PointsInv, RevenueInv
<1>3. OnlyTheExcessIsClawedBack
  BY FairClawsBackTheExcess DEF PointsInv, RevenueInv
<1>4. ClosedMonthsAreSettled
  BY RightMonthsAreSettled DEF PointsInv, RevenueInv
<1> QED BY <1>1, <1>2, <1>3, <1>4 DEF PointsAreAccountedFor, RefundsAreFair

\* Whatever the store refunds, says twice or says late, whatever is reserved, released,
\* unlocked and settled: every point is in one lot or in the one use that took it, what
\* refunds claw back is the excess only, no party is charged more than it was given, and
\* closed months stay closed.
THEOREM PointsStayAccountedFor == CashSpec => []PointsAreAccountedFor
<1>1. CashInit => PointsInv
  BY WalletInitially, RevenueInitially DEF PointsInv
<1>2. PointsInv /\ [CashNext]_cashVars => PointsInv'
  <2> SUFFICES ASSUME PointsInv, [CashNext]_cashVars PROVE PointsInv'
    OBVIOUS
  <2>1. CASE \E p \in StorePurchases :
             \E at \in 0 .. Len(StoreRefunds[p]), net \in {Unknown, Net[p]} : Apply(p, at, net)
    BY <2>1, ApplyKeepsPoints
  <2>2. CASE \E c \in TopUps : PayTopup(c)
    BY <2>2, PayKeepsPoints
  <2>3. CASE \E c \in TopUps : ReservePoints(c)
    BY <2>3, ReserveKeepsPoints
  <2>4. CASE \E c \in TopUps : ReleasePoints(c)
    BY <2>4, ReleaseKeepsPoints
  <2>5. CASE \E c \in TopUps : RefundSucceeds(c)
    BY <2>5, RefundKeepsPoints
  <2>6. CASE \E t \in Titles : Unlock(t)
    BY <2>6, UnlockKeepsPoints
  <2>7. CASE \/ \E p \in StorePurchases : RefundAtStore(p)
             \/ ConfigureBasis \/ UpsertPolicy \/ Reconcile \/ NextMonth
             \/ \E s \in Sources : AttachNetStatement(s)
             \/ \E m \in Months : SettleMonth(m)
             \/ UNCHANGED cashVars
    BY <2>7, OthersKeepPoints
  <2> QED BY <2>1, <2>2, <2>3, <2>4, <2>5, <2>6, <2>7 DEF CashNext
<1>3. PointsInv => PointsAreAccountedFor
  BY PointsInvHolds
<1> QED BY <1>1, <1>2, <1>3, PTL DEF CashSpec

=============================================================================
