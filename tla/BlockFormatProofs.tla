-------------------------- MODULE BlockFormatProofs --------------------------
(***************************************************************************)
(* The format of the lines, for any number of symbols and any width of the *)
(* words.  The structure of a move-to-front code is a list of the symbols, *)
(* and encoding and decoding move the same symbol to the front; an Elias   *)
(* code that stands in the bits is read back, and the zeros that fill the  *)
(* last byte are the end; a line is a chain of codes, and the decoder      *)
(* counts and reads them.                                                  *)
(***************************************************************************)
EXTENDS BlockFormat, WellFoundedInduction, TLAPS

-----------------------------------------------------------------------------

\* Induction on numbers: of a set of them one is least.
LEMMA Least ==
  ASSUME NEW T, T \subseteq Nat, T # {}
  PROVE  \E n \in T : \A k \in T : n <= k
<1>1. PICK n \in T : \A k \in T : ~ (<<k, n>> \in OpToRel(<, Nat))
  BY NatLessThanWellFounded, WFMin
<1>2. n \in Nat /\ \A k \in T : k \in Nat /\ ~(k < n)
  BY <1>1 DEF OpToRel
<1> QED
  BY <1>2

\* Induction up to n: a set that holds 0 and the successor of all it holds, up to n.
LEMMA InductionUpTo ==
  ASSUME NEW n \in Nat, NEW T, 0 \in T, \A k \in 1..n : k - 1 \in T => k \in T
  PROVE  \A k \in 0..n : k \in T
<1> DEFINE Bad == {k \in 0..n : k \notin T}
<1>1. Bad = {}
  <2> SUFFICES ASSUME Bad # {} PROVE FALSE
    OBVIOUS
  <2>1. Bad \subseteq Nat
    OBVIOUS
  <2>2. PICK k \in Bad : \A i \in Bad : k <= i
    <3> HIDE DEF Bad
    <3> QED
      BY <2>1, Least
  <2>3. k \in 0..n /\ k \notin T /\ k # 0
    BY <2>2
  <2>4. k \in 1..n /\ k - 1 \in 0..n /\ ~(k <= k - 1)
    BY <2>3
  <2>5. k - 1 \notin Bad
    BY <2>2, <2>4
  <2>6. k - 1 \in T
    BY <2>4, <2>5
  <2> QED
    BY <2>3, <2>4, <2>6
<1> QED
  BY <1>1

\* A function that is defined by recursion on the numbers up to n exists.
Recurs(g, n, S, a, F) ==
  g \in [0..n -> S] /\ g[0] = a /\ \A k \in 1..n : g[k] = F[<<g[k - 1], k>>]
\* A function on 0..n defined from the value before has a value of S everywhere.
LEMMA Recursion ==
  ASSUME NEW n \in Nat, NEW S, NEW a \in S, NEW F \in [S \X (1..n) -> S]
  PROVE  \E g : Recurs(g, n, S, a, F)
<1> DEFINE Good(g, k) == g[0] = a /\ \A i \in 1..k : g[i] = F[<<g[i - 1], i>>]
           T == {k \in 0..n : \E g \in [0..n -> S] : Good(g, k)}
<1>1. 0 \in T
  <2> DEFINE g == [k \in 0..n |-> a]
  <2>1. g \in [0..n -> S] /\ Good(g, 0)
    OBVIOUS
  <2>2. 0 \in 0..n
    OBVIOUS
  <2> HIDE DEF Good, g
  <2> QED
    BY <2>1, <2>2
<1>2. ASSUME NEW k \in 1..n, k - 1 \in T PROVE k \in T
  <2>1. PICK g \in [0..n -> S] : Good(g, k - 1)
    BY <1>2
  <2> DEFINE h == [g EXCEPT ![k] = F[<<g[k - 1], k>>]]
  <2>2. k - 1 \in 0..n /\ k \in 0..n /\ k # 0 /\ 0 \in 0..n
    OBVIOUS
  <2>3. g[k - 1] \in S /\ F[<<g[k - 1], k>>] \in S
    BY <2>2
  <2>4. h \in [0..n -> S] /\ h[k] = F[<<g[k - 1], k>>] /\ \A i \in 0..n : i # k => h[i] = g[i]
    BY <2>2, <2>3
  <2> HIDE DEF h
  <2>5. h[0] = a
    BY <2>1, <2>2, <2>4
  <2>6. ASSUME NEW i \in 1..k PROVE h[i] = F[<<h[i - 1], i>>]
    <3>1. i - 1 \in 0..n /\ i - 1 # k /\ i \in 0..n
      OBVIOUS
    <3>2. h[i - 1] = g[i - 1]
      BY <2>4, <3>1
    <3>3. CASE i = k
      BY <2>4, <3>2, <3>3
    <3>4. CASE i # k
      <4>1. i \in 1..(k - 1)
        BY <3>4
      <4> QED
        BY <2>1, <2>4, <3>1, <3>2, <3>4, <4>1
    <3> QED
      BY <3>3, <3>4
  <2>7. Good(h, k)
    BY <2>5, <2>6
  <2> HIDE DEF Good
  <2> QED
    BY <2>2, <2>4, <2>7
<1>3. n \in T
  <2>1. n \in 0..n
    OBVIOUS
  <2> HIDE DEF T
  <2> QED
    BY <1>1, <1>2, <2>1, InductionUpTo
<1>4. PICK g \in [0..n -> S] : Good(g, n)
  BY <1>3
<1> QED
  BY <1>4 DEF Recurs

\* So does one that was found otherwise.
LEMMA RecursionTyped ==
  ASSUME NEW n \in Nat, NEW S, NEW g, g[0] \in S, \A k \in 1..n : g[k - 1] \in S => g[k] \in S
  PROVE  \A k \in 0..n : g[k] \in S
<1> DEFINE T == {k \in 0..n : g[k] \in S}
<1>1. 0 \in T /\ \A k \in 1..n : k - 1 \in T => k \in T
  OBVIOUS
<1>2. \A k \in 0..n : k \in T
  <2> HIDE DEF T
  <2> QED
    BY <1>1, InductionUpTo
<1> QED
  BY <1>2

-------------------------------------------------------------------------------
(* Powers of two and division                                              *)

\* Power doubles.
LEMMA PowerIs ==
  /\ Power[0] = 1
  /\ \A n \in 0..MaxLog : Power[n + 1] = 2 * Power[n]
  /\ \A n \in 0..MaxLog + 1 : Power[n] \in Nat \ {0} /\ n < Power[n]
<1>1. MaxLog \in Nat /\ MaxLog + 1 \in Nat
  BY FormatAssumption
<1>2. \E g : g = [n \in 0..MaxLog + 1 |-> IF n = 0 THEN 1 ELSE 2 * g[n - 1]]
  <2> DEFINE M == MaxLog + 1
             F == [p \in Nat \X (1..M) |-> 2 * p[1]]
  <2>1. M \in Nat
    BY <1>1
  <2>2. F \in [Nat \X (1..M) -> Nat]
    OBVIOUS
  <2>3. \A x \in Nat, k \in 1..M : F[<<x, k>>] = 2 * x
    OBVIOUS
  <2> HIDE DEF M, F
  <2>4. PICK g : Recurs(g, M, Nat, 1, F)
    <3>1. 1 \in Nat
      OBVIOUS
    <3> QED
      BY <2>1, <2>2, <3>1, Recursion
  <2>5. g = [k \in 0..M |-> g[k]]
    BY <2>4 DEF Recurs
  <2>6. \A k \in 0..M : g[k] = (IF k = 0 THEN 1 ELSE 2 * g[k - 1])
    <3> SUFFICES ASSUME NEW k \in 0..M, k # 0 PROVE g[k] = 2 * g[k - 1]
      BY <2>4 DEF Recurs
    <3>1. k \in 1..M /\ k - 1 \in 0..M
      BY <2>1
    <3> QED
      BY <2>3, <2>4, <3>1 DEF Recurs
  <2>7. g = [k \in 0..M |-> IF k = 0 THEN 1 ELSE 2 * g[k - 1]]
    BY <2>5, <2>6
  <2> QED
    BY <2>7 DEF M
<1>3. Power = [n \in 0..MaxLog + 1 |-> IF n = 0 THEN 1 ELSE 2 * Power[n - 1]]
  BY <1>2 DEF Power
<1>4. Power[0] = 1 /\ \A n \in 1..MaxLog + 1 : Power[n] = 2 * Power[n - 1]
  BY <1>1, <1>3
<1>5. \A n \in 0..MaxLog + 1 : Power[n] \in Nat \ {0} /\ n < Power[n]
  <2> DEFINE T == {n \in 0..MaxLog + 1 : Power[n] \in Nat \ {0} /\ n < Power[n]}
             M == MaxLog + 1
  <2>1. 0 \in T
    BY <1>1, <1>4
  <2>2. ASSUME NEW k \in 1..M, k - 1 \in T PROVE k \in T
    <3>1. Power[k] = 2 * Power[k - 1] /\ Power[k - 1] \in Nat \ {0} /\ k - 1 < Power[k - 1] /\ k \in 0..M
      BY <1>1, <1>4, <2>2
    <3> DEFINE y == Power[k - 1]
    <3>2. y \in Nat \ {0} /\ k - 1 < y /\ k \in Nat
      BY <3>1, <1>1
    <3> HIDE DEF y
    <3>3. 2 * y \in Nat \ {0} /\ k < 2 * y
      BY <3>2
    <3> QED
      BY <3>1, <3>3 DEF y
  <2>3. M \in Nat
    BY <1>1
  <2> HIDE DEF T, M
  <2>4. \A k \in 0..M : k \in T
    BY <2>1, <2>2, <2>3, InductionUpTo
  <2> QED
    BY <2>4 DEF T, M
<1> QED
  <2>1. \A n \in 0..MaxLog : n + 1 \in 1..MaxLog + 1 /\ (n + 1) - 1 = n
    BY <1>1
  <2> QED
    BY <1>4, <1>5, <2>1

\* The quotient and the rest.
LEMMA Quotient ==
  ASSUME NEW b \in Nat, NEW p \in Nat \ {0}
  PROVE  /\ b \div p \in Nat /\ b % p \in Nat /\ b % p < p
         /\ b = (b \div p) * p + (b % p)
  OBVIOUS

\* There is but one quotient.
LEMMA QuotientIs ==
  ASSUME NEW b \in Nat, NEW p \in Nat \ {0}, NEW q \in Nat, q * p <= b, b < q * p + p
  PROVE  b \div p = q
  OBVIOUS

\* One bit more.
LEMMA Halves ==
  ASSUME NEW b \in Nat, NEW p \in Nat \ {0}
  PROVE  /\ (b \div p) % 2 \in {0, 1}
         /\ b \div p = 2 * (b \div (2 * p)) + ((b \div p) % 2)
<1> DEFINE q == b \div p
           r == b \div (2 * p)
<1>1. q \in Nat /\ q * p <= b /\ b < q * p + p
  BY Quotient
<1>2. q % 2 \in {0, 1} /\ q = 2 * (q \div 2) + (q % 2) /\ q \div 2 \in Nat
  <2> HIDE DEF q
  <2> QED
    BY <1>1
<1> DEFINE h == q \div 2
           e == q % 2
<1>3. h \in Nat /\ e \in {0, 1} /\ q = 2 * h + e
  BY <1>2
<1> HIDE DEF q, h, e
<1>4. h * (2 * p) <= b /\ b < h * (2 * p) + 2 * p
  <2>1. q * p = h * (2 * p) + e * p
    BY <1>3
  <2>2. e * p \in Nat /\ e * p <= p
    BY <1>3
  <2> DEFINE x == h * (2 * p)
             y == e * p
             z == q * p
  <2>3. x \in Nat /\ y \in Nat /\ y <= p /\ z = x + y /\ z <= b /\ b < z + p
    BY <1>1, <1>3, <2>1, <2>2
  <2> HIDE DEF x, y, z
  <2>4. x <= b /\ b < x + 2 * p
    BY <2>3
  <2> QED
    BY <2>4 DEF x
<1>5. b \div (2 * p) = h
  <2>1. 2 * p \in Nat \ {0}
    OBVIOUS
  <2> QED
    BY <1>3, <1>4, <2>1, QuotientIs
<1> QED
  BY <1>3, <1>5 DEF q, e

(* The move-to-front code: what list of symbols the structure stands for.  *)

\* Below a symbol are symbols down to 0.
LEMMA Symbols == Symbol \subseteq Nat /\ 0 \in Symbol /\ \A i \in Symbol : i <= N - 1 /\ (i # 0 => i - 1 \in Symbol)
  BY FormatAssumption DEF Symbol

\* The walk along order (libquantocode.c:271) from the head.
LEMMA NthSteps ==
  ASSUME NEW mtf \in MtfEncoder
  PROVE  /\ Nth(mtf, 0) = mtf.h
         /\ \A k \in 1..N - 1 : Nth(mtf, k) = mtf.order[Nth(mtf, k - 1)]
         /\ \A k \in Symbol : Nth(mtf, k) \in Symbol
<1> DEFINE M == N - 1
           F == [p \in Symbol \X (1..M) |-> mtf.order[p[1]]]
           walk[k \in 0..N - 1] == IF k = 0 THEN mtf.h ELSE mtf.order[walk[k - 1]]
<1>1. M \in Nat /\ Symbol = 0..M /\ M = N - 1
  BY FormatAssumption DEF Symbol
<1>2. mtf.order \in [Symbol -> Symbol] /\ mtf.h \in Symbol
  BY DEF MtfEncoder
<1>3. F \in [Symbol \X (1..M) -> Symbol] /\ \A x \in Symbol, k \in 1..M : F[<<x, k>>] = mtf.order[x]
  <2> HIDE DEF M
  <2> QED
    BY <1>2
<1>4. \E g : g = [k \in 0..N - 1 |-> IF k = 0 THEN mtf.h ELSE mtf.order[g[k - 1]]]
  <2> HIDE DEF F, M
  <2>1. PICK g : Recurs(g, M, Symbol, mtf.h, F)
    BY <1>1, <1>2, <1>3, Recursion
  <2>2. g \in [0..M -> Symbol] /\ g[0] = mtf.h /\ \A k \in 1..M : g[k] = F[<<g[k - 1], k>>]
    BY <2>1 DEF Recurs
  <2>3. g = [k \in 0..M |-> g[k]]
    BY <2>2
  <2>4. \A k \in 0..M : g[k] = IF k = 0 THEN mtf.h ELSE mtf.order[g[k - 1]]
    <3> SUFFICES ASSUME NEW k \in 0..M, k # 0 PROVE g[k] = mtf.order[g[k - 1]]
      BY <2>2
    <3>1. k \in 1..M /\ k - 1 \in 0..M
      BY <1>1
    <3> QED
      BY <1>3, <2>2, <3>1
  <2>5. g = [k \in 0..M |-> IF k = 0 THEN mtf.h ELSE mtf.order[g[k - 1]]]
    BY <2>3, <2>4
  <2> QED
    BY <2>5 DEF M
<1>5. walk = [k \in 0..N - 1 |-> IF k = 0 THEN mtf.h ELSE mtf.order[walk[k - 1]]]
  BY <1>4
<1>6. \A k \in 0..N - 1 : Nth(mtf, k) = walk[k]
  BY DEF Nth
<1> HIDE DEF walk, F
<1>7. walk[0] = mtf.h /\ \A k \in 1..M : walk[k] = mtf.order[walk[k - 1]]
  <2>1. 0 \in 0..N - 1 /\ 1..M \subseteq 0..N - 1 /\ 0 \notin 1..M
    BY <1>1
  <2> QED
    BY <1>5, <2>1
<1> HIDE DEF M
<1>8. \A k \in 0..M : walk[k] \in Symbol
  <2>1. walk[0] \in Symbol /\ \A k \in 1..M : walk[k - 1] \in Symbol => walk[k] \in Symbol
    BY <1>2, <1>7
  <2> QED
    BY <1>1, <2>1, RecursionTyped
<1>9. 0 \in 0..M /\ \A k \in 1..M : k \in 0..M /\ k - 1 \in 0..M
  BY <1>1
<1> QED
  BY <1>1, <1>6, <1>7, <1>8, <1>9

(* mtf is the list f of all symbols, each once. Where order leads from the *)
(* last one does not matter.                                               *)
Listed(mtf, f) ==
  /\ mtf \in MtfEncoder /\ f \in [Symbol -> Symbol]
  /\ \A i, j \in Symbol : f[i] = f[j] => i = j
  /\ \A b \in Symbol : \E i \in Symbol : f[i] = b
  /\ mtf.h = f[0]
  /\ \A i \in Symbol : i # N - 1 => mtf.order[f[i]] = f[i + 1]

Permuted(mtf) == \E f : Listed(mtf, f)
SameList(mtf1, mtf2) == \E f : Listed(mtf1, f) /\ Listed(mtf2, f)

\* It meets the symbols of the list in their order.
LEMMA NthListed ==
  ASSUME NEW mtf, NEW f, Listed(mtf, f)
  PROVE  \A i \in Symbol : Nth(mtf, i) = f[i]
<1> DEFINE T == {i \in Symbol : Nth(mtf, i) = f[i]}
           M == N - 1
<1>1. M \in Nat /\ Symbol = 0..M /\ M = N - 1
  BY FormatAssumption DEF Symbol
<1>2. mtf \in MtfEncoder
  BY DEF Listed
<1>3. 0 \in T
  BY <1>1, <1>2, NthSteps, Symbols DEF Listed
<1>4. ASSUME NEW k \in 1..M, k - 1 \in T PROVE k \in T
  <2>1. k \in Symbol /\ k - 1 \in Symbol /\ k - 1 # N - 1 /\ (k - 1) + 1 = k
    BY <1>1
  <2>2. Nth(mtf, k) = mtf.order[Nth(mtf, k - 1)]
    BY <1>2, NthSteps
  <2>3. Nth(mtf, k - 1) = f[k - 1]
    BY <1>4
  <2>4. mtf.order[f[k - 1]] = f[k]
    BY <2>1 DEF Listed
  <2> QED
    BY <2>1, <2>2, <2>3, <2>4
<1> HIDE DEF T, M
<1>5. \A k \in 0..M : k \in T
  BY <1>1, <1>3, <1>4, InductionUpTo
<1> QED
  BY <1>1, <1>5 DEF T

ToFront(f, i) == [j \in Symbol |-> IF j = 0 THEN f[i] ELSE IF j <= i THEN f[j - 1] ELSE f[j]]

\* A list without repetition stays one when a symbol goes to the front.
LEMMA ToFrontIs ==
  ASSUME NEW f \in [Symbol -> Symbol], NEW i \in Symbol,
         \A k, j \in Symbol : f[k] = f[j] => k = j,
         \A b \in Symbol : \E k \in Symbol : f[k] = b
  PROVE  /\ ToFront(f, i) \in [Symbol -> Symbol]
         /\ \A k, j \in Symbol : ToFront(f, i)[k] = ToFront(f, i)[j] => k = j
         /\ \A b \in Symbol : \E k \in Symbol : ToFront(f, i)[k] = b
<1> DEFINE g == ToFront(f, i)
           from(j) == IF j = 0 THEN i ELSE IF j <= i THEN j - 1 ELSE j
<1>1. \A j \in Symbol : from(j) \in Symbol
  BY Symbols
<1>2. g = [j \in Symbol |-> f[from(j)]]
  BY DEF ToFront
<1>3. \A k, j \in Symbol : from(k) = from(j) => k = j
  BY Symbols
<1>4. \A k \in Symbol : \E j \in Symbol : from(j) = k
  <2> SUFFICES ASSUME NEW k \in Symbol PROVE \E j \in Symbol : from(j) = k
    OBVIOUS
  <2>1. i \in 0..N - 1 /\ k \in 0..N - 1 /\ N \in Nat
    BY FormatAssumption DEF Symbol
  <2>2. CASE k = i
    <3>1. 0 \in Symbol /\ from(0) = k
      BY <2>2, Symbols
    <3> QED
      BY <3>1
  <2>3. CASE k < i
    <3>1. k + 1 \in Symbol /\ from(k + 1) = k
      BY <2>1, <2>3 DEF Symbol
    <3> QED
      BY <3>1
  <2>4. CASE k > i
    <3>1. from(k) = k
      BY <2>1, <2>4
    <3> QED
      BY <3>1
  <2> QED
    BY <2>1, <2>2, <2>3, <2>4
<1> HIDE DEF from
<1>5. g \in [Symbol -> Symbol] /\ \A j \in Symbol : g[j] = f[from(j)]
  BY <1>1, <1>2
<1> HIDE DEF g
<1>6. \A k, j \in Symbol : g[k] = g[j] => k = j
  BY <1>1, <1>3, <1>5
<1>7. \A b \in Symbol : \E k \in Symbol : g[k] = b
  BY <1>4, <1>5
<1> QED
  BY <1>5, <1>6, <1>7 DEF g

\* The three assignments of a move (libquantocode.c:275-280) do that.
LEMMA MovesUp ==
  ASSUME NEW mtf, NEW f, Listed(mtf, f), NEW i \in Symbol, i # 0
  PROVE  Listed(MoveUp(mtf, f[i - 1], f[i]), ToFront(f, i))
<1> DEFINE p == f[i - 1]
           v == f[i]
           next == IF mtf.order[v] = v THEN p ELSE mtf.order[v]
           m == MoveUp(mtf, p, v)
           g == ToFront(f, i)
<1>1. /\ N \in Nat /\ i \in Nat /\ i - 1 \in Symbol /\ i - 1 # i /\ i <= N - 1 /\ 0 \in Symbol
      /\ \A j \in Symbol : j \in Nat /\ j <= N - 1
  BY FormatAssumption DEF Symbol
<1>2. /\ f \in [Symbol -> Symbol] /\ mtf.order \in [Symbol -> Symbol] /\ mtf.h \in Symbol /\ mtf.h = f[0]
      /\ \A k, j \in Symbol : f[k] = f[j] => k = j
      /\ \A j \in Symbol : j # N - 1 => mtf.order[f[j]] = f[j + 1]
  BY DEF Listed, MtfEncoder
<1>3. p \in Symbol /\ v \in Symbol /\ p # v
  BY <1>1, <1>2
<1>4. next \in Symbol
  BY <1>2, <1>3
<1>5. m = [order |-> [mtf.order EXCEPT ![p] = next, ![v] = mtf.h], h |-> v]
  BY DEF MoveUp
<1>6. /\ m.h = v /\ m \in MtfEncoder
      /\ m.order[p] = next /\ m.order[v] = f[0]
      /\ \A x \in Symbol : x # p /\ x # v => m.order[x] = mtf.order[x]
  <2> HIDE DEF p, v, next, m
  <2> QED
    BY <1>2, <1>3, <1>4, <1>5 DEF MtfEncoder
<1>7. \A j \in Symbol : g[j] = IF j = 0 THEN v ELSE IF j <= i THEN f[j - 1] ELSE f[j]
  BY DEF ToFront
<1>8. g \in [Symbol -> Symbol] /\ \A k, j \in Symbol : g[k] = g[j] => k = j
  BY <1>2, ToFrontIs DEF Listed
<1>9. \A b \in Symbol : \E k \in Symbol : g[k] = b
  BY <1>2, ToFrontIs DEF Listed
<1>10. i # N - 1 => next = f[i + 1]
  <2> SUFFICES ASSUME i # N - 1 PROVE next = f[i + 1]
    OBVIOUS
  <2>1. i + 1 \in Symbol /\ i + 1 # i
    BY <1>1 DEF Symbol
  <2>2. mtf.order[v] = f[i + 1] /\ f[i + 1] # f[i]
    BY <1>2, <2>1
  <2> QED
    BY <2>2
<1>11. ASSUME NEW j \in Symbol, j # N - 1 PROVE m.order[g[j]] = g[j + 1]
  <2>1. j + 1 \in Symbol /\ j \in Nat /\ j + 1 # 0
    BY <1>1, <1>11 DEF Symbol
  <2>2. CASE j = 0
    <3>1. g[j] = v /\ g[j + 1] = f[0]
      <4>1. j + 1 <= i /\ (j + 1) - 1 = 0
        BY <1>1, <2>2
      <4> QED
        BY <1>7, <2>1, <2>2, <4>1
    <3> HIDE DEF p, v, next, m, g
    <3> QED
      BY <1>6, <3>1
  <2>3. CASE j # 0 /\ j < i
    <3>1. g[j] = f[j - 1] /\ g[j + 1] = f[j] /\ j - 1 \in Symbol
      <4>1. j <= i /\ j + 1 <= i /\ (j + 1) - 1 = j /\ j - 1 \in Symbol
        BY <1>1, <2>1, <2>3 DEF Symbol
      <4> HIDE DEF g
      <4> QED
        BY <1>7, <2>1, <2>3, <4>1
    <3>2. mtf.order[f[j - 1]] = f[j] /\ f[j - 1] # p /\ f[j - 1] # v /\ f[j - 1] \in Symbol
      <4>1. j - 1 # N - 1 /\ j - 1 # i - 1 /\ j - 1 # i /\ (j - 1) + 1 = j
        BY <1>1, <2>1, <2>3
      <4> QED
        BY <1>1, <1>2, <3>1, <4>1
    <3> HIDE DEF p, v, next, m, g
    <3> QED
      BY <1>6, <3>1, <3>2
  <2>4. CASE j = i
    <3>1. g[j] = p /\ g[j + 1] = f[i + 1]
      <4>1. ~(j + 1 <= i) /\ j <= i /\ j # 0
        BY <1>1, <2>1, <2>4
      <4> HIDE DEF g
      <4> QED
        BY <1>7, <2>1, <2>4, <4>1
    <3>2. next = f[i + 1]
      BY <1>10, <1>11, <2>4
    <3> HIDE DEF p, v, next, m, g
    <3> QED
      BY <1>6, <3>1, <3>2
  <2>5. CASE j > i
    <3>1. g[j] = f[j] /\ g[j + 1] = f[j + 1]
      <4>1. ~(j + 1 <= i) /\ ~(j <= i) /\ j # 0
        BY <1>1, <2>1, <2>5
      <4> HIDE DEF g
      <4> QED
        BY <1>7, <2>1, <4>1
    <3>2. f[j] # p /\ f[j] # v /\ f[j] \in Symbol /\ mtf.order[f[j]] = f[j + 1]
      <4>1. j # i - 1 /\ j # i
        BY <1>1, <2>1, <2>5
      <4> QED
        BY <1>1, <1>2, <1>11, <4>1
    <3> HIDE DEF p, v, next, m, g
    <3> QED
      BY <1>6, <3>1, <3>2
  <2> QED
    BY <1>1, <2>1, <2>2, <2>3, <2>4, <2>5
<1>12. g[0] = v
  BY <1>1, <1>7
<1> HIDE DEF p, v, next, m, g
<1>13. Listed(m, g)
  BY <1>6, <1>8, <1>9, <1>11, <1>12 DEF Listed
<1> QED
  BY <1>13 DEF m, g, p, v

\* The first symbol is there already.
LEMMA ToFrontFirst ==
  ASSUME NEW f \in [Symbol -> Symbol] PROVE ToFront(f, 0) = f
<1>1. \A j \in Symbol : (IF j = 0 THEN f[0] ELSE IF j <= 0 THEN f[j - 1] ELSE f[j]) = f[j]
  BY Symbols
<1>2. ToFront(f, 0) = [j \in Symbol |-> f[j]]
  BY <1>1 DEF ToFront
<1> QED
  BY <1>2

\* Decoding takes the symbol that stands at the place and moves it to the front.
LEMMA DecodeListed ==
  ASSUME NEW mtf, NEW f, Listed(mtf, f), NEW i \in Symbol
  PROVE  /\ mtf_decode(mtf, i).symbol = f[i]
         /\ Listed(mtf_decode(mtf, i).mtf, ToFront(f, i))
<1>1. mtf_decode(mtf, i).symbol = f[i]
  BY NthListed DEF mtf_decode
<1>2. CASE i = 0
  <2>1. mtf_decode(mtf, i).mtf = mtf
    BY <1>2 DEF mtf_decode
  <2>2. ToFront(f, i) = f
    BY <1>2, ToFrontFirst DEF Listed
  <2> QED
    BY <1>1, <2>1, <2>2
<1>3. CASE i # 0
  <2>1. i - 1 \in Symbol
    BY <1>3, Symbols
  <2>2. mtf_decode(mtf, i).mtf = MoveUp(mtf, f[i - 1], f[i])
    BY <1>3, <2>1, NthListed DEF mtf_decode
  <2> QED
    BY <1>1, <1>3, <2>2, MovesUp
<1> QED
  BY <1>2, <1>3

\* Encoding finds the place of the symbol and does the same.
LEMMA EncodeListed ==
  ASSUME NEW mtf, NEW f, Listed(mtf, f), NEW b \in Symbol
  PROVE  /\ mtf_encode(mtf, b).code \in Symbol
         /\ f[mtf_encode(mtf, b).code] = b
         /\ Listed(mtf_encode(mtf, b).mtf, ToFront(f, mtf_encode(mtf, b).code))
<1> DEFINE P(i) == Nth(mtf, i) = b /\ \A j \in 0..i - 1 : Nth(mtf, j) # b
           c == CHOOSE i \in Symbol : P(i)
<1>1. PICK k \in Symbol : f[k] = b
  BY DEF Listed
<1>2. P(k)
  <2>1. Nth(mtf, k) = b
    BY <1>1, NthListed
  <2>2. ASSUME NEW j \in 0..k - 1 PROVE Nth(mtf, j) # b
    <3>1. j \in Symbol /\ j # k
      BY FormatAssumption DEF Symbol
    <3>2. f[j] # f[k]
      BY <3>1 DEF Listed
    <3> QED
      BY <1>1, <3>1, <3>2, NthListed
  <2> QED
    BY <2>1, <2>2
<1>3. c \in Symbol /\ P(c)
  <2> HIDE DEF P
  <2> QED
    BY <1>2
<1>4. mtf_encode(mtf, b) = [code |-> c, mtf |-> IF c = 0 THEN mtf ELSE MoveUp(mtf, Nth(mtf, c - 1), b)]
  BY DEF mtf_encode
<1>5. Nth(mtf, c) = b
  BY <1>3
<1> HIDE DEF c, P
<1>6. f[c] = b
  BY <1>3, <1>5, NthListed
<1>7. CASE c = 0
  <2>1. mtf_encode(mtf, b).mtf = mtf /\ ToFront(f, c) = f
    BY <1>4, <1>7, ToFrontFirst DEF Listed
  <2> QED
    BY <1>3, <1>4, <1>6, <2>1
<1>8. CASE c # 0
  <2>1. c - 1 \in Symbol
    BY <1>3, <1>8, Symbols
  <2>2. mtf_encode(mtf, b).mtf = MoveUp(mtf, f[c - 1], f[c])
    BY <1>4, <1>6, <1>8, <2>1, NthListed
  <2> QED
    BY <1>3, <1>4, <1>6, <1>8, <2>2, MovesUp
<1> QED
  BY <1>7, <1>8

\* init makes the list of the symbols in order, whatever was in the array.
LEMMA InitListed ==
  ASSUME NEW mtf \in MtfEncoder
  PROVE  Listed(mtf_init(mtf), [i \in Symbol |-> i])
<1>1. mtf.order \in [Symbol -> Symbol] /\ N \in Nat /\ N >= 2
  BY FormatAssumption DEF MtfEncoder
<1>2. \A i \in Symbol : i < N - 1 => i + 1 \in Symbol
  BY <1>1 DEF Symbol
<1>3. mtf_init(mtf) \in MtfEncoder
  BY <1>1, <1>2, Symbols DEF mtf_init, MtfEncoder
<1>4. ASSUME NEW i \in Symbol, i # N - 1
      PROVE  mtf_init(mtf).order[i] = i + 1 /\ i + 1 \in Symbol
  <2>1. i < N - 1
    BY <1>1, <1>4 DEF Symbol
  <2> QED
    BY <1>2, <2>1 DEF mtf_init
<1>5. mtf_init(mtf).h = 0
  BY DEF mtf_init
<1> QED
  BY <1>3, <1>4, <1>5, Symbols DEF Listed

\* The array that nobody initialized.
LEMMA MtfZeroTyped == MtfZero \in MtfEncoder
  BY Symbols DEF MtfZero, MtfEncoder

\* The operations keep the type, also of a list that is none.
LEMMA DecodeTyped ==
  ASSUME NEW mtf \in MtfEncoder, NEW i \in Symbol
  PROVE  mtf_decode(mtf, i).symbol \in Symbol /\ mtf_decode(mtf, i).mtf \in MtfEncoder
<1>1. Nth(mtf, i) \in Symbol /\ (i # 0 => Nth(mtf, i - 1) \in Symbol)
  BY NthSteps, Symbols
<1>2. ASSUME NEW p \in Symbol, NEW v \in Symbol PROVE MoveUp(mtf, p, v) \in MtfEncoder
  BY DEF MoveUp, MtfEncoder
<1> QED
  BY <1>1, <1>2 DEF mtf_decode

\* A list has the type.
LEMMA PermutedTyped == ASSUME NEW mtf, Permuted(mtf) PROVE mtf \in MtfEncoder
  BY DEF Permuted, Listed

\* mtf_decode leaves a list.
LEMMA PermutedDecodes ==
  ASSUME NEW mtf, Permuted(mtf), NEW i \in Symbol PROVE Permuted(mtf_decode(mtf, i).mtf)
  BY DecodeListed DEF Permuted

\* mtf_encode leaves a list.
LEMMA PermutedEncodes ==
  ASSUME NEW mtf, Permuted(mtf), NEW b \in Symbol
  PROVE  mtf_encode(mtf, b).code \in Symbol /\ Permuted(mtf_encode(mtf, b).mtf)
  BY EncodeListed DEF Permuted

\* What the encoder does to its list the decoder does to its own.
LEMMA SameListStays ==
  ASSUME NEW m1, NEW m2, SameList(m1, m2), NEW b \in Symbol
  PROVE  LET e == mtf_encode(m1, b)
             d == mtf_decode(m2, e.code)
         IN  e.code \in Symbol /\ d.symbol = b /\ SameList(e.mtf, d.mtf)
<1>1. PICK f : Listed(m1, f) /\ Listed(m2, f)
  BY DEF SameList
<1>2. /\ mtf_encode(m1, b).code \in Symbol /\ f[mtf_encode(m1, b).code] = b
      /\ Listed(mtf_encode(m1, b).mtf, ToFront(f, mtf_encode(m1, b).code))
  BY <1>1, EncodeListed
<1>3. /\ mtf_decode(m2, mtf_encode(m1, b).code).symbol = b
      /\ Listed(mtf_decode(m2, mtf_encode(m1, b).code).mtf, ToFront(f, mtf_encode(m1, b).code))
  BY <1>1, <1>2, DecodeListed
<1> QED
  BY <1>2, <1>3 DEF SameList

\* A list holds every symbol once: what ListsArePermutations says.
LEMMA ListIsPermutation ==
  ASSUME NEW mtf, Permuted(mtf)
  PROVE  ToSet(ListOf(mtf)) = Symbol /\ IsInjective(ListOf(mtf))
<1>1. PICK f : Listed(mtf, f)
  BY DEF Permuted
<1>2. ListOf(mtf) = f
  <2>1. \A i \in Symbol : Nth(mtf, i) = f[i]
    BY <1>1, NthListed
  <2>2. ListOf(mtf) = [i \in Symbol |-> f[i]]
    BY <2>1 DEF ListOf
  <2> QED
    BY <1>1, <2>2 DEF Listed
<1>3. f \in [Symbol -> Symbol] /\ \A i, j \in Symbol : f[i] = f[j] => i = j
  BY <1>1 DEF Listed
<1>4. \A b \in Symbol : \E i \in Symbol : f[i] = b
  BY <1>1 DEF Listed
<1>5. ToSet(f) = Symbol
  BY <1>3, <1>4 DEF ToSet
<1>6. IsInjective(f)
  BY <1>3 DEF IsInjective
<1> QED
  BY <1>2, <1>5, <1>6

\* Lists that are alike are lists.
LEMMA SamePermuted ==
  ASSUME NEW m1, NEW m2, SameList(m1, m2) PROVE Permuted(m1) /\ Permuted(m2)
  BY DEF SameList, Permuted

(* The codes of the integers, and what the decoders read of them.          *)
Coded == 1..Power[MaxLog + 1] - 1

\* The logarithm of an integer that has a code.
LEMMA LogIs ==
  ASSUME NEW b \in Coded
  PROVE  /\ FloorLog2(b) \in 0..MaxLog /\ MaxLog \in Nat /\ b \in Nat
         /\ Power[FloorLog2(b)] <= b /\ b < Power[FloorLog2(b) + 1]
<1> DEFINE T == {l \in 0..MaxLog : b < Power[l + 1]}
           P(l) == b < Power[l + 1] /\ (l = 0 \/ Power[l] <= b)
<1>1. MaxLog \in Nat /\ b \in Nat /\ 1 <= b /\ b < Power[MaxLog + 1] /\ Power[0] = 1
  <2>1. MaxLog \in Nat /\ Power[MaxLog + 1] \in Nat /\ Power[0] = 1
    BY FormatAssumption, PowerIs
  <2> QED
    BY <2>1 DEF Coded
<1>2. MaxLog \in T /\ T \subseteq Nat
  BY <1>1
<1>3. PICK l \in T : \A k \in T : l <= k
  <2> HIDE DEF T
  <2> QED
    BY <1>2, Least
<1>4. l \in 0..MaxLog /\ b < Power[l + 1]
  BY <1>3
<1>5. l = 0 \/ Power[l] <= b
  <2> SUFFICES ASSUME l # 0 PROVE Power[l] <= b
    OBVIOUS
  <2>1. l - 1 \in 0..MaxLog /\ ~(l <= l - 1) /\ (l - 1) + 1 = l /\ l \in 0..MaxLog + 1
    BY <1>1, <1>4
  <2>2. l - 1 \notin T
    <3> HIDE DEF T
    <3> QED
      BY <1>3, <2>1
  <2>3. Power[l] \in Nat
    BY <2>1, PowerIs
  <2> QED
    BY <1>1, <2>1, <2>2, <2>3
<1>6. \E k \in 0..MaxLog : P(k)
  BY <1>4, <1>5
<1>7. FloorLog2(b) \in 0..MaxLog /\ P(FloorLog2(b))
  BY <1>6 DEF FloorLog2
<1> QED
  BY <1>1, <1>7

\* A run of zeros.
LEMMA ZerosAre ==
  ASSUME NEW n \in Nat
  PROVE  Zeros(n) \in Seq(Bit) /\ Len(Zeros(n)) = n /\ \A i \in 1..n : Zeros(n)[i] = 0
  BY DEF Zeros, Bit

\* The bits of an integer, the highest first.
LEMMA LowBitsAre ==
  ASSUME NEW b \in Nat, NEW n \in 0..MaxLog + 1
  PROVE  /\ LowBits(b, n) \in Seq(Bit) /\ Len(LowBits(b, n)) = n
         /\ \A i \in 1..n : LowBits(b, n)[i] = (b \div Power[n - i]) % 2
<1>1. MaxLog \in Nat /\ n \in Nat
  BY FormatAssumption
<1>2. ASSUME NEW i \in 1..n PROVE (b \div Power[n - i]) % 2 \in Bit
  <2>1. n - i \in 0..MaxLog + 1
    BY <1>1
  <2>2. Power[n - i] \in Nat \ {0}
    BY <2>1, PowerIs
  <2> QED
    BY <2>2, Halves DEF Bit
<1>3. LowBits(b, n) \in [1..n -> Bit]
  BY <1>2 DEF LowBits
<1> QED
  BY <1>1, <1>3 DEF LowBits

\* Two sequences, one behind the other.
LEMMA JoinedBits ==
  ASSUME NEW S, NEW s \in Seq(S), NEW t \in Seq(S)
  PROVE  /\ s \o t \in Seq(S) /\ Len(s \o t) = Len(s) + Len(t) /\ Len(s) \in Nat /\ Len(t) \in Nat
         /\ \A i \in 1..Len(s) : (s \o t)[i] = s[i]
         /\ \A i \in 1..Len(t) : (s \o t)[Len(s) + i] = t[i]
  OBVIOUS

\* The gamma code bit by bit: l zeros, a one, the l low bits.
LEMMA GammaIs ==
  ASSUME NEW b \in Coded
  PROVE  LET l == FloorLog2(b)
         IN  /\ Gamma(b) \in Seq(Bit) /\ Len(Gamma(b)) = 2 * l + 1
             /\ \A i \in 1..l : Gamma(b)[i] = 0
             /\ Gamma(b)[l + 1] = 1
             /\ \A i \in 1..l : Gamma(b)[l + 1 + i] = LowBits(b, l)[i]
<1> DEFINE l == FloorLog2(b)
           z == Zeros(l)
           w == LowBits(b, l + 1)
           v == LowBits(b, l)
<1>1. l \in 0..MaxLog /\ MaxLog \in Nat /\ b \in Nat /\ Power[l] <= b /\ b < Power[l + 1]
  BY LogIs
<1>2. l \in Nat /\ l + 1 \in 0..MaxLog + 1 /\ l \in 0..MaxLog + 1
  BY <1>1
<1>3. z \in Seq(Bit) /\ Len(z) = l /\ \A i \in 1..l : z[i] = 0
  BY <1>2, ZerosAre
<1>4. w \in Seq(Bit) /\ Len(w) = l + 1 /\ \A i \in 1..l + 1 : w[i] = (b \div Power[(l + 1) - i]) % 2
  <2> HIDE DEF l
  <2> QED
    BY <1>1, <1>2, LowBitsAre
<1>5. v \in Seq(Bit) /\ Len(v) = l /\ \A i \in 1..l : v[i] = (b \div Power[l - i]) % 2
  <2> HIDE DEF l
  <2> QED
    BY <1>1, <1>2, LowBitsAre
<1>6. Gamma(b) = z \o w
  BY DEF Gamma
<1> HIDE DEF l, z, w, v
<1>7. w[1] = 1
  <2>1. Power[l] \in Nat \ {0} /\ Power[l + 1] = 2 * Power[l]
    BY <1>1, <1>2, PowerIs
  <2> DEFINE p == Power[l]
  <2>2. p \in Nat \ {0} /\ 1 * p <= b /\ b < 1 * p + p
    BY <1>1, <2>1
  <2> HIDE DEF p
  <2>3. b \div p = 1
    BY <1>1, <2>2, QuotientIs
  <2>4. w[1] = (b \div Power[(l + 1) - 1]) % 2 /\ (l + 1) - 1 = l
    BY <1>2, <1>4
  <2> QED
    BY <2>3, <2>4 DEF p
<1>8. \A i \in 1..l : w[i + 1] = v[i]
  <2> SUFFICES ASSUME NEW i \in 1..l PROVE w[i + 1] = v[i]
    OBVIOUS
  <2>1. i + 1 \in 1..l + 1 /\ (l + 1) - (i + 1) = l - i
    BY <1>2
  <2> QED
    BY <1>4, <1>5, <2>1
<1>9. /\ Gamma(b) \in Seq(Bit) /\ Len(Gamma(b)) = Len(z) + Len(w)
      /\ \A i \in 1..Len(z) : Gamma(b)[i] = z[i]
      /\ \A i \in 1..Len(w) : Gamma(b)[Len(z) + i] = w[i]
  <2>1. z \in Seq(Bit) /\ w \in Seq(Bit)
    BY <1>3, <1>4
  <2> QED
    BY <1>6, <2>1, JoinedBits
<1>10. Gamma(b)[l + 1] = 1
  <2>1. 1 \in 1..Len(w)
    BY <1>2, <1>4
  <2> QED
    BY <1>3, <1>7, <1>9, <2>1
<1>11. \A i \in 1..l : Gamma(b)[l + 1 + i] = v[i]
  <2> SUFFICES ASSUME NEW i \in 1..l PROVE Gamma(b)[l + 1 + i] = v[i]
    OBVIOUS
  <2>1. i + 1 \in 1..Len(w) /\ l + (i + 1) = l + 1 + i
    BY <1>2, <1>4
  <2> QED
    BY <1>3, <1>8, <1>9, <2>1
<1>12. Len(Gamma(b)) = 2 * l + 1
  BY <1>2, <1>3, <1>4, <1>9
<1> QED
  BY <1>3, <1>9, <1>10, <1>11, <1>12 DEF l, v

-------------------------------------------------------------------------------
(* Reading.                                                                *)

\* After position p, bits go on with those of s.
At(bits, p, s) == p + Len(s) <= Len(bits) /\ \A i \in 1..Len(s) : bits[p + i] = s[i]

\* Within the buffer the next bit is the one at the position.
LEMMA NextBit ==
  ASSUME NEW buf, buf.bits \in Seq(Bit), NEW p \in Nat, p < Len(buf.bits)
  PROVE  bitBuf_getNextBit(buf, p) = buf.bits[p + 1] /\ bitBuf_getNextBit(buf, p) \in Bit
<1>1. Len(buf.bits) \in Nat /\ p # Len(buf.bits) /\ p + 1 \in 1..Len(buf.bits)
  OBVIOUS
<1> QED
  BY <1>1 DEF bitBuf_getNextBit

\* The values of OneThen from bit to bit.
Values(g, buf, r, n) ==
  /\ g \in [0..n -> Nat \ {0}] /\ OneThen(buf, r, n) = g[n] /\ g[0] = 1
  /\ \A i \in 1..n : g[i] = 2 * g[i - 1] + buf.bits[r + i]

\* The values that OneThen runs through.
LEMMA ValuesOf ==
  ASSUME NEW buf, buf.bits \in Seq(Bit), NEW r \in Nat, NEW n \in Nat, r + n <= Len(buf.bits)
  PROVE  \E g : Values(g, buf, r, n)
<1> DEFINE S == Nat \ {0}
           F == [p \in S \X (1..n) |-> 2 * p[1] + bitBuf_getNextBit(buf, r + p[2] - 1)]
           value[i \in 0..n] == IF i = 0 THEN 1 ELSE 2 * value[i - 1] + bitBuf_getNextBit(buf, r + i - 1)
<1>1. \A i \in 1..n : /\ bitBuf_getNextBit(buf, r + i - 1) = buf.bits[r + i]
                      /\ bitBuf_getNextBit(buf, r + i - 1) \in {0, 1}
  <2> SUFFICES ASSUME NEW i \in 1..n
               PROVE  /\ bitBuf_getNextBit(buf, r + i - 1) = buf.bits[r + i]
                      /\ bitBuf_getNextBit(buf, r + i - 1) \in {0, 1}
    OBVIOUS
  <2>1. r + i - 1 \in Nat /\ r + i - 1 < Len(buf.bits) /\ (r + i - 1) + 1 = r + i /\ Len(buf.bits) \in Nat
    OBVIOUS
  <2> QED
    BY <2>1, NextBit DEF Bit
<1>2. F \in [S \X (1..n) -> S]
  <2>1. ASSUME NEW p \in S \X (1..n) PROVE 2 * p[1] + bitBuf_getNextBit(buf, r + p[2] - 1) \in S
    <3>1. p[1] \in Nat \ {0} /\ p[2] \in 1..n
      BY <2>1
    <3>2. bitBuf_getNextBit(buf, r + p[2] - 1) \in {0, 1}
      BY <1>1, <3>1
    <3> QED
      BY <3>1, <3>2
  <2> HIDE DEF S
  <2> QED
    BY <2>1
<1>3. \A x \in S, i \in 1..n : F[<<x, i>>] = 2 * x + bitBuf_getNextBit(buf, r + i - 1)
  OBVIOUS
<1>4. PICK h : Recurs(h, n, S, 1, F)
  <2>1. 1 \in S
    OBVIOUS
  <2> HIDE DEF S, F
  <2> QED
    BY <1>2, <2>1, Recursion
<1>5. h = [i \in 0..n |-> IF i = 0 THEN 1 ELSE 2 * h[i - 1] + bitBuf_getNextBit(buf, r + i - 1)]
  <2> HIDE DEF S, F
  <2>1. h = [i \in 0..n |-> h[i]] /\ h[0] = 1
    BY <1>4 DEF Recurs
  <2>2. \A i \in 0..n : h[i] = IF i = 0 THEN 1 ELSE 2 * h[i - 1] + bitBuf_getNextBit(buf, r + i - 1)
    <3> SUFFICES ASSUME NEW i \in 0..n, i # 0
                 PROVE  h[i] = 2 * h[i - 1] + bitBuf_getNextBit(buf, r + i - 1)
      BY <2>1
    <3>1. i \in 1..n /\ i - 1 \in 0..n
      OBVIOUS
    <3> QED
      BY <1>3, <1>4, <3>1 DEF Recurs
  <2> QED
    BY <2>1, <2>2
<1>6. value = [i \in 0..n |-> IF i = 0 THEN 1 ELSE 2 * value[i - 1] + bitBuf_getNextBit(buf, r + i - 1)]
  BY <1>5
<1>7. OneThen(buf, r, n) = value[n]
  BY DEF OneThen
<1> HIDE DEF value, S, F
<1>8. value[0] = 1 /\ \A i \in 1..n : value[i] = 2 * value[i - 1] + bitBuf_getNextBit(buf, r + i - 1)
  <2>1. 0 \in 0..n /\ \A i \in 1..n : i \in 0..n /\ i # 0
    OBVIOUS
  <2> QED
    BY <1>6, <2>1
<1>9. \A i \in 0..n : value[i] \in S
  <2>1. value[0] \in S
    BY <1>8 DEF S
  <2>2. ASSUME NEW i \in 1..n, value[i - 1] \in S PROVE value[i] \in S
    <3>1. value[i] = 2 * value[i - 1] + bitBuf_getNextBit(buf, r + i - 1)
      BY <1>8
    <3>2. bitBuf_getNextBit(buf, r + i - 1) \in {0, 1}
      BY <1>1
    <3> QED
      BY <2>2, <3>1, <3>2 DEF S
  <2> QED
    BY <2>1, <2>2, RecursionTyped
<1>10. value \in [0..n -> S]
  <2>1. value = [i \in 0..n |-> value[i]]
    BY <1>6
  <2> QED
    BY <1>9, <2>1
<1>11. \A i \in 1..n : value[i] = 2 * value[i - 1] + buf.bits[r + i]
  BY <1>1, <1>8
<1> QED
  BY <1>7, <1>8, <1>10, <1>11 DEF S, Values

\* The bits of an integer below its first 1 give it back.
LEMMA OneThenIs ==
  ASSUME NEW buf, buf.bits \in Seq(Bit), NEW r \in Nat, NEW b \in Coded,
         At(buf.bits, r, LowBits(b, FloorLog2(b)))
  PROVE  OneThen(buf, r, FloorLog2(b)) = b
<1> DEFINE l == FloorLog2(b)
<1>1. l \in 0..MaxLog /\ MaxLog \in Nat /\ b \in Nat /\ Power[l] <= b /\ b < Power[l + 1]
  BY LogIs
<1>2. l \in Nat /\ l \in 0..MaxLog + 1
  BY <1>1
<1> HIDE DEF l
<1>3. Len(LowBits(b, l)) = l /\ \A i \in 1..l : LowBits(b, l)[i] = (b \div Power[l - i]) % 2
  BY <1>1, <1>2, LowBitsAre
<1>4. r + l <= Len(buf.bits) /\ \A i \in 1..l : buf.bits[r + i] = (b \div Power[l - i]) % 2
  BY <1>3 DEF At, l
<1>x. PICK g : Values(g, buf, r, l)
  BY <1>2, <1>4, ValuesOf
<1>5. /\ OneThen(buf, r, l) = g[l] /\ g[0] = 1
      /\ \A i \in 1..l : g[i] = 2 * g[i - 1] + buf.bits[r + i]
  BY <1>x DEF Values
<1> DEFINE T == {i \in 0..l : g[i] = b \div Power[l - i]}
<1>6. 0 \in T
  <2>1. Power[l] \in Nat \ {0} /\ Power[l + 1] = 2 * Power[l]
    BY <1>1, <1>2, PowerIs
  <2> DEFINE p == Power[l]
  <2>2. p \in Nat \ {0} /\ 1 * p <= b /\ b < 1 * p + p
    BY <1>1, <2>1
  <2> HIDE DEF p
  <2>3. b \div p = 1
    BY <1>1, <2>2, QuotientIs
  <2>4. l - 0 = l
    BY <1>2
  <2> QED
    BY <1>2, <1>5, <2>3, <2>4 DEF p
<1>7. ASSUME NEW i \in 1..l, i - 1 \in T PROVE i \in T
  <2>1. l - i \in 0..MaxLog /\ l - i \in 0..MaxLog + 1 /\ l - (i - 1) = (l - i) + 1 /\ i \in 0..l
    BY <1>1, <1>2
  <2>2. Power[l - i] \in Nat \ {0} /\ Power[l - (i - 1)] = 2 * Power[l - i]
    BY <2>1, PowerIs
  <2>3. g[i - 1] = b \div Power[l - (i - 1)]
    BY <1>7
  <2> DEFINE p == Power[l - i]
  <2>4. b \div p = 2 * (b \div (2 * p)) + ((b \div p) % 2)
    <3> HIDE DEF p
    <3>1. p \in Nat \ {0}
      BY <2>2 DEF p
    <3> QED
      BY <1>1, <3>1, Halves
  <2>5. g[i] = 2 * g[i - 1] + ((b \div p) % 2)
    BY <1>4, <1>5
  <2>6. g[i] = b \div p
    BY <2>2, <2>3, <2>4, <2>5
  <2> QED
    BY <2>1, <2>6
<1> HIDE DEF T
<1>8. l \in T
  <2>1. l \in 0..l
    BY <1>2
  <2> QED
    BY <1>2, <1>6, <1>7, <2>1, InductionUpTo
<1>9. g[l] = b \div Power[0]
  <2>1. l - l = 0
    BY <1>2
  <2> QED
    BY <1>8, <2>1 DEF T
<1>10. b \div 1 = b
  BY <1>1
<1> QED
  BY <1>5, <1>9, <1>10, PowerIs DEF l

\* The least of a set.
LEMMA MinIs ==
  ASSUME NEW S, S \subseteq Nat, NEW m \in S, \A x \in S : m <= x
  PROVE  Min(S) = m
<1>1. Min(S) \in S /\ \A x \in S : Min(S) <= x
  BY DEF Min
<1>2. Min(S) \in Nat /\ m \in Nat /\ Min(S) <= m /\ m <= Min(S)
  BY <1>1
<1> QED
  BY <1>2

Ones(buf, p) == {i \in p..Len(buf.bits) - 1 : bitBuf_getNextBit(buf, i) = 1}

\* The decoder finds the first 1, if there is one.
LEMMA GammaDecodes ==
  ASSUME NEW buf, buf.bits \in Seq(Bit), NEW p \in Nat, p <= Len(buf.bits),
         NEW l \in Nat, p + l < Len(buf.bits), buf.bits[p + l + 1] = 1,
         \A i \in 1..l : buf.bits[p + i] = 0
  PROVE  elias_gamma_decode(buf, p) =
           IF p + 2 * l + 1 > Len(buf.bits) THEN Ends(buf)
           ELSE [n |-> OneThen(buf, p + l + 1, l), rpos |-> p + 2 * l + 1]
<1>1. Ones(buf, p) \subseteq Nat
  BY DEF Ones
<1>2. p + l \in Ones(buf, p)
  <2>1. bitBuf_getNextBit(buf, p + l) = 1
    <3>1. p + l \in Nat
      OBVIOUS
    <3> QED
      BY <3>1, NextBit
  <2>2. p + l \in p..Len(buf.bits) - 1
    OBVIOUS
  <2> QED
    BY <2>1, <2>2 DEF Ones
<1>3. ASSUME NEW x \in Ones(buf, p) PROVE p + l <= x
  <2> SUFFICES ASSUME ~(p + l <= x) PROVE FALSE
    OBVIOUS
  <2>1. x \in Nat /\ p <= x /\ x < Len(buf.bits) /\ bitBuf_getNextBit(buf, x) = 1
    BY DEF Ones
  <2>2. buf.bits[x + 1] = 1
    BY <2>1, NextBit
  <2>3. (x + 1) - p \in 1..l /\ p + ((x + 1) - p) = x + 1
    BY <2>1
  <2> DEFINE i == (x + 1) - p
  <2>4. i \in 1..l /\ buf.bits[p + i] = 1
    BY <2>2, <2>3
  <2> HIDE DEF i
  <2>5. buf.bits[p + i] = 0
    BY <2>4, Zenon
  <2> QED
    BY <2>4, <2>5
<1>4. Min(Ones(buf, p)) = p + l
  BY <1>1, <1>2, <1>3, MinIs
<1>5. (p + l) - p = l /\ p + l + 1 + l = p + 2 * l + 1
  OBVIOUS
<1>6. Ones(buf, p) # {}
  BY <1>2
<1> DEFINE ones == {i \in p..Len(buf.bits) - 1 : bitBuf_getNextBit(buf, i) = 1}
           first == Min(ones)
           w == first - p
<1>7. ones = Ones(buf, p)
  BY DEF Ones
<1>8. elias_gamma_decode(buf, p) =
        IF ones = {} \/ first + 1 + w > Len(buf.bits) THEN Ends(buf)
        ELSE [n |-> OneThen(buf, first + 1, w), rpos |-> first + 1 + w]
  BY DEF elias_gamma_decode
<1>9. first = p + l
  BY <1>4, <1>7
<1> HIDE DEF first
<1>10. w = l
  BY <1>5, <1>9
<1> HIDE DEF w, ones
<1>11. first + 1 + w = p + 2 * l + 1 /\ first + 1 = p + l + 1
  BY <1>5, <1>9, <1>10
<1> QED
  BY <1>6, <1>7, <1>8, <1>10, <1>11

\* A gamma code is read back, and the position is behind it.
LEMMA GammaReads ==
  ASSUME NEW buf, buf.bits \in Seq(Bit), NEW p \in Nat, NEW b \in Coded, At(buf.bits, p, Gamma(b))
  PROVE  elias_gamma_decode(buf, p) = [n |-> b, rpos |-> p + Len(Gamma(b))]
<1> DEFINE l == FloorLog2(b)
           n == Len(buf.bits)
<1>1. /\ Gamma(b) \in Seq(Bit) /\ Len(Gamma(b)) = 2 * l + 1
      /\ \A i \in 1..l : Gamma(b)[i] = 0
      /\ Gamma(b)[l + 1] = 1
      /\ \A i \in 1..l : Gamma(b)[l + 1 + i] = LowBits(b, l)[i]
  BY GammaIs
<1>2. l \in Nat /\ l \in 0..MaxLog + 1 /\ b \in Nat /\ n \in Nat
  BY LogIs
<1> HIDE DEF l, n
<1>3. p + (2 * l + 1) <= n /\ \A i \in 1..(2 * l + 1) : buf.bits[p + i] = Gamma(b)[i]
  BY <1>1 DEF At, n
<1>4. p + l < n /\ p <= n /\ ~(p + 2 * l + 1 > n)
  BY <1>2, <1>3
<1>5. \A i \in 1..l : buf.bits[p + i] = 0
  <2> SUFFICES ASSUME NEW i \in 1..l PROVE buf.bits[p + i] = 0
    OBVIOUS
  <2>1. i \in 1..(2 * l + 1)
    BY <1>2
  <2> QED
    BY <1>1, <1>3, <2>1
<1>6. buf.bits[p + l + 1] = 1
  <2>1. l + 1 \in 1..(2 * l + 1) /\ p + (l + 1) = p + l + 1
    BY <1>2
  <2> QED
    BY <1>1, <1>3, <2>1
<1>7. elias_gamma_decode(buf, p) = [n |-> OneThen(buf, p + l + 1, l), rpos |-> p + 2 * l + 1]
  BY <1>2, <1>4, <1>5, <1>6, GammaDecodes DEF n
<1>8. At(buf.bits, p + l + 1, LowBits(b, l))
  <2>1. Len(LowBits(b, l)) = l
    BY <1>2, LowBitsAre
  <2>2. p + l + 1 + l <= n
    BY <1>2, <1>3
  <2>3. ASSUME NEW i \in 1..l PROVE buf.bits[p + l + 1 + i] = LowBits(b, l)[i]
    <3>1. l + 1 + i \in 1..(2 * l + 1) /\ p + (l + 1 + i) = p + l + 1 + i
      BY <1>2
    <3>2. buf.bits[p + (l + 1 + i)] = Gamma(b)[l + 1 + i]
      BY <1>3, <3>1
    <3> QED
      BY <1>1, <3>1, <3>2
  <2> QED
    BY <2>1, <2>2, <2>3 DEF At, n
<1>9. OneThen(buf, p + l + 1, l) = b
  <2>1. p + l + 1 \in Nat
    BY <1>2
  <2> QED
    BY <1>8, <2>1, OneThenIs DEF l
<1>10. p + 2 * l + 1 = p + Len(Gamma(b))
  BY <1>1, <1>2
<1> QED
  BY <1>7, <1>9, <1>10

\* Zeros up to the end are the end.
LEMMA GammaEnds ==
  ASSUME NEW buf, buf.bits \in Seq(Bit), NEW p \in Nat,
         \A i \in p + 1..Len(buf.bits) : buf.bits[i] = 0
  PROVE  elias_gamma_decode(buf, p) = Ends(buf)
<1>1. Ones(buf, p) = {}
  <2> SUFFICES ASSUME NEW x \in Ones(buf, p) PROVE FALSE
    OBVIOUS
  <2>1. x \in Nat /\ p <= x /\ x < Len(buf.bits) /\ bitBuf_getNextBit(buf, x) = 1 /\ Len(buf.bits) \in Nat
    BY DEF Ones
  <2>2. buf.bits[x + 1] = 1 /\ x + 1 \in p + 1..Len(buf.bits)
    BY <2>1, NextBit
  <2> QED
    BY <2>2
<1> QED
  BY <1>1 DEF elias_gamma_decode, Ones

\* Whatever the bits are, the decoder stays within them.
LEMMA GammaTyped ==
  ASSUME NEW buf, buf.bits \in Seq(Bit), NEW p \in 0..Len(buf.bits)
  PROVE  /\ elias_gamma_decode(buf, p) \in [n : Nat, rpos : 0..Len(buf.bits)]
         /\ elias_gamma_decode(buf, p).n # 0 => p < elias_gamma_decode(buf, p).rpos
<1>1. Len(buf.bits) \in Nat /\ p \in Nat /\ p <= Len(buf.bits)
  OBVIOUS
<1>2. Ends(buf) \in [n : Nat, rpos : 0..Len(buf.bits)] /\ Ends(buf).n = 0
  BY <1>1 DEF Ends
<1>3. CASE Ones(buf, p) = {}
  <2>1. elias_gamma_decode(buf, p) = Ends(buf)
    BY <1>3 DEF elias_gamma_decode, Ones
  <2> QED
    BY <1>2, <2>1
<1>4. CASE Ones(buf, p) # {}
  <2>1. Ones(buf, p) \subseteq Nat
    BY DEF Ones
  <2>2. PICK f \in Ones(buf, p) : \A x \in Ones(buf, p) : f <= x
    BY <1>4, <2>1, Least
  <2> DEFINE l == f - p
  <2>3. f \in Nat /\ p <= f /\ f < Len(buf.bits) /\ bitBuf_getNextBit(buf, f) = 1
    BY <2>2 DEF Ones
  <2>4. l \in Nat /\ p + l = f
    BY <1>1, <2>3
  <2>5. buf.bits[f + 1] = 1
    BY <2>3, NextBit
  <2>6. ASSUME NEW i \in 1..l PROVE buf.bits[p + i] = 0
    <3>1. p + i - 1 \in Nat /\ p + i - 1 < f /\ p <= p + i - 1 /\ (p + i - 1) + 1 = p + i
      BY <1>1, <2>3, <2>4
    <3>2. p + i - 1 \notin Ones(buf, p)
      BY <2>2, <2>3, <3>1
    <3>3. p + i - 1 \in p..Len(buf.bits) - 1
      BY <1>1, <2>3, <3>1
    <3>4. p + i - 1 < Len(buf.bits)
      BY <1>1, <2>3, <3>1
    <3>5. bitBuf_getNextBit(buf, p + i - 1) # 1 /\ bitBuf_getNextBit(buf, p + i - 1) \in Bit
      BY <3>1, <3>2, <3>3, <3>4, NextBit DEF Ones
    <3>6. bitBuf_getNextBit(buf, p + i - 1) = buf.bits[p + i]
      BY <3>1, <3>4, NextBit
    <3> QED
      BY <3>5, <3>6 DEF Bit
  <2>7. p + l < Len(buf.bits) /\ buf.bits[p + l + 1] = 1
    BY <2>3, <2>4, <2>5
  <2> HIDE DEF l
  <2>8. elias_gamma_decode(buf, p) =
           IF p + 2 * l + 1 > Len(buf.bits) THEN Ends(buf)
           ELSE [n |-> OneThen(buf, p + l + 1, l), rpos |-> p + 2 * l + 1]
    BY <1>1, <2>4, <2>6, <2>7, GammaDecodes
  <2>9. CASE p + 2 * l + 1 > Len(buf.bits)
    BY <1>2, <2>8, <2>9
  <2>10. CASE ~(p + 2 * l + 1 > Len(buf.bits))
    <3>1. p + l + 1 \in Nat /\ (p + l + 1) + l <= Len(buf.bits)
      BY <1>1, <2>4, <2>10
    <3>2. PICK g : Values(g, buf, p + l + 1, l)
      BY <2>4, <3>1, ValuesOf
    <3>3. OneThen(buf, p + l + 1, l) \in Nat
      <4>1. l \in 0..l
        BY <2>4
      <4> QED
        BY <3>2, <4>1 DEF Values
    <3>4. p + 2 * l + 1 \in 0..Len(buf.bits) /\ p < p + 2 * l + 1
      BY <1>1, <2>4, <2>10
    <3> QED
      BY <2>8, <2>10, <3>3, <3>4
  <2> QED
    BY <2>9, <2>10
<1> QED
  BY <1>3, <1>4

-------------------------------------------------------------------------------

\* The delta code: the gamma code of the length, and the low bits.
LEMMA DeltaIs ==
  ASSUME NEW b \in Coded
  PROVE  LET l == FloorLog2(b)
         IN  /\ l + 1 \in Coded /\ Gamma(l + 1) \in Seq(Bit) /\ LowBits(b, l) \in Seq(Bit)
             /\ Delta(b) = Gamma(l + 1) \o LowBits(b, l) /\ Len(LowBits(b, l)) = l /\ l \in Nat
<1> DEFINE l == FloorLog2(b)
<1>1. l \in 0..MaxLog /\ MaxLog \in Nat /\ b \in Nat
  BY LogIs
<1>2. l + 1 \in Coded
  <2>1. Power[MaxLog + 1] \in Nat /\ MaxLog + 1 < Power[MaxLog + 1]
    <3>1. MaxLog + 1 \in 0..MaxLog + 1
      BY <1>1
    <3> QED
      BY <3>1, PowerIs
  <2> HIDE DEF l
  <2> QED
    BY <1>1, <2>1 DEF Coded
<1>3. Gamma(l + 1) \in Seq(Bit)
  <2> HIDE DEF l
  <2> QED
    BY <1>2, GammaIs
<1>4. LowBits(b, l) \in Seq(Bit) /\ Len(LowBits(b, l)) = l
  <2>1. l \in 0..MaxLog + 1
    BY <1>1
  <2> HIDE DEF l
  <2> QED
    BY <1>1, <2>1, LowBitsAre
<1>5. Delta(b) = Gamma(l + 1) \o LowBits(b, l)
  BY DEF Delta
<1> QED
  BY <1>1, <1>2, <1>3, <1>4, <1>5

\* A code that is a code and something behind it.
LEMMA AtJoined ==
  ASSUME NEW bits \in Seq(Bit), NEW s \in Seq(Bit), NEW t \in Seq(Bit), NEW p \in Nat,
         At(bits, p, s \o t)
  PROVE  At(bits, p, s) /\ At(bits, p + Len(s), t)
<1>1. /\ Len(s \o t) = Len(s) + Len(t) /\ Len(s) \in Nat /\ Len(t) \in Nat
      /\ \A i \in 1..Len(s) : (s \o t)[i] = s[i]
      /\ \A i \in 1..Len(t) : (s \o t)[Len(s) + i] = t[i]
  BY JoinedBits
<1> DEFINE a == Len(s)
           c == Len(t)
           n == Len(bits)
           st == s \o t
<1>2. a \in Nat /\ c \in Nat /\ Len(st) = a + c /\ n \in Nat
  BY <1>1
<1>3. p + (a + c) <= n /\ \A i \in 1..a + c : bits[p + i] = st[i]
  BY <1>2 DEF At
<1>4. ASSUME NEW i \in 1..a PROVE bits[p + i] = s[i]
  <2>1. st[i] = s[i]
    BY <1>1
  <2> HIDE DEF a, c, n, st
  <2>2. i \in 1..a + c
    BY <1>2
  <2> QED
    BY <1>3, <2>1, <2>2
<1>5. ASSUME NEW i \in 1..c PROVE bits[(p + a) + i] = t[i]
  <2>1. st[a + i] = t[i]
    BY <1>1
  <2> HIDE DEF a, c, n, st
  <2>2. a + i \in 1..a + c /\ p + (a + i) = (p + a) + i
    BY <1>2
  <2> QED
    BY <1>3, <2>1, <2>2
<1>6. p + a <= n /\ (p + a) + c <= n
  <2> HIDE DEF a, c, n, st
  <2> QED
    BY <1>2, <1>3
<1> QED
  BY <1>4, <1>5, <1>6 DEF At

\* A delta code is read back, and the position is behind it.
LEMMA DeltaReads ==
  ASSUME NEW buf, buf.bits \in Seq(Bit), NEW p \in Nat, NEW b \in Coded, At(buf.bits, p, Delta(b))
  PROVE  elias_delta_decode(buf, p) = [n |-> b, rpos |-> p + Len(Delta(b))]
<1> DEFINE l == FloorLog2(b)
           s == Gamma(l + 1)
           t == LowBits(b, l)
           q == p + Len(s)
<1>1. l + 1 \in Coded /\ s \in Seq(Bit) /\ t \in Seq(Bit) /\ Delta(b) = s \o t
  BY DeltaIs
<1>2. Len(t) = l /\ l \in Nat
  BY DeltaIs
<1>3. At(buf.bits, p, s) /\ At(buf.bits, q, t)
  <2> HIDE DEF s, t
  <2> QED
    BY <1>1, AtJoined
<1>4. elias_gamma_decode(buf, p) = [n |-> l + 1, rpos |-> q]
  <2> HIDE DEF l
  <2> QED
    BY <1>1, <1>3, GammaReads
<1>5. q \in Nat
  <2> HIDE DEF s
  <2>1. Len(s) \in Nat
    BY <1>1
  <2> QED
    BY <2>1
<1>6. OneThen(buf, q, l) = b
  BY <1>3, <1>5, OneThenIs
<1>7. Len(Delta(b)) = Len(s) + l /\ Len(s) \in Nat
  <2>1. Len(s \o t) = Len(s) + Len(t) /\ Len(s) \in Nat
    <3> HIDE DEF s, t
    <3> QED
      BY <1>1, JoinedBits
  <2> HIDE DEF s, t
  <2> QED
    BY <1>1, <1>2, <2>1
<1>8. q + l <= Len(buf.bits)
  BY <1>2, <1>3 DEF At
<1>9. (l + 1) - 1 = l /\ l + 1 # 0 /\ q + l = p + Len(Delta(b))
  <2> HIDE DEF s, l
  <2> QED
    BY <1>2, <1>7
<1>10. elias_delta_decode(buf, p) =
        LET len == elias_gamma_decode(buf, p)
            k   == len.n - 1
        IN  IF len.n = 0 \/ len.rpos + k > Len(buf.bits) THEN Ends(buf)
            ELSE [n |-> OneThen(buf, len.rpos, k), rpos |-> len.rpos + k]
  BY DEF elias_delta_decode
<1> HIDE DEF l, q, s, t
<1>11. ~(q + l > Len(buf.bits))
  <2>1. Len(buf.bits) \in Nat
    OBVIOUS
  <2> QED
    BY <1>2, <1>5, <1>8, <2>1
<1> QED
  BY <1>4, <1>6, <1>9, <1>10, <1>11

\* Zeros are the end for this decoder too.
LEMMA DeltaEnds ==
  ASSUME NEW buf, buf.bits \in Seq(Bit), NEW p \in Nat,
         \A i \in p + 1..Len(buf.bits) : buf.bits[i] = 0
  PROVE  elias_delta_decode(buf, p) = Ends(buf)
<1>1. elias_gamma_decode(buf, p) = Ends(buf)
  BY GammaEnds
<1> QED
  BY <1>1 DEF elias_delta_decode, Ends

\* It stays within the bits too.
LEMMA DeltaTyped ==
  ASSUME NEW buf, buf.bits \in Seq(Bit), NEW p \in 0..Len(buf.bits)
  PROVE  /\ elias_delta_decode(buf, p) \in [n : Nat, rpos : 0..Len(buf.bits)]
         /\ elias_delta_decode(buf, p).n # 0 => p < elias_delta_decode(buf, p).rpos
<1> DEFINE len == elias_gamma_decode(buf, p)
           k == len.n - 1
<1>1. len \in [n : Nat, rpos : 0..Len(buf.bits)] /\ (len.n # 0 => p < len.rpos)
  BY GammaTyped
<1>2. elias_delta_decode(buf, p) =
        IF len.n = 0 \/ len.rpos + k > Len(buf.bits) THEN Ends(buf)
        ELSE [n |-> OneThen(buf, len.rpos, k), rpos |-> len.rpos + k]
  BY DEF elias_delta_decode
<1>3. Len(buf.bits) \in Nat
  OBVIOUS
<1> HIDE DEF len
<1>4. CASE len.n = 0 \/ len.rpos + k > Len(buf.bits)
  <2>1. Ends(buf) \in [n : Nat, rpos : 0..Len(buf.bits)] /\ Ends(buf).n = 0
    BY <1>3 DEF Ends
  <2> QED
    BY <1>2, <1>4, <2>1
<1>5. CASE ~(len.n = 0 \/ len.rpos + k > Len(buf.bits))
  <2>1. k \in Nat /\ len.rpos \in Nat /\ len.rpos + k <= Len(buf.bits) /\ p < len.rpos /\ p \in Nat
    BY <1>1, <1>3, <1>5
  <2>2. PICK g : Values(g, buf, len.rpos, k)
    <3> HIDE DEF k
    <3> QED
      BY <2>1, ValuesOf
  <2>3. OneThen(buf, len.rpos, k) \in Nat
    <3> HIDE DEF k
    <3>1. k \in 0..k
      BY <2>1
    <3> QED
      BY <2>2, <3>1 DEF Values
  <2>4. len.rpos + k \in 0..Len(buf.bits) /\ p < len.rpos + k
    <3> HIDE DEF k
    <3> QED
      BY <1>3, <2>1
  <2> QED
    BY <1>2, <1>5, <2>3, <2>4
<1> QED
  BY <1>4, <1>5

-------------------------------------------------------------------------------
(* The two codes alike.                                                    *)
Decode(codec, buf, p) ==
  IF codec = "gamma" THEN elias_gamma_decode(buf, p) ELSE elias_delta_decode(buf, p)

\* Either code is some bits.
LEMMA CodeIs ==
  ASSUME NEW codec, NEW b \in Coded
  PROVE  Code(codec, b) \in Seq(Bit) /\ Len(Code(codec, b)) \in Nat \ {0}
<1>1. Gamma(b) \in Seq(Bit) /\ Len(Gamma(b)) \in Nat \ {0}
  <2>1. Gamma(b) \in Seq(Bit) /\ Len(Gamma(b)) = 2 * FloorLog2(b) + 1
    BY GammaIs
  <2>2. FloorLog2(b) \in Nat
    BY LogIs
  <2> QED
    BY <2>1, <2>2
<1>2. Delta(b) \in Seq(Bit) /\ Len(Delta(b)) \in Nat \ {0}
  <2> DEFINE l == FloorLog2(b)
             s == Gamma(l + 1)
             t == LowBits(b, l)
  <2>1. l + 1 \in Coded /\ s \in Seq(Bit) /\ t \in Seq(Bit) /\ Delta(b) = s \o t
    BY DeltaIs
  <2>2. Len(s) \in Nat \ {0}
    <3>1. Len(s) = 2 * FloorLog2(l + 1) + 1
      BY <2>1, GammaIs
    <3>2. FloorLog2(l + 1) \in Nat
      BY <2>1, LogIs
    <3> QED
      BY <3>1, <3>2
  <2> HIDE DEF s, t
  <2>3. s \o t \in Seq(Bit) /\ Len(s \o t) = Len(s) + Len(t) /\ Len(t) \in Nat
    BY <2>1, JoinedBits
  <2> QED
    BY <2>1, <2>2, <2>3
<1> QED
  BY <1>1, <1>2 DEF Code

\* Either code is read back.
LEMMA Reads ==
  ASSUME NEW codec, NEW buf, buf.bits \in Seq(Bit), NEW p \in Nat, NEW b \in Coded,
         At(buf.bits, p, Code(codec, b))
  PROVE  Decode(codec, buf, p) = [n |-> b, rpos |-> p + Len(Code(codec, b))]
  BY GammaReads, DeltaReads DEF Decode, Code

\* Zeros are the end of either.
LEMMA EndsThere ==
  ASSUME NEW codec, NEW buf, buf.bits \in Seq(Bit), NEW p \in Nat,
         \A i \in p + 1..Len(buf.bits) : buf.bits[i] = 0
  PROVE  Decode(codec, buf, p) = Ends(buf)
  BY GammaEnds, DeltaEnds DEF Decode

\* Either decoder stays within the bits.
LEMMA DecodeIsTyped ==
  ASSUME NEW codec, NEW buf, buf.bits \in Seq(Bit), NEW p \in 0..Len(buf.bits)
  PROVE  /\ Decode(codec, buf, p) \in [n : Nat, rpos : 0..Len(buf.bits)]
         /\ Decode(codec, buf, p).n # 0 => p < Decode(codec, buf, p).rpos
  BY GammaTyped, DeltaTyped DEF Decode

(* The bit buffer.                                                         *)
Buf(size, bits) == [size |-> size, bits |-> bits, rpos |-> 0]

Grown(buf, z) == [buf EXCEPT !.bits = @ \o z]

\* Bits are put at the end.
LEMMA BufGrows ==
  ASSUME NEW size, NEW w, NEW z
  PROVE  Grown(Buf(size, w), z) = Buf(size, w \o z)
<1> DEFINE x == w \o z
<1>1. Buf(size, w).bits \o z = x
  BY DEF Buf
<1> HIDE DEF x
<1>2. [Buf(size, w) EXCEPT !.bits = x] = Buf(size, x)
  BY DEF Buf
<1> QED
  BY <1>1, <1>2 DEF x, Grown

JoinedThenNext(w, a, e) == Append(w \o a, e)
NextThenJoined(w, a, e) == w \o Append(a, e)

\* Sequences of equal elements are equal.
LEMMA SeqsEqual ==
  ASSUME NEW S, NEW s \in Seq(S), NEW t \in Seq(S), Len(s) = Len(t), \A i \in 1..Len(s) : s[i] = t[i]
  PROVE  s = t
<1>1. s = [i \in 1..Len(s) |-> s[i]] /\ t = [i \in 1..Len(t) |-> t[i]]
  OBVIOUS
<1>2. [i \in 1..Len(s) |-> s[i]] = [i \in 1..Len(t) |-> t[i]]
  OBVIOUS
<1> QED
  BY <1>1, <1>2

\* A bit more behind two sequences.
LEMMA JoinedNext ==
  ASSUME NEW S, NEW w \in Seq(S), NEW a \in Seq(S), NEW e \in S
  PROVE  JoinedThenNext(w, a, e) = NextThenJoined(w, a, e)
<1> DEFINE x == Append(w \o a, e)
           b == Append(a, e)
           y == w \o b
<1>1. Len(w) \in Nat /\ Len(a) \in Nat
  OBVIOUS
<1>2. b \in Seq(S) /\ Len(b) = Len(a) + 1 /\ b[Len(a) + 1] = e /\ \A i \in 1..Len(a) : b[i] = a[i]
  OBVIOUS
<1> HIDE DEF b
<1>3. /\ y \in Seq(S) /\ Len(y) = Len(w) + Len(b)
      /\ \A i \in 1..Len(w) : y[i] = w[i]
      /\ \A i \in 1..Len(b) : y[Len(w) + i] = b[i]
  <2>1. b \in Seq(S)
    BY <1>2
  <2> QED
    BY <2>1, JoinedBits
<1> DEFINE v == w \o a
<1>4. /\ v \in Seq(S) /\ Len(v) = Len(w) + Len(a)
      /\ \A i \in 1..Len(w) : v[i] = w[i]
      /\ \A i \in 1..Len(a) : v[Len(w) + i] = a[i]
  BY JoinedBits
<1> HIDE DEF v
<1>5. /\ Append(v, e) \in Seq(S) /\ Len(Append(v, e)) = Len(v) + 1 /\ Append(v, e)[Len(v) + 1] = e
      /\ \A i \in 1..Len(v) : Append(v, e)[i] = v[i]
  BY <1>4
<1> HIDE DEF y
<1> DEFINE z == Append(v, e)
           n == Len(w)
           m == Len(a)
<1>6. n \in Nat /\ m \in Nat /\ Len(v) = n + m /\ Len(z) = n + m + 1 /\ Len(y) = n + m + 1 /\ Len(b) = m + 1
  BY <1>1, <1>2, <1>3, <1>4, <1>5
<1>7. z \in Seq(S)
  BY <1>5
<1>8. \A i \in 1..n : z[i] = y[i]
  BY <1>3, <1>4, <1>5, <1>6
<1>9. \A i \in 1..m : z[n + i] = y[n + i]
  <2> SUFFICES ASSUME NEW i \in 1..m PROVE z[n + i] = y[n + i]
    OBVIOUS
  <2>1. n + i \in 1..Len(v) /\ i \in 1..Len(b)
    BY <1>6
  <2> QED
    BY <1>2, <1>3, <1>4, <1>5, <2>1
<1>10. z[n + m + 1] = y[n + m + 1]
  <2>1. z[n + m + 1] = e
    BY <1>5, <1>6
  <2>2. m + 1 \in 1..Len(b)
    BY <1>6
  <2>3. y[n + (m + 1)] = b[m + 1]
    BY <1>3, <2>2
  <2>4. n + (m + 1) = n + m + 1
    BY <1>6
  <2> QED
    BY <1>2, <2>1, <2>3, <2>4
<1> HIDE DEF z, n, m
<1>11. \A i \in 1..n + m + 1 : z[i] = y[i]
  <2> SUFFICES ASSUME NEW i \in 1..n + m + 1 PROVE z[i] = y[i]
    OBVIOUS
  <2>1. CASE i <= n
    BY <1>6, <1>8, <2>1
  <2>2. CASE i > n /\ i <= n + m
    <3>1. i - n \in 1..m /\ n + (i - n) = i
      BY <1>6, <2>2
    <3>2. z[n + (i - n)] = y[n + (i - n)]
      BY <1>9, <3>1
    <3> QED
      BY <3>1, <3>2
  <2>3. CASE i = n + m + 1
    BY <1>10, <2>3
  <2> QED
    BY <1>6, <2>1, <2>2, <2>3
<1>12. z = y
  <2>1. Len(z) = Len(y)
    BY <1>6
  <2>2. \A i \in 1..Len(z) : z[i] = y[i]
    BY <1>6, <1>11
  <2>3. y \in Seq(S)
    BY <1>3
  <2> QED
    BY <1>7, <2>1, <2>2, <2>3, SeqsEqual
<1> QED
  BY <1>12, Zenon DEF z, y, v, b, JoinedThenNext, NextThenJoined

\* The same for the first k bits of a code.
LEMMA AppendNext ==
  ASSUME NEW S, NEW w \in Seq(S), NEW s \in Seq(S), NEW k \in 1..Len(s)
  PROVE  /\ Append(w \o SubSeq(s, 1, k - 1), s[k]) = w \o SubSeq(s, 1, k)
         /\ Len(w \o SubSeq(s, 1, k - 1)) = Len(w) + (k - 1)
<1>1. k \in Nat /\ k - 1 \in 0..Len(s) /\ Len(s) \in Nat /\ s[k] \in S /\ k \in 1..Len(s)
  OBVIOUS
<1> DEFINE a == SubSeq(s, 1, k - 1)
           c == SubSeq(s, 1, k)
<1>2. a \in Seq(S) /\ Len(a) = k - 1 /\ \A i \in 1..k - 1 : a[i] = s[i]
  BY <1>1
<1>3. c \in Seq(S) /\ Len(c) = k /\ \A i \in 1..k : c[i] = s[i]
  BY <1>1
<1> HIDE DEF a, c
<1>4. Append(a, s[k]) = c
  <2>1. Append(a, s[k]) \in Seq(S) /\ Len(Append(a, s[k])) = k
    BY <1>1, <1>2
  <2>2. \A i \in 1..k : Append(a, s[k])[i] = c[i]
    BY <1>1, <1>2, <1>3
  <2> QED
    BY <1>1, <1>3, <2>1, <2>2
<1>5. Append(w \o a, s[k]) = w \o Append(a, s[k])
  <2> DEFINE e == s[k]
  <2>1. a \in Seq(S) /\ e \in S
    BY <1>1, <1>2
  <2> HIDE DEF e
  <2>2. Append(w \o a, e) = w \o Append(a, e)
    <3>1. a \in Seq(S)
      BY <2>1
    <3>2. e \in S
      BY <2>1
    <3>3. w \in Seq(S)
      OBVIOUS
    <3>4. JoinedThenNext(w, a, e) = NextThenJoined(w, a, e)
      BY <3>1, <3>2, <3>3, JoinedNext
    <3> QED
      BY <3>4, Zenon DEF JoinedThenNext, NextThenJoined
  <2> QED
    BY <2>2 DEF e
<1>6. Len(w \o a) = Len(w) + (k - 1)
  <2>1. a \in Seq(S)
    BY <1>2
  <2>2. Len(w \o a) = Len(w) + Len(a)
    BY <2>1, JoinedBits
  <2> QED
    BY <1>2, <2>2
<1> QED
  BY <1>4, <1>5, <1>6 DEF a, c

\* A code that finds room is put as it is (bitbuf.c).
LEMMA PutBitsIs ==
  ASSUME NEW size \in Nat, NEW w \in Seq(Bit), NEW s \in Seq(Bit), Len(w) + Len(s) <= ByteBits * size
  PROVE  PutBits(Buf(size, w), s) = Buf(size, w \o s)
<1> DEFINE n == Len(s)
           g == [k \in 0..n |-> Buf(size, w \o SubSeq(s, 1, k))]
           put[k \in 0..Len(s)] == IF k = 0 THEN Buf(size, w) ELSE bitBuf_putBit(put[k - 1], s[k])
<1>1. n \in Nat /\ Len(w) \in Nat
  OBVIOUS
<1>2. g[0] = Buf(size, w)
  <2>1. SubSeq(s, 1, 0) = << >>
    OBVIOUS
  <2>2. w \o << >> = w
    OBVIOUS
  <2>3. 0 \in 0..n
    BY <1>1
  <2> QED
    BY <2>1, <2>2, <2>3
<1>3. \A k \in 1..n : g[k] = bitBuf_putBit(g[k - 1], s[k])
  <2> SUFFICES ASSUME NEW k \in 1..n PROVE g[k] = bitBuf_putBit(g[k - 1], s[k])
    OBVIOUS
  <2> DEFINE x == w \o SubSeq(s, 1, k - 1)
  <2>1. k \in 0..n /\ k - 1 \in 0..n
    BY <1>1
  <2>2. Append(x, s[k]) = w \o SubSeq(s, 1, k) /\ Len(x) = Len(w) + (k - 1)
    BY AppendNext
  <2>3. g[k] = Buf(size, w \o SubSeq(s, 1, k)) /\ g[k - 1] = Buf(size, x)
    BY <2>1
  <2> HIDE DEF x, g
  <2>4. FreeBits(Buf(size, x)) # 0
    <3>1. Len(w) + (k - 1) < ByteBits * size
      BY <1>1 DEF ByteBits
    <3>2. FreeBits(Buf(size, x)) = ByteBits * size - Len(x)
      BY DEF FreeBits, Buf
    <3> QED
      BY <1>1, <2>2, <3>1, <3>2 DEF ByteBits
  <2>5. bitBuf_putBit(Buf(size, x), s[k]) = Buf(size, Append(x, s[k]))
    BY <2>4 DEF bitBuf_putBit, Buf
  <2> QED
    BY <2>2, <2>3, <2>5
<1>4. g = [k \in 0..Len(s) |-> IF k = 0 THEN Buf(size, w) ELSE bitBuf_putBit(g[k - 1], s[k])]
  <2>1. g = [k \in 0..n |-> g[k]]
    OBVIOUS
  <2>2. \A k \in 0..n : k = 0 \/ k \in 1..n
    BY <1>1
  <2> HIDE DEF g
  <2>3. \A k \in 0..n : g[k] = IF k = 0 THEN Buf(size, w) ELSE bitBuf_putBit(g[k - 1], s[k])
    BY <1>2, <1>3, <2>2
  <2> QED
    BY <2>1, <2>3
<1>5. put = [k \in 0..Len(s) |-> IF k = 0 THEN Buf(size, w) ELSE bitBuf_putBit(put[k - 1], s[k])]
  <2> HIDE DEF g
  <2> QED
    BY <1>4
<1>6. PutBits(Buf(size, w), s) = put[n]
  BY DEF PutBits
<1> HIDE DEF g, put
<1> DEFINE T == {k \in 0..n : put[k] = g[k]}
<1>7. 0 \in T
  <2>1. 0 \in 0..n
    BY <1>1
  <2> QED
    BY <1>2, <1>5, <2>1
<1>8. ASSUME NEW k \in 1..n, k - 1 \in T PROVE k \in T
  <2>1. k \in 0..n /\ k # 0
    BY <1>1
  <2>2. put[k] = bitBuf_putBit(put[k - 1], s[k])
    BY <1>5, <2>1
  <2> QED
    BY <1>3, <1>8, <2>1, <2>2
<1> HIDE DEF T
<1>9. n \in T
  <2>1. n \in 0..n
    BY <1>1
  <2> QED
    BY <1>1, <1>7, <1>8, <2>1, InductionUpTo
<1>10. g[n] = Buf(size, w \o s)
  <2>1. SubSeq(s, 1, n) = s /\ n \in 0..n
    OBVIOUS
  <2> HIDE DEF n
  <2> QED
    BY <2>1 DEF g
<1> QED
  BY <1>6, <1>9, <1>10 DEF T

\* The node writes a code as a whole or not at all.
LEMMA EncodesWhole ==
  ASSUME NEW codec \in {"gamma", "delta"}, NEW size \in Nat, NEW w \in Seq(Bit), NEW b,
         Code(codec, b) \in Seq(Bit)
  PROVE  (IF codec = "gamma" THEN encodeGamma(Buf(size, w), b) ELSE encodeDelta(Buf(size, w), b)) =
           IF Len(w) + Len(Code(codec, b)) <= ByteBits * size THEN Buf(size, w \o Code(codec, b)) ELSE Buf(size, w)
<1> DEFINE s == Code(codec, b)
<1>1. s \in Seq(Bit) /\ Len(s) \in Nat /\ Len(w) \in Nat /\ ByteBits * size \in Nat
  BY DEF ByteBits
<1>2. (IF codec = "gamma" THEN encodeGamma(Buf(size, w), b) ELSE encodeDelta(Buf(size, w), b)) =
        IF Len(s) > FreeBits(Buf(size, w)) THEN Buf(size, w) ELSE PutBits(Buf(size, w), s)
  BY DEF encodeGamma, encodeDelta, Code
<1>3. FreeBits(Buf(size, w)) = ByteBits * size - Len(w)
  BY DEF FreeBits, Buf
<1> HIDE DEF s
<1>4. Len(s) > FreeBits(Buf(size, w)) <=> ~(Len(w) + Len(s) <= ByteBits * size)
  <2> DEFINE x == Len(s)
             y == Len(w)
             z == ByteBits * size
  <2>1. x \in Nat /\ y \in Nat /\ z \in Nat
    BY <1>1
  <2> HIDE DEF x, y, z
  <2>2. x > z - y <=> ~(y + x <= z)
    BY <2>1
  <2> QED
    BY <1>3, <2>2 DEF x, y, z
<1>5. Len(w) + Len(s) <= ByteBits * size => PutBits(Buf(size, w), s) = Buf(size, w \o s)
  BY <1>1, PutBitsIs
<1> QED
  BY <1>2, <1>4, <1>5 DEF s

-------------------------------------------------------------------------------
(* The bytes of a line.                                                    *)

\* Whole bytes.
LEMMA Eights ==
  ASSUME NEW n \in Nat
  PROVE  /\ (n + ByteBits - 1) \div ByteBits \in Nat /\ n % ByteBits \in 0..7
         /\ n % ByteBits = 0 => n = ByteBits * ((n + ByteBits - 1) \div ByteBits)
         /\ n % ByteBits # 0 => n + (ByteBits - (n % ByteBits)) = ByteBits * ((n + ByteBits - 1) \div ByteBits)
  BY DEF ByteBits

\* Up to seven zeros fill the last byte.
LEMMA PadIs ==
  ASSUME NEW size \in Nat, NEW w \in Seq(Bit), Len(w) <= ByteBits * size
  PROVE  \E pad \in 0..7 :
           /\ bitBuf_pad(Buf(size, w)) = Buf(size, w \o Zeros(pad))
           /\ Len(w) + pad = ByteBits * bitBuf_length(Buf(size, w))
           /\ bitBuf_length(Buf(size, w)) \in Nat /\ bitBuf_length(Buf(size, w)) <= size
<1> DEFINE n == Len(w)
           L == bitBuf_length(Buf(size, w))
<1>1. n \in Nat /\ L = (n + ByteBits - 1) \div ByteBits
  BY DEF bitBuf_length, Buf
<1>2. w \o Zeros(0) = w
  BY DEF Zeros
<1>3. FreeBits(Buf(size, w)) = ByteBits * size - n
  BY DEF FreeBits, Buf
<1>4. bitBuf_pad(Buf(size, w)) =
        IF FreeBits(Buf(size, w)) = 0 \/ n % ByteBits = 0 THEN Buf(size, w)
        ELSE Buf(size, w \o Zeros(ByteBits - (n % ByteBits)))
  <2> DEFINE u == Buf(size, w)
             z == Zeros(ByteBits - (n % ByteBits))
  <2>1. Len(u.bits) = n
    BY DEF Buf
  <2>2. [u EXCEPT !.bits = @ \o z] = Buf(size, w \o z)
    <3>1. Grown(u, z) = Buf(size, w \o z)
      BY BufGrows DEF u
    <3> HIDE DEF u, z
    <3> QED
      BY <3>1, Zenon DEF Grown
  <2> HIDE DEF u, n
  <2>3. bitBuf_pad(u) = IF FreeBits(u) = 0 \/ n % ByteBits = 0 THEN u ELSE [u EXCEPT !.bits = @ \o z]
    BY <2>1, Zenon DEF bitBuf_pad
  <2> QED
    BY <2>2, <2>3, Zenon DEF u, n
<1>5. n <= ByteBits * size
  OBVIOUS
<1> HIDE DEF n, L
<1>6. L \in Nat /\ n % ByteBits \in 0..7
  BY <1>1, Eights
<1>7. CASE n % ByteBits = 0
  <2>1. n + 0 = ByteBits * L
    BY <1>1, <1>7, Eights
  <2>2. L <= size
    BY <1>1, <1>5, <1>6, <2>1 DEF ByteBits
  <2>3. bitBuf_pad(Buf(size, w)) = Buf(size, w \o Zeros(0))
    BY <1>2, <1>4, <1>7
  <2>4. 0 \in 0..7
    OBVIOUS
  <2> QED
    BY <1>6, <2>1, <2>2, <2>3, <2>4 DEF n, L
<1>8. CASE n % ByteBits # 0
  <2> DEFINE e == ByteBits - (n % ByteBits)
  <2>1. n + e = ByteBits * L
    BY <1>1, <1>8, Eights
  <2>2. e \in 1..7
    BY <1>6, <1>8 DEF ByteBits
  <2>3. n % ByteBits = ByteBits - e
    BY <1>6 DEF ByteBits
  <2>4. FreeBits(Buf(size, w)) # 0
    <3>1. n # ByteBits * size
      BY <1>8 DEF ByteBits
    <3> QED
      BY <1>1, <1>3, <3>1 DEF ByteBits
  <2>5. bitBuf_pad(Buf(size, w)) = Buf(size, w \o Zeros(e))
    BY <1>4, <1>8, <2>4
  <2> HIDE DEF e
  <2>6. L <= size
    BY <1>1, <1>5, <1>6, <2>1, <2>2 DEF ByteBits
  <2>7. e \in 0..7
    BY <2>2
  <2> QED
    BY <1>6, <2>1, <2>5, <2>6, <2>7 DEF n, L
<1> QED
  BY <1>7, <1>8

\* Bytes laid end to end, as the decoder fills its buffer.
BufferOf(size, bytes) ==
  LET filled[k \in 0..Len(bytes)] ==
        IF k = 0 THEN bitBuf_clear(size) ELSE bitBuf_putByte(filled[k - 1], bytes[k])
  IN  filled[Len(bytes)]

\* A sequence cut at a place.
LEMMA JoinNext ==
  ASSUME NEW S, NEW x \in Seq(S), NEW a \in Nat, NEW c \in Nat, a <= c, c <= Len(x)
  PROVE  SubSeq(x, 1, a) \o SubSeq(x, a + 1, c) = SubSeq(x, 1, c)
<1> DEFINE s == SubSeq(x, 1, a)
           t == SubSeq(x, a + 1, c)
           u == SubSeq(x, 1, c)
<1>1. s \in Seq(S) /\ Len(s) = a /\ \A i \in 1..a : s[i] = x[i]
  OBVIOUS
<1>2. t \in Seq(S) /\ Len(t) = c - a /\ \A i \in 1..(c - a) : t[i] = x[a + i]
  OBVIOUS
<1>3. u \in Seq(S) /\ Len(u) = c /\ \A i \in 1..c : u[i] = x[i]
  OBVIOUS
<1> HIDE DEF s, t, u
<1>4. /\ s \o t \in Seq(S) /\ Len(s \o t) = Len(s) + Len(t)
      /\ \A i \in 1..Len(s) : (s \o t)[i] = s[i]
      /\ \A i \in 1..Len(t) : (s \o t)[Len(s) + i] = t[i]
  <2>1. s \in Seq(S) /\ t \in Seq(S)
    BY <1>1, <1>2
  <2> QED
    BY <2>1, JoinedBits
<1> DEFINE v == s \o t
<1>5. v \in Seq(S) /\ Len(v) = c
  BY <1>1, <1>2, <1>4
<1>6. \A i \in 1..a : v[i] = x[i]
  BY <1>1, <1>4
<1>7. \A i \in 1..(c - a) : v[a + i] = x[a + i]
  BY <1>1, <1>2, <1>4
<1> HIDE DEF v
<1>8. \A i \in 1..c : v[i] = u[i]
  <2> SUFFICES ASSUME NEW i \in 1..c PROVE v[i] = u[i]
    OBVIOUS
  <2>1. CASE i <= a
    BY <1>3, <1>6, <2>1
  <2>2. CASE ~(i <= a)
    <3>1. i - a \in 1..(c - a) /\ a + (i - a) = i
      BY <2>2
    <3>2. v[a + (i - a)] = x[a + (i - a)]
      BY <1>7, <3>1
    <3> QED
      BY <1>3, <3>1, <3>2
  <2> QED
    BY <2>1, <2>2
<1>9. v = u
  BY <1>3, <1>5, <1>8
<1> QED
  BY <1>9 DEF v, s, t, u

\* The bytes of a sequence of bits fill the buffer with it.
LEMMA FilledIs ==
  ASSUME NEW size \in Nat, NEW x \in Seq(Bit), NEW L \in Nat, Len(x) = ByteBits * L, L <= size,
         NEW bytes, bytes = [i \in 1..L |-> SubSeq(x, ByteBits * (i - 1) + 1, ByteBits * i)]
  PROVE  BufferOf(size, bytes) = Buf(size, x)
<1> DEFINE g == [k \in 0..L |-> Buf(size, SubSeq(x, 1, ByteBits * k))]
           filled[k \in 0..Len(bytes)] ==
             IF k = 0 THEN bitBuf_clear(size) ELSE bitBuf_putByte(filled[k - 1], bytes[k])
<1>1. Len(bytes) = L /\ \A i \in 1..L : bytes[i] = SubSeq(x, ByteBits * (i - 1) + 1, ByteBits * i)
  <2>1. \A f : f = [i \in 1..L |-> f[i]] => Len(f) = L
    OBVIOUS
  <2>2. bytes = [i \in 1..L |-> bytes[i]]
    OBVIOUS
  <2> QED
    BY <2>1, <2>2
<1>2. g[0] = bitBuf_clear(size)
  <2>1. SubSeq(x, 1, ByteBits * 0) = << >>
    BY DEF ByteBits
  <2>2. 0 \in 0..L
    OBVIOUS
  <2> QED
    BY <2>1, <2>2 DEF bitBuf_clear, Buf
<1>3. \A k \in 1..L : g[k] = bitBuf_putByte(g[k - 1], bytes[k])
  <2> SUFFICES ASSUME NEW k \in 1..L PROVE g[k] = bitBuf_putByte(g[k - 1], bytes[k])
    OBVIOUS
  <2> DEFINE a == ByteBits * (k - 1)
             c == ByteBits * k
             s == SubSeq(x, 1, a)
  <2>1. k \in 0..L /\ k - 1 \in 0..L /\ a \in Nat /\ c \in Nat /\ a <= c /\ c <= ByteBits * L
    BY DEF ByteBits
  <2>2. g[k] = Buf(size, SubSeq(x, 1, c)) /\ g[k - 1] = Buf(size, s)
    BY <2>1
  <2> HIDE DEF g
  <2>3. Len(s) = a
    <3>1. a <= Len(x)
      BY <2>1 DEF ByteBits
    <3> HIDE DEF a
    <3> QED
      BY <2>1, <3>1
  <2> HIDE DEF s
  <2>4. bitBuf_length(Buf(size, s)) = k - 1
    <3>1. (a + ByteBits - 1) \div ByteBits = k - 1
      BY DEF ByteBits
    <3> QED
      BY <2>3, <3>1 DEF bitBuf_length, Buf
  <2>5. bitBuf_pad(Buf(size, s)) = Buf(size, s)
    <3>1. a % ByteBits = 0
      BY DEF ByteBits
    <3> QED
      BY <2>3, <3>1 DEF bitBuf_pad, Buf
  <2>6. k - 1 # size
    OBVIOUS
  <2>7. bitBuf_putByte(Buf(size, s), bytes[k]) = Buf(size, s \o bytes[k])
    <3> DEFINE u == Buf(size, s)
               b == bytes[k]
    <3>1. u.size = size
      BY DEF Buf
    <3>2. [u EXCEPT !.bits = @ \o b] = Buf(size, s \o b)
      <4>1. Grown(u, b) = Buf(size, s \o b)
        BY BufGrows DEF u
      <4> HIDE DEF u, b
      <4> QED
        BY <4>1, Zenon DEF Grown
    <3> HIDE DEF u, b
    <3>3. bitBuf_length(u) # u.size /\ bitBuf_pad(u) = u
      BY <2>4, <2>5, <2>6, <3>1 DEF u
    <3>4. bitBuf_putByte(u, b) = [u EXCEPT !.bits = @ \o b]
      BY <3>3, Zenon DEF bitBuf_putByte
    <3> QED
      BY <3>2, <3>4, Zenon DEF u, b
  <2>8. s \o bytes[k] = SubSeq(x, 1, c)
    <3>1. bytes[k] = SubSeq(x, a + 1, c)
      BY <1>1
    <3>2. c <= Len(x)
      BY <2>1
    <3> HIDE DEF a, c
    <3> QED
      BY <2>1, <3>1, <3>2, JoinNext DEF s
  <2> QED
    BY <2>2, <2>7, <2>8
<1>4. g = [k \in 0..Len(bytes) |-> IF k = 0 THEN bitBuf_clear(size) ELSE bitBuf_putByte(g[k - 1], bytes[k])]
  <2>1. g = [k \in 0..L |-> g[k]]
    OBVIOUS
  <2>2. \A k \in 0..L : k = 0 \/ k \in 1..L
    OBVIOUS
  <2> HIDE DEF g
  <2>3. \A k \in 0..L : g[k] = IF k = 0 THEN bitBuf_clear(size) ELSE bitBuf_putByte(g[k - 1], bytes[k])
    BY <1>2, <1>3, <2>2
  <2> QED
    BY <1>1, <2>1, <2>3
<1>5. filled = [k \in 0..Len(bytes) |-> IF k = 0 THEN bitBuf_clear(size) ELSE bitBuf_putByte(filled[k - 1], bytes[k])]
  <2> HIDE DEF g
  <2> QED
    BY <1>4
<1>6. BufferOf(size, bytes) = filled[L]
  BY <1>1 DEF BufferOf
<1> HIDE DEF g, filled
<1> DEFINE T == {k \in 0..L : filled[k] = g[k]}
<1>7. 0 \in T
  <2>1. 0 \in 0..L
    OBVIOUS
  <2> QED
    BY <1>1, <1>2, <1>5, <2>1
<1>8. ASSUME NEW k \in 1..L, k - 1 \in T PROVE k \in T
  <2>1. k \in 0..L /\ k # 0
    OBVIOUS
  <2>2. filled[k] = bitBuf_putByte(filled[k - 1], bytes[k])
    BY <1>1, <1>5, <2>1
  <2> QED
    BY <1>3, <1>8, <2>1, <2>2
<1> HIDE DEF T
<1>9. L \in T
  <2>1. L \in 0..L
    OBVIOUS
  <2> QED
    BY <1>7, <1>8, <2>1, InductionUpTo
<1>10. g[L] = Buf(size, x)
  <2>1. SubSeq(x, 1, ByteBits * L) = x /\ L \in 0..L
    OBVIOUS
  <2> QED
    BY <2>1 DEF g
<1> QED
  BY <1>6, <1>9, <1>10 DEF T

\* A line of bytes is what the decoder has in its buffer afterwards: the bits and up to seven zeros.
LEMMA BytesFill ==
  ASSUME NEW size \in Nat, NEW w \in Seq(Bit), Len(w) <= ByteBits * size
  PROVE  /\ Len(Bytes(Buf(size, w))) \in Nat /\ Len(Bytes(Buf(size, w))) <= size
         /\ \A b \in ToSet(Bytes(Buf(size, w))) : b \in [1..ByteBits -> Bit]
         /\ \E pad \in 0..7 : BufferOf(size, Bytes(Buf(size, w))) = Buf(size, w \o Zeros(pad))
<1>1. PICK pad \in 0..7 :
        /\ bitBuf_pad(Buf(size, w)) = Buf(size, w \o Zeros(pad))
        /\ Len(w) + pad = ByteBits * bitBuf_length(Buf(size, w))
        /\ bitBuf_length(Buf(size, w)) \in Nat /\ bitBuf_length(Buf(size, w)) <= size
  BY PadIs
<1> DEFINE x == w \o Zeros(pad)
           L == bitBuf_length(Buf(size, w))
           bytes == Bytes(Buf(size, w))
<1>2. x \in Seq(Bit) /\ Len(x) = ByteBits * L
  <2>1. Zeros(pad) \in Seq(Bit) /\ Len(Zeros(pad)) = pad
    BY ZerosAre
  <2>2. x \in Seq(Bit) /\ Len(x) = Len(w) + Len(Zeros(pad))
    <3>1. Zeros(pad) \in Seq(Bit)
      BY <2>1
    <3> QED
      BY <3>1, JoinedBits
  <2> QED
    BY <1>1, <2>1, <2>2
<1>3. L \in Nat /\ L <= size
  BY <1>1
<1>4. bytes = [i \in 1..L |-> SubSeq(x, ByteBits * (i - 1) + 1, ByteBits * i)]
  <2>1. bitBuf_pad(Buf(size, w)).bits = x
    BY <1>1 DEF Buf
  <2> QED
    BY <2>1 DEF Bytes
<1> HIDE DEF x, L, bytes
<1>5. BufferOf(size, bytes) = Buf(size, x)
  BY <1>2, <1>3, <1>4, FilledIs
<1>6. Len(bytes) = L /\ DOMAIN bytes = 1..L
  <2>1. \A f : f = [i \in 1..L |-> f[i]] => Len(f) = L
    BY <1>3
  <2>2. bytes = [i \in 1..L |-> bytes[i]] /\ DOMAIN bytes = 1..L
    BY <1>4
  <2> QED
    BY <2>1, <2>2
<1>7. \A b \in ToSet(bytes) : b \in [1..ByteBits -> Bit]
  <2> SUFFICES ASSUME NEW i \in 1..L PROVE bytes[i] \in [1..ByteBits -> Bit]
    BY <1>6 DEF ToSet
  <2> DEFINE a == ByteBits * (i - 1)
             c == ByteBits * i
  <2>1. bytes[i] = SubSeq(x, a + 1, c)
    BY <1>4
  <2>2. a \in Nat /\ c \in Nat /\ c - a = ByteBits /\ a <= c /\ c <= Len(x)
    BY <1>2, <1>3 DEF ByteBits
  <2> HIDE DEF a, c
  <2>3. SubSeq(x, a + 1, c) = [k \in 1..(c - a) |-> x[a + k]]
    <3>1. SubSeq(x, a + 1, c) \in Seq(Bit) /\ Len(SubSeq(x, a + 1, c)) = c - a
      BY <1>2, <2>2
    <3>2. \A k \in 1..(c - a) : SubSeq(x, a + 1, c)[k] = x[a + k]
      BY <1>2, <2>2
    <3> QED
      BY <2>2, <3>1, <3>2
  <2>4. \A k \in 1..ByteBits : x[a + k] \in Bit
    <3> SUFFICES ASSUME NEW k \in 1..ByteBits PROVE x[a + k] \in Bit
      OBVIOUS
    <3>1. a + k \in 1..Len(x)
      BY <1>2, <2>2 DEF ByteBits
    <3> QED
      BY <1>2, <3>1
  <2>5. SubSeq(x, a + 1, c) = [k \in 1..ByteBits |-> x[a + k]]
    BY <2>2, <2>3
  <2> QED
    BY <2>1, <2>4, <2>5
<1> QED
  BY <1>3, <1>5, <1>6, <1>7 DEF x, bytes

(* The integers of a block.                                                *)

\* The bit of the integer 0, which no decoder can tell from the end.
LEMMA ZeroCode ==
  ASSUME NEW code
  PROVE  Code(code, 0) \in Seq(Bit) /\ Len(Code(code, 0)) \in Nat \ {0}
<1>1. FloorLog2(0) = 0
  <2> DEFINE L == {l \in 0..MaxLog : 0 < Power[l + 1] /\ (l = 0 \/ Power[l] <= 0)}
  <2>1. MaxLog \in Nat
    BY FormatAssumption
  <2>2. \A l \in 0..MaxLog : l = 0 \/ ~(Power[l] <= 0)
    BY <2>1, PowerIs
  <2>3. 0 \in 0..MaxLog /\ 0 < Power[0 + 1]
    BY <2>1, PowerIs
  <2>4. \A l \in 0..MaxLog : (0 < Power[l + 1] /\ (l = 0 \/ Power[l] <= 0)) <=> l = 0
    BY <2>2, <2>3
  <2> QED
    BY <2>3, <2>4 DEF FloorLog2
<1>2. Zeros(0) \in Seq(Bit)
  BY ZerosAre
<1>3. MaxLog \in Nat /\ 0 \in Nat /\ 1 \in 0..MaxLog + 1 /\ 0 \in 0..MaxLog + 1
  BY FormatAssumption
<1>4. LowBits(0, 1) \in Seq(Bit) /\ Len(LowBits(0, 1)) = 1 /\ LowBits(0, 0) \in Seq(Bit) /\ Len(LowBits(0, 0)) = 0
  BY <1>3, LowBitsAre
<1>5. 1 \in Coded
  BY <1>3, PowerIs DEF Coded
<1>6. Gamma(1) \in Seq(Bit) /\ Len(Gamma(1)) \in Nat \ {0}
  BY <1>5, CodeIs DEF Code
<1>7. Gamma(0) = Zeros(0) \o LowBits(0, 1)
  BY <1>1 DEF Gamma
<1>8. Delta(0) = Gamma(1) \o LowBits(0, 0)
  BY <1>1 DEF Delta
<1>9. Gamma(0) \in Seq(Bit) /\ Len(Gamma(0)) = 1
  <2> DEFINE s == Zeros(0)
             t == LowBits(0, 1)
  <2>1. s \in Seq(Bit) /\ t \in Seq(Bit) /\ Len(s) = 0 /\ Len(t) = 1
    BY <1>2, <1>3, <1>4, ZerosAre
  <2> HIDE DEF s, t
  <2>2. s \o t \in Seq(Bit) /\ Len(s \o t) = Len(s) + Len(t)
    BY <2>1, JoinedBits
  <2> QED
    BY <1>7, <2>1, <2>2 DEF s, t
<1>10. Delta(0) \in Seq(Bit) /\ Len(Delta(0)) \in Nat \ {0}
  <2> DEFINE s == Gamma(1)
             t == LowBits(0, 0)
  <2>1. s \in Seq(Bit) /\ t \in Seq(Bit) /\ Len(s) \in Nat \ {0} /\ Len(t) = 0
    BY <1>4, <1>6
  <2> HIDE DEF s, t
  <2>2. s \o t \in Seq(Bit) /\ Len(s \o t) = Len(s) + Len(t)
    BY <2>1, JoinedBits
  <2> QED
    BY <1>8, <2>1, <2>2 DEF s, t
<1>11. CASE code = "gamma"
  <2>1. Code(code, 0) = Gamma(0)
    BY <1>11 DEF Code
  <2>2. 1 \in Nat \ {0}
    OBVIOUS
  <2> QED
    BY <1>9, <2>1, <2>2, Zenon
<1>12. CASE code # "gamma"
  <2>1. Code(code, 0) = Delta(0)
    BY <1>12 DEF Code
  <2> QED
    BY <1>10, <2>1, Zenon
<1> QED
  BY <1>11, <1>12

\* Whatever the node encodes.
Number == 0..Power[MaxLog + 1] - 1

\* What is encoded has some bits.
LEMMA NumberCode ==
  ASSUME NEW code, NEW n \in Number
  PROVE  Code(code, n) \in Seq(Bit) /\ Len(Code(code, n)) \in Nat \ {0} /\ (n # 0 => n \in Coded)
<1>1. n = 0 \/ n \in Coded
  <2>1. Power[MaxLog + 1] \in Nat
    BY FormatAssumption, PowerIs
  <2> QED
    BY <2>1 DEF Coded, Number
<1> QED
  BY <1>1, CodeIs, ZeroCode

\* Powers grow.
LEMMA PowerGrows ==
  ASSUME NEW n \in 0..MaxLog + 1, NEW m \in 0..n
  PROVE  Power[m] <= Power[n]
<1> DEFINE T == {k \in 0..n : m <= k => Power[m] <= Power[k]}
<1>1. MaxLog \in Nat /\ n \in Nat /\ m \in Nat /\ m <= n
  BY FormatAssumption
<1>2. 0 \in T
  <2>1. m <= 0 => m = 0
    BY <1>1
  <2>2. Power[0] \in Nat
    BY PowerIs
  <2> QED
    BY <1>1, <2>1, <2>2
<1>3. ASSUME NEW k \in 1..n, k - 1 \in T PROVE k \in T
  <2>1. k - 1 \in 0..MaxLog /\ (k - 1) + 1 = k /\ k \in 0..MaxLog + 1 /\ k - 1 \in 0..MaxLog + 1
    BY <1>1
  <2>2. Power[k] = 2 * Power[k - 1] /\ Power[k - 1] \in Nat /\ Power[k] \in Nat /\ Power[m] \in Nat
    <3>1. m \in 0..MaxLog + 1
      BY <1>1
    <3> QED
      BY <2>1, <3>1, PowerIs
  <2>3. CASE m <= k - 1
    BY <1>3, <2>2, <2>3
  <2>4. CASE ~(m <= k - 1)
    <3>1. m <= k => m = k
      BY <1>1, <2>4
    <3> QED
      BY <1>1, <2>2, <3>1
  <2> QED
    BY <2>3, <2>4
<1> HIDE DEF T
<1>4. n \in T
  BY <1>1, <1>2, <1>3, InductionUpTo
<1> QED
  BY <1>1, <1>4 DEF T

\* The words, and the codes of symbols, are numbers that are encoded.
LEMMA WordIs ==
  /\ Power[WordBits] \in Nat /\ Power[WordBits] >= 2 /\ Word \subseteq Number /\ Word \subseteq Nat
  /\ 0 \in Word /\ \A i \in Symbol : i + 1 \in Number /\ i + 1 # 0
<1>1. MaxLog \in Nat /\ WordBits \in Nat /\ WordBits \in 0..MaxLog + 1 /\ WordBits # 0 /\ N \in Nat /\ N < Power[MaxLog + 1]
  BY FormatAssumption
<1>2. Power[WordBits] <= Power[MaxLog + 1]
  BY <1>1, PowerGrows
<1>3. Power[WordBits] \in Nat /\ WordBits < Power[WordBits] /\ Power[MaxLog + 1] \in Nat
  BY <1>1, PowerIs
<1> QED
  BY <1>1, <1>2, <1>3 DEF Word, Number, Symbol

\* The clocks wrap.
LEMMA WrapIs ==
  ASSUME NEW x \in Int
  PROVE  /\ Wrap(x) \in Word
         /\ x \in Word => Wrap(x) = x
         /\ x < 0 /\ x + Power[WordBits] >= 0 => Wrap(x) = x + Power[WordBits]
         /\ x >= Power[WordBits] /\ x < 2 * Power[WordBits] => Wrap(x) = x - Power[WordBits]
<1> DEFINE M == Power[WordBits]
           q == x \div M
           r == x % M
<1>1. M \in Nat /\ M >= 2
  BY WordIs
<1> HIDE DEF M
<1>2. q \in Int /\ r \in 0..M - 1 /\ x = M * q + r
  BY <1>1
<1> HIDE DEF q, r
<1>3. x \in 0..M - 1 => q = 0
  <2>1. q >= 1 => M * q >= M
    BY <1>1, <1>2
  <2>2. q <= -1 => M * q <= -M
    BY <1>1, <1>2
  <2> QED
    BY <1>1, <1>2, <2>1, <2>2
<1>4. x < 0 /\ x + M >= 0 => q = -1
  <2>1. q >= 0 => M * q >= 0
    BY <1>1, <1>2
  <2>2. q <= -2 => M * q <= -(2 * M)
    BY <1>1, <1>2
  <2> QED
    BY <1>1, <1>2, <2>1, <2>2
<1>5. x >= M /\ x < 2 * M => q = 1
  <2>1. q >= 2 => M * q >= 2 * M
    BY <1>1, <1>2
  <2>2. q <= 0 => M * q <= 0
    BY <1>1, <1>2
  <2> QED
    BY <1>1, <1>2, <2>1, <2>2
<1>6. Wrap(x) = r
  BY DEF Wrap, r, M
<1>7. Word = 0..M - 1
  BY DEF Word, M
<1> QED
  BY <1>1, <1>2, <1>3, <1>4, <1>5, <1>6, <1>7 DEF M

\* What is added on one side is taken away on the other.
LEMMA WrapsBack ==
  ASSUME NEW v \in Word, NEW c \in Word, NEW a \in {0, 1}
  PROVE  /\ Wrap(v - c + a) \in Word /\ Wrap(v + 1) \in Word
         /\ Wrap(Wrap(v - c + a) + c - a) = v
         /\ Wrap(Wrap(v + 1) - 1) = v
<1> DEFINE M == Power[WordBits]
<1>1. M \in Nat /\ M >= 2 /\ Word = 0..M - 1
  BY WordIs DEF Word
<1> HIDE DEF M
<1>2. \A x \in Int : /\ Wrap(x) \in 0..M - 1
                     /\ x \in 0..M - 1 => Wrap(x) = x
                     /\ x < 0 /\ x + M >= 0 => Wrap(x) = x + M
                     /\ x >= M /\ x < 2 * M => Wrap(x) = x - M
  BY <1>1, WrapIs DEF M
<1> DEFINE d == v - c + a
           w == Wrap(d)
<1>3. d \in Int /\ d >= -M + 1 /\ d <= M /\ v \in 0..M - 1 /\ c \in 0..M - 1
  BY <1>1
<1>4. w \in 0..M - 1 /\ (w = d \/ (d < 0 /\ w = d + M) \/ (d = M /\ w = 0))
  BY <1>1, <1>2, <1>3
<1>5. Wrap(w + c - a) = v
  <2> DEFINE y == w + c - a
  <2>1. y \in Int
    BY <1>3, <1>4
  <2>2. CASE w = d
    <3>1. y = v
      BY <1>3, <2>2
    <3> QED
      BY <1>2, <1>3, <3>1
  <2>3. CASE d < 0 /\ w = d + M
    <3>1. y = v + M
      BY <1>1, <1>3, <2>3
    <3> HIDE DEF y, w, d
    <3> QED
      BY <1>1, <1>2, <1>3, <2>1, <3>1 DEF y
  <2>4. CASE d = M /\ w = 0
    <3>1. y = v - M
      BY <1>1, <1>3, <2>4
    <3> HIDE DEF y, w, d
    <3> QED
      BY <1>1, <1>2, <1>3, <2>1, <3>1 DEF y
  <2> QED
    BY <1>4, <2>2, <2>3, <2>4
<1>6. Wrap(v + 1) \in 0..M - 1 /\ Wrap(Wrap(v + 1) - 1) = v
  <2>1. CASE v + 1 \in 0..M - 1
    <3>1. Wrap(v + 1) = v + 1 /\ (v + 1) - 1 = v
      BY <1>2, <1>3, <2>1
    <3> QED
      BY <1>2, <1>3, <2>1, <3>1
  <2>2. CASE v + 1 \notin 0..M - 1
    <3>1. v = M - 1
      BY <1>1, <1>3, <2>2
    <3>2. Wrap(v + 1) = 0
      BY <1>1, <1>2, <3>1
    <3>3. Wrap(0 - 1) = M - 1
      BY <1>1, <1>2
    <3> QED
      BY <1>1, <3>1, <3>2, <3>3
  <2> QED
    BY <2>1, <2>2
<1> QED
  BY <1>1, <1>4, <1>5, <1>6

\* The code of a symbol is one more, as 0 has none.
LEMMA CodeMinusOne ==
  ASSUME NEW i \in Symbol PROVE ((i + 1) - 1) % N = i
<1>1. i \in Nat /\ N \in Nat \ {0} /\ i < N
  BY FormatAssumption DEF Symbol
<1>2. i \div N = 0
  <2>1. 0 * N <= i /\ i < 0 * N + N /\ 0 \in Nat
    BY <1>1
  <2> QED
    BY <1>1, <2>1, QuotientIs
<1>3. i % N = i
  <2>1. i % N \in Nat /\ i = (i \div N) * N + (i % N)
    BY <1>1, Quotient
  <2> DEFINE r == i % N
  <2>2. r \in Nat /\ i = 0 * N + r
    BY <1>2, <2>1
  <2> HIDE DEF r
  <2>3. i = r
    BY <1>1, <2>2
  <2> QED
    BY <2>3 DEF r
<1> QED
  <2>1. (i + 1) - 1 = i
    BY <1>1
  <2> QED
    BY <1>3, <2>1

(* A line is the codes of numbers, one after the other.                    *)

\* A code stays where it is when bits follow.
LEMMA AtLonger ==
  ASSUME NEW w \in Seq(Bit), NEW z \in Seq(Bit), NEW p \in Nat, NEW s \in Seq(Bit), At(w, p, s)
  PROVE  At(w \o z, p, s)
<1> DEFINE x == w \o z
<1>1. /\ Len(x) = Len(w) + Len(z) /\ Len(w) \in Nat /\ Len(z) \in Nat
      /\ \A i \in 1..Len(w) : x[i] = w[i]
  BY JoinedBits
<1>2. Len(s) \in Nat
  OBVIOUS
<1> HIDE DEF x
<1>3. p + Len(s) <= Len(w) /\ \A i \in 1..Len(s) : w[p + i] = s[i]
  BY DEF At
<1>4. \A i \in 1..Len(s) : x[p + i] = s[i]
  <2> SUFFICES ASSUME NEW i \in 1..Len(s) PROVE x[p + i] = s[i]
    OBVIOUS
  <2>1. p + i \in 1..Len(w)
    BY <1>1, <1>2, <1>3
  <2> QED
    BY <1>1, <1>3, <2>1
<1>5. p + Len(s) <= Len(x)
  BY <1>1, <1>2, <1>3
<1>6. At(x, p, s)
  BY <1>4, <1>5 DEF At
<1> QED
  BY <1>6 DEF x

\* A code that was put stands at the end.
LEMMA AtEnd ==
  ASSUME NEW w \in Seq(Bit), NEW s \in Seq(Bit)
  PROVE  At(w \o s, Len(w), s)
<1> DEFINE x == w \o s
<1>1. /\ Len(x) = Len(w) + Len(s) /\ Len(w) \in Nat /\ Len(s) \in Nat
      /\ \A i \in 1..Len(s) : x[Len(w) + i] = s[i]
  BY JoinedBits
<1> HIDE DEF x
<1>2. At(x, Len(w), s)
  BY <1>1 DEF At
<1> QED
  BY <1>2 DEF x

\* w is the codes of ps; the j-th ends at pos[j].
Chain(code, w, ps, pos) ==
  /\ w \in Seq(Bit) /\ ps \in Seq(Coded) /\ pos \in [0..Len(ps) -> Nat]
  /\ pos[0] = 0 /\ pos[Len(ps)] = Len(w)
  /\ \A j \in 1..Len(ps) : /\ pos[j] = pos[j - 1] + Len(Code(code, ps[j]))
                           /\ At(w, pos[j - 1], Code(code, ps[j]))

\* The empty buffer holds no codes.
LEMMA NoChain ==
  ASSUME NEW code PROVE Chain(code, << >>, << >>, [j \in 0..0 |-> 0])
  BY DEF Chain

\* One code more.
LEMMA ChainGrows ==
  ASSUME NEW code, NEW w, NEW ps, NEW pos, Chain(code, w, ps, pos), NEW b \in Coded
  PROVE  \E q : Chain(code, w \o Code(code, b), Append(ps, b), q)
<1> DEFINE s == Code(code, b)
           n == Len(ps)
           q == [j \in 0..n + 1 |-> IF j <= n THEN pos[j] ELSE Len(w) + Len(s)]
           x == w \o s
           ns == Append(ps, b)
<1>1. s \in Seq(Bit) /\ Len(s) \in Nat
  BY CodeIs
<1>2. w \in Seq(Bit) /\ ps \in Seq(Coded) /\ n \in Nat /\ pos \in [0..n -> Nat]
  BY DEF Chain
<1>3. pos[0] = 0 /\ pos[n] = Len(w)
  BY DEF Chain
<1>4. \A j \in 1..n : pos[j] = pos[j - 1] + Len(Code(code, ps[j])) /\ At(w, pos[j - 1], Code(code, ps[j]))
  BY DEF Chain
<1>5. ns \in Seq(Coded) /\ Len(ns) = n + 1 /\ ns[n + 1] = b /\ \A j \in 1..n : ns[j] = ps[j]
  BY <1>2
<1> HIDE DEF ns
<1>6. x \in Seq(Bit) /\ Len(x) = Len(w) + Len(s) /\ Len(w) \in Nat
  <2> HIDE DEF s
  <2> QED
    BY <1>1, <1>2, JoinedBits
<1>7. At(x, Len(w), s)
  <2> HIDE DEF s
  <2> QED
    BY <1>1, <1>2, AtEnd
<1>8. \A j \in 1..n : At(x, pos[j - 1], Code(code, ps[j]))
  <2> SUFFICES ASSUME NEW j \in 1..n PROVE At(x, pos[j - 1], Code(code, ps[j]))
    OBVIOUS
  <2> DEFINE t == Code(code, ps[j])
             p == pos[j - 1]
  <2>1. ps[j] \in Coded /\ j - 1 \in 0..n
    BY <1>2
  <2>2. t \in Seq(Bit) /\ p \in Nat
    BY <1>2, <2>1, CodeIs
  <2>3. At(w, p, t)
    BY <1>4
  <2> HIDE DEF t, p, s
  <2>4. At(x, p, t)
    BY <1>1, <1>2, <2>2, <2>3, AtLonger
  <2> QED
    BY <2>4 DEF t, p
<1> HIDE DEF x, s, n
<1>9. q \in [0..n + 1 -> Nat] /\ q[n + 1] = Len(w) + Len(s) /\ \A j \in 0..n : q[j] = pos[j]
  BY <1>1, <1>2, <1>6
<1> HIDE DEF q
<1>10. ASSUME NEW j \in 1..n + 1
       PROVE  q[j] = q[j - 1] + Len(Code(code, ns[j])) /\ At(x, q[j - 1], Code(code, ns[j]))
  <2>1. CASE j \in 1..n
    <3>1. j - 1 \in 0..n /\ j \in 0..n
      BY <1>2, <2>1
    <3> QED
      BY <1>4, <1>5, <1>8, <1>9, <2>1, <3>1
  <2>2. CASE j = n + 1
    <3>1. j - 1 = n /\ n \in 0..n
      BY <1>2, <2>2
    <3>2. q[j - 1] = Len(w) /\ Code(code, ns[j]) = s
      BY <1>3, <1>5, <1>9, <2>2, <3>1 DEF s
    <3> QED
      BY <1>7, <1>9, <2>2, <3>2
  <2> QED
    BY <1>2, <2>1, <2>2
<1>11. q[0] = 0 /\ q[Len(ns)] = Len(x) /\ q \in [0..Len(ns) -> Nat]
  BY <1>2, <1>3, <1>5, <1>6, <1>9
<1>12. Chain(code, x, ns, q)
  BY <1>5, <1>6, <1>10, <1>11 DEF Chain
<1> QED
  BY <1>12 DEF x, s, ns

-------------------------------------------------------------------------------
(* The fields of a block.                                                  *)

\* The k-th integer behind the header is of a field and of an entry.
LEMMA Places ==
  ASSUME NEW n \in Nat \ {0}, NEW k \in 1..6 * n
  PROVE  /\ EntryOf(k, n) \in 1..n
         /\ \E q \in 0..5 : FieldOf(k, n) = Fields[q + 1] /\ k = q * n + EntryOf(k, n)
<1> DEFINE b == k - 1
           q == b \div n
           r == b % n
<1>1. b \in Nat /\ b < 6 * n
  OBVIOUS
<1> HIDE DEF b
<1>2. q \in Nat /\ r \in Nat /\ r < n /\ b = q * n + r
  BY <1>1, Quotient
<1> HIDE DEF q, r
<1>3. q <= 5
  <2> SUFFICES ASSUME q >= 6 PROVE FALSE
    BY <1>2
  <2>1. q * n >= 6 * n
    BY <1>2
  <2> QED
    BY <1>1, <1>2, <2>1
<1>4. EntryOf(k, n) = r + 1 /\ FieldOf(k, n) = Fields[q + 1]
  BY DEF EntryOf, FieldOf, r, q, b
<1>5. k = q * n + (r + 1)
  BY <1>2 DEF b
<1> QED
  BY <1>2, <1>3, <1>4, <1>5

\* And each field of each entry has its place.
LEMMA PlaceIs ==
  ASSUME NEW n \in Nat \ {0}, NEW q \in 0..5, NEW i \in 1..n
  PROVE  q * n + i \in 1..6 * n /\ FieldOf(q * n + i, n) = Fields[q + 1] /\ EntryOf(q * n + i, n) = i
<1> DEFINE b == q * n + i - 1
<1>1. q * n \in Nat /\ q * n <= 5 * n
  OBVIOUS
<1>2. b \in Nat /\ q * n <= b /\ b < q * n + n
  BY <1>1
<1>3. b \div n = q
  <2> HIDE DEF b
  <2> QED
    BY <1>2, QuotientIs
<1>4. b % n = i - 1
  <2>1. b = (b \div n) * n + (b % n) /\ b % n \in Nat
    <3> HIDE DEF b
    <3> QED
      BY <1>2, Quotient
  <2> DEFINE r == b % n
             y == q * n
  <2>2. r \in Nat /\ y \in Nat /\ y + i - 1 = y + r
    BY <1>1, <1>3, <2>1
  <2> HIDE DEF r, y
  <2>3. r = i - 1
    BY <2>2
  <2> QED
    BY <2>3 DEF r
<1>5. q * n + i \in 1..6 * n
  BY <1>1
<1> QED
  BY <1>3, <1>4, <1>5 DEF FieldOf, EntryOf

AllFields == {"type", "res", "time", "ic", "msb", "lsb"}

\* The fields, one after the other.
LEMMA FieldIs ==
  /\ \A q \in 0..5 : Fields[q + 1] \in AllFields
  /\ \A q \in 0..5 : Fields[q + 1] = "time" => q = 2
  /\ \A q \in 0..5 : Fields[q + 1] = "ic" => q = 3
  /\ \A q, p \in 0..5 : Fields[q + 1] = Fields[p + 1] => q = p
  /\ Fields[1] = "type" /\ Fields[2] = "res" /\ Fields[3] = "time" /\ Fields[4] = "ic"
  /\ Fields[5] = "msb" /\ Fields[6] = "lsb"
<1>1. /\ Fields[1] = "type" /\ Fields[2] = "res" /\ Fields[3] = "time" /\ Fields[4] = "ic"
      /\ Fields[5] = "msb" /\ Fields[6] = "lsb"
  BY DEF Fields
<1>2. \A q \in 0..5 : q = 0 \/ q = 1 \/ q = 2 \/ q = 3 \/ q = 4 \/ q = 5
  OBVIOUS
<1> QED
  BY <1>1, <1>2 DEF AllFields

\* A field holds a symbol or a word.
LEMMA FieldTyped ==
  ASSUME NEW x \in Entry, NEW f \in AllFields
  PROVE  /\ f \in MtfField => x[f] \in Symbol
         /\ f \notin MtfField => x[f] \in Word /\ f \in {"time", "ic"}
  BY DEF Entry, AllFields, MtfField

\* Entries with equal fields are equal.
LEMMA EntriesEqual ==
  ASSUME NEW x \in Entry, NEW y \in Entry, \A q \in 0..5 : x[Fields[q + 1]] = y[Fields[q + 1]]
  PROVE  x = y
<1>1. \A q \in {0, 1, 2, 3, 4, 5} : q \in 0..5
  OBVIOUS
<1>2. /\ x[Fields[0 + 1]] = y[Fields[0 + 1]] /\ x[Fields[1 + 1]] = y[Fields[1 + 1]]
      /\ x[Fields[2 + 1]] = y[Fields[2 + 1]] /\ x[Fields[3 + 1]] = y[Fields[3 + 1]]
      /\ x[Fields[4 + 1]] = y[Fields[4 + 1]] /\ x[Fields[5 + 1]] = y[Fields[5 + 1]]
  BY <1>1
<1>3. /\ x["type"] = y["type"] /\ x["res"] = y["res"] /\ x["time"] = y["time"] /\ x["ic"] = y["ic"]
      /\ x["msb"] = y["msb"] /\ x["lsb"] = y["lsb"]
  BY <1>2, FieldIs
<1>4. /\ x.type = y.type /\ x.res = y.res /\ x.time = y.time /\ x.ic = y.ic /\ x.msb = y.msb /\ x.lsb = y.lsb
  BY <1>3
<1> QED
  BY <1>4 DEF Entry

Table(code, buf) == [p \in 0..Len(buf.bits) |-> Decode(code, buf, p)]

CountOf(code, buf) ==
  LET upto[k \in 0..Len(buf.bits)] ==
        IF k = 0 THEN [count |-> 0, rpos |-> 0]
        ELSE LET d == Decode(code, buf, upto[k - 1].rpos)
             IN  [count |-> upto[k - 1].count + (IF d.n = 0 THEN 0 ELSE 1), rpos |-> d.rpos]
  IN  upto[Len(buf.bits)].count

(* What the decoder finds on a line.                                       *)
\* Each code takes at least one bit.
LEMMA ChainEnds ==
  ASSUME NEW code, NEW w, NEW ps, NEW pos, Chain(code, w, ps, pos)
  PROVE  /\ \A j \in 0..Len(ps) : pos[j] \in Nat /\ pos[j] <= Len(w) /\ j <= pos[j]
         /\ Len(ps) \in Nat /\ Len(w) \in Nat
<1> DEFINE m == Len(ps)
           T == {j \in 0..m : pos[j] <= Len(w) /\ j <= pos[j]}
<1>1. w \in Seq(Bit) /\ ps \in Seq(Coded) /\ m \in Nat /\ Len(w) \in Nat /\ pos \in [0..m -> Nat] /\ pos[0] = 0
  BY DEF Chain
<1>2. ASSUME NEW j \in 1..m
      PROVE  pos[j] = pos[j - 1] + Len(Code(code, ps[j])) /\ pos[j - 1] + Len(Code(code, ps[j])) <= Len(w)
             /\ Len(Code(code, ps[j])) \in Nat \ {0}
  <2>1. ps[j] \in Coded
    BY <1>1
  <2>2. Len(Code(code, ps[j])) \in Nat \ {0}
    BY <2>1, CodeIs
  <2> QED
    BY <2>2 DEF Chain, At
<1>3. 0 \in T
  BY <1>1
<1>4. ASSUME NEW j \in 1..m, j - 1 \in T PROVE j \in T
  <2> DEFINE y == pos[j - 1]
             l == Len(Code(code, ps[j]))
  <2>1. y \in Nat /\ l \in Nat \ {0} /\ pos[j] = y + l /\ y + l <= Len(w) /\ j - 1 <= y /\ j \in 0..m
    <3>1. pos[j] = y + l /\ y + l <= Len(w) /\ l \in Nat \ {0}
      BY <1>2
    <3>2. j - 1 \in 0..m /\ j \in 0..m
      BY <1>1
    <3>3. y \in Nat
      BY <1>1, <3>2
    <3>4. j - 1 <= y
      BY <1>4
    <3> QED
      BY <3>1, <3>2, <3>3, <3>4
  <2> HIDE DEF y, l
  <2>2. y + l <= Len(w) /\ j <= y + l
    BY <1>1, <2>1
  <2> QED
    BY <2>1, <2>2
<1> HIDE DEF T
<1>5. \A j \in 0..m : j \in T
  BY <1>1, <1>3, <1>4, InductionUpTo
<1> QED
  BY <1>1, <1>5 DEF T

\* What the decoder reads at each code of a line, and behind the last.
LEMMA ChainReads ==
  ASSUME NEW code, NEW w, NEW ps, NEW pos, Chain(code, w, ps, pos), NEW pad \in Nat, NEW size,
         NEW buf, buf = Buf(size, w \o Zeros(pad))
  PROVE  /\ buf.bits \in Seq(Bit) /\ Len(buf.bits) \in Nat
         /\ \A j \in 1..Len(ps) : Decode(code, buf, pos[j - 1]) = [n |-> ps[j], rpos |-> pos[j]]
         /\ Decode(code, buf, pos[Len(ps)]) = Ends(buf) /\ Decode(code, buf, Len(buf.bits)) = Ends(buf)
         /\ \A j \in 0..Len(ps) : pos[j] \in 0..Len(buf.bits)
         /\ Len(ps) <= Len(buf.bits)
<1> DEFINE z == Zeros(pad)
           x == w \o z
           m == Len(ps)
<1>1. w \in Seq(Bit) /\ ps \in Seq(Coded) /\ pos \in [0..m -> Nat] /\ pos[m] = Len(w) /\ m \in Nat
  BY DEF Chain
<1>2. z \in Seq(Bit) /\ Len(z) = pad /\ \A i \in 1..pad : z[i] = 0
  BY ZerosAre
<1> HIDE DEF z
<1>3. /\ x \in Seq(Bit) /\ Len(x) = Len(w) + Len(z) /\ Len(w) \in Nat
      /\ \A i \in 1..Len(z) : x[Len(w) + i] = z[i]
  <2>1. w \in Seq(Bit) /\ z \in Seq(Bit)
    BY <1>1, <1>2
  <2> QED
    BY <2>1, JoinedBits
<1>4. buf.bits = x
  BY DEF Buf, z
<1>5. \A j \in 0..m : pos[j] \in Nat /\ pos[j] <= Len(w) /\ j <= pos[j]
  BY ChainEnds
<1>6. ASSUME NEW j \in 1..m PROVE Decode(code, buf, pos[j - 1]) = [n |-> ps[j], rpos |-> pos[j]]
  <2> DEFINE b == ps[j]
             p == pos[j - 1]
             s == Code(code, b)
  <2>1. b \in Coded /\ p \in Nat /\ At(w, p, s) /\ pos[j] = p + Len(s)
    BY <1>1 DEF Chain
  <2>2. s \in Seq(Bit)
    BY <2>1, CodeIs
  <2> HIDE DEF p, s
  <2>3. At(x, p, s)
    BY <1>1, <1>2, <2>1, <2>2, AtLonger
  <2> HIDE DEF b, x
  <2>4. Decode(code, buf, p) = [n |-> b, rpos |-> p + Len(Code(code, b))]
    BY <1>3, <1>4, <2>1, <2>3, Reads DEF s
  <2> QED
    BY <2>1, <2>4 DEF p, b, s
<1> HIDE DEF x
<1>7. Decode(code, buf, pos[m]) = Ends(buf)
  <2>1. \A i \in pos[m] + 1..Len(buf.bits) : buf.bits[i] = 0
    <3> SUFFICES ASSUME NEW i \in Len(w) + 1..Len(x) PROVE x[i] = 0
      BY <1>1, <1>4
    <3>1. i - Len(w) \in 1..pad /\ Len(w) + (i - Len(w)) = i
      BY <1>2, <1>3
    <3> QED
      BY <1>2, <1>3, <3>1
  <2>2. pos[m] \in Nat
    BY <1>1, <1>3
  <2> QED
    BY <1>3, <1>4, <2>1, <2>2, EndsThere
<1>8. Decode(code, buf, Len(buf.bits)) = Ends(buf)
  <2>1. Len(x) \in Nat /\ \A i \in Len(x) + 1..Len(x) : x[i] = 0
    BY <1>2, <1>3
  <2> QED
    BY <1>3, <1>4, <2>1, EndsThere
<1>9. \A j \in 0..m : pos[j] \in 0..Len(x)
  BY <1>2, <1>3, <1>5
<1>10. m <= Len(x)
  <2>1. m \in 0..m
    BY <1>1
  <2>2. m <= pos[m]
    BY <1>5, <2>1
  <2> QED
    BY <1>1, <1>2, <1>3, <2>2
<1>11. Len(x) \in Nat
  BY <1>2, <1>3
<1> QED
  BY <1>3, <1>4, <1>6, <1>7, <1>8, <1>9, <1>10, <1>11

Counted(st, code, buf) ==
  [count |-> st.count + (IF Decode(code, buf, st.rpos).n = 0 THEN 0 ELSE 1), rpos |-> Decode(code, buf, st.rpos).rpos]

Counts(g, L, code, buf) ==
  /\ L \in Nat /\ Len(buf.bits) = L /\ g = [k \in 0..L |-> g[k]]
  /\ g[0] = [count |-> 0, rpos |-> 0] /\ \A k \in 1..L : g[k] = Counted(g[k - 1], code, buf)

\* A function that counts is the one of CountOf.
LEMMA CountOfIs ==
  ASSUME NEW code, NEW buf, NEW L, NEW g, Counts(g, L, code, buf)
  PROVE  CountOf(code, buf) = g[L].count
<1> USE DEF Counts
<1> DEFINE upto[k \in 0..Len(buf.bits)] ==
             IF k = 0 THEN [count |-> 0, rpos |-> 0]
             ELSE [count |-> upto[k - 1].count + (IF Decode(code, buf, upto[k - 1].rpos).n = 0 THEN 0 ELSE 1),
                   rpos |-> Decode(code, buf, upto[k - 1].rpos).rpos]
           a == [count |-> 0, rpos |-> 0]
<1>1. CountOf(code, buf) = upto[L].count
  BY DEF CountOf
<1>2. g = [k \in 0..L |-> IF k = 0 THEN a ELSE Counted(g[k - 1], code, buf)]
  <2>1. g = [k \in 0..L |-> g[k]]
    OBVIOUS
  <2>2. \A k \in 0..L : k = 0 \/ k \in 1..L
    OBVIOUS
  <2>3. \A k \in 0..L : g[k] = IF k = 0 THEN a ELSE Counted(g[k - 1], code, buf)
    BY <2>2
  <2> QED
    BY <2>1, <2>3
<1>3. upto = [k \in 0..L |-> IF k = 0 THEN a ELSE Counted(upto[k - 1], code, buf)]
  BY <1>2 DEF Counted
<1> HIDE DEF upto
<1> DEFINE T == {k \in 0..L : upto[k] = g[k]}
<1>4. 0 \in T
  <2>1. 0 \in 0..L
    OBVIOUS
  <2> QED
    BY <1>2, <1>3, <2>1
<1>5. ASSUME NEW k \in 1..L, k - 1 \in T PROVE k \in T
  <2>1. k \in 0..L /\ k # 0
    OBVIOUS
  <2> QED
    BY <1>2, <1>3, <1>5, <2>1
<1> HIDE DEF T
<1>6. L \in T
  <2>1. L \in 0..L
    OBVIOUS
  <2> QED
    BY <1>4, <1>5, <2>1, InductionUpTo
<1> QED
  BY <1>1, <1>6 DEF T

\* The decoder counts to some number.
LEMMA CountTyped ==
  ASSUME NEW code, NEW buf, buf.bits \in Seq(Bit)
  PROVE  CountOf(code, buf) \in Nat
<1> DEFINE L == Len(buf.bits)
           S == [count : Nat, rpos : 0..L]
           F == [q \in S \X (1..L) |-> Counted(q[1], code, buf)]
           a == [count |-> 0, rpos |-> 0]
<1>1. L \in Nat
  OBVIOUS
<1>2. a \in S
  BY <1>1
<1>3. \A st \in S : Counted(st, code, buf) \in S
  <2> SUFFICES ASSUME NEW st \in S PROVE Counted(st, code, buf) \in S
    OBVIOUS
  <2>1. Decode(code, buf, st.rpos) \in [n : Nat, rpos : 0..L]
    BY DecodeIsTyped
  <2> QED
    BY <2>1 DEF Counted
<1>4. F \in [S \X (1..L) -> S] /\ \A st \in S, k \in 1..L : F[<<st, k>>] = Counted(st, code, buf)
  BY <1>3
<1>5. \A k \in 1..L : k - 1 \in 0..L
  BY <1>1
<1>6. L \in 0..L
  BY <1>1
<1>7. \A st \in S : st.count \in Nat
  OBVIOUS
<1> HIDE DEF F, S, L
<1>8. PICK g : Recurs(g, L, S, a, F)
  <2> HIDE DEF a
  <2> QED
    BY <1>1, <1>2, <1>4, Recursion
<1>9. g \in [0..L -> S] /\ g[0] = a /\ \A k \in 1..L : g[k] = Counted(g[k - 1], code, buf)
  BY <1>4, <1>5, <1>8 DEF Recurs
<1>10. CountOf(code, buf) = g[L].count
  <2>1. Len(buf.bits) = L
    BY DEF L
  <2> QED
    BY <1>1, <1>9, <2>1, CountOfIs DEF Counts
<1> QED
  BY <1>6, <1>7, <1>9, <1>10

\* It counts the codes of the line.
LEMMA CountIs ==
  ASSUME NEW code, NEW w, NEW ps, NEW pos, Chain(code, w, ps, pos), NEW pad \in Nat, NEW size
  PROVE  CountOf(code, Buf(size, w \o Zeros(pad))) = Len(ps)
<1> DEFINE buf == Buf(size, w \o Zeros(pad))
           L == Len(buf.bits)
           m == Len(ps)
           S == [count : Nat, rpos : Nat]
           g == [k \in 0..L |-> IF k <= m THEN [count |-> k, rpos |-> pos[k]] ELSE [count |-> m, rpos |-> L]]
<1> HIDE DEF buf
<1>1. /\ L \in Nat /\ m \in Nat /\ m <= L
      /\ \A j \in 1..m : Decode(code, buf, pos[j - 1]) = [n |-> ps[j], rpos |-> pos[j]]
      /\ Decode(code, buf, pos[m]) = Ends(buf) /\ Decode(code, buf, L) = Ends(buf)
      /\ \A j \in 0..m : pos[j] \in Nat
  <2>1. m \in Nat
    BY ChainEnds
  <2> QED
    BY <2>1, ChainReads DEF buf
<1>2. Ends(buf) = [n |-> 0, rpos |-> L]
  BY DEF Ends
<1>3. \A j \in 1..m : ps[j] # 0
  <2>1. ps \in Seq(Coded) /\ 0 \notin Coded
    BY DEF Chain, Coded
  <2> QED
    BY <2>1
<1>4. pos[0] = 0
  BY DEF Chain
<1> HIDE DEF L, m
<1>5. g \in [0..L -> S]
  <2> SUFFICES ASSUME NEW k \in 0..L PROVE g[k] \in S
    OBVIOUS
  <2>1. k <= m => k \in 0..m
    BY <1>1
  <2> QED
    BY <1>1, <2>1
<1>6. g[0] = [count |-> 0, rpos |-> 0]
  BY <1>1, <1>4
<1>7. ASSUME NEW k \in 1..L PROVE g[k] = Counted(g[k - 1], code, buf)
  <2>1. k \in 0..L /\ k - 1 \in 0..L
    BY <1>1
  <2>2. CASE k <= m
    <3>1. k \in 1..m /\ k - 1 <= m
      BY <1>1, <2>2
    <3>2. g[k - 1] = [count |-> k - 1, rpos |-> pos[k - 1]] /\ g[k] = [count |-> k, rpos |-> pos[k]]
      BY <2>1, <2>2, <3>1
    <3>3. Decode(code, buf, pos[k - 1]) = [n |-> ps[k], rpos |-> pos[k]] /\ ps[k] # 0
      BY <1>1, <1>3, <3>1
    <3>4. Counted(g[k - 1], code, buf) = [count |-> (k - 1) + 1, rpos |-> pos[k]]
      BY <3>2, <3>3 DEF Counted
    <3> QED
      BY <3>2, <3>4
  <2>3. CASE k = m + 1
    <3>1. k - 1 = m /\ ~(k <= m)
      BY <1>1, <2>3
    <3>2. g[k - 1] = [count |-> m, rpos |-> pos[m]] /\ g[k] = [count |-> m, rpos |-> L]
      BY <1>1, <2>1, <3>1
    <3>3. Counted(g[k - 1], code, buf) = [count |-> m + 0, rpos |-> L]
      BY <1>1, <1>2, <3>2 DEF Counted
    <3> QED
      BY <1>1, <3>2, <3>3
  <2>4. CASE k > m + 1
    <3>1. ~(k - 1 <= m) /\ ~(k <= m)
      BY <1>1, <2>4
    <3>2. g[k - 1] = [count |-> m, rpos |-> L] /\ g[k] = [count |-> m, rpos |-> L]
      BY <2>1, <3>1
    <3>3. Counted(g[k - 1], code, buf) = [count |-> m + 0, rpos |-> L]
      BY <1>1, <1>2, <3>2 DEF Counted
    <3> QED
      BY <1>1, <3>2, <3>3
  <2> QED
    BY <1>1, <2>2, <2>3, <2>4
<1>8. g[L].count = m
  <2>1. L \in 0..L
    BY <1>1
  <2>2. CASE L <= m
    <3>1. L = m
      BY <1>1, <2>2
    <3> QED
      BY <2>1, <2>2, <3>1
  <2>3. CASE ~(L <= m)
    BY <2>1, <2>3
  <2> QED
    BY <2>2, <2>3
<1> HIDE DEF g, S
<1>9. CountOf(code, buf) = g[L].count
  <2>1. Len(buf.bits) = L
    BY DEF L
  <2> QED
    BY <1>1, <1>5, <1>6, <1>7, <2>1, CountOfIs DEF Counts
<1> QED
  BY <1>8, <1>9 DEF buf, m

-----------------------------------------------------------------------------
(* The round trip of the library's own test (test.c).                      *)

\* The library encodes two integers one behind the other, and pads.
Packed(codec, a, b, size) ==
  LET put(n, buf) == IF codec = "gamma" THEN elias_gamma_encode(n, buf) ELSE elias_delta_encode(n, buf)
  IN  bitBuf_pad(put(b, put(a, bitBuf_clear(size))))

\* What is there is the two codes and up to seven zeros.
LEMMA PackedIs ==
  ASSUME NEW codec, NEW a \in Coded, NEW b \in Coded, NEW size \in Nat,
         Len(Code(codec, a)) + Len(Code(codec, b)) <= ByteBits * size
  PROVE  \E pad \in 0..7 :
           Packed(codec, a, b, size) = Buf(size, (Code(codec, a) \o Code(codec, b)) \o Zeros(pad))
<1> DEFINE s == Code(codec, a)
           t == Code(codec, b)
           none == << >>
<1>1. /\ s \in Seq(Bit) /\ t \in Seq(Bit) /\ Len(s) \in Nat /\ Len(t) \in Nat
  BY CodeIs
<1>2. none \in Seq(Bit) /\ Len(none) = 0 /\ none \o s = s /\ bitBuf_clear(size) = Buf(size, none)
  BY <1>1 DEF bitBuf_clear, Buf
<1>3. Len(s) + Len(t) <= ByteBits * size /\ ByteBits * size \in Nat
  BY DEF ByteBits
<1>4. Packed(codec, a, b, size) = bitBuf_pad(PutBits(PutBits(Buf(size, none), s), t))
  BY <1>2 DEF Packed, Code, elias_gamma_encode, elias_delta_encode
<1> HIDE DEF s, t, none
<1>5. PutBits(Buf(size, none), s) = Buf(size, s)
  <2>1. Len(none) + Len(s) <= ByteBits * size
    BY <1>1, <1>2, <1>3
  <2> QED
    BY <1>1, <1>2, <2>1, PutBitsIs
<1>6. PutBits(Buf(size, s), t) = Buf(size, s \o t)
  BY <1>1, <1>3, PutBitsIs
<1>7. s \o t \in Seq(Bit) /\ Len(s \o t) <= ByteBits * size
  BY <1>1, <1>3
<1>8. \E pad \in 0..7 : bitBuf_pad(Buf(size, s \o t)) = Buf(size, (s \o t) \o Zeros(pad))
  BY <1>7, PadIs
<1> QED
  BY <1>4, <1>5, <1>6, <1>8 DEF s, t

\* Two integers that were encoded are read back, and then the end of the line: for either
\* code, any two integers that have one and any buffer that has room for them. TLC's run
\* evaluates this for the integers up to 20 (CodecsRoundTrip).
THEOREM TwoReadBack ==
  ASSUME NEW codec \in {"gamma", "delta"}, NEW a \in Coded, NEW b \in Coded, NEW size \in Nat,
         Len(Code(codec, a)) + Len(Code(codec, b)) <= ByteBits * size
  PROVE  RoundTrip(codec, <<a, b>>, size)
<1> DEFINE buf == Packed(codec, a, b, size)
           s == Code(codec, a)
           t == Code(codec, b)
           w == s \o t
<1>1. s \in Seq(Bit) /\ t \in Seq(Bit) /\ Len(s) \in Nat /\ Len(t) \in Nat
  BY CodeIs
<1>2. PICK pad \in 0..7 : buf = Buf(size, w \o Zeros(pad))
  BY PackedIs
<1>3. RoundTrip(codec, <<a, b>>, size) <=>
        LET one == Decode(codec, buf, 0)
            two == Decode(codec, buf, one.rpos)
        IN  one.n = a /\ two.n = b /\ Decode(codec, buf, two.rpos).n = 0
  BY DEF RoundTrip, Packed, Decode
<1>4. w \in Seq(Bit) /\ Zeros(pad) \in Seq(Bit) /\ Len(w) = Len(s) + Len(t) /\ Len(w) \in Nat /\ Len(Zeros(pad)) = pad
  BY <1>1, ZerosAre
<1>5. At(w, 0, w) /\ At(w, Len(s), t)
  BY <1>1, <1>4 DEF At
<1>6. At(w, 0, s)
  BY <1>1, <1>4, <1>5, AtJoined
<1> HIDE DEF buf, s, t
<1>7. buf.bits = w \o Zeros(pad) /\ buf.bits \in Seq(Bit) /\ Len(buf.bits) = Len(w) + pad
  BY <1>2, <1>4 DEF Buf
<1> HIDE DEF w
<1>8. At(buf.bits, 0, s) /\ At(buf.bits, Len(s), t)
  BY <1>1, <1>4, <1>5, <1>6, <1>7, AtLonger
<1>9. Decode(codec, buf, 0) = [n |-> a, rpos |-> 0 + Len(s)]
  BY <1>7, <1>8, Reads DEF s
<1>10. Decode(codec, buf, Len(s)) = [n |-> b, rpos |-> Len(s) + Len(t)]
  BY <1>1, <1>7, <1>8, Reads DEF t
<1>11. Decode(codec, buf, Len(s) + Len(t)) = Ends(buf)
  <2>1. \A i \in Len(w) + 1..Len(buf.bits) : buf.bits[i] = 0
    <3> SUFFICES ASSUME NEW i \in Len(w) + 1..Len(w) + pad PROVE (w \o Zeros(pad))[i] = 0
      BY <1>7
    <3>1. i - Len(w) \in 1..pad /\ i = Len(w) + (i - Len(w))
      BY <1>4
    <3>2. (w \o Zeros(pad))[Len(w) + (i - Len(w))] = Zeros(pad)[i - Len(w)]
      BY <1>4, <3>1, JoinedBits
    <3> QED
      BY <3>1, <3>2, ZerosAre
  <2> QED
    BY <1>4, <1>7, <2>1, EndsThere
<1>12. 0 + Len(s) = Len(s)
  BY <1>1
<1> QED
  BY <1>3, <1>9, <1>10, <1>11, <1>12 DEF Ends
=============================================================================
