---------------------------- MODULE ApiAccessProofs ----------------------------
(***************************************************************************)
(* Theorems about ApiAccess, for any callers, clients, keys, requests and  *)
(* bounds.                                                                 *)
(***************************************************************************)
EXTENDS ApiAccess, FiniteSetTheorems, WellFoundedInduction, TLAPS

----------------------------------------------------------------------------
(* Powers of ten. *)

\* Every set of numbers has a least one.
LEMMA Least ==
    ASSUME NEW T \in SUBSET Nat, T # {}
    PROVE  \E x \in T : \A y \in T : x <= y
<1> DEFINE B == {0 .. k : k \in T}
           R == StrictSubsetOrdering(Nat)
           F == FiniteSubsetsOf(Nat)
<1>1. B \subseteq F /\ B # {}
  <2>1. \A k \in T : IsFiniteSet(0 .. k) /\ 0 .. k \in SUBSET Nat
    BY FS_Interval
  <2> QED
    BY <2>1 DEF FiniteSubsetsOf
<1>2. IsWellFoundedOn(R, F)
  BY FS_StrictSubsetOrderingWellFounded
<1> HIDE DEF B, R, F
<1>3. \E b \in B : \A d \in B : ~(<<d, b>> \in R)
  BY <1>1, <1>2, WFMin
<1>4. PICK x \in T : \A y \in T : ~(<<0 .. y, 0 .. x>> \in R)
  BY <1>3 DEF B
<1>5. ASSUME NEW y \in T, y < x PROVE FALSE
  <2>1. 0 .. y \subseteq 0 .. x /\ x \in 0 .. x /\ x \notin 0 .. y
    BY <1>5
  <2>2. 0 .. y \in SUBSET Nat /\ 0 .. x \in SUBSET Nat
    OBVIOUS
  <2> QED
    BY <1>4, <2>1, <2>2 DEF R, StrictSubsetOrdering
<1> QED
  BY <1>5

\* Induction: a set of numbers with 0 and every successor has all of them.
LEMMA SetInduction ==
    ASSUME NEW S \in SUBSET Nat, 0 \in S, \A n \in S : n + 1 \in S
    PROVE  S = Nat
<1> SUFFICES ASSUME Nat \ S # {} PROVE FALSE
  OBVIOUS
<1>1. PICK x \in Nat \ S : \A y \in Nat \ S : x <= y
  BY Least
<1>2. x # 0 /\ x - 1 \in Nat
  BY <1>1
<1>3. x - 1 \in S
  BY <1>1, <1>2
<1> QED
  BY <1>1, <1>3

\* g is the powers up to 10^n.
UpTo(g, n) ==
    /\ g \in [0 .. n -> Nat]
    /\ \A k \in 0 .. n : g[k] = IF k = 0 THEN 1 ELSE 10 * g[k - 1]

\* Tables of powers exist, and agree where they overlap: so that the recursion
\* defines a function.
LEMMA PowersUpTo ==
    ASSUME NEW n \in Nat
    PROVE  \E g : UpTo(g, n)
<1> DEFINE S == {i \in Nat : \E g : UpTo(g, i)}
<1>1. UpTo([k \in 0 .. 0 |-> 1], 0)
  BY DEF UpTo
<1>2. ASSUME NEW i \in S PROVE i + 1 \in S
  <2>1. PICK g : UpTo(g, i)
    OBVIOUS
  <2> DEFINE h == [k \in 0 .. i + 1 |-> IF k <= i THEN g[k] ELSE 10 * g[i]]
  <2>2. h \in [0 .. i + 1 -> Nat]
    BY <2>1 DEF UpTo
  <2>3. ASSUME NEW k \in 0 .. i + 1
        PROVE  h[k] = IF k = 0 THEN 1 ELSE 10 * h[k - 1]
    <3>1. CASE k <= i
      <4>1. k \in 0 .. i /\ (k # 0 => k - 1 \in 0 .. i + 1 /\ k - 1 <= i)
        BY <3>1
      <4> QED
        BY <2>1, <3>1, <4>1 DEF UpTo
    <3>2. CASE k = i + 1
      BY <3>2
    <3> QED
      BY <3>1, <3>2
  <2>4. UpTo(h, i + 1)
    BY <2>2, <2>3 DEF UpTo
  <2> QED
    BY <2>4
<1> HIDE DEF S
<1>3. S \in SUBSET Nat /\ 0 \in S
  BY <1>1 DEF S
<1>4. S = Nat
  BY <1>2, <1>3, SetInduction
<1> QED
  BY <1>4 DEF S

LEMMA PowersAgree ==
    ASSUME NEW m \in Nat, NEW n \in Nat, NEW g, UpTo(g, m), NEW h, UpTo(h, n), NEW k \in Nat,
           k <= m, k <= n
    PROVE  g[k] = h[k]
<1> DEFINE S == {i \in Nat : i <= m /\ i <= n => g[i] = h[i]}
<1>1. 0 \in S
  BY DEF UpTo
<1>2. ASSUME NEW i \in S PROVE i + 1 \in S
  BY DEF UpTo
<1> HIDE DEF S
<1>3. S \in SUBSET Nat
  BY DEF S
<1>4. S = Nat
  BY <1>1, <1>2, <1>3, SetInduction
<1> QED
  BY <1>4 DEF S

LEMMA PowerIsDefined ==
    Power = [k \in Nat |-> IF k = 0 THEN 1 ELSE 10 * Power[k - 1]]
<1> DEFINE Row(n) == CHOOSE g : UpTo(g, n)
           P == [n \in Nat |-> Row(n)[n]]
<1>1. ASSUME NEW n \in Nat PROVE UpTo(Row(n), n)
  BY PowersUpTo
<1> HIDE DEF Row
<1>2. ASSUME NEW k \in Nat PROVE P[k] = IF k = 0 THEN 1 ELSE 10 * P[k - 1]
  <2>1. CASE k = 0
    BY <1>1, <2>1 DEF UpTo
  <2>2. CASE k # 0
    <3>1. k - 1 \in Nat /\ k \in 0 .. k
      BY <2>2
    <3>2. Row(k)[k] = 10 * Row(k)[k - 1]
      BY <1>1, <2>2, <3>1 DEF UpTo
    <3>3. Row(k)[k - 1] = Row(k - 1)[k - 1]
      BY <1>1, <3>1, PowersAgree
    <3> QED
      BY <2>2, <3>1, <3>2, <3>3
  <2> QED
    BY <2>1, <2>2
<1>3. P = [k \in Nat |-> IF k = 0 THEN 1 ELSE 10 * P[k - 1]]
  BY <1>2
<1> HIDE DEF P
<1>4. \E p : p = [k \in Nat |-> IF k = 0 THEN 1 ELSE 10 * p[k - 1]]
  BY <1>3
<1> QED
  BY <1>4 DEF Power

\* What the recursion computes.
LEMMA Powers ==
    /\ \A k \in Nat : Power[k] \in Nat /\ Power[k] > k
    /\ Power[0] = 1
    /\ \A k \in Nat : Power[k + 1] = 10 * Power[k]
<1>1. Power[0] = 1 /\ \A k \in Nat : Power[k + 1] = 10 * Power[k]
  <2>1. \A k \in Nat : Power[k] = IF k = 0 THEN 1 ELSE 10 * Power[k - 1]
    BY PowerIsDefined
  <2> QED
    BY <2>1
<1> DEFINE S == {k \in Nat : Power[k] \in Nat /\ Power[k] > k}
<1>2. 0 \in S /\ S \in SUBSET Nat
  BY <1>1
<1>3. ASSUME NEW k \in S PROVE k + 1 \in S
  BY <1>1
<1> HIDE DEF S
<1>4. S = Nat
  BY <1>2, <1>3, SetInduction
<1> QED
  BY <1>1, <1>4 DEF S

----------------------------------------------------------------------------
(* Amounts. *)

\* Every number other than zero has a last zero, and what is left of it without
\* its zeros makes it up again.
LEMMA ZerosAreExact ==
    ASSUME NEW i \in Nat, i > 0
    PROVE  /\ Zeros(i) \in Nat
           /\ i \div Power[Zeros(i)] \in Nat
           /\ (i \div Power[Zeros(i)]) * Power[Zeros(i)] = i
<1> DEFINE T == {k \in Nat : i % Power[k + 1] # 0}
<1>1. i \in T
  <2>1. Power[i + 1] \in Nat /\ Power[i + 1] > i
    BY Powers
  <2>2. i % Power[i + 1] = i
    BY <2>1
  <2> QED
    BY <2>2
<1>2. PICK k \in T : \A j \in T : k <= j
  BY <1>1, Least
<1>3. k \in 0 .. i
  BY <1>1, <1>2
<1>4. i % Power[k] = 0
  <2>1. CASE k = 0
    BY <2>1, Powers
  <2>2. CASE k # 0
    <3>1. k - 1 \in Nat /\ k - 1 \notin T
      BY <1>2, <2>2
    <3>2. k - 1 + 1 = k
      BY <3>1
    <3> QED
      BY <3>1, <3>2
  <2> QED
    BY <2>1, <2>2
<1>5. \E j \in 0 .. i : i % Power[j] = 0 /\ i % Power[j + 1] # 0
  BY <1>2, <1>3, <1>4
<1> HIDE DEF T
<1>6. Zeros(i) \in 0 .. i /\ i % Power[Zeros(i)] = 0
  BY <1>5 DEF Zeros
<1> DEFINE p == Power[Zeros(i)]
<1>7. p \in Nat /\ p > 0 /\ i % p = 0
  BY <1>6, Powers
<1> HIDE DEF p
<1>8. i \div p \in Nat /\ (i \div p) * p = i
  BY <1>7
<1> QED
  BY <1>6, <1>8 DEF p

\* Scan loses nothing of a number.
LEMMA ScanIsExact ==
    ASSUME NEW text \in Amounts, parsePositiveNumeric(text) # Malformed
    PROVE  LET value == parsePositiveNumeric(text)
           IN  /\ value.int \in Nat
               /\ IF text.scale = 0
                  THEN value.exp \in Nat /\ value.int * Power[value.exp] = text.int
                  ELSE value.exp = -text.scale /\ value.int = text.int
<1>1. text \notin {None, Malformed} /\ text.int \in Nat /\ text.int > 0 /\ text.scale \in Nat
  BY DEF parsePositiveNumeric, Amounts
<1> DEFINE z == Zeros(text.int)
<1>2. /\ z \in Nat /\ text.int \div Power[z] \in Nat
      /\ (text.int \div Power[z]) * Power[z] = text.int
  BY <1>1, ZerosAreExact
<1> HIDE DEF z
<1>3. CASE text.scale = 0
  BY <1>1, <1>2, <1>3 DEF parsePositiveNumeric, z
<1>4. CASE text.scale # 0
  BY <1>1, <1>4 DEF parsePositiveNumeric
<1> QED
  BY <1>3, <1>4

\* The column is at most half a cent off.
LEMMA CentsAreClose ==
    ASSUME NEW text \in Amounts, parsePositiveNumeric(text) # Malformed
    PROVE  WithinHalfACent(numericString([int |-> Cents(parsePositiveNumeric(text)), exp |-> -2]), text)
<1> DEFINE value == parsePositiveNumeric(text)
           cents == Cents(value)
           s == text.scale
           i == text.int
<1>1. s \in Nat /\ i \in Nat
  BY DEF Amounts, parsePositiveNumeric
<1>2. /\ value.int \in Nat
      /\ IF s = 0 THEN value.exp \in Nat /\ value.int * Power[value.exp] = i
         ELSE value.exp = -s /\ value.int = i
  BY ScanIsExact
<1>3. numericString([int |-> cents, exp |-> -2]) = [int |-> cents, scale |-> 2]
  BY DEF numericString
<1>4. Power[0] = 1 /\ Power[1] = 10 /\ Power[2] = 100
  <2>1. Power[0 + 1] = 10 * Power[0] /\ Power[1 + 1] = 10 * Power[1]
    BY Powers
  <2> QED
    BY <2>1, Powers
<1> HIDE DEF value, cents
<1>5. CASE s = 0
  <2>1. value.exp >= -2 /\ value.exp \in Nat
    BY <1>2, <1>5
  <2>2. Power[value.exp + 1] = 10 * Power[value.exp] /\ Power[value.exp + 1 + 1] = 10 * Power[value.exp + 1]
    BY <2>1, Powers
  <2>3. Power[value.exp + 2] = 100 * Power[value.exp] /\ Power[value.exp] \in Nat
    <3>1. value.exp + 1 + 1 = value.exp + 2
      BY <2>1
    <3> QED
      BY <2>1, <2>2, <3>1, Powers
  <2>4. cents = value.int * (100 * Power[value.exp])
    BY <2>1, <2>3 DEF Cents, cents
  <2>5. value.int * (100 * Power[value.exp]) = 100 * (value.int * Power[value.exp])
    BY <1>2, <2>3
  <2>6. cents = 100 * i
    BY <1>2, <1>5, <2>4, <2>5
  <2>7. 200 * (cents * Power[s] - i * Power[2]) = 0
    BY <1>1, <1>4, <1>5, <2>6
  <2>8. Power[2] * Power[s] = 100
    BY <1>4, <1>5
  <2> QED
    BY <1>3, <2>7, <2>8 DEF WithinHalfACent, cents, value
<1>6. CASE s \in 1 .. 2
  <2>1. cents = i * Power[2 - s] /\ 2 - s \in {0, 1}
    <3>1. value.exp >= -2 /\ value.exp + 2 = 2 - s
      BY <1>2, <1>6
    <3> QED
      BY <1>2, <1>6, <3>1 DEF Cents, cents
  <2>2. 200 * (cents * Power[s] - i * Power[2]) = 0 /\ Power[2] * Power[s] \in Nat
    BY <1>1, <1>4, <1>6, <2>1
  <2> QED
    BY <1>3, <2>2 DEF WithinHalfACent, cents, value
<1>7. CASE s > 2
  <2> DEFINE unit == Power[s - 2]
  <2>1. s - 2 \in Nat /\ ~(value.exp >= -2) /\ -2 - value.exp = s - 2
    BY <1>1, <1>2, <1>7
  <2>2. unit \in Nat /\ unit > 0
    BY <2>1, Powers
  <2>3. Power[s] = 100 * unit
    <3>1. Power[s - 2 + 1] = 10 * Power[s - 2] /\ Power[s - 2 + 1 + 1] = 10 * Power[s - 2 + 1]
      BY <2>1, Powers
    <3>2. s - 2 + 1 + 1 = s
      BY <1>1
    <3> QED
      BY <2>2, <3>1, <3>2
  <2>4. cents = (2 * i + unit) \div (2 * unit)
    BY <1>2, <1>7, <2>1 DEF Cents, cents
  <2> HIDE DEF unit
  <2> DEFINE product == cents * unit
  <2>5. /\ cents \in Nat
        /\ 2 * product <= 2 * i + unit
        /\ 2 * i + unit < 2 * product + 2 * unit
    <3> DEFINE q == (2 * i + unit) \div (2 * unit)
               r == (2 * i + unit) % (2 * unit)
    <3>1. 2 * unit \in Nat /\ 2 * unit > 0 /\ 2 * i + unit \in Nat
      BY <1>1, <2>2
    <3>2. q \in Nat /\ r \in 0 .. 2 * unit - 1 /\ 2 * i + unit = (2 * unit) * q + r
      BY <3>1
    <3> HIDE DEF q, r
    <3>3. (2 * unit) * q = 2 * (q * unit) /\ q * unit \in Nat
      BY <2>2, <3>2
    <3>4. cents = q
      BY <2>4 DEF q
    <3> QED
      BY <1>1, <2>2, <3>2, <3>3, <3>4
  <2>6. product \in Int /\ cents * Power[s] = 100 * product
    BY <2>2, <2>3, <2>5
  <2> HIDE DEF product
  <2>7. Power[2] * Power[s] = 10000 * unit
    BY <1>4, <2>2, <2>3
  <2>8. 200 * (cents * Power[s] - i * Power[2]) = 20000 * (product - i)
    BY <1>1, <1>4, <2>6
  <2>9. 20000 * (product - i) \in -(10000 * unit) .. 10000 * unit
    BY <1>1, <2>2, <2>5, <2>6
  <2> QED
    BY <1>3, <2>7, <2>8, <2>9 DEF WithinHalfACent, cents, value
<1> QED
  BY <1>1, <1>5, <1>6, <1>7

----------------------------------------------------------------------------
(* The order of a list, and the pages that it is cut into. *)

\* A set of rows as a query sees it.
Table(S) ==
    /\ S \subseteq Rows
    /\ IsFiniteSet(S)
    /\ \A r, s \in S : r.id = s.id => r = s

LEMMA RowFields ==
    ASSUME NEW r \in Rows
    PROVE  r.id \in Nat /\ r.created \in Nat
<1>1. r.id \in Ids /\ r.created \in 0 .. MaxTime
  BY DEF Rows
<1>2. Ids \subseteq Nat
  BY IdsAssumption
<1>3. r.id \in Nat
  BY <1>1, <1>2
<1>4. 0 .. MaxTime \subseteq Nat
  BY BoundAssumption
<1>5. r.created \in Nat
  BY <1>1, <1>4, Zenon
<1> QED
  BY <1>3, <1>5

LEMMA BeforeIsAnOrder ==
    ASSUME NEW S, Table(S), NEW a \in S, NEW b \in S, NEW c \in S
    PROVE  /\ ~Before(a, a)
           /\ Before(a, b) /\ Before(b, c) => Before(a, c)
           /\ a # b => Before(a, b) \/ Before(b, a)
<1>1. /\ a.id \in Nat /\ b.id \in Nat /\ c.id \in Nat
      /\ a.created \in Nat /\ b.created \in Nat /\ c.created \in Nat
  BY RowFields DEF Table
<1>2. a # b => a.id # b.id
  BY DEF Table
<1> QED
  BY <1>1, <1>2 DEF Before

LEMMA RankIsNatural ==
    ASSUME NEW S, IsFiniteSet(S), NEW r
    PROVE  /\ IsFiniteSet({s \in S : Before(s, r)})
           /\ Rank(r, S) \in Nat
           /\ Rank(r, S) <= Cardinality(S)
  BY FS_Subset, FS_CardinalityType DEF Rank

\* A row's rank only grows as rows are inserted.
LEMMA RankGrows ==
    ASSUME NEW S, NEW T, IsFiniteSet(T), S \subseteq T, NEW r
    PROVE  Rank(r, S) <= Rank(r, T)
<1> DEFINE A == {s \in S : Before(s, r)}
           B == {s \in T : Before(s, r)}
<1>1. IsFiniteSet(B)
  BY RankIsNatural
<1>2. A \in SUBSET B
  OBVIOUS
<1>3. Cardinality(A) <= Cardinality(B)
  BY <1>1, <1>2, FS_Subset
<1> QED
  BY <1>3 DEF Rank

LEMMA RankFollowsOrder ==
    ASSUME NEW S, Table(S), NEW a \in S, NEW b \in S, Before(a, b)
    PROVE  Rank(a, S) < Rank(b, S)
<1> DEFINE A == {s \in S : Before(s, a)}
           B == {s \in S : Before(s, b)}
<1>1. IsFiniteSet(A) /\ IsFiniteSet(B) /\ Cardinality(A) \in Nat /\ Cardinality(B) \in Nat
  BY RankIsNatural, FS_CardinalityType DEF Table
<1>2. \A s \in S : Before(s, a) => Before(s, b)
  BY BeforeIsAnOrder
<1>3. A \in SUBSET B
  BY <1>2
<1>4. a \in B /\ a \notin A
  BY BeforeIsAnOrder
<1>5. Cardinality(A) <= Cardinality(B) /\ Cardinality(A) # Cardinality(B)
  BY <1>1, <1>3, <1>4, FS_Subset
<1>6. Cardinality(A) < Cardinality(B)
  BY <1>1, <1>5
<1> QED
  BY <1>6 DEF Rank

\* The ranks of a list of n rows are 0 .. n - 1, each once.
LEMMA RanksAreAnInterval ==
    ASSUME NEW S, Table(S)
    PROVE  [s \in S |-> Rank(s, S)] \in Bijection(S, 0 .. Cardinality(S) - 1)
<1> DEFINE f == [s \in S |-> Rank(s, S)]
           n == Cardinality(S)
           I == 0 .. n - 1
<1>1. n \in Nat
  BY FS_CardinalityType DEF Table
<1>2. \A s \in S : Rank(s, S) \in I
  <2> TAKE r \in S
  <2> DEFINE B == {s \in S : Before(s, r)}
  <2>1. B \in SUBSET S /\ B # S
    BY BeforeIsAnOrder
  <2>2. Cardinality(B) <= n /\ Cardinality(B) # n /\ Cardinality(B) \in Nat
    BY <2>1, FS_Subset, FS_CardinalityType DEF Table
  <2>3. Cardinality(B) \in I
    BY <1>1, <2>2
  <2> QED
    BY <2>3 DEF Rank
<1>3. ASSUME NEW a \in S, NEW b \in S, a # b
      PROVE  Rank(a, S) # Rank(b, S)
  <2>1. Rank(a, S) < Rank(b, S) \/ Rank(b, S) < Rank(a, S)
    BY <1>3, BeforeIsAnOrder, RankFollowsOrder
  <2>2. Rank(a, S) \in Nat /\ Rank(b, S) \in Nat
    BY RankIsNatural DEF Table
  <2> QED
    BY <2>1, <2>2
<1>4. f \in Injection(S, I)
  <2>1. f \in [S -> I]
    BY <1>2
  <2>2. \A a, b \in S : f[a] = f[b] => a = b
    BY <1>3
  <2> QED
    BY <2>1, <2>2, Zenon DEF Injection, IsInjective
<1>5. IsFiniteSet(I) /\ Cardinality(I) = n
  BY <1>1, FS_Interval
<1>6. f \in Surjection(S, I)
  BY <1>4, <1>5, FS_Injection
<1> QED
  BY <1>4, <1>6 DEF Bijection

\* What is beyond a page: behind a row of rank offset + limit there is a full
\* page.
LEMMA PagesAreFull ==
    ASSUME NEW S, Table(S), NEW limit \in Nat, NEW offset \in Nat,
           NEW r \in S, Rank(r, S) >= offset, r \notin Page(S, limit, offset)
    PROVE  /\ Rank(r, S) >= offset + limit
           /\ Cardinality(Page(S, limit, offset)) >= limit
<1> DEFINE P == Page(S, limit, offset)
           n == Cardinality(S)
           J == offset .. offset + limit - 1
           f == [s \in S |-> Rank(s, S)]
           g == [s \in P |-> Rank(s, S)]
<1>1. Rank(r, S) \in Nat /\ n \in Nat
  BY RankIsNatural, FS_CardinalityType DEF Table
<1>2. Rank(r, S) >= offset + limit
  <2>1. Rank(r, S) \notin J
    BY DEF Page
  <2> QED
    BY <1>1, <2>1
<1>3. f \in Surjection(S, 0 .. n - 1) /\ f \in [S -> 0 .. n - 1]
  BY RanksAreAnInterval DEF Bijection, Surjection
<1>4. Rank(r, S) \in 0 .. n - 1
  BY <1>3
<1>5. J \subseteq 0 .. n - 1
  BY <1>1, <1>2, <1>4
<1>6. \A k \in J : \E s \in P : g[s] = k
  <2> TAKE k \in J
  <2>1. PICK s \in S : f[s] = k
    BY <1>3, <1>5 DEF Surjection
  <2>2. s \in P
    BY <2>1 DEF Page
  <2> QED
    BY <2>1, <2>2
<1>7. g \in Surjection(P, J)
  <2>1. g \in [P -> J]
    BY DEF Page
  <2> QED
    BY <1>6, <2>1 DEF Surjection
<1>8. IsFiniteSet(P) /\ Cardinality(P) \in Nat
  BY FS_Subset, FS_CardinalityType DEF Page, Table
<1>9. Cardinality(J) <= Cardinality(P)
  BY <1>7, <1>8, FS_Surjection
<1>10. Cardinality(J) = limit
  BY FS_Interval
<1> QED
  BY <1>2, <1>8, <1>9, <1>10

----------------------------------------------------------------------------
(* The inductive invariant. *)

\* What was told is what is stored, and to the client that owns it.
ToldIsStored ==
    \A t \in told : \E r \in rows : t.to = r.client /\ t.row = FromDB(r)

\* What a walk has not seen of what was there is still ahead of it.
Ahead(there, seen, next, S) ==
    \A i \in there : i \in seen \/ \E r \in S : r.id = i /\ Rank(r, S) >= next
OnTrack(w, S) ==
    IF w.done THEN w.there \subseteq w.seen ELSE Ahead(w.there, w.seen, w.next, S)

WalkedList(w) == Own(KeyOwner[w.key], w.kind)
WalksOnTrack == \A c \in Callers : OnTrack(walk[c], WalkedList(walk[c]))

IInv ==
    /\ TypeOK
    /\ IsFiniteSet(rows)
    /\ ToldIsStored
    /\ FoundStaysFound
    /\ WalksOnTrack

LEMMA OwnIsATable ==
    ASSUME IInv, NEW to, NEW kind
    PROVE  Table(Own(to, kind))
<1>1. Own(to, kind) \in SUBSET rows
  BY DEF Own
<1> QED
  BY <1>1, FS_Subset DEF IInv, TypeOK, IdsAreUnique, Table

LEMMA ToldFields ==
    ASSUME NEW r \in Rows
    PROVE  FromDB(r).id = r.id /\ FromDB(r).client = r.client /\ FromDB(r).kind = r.kind
  BY DEF FromDB, payoutFromDB, fundingSourceFromDB

\* A page that is read where the walk is at keeps it on track.
LEMMA PageKeepsTrack ==
    ASSUME NEW S, Table(S), NEW limit \in Nat, NEW offset \in Nat,
           NEW there, NEW seen, Ahead(there, seen, offset, S)
    PROVE  LET page == Page(S, limit, offset)
               more == seen \cup {s.id : s \in page}
           IN  IF Cardinality(page) < limit
               THEN there \subseteq more
               ELSE Ahead(there, more, offset + limit, S)
<1> DEFINE page == Page(S, limit, offset)
           more == seen \cup {s.id : s \in page}
<1>1. ASSUME NEW i \in there, i \notin more
      PROVE  /\ \E r \in S : r.id = i /\ Rank(r, S) >= offset + limit
             /\ Cardinality(page) >= limit
  <2>1. PICK r \in S : r.id = i /\ Rank(r, S) >= offset
    BY <1>1 DEF Ahead
  <2>2. r \notin page
    BY <1>1, <2>1
  <2> HIDE DEF page
  <2>3. Rank(r, S) >= offset + limit /\ Cardinality(page) >= limit
    BY <2>1, <2>2, PagesAreFull DEF page
  <2> QED
    BY <2>1, <2>3
<1>2. Cardinality(page) \in Nat
  BY FS_Subset, FS_CardinalityType DEF Page, Table
<1> HIDE DEF page
<1>3. CASE Cardinality(page) < limit
  <2>1. there \subseteq more
    BY <1>1, <1>2, <1>3
  <2> QED
    BY <1>3, <2>1 DEF page
<1>4. CASE ~(Cardinality(page) < limit)
  <2>1. Ahead(there, more, offset + limit, S)
    BY <1>1 DEF Ahead
  <2> QED
    BY <1>4, <2>1 DEF page
<1> QED
  BY <1>3, <1>4

LEMMA TrackSurvivesInserts ==
    ASSUME NEW w \in Walks, NEW S, NEW T, IsFiniteSet(T), S \subseteq T, OnTrack(w, S)
    PROVE  OnTrack(w, T)
<1>1. \A r : Rank(r, S) <= Rank(r, T) /\ Rank(r, S) \in Nat /\ Rank(r, T) \in Nat
  BY RankGrows, RankIsNatural, FS_Subset
<1>2. w.next \in Nat
  BY DEF Walks
<1>3. \A r : Rank(r, S) >= w.next => Rank(r, T) >= w.next
  BY <1>1, <1>2
<1> QED
  BY <1>3 DEF OnTrack, Ahead

LEMMA RequestFields ==
    ASSUME IInv, NEW c \in Callers, NEW r \in Asked(c)
    PROVE  /\ r.limit \in {None, Malformed} \cup Int
           /\ r.offset \in {None, Malformed} \cup Int
           /\ r.amount \in {None, Malformed} \cup Amounts
<1>1. CASE r \in Requests[c]
  BY <1>1, RequestAssumption
<1>2. CASE r \in NextPages(c)
  <2>1. PICK q \in Requests[c] : r = [q EXCEPT !.offset = walk[c].next]
    BY <1>2 DEF NextPages
  <2>2. q = [operation |-> q.operation, kind |-> q.kind, key |-> q.key, id |-> q.id,
             limit |-> q.limit, offset |-> q.offset, amount |-> q.amount]
    BY RequestAssumption
  <2>3. r.limit = q.limit /\ r.amount = q.amount /\ r.offset = walk[c].next
    BY <2>1, <2>2
  <2>4. walk[c].next \in Nat
    BY DEF IInv, TypeOK, Walks
  <2> QED
    BY <2>3, <2>4, RequestAssumption
<1> QED
  BY <1>1, <1>2 DEF Asked

LEMMA InitIInv == Init => IInv
<1> SUFFICES ASSUME Init PROVE IInv
  OBVIOUS
<1>1. TypeOK
  BY BoundAssumption DEF Init, TypeOK, IdsAreUnique, Inserting, NoWalk, Walks
<1>2. IsFiniteSet(rows) /\ ToldIsStored
  BY FS_EmptySet DEF Init, ToldIsStored
<1>3. FoundStaysFound
  BY DEF Init, FoundStaysFound
<1>4. WalksOnTrack
  BY DEF Init, WalksOnTrack, OnTrack, NoWalk
<1> QED
  BY <1>1, <1>2, <1>3, <1>4 DEF IInv

----------------------------------------------------------------------------
(* The steps. *)

\* No row is there for what is missed.
Missing(missed) ==
    \A m \in missed : ~\E r \in rows : r.client = m.to /\ r.kind = m.kind /\ r.id = m.id

\* An answer that finds nothing leaves everything found.
LEMMA MissingIsUntold ==
    ASSUME IInv, NEW missed, Missing(missed), answer'.missed = missed, UNCHANGED told
    PROVE  FoundStaysFound'
<1> SUFFICES ASSUME NEW t \in told,
                    [to |-> t.to, kind |-> t.row.kind, id |-> t.row.id] \in missed
             PROVE  FALSE
  BY DEF FoundStaysFound
<1>1. PICK r \in rows : t.to = r.client /\ t.row = FromDB(r)
  BY DEF IInv, ToldIsStored
<1>2. t.row.id = r.id /\ t.row.kind = r.kind
  BY <1>1, ToldFields DEF IInv, TypeOK
<1> QED
  BY <1>1, <1>2 DEF Missing

LEMMA RefuseIInv ==
    ASSUME IInv, NEW status, NEW missed, Missing(missed), Refuse(status, missed),
           UNCHANGED <<rows, now>>, faults' \in 0 .. MaxFaults
    PROVE  IInv'
<1>1. answer'.missed = missed /\ UNCHANGED <<draft, told, walk>>
  BY DEF Refuse, Answer
<1>2. TypeOK'
  BY <1>1 DEF IInv, TypeOK, IdsAreUnique, Inserting
<1>3. FoundStaysFound'
  BY <1>1, MissingIsUntold
<1>4. (IsFiniteSet(rows) /\ ToldIsStored)'
  BY <1>1 DEF IInv, ToldIsStored
<1>5. WalksOnTrack'
  BY <1>1 DEF IInv, WalksOnTrack, WalkedList, Own
<1> QED
  BY <1>2, <1>3, <1>4, <1>5 DEF IInv

\* Telling a client of rows of its own, stored by then.
LEMMA TellStored ==
    ASSUME IInv, NEW to, NEW status, NEW what, rows \subseteq rows', rows' \subseteq Rows,
           what \subseteq rows', \A r \in what : r.client = to,
           Tell(to, status, {FromDB(r) : r \in what})
    PROVE  (ToldIsStored /\ FoundStaysFound)'
<1>1. told' = told \cup {[to |-> to, row |-> w] : w \in {FromDB(r) : r \in what}}
  BY DEF Tell
<1>2. answer'.missed = {}
  BY DEF Tell, Answer
<1>3. ToldIsStored'
  <2> SUFFICES ASSUME NEW t \in told'
               PROVE  \E r \in rows' : t.to = r.client /\ t.row = FromDB(r)
    BY DEF ToldIsStored
  <2>1. CASE t \in told
    BY <2>1 DEF IInv, ToldIsStored
  <2>2. CASE t \notin told
    <3>1. PICK r \in what : t = [to |-> to, row |-> FromDB(r)]
      BY <1>1, <2>2
    <3> QED
      BY <3>1
  <2> QED
    BY <2>1, <2>2
<1>4. FoundStaysFound'
  BY <1>2 DEF FoundStaysFound
<1> QED
  BY <1>3, <1>4

\* A read of rows of the client.
LEMMA GetIInv ==
    ASSUME IInv, NEW r, NEW found, Get(r, found), UNCHANGED <<now, faults>>,
           found = {row \in Own(APIKey(r), r.kind) : row.id = r.id}
    PROVE  IInv'
<1>1. UNCHANGED rows
  BY DEF Get
<1>2. CASE r.id = Malformed
  <2>1. Refuse(400, {}) /\ Missing({})
    BY <1>2 DEF Get, Missing
  <2> QED
    BY <1>1, <2>1, RefuseIInv DEF IInv, TypeOK
<1>3. CASE r.id # Malformed /\ found = {}
  <2> DEFINE missed == {[to |-> APIKey(r), kind |-> r.kind, id |-> r.id]}
  <2>1. Refuse(404, missed)
    BY <1>3 DEF Get, NotFound
  <2>2. Missing(missed)
    BY <1>3 DEF Missing, Own
  <2> HIDE DEF missed
  <2> QED
    BY <1>1, <2>1, <2>2, RefuseIInv DEF IInv, TypeOK
<1>4. CASE r.id # Malformed /\ found # {}
  <2>1. Tell(APIKey(r), 200, {FromDB(row) : row \in found}) /\ UNCHANGED <<draft, walk>>
    BY <1>4 DEF Get
  <2>2. found \subseteq rows /\ \A row \in found : row.client = APIKey(r)
    BY DEF Own
  <2>3. (ToldIsStored /\ FoundStaysFound)'
    BY <1>1, <2>1, <2>2, TellStored DEF IInv, TypeOK
  <2>4. TypeOK'
    BY <1>1, <2>1 DEF IInv, TypeOK, IdsAreUnique, Inserting
  <2>5. WalksOnTrack'
    BY <1>1, <2>1 DEF IInv, WalksOnTrack, WalkedList, Own
  <2> QED
    BY <1>1, <2>3, <2>4, <2>5 DEF IInv
<1> QED
  BY <1>2, <1>3, <1>4

LEMMA PaginationBounds ==
    ASSUME IInv, NEW c \in Callers, NEW r \in Asked(c), paginationParams(r) # Malformed
    PROVE  LET p == paginationParams(r)
           IN  /\ p.limit = Expected(r) /\ p.limit \in Nat /\ p.limit > 0
               /\ p.offset = (IF Begins(r) THEN 0 ELSE r.offset) /\ p.offset \in Nat
<1> DEFINE limit == Expected(r)
           offset == IF Begins(r) THEN 0 ELSE r.offset
<1>1. limit \in Int \cup {Malformed} /\ offset \in Int \cup {Malformed}
  BY RequestFields, BoundAssumption DEF Expected, Begins
<1>2. ~(Malformed \in {limit, offset} \/ limit <= 0 \/ limit > MaxLimit \/ offset < 0)
  BY DEF paginationParams
<1>3. paginationParams(r) = [limit |-> limit, offset |-> offset]
  BY <1>2 DEF paginationParams
<1>4. limit \in Nat /\ limit > 0 /\ offset \in Nat
  BY <1>1, <1>2
<1> QED
  BY <1>3, <1>4

\* A turn of the walk: its type, and its track.
LEMMA TurnOnTrack ==
    ASSUME IInv, NEW c \in Callers, NEW r \in Asked(c), APIKey(r) # None,
           r.kind \in {"source", "payout"}, paginationParams(r) # Malformed
    PROVE  LET p == paginationParams(r)
               S == Own(APIKey(r), r.kind)
               w == Turn(walk[c], r, S, Page(S, p.limit, p.offset))
           IN  /\ w \in Walks
               /\ ~w.done => w.key \in Keys /\ w.limit > 0
               /\ OnTrack(w, WalkedList(w))
<1> DEFINE limit == paginationParams(r).limit
           offset == paginationParams(r).offset
           S == Own(APIKey(r), r.kind)
           page == Page(S, limit, offset)
           ids == {s.id : s \in page}
           all == {s.id : s \in S}
           last == Cardinality(page) < limit
           w == walk[c]
           turned == Turn(w, r, S, page)
<1>1. /\ limit = Expected(r) /\ limit \in Nat /\ limit > 0 /\ offset \in Nat
      /\ offset = IF Begins(r) THEN 0 ELSE r.offset
  BY PaginationBounds
<1>2. Table(S)
  BY OwnIsATable
<1>3. ids \in SUBSET Ids /\ all \in SUBSET Ids
  <2>1. S \subseteq Rows /\ page \subseteq S
    BY DEF Own, Page, IInv, TypeOK
  <2> QED
    BY <2>1 DEF Rows
<1>4. w \in Walks /\ (~w.done => w.key \in Keys /\ w.limit > 0) /\ OnTrack(w, WalkedList(w))
  BY DEF IInv, TypeOK, WalksOnTrack
<1>5. r.key \in Keys /\ APIKey(r) = KeyOwner[r.key]
  BY DEF APIKey
<1>6. last \in BOOLEAN
  OBVIOUS
<1> HIDE DEF limit, offset, S, page
<1>7. CASE Begins(r)
  <2>1. turned = [kind |-> r.kind, key |-> r.key, limit |-> limit, next |-> limit,
                  there |-> all, seen |-> ids, done |-> last]
    BY <1>1, <1>7 DEF Turn
  <2> HIDE DEF last, ids, all, turned
  <2>2. turned \in Walks
    BY <1>1, <1>3, <1>5, <1>6, <2>1 DEF Walks
  <2>3. Ahead(all, {}, 0, S)
    <3>1. \A s \in S : Rank(s, S) \in Nat
      BY <1>2, RankIsNatural DEF Table
    <3>2. \A s \in S : Rank(s, S) >= 0
      BY <3>1
    <3>3. \A i \in all : \E s \in S : s.id = i /\ Rank(s, S) >= 0
      BY <3>2 DEF all
    <3> QED
      BY <3>3 DEF Ahead
  <2>4. offset = 0 /\ 0 + limit = limit
    BY <1>1, <1>7
  <2>5. {} \cup ids = ids
    OBVIOUS
  <2>6. IF last THEN all \subseteq ids ELSE Ahead(all, ids, limit, S)
    <3>1. Ahead(all, {}, offset, S)
      BY <2>3, <2>4
    <3>2. IF Cardinality(page) < limit
          THEN all \subseteq {} \cup ids
          ELSE Ahead(all, {} \cup ids, offset + limit, S)
      BY <1>1, <1>2, <3>1, PageKeepsTrack DEF ids, page
    <3> QED
      BY <2>4, <2>5, <3>2 DEF last
  <2>7. WalkedList(turned) = S
    BY <1>5, <2>1 DEF WalkedList, S
  <2>8. OnTrack(turned, S)
    BY <2>1, <2>6 DEF OnTrack
  <2> QED
    BY <1>1, <1>5, <2>1, <2>2, <2>7, <2>8 DEF turned, page, limit, offset, S
<1>8. CASE ~Begins(r) /\ GoesOn(w, r)
  <2>1. turned = [w EXCEPT !.next = @ + w.limit, !.seen = @ \cup ids, !.done = last]
    BY <1>1, <1>8 DEF Turn
  <2>2. ~w.done /\ r.kind = w.kind /\ r.key = w.key /\ limit = w.limit /\ offset = w.next
    BY <1>1, <1>8 DEF GoesOn
  <2>3. Ahead(w.there, w.seen, offset, S)
    BY <1>4, <1>5, <2>2 DEF OnTrack, WalkedList, S
  <2> HIDE DEF last, ids, turned, w
  <2>4. /\ turned.there = w.there /\ turned.seen = w.seen \cup ids /\ turned.done = last
        /\ turned.next = offset + limit /\ turned.key = w.key /\ turned.kind = w.kind
        /\ turned.limit = w.limit
    BY <1>4, <2>1, <2>2 DEF Walks
  <2>5. turned \in Walks
    <3>1. w.next + w.limit \in Nat
      BY <1>4 DEF Walks
    <3>2. w.seen \cup ids \in SUBSET Ids
      BY <1>3, <1>4 DEF Walks
    <3> QED
      BY <1>4, <1>6, <2>1, <3>1, <3>2 DEF Walks
  <2>6. IF last
        THEN w.there \subseteq w.seen \cup ids
        ELSE Ahead(w.there, w.seen \cup ids, offset + limit, S)
    BY <1>1, <1>2, <2>3, PageKeepsTrack DEF ids, last, page
  <2>7. WalkedList(turned) = S
    BY <1>5, <2>2, <2>4 DEF WalkedList, S
  <2>8. OnTrack(turned, S)
    BY <2>4, <2>6 DEF OnTrack
  <2> QED
    BY <1>1, <1>5, <2>2, <2>4, <2>5, <2>7, <2>8 DEF turned, page, limit, offset, S, w
<1>9. CASE ~Begins(r) /\ ~GoesOn(w, r)
  <2>1. turned = w
    BY <1>9 DEF Turn
  <2> QED
    BY <1>4, <2>1 DEF turned, page, limit, offset, S, w
<1> QED
  BY <1>7, <1>8, <1>9

LEMMA ListedIInv ==
    ASSUME IInv, NEW c \in Callers, NEW r \in Asked(c), NEW kind \in {"source", "payout"},
           APIKey(r) # None, r.kind = kind, paginationParams(r) # Malformed,
           Listed(c, r, Page(Own(APIKey(r), kind), paginationParams(r).limit,
                             paginationParams(r).offset)),
           UNCHANGED <<rows, now, faults>>
    PROVE  IInv'
<1> DEFINE S == Own(APIKey(r), kind)
           page == Page(S, paginationParams(r).limit, paginationParams(r).offset)
           turned == Turn(walk[c], r, S, page)
<1>1. /\ Tell(APIKey(r), 200, {FromDB(row) : row \in page})
      /\ walk' = [walk EXCEPT ![c] = turned]
      /\ UNCHANGED draft
  BY DEF Listed
<1>2. /\ turned \in Walks
      /\ ~turned.done => turned.key \in Keys /\ turned.limit > 0
      /\ OnTrack(turned, WalkedList(turned))
  BY TurnOnTrack
<1>3. page \subseteq rows /\ \A row \in page : row.client = APIKey(r)
  BY DEF Page, Own
<1> HIDE DEF page, turned
<1>4. (ToldIsStored /\ FoundStaysFound)'
  BY <1>1, <1>3, TellStored DEF IInv, TypeOK
<1>5. \A d \in Callers : walk'[d] = IF d = c THEN turned ELSE walk[d]
  BY <1>1 DEF IInv, TypeOK
<1>6. TypeOK'
  <2>1. walk' \in [Callers -> Walks]
    BY <1>1, <1>2 DEF IInv, TypeOK
  <2>2. \A d \in Callers : ~walk'[d].done => walk'[d].key \in Keys /\ walk'[d].limit > 0
    BY <1>2, <1>5 DEF IInv, TypeOK
  <2>3. IdsAreUnique'
    BY <1>1 DEF IInv, TypeOK, IdsAreUnique, Inserting
  <2> QED
    BY <1>1, <2>1, <2>2, <2>3 DEF IInv, TypeOK
<1>7. WalksOnTrack'
  <2> SUFFICES ASSUME NEW d \in Callers
               PROVE  OnTrack(walk'[d], WalkedList(walk'[d]))
    BY DEF WalksOnTrack, WalkedList, Own
  <2> QED
    BY <1>2, <1>5 DEF IInv, WalksOnTrack
<1> QED
  BY <1>4, <1>6, <1>7 DEF IInv

\* The row of an insert is committed, and its request ends.
LEMMA RowsGrow ==
    ASSUME IInv, NEW c \in Callers, draft[c] # None, rows' = rows \cup {draft[c]},
           draft' = [draft EXCEPT ![c] = None], UNCHANGED <<now, walk>>,
           faults' \in 0 .. MaxFaults
    PROVE  (TypeOK /\ IsFiniteSet(rows) /\ WalksOnTrack)'
<1>1. draft[c] \in Rows
  BY DEF IInv, TypeOK
<1>2. rows' \subseteq Rows /\ IsFiniteSet(rows')
  BY <1>1, FS_AddElement DEF IInv, TypeOK
<1>3. \A d \in Callers : draft'[d] = IF d = c THEN None ELSE draft[d]
  BY DEF IInv, TypeOK
<1>4. IdsAreUnique'
  <2>1. Inserting' \subseteq Inserting \ {c}
    BY <1>3 DEF Inserting
  <2>2. c \in Inserting
    BY DEF Inserting
  <2>3. \A r, s \in rows' : r.id = s.id => r = s
    BY <2>2 DEF IInv, TypeOK, IdsAreUnique
  <2>4. \A d \in Inserting' : draft'[d] = draft[d] /\ d \in Inserting /\ d # c
    BY <1>3, <2>1 DEF Inserting
  <2>5. \A d \in Inserting' : \A r \in rows' : r.id # draft'[d].id
    BY <2>2, <2>4 DEF IInv, TypeOK, IdsAreUnique
  <2>6. \A d, e \in Inserting' : d # e => draft'[d].id # draft'[e].id
    BY <2>4 DEF IInv, TypeOK, IdsAreUnique
  <2> QED
    BY <2>3, <2>5, <2>6 DEF IdsAreUnique
<1>5. draft' \in [Callers -> Rows \cup {None}]
  BY DEF IInv, TypeOK
<1>6. TypeOK'
  BY <1>2, <1>4, <1>5 DEF IInv, TypeOK
<1>7. WalksOnTrack'
  <2> SUFFICES ASSUME NEW d \in Callers
               PROVE  OnTrack(walk[d], WalkedList(walk[d])')
    BY DEF WalksOnTrack, WalkedList
  <2>1. WalkedList(walk[d]) \subseteq WalkedList(walk[d])'
    BY DEF WalkedList, Own
  <2>2. IsFiniteSet(WalkedList(walk[d])')
    <3>1. WalkedList(walk[d])' \in SUBSET rows'
      BY DEF WalkedList, Own
    <3> QED
      BY <1>2, <3>1, FS_Subset
  <2>3. walk[d] \in Walks /\ OnTrack(walk[d], WalkedList(walk[d]))
    BY DEF IInv, TypeOK, WalksOnTrack
  <2> QED
    BY <2>1, <2>2, <2>3, TrackSurvivesInserts
<1> QED
  BY <1>2, <1>6, <1>7

LEMMA CommitIInv ==
    ASSUME IInv, NEW c \in Callers, Commit(c)
    PROVE  IInv'
<1> DEFINE what == {draft[c]}
<1>1. /\ draft[c] # None
      /\ rows' = rows \cup what
      /\ Tell(draft[c].client, 201, {Created(draft[c])})
      /\ draft' = [draft EXCEPT ![c] = None]
      /\ UNCHANGED <<now, walk, faults>>
  BY DEF Commit
<1>2. (TypeOK /\ IsFiniteSet(rows) /\ WalksOnTrack)'
  BY <1>1, RowsGrow DEF IInv, TypeOK
<1>3. {FromDB(row) : row \in what} = {Created(draft[c])}
  BY DEF Created
<1>4. rows' \subseteq Rows
  BY <1>2 DEF TypeOK
<1> HIDE DEF what
<1>5. Tell(draft[c].client, 201, {FromDB(row) : row \in what})
  BY <1>1, <1>3
<1>6. what \subseteq rows' /\ rows \subseteq rows' /\ \A row \in what : row.client = draft[c].client
  BY <1>1 DEF what
<1>7. (ToldIsStored /\ FoundStaysFound)'
  BY <1>4, <1>5, <1>6, TellStored
<1> QED
  BY <1>2, <1>7 DEF IInv

LEMMA StatementFailsIInv ==
    ASSUME IInv, NEW c \in Callers, StatementFails(c)
    PROVE  IInv'
<1>1. /\ faults' \in 0 .. MaxFaults
      /\ answer'.missed = {} /\ UNCHANGED <<now, told, walk>>
      /\ draft' = [draft EXCEPT ![c] = None]
  BY BoundAssumption DEF StatementFails, Answer, IInv, TypeOK
<1>2. CASE UNCHANGED rows
  <2>1. \A d \in Callers : draft'[d] = IF d = c THEN None ELSE draft[d]
    BY <1>1 DEF IInv, TypeOK
  <2>2. Inserting' \subseteq Inserting /\ \A d \in Inserting' : draft'[d] = draft[d]
    BY <2>1 DEF Inserting
  <2>3. IdsAreUnique'
    BY <1>2, <2>2 DEF IInv, TypeOK, IdsAreUnique
  <2>4. draft' \in [Callers -> Rows \cup {None}]
    BY <1>1 DEF IInv, TypeOK
  <2>5. TypeOK'
    BY <1>1, <1>2, <2>3, <2>4 DEF IInv, TypeOK
  <2>6. WalksOnTrack'
    BY <1>1, <1>2 DEF IInv, WalksOnTrack, WalkedList, Own
  <2>7. (IsFiniteSet(rows) /\ ToldIsStored /\ FoundStaysFound)'
    BY <1>1, <1>2 DEF IInv, ToldIsStored, FoundStaysFound
  <2> QED
    BY <2>5, <2>6, <2>7 DEF IInv
<1>3. CASE draft[c] # None /\ rows' = rows \cup {draft[c]}
  <2>1. (TypeOK /\ IsFiniteSet(rows) /\ WalksOnTrack)'
    BY <1>1, <1>3, RowsGrow
  <2>2. (ToldIsStored /\ FoundStaysFound)'
    BY <1>1, <1>3 DEF IInv, ToldIsStored, FoundStaysFound
  <2> QED
    BY <2>1, <2>2 DEF IInv
<1> QED
  BY <1>2, <1>3 DEF StatementFails

LEMMA BeginIInv ==
    ASSUME IInv, NEW c \in Callers, NEW r, draft[c] = None,
           r.kind \in {"source", "payout"}, APIKey(r) # None,
           NEW source \in Ids \cup {None}, NEW cents \in 0 .. MaxCents,
           NEW asked \in Amounts \cup {None},
           Begin(c, r, source, cents, asked), UNCHANGED <<rows, now, faults>>
    PROVE  IInv'
<1>1. PICK id \in Ids :
        /\ \A row \in rows : row.id # id
        /\ \A d \in Inserting : draft[d].id # id
        /\ draft' = [draft EXCEPT ![c] =
                [kind |-> r.kind, id |-> id, client |-> APIKey(r), created |-> now,
                 source |-> source, cents |-> cents, asked |-> asked]]
  BY DEF Begin
<1> DEFINE new == [kind |-> r.kind, id |-> id, client |-> APIKey(r), created |-> now,
                   source |-> source, cents |-> cents, asked |-> asked]
<1>2. answer'.missed = {} /\ UNCHANGED <<told, walk>>
  BY DEF Begin, Nothing
<1>3. new \in Rows
  <2>1. APIKey(r) \in Clients
    BY KeyAssumption DEF APIKey
  <2>2. now \in 0 .. MaxTime
    BY DEF IInv, TypeOK
  <2> QED
    BY <2>1, <2>2 DEF Rows
<1>4. new.id = id
  OBVIOUS
<1> HIDE DEF new
<1>5. \A d \in Callers : draft'[d] = IF d = c THEN new ELSE draft[d]
  BY <1>1 DEF new, IInv, TypeOK
<1>6. draft' \in [Callers -> Rows \cup {None}]
  BY <1>1, <1>3 DEF new, IInv, TypeOK
<1>7. IdsAreUnique'
  <2>1. \A d \in Inserting' : d = c \/ (d \in Inserting /\ draft'[d] = draft[d])
    BY <1>5 DEF Inserting
  <2>2. \A d \in Inserting' : \A row \in rows : row.id # draft'[d].id
    BY <1>1, <1>4, <1>5, <2>1 DEF IInv, TypeOK, IdsAreUnique, Inserting
  <2>3. c \in Callers /\ draft'[c].id = id
    BY <1>4, <1>5
  <2>4. \A d \in Inserting' : d # c => draft'[d].id # id
    BY <1>1, <2>1
  <2>5. \A d, e \in Inserting' : d # e => draft'[d].id # draft'[e].id
    BY <2>1, <2>3, <2>4 DEF IInv, TypeOK, IdsAreUnique
  <2> QED
    BY <2>2, <2>5 DEF IInv, TypeOK, IdsAreUnique
<1>8. TypeOK'
  BY <1>2, <1>6, <1>7 DEF IInv, TypeOK
<1>9. WalksOnTrack'
  BY <1>2 DEF IInv, WalksOnTrack, WalkedList, Own
<1>10. (IsFiniteSet(rows) /\ ToldIsStored /\ FoundStaysFound)'
  BY <1>2 DEF IInv, ToldIsStored, FoundStaysFound
<1> QED
  BY <1>8, <1>9, <1>10 DEF IInv

LEMMA CreatePayoutIInv ==
    ASSUME IInv, NEW c \in Callers, NEW r \in Asked(c), draft[c] = None,
           CreatePayout(c, r), UNCHANGED <<now, faults>>
    PROVE  IInv'
<1> DEFINE value == parsePositiveNumeric(r.amount)
           found == GetFundingSourceByClientID(APIKey(r), r.id)
<1>1. UNCHANGED rows /\ APIKey(r) # None /\ r.kind = "payout" /\ faults' \in 0 .. MaxFaults
  BY DEF CreatePayout, Routed, IInv, TypeOK
<1>2. Missing({})
  BY DEF Missing
<1>3. CASE r.id = Malformed \/ value = Malformed
  <2>1. Refuse(400, {})
    BY <1>3 DEF CreatePayout
  <2> QED
    BY <1>1, <1>2, <2>1, RefuseIInv
<1>4. CASE ~(r.id = Malformed \/ value = Malformed) /\ found = {}
  <2> DEFINE missed == {[to |-> APIKey(r), kind |-> "source", id |-> r.id]}
  <2>1. Refuse(404, missed)
    BY <1>4 DEF CreatePayout, NotFound
  <2>2. Missing(missed)
    BY <1>4 DEF Missing, GetFundingSourceByClientID, Own
  <2> HIDE DEF missed
  <2> QED
    BY <1>1, <2>1, <2>2, RefuseIInv
<1>5. CASE ~(r.id = Malformed \/ value = Malformed) /\ found # {} /\ ~Storable(Cents(value))
  <2>1. Refuse(500, {})
    BY <1>5 DEF CreatePayout
  <2> QED
    BY <1>1, <1>2, <2>1, RefuseIInv
<1>6. CASE ~(r.id = Malformed \/ value = Malformed) /\ found # {} /\ Storable(Cents(value))
  <2>1. Begin(c, r, r.id, Cents(value), r.amount)
    BY <1>6 DEF CreatePayout
  <2>2. r.id \in Ids
    <3>1. PICK row \in rows : row.id = r.id
      BY <1>6 DEF GetFundingSourceByClientID, Own
    <3> QED
      BY <3>1 DEF IInv, TypeOK, Rows
  <2>3. Cents(value) \in 0 .. MaxCents
    BY <1>6, BoundAssumption DEF Storable
  <2>4. r.amount \in Amounts \cup {None}
    <3>1. r.amount # Malformed
      BY <1>6 DEF parsePositiveNumeric
    <3> QED
      BY <3>1, RequestFields
  <2> QED
    BY <1>1, <2>1, <2>2, <2>3, <2>4, BeginIInv
<1> QED
  BY <1>3, <1>4, <1>5, <1>6

LEMMA ServeIInv ==
    ASSUME IInv, NEW c \in Callers, NEW r \in Asked(c), Serve(c, r)
    PROVE  IInv'
<1>1. draft[c] = None /\ UNCHANGED <<now, faults>> /\ faults' \in 0 .. MaxFaults
  BY DEF Serve, IInv, TypeOK
<1>2. Missing({})
  BY DEF Missing
<1>3. CASE Unauthorized(r)
  BY <1>1, <1>2, <1>3, RefuseIInv DEF Unauthorized
<1>4. CASE GetCurrentClient(r)
  BY <1>1, <1>2, <1>4, RefuseIInv DEF GetCurrentClient
<1>5. CASE GetPayout(r)
  BY <1>1, <1>5, GetIInv DEF GetPayout, GetPayoutByClientID, Routed
<1>6. CASE GetFundingSource(r)
  BY <1>1, <1>6, GetIInv DEF GetFundingSource, GetFundingSourceByClientID, Routed
<1>7. CASE ListPayouts(c, r)
  <2>1. UNCHANGED rows /\ APIKey(r) # None /\ r.kind = "payout"
    BY <1>7 DEF ListPayouts, Routed
  <2>2. CASE paginationParams(r) = Malformed
    BY <1>1, <1>2, <1>7, <2>1, <2>2, RefuseIInv DEF ListPayouts
  <2>3. CASE paginationParams(r) # Malformed
    <3>1. Listed(c, r, Page(Own(APIKey(r), "payout"), paginationParams(r).limit,
                            paginationParams(r).offset))
      BY <1>7, <2>3 DEF ListPayouts, ListPayoutsByClientID
    <3> QED
      BY <1>1, <2>1, <2>3, <3>1, ListedIInv
  <2> QED
    BY <2>2, <2>3
<1>8. CASE ListFundingSources(c, r)
  <2>1. UNCHANGED rows /\ APIKey(r) # None /\ r.kind = "source"
    BY <1>8 DEF ListFundingSources, Routed
  <2>2. CASE paginationParams(r) = Malformed
    BY <1>1, <1>2, <1>8, <2>1, <2>2, RefuseIInv DEF ListFundingSources
  <2>3. CASE paginationParams(r) # Malformed
    <3>1. Listed(c, r, Page(Own(APIKey(r), "source"), paginationParams(r).limit,
                            paginationParams(r).offset))
      BY <1>8, <2>3 DEF ListFundingSources, ListFundingSourcesByClientID
    <3> QED
      BY <1>1, <2>1, <2>3, <3>1, ListedIInv
  <2> QED
    BY <2>2, <2>3
<1>9. CASE CreateFundingSource(c, r)
  <2>1. UNCHANGED rows /\ APIKey(r) # None /\ r.kind = "source"
    BY <1>9 DEF CreateFundingSource, Routed
  <2>2. CASE r.id = Malformed
    BY <1>1, <1>2, <1>9, <2>1, <2>2, RefuseIInv DEF CreateFundingSource
  <2>3. CASE r.id # Malformed
    <3>1. Begin(c, r, None, 0, None)
      BY <1>9, <2>3 DEF CreateFundingSource
    <3>2. 0 \in 0 .. MaxCents
      BY BoundAssumption
    <3> QED
      BY <1>1, <2>1, <3>1, <3>2, BeginIInv
  <2> QED
    BY <2>2, <2>3
<1>10. CASE CreatePayout(c, r)
  BY <1>1, <1>10, CreatePayoutIInv
<1> QED
  BY <1>3, <1>4, <1>5, <1>6, <1>7, <1>8, <1>9, <1>10 DEF Serve

LEMMA StepIInv == IInv /\ [Next]_vars => IInv'
<1> SUFFICES ASSUME IInv, [Next]_vars PROVE IInv'
  OBVIOUS
<1>1. ASSUME NEW c \in Callers, NEW r \in Asked(c), Serve(c, r) PROVE IInv'
  BY <1>1, ServeIInv
<1>2. ASSUME NEW c \in Callers, Commit(c) PROVE IInv'
  BY <1>2, CommitIInv
<1>3. ASSUME NEW c \in Callers, StatementFails(c) PROVE IInv'
  BY <1>3, StatementFailsIInv
<1>4. CASE Tick
  <2>1. UNCHANGED <<rows, draft, told, walk, faults>> /\ answer'.missed = {}
    BY <1>4 DEF Tick, Nothing
  <2>2. now' \in 0 .. MaxTime
    BY <1>4, BoundAssumption DEF Tick, IInv, TypeOK
  <2>3. TypeOK'
    BY <2>1, <2>2 DEF IInv, TypeOK, IdsAreUnique, Inserting
  <2>4. (IsFiniteSet(rows) /\ ToldIsStored /\ FoundStaysFound)'
    BY <2>1 DEF IInv, ToldIsStored, FoundStaysFound
  <2>5. WalksOnTrack'
    BY <2>1 DEF IInv, WalksOnTrack, WalkedList, Own
  <2> QED
    BY <2>3, <2>4, <2>5 DEF IInv
<1>5. CASE UNCHANGED vars
  <2>1. UNCHANGED <<rows, now, draft, answer, told, walk, faults>>
    BY <1>5 DEF vars
  <2>2. TypeOK'
    BY <2>1 DEF IInv, TypeOK, IdsAreUnique, Inserting
  <2>3. (IsFiniteSet(rows) /\ ToldIsStored /\ FoundStaysFound)'
    BY <2>1 DEF IInv, ToldIsStored, FoundStaysFound
  <2>4. WalksOnTrack'
    BY <2>1 DEF IInv, WalksOnTrack, WalkedList, Own
  <2> QED
    BY <2>2, <2>3, <2>4 DEF IInv
<1> QED
  BY <1>1, <1>2, <1>3, <1>4, <1>5 DEF Next

----------------------------------------------------------------------------
(* The theorems. *)

\* The invariant that the promises to the clients rest on: what was told is
\* stored and the client's own, and no walk has passed a row it has not seen.
THEOREM Invariant == Spec => []IInv
<1>1. Init => IInv
  BY InitIInv
<1>2. IInv /\ [Next]_vars => IInv'
  BY StepIInv
<1> QED
  BY <1>1, <1>2, PTL DEF Spec

\* Rows, inserts and walks are well-formed, and ids are never given twice.
THEOREM TypesHold == Spec => []TypeOK
<1>1. IInv => TypeOK
  BY DEF IInv
<1> QED
  BY <1>1, Invariant, PTL

\* Every query is bound to the client of the key: no answer of any route, to
\* any request, shows a row of another client.
THEOREM OwnRows == Spec => []OwnRowsOnly
<1>1. IInv => OwnRowsOnly
  <2> SUFFICES ASSUME IInv, NEW t \in told PROVE t.row.client = t.to
    BY DEF OwnRowsOnly
  <2>1. PICK r \in rows : t.to = r.client /\ t.row = FromDB(r)
    BY DEF IInv, ToldIsStored
  <2> QED
    BY <2>1, ToldFields DEF IInv, TypeOK
<1> QED
  BY <1>1, Invariant, PTL

\* A POST answers with the row that RETURNING gave it, and so tells what every
\* later GET and list tells of it.
THEOREM Agreement == Spec => []AnswersAgree
<1>1. IInv => AnswersAgree
  <2> SUFFICES ASSUME IInv, NEW t \in told, NEW u \in told, t.row.id = u.row.id
               PROVE  t.row = u.row
    BY DEF AnswersAgree
  <2>1. PICK r \in rows : t.row = FromDB(r)
    BY DEF IInv, ToldIsStored
  <2>2. PICK s \in rows : u.row = FromDB(s)
    BY DEF IInv, ToldIsStored
  <2>3. r.id = s.id
    BY <2>1, <2>2, ToldFields DEF IInv, TypeOK
  <2>4. r = s
    BY <2>3 DEF IInv, TypeOK, IdsAreUnique
  <2> QED
    BY <2>1, <2>2, <2>4
<1> QED
  BY <1>1, Invariant, PTL

\* A row that a client was told of is found whenever it is asked for: nothing
\* is told before its insert is committed.
THEOREM Stays == Spec => []FoundStaysFound
<1>1. IInv => FoundStaysFound
  BY DEF IInv
<1> QED
  BY <1>1, Invariant, PTL

\* Offset pagination over created_at DESC, id DESC repeats rows but skips none
\* of those that were there, whatever is inserted between the pages.
THEOREM WalkIsComplete == Spec => []WalkMissesNothing
<1>1. IInv => WalkMissesNothing
  BY DEF IInv, WalksOnTrack, OnTrack, WalkMissesNothing
<1> QED
  BY <1>1, Invariant, PTL

----------------------------------------------------------------------------
(* Amounts, from the request to the answer. *)

\* The amount of a row is within half a cent of the one it was inserted for.
Honest(row) ==
    row.kind = "payout" =>
        /\ row.asked \in Amounts
        /\ WithinHalfACent(numericString([int |-> row.cents, exp |-> -2]), row.asked)

AmountInv ==
    /\ IInv
    /\ \A row \in rows : Honest(row)
    /\ \A c \in Inserting : Honest(draft[c])

\* Only Begin makes a row, and it makes an honest one.
LEMMA BeginsHonestly ==
    ASSUME IInv, NEW c \in Callers, NEW r \in Asked(c), Serve(c, r)
    PROVE  /\ UNCHANGED rows
           /\ \A d \in Callers : draft'[d] = draft[d] \/ Honest(draft'[d])
<1>1. draft[c] = None /\ draft \in [Callers -> Rows \cup {None}]
  BY DEF Serve, IInv, TypeOK
<1>2. CASE Unauthorized(r) \/ GetCurrentClient(r)
  BY <1>2 DEF Unauthorized, GetCurrentClient, Refuse
<1>3. CASE GetPayout(r) \/ GetFundingSource(r)
  BY <1>3 DEF GetPayout, GetFundingSource, Get, NotFound, Refuse
<1>4. CASE ListPayouts(c, r) \/ ListFundingSources(c, r)
  BY <1>4 DEF ListPayouts, ListFundingSources, Listed, Refuse
<1>5. CASE CreateFundingSource(c, r)
  <2>1. UNCHANGED rows /\ r.kind = "source"
    BY <1>5 DEF CreateFundingSource, Routed
  <2>2. UNCHANGED draft \/ Begin(c, r, None, 0, None)
    BY <1>5 DEF CreateFundingSource, Refuse
  <2>3. ASSUME Begin(c, r, None, 0, None)
        PROVE  \E row : row.kind = r.kind /\ draft' = [draft EXCEPT ![c] = row]
    BY <2>3 DEF Begin
  <2> QED
    BY <1>1, <2>1, <2>2, <2>3 DEF Honest
<1>6. CASE CreatePayout(c, r)
  <2> DEFINE value == parsePositiveNumeric(r.amount)
  <2>1. UNCHANGED rows
    BY <1>6 DEF CreatePayout
  <2>2. UNCHANGED draft \/ (value # Malformed /\ Begin(c, r, r.id, Cents(value), r.amount))
    BY <1>6 DEF CreatePayout, NotFound, Refuse
  <2>3. ASSUME value # Malformed, Begin(c, r, r.id, Cents(value), r.amount)
        PROVE  \E row : Honest(row) /\ draft' = [draft EXCEPT ![c] = row]
    <3>1. r.amount \in Amounts
      BY <2>3, RequestFields DEF parsePositiveNumeric
    <3>2. WithinHalfACent(numericString([int |-> Cents(value), exp |-> -2]), r.amount)
      BY <2>3, <3>1, CentsAreClose
    <3> HIDE DEF value
    <3>3. PICK id \in Ids : draft' = [draft EXCEPT ![c] =
            [kind |-> r.kind, id |-> id, client |-> APIKey(r), created |-> now,
             source |-> r.id, cents |-> Cents(value), asked |-> r.amount]]
      BY <2>3 DEF Begin
    <3> QED
      BY <3>1, <3>2, <3>3 DEF Honest
  <2> QED
    BY <1>1, <2>1, <2>2, <2>3
<1> QED
  BY <1>2, <1>3, <1>4, <1>5, <1>6 DEF Serve

LEMMA StepAmounts == AmountInv /\ [Next]_vars => AmountInv'
<1> SUFFICES ASSUME AmountInv, [Next]_vars PROVE AmountInv'
  OBVIOUS
<1>1. IInv /\ IInv' /\ draft \in [Callers -> Rows \cup {None}]
  BY StepIInv DEF AmountInv, IInv, TypeOK
<1>2. ASSUME rows' \subseteq rows \cup {draft[c] : c \in Inserting},
             \A d \in Callers : draft'[d] \in {draft[d], None} \/ Honest(draft'[d])
      PROVE  AmountInv'
  BY <1>1, <1>2 DEF AmountInv, Inserting
<1>3. ASSUME NEW c \in Callers, NEW r \in Asked(c), Serve(c, r) PROVE AmountInv'
  BY <1>1, <1>2, <1>3, BeginsHonestly
<1>4. ASSUME NEW c \in Callers, Commit(c) \/ StatementFails(c) PROVE AmountInv'
  <2>1. rows' = rows \/ (c \in Inserting /\ rows' = rows \cup {draft[c]})
    BY <1>4 DEF Commit, StatementFails, Inserting
  <2>2. draft' = [draft EXCEPT ![c] = None]
    BY <1>4 DEF Commit, StatementFails
  <2> QED
    BY <1>1, <1>2, <2>1, <2>2
<1>5. CASE Tick \/ UNCHANGED vars
  BY <1>2, <1>5 DEF Tick, vars
<1> QED
  BY <1>3, <1>4, <1>5 DEF Next

\* The amount that a client is told, by the 201 or by any read, is within half
\* a cent of the one it sent: through Scan, the rounding of the column and
\* numericString, for every amount.
THEOREM AmountsAreHonoured == Spec => []AmountIsHonoured
<1>1. Init => AmountInv
  BY InitIInv DEF AmountInv, Init, Inserting
<1>2. AmountInv => AmountIsHonoured
  <2> SUFFICES ASSUME AmountInv, NEW t \in told, t.row.kind = "payout"
               PROVE  \E r \in rows : r.id = t.row.id /\ WithinHalfACent(t.row.amount, r.asked)
    BY DEF AmountIsHonoured
  <2>1. PICK r \in rows : t.to = r.client /\ t.row = FromDB(r)
    BY DEF AmountInv, IInv, ToldIsStored
  <2>2. r.kind = "payout" /\ r.id = t.row.id
    BY <2>1, ToldFields DEF AmountInv, IInv, TypeOK
  <2>3. t.row.amount = numericString([int |-> r.cents, exp |-> -2])
    BY <2>1, <2>2 DEF FromDB, payoutFromDB
  <2> QED
    BY <2>2, <2>3 DEF AmountInv, Honest
<1> QED
  BY <1>1, <1>2, StepAmounts, PTL DEF Spec
=============================================================================
