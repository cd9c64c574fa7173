---------------------------- MODULE FtPrintfProof ----------------------------
(***************************************************************************)
(* Theorems about ft_printf and ft_fprintf, for every format, argument and *)
(* sequence of writes that fail or come short.                             *)
(***************************************************************************)
EXTENDS FtPrintf, FiniteSetTheorems, SequenceTheorems, WellFoundedInduction, TLAPS

-----------------------------------------------------------------------------
(***************************************************************************)
(* The least element of a set of naturals, which takes the place of        *)
(* induction.                                                              *)
(***************************************************************************)
LEMMA LeastNat ==
  ASSUME NEW S \in SUBSET Nat, S # {}
  PROVE  Min(S) \in S /\ \A y \in S : Min(S) <= y
<1> DEFINE Below(n) == S \cap (0 .. n)
           T == {Below(n) : n \in S}
<1>1. T \subseteq FiniteSubsetsOf(Nat) /\ T # {}
  <2>1. \A n \in S : IsFiniteSet(0 .. n)
    BY FS_Interval
  <2>2. \A n \in S : IsFiniteSet(Below(n))
    BY <2>1, FS_Subset
  <2> QED
    BY <2>2 DEF FiniteSubsetsOf
<1> HIDE DEF T
<1>2. PICK X \in T : \A Y \in T : ~(<<Y, X>> \in StrictSubsetOrdering(Nat))
  BY <1>1, FS_StrictSubsetOrderingWellFounded, WFMin
<1> USE DEF T
<1>3. PICK n \in S : X = Below(n)
  OBVIOUS
<1>4. ASSUME NEW y \in S, y < n PROVE FALSE
  <2>1. Below(y) \in T /\ Below(y) \subseteq X /\ n \in X /\ n \notin Below(y)
    BY <1>3, <1>4
  <2>2. <<Below(y), X>> \in StrictSubsetOrdering(Nat)
    BY <2>1, <1>1 DEF StrictSubsetOrdering, FiniteSubsetsOf
  <2> QED
    BY <2>1, <2>2, <1>2
<1>5. \A y \in S : n <= y
  BY <1>4
<1> HIDE DEF T
<1> QED
  BY <1>5 DEF Min

\* Induction, over a set instead of a formula.
LEMMA NatSet ==
  ASSUME NEW S \in SUBSET Nat, 0 \in S, \A n \in S : n + 1 \in S
  PROVE  \A n \in Nat : n \in S
<1> DEFINE Bad == Nat \ S
<1> SUFFICES ASSUME Bad # {} PROVE FALSE
  OBVIOUS
<1>1. PICK n \in Bad : \A k \in Bad : n <= k
  <2>1. Bad \in SUBSET Nat
    OBVIOUS
  <2> HIDE DEF Bad
  <2> QED
    BY <2>1, LeastNat
<1>2. n - 1 \in Nat /\ n - 1 \in S
  BY <1>1
<1> QED
  BY <1>1, <1>2

-----------------------------------------------------------------------------
(***************************************************************************)
(* A function on the naturals, each value of which is made from the value  *)
(* at a smaller argument, exists.                                          *)
(***************************************************************************)
Follows(f, base, op, d, n) ==
  /\ f[0] = base
  /\ \A k \in 1 .. n : f[k] = op[<<k, f[d[k]]>>]

LEMMA FollowsUnique ==
  ASSUME NEW d \in [Nat -> Nat], \A k \in Nat \ {0} : d[k] < k,
         NEW base, NEW op, NEW n \in Nat, NEW m \in Nat, NEW f, NEW g,
         Follows(f, base, op, d, n), Follows(g, base, op, d, m), n <= m
  PROVE  \A k \in 0 .. n : f[k] = g[k]
<1> DEFINE Bad == {k \in 0 .. n : f[k] # g[k]}
<1> SUFFICES ASSUME Bad # {} PROVE FALSE
  OBVIOUS
<1>1. PICK k \in Bad : \A j \in Bad : k <= j
  <2>1. Bad \in SUBSET Nat
    OBVIOUS
  <2> HIDE DEF Bad
  <2> QED
    BY <2>1, LeastNat
<1>2. k \in 0 .. n /\ f[k] # g[k] /\ \A j \in 0 .. n : j < k => f[j] = g[j]
  BY <1>1
<1>3. k # 0
  BY <1>2 DEF Follows
<1>4. d[k] \in 0 .. n /\ d[k] < k
  BY <1>2, <1>3
<1>5. f[d[k]] = g[d[k]]
  BY <1>2, <1>4
<1>6. k \in 1 .. n /\ k \in 1 .. m
  BY <1>2, <1>3
<1>7. f[k] = op[<<k, f[d[k]]>>] /\ g[k] = op[<<k, g[d[k]]>>]
  BY <1>6 DEF Follows
<1> QED
  BY <1>2, <1>5, <1>7

LEMMA FollowsExists ==
  ASSUME NEW d \in [Nat -> Nat], \A k \in Nat \ {0} : d[k] < k,
         NEW S, NEW base \in S, NEW op \in [Nat \X S -> S]
  PROVE  \E f \in [Nat -> S] : \A n \in Nat : Follows(f, base, op, d, n)
<1> DEFINE Has(n) == \E f \in [Nat -> S] : Follows(f, base, op, d, n)
           Bad == {n \in Nat : ~Has(n)}
<1>1. Has(0)
  <2>1. [k \in Nat |-> base] \in [Nat -> S] /\ Follows([k \in Nat |-> base], base, op, d, 0)
    BY DEF Follows
  <2> QED
    BY <2>1
<1>2. ASSUME NEW n \in Nat, Has(n) PROVE Has(n + 1)
  <2>1. PICK f \in [Nat -> S] : Follows(f, base, op, d, n)
    BY <1>2
  <2> DEFINE g == [f EXCEPT ![n + 1] = op[<<n + 1, f[d[n + 1]]>>]]
  <2>2. d[n + 1] \in Nat /\ d[n + 1] < n + 1
    OBVIOUS
  <2>3. g \in [Nat -> S] /\ g[n + 1] = op[<<n + 1, f[d[n + 1]]>>]
    BY <2>2
  <2>4. \A k \in 0 .. n : g[k] = f[k]
    OBVIOUS
  <2> HIDE DEF g
  <2>5. ASSUME NEW k \in 1 .. n + 1 PROVE g[k] = op[<<k, g[d[k]]>>]
    <3>1. d[k] \in 0 .. n
      OBVIOUS
    <3>2. g[d[k]] = f[d[k]]
      BY <2>4, <3>1
    <3>3. CASE k = n + 1
      BY <2>3, <3>2, <3>3
    <3>4. CASE k \in 1 .. n
      BY <2>1, <2>4, <3>2, <3>4 DEF Follows
    <3> QED
      BY <3>3, <3>4
  <2>6. g[0] = base
    BY <2>1, <2>4 DEF Follows
  <2> QED
    BY <2>3, <2>5, <2>6 DEF Follows
<1> HIDE DEF Has
<1>3. Bad = {}
  <2> SUFFICES ASSUME Bad # {} PROVE FALSE
    OBVIOUS
  <2>1. PICK n \in Bad : \A k \in Bad : n <= k
    <3>1. Bad \in SUBSET Nat
      OBVIOUS
    <3> HIDE DEF Bad
    <3> QED
      BY <3>1, LeastNat
  <2>2. n \in Nat \ {0} /\ ~Has(n)
    BY <1>1, <2>1
  <2>3. Has(n - 1)
    BY <2>1, <2>2
  <2> QED
    BY <1>2, <2>2, <2>3
<1> DEFINE pick == [n \in Nat |-> CHOOSE f \in [Nat -> S] : Follows(f, base, op, d, n)]
           F == [n \in Nat |-> pick[n][n]]
<1>4. \A n \in Nat : pick[n] \in [Nat -> S] /\ Follows(pick[n], base, op, d, n)
  BY <1>3 DEF Has
<1> HIDE DEF pick
<1>5. F \in [Nat -> S]
  BY <1>4
<1>6. F[0] = base
  BY <1>4 DEF Follows
<1>7. ASSUME NEW k \in Nat \ {0} PROVE F[k] = op[<<k, F[d[k]]>>]
  <2>1. d[k] \in Nat /\ d[k] < k
    OBVIOUS
  <2>2. PICK a, b : a = pick[k] /\ b = pick[d[k]]
    OBVIOUS
  <2>3. Follows(a, base, op, d, k) /\ Follows(b, base, op, d, d[k])
    BY <1>4, <2>1, <2>2
  <2>4. b[d[k]] = a[d[k]]
    <3>1. \A j \in 0 .. d[k] : b[j] = a[j]
      BY <2>1, <2>3, FollowsUnique
    <3> QED
      BY <2>1, <3>1
  <2>5. a[k] = op[<<k, a[d[k]]>>]
    BY <2>3 DEF Follows
  <2>6. F[k] = a[k] /\ F[d[k]] = b[d[k]]
    BY <2>1, <2>2
  <2> QED
    BY <2>4, <2>5, <2>6
<1> HIDE DEF F
<1>8. \A n \in Nat : Follows(F, base, op, d, n)
  BY <1>6, <1>7 DEF Follows
<1> QED
  BY <1>5, <1>8

-----------------------------------------------------------------------------
(***************************************************************************)
(* Division.                                                               *)
(***************************************************************************)
LEMMA DivisionUnique ==
  ASSUME NEW n \in Nat, NEW p \in Nat \ {0}, NEW s \in Nat, NEW t \in 0 .. p - 1, n = p * s + t
  PROVE  n \div p = s /\ n % p = t
<1>1. PICK q, r : q = n \div p /\ r = n % p
  OBVIOUS
<1>2. q \in Nat /\ r \in 0 .. p - 1 /\ n = p * q + r
  BY <1>1
<1>3. CASE q < s
  <2>1. p * (q + 1) <= p * s
    BY <1>2, <1>3
  <2>2. p * (q + 1) = p * q + p
    BY <1>2
  <2> QED
    BY <1>2, <2>1, <2>2
<1>4. CASE s < q
  <2>1. p * (s + 1) <= p * q
    BY <1>2, <1>4
  <2>2. p * (s + 1) = p * s + p
    BY <1>2
  <2> QED
    BY <1>2, <2>1, <2>2
<1>5. CASE q = s
  BY <1>1, <1>2, <1>5
<1> QED
  BY <1>2, <1>3, <1>4, <1>5

LEMMA DivisionIs ==
  ASSUME NEW n \in Nat, NEW p \in Nat \ {0}
  PROVE  \E s \in Nat, t \in 0 .. p - 1 : n = p * s + t /\ n \div p = s /\ n % p = t
  OBVIOUS

\* Dividing by c, b times p, is dividing by b, to q, and then by p.
Twice(n, b, p, c, q) == n \div c = q \div p /\ (n % c) \div b = q % p /\ (n % c) % b = n % b

LEMMA DivisionTwice ==
  ASSUME NEW n \in Nat, NEW b \in Nat \ {0}, NEW p \in Nat \ {0}
  PROVE  Twice(n, b, p, b * p, n \div b)
<1>1. PICK q \in Nat, r \in 0 .. b - 1 : n = b * q + r /\ n \div b = q /\ n % b = r
  BY DivisionIs
<1>2. PICK s \in Nat, t \in 0 .. p - 1 : q = p * s + t /\ q \div p = s /\ q % p = t
  BY DivisionIs
<1>3. PICK c, x, y, z : c = b * p /\ x = b * t /\ y = p * s /\ z = b * y
  OBVIOUS
<1>4. c \in Nat \ {0} /\ x \in Nat /\ y \in Nat /\ z \in Nat
  BY <1>3
<1>5. c * s = z
  BY <1>3
<1>6. b * q = z + x
  <2>1. b * (y + t) = b * y + b * t
    BY <1>4
  <2> QED
    BY <1>2, <1>3, <2>1
<1>7. x + r < c
  <2>1. b * (t + 1) <= b * p
    OBVIOUS
  <2>2. b * (t + 1) = b * t + b
    OBVIOUS
  <2> QED
    BY <1>3, <2>1, <2>2
<1>8. n = c * s + (x + r) /\ x + r \in 0 .. c - 1
  BY <1>1, <1>4, <1>5, <1>6, <1>7
<1>9. n \div c = s /\ n % c = x + r
  BY <1>4, <1>8, DivisionUnique
<1>10. (x + r) \div b = t /\ (x + r) % b = r
  BY <1>3, <1>4, DivisionUnique
<1>11. Twice(n, b, p, c, q)
  BY ONLY <1>1, <1>2, <1>9, <1>10 DEF Twice
<1> QED
  BY ONLY <1>1, <1>3, <1>11

-----------------------------------------------------------------------------
(***************************************************************************)
(* What a numeral is: as many digits as powers of the base do not exceed   *)
(* the number, and its last digit taken off, it is the numeral of the      *)
(* quotient.                                                               *)
(***************************************************************************)
IsPower(f, base) == f = [i \in Nat |-> IF i = 0 THEN 1 ELSE base * f[i - 1]]

Power(base) == CHOOSE f : IsPower(f, base)

LEMMA PowerExists ==
  ASSUME NEW base \in Nat
  PROVE  IsPower(Power(base), base)
<1> DEFINE op == [p \in Nat \X Nat |-> base * p[2]]
           d == [k \in Nat |-> IF k = 0 THEN 0 ELSE k - 1]
<1>1. op \in [Nat \X Nat -> Nat]
  OBVIOUS
<1>2. d \in [Nat -> Nat] /\ \A k \in Nat \ {0} : d[k] < k /\ d[k] = k - 1
  OBVIOUS
<1>3. PICK f \in [Nat -> Nat] : \A n \in Nat : Follows(f, 1, op, d, n)
  <2> HIDE DEF op, d
  <2> QED
    BY <1>1, <1>2, FollowsExists
<1>4. f[0] = 1
  BY <1>3 DEF Follows
<1>5. ASSUME NEW k \in Nat \ {0} PROVE f[k] = base * f[k - 1]
  <2>1. f[k] = op[<<k, f[d[k]]>>]
    <3> HIDE DEF op, d
    <3>1. Follows(f, 1, op, d, k) /\ k \in 1 .. k
      BY <1>3
    <3> QED
      BY <3>1 DEF Follows
  <2>2. d[k] = k - 1 /\ k - 1 \in Nat /\ f[k - 1] \in Nat
    BY <1>3
  <2>3. f[k] = op[<<k, f[k - 1]>>]
    BY ONLY <2>1, <2>2
  <2> QED
    BY <2>2, <2>3
<1>6. IsPower(f, base)
  BY <1>3, <1>4, <1>5 DEF IsPower
<1> QED
  BY <1>6 DEF Power

LEMMA PowerFacts ==
  ASSUME NEW base \in Nat, base >= 2
  PROVE  /\ Power(base)[0] = 1
         /\ \A i \in Nat : /\ Power(base)[i] \in Nat /\ Power(base)[i] > i
                           /\ Power(base)[i + 1] = base * Power(base)[i]
                           /\ Power(base)[i] < Power(base)[i + 1]
<1>1. PICK f : f = Power(base)
  OBVIOUS
<1>2. f[0] = 1
  BY <1>1, PowerExists DEF IsPower
<1>3. ASSUME NEW i \in Nat PROVE f[i + 1] = base * f[i]
  <2>1. i + 1 \in Nat /\ i + 1 # 0 /\ (i + 1) - 1 = i
    OBVIOUS
  <2>2. f[i + 1] = IF i + 1 = 0 THEN 1 ELSE base * f[(i + 1) - 1]
    BY <1>1, <2>1, PowerExists DEF IsPower
  <2> QED
    BY ONLY <2>1, <2>2
<1>4. ASSUME NEW x \in Nat, NEW i \in Nat, x > i PROVE base * x \in Nat /\ base * x > x /\ base * x > i + 1
  <2>1. PICK y : y = base * x
    OBVIOUS
  <2>2. y \in Nat /\ y >= 2 * x
    BY <2>1
  <2> QED
    BY ONLY <1>4, <2>1, <2>2
<1> DEFINE S == {i \in Nat : f[i] \in Nat /\ f[i] > i}
<1>5. 0 \in S
  BY <1>2
<1>6. ASSUME NEW i \in S PROVE i + 1 \in S
  <2>1. i \in Nat /\ f[i] \in Nat /\ f[i] > i
    OBVIOUS
  <2>2. f[i + 1] \in Nat /\ f[i + 1] > i + 1 /\ i + 1 \in Nat
    BY ONLY <1>3, <1>4, <2>1
  <2> QED
    BY <2>2
<1>7. \A i \in Nat : i \in S
  <2>1. S \in SUBSET Nat
    OBVIOUS
  <2> HIDE DEF S
  <2> QED
    BY <1>5, <1>6, <2>1, NatSet
<1>8. ASSUME NEW i \in Nat PROVE f[i] \in Nat /\ f[i] > i /\ f[i + 1] = base * f[i] /\ f[i] < f[i + 1]
  <2>1. f[i] \in Nat /\ f[i] > i
    BY <1>7
  <2> QED
    BY ONLY <1>3, <1>4, <2>1, i \in Nat
<1> QED
  BY ONLY <1>1, <1>2, <1>8

LEMMA PowerGrows ==
  ASSUME NEW base \in Nat, base >= 2, NEW i \in Nat, NEW j \in Nat, i <= j
  PROVE  Power(base)[i] <= Power(base)[j]
<1>1. PICK f : f = Power(base)
  OBVIOUS
<1>2. \A k \in Nat : f[k] \in Nat /\ f[k] < f[k + 1]
  BY <1>1, PowerFacts
<1> DEFINE S == {d \in Nat : f[i] <= f[i + d]}
<1>3. 0 \in S
  BY <1>2
<1>4. ASSUME NEW d \in S PROVE d + 1 \in S
  <2>1. PICK k : k = i + d
    OBVIOUS
  <2>2. d \in Nat /\ k \in Nat /\ k + 1 = i + (d + 1) /\ f[i] <= f[k]
    BY <2>1
  <2>3. f[i] <= f[k + 1]
    <3>1. f[k] < f[k + 1] /\ f[k] \in Nat /\ f[k + 1] \in Nat /\ f[i] \in Nat
      BY <1>2, <2>2
    <3> QED
      BY ONLY <2>2, <3>1
  <2> QED
    BY <2>2, <2>3
<1>5. j - i \in S
  <2>1. S \in SUBSET Nat /\ j - i \in Nat
    OBVIOUS
  <2> HIDE DEF S
  <2> QED
    BY <1>3, <1>4, <2>1, NatSet
<1>6. i + (j - i) = j
  OBVIOUS
<1> QED
  BY <1>1, <1>5, <1>6

\* The number n has k digits; 0 has as many as 1.
HasDigits(n, k, base) == n < Power(base)[k] /\ (k = 1 \/ n >= Power(base)[k - 1])

LEMMA DigitsUnique ==
  ASSUME NEW base \in Nat, base >= 2, NEW n \in Nat, NEW k \in Nat \ {0}, NEW j \in Nat \ {0},
         HasDigits(n, k, base), HasDigits(n, j, base)
  PROVE  k = j
<1>1. PICK f : f = Power(base)
  OBVIOUS
<1>2. \A a, b \in Nat : a <= b => f[a] <= f[b] /\ f[a] \in Nat /\ f[b] \in Nat
  BY <1>1, PowerGrows, PowerFacts
<1>3. n < f[k] /\ (k = 1 \/ n >= f[k - 1]) /\ n < f[j] /\ (j = 1 \/ n >= f[j - 1])
  BY <1>1 DEF HasDigits
<1>4. CASE k < j
  <2>1. k \in Nat /\ j - 1 \in Nat /\ k <= j - 1 /\ j # 1
    BY <1>4
  <2> QED
    BY ONLY <1>2, <1>3, <2>1, n \in Nat
<1>5. CASE j < k
  <2>1. j \in Nat /\ k - 1 \in Nat /\ j <= k - 1 /\ k # 1
    BY <1>5
  <2> QED
    BY ONLY <1>2, <1>3, <2>1, n \in Nat
<1> QED
  BY <1>4, <1>5

LEMMA DigitsOfTail ==
  ASSUME NEW base \in Nat, base >= 2, NEW n \in Nat, NEW k \in Nat \ {0}, n >= base, HasDigits(n \div base, k, base)
  PROVE  HasDigits(n, k + 1, base)
<1>1. PICK f : f = Power(base)
  OBVIOUS
<1>2. base \in Nat \ {0}
  OBVIOUS
<1>3. PICK q \in Nat, r \in 0 .. base - 1 : n = base * q + r /\ n \div base = q
  BY <1>2, DivisionIs
<1>4. q < f[k] /\ (k = 1 \/ q >= f[k - 1])
  BY <1>1, <1>3 DEF HasDigits
<1>5. /\ f[k] \in Nat /\ f[k - 1] \in Nat /\ f[0] = 1 /\ f[k + 1] = base * f[k]
      /\ f[k] = base * f[k - 1]
  <2>1. k \in Nat /\ k - 1 \in Nat /\ (k - 1) + 1 = k
    OBVIOUS
  <2> QED
    BY <1>1, <2>1, PowerFacts
<1>6. \A a, b \in Nat : a <= b => base * a <= base * b
  OBVIOUS
<1>7. n < f[k + 1]
  <2>1. base * (q + 1) <= base * f[k]
    BY <1>4, <1>5, <1>6
  <2>2. base * (q + 1) = base * q + base
    OBVIOUS
  <2>3. PICK x, y : x = base * q /\ y = base * f[k]
    OBVIOUS
  <2>4. x \in Nat /\ y \in Nat
    BY <1>5, <2>3
  <2> QED
    <3>1. n = x + r /\ r \in 0 .. base - 1 /\ x + base <= y
      BY ONLY <1>3, <2>1, <2>2, <2>3
    <3>2. f[k + 1] = y
      BY ONLY <1>5, <2>3
    <3> QED
      BY ONLY <2>4, <3>1, <3>2, base \in Nat
<1>8. n >= f[k]
  <2>1. CASE k = 1
    <3>1. f[k] = base * 1
      BY <1>5, <2>1
    <3> QED
      BY <3>1
  <2>2. CASE k # 1
    <3>1. base * f[k - 1] <= base * q
      BY <1>4, <1>5, <1>6, <2>2
    <3>2. PICK x, y : x = base * q /\ y = base * f[k - 1]
      OBVIOUS
    <3>3. x \in Nat /\ y \in Nat
      BY <1>5, <3>2
    <3> QED
      BY ONLY <1>3, <1>5, <3>1, <3>2, <3>3
  <2> QED
    BY <2>1, <2>2
<1>9. (k + 1) - 1 = k
  OBVIOUS
<1> QED
  BY <1>1, <1>7, <1>8, <1>9 DEF HasDigits

LEMMA DigitsExist ==
  ASSUME NEW base \in Nat, base >= 2, NEW n \in Nat
  PROVE  \E k \in 1 .. n + 1 : HasDigits(n, k, base)
<1>1. PICK f : f = Power(base)
  OBVIOUS
<1>2. \A i \in Nat : f[i] \in Nat /\ f[i] > i
  BY <1>1, PowerFacts
<1> DEFINE S == {i \in Nat \ {0} : n < f[i]}
<1>3. n + 1 \in S
  <2>1. n + 1 \in Nat /\ f[n + 1] \in Nat /\ f[n + 1] > n + 1
    BY <1>2
  <2> QED
    BY <2>1
<1>4. PICK k : k \in S /\ \A i \in S : k <= i
  <2>1. S \in SUBSET Nat /\ S # {}
    BY <1>3
  <2> HIDE DEF S
  <2> QED
    BY <2>1, LeastNat
<1>5. k \in 1 .. n + 1 /\ n < f[k]
  BY <1>3, <1>4
<1>6. ASSUME k # 1 PROVE n >= f[k - 1]
  <2>1. k - 1 \in Nat \ {0} /\ k - 1 < k
    BY <1>5, <1>6
  <2>2. k - 1 \notin S
    BY <1>4, <2>1
  <2>3. f[k - 1] \in Nat
    BY <1>2, <2>1
  <2> QED
    BY <2>1, <2>2, <2>3
<1> QED
  BY <1>1, <1>5, <1>6 DEF HasDigits

LEMMA NumeralIs ==
  ASSUME NEW base \in Nat, base >= 2, NEW n \in Nat, NEW k \in Nat \ {0}, HasDigits(n, k, base)
  PROVE  Numeral(n, base) = [i \in 1 .. k |-> (n \div Power(base)[k - i]) % base]
<1> DEFINE c == CHOOSE j \in 1 .. n + 1 : HasDigits(n, j, base)
<1>1. Numeral(n, base) = [i \in 1 .. c |-> (n \div Power(base)[c - i]) % base]
  BY DEF Numeral, HasDigits, Power, IsPower
<1>2. c \in 1 .. n + 1 /\ HasDigits(n, c, base)
  BY DigitsExist
<1> HIDE DEF c
<1>3. c = k
  BY <1>2, DigitsUnique
<1> QED
  BY ONLY <1>1, <1>3

LEMMA NumeralStep ==
  ASSUME NEW base \in Nat, base >= 2, NEW n \in Nat
  PROVE  Numeral(n, base) = IF n < base THEN <<n>> ELSE Append(Numeral(n \div base, base), n % base)
<1>1. PICK f : f = Power(base)
  OBVIOUS
<1>2. f[0] = 1 /\ \A i \in Nat : f[i] \in Nat /\ f[i] > i /\ f[i + 1] = base * f[i]
  BY <1>1, PowerFacts
<1>3. CASE n < base
  <2>1. HasDigits(n, 1, base)
    <3>1. f[0 + 1] = base * 1
      BY <1>2
    <3> QED
      BY <1>1, <1>3, <3>1 DEF HasDigits
  <2>2. Numeral(n, base) = [i \in 1 .. 1 |-> (n \div f[1 - i]) % base]
    <3>1. 1 \in Nat \ {0}
      OBVIOUS
    <3>2. Numeral(n, base) = [i \in 1 .. 1 |-> (n \div Power(base)[1 - i]) % base]
      BY <2>1, <3>1, NumeralIs
    <3> QED
      BY ONLY <1>1, <3>2
  <2>3. \A i \in 1 .. 1 : (n \div f[1 - i]) % base = n
    <3>1. n \div 1 = n /\ n % base = n
      BY <1>3
    <3>2. \A i \in 1 .. 1 : 1 - i = 0
      OBVIOUS
    <3> QED
      BY ONLY <1>2, <3>1, <3>2
  <2> QED
    BY <1>3, <2>2, <2>3
<1>4. CASE n >= base
  <2>1. PICK q : q = n \div base
    OBVIOUS
  <2>2. q \in Nat /\ base \in Nat \ {0}
    BY <2>1
  <2>3. PICK k \in 1 .. q + 1 : HasDigits(q, k, base)
    BY <2>2, DigitsExist
  <2>4. k \in Nat \ {0}
    BY <2>2
  <2>5. HasDigits(n, k + 1, base)
    BY <1>4, <2>1, <2>3, <2>4, DigitsOfTail
  <2>6. PICK s, t : s = Numeral(n, base) /\ t = Numeral(q, base)
    OBVIOUS
  <2>7. s = [i \in 1 .. k + 1 |-> (n \div f[(k + 1) - i]) % base]
    <3>1. k + 1 \in Nat \ {0}
      BY <2>4
    <3> QED
      BY <1>1, <2>5, <2>6, <3>1, NumeralIs
  <2>8. t = [i \in 1 .. k |-> (q \div f[k - i]) % base]
    BY <1>1, <2>2, <2>3, <2>4, <2>6, NumeralIs
  <2>9. ASSUME NEW i \in 1 .. k PROVE s[i] = t[i]
    <3>1. PICK j : j = k - i
      OBVIOUS
    <3>2. j \in Nat /\ (k + 1) - i = j + 1 /\ i \in 1 .. k + 1
      BY <2>4, <3>1
    <3>3. f[j] \in Nat \ {0} /\ f[j + 1] = base * f[j]
      BY <1>2, <3>2
    <3>4. n \div (base * f[j]) = q \div f[j]
      <4>1. PICK p : p = f[j]
        OBVIOUS
      <4>2. Twice(n, base, p, base * p, n \div base)
        BY <2>2, <3>3, <4>1, DivisionTwice
      <4> QED
        BY ONLY <2>1, <4>1, <4>2 DEF Twice
    <3>5. s[i] = (n \div f[j + 1]) % base /\ t[i] = (q \div f[j]) % base
      BY <2>7, <2>8, <3>1, <3>2
    <3> QED
      BY ONLY <3>3, <3>4, <3>5
  <2>10. s[k + 1] = n % base
    <3>1. k + 1 \in 1 .. k + 1 /\ (k + 1) - (k + 1) = 0
      BY <2>4
    <3>2. s[k + 1] = (n \div f[0]) % base
      BY ONLY <2>7, <3>1
    <3>3. n \div 1 = n
      OBVIOUS
    <3> QED
      BY ONLY <1>2, <3>2, <3>3
  <2>11. s = Append(t, n % base)
    <3>1. Len(t) = k /\ t \in Seq(Int)
      <4>1. \A i \in 1 .. k : (q \div f[k - i]) % base \in Int
        <5>1. \A i \in 1 .. k : k - i \in Nat /\ f[k - i] \in Nat \ {0}
          BY <1>2, <2>4
        <5>2. \A x \in Nat \ {0} : (q \div x) % base \in Int
          BY <2>2
        <5> QED
          BY <5>1, <5>2
      <4> QED
        BY <2>4, <2>8, <4>1
    <3>2. n % base \in Int
      BY <2>2
    <3>3. PICK r : r = n % base
      OBVIOUS
    <3>4. Append(t, r) = [i \in 1 .. k + 1 |-> IF i = k + 1 THEN r ELSE t[i]]
      BY <2>4, <3>1, <3>2, <3>3
    <3>5. s = [i \in 1 .. k + 1 |-> s[i]]
      BY <2>7
    <3>6. \A i \in 1 .. k + 1 : s[i] = IF i = k + 1 THEN r ELSE t[i]
      <4>1. ASSUME NEW i \in 1 .. k + 1, i # k + 1 PROVE s[i] = t[i]
        <5>1. i \in 1 .. k
          BY <2>4, <4>1
        <5> QED
          BY <2>9, <5>1
      <4> QED
        BY <2>10, <3>3, <4>1
    <3> QED
      BY ONLY <3>3, <3>4, <3>5, <3>6
  <2> QED
    BY <1>4, <2>1, <2>6, <2>11
<1> QED
  BY <1>3, <1>4

-----------------------------------------------------------------------------
(***************************************************************************)
(* The numerals.  The digits a number loop yields, however many they are,  *)
(* are a sequence.                                                         *)
(***************************************************************************)
IsHex(f) == f = [k \in Nat |-> IF k = 0 THEN << >> ELSE Append(f[k \div 16], k % 16)]

Hex == CHOOSE f : IsHex(f)

LEMMA HexIs == IsHex(Hex) /\ \A n : HexDigits(n) = Hex[n]
<1> DEFINE S == Seq(0 .. 15)
           op == [p \in Nat \X S |-> Append(p[2], p[1] % 16)]
           d == [k \in Nat |-> k \div 16]
<1>1. \A k \in Nat : k \div 16 \in Nat /\ (k # 0 => k \div 16 < k) /\ k % 16 \in 0 .. 15
  OBVIOUS
<1>2. \A s \in S : \A x \in 0 .. 15 : Append(s, x) \in S
  BY AppendProperties
<1>3. << >> \in S
  BY EmptySeq
<1>4. \E f : IsHex(f)
  <2>1. op \in [Nat \X S -> S]
    BY <1>1, <1>2
  <2>2. d \in [Nat -> Nat] /\ \A k \in Nat \ {0} : d[k] < k
    BY <1>1
  <2>3. PICK f \in [Nat -> S] : \A n0 \in Nat : Follows(f, << >>, op, d, n0)
    <3> HIDE DEF op, d, S
    <3> QED
      BY <1>3, <2>1, <2>2, FollowsExists
  <2>4. f[0] = << >>
    BY <2>3 DEF Follows
  <2>5. ASSUME NEW k \in Nat \ {0} PROVE f[k] = Append(f[k \div 16], k % 16)
    <3>1. f[k] = op[<<k, f[d[k]]>>]
      <4> HIDE DEF op, d
      <4>1. Follows(f, << >>, op, d, k) /\ k \in 1 .. k
        BY <2>3
      <4> QED
        BY <4>1 DEF Follows
    <3>2. k \div 16 \in Nat /\ f[k \div 16] \in S
      BY <1>1, <2>3
    <3> QED
      BY <3>1, <3>2
  <2>6. IsHex(f)
    BY <2>3, <2>4, <2>5 DEF IsHex
  <2> QED
    BY <2>6
<1>5. IsHex(Hex)
  BY <1>4 DEF Hex
<1>6. \A n : HexDigits(n) = Hex[n]
  BY DEF HexDigits, Hex, IsHex
<1> QED
  BY <1>5, <1>6

LEMMA HexStep ==
  ASSUME NEW n \in Nat
  PROVE  HexDigits(n) = IF n = 0 THEN << >> ELSE Append(HexDigits(n \div 16), n % 16)
<1>1. PICK f : f = Hex
  OBVIOUS
<1>2. f = [k \in Nat |-> IF k = 0 THEN << >> ELSE Append(f[k \div 16], k % 16)]
  BY <1>1, HexIs DEF IsHex
<1>3. f[n] = IF n = 0 THEN << >> ELSE Append(f[n \div 16], n % 16)
  BY ONLY <1>2, n \in Nat
<1>4. HexDigits(n) = f[n] /\ HexDigits(n \div 16) = f[n \div 16]
  BY <1>1, HexIs
<1> QED
  BY ONLY <1>3, <1>4

LEMMA HexDigitsType ==
  ASSUME NEW n \in Nat
  PROVE  HexDigits(n) \in Seq(0 .. 15)
<1> DEFINE Bad == {k \in Nat : HexDigits(k) \notin Seq(0 .. 15)}
<1>1. \A k \in Nat : k \div 16 \in Nat /\ (k # 0 => k \div 16 < k) /\ k % 16 \in 0 .. 15
  OBVIOUS
<1>2. Bad = {}
  <2> SUFFICES ASSUME Bad # {} PROVE FALSE
    OBVIOUS
  <2>1. PICK k \in Bad : \A j \in Bad : k <= j
    <3>1. Bad \in SUBSET Nat
      OBVIOUS
    <3> HIDE DEF Bad
    <3> QED
      BY <3>1, LeastNat
  <2>2. k \in Nat /\ HexDigits(k) \notin Seq(0 .. 15)
        /\ \A j \in Nat : j < k => HexDigits(j) \in Seq(0 .. 15)
    BY <2>1
  <2>3. HexDigits(k) = IF k = 0 THEN << >> ELSE Append(HexDigits(k \div 16), k % 16)
    BY <2>2, HexStep
  <2>4. k # 0
    BY <2>2, <2>3, EmptySeq
  <2>5. HexDigits(k \div 16) \in Seq(0 .. 15)
    BY <1>1, <2>2, <2>4
  <2> QED
    BY <1>1, <2>2, <2>3, <2>4, <2>5, AppendProperties
<1> QED
  BY <1>2

\* ft_fput_hex and ft_fputaddress find the hexadecimal numeral; of 0 they
\* would find no digit, and do not ask.
LEMMA HexIsNumeral ==
  ASSUME NEW n \in Nat \ {0}
  PROVE  HexDigits(n) = Numeral(n, 16)
<1> DEFINE Bad == {k \in Nat \ {0} : HexDigits(k) # Numeral(k, 16)}
<1>1. Bad = {}
  <2> SUFFICES ASSUME Bad # {} PROVE FALSE
    OBVIOUS
  <2>1. PICK k \in Bad : \A j \in Bad : k <= j
    <3>1. Bad \in SUBSET Nat
      OBVIOUS
    <3> HIDE DEF Bad
    <3> QED
      BY <3>1, LeastNat
  <2>2. k \in Nat \ {0} /\ HexDigits(k) # Numeral(k, 16)
        /\ \A j \in Nat \ {0} : j < k => HexDigits(j) = Numeral(j, 16)
    BY <2>1
  <2>3. HexDigits(k) = Append(HexDigits(k \div 16), k % 16)
    BY <2>2, HexStep
  <2>4. Numeral(k, 16) = IF k < 16 THEN <<k>> ELSE Append(Numeral(k \div 16, 16), k % 16)
    BY <2>2, NumeralStep
  <2>5. CASE k < 16
    <3>1. k \div 16 = 0 /\ k % 16 = k
      BY <2>2, <2>5
    <3>2. HexDigits(0) = << >>
      BY HexStep
    <3>3. Append(<< >>, k) = <<k>>
      OBVIOUS
    <3> QED
      BY ONLY <2>2, <2>3, <2>4, <2>5, <3>1, <3>2, <3>3
  <2>6. CASE ~(k < 16)
    <3>1. k \div 16 \in Nat \ {0} /\ k \div 16 < k
      BY <2>2, <2>6
    <3> QED
      BY ONLY <2>2, <2>3, <2>4, <2>6, <3>1
  <2> QED
    BY <2>5, <2>6
<1> QED
  BY <1>1

\* The loop that looks for the first divisor, from div up, ends.
IsGrow(f, n) == f = [div \in Nat |-> IF n \div div > 9 THEN f[div * 10] ELSE div]

LEMMA GrowExists ==
  ASSUME NEW n \in Nat
  PROVE  \E f : IsGrow(f, n)
<1> DEFINE Steps(f, div) == f[div] = IF n \div div > 9 THEN f[div * 10] ELSE div
           Has(m) == \E f \in [Nat -> Nat] : \A div \in Nat : div + m > n => Steps(f, div)
           Bad == {m \in Nat : ~Has(m)}
<1>1. Has(0)
  <2> DEFINE f == [div \in Nat |-> div]
  <2>1. ASSUME NEW div \in Nat, div > n PROVE Steps(f, div)
    <3>1. n \div div = 0
      BY <2>1
    <3> QED
      BY <3>1
  <2>2. f \in [Nat -> Nat] /\ \A div \in Nat : div + 0 > n => Steps(f, div)
    <3>1. f \in [Nat -> Nat] /\ \A div \in Nat : div + 0 > n => div > n
      OBVIOUS
    <3> HIDE DEF f, Steps
    <3> QED
      BY <2>1, <3>1
  <2> HIDE DEF f, Steps
  <2> QED
    BY <2>2
<1>2. ASSUME NEW m \in Nat, Has(m) PROVE Has(m + 1)
  <2>1. PICK f \in [Nat -> Nat] : \A div \in Nat : div + m > n => Steps(f, div)
    BY <1>2
  <2>2. CASE m > n
    <3>1. \A div \in Nat : div + m > n
      BY <2>2
    <3> QED
      BY <2>1, <3>1
  <2>3. CASE m <= n
    <3> DEFINE e == n - m
               v == IF e # 0 /\ n \div e > 9 THEN f[e * 10] ELSE e
               g == [f EXCEPT ![e] = v]
    <3>1. e \in Nat /\ v \in Nat
      BY <2>3
    <3> HIDE DEF v
    <3>2. g \in [Nat -> Nat] /\ g[e] = v /\ \A div \in Nat : div # e => g[div] = f[div]
      BY <3>1
    <3> HIDE DEF g
    <3>3. ASSUME NEW div \in Nat, div + (m + 1) > n PROVE Steps(g, div)
      <4>1. CASE div = e
        <5>1. CASE e = 0
          <6>1. v = 0 /\ g[div * 10] = 0 /\ g[div] = 0
            BY <3>2, <4>1, <5>1 DEF v
          <6> QED
            BY <4>1, <5>1, <6>1
        <5>2. CASE e # 0
          <6>1. e * 10 \in Nat /\ e * 10 # e
            BY <3>1, <5>2
          <6>2. g[e * 10] = f[e * 10]
            BY <3>2, <6>1
          <6> QED
            BY <3>2, <4>1, <5>2, <6>2 DEF v
        <5> QED
          BY <5>1, <5>2
      <4>2. CASE div # e
        <5>1. div + m > n /\ div * 10 \in Nat /\ div * 10 # e
          BY <2>3, <3>3, <4>2
        <5>2. Steps(f, div) /\ g[div] = f[div] /\ g[div * 10] = f[div * 10]
          BY <2>1, <3>2, <4>2, <5>1
        <5> QED
          BY <5>2
      <4> QED
        BY <4>1, <4>2
    <3> QED
      BY <3>2, <3>3
  <2> QED
    BY <2>2, <2>3
<1> HIDE DEF Has
<1>3. Bad = {}
  <2> SUFFICES ASSUME Bad # {} PROVE FALSE
    OBVIOUS
  <2>1. PICK m \in Bad : \A k \in Bad : m <= k
    <3>1. Bad \in SUBSET Nat
      OBVIOUS
    <3> HIDE DEF Bad
    <3> QED
      BY <3>1, LeastNat
  <2>2. m \in Nat \ {0} /\ ~Has(m)
    BY <1>1, <2>1
  <2>3. Has(m - 1)
    BY <2>1, <2>2
  <2> QED
    BY <1>2, <2>2, <2>3
<1>4. PICK f \in [Nat -> Nat] : \A div \in Nat : div + (n + 1) > n => Steps(f, div)
  <2>1. Has(n + 1)
    BY <1>3
  <2> HIDE DEF Steps
  <2> QED
    BY <2>1 DEF Has
<1>5. \A div \in Nat : Steps(f, div)
  BY <1>4
<1> QED
  BY <1>4, <1>5 DEF IsGrow

LEMMA GrowType ==
  ASSUME NEW n \in Nat, NEW f, IsGrow(f, n)
  PROVE  f[1] \in Nat \ {0}
<1> DEFINE Good(div) == f[div] \in Nat \ {0}
           Bad == {m \in 0 .. n : ~Good(n + 1 - m)}
<1>1. \A div \in Nat : f[div] = IF n \div div > 9 THEN f[div * 10] ELSE div
  BY DEF IsGrow
<1>2. ASSUME NEW div \in Nat, div > n PROVE Good(div)
  <2>1. n \div div = 0
    BY <1>2
  <2> QED
    BY <1>1, <1>2, <2>1
<1>3. Bad = {}
  <2> SUFFICES ASSUME Bad # {} PROVE FALSE
    OBVIOUS
  <2>1. PICK m \in Bad : \A k \in Bad : m <= k
    <3>1. Bad \in SUBSET Nat
      OBVIOUS
    <3> HIDE DEF Bad
    <3> QED
      BY <3>1, LeastNat
  <2> DEFINE div == n + 1 - m
  <2>2. div \in Nat \ {0} /\ ~Good(div)
    BY <2>1
  <2>3. Good(div * 10)
    <3>1. CASE div * 10 > n
      BY <1>2, <2>2, <3>1
    <3>2. CASE div * 10 <= n
      <4> DEFINE k == n + 1 - div * 10
      <4>1. k \in 0 .. n /\ k < m /\ n + 1 - k = div * 10
        BY <2>1, <2>2, <3>2
      <4>2. k \notin Bad
        BY <2>1, <4>1
      <4> HIDE DEF k, div, Good
      <4> QED
        BY <4>1, <4>2
    <3> HIDE DEF Good
    <3> QED
      BY <2>2, <3>1, <3>2
  <2> HIDE DEF div
  <2> QED
    BY <1>1, <2>2, <2>3
<1> HIDE DEF Good
<1>4. CASE n = 0
  BY <1>2, <1>4 DEF Good
<1>5. CASE n # 0
  <2>1. n \in 0 .. n /\ n + 1 - n = 1
    BY <1>5
  <2>2. Good(1)
    BY <1>3, <2>1
  <2> QED
    BY <2>2 DEF Good
<1> QED
  BY <1>4, <1>5

IsDigits(f) ==
  f = [p \in Nat \X Nat |->
        IF p[2] = 0 THEN << >> ELSE <<p[1] \div p[2]>> \o f[<<p[1] % p[2], p[2] \div 10>>]]

Grow(n) == CHOOSE f : IsGrow(f, n)
Digits == CHOOSE f : IsDigits(f)

LEMMA DigitsIs == IsDigits(Digits)
<1> DEFINE S == [Nat -> Seq(Int)]
           base == [a \in Nat |-> << >>]
           op == [p \in Nat \X S |-> [a \in Nat |-> IF p[1] = 0 THEN << >> ELSE <<a \div p[1]>> \o p[2][a % p[1]]]]
           d == [k \in Nat |-> k \div 10]
<1>2. \A k \in Nat : k \div 10 \in Nat /\ (k # 0 => k \div 10 < k)
  OBVIOUS
<1>3. \A a \in Nat : \A k \in Nat \ {0} : a \div k \in Int /\ a % k \in Nat
  OBVIOUS
<1>4. \A s \in Seq(Int) : \A x \in Int : <<x>> \o s \in Seq(Int)
  BY ConcatProperties
<1>5. << >> \in Seq(Int)
  BY EmptySeq
<1>6. \E f : IsDigits(f)
  <2>1. op \in [Nat \X S -> S]
    <3>1. ASSUME NEW k \in Nat, NEW h \in S, NEW a \in Nat
          PROVE  (IF k = 0 THEN << >> ELSE <<a \div k>> \o h[a % k]) \in Seq(Int)
      BY <1>3, <1>4, <1>5
    <3> QED
      BY <3>1
  <2>2. d \in [Nat -> Nat] /\ \A k \in Nat \ {0} : d[k] < k
    BY <1>2
  <2>3. base \in S
    BY <1>5
  <2>4. PICK F \in [Nat -> S] : \A n0 \in Nat : Follows(F, base, op, d, n0)
    <3> HIDE DEF op, d, S, base
    <3> QED
      BY <2>1, <2>2, <2>3, FollowsExists
  <2>5. F[0] = base
    BY <2>4 DEF Follows
  <2>6. ASSUME NEW k \in Nat \ {0}, NEW a \in Nat
        PROVE  F[k][a] = <<a \div k>> \o F[k \div 10][a % k]
    <3>1. F[k] = op[<<k, F[d[k]]>>]
      <4> HIDE DEF op, d, base
      <4>1. Follows(F, base, op, d, k) /\ k \in 1 .. k
        BY <2>4
      <4> QED
        BY <4>1 DEF Follows
    <3>2. k \div 10 \in Nat /\ F[k \div 10] \in S /\ d[k] = k \div 10
      BY <1>2, <2>4
    <3> QED
      BY <3>1, <3>2
  <2> DEFINE f == [p \in Nat \X Nat |-> F[p[2]][p[1]]]
  <2>7. ASSUME NEW p \in Nat \X Nat
        PROVE  f[p] = IF p[2] = 0 THEN << >> ELSE <<p[1] \div p[2]>> \o f[<<p[1] % p[2], p[2] \div 10>>]
    <3>1. PICK a \in Nat, k \in Nat : p = <<a, k>>
      OBVIOUS
    <3>2. CASE k = 0
      BY <2>5, <3>1, <3>2
    <3>3. CASE k # 0
      <4>1. a % k \in Nat /\ k \div 10 \in Nat
        BY <1>2, <1>3, <3>3
      <4>2. f[<<a % k, k \div 10>>] = F[k \div 10][a % k]
        BY <4>1
      <4>3. f[<<a, k>>] = F[k][a]
        OBVIOUS
      <4> HIDE DEF f
      <4> QED
        BY <2>6, <3>1, <3>3, <4>2, <4>3
    <3> QED
      BY <3>2, <3>3
  <2>8. f = [p \in Nat \X Nat |-> f[p]]
    OBVIOUS
  <2> HIDE DEF f
  <2>9. IsDigits(f)
    BY <2>7, <2>8 DEF IsDigits
  <2> QED
    BY <2>9
<1> QED
  BY <1>6 DEF Digits

LEMMA DecimalIs ==
  ASSUME NEW n \in Nat
  PROVE  IsGrow(Grow(n), n) /\ Decimal(n) = Digits[<<n, Grow(n)[1]>>]
<1>1. IsGrow(Grow(n), n)
  BY GrowExists DEF Grow
<1>2. Decimal(n) = Digits[<<n, Grow(n)[1]>>]
  BY DEF Decimal, IsGrow, Grow, Digits, IsDigits
<1> QED
  BY <1>1, <1>2

LEMMA DigitsStep ==
  ASSUME NEW a \in Nat, NEW k \in Nat
  PROVE  Digits[<<a, k>>] = IF k = 0 THEN << >> ELSE <<a \div k>> \o Digits[<<a % k, k \div 10>>]
<1>1. PICK f : f = Digits
  OBVIOUS
<1>2. f = [p \in Nat \X Nat |->
            IF p[2] = 0 THEN << >> ELSE <<p[1] \div p[2]>> \o f[<<p[1] % p[2], p[2] \div 10>>]]
  BY <1>1, DigitsIs DEF IsDigits
<1>3. <<a, k>> \in Nat \X Nat
  OBVIOUS
<1>4. f[<<a, k>>] = IF k = 0 THEN << >> ELSE <<a \div k>> \o f[<<a % k, k \div 10>>]
  BY ONLY <1>2, <1>3
<1> QED
  BY ONLY <1>1, <1>4

LEMMA DigitsType ==
  ASSUME NEW n \in Nat
  PROVE  \A a \in Nat : Digits[<<a, n>>] \in Seq(Int)
<1> DEFINE Good(k) == \A a \in Nat : Digits[<<a, k>>] \in Seq(Int)
           Bad == {k \in Nat : ~Good(k)}
<1>1. \A k \in Nat \ {0} : k \div 10 \in Nat /\ k \div 10 < k
  OBVIOUS
<1>2. \A a \in Nat : \A k \in Nat \ {0} : a \div k \in Int /\ a % k \in Nat
  OBVIOUS
<1>3. \A s \in Seq(Int) : \A x \in Int : <<x>> \o s \in Seq(Int)
  BY ConcatProperties
<1>4. Bad = {}
  <2> SUFFICES ASSUME Bad # {} PROVE FALSE
    OBVIOUS
  <2>1. PICK k \in Bad : \A j \in Bad : k <= j
    <3>1. Bad \in SUBSET Nat
      OBVIOUS
    <3> HIDE DEF Bad
    <3> QED
      BY <3>1, LeastNat
  <2>2. k \in Nat /\ \E a \in Nat : Digits[<<a, k>>] \notin Seq(Int)
    BY <2>1
  <2>3. PICK a \in Nat : Digits[<<a, k>>] \notin Seq(Int)
    BY <2>2
  <2>4. Digits[<<a, k>>] = IF k = 0 THEN << >> ELSE <<a \div k>> \o Digits[<<a % k, k \div 10>>]
    BY <2>2, DigitsStep
  <2>5. k # 0
    BY <2>3, <2>4, EmptySeq
  <2>6. Good(k \div 10)
    <3>1. k \div 10 \in Nat /\ ~(k <= k \div 10)
      BY <1>1, <2>2, <2>5
    <3> HIDE DEF Good
    <3> QED
      BY <2>1, <3>1
  <2>7. Digits[<<a % k, k \div 10>>] \in Seq(Int)
    BY <1>2, <2>2, <2>5, <2>6
  <2> QED
    BY <1>2, <1>3, <2>2, <2>3, <2>4, <2>5, <2>7
<1> QED
  BY <1>4

LEMMA DecimalType ==
  ASSUME NEW n \in Nat
  PROVE  Decimal(n) \in Seq(Int)
<1>1. IsGrow(Grow(n), n) /\ Decimal(n) = Digits[<<n, Grow(n)[1]>>]
  BY DecimalIs
<1>2. Grow(n)[1] \in Nat
  BY <1>1, GrowType
<1> QED
  BY <1>1, <1>2, DigitsType

\* With ten times the divisor: the digits of the quotient by 10, then the
\* remainder.
LEMMA DigitsOfTen ==
  ASSUME NEW j \in Nat
  PROVE  \A n \in Nat : LET p == Power(10)[j]
                       IN  Digits[<<n, 10 * p>>] = Append(Digits[<<n \div 10, p>>], n % 10)
<1>1. PICK f : f = Power(10)
  OBVIOUS
<1>2. f[0] = 1 /\ \A i \in Nat : f[i] \in Nat \ {0} /\ f[i + 1] = 10 * f[i]
  BY <1>1, PowerFacts
<1> DEFINE Good(i) == \A n \in Nat : Digits[<<n, 10 * f[i]>>] = Append(Digits[<<n \div 10, f[i]>>], n % 10)
           S == {i \in Nat : Good(i)}
<1>3. \A x \in Nat, y \in Nat : Append(<<x>>, y) = <<x>> \o <<y>> /\ <<x>> \o << >> = <<x>>
  OBVIOUS
<1>4. 0 \in S
  <2>1. ASSUME NEW n \in Nat PROVE Digits[<<n, 10>>] = Append(Digits[<<n \div 10, 1>>], n % 10)
    <3>1. PICK q, r : q = n \div 10 /\ r = n % 10
      OBVIOUS
    <3>2. q \in Nat /\ r \in Nat /\ q \div 1 = q /\ q % 1 = 0 /\ r \div 1 = r /\ r % 1 = 0
      BY <3>1
    <3>3. \A a \in Nat : Digits[<<a, 1>>] = <<a \div 1>> \o Digits[<<a % 1, 0>>]
      <4> SUFFICES ASSUME NEW a \in Nat
                   PROVE  Digits[<<a, 1>>] = <<a \div 1>> \o Digits[<<a % 1, 0>>]
        OBVIOUS
      <4>1. Digits[<<a, 1>>] = IF 1 = 0 THEN << >> ELSE <<a \div 1>> \o Digits[<<a % 1, 1 \div 10>>]
        BY DigitsStep
      <4>2. PICK k : k = 1 \div 10
        OBVIOUS
      <4>3. k = 0
        BY <4>2
      <4> QED
        BY ONLY <4>1, <4>2, <4>3
    <3>4. Digits[<<0, 0>>] = << >>
      BY DigitsStep
    <3>5. Digits[<<q, 1>>] = <<q>> /\ Digits[<<r, 1>>] = <<r>>
      BY ONLY <1>3, <3>2, <3>3, <3>4
    <3>6. Digits[<<n, 10>>] = <<q>> \o Digits[<<r, 1>>]
      <4>1. 10 \div 10 = 1 /\ 10 \in Nat /\ 10 # 0
        OBVIOUS
      <4>2. Digits[<<n, 10>>] = IF 10 = 0 THEN << >> ELSE <<n \div 10>> \o Digits[<<n % 10, 10 \div 10>>]
        BY ONLY <4>1, n \in Nat, DigitsStep
      <4> QED
        BY ONLY <3>1, <4>1, <4>2
    <3> QED
      BY ONLY <1>3, <3>1, <3>2, <3>5, <3>6
  <2>2. 10 * f[0] = 10
    BY <1>2
  <2> QED
    BY ONLY <1>2, <2>1, <2>2
<1>5. ASSUME NEW i \in Nat, Good(i) PROVE Good(i + 1)
  <2> SUFFICES ASSUME NEW n \in Nat
               PROVE  Digits[<<n, 10 * f[i + 1]>>] = Append(Digits[<<n \div 10, f[i + 1]>>], n % 10)
    OBVIOUS
  <2>1. PICK p, s, c : p = f[i + 1] /\ s = f[i] /\ c = 10 * p
    OBVIOUS
  <2>2. p \in Nat \ {0} /\ s \in Nat \ {0} /\ p = 10 * s /\ p \div 10 = s /\ c \in Nat \ {0} /\ c \div 10 = p
    <3>1. s \in Nat \ {0} /\ p = 10 * s
      BY <1>2, <2>1
    <3> QED
      BY ONLY <2>1, <3>1
  <2>3. PICK q, r, m : q = n \div 10 /\ r = n % 10 /\ m = n % c
    OBVIOUS
  <2>4. q \in Nat /\ r \in Nat /\ m \in Nat
    BY <2>2, <2>3
  <2>5. n \div c = q \div p /\ m \div 10 = q % p /\ m % 10 = r
    <3>1. 10 \in Nat \ {0}
      OBVIOUS
    <3>2. Twice(n, 10, p, 10 * p, n \div 10)
      BY ONLY <2>2, <3>1, n \in Nat, DivisionTwice
    <3>3. Twice(n, 10, p, c, q)
      BY ONLY <2>1, <2>3, <3>2
    <3> QED
      BY ONLY <2>3, <3>3 DEF Twice
  <2>6. PICK x, u : x = q \div p /\ u = Digits[<<q % p, s>>]
    OBVIOUS
  <2>7. x \in Nat /\ q % p \in Nat
    BY <2>2, <2>4, <2>6
  <2>8. u \in Seq(Int)
    BY <2>2, <2>6, <2>7, DigitsType
  <2>9. Digits[<<n, c>>] = <<x>> \o Digits[<<m, p>>]
    <3>1. Digits[<<n, c>>] = IF c = 0 THEN << >> ELSE <<n \div c>> \o Digits[<<n % c, c \div 10>>]
      BY <2>2, DigitsStep
    <3> QED
      BY ONLY <2>2, <2>3, <2>5, <2>6, <3>1
  <2>10. Digits[<<m, p>>] = Append(u, r)
    <3>1. Digits[<<m, 10 * s>>] = Append(Digits[<<m \div 10, s>>], m % 10)
      BY ONLY <1>5, <2>1, <2>4
    <3> QED
      BY ONLY <2>2, <2>5, <2>6, <3>1
  <2>11. Digits[<<q, p>>] = <<x>> \o u
    <3>1. Digits[<<q, p>>] = IF p = 0 THEN << >> ELSE <<q \div p>> \o Digits[<<q % p, p \div 10>>]
      BY <2>2, <2>4, DigitsStep
    <3> QED
      BY ONLY <2>2, <2>6, <3>1
  <2>12. <<x>> \o Append(u, r) = Append(<<x>> \o u, r)
    <3>1. <<x>> \in Seq(Int) /\ r \in Int
      BY <2>4, <2>7
    <3> QED
      BY ONLY <2>8, <3>1
  <2> QED
    BY ONLY <2>1, <2>3, <2>9, <2>10, <2>11, <2>12
<1>6. \A i \in S : i + 1 \in S
  <2> HIDE DEF Good
  <2> QED
    BY <1>5
<1>7. S \in SUBSET Nat
  OBVIOUS
<1> HIDE DEF S
<1>8. j \in S
  BY <1>4, <1>6, <1>7, NatSet
<1> QED
  BY <1>1, <1>8 DEF S

\* The divisor found for n is ten times the one found for n \div 10.
LEMMA GrowOfTen ==
  ASSUME NEW n \in Nat, NEW f, NEW g, IsGrow(f, n), IsGrow(g, n \div 10)
  PROVE  f[10] = 10 * g[1]
<1>1. PICK q \in Nat : q = n \div 10
  OBVIOUS
<1>2. \A p \in Nat : f[p] = IF n \div p > 9 THEN f[p * 10] ELSE p
  BY DEF IsGrow
<1>3. \A p \in Nat : g[p] = IF q \div p > 9 THEN g[p * 10] ELSE p
  BY <1>1 DEF IsGrow
<1> DEFINE Good(p) == f[10 * p] = 10 * g[p]
<1>4. ASSUME NEW p \in Nat \ {0}, q \div p > 9 => Good(10 * p) PROVE Good(p)
  <2>1. PICK c, d : c = 10 * p /\ d = 10 * c
    OBVIOUS
  <2>2. c \in Nat /\ d \in Nat /\ p * 10 = c /\ c * 10 = d
    BY <2>1
  <2>3. n \div c = q \div p
    <3>1. 10 \in Nat \ {0}
      OBVIOUS
    <3>2. Twice(n, 10, p, 10 * p, n \div 10)
      BY ONLY <3>1, p \in Nat \ {0}, n \in Nat, DivisionTwice
    <3> QED
      BY ONLY <1>1, <2>1, <3>2 DEF Twice
  <2>4. f[c] = IF q \div p > 9 THEN f[d] ELSE c
    BY <1>2, <2>2, <2>3
  <2>5. g[p] = IF q \div p > 9 THEN g[c] ELSE p
    BY <1>3, <2>2
  <2>6. q \div p > 9 => f[d] = 10 * g[c]
    BY ONLY <1>4, <2>1
  <2>7. f[c] = 10 * g[p]
    BY ONLY <2>1, <2>4, <2>5, <2>6
  <2> QED
    BY ONLY <2>1, <2>7
<1>5. ASSUME NEW p \in Nat \ {0}, p > q PROVE Good(p)
  <2>1. q \div p = 0
    BY <1>5
  <2> HIDE DEF Good
  <2> QED
    BY <1>4, <2>1
<1> HIDE DEF Good
<1> DEFINE Bad == {m \in Nat : m < q /\ ~Good(q - m)}
<1>6. Bad = {}
  <2> SUFFICES ASSUME Bad # {} PROVE FALSE
    OBVIOUS
  <2>1. PICK m \in Bad : \A k \in Bad : m <= k
    <3>1. Bad \in SUBSET Nat
      OBVIOUS
    <3> HIDE DEF Bad
    <3> QED
      BY <3>1, LeastNat
  <2>2. PICK p \in Nat : p = q - m
    BY <2>1
  <2>3. p \in Nat \ {0} /\ ~Good(p) /\ m \in Nat
    BY <2>1, <2>2
  <2>4. ~Good(10 * p)
    BY <1>4, <2>3
  <2>5. 10 * p \in Nat \ {0} /\ 10 * p <= q
    BY <1>5, <2>3, <2>4
  <2>6. PICK k \in Nat : k = q - 10 * p
    BY <2>5
  <2>7. k < q /\ q - k = 10 * p /\ k < m
    BY <2>2, <2>3, <2>5, <2>6
  <2>8. k \in Bad
    BY <2>4, <2>7
  <2> HIDE DEF Bad
  <2> QED
    BY <2>1, <2>3, <2>7, <2>8
<1>7. Good(1)
  <2>1. CASE 1 > q
    BY <1>5, <2>1
  <2>2. CASE 1 <= q
    <3>1. q - 1 \in Nat /\ q - 1 < q /\ q - (q - 1) = 1
      BY <2>2
    <3> QED
      BY <1>6, <3>1
  <2> QED
    BY <2>1, <2>2
<1> QED
  BY <1>7 DEF Good

LEMMA GrowStep ==
  ASSUME NEW n \in Nat
  PROVE  Grow(n)[1] = IF n < 10 THEN 1 ELSE 10 * Grow(n \div 10)[1]
<1>1. PICK q \in Nat : q = n \div 10
  OBVIOUS
<1>2. PICK f, g : f = Grow(n) /\ g = Grow(q)
  OBVIOUS
<1>3. IsGrow(f, n) /\ IsGrow(g, q)
  BY <1>2, DecimalIs
<1>4. f[10] = 10 * g[1]
  BY <1>1, <1>3, GrowOfTen
<1>5. f[1] = IF n \div 1 > 9 THEN f[1 * 10] ELSE 1
  BY <1>3 DEF IsGrow
<1>6. 1 * 10 = 10 /\ n \div 1 = n
  OBVIOUS
<1>7. f[1] = IF n < 10 THEN 1 ELSE 10 * g[1]
  BY ONLY <1>4, <1>5, <1>6, n \in Nat
<1> QED
  BY ONLY <1>1, <1>2, <1>7

LEMMA GrowIsPower ==
  ASSUME NEW n \in Nat
  PROVE  \E j \in Nat : Grow(n)[1] = Power(10)[j]
<1> DEFINE Good(k) == \E j \in Nat : Grow(k)[1] = Power(10)[j]
           Bad == {k \in Nat : ~Good(k)}
<1>1. Power(10)[0] = 1 /\ \A j \in Nat : Power(10)[j + 1] = 10 * Power(10)[j]
  BY PowerFacts
<1>2. ASSUME NEW k \in Nat, k >= 10 => Good(k \div 10) PROVE Good(k)
  <2>1. Grow(k)[1] = IF k < 10 THEN 1 ELSE 10 * Grow(k \div 10)[1]
    BY GrowStep
  <2>2. CASE k < 10
    <3>1. Grow(k)[1] = Power(10)[0]
      BY ONLY <1>1, <2>1, <2>2
    <3> QED
      BY <3>1
  <2>3. CASE ~(k < 10)
    <3>1. PICK j \in Nat : Grow(k \div 10)[1] = Power(10)[j]
      BY <1>2, <2>3
    <3>2. Grow(k)[1] = Power(10)[j + 1]
      BY ONLY <1>1, <2>1, <2>3, <3>1, j \in Nat
    <3>3. j + 1 \in Nat
      OBVIOUS
    <3> QED
      BY ONLY <3>2, <3>3
  <2> QED
    BY <2>2, <2>3
<1> HIDE DEF Good
<1>3. Bad = {}
  <2> SUFFICES ASSUME Bad # {} PROVE FALSE
    OBVIOUS
  <2>1. PICK k \in Bad : \A j \in Bad : k <= j
    <3>1. Bad \in SUBSET Nat
      OBVIOUS
    <3> HIDE DEF Bad
    <3> QED
      BY <3>1, LeastNat
  <2>2. k \in Nat /\ ~Good(k)
    BY <2>1
  <2>3. k >= 10 /\ ~Good(k \div 10)
    BY <1>2, <2>2
  <2>4. k \div 10 \in Nat /\ k \div 10 < k
    BY <2>2, <2>3
  <2> QED
    BY ONLY <2>1, <2>2, <2>3, <2>4
<1> QED
  BY <1>3 DEF Good

LEMMA DecimalStep ==
  ASSUME NEW n \in Nat
  PROVE  Decimal(n) = IF n < 10 THEN <<n>> ELSE Append(Decimal(n \div 10), n % 10)
<1>1. PICK q \in Nat : q = n \div 10
  OBVIOUS
<1>2. Decimal(n) = Digits[<<n, Grow(n)[1]>>] /\ Decimal(q) = Digits[<<q, Grow(q)[1]>>]
  BY DecimalIs
<1>3. Grow(n)[1] = IF n < 10 THEN 1 ELSE 10 * Grow(q)[1]
  BY <1>1, GrowStep
<1>4. CASE n < 10
  <2>1. Digits[<<n, 1>>] = IF 1 = 0 THEN << >> ELSE <<n \div 1>> \o Digits[<<n % 1, 1 \div 10>>]
    BY DigitsStep
  <2>2. n \div 1 = n /\ n % 1 = 0 /\ 1 \div 10 = 0
    OBVIOUS
  <2>3. Digits[<<0, 0>>] = << >>
    BY DigitsStep
  <2>4. <<n>> \o << >> = <<n>>
    OBVIOUS
  <2> QED
    BY ONLY <1>2, <1>3, <1>4, <2>1, <2>2, <2>3, <2>4
<1>5. CASE ~(n < 10)
  <2>1. PICK j \in Nat : Grow(q)[1] = Power(10)[j]
    BY GrowIsPower
  <2>2. Digits[<<n, 10 * Power(10)[j]>>] = Append(Digits[<<n \div 10, Power(10)[j]>>], n % 10)
    BY DigitsOfTen
  <2> QED
    BY ONLY <1>1, <1>2, <1>3, <1>5, <2>1, <2>2
<1> QED
  BY <1>4, <1>5

\* ft_fputnbr and ft_fputnbr_un find the decimal numeral, 0 included.
LEMMA DecimalIsNumeral ==
  ASSUME NEW n \in Nat
  PROVE  Decimal(n) = Numeral(n, 10)
<1> DEFINE Bad == {k \in Nat : Decimal(k) # Numeral(k, 10)}
<1>1. Bad = {}
  <2> SUFFICES ASSUME Bad # {} PROVE FALSE
    OBVIOUS
  <2>1. PICK k \in Bad : \A j \in Bad : k <= j
    <3>1. Bad \in SUBSET Nat
      OBVIOUS
    <3> HIDE DEF Bad
    <3> QED
      BY <3>1, LeastNat
  <2>2. k \in Nat /\ Decimal(k) # Numeral(k, 10)
        /\ \A j \in Nat : j < k => Decimal(j) = Numeral(j, 10)
    BY <2>1
  <2>3. Decimal(k) = IF k < 10 THEN <<k>> ELSE Append(Decimal(k \div 10), k % 10)
    BY <2>2, DecimalStep
  <2>4. Numeral(k, 10) = IF k < 10 THEN <<k>> ELSE Append(Numeral(k \div 10, 10), k % 10)
    BY <2>2, NumeralStep
  <2>5. ~(k < 10)
    BY ONLY <2>2, <2>3, <2>4
  <2>6. k \div 10 \in Nat /\ k \div 10 < k
    BY <2>2, <2>5
  <2> QED
    BY ONLY <2>2, <2>3, <2>4, <2>5, <2>6
<1> QED
  BY <1>1

-----------------------------------------------------------------------------
(***************************************************************************)
(* The writes of a conversion.                                             *)
(***************************************************************************)
\* What a write may send: a character of the format or an argument, an entry
\* of a table, or a character ft_printf writes itself.
Glyph == STRING \union {Lower[i] : i \in Int} \union {Upper[i] : i \in Int}
           \union {"(", ")", "n", "u", "l", "i", "0", "x", "-", "c", "%"}
Text == Seq(Glyph)
WriteCall == [fd : {1, 2}, text : Text]
Byte == [fd : {1, 2}, ch : Glyph]

\* A write goes to the descriptor of the call, or is a sign.
RightFd(w) == w.fd # fd => w.fd = 1 /\ w.text = <<"-">>

LEMMA FcnIsSeq ==
  ASSUME NEW S, NEW n \in Nat, NEW f \in [1 .. n -> S]
  PROVE  f \in Seq(S) /\ Len(f) = n
<1>1. f \in Seq(S)
  BY SeqDef
<1> QED
  BY <1>1, LenProperties

LEMMA SeqSubset ==
  ASSUME NEW S, NEW T, S \subseteq T, NEW s \in Seq(S)
  PROVE  s \in Seq(T)
<1>1. Len(s) \in Nat /\ s \in [1 .. Len(s) -> S]
  BY LenProperties
<1>2. s \in [1 .. Len(s) -> T]
  BY <1>1
<1> QED
  BY <1>1, <1>2, FcnIsSeq

LEMMA CharsAreGlyphs ==
  \A c \in STRING : c \in Glyph
  BY DEF Glyph

LEMMA TuplesAreSeqs ==
  ASSUME NEW S, NEW a \in S, NEW b \in S, NEW c \in S, NEW d \in S, NEW e \in S, NEW f \in S
  PROVE  /\ <<a>> \in Seq(S)
         /\ <<a, b>> \in Seq(S)
         /\ <<a, b, c, d, e>> \in Seq(S)
         /\ <<a, b, c, d, e, f>> \in Seq(S)
  OBVIOUS

LEMMA WordsAreTexts ==
  /\ <<"(", "n", "u", "l", "l", ")">> \in Text
  /\ <<"(", "n", "i", "l", ")">> \in Text
  /\ <<"0", "x">> \in Text
  /\ <<"0">> \in Text /\ <<"-">> \in Text /\ <<"c">> \in Text /\ <<"%">> \in Text
<1>1. /\ "(" \in Glyph /\ "n" \in Glyph /\ "u" \in Glyph /\ "l" \in Glyph /\ ")" \in Glyph
      /\ "i" \in Glyph /\ "0" \in Glyph /\ "x" \in Glyph /\ "-" \in Glyph /\ "c" \in Glyph /\ "%" \in Glyph
  BY DEF Glyph
<1>2. <<"(", "n", "u", "l", "l", ")">> \in Text
  BY <1>1, TuplesAreSeqs, Zenon DEF Text
<1>3. <<"(", "n", "i", "l", ")">> \in Text
  BY <1>1, TuplesAreSeqs, Zenon DEF Text
<1>4. <<"0", "x">> \in Text
  <2>1. ASSUME NEW a \in Glyph, NEW b \in Glyph PROVE <<a, b>> \in Text
    BY TuplesAreSeqs, Zenon DEF Text
  <2> QED
    BY <1>1, <2>1, Zenon
<1>5. <<"0">> \in Text /\ <<"-">> \in Text /\ <<"c">> \in Text /\ <<"%">> \in Text
  <2>1. ASSUME NEW c \in Glyph PROVE <<c>> \in Text
    BY TuplesAreSeqs, Zenon DEF Text
  <2> QED
    BY <1>1, <2>1, Zenon
<1> QED
  BY <1>2, <1>3, <1>4, <1>5

LEMMA SpellType ==
  ASSUME NEW digits \in Seq(Int), NEW table \in {Lower, Upper}
  PROVE  Spell(digits, table) \in Text
<1>1. Len(digits) \in Nat /\ \A i \in 1 .. Len(digits) : digits[i] \in Int
  BY LenProperties, ElementOfSeq
<1>2. \A i \in 1 .. Len(digits) : table[digits[i] + 1] \in Glyph
  <2> SUFFICES ASSUME NEW i \in 1 .. Len(digits) PROVE table[digits[i] + 1] \in Glyph
    OBVIOUS
  <2>1. PICK k \in Int : k = digits[i] + 1
    BY <1>1
  <2>2. Lower[k] \in Glyph /\ Upper[k] \in Glyph
    BY Zenon DEF Glyph
  <2> QED
    BY <2>1, <2>2
<1>3. Spell(digits, table) \in [1 .. Len(digits) -> Glyph]
  BY <1>2, Zenon DEF Spell
<1> QED
  BY <1>1, <1>3, FcnIsSeq DEF Text

LEMMA WholeType ==
  ASSUME NEW d \in {1, 2}, NEW text \in Text, d = fd \/ (d = 1 /\ text = <<"-">>)
  PROVE  /\ Whole(d, text) \in Seq(WriteCall)
         /\ \A i \in 1 .. Len(Whole(d, text)) : RightFd(Whole(d, text)[i])
<1>1. [fd |-> d, text |-> text] \in WriteCall
  BY DEF WriteCall
<1>2. RightFd([fd |-> d, text |-> text])
  BY DEF RightFd
<1> QED
  BY <1>1, <1>2 DEF Whole

LEMMA SingleType ==
  ASSUME fd \in {1, 2}, NEW text \in Text
  PROVE  /\ Single(fd, text) \in Seq(WriteCall)
         /\ \A i \in 1 .. Len(Single(fd, text)) : RightFd(Single(fd, text)[i])
<1>1. Len(text) \in Nat /\ \A i \in 1 .. Len(text) : text[i] \in Glyph
  BY LenProperties, ElementOfSeq DEF Text
<1>2. \A i \in 1 .. Len(text) : <<text[i]>> \in Text
  BY <1>1 DEF Text
<1>3. Single(fd, text) \in [1 .. Len(text) -> WriteCall]
  BY <1>2 DEF Single, WriteCall
<1>4. \A i \in 1 .. Len(text) : Single(fd, text)[i].fd = fd
  BY DEF Single
<1>5. Single(fd, text) \in Seq(WriteCall) /\ Len(Single(fd, text)) = Len(text)
  BY <1>1, <1>3, FcnIsSeq
<1> QED
  BY <1>4, <1>5 DEF RightFd

\* Two groups of writes, one after the other.
LEMMA BothRight ==
  ASSUME NEW a \in Seq(WriteCall), NEW b \in Seq(WriteCall),
         \A i \in 1 .. Len(a) : RightFd(a[i]), \A i \in 1 .. Len(b) : RightFd(b[i])
  PROVE  a \o b \in Seq(WriteCall) /\ \A i \in 1 .. Len(a \o b) : RightFd((a \o b)[i])
<1>1. /\ Len(a) \in Nat /\ Len(b) \in Nat /\ a \o b \in Seq(WriteCall) /\ Len(a \o b) = Len(a) + Len(b)
      /\ \A i \in 1 .. Len(a) + Len(b) : (a \o b)[i] = IF i <= Len(a) THEN a[i] ELSE b[i - Len(a)]
  BY ConcatProperties, LenProperties
<1>2. ASSUME NEW i \in 1 .. Len(a) + Len(b) PROVE RightFd((a \o b)[i])
  <2>1. CASE i <= Len(a)
    BY <1>1, <2>1
  <2>2. CASE i > Len(a)
    <3>1. i - Len(a) \in 1 .. Len(b)
      BY <1>1, <2>2
    <3> QED
      BY <1>1, <2>2, <3>1
  <2> QED
    BY <1>1, <2>1, <2>2
<1> QED
  BY <1>1, <1>2

LEMMA WritesType ==
  ASSUME fd \in {1, 2}, NEW conv \in Conversions, NEW arg \in Arguments(conv)
  PROVE  /\ Writes(conv, arg) \in Seq(WriteCall)
         /\ \A i \in 1 .. Len(Writes(conv, arg)) : RightFd(Writes(conv, arg)[i])
<1> DEFINE Right(ws) == ws \in Seq(WriteCall) /\ \A i \in 1 .. Len(ws) : RightFd(ws[i])
<1>2. \A n \in Nat : \A table \in {Lower, Upper} :
        Spell(Decimal(n), table) \in Text /\ Spell(HexDigits(n), table) \in Text
  <2> SUFFICES ASSUME NEW n \in Nat, NEW table \in {Lower, Upper}
               PROVE  Spell(Decimal(n), table) \in Text /\ Spell(HexDigits(n), table) \in Text
    OBVIOUS
  <2>1. HexDigits(n) \in Seq(Int)
    BY HexDigitsType, SeqSubset, 0 .. 15 \subseteq Int
  <2> QED
    BY <2>1, DecimalType, SpellType
<1>3. CASE conv \in {"c", "%"}
  <2>1. conv = "c" => Writes(conv, arg) = Whole(fd, <<"c">>)
    BY DEF Writes, Arguments
  <2>2. conv = "%" => Writes(conv, arg) = Whole(fd, <<"%">>)
    BY DEF Writes
  <2>3. <<"c">> \in Text /\ <<"%">> \in Text
    BY WordsAreTexts, Zenon
  <2>4. Right(Whole(fd, <<"c">>)) /\ Right(Whole(fd, <<"%">>))
    BY <2>3, WholeType
  <2> QED
    BY <1>3, <2>1, <2>2, <2>4, Zenon
<1>4. CASE conv = "s"
  <2>1. Writes(conv, arg) = ft_fputstr(arg) /\ arg \in Strings \union {NULL}
    BY <1>4 DEF Writes, Arguments
  <2>2. CASE arg = NULL
    <3>1. <<"(", "n", "u", "l", "l", ")">> \in Text
      BY WordsAreTexts, Zenon
    <3> QED
      BY <2>1, <2>2, <3>1, WholeType DEF ft_fputstr
  <2>3. CASE arg # NULL
    <3>1. arg \in Seq(STRING)
      BY <2>1, <2>3, PrintfAssumption
    <3>2. STRING \subseteq Glyph
      BY CharsAreGlyphs, Zenon
    <3>3. arg \in Text
      BY ONLY <3>1, <3>2, SeqSubset DEF Text
    <3> QED
      BY <2>1, <2>3, <3>3, SingleType DEF ft_fputstr
  <2> QED
    BY <2>2, <2>3
<1>5. CASE conv \in {"p", "P"}
  <2>1. PICK table \in {Lower, Upper} : Writes(conv, arg) = ft_fputaddress(arg, table)
    BY <1>5 DEF Writes, Table
  <2>2. arg \in Nat
    BY <1>5, PrintfAssumption DEF Arguments
  <2>3. CASE arg = 0
    <3>1. <<"(", "n", "i", "l", ")">> \in Text
      BY WordsAreTexts, Zenon
    <3> QED
      BY <2>1, <2>3, <3>1, WholeType DEF ft_fputaddress
  <2>4. CASE arg # 0
    <3> DEFINE a == Whole(fd, <<"0", "x">>)
               b == Whole(fd, Spell(HexDigits(arg), table))
    <3>1. Right(a)
      <4>1. <<"0", "x">> \in Text
        BY WordsAreTexts, Zenon
      <4> QED
        BY <4>1, WholeType
    <3>2. Right(b)
      BY <1>2, <2>2, WholeType
    <3>3. Writes(conv, arg) = a \o b
      BY <2>1, <2>4 DEF ft_fputaddress
    <3> HIDE DEF a, b
    <3> QED
      BY <3>1, <3>2, <3>3, BothRight
  <2> QED
    BY <2>3, <2>4
<1>6. CASE conv \in {"d", "i"}
  <2> DEFINE n == IF arg < 0 THEN -arg ELSE arg
             a == IF arg < 0 THEN Whole(1, <<"-">>) ELSE << >>
             b == Single(fd, Spell(Decimal(n), Lower))
  <2>1. arg \in Int
    BY <1>6, PrintfAssumption DEF Arguments
  <2>2. Right(a)
    <3>1. CASE arg < 0
      <4>1. <<"-">> \in Text
        BY WordsAreTexts, Zenon
      <4> QED
        BY <3>1, <4>1, WholeType
    <3>2. CASE ~(arg < 0)
      BY <3>2
    <3> QED
      BY <3>1, <3>2
  <2>3. Right(b)
    <3>1. n \in Nat
      BY <2>1
    <3> HIDE DEF n
    <3>2. Spell(Decimal(n), Lower) \in Text
      BY <1>2, <3>1
    <3> QED
      BY <3>2, SingleType
  <2>4. Writes(conv, arg) = a \o b
    BY <1>6 DEF Writes, ft_fputnbr
  <2> HIDE DEF a, b
  <2> QED
    BY <2>2, <2>3, <2>4, BothRight
<1>7. CASE conv = "u"
  <2>1. Writes(conv, arg) = Single(fd, Spell(Decimal(arg), Lower)) /\ arg \in UInts
    BY <1>7 DEF Writes, ft_fputnbr_un, Arguments
  <2>2. arg \in Nat
    BY <2>1, PrintfAssumption
  <2>3. Spell(Decimal(arg), Lower) \in Text
    BY <1>2, <2>2
  <2> QED
    BY <2>1, <2>3, SingleType
<1>8. CASE conv \in {"x", "X"}
  <2>1. PICK table \in {Lower, Upper} :
          Writes(conv, arg) = Whole(fd, IF arg = 0 THEN <<"0">> ELSE Spell(HexDigits(arg), table))
    BY <1>8 DEF Writes, ft_fput_hex, Table
  <2>2. arg \in Nat
    <3>1. arg \in UInts
      BY <1>8 DEF Arguments
    <3> QED
      BY <3>1, PrintfAssumption
  <2>3. <<"0">> \in Text /\ Spell(HexDigits(arg), table) \in Text
    BY <1>2, <2>2, WordsAreTexts
  <2> QED
    BY <2>1, <2>3, WholeType
<1> QED
  BY <1>3, <1>4, <1>5, <1>6, <1>7, <1>8 DEF Conversions

-----------------------------------------------------------------------------
(***************************************************************************)
(* The conversions of a format: which "%" begin one.                       *)
(***************************************************************************)
\* The run of "%" that ends at i begins at j.
RunFrom(f, j, i) == (\A k \in j .. i : f[k] = "%") /\ (j = 1 \/ f[j - 1] # "%")

\* The "%" at i begins a conversion: "%%" pairs before it are complete.
Begins(f, i) == \E j \in 1 .. i : RunFrom(f, j, i) /\ (i - j) % 2 = 0

LEMMA UnknownBegins ==
  ASSUME NEW f
  PROVE  Unknown(f) <=> \E i \in 1 .. Len(f) : Begins(f, i) /\ (i = Len(f) \/ f[i + 1] \notin Conversions)
  BY DEF Unknown, Begins, RunFrom

LEMMA RunExists ==
  ASSUME NEW f, NEW i \in Nat \ {0}, f[i] = "%"
  PROVE  \E j \in 1 .. i : RunFrom(f, j, i)
<1> DEFINE S == {j \in 1 .. i : \A k \in j .. i : f[k] = "%"}
<1>1. i \in S
  OBVIOUS
<1>2. PICK j \in S : \A y \in S : j <= y
  <2>1. S \in SUBSET Nat /\ S # {}
    BY <1>1
  <2> HIDE DEF S
  <2> QED
    BY <2>1, LeastNat
<1>3. j \in 1 .. i /\ \A k \in j .. i : f[k] = "%"
  OBVIOUS
<1>4. j = 1 \/ f[j - 1] # "%"
  <2> SUFFICES ASSUME j # 1, f[j - 1] = "%" PROVE FALSE
    OBVIOUS
  <2>1. j - 1 \in 1 .. i
    BY <1>3
  <2>2. \A k \in (j - 1) .. i : k = j - 1 \/ k \in j .. i
    BY <1>3
  <2>3. j - 1 \in S
    BY <1>3, <2>1, <2>2
  <2>4. j <= j - 1
    BY <1>2, <2>3
  <2> QED
    BY <1>3, <2>4
<1> QED
  BY <1>3, <1>4 DEF RunFrom

\* A "%" that follows no beginning of a conversion begins one.
LEMMA NextBegins ==
  ASSUME NEW f, NEW i \in Nat \ {0}, f[i] = "%", i # 1 => ~Begins(f, i - 1)
  PROVE  Begins(f, i)
<1>1. CASE i = 1 \/ f[i - 1] # "%"
  <2>1. RunFrom(f, i, i) /\ (i - i) % 2 = 0 /\ i \in 1 .. i
    BY <1>1 DEF RunFrom
  <2> QED
    BY <2>1 DEF Begins
<1>2. CASE i # 1 /\ f[i - 1] = "%"
  <2>1. i - 1 \in Nat \ {0}
    BY <1>2
  <2>2. PICK j \in 1 .. i - 1 : RunFrom(f, j, i - 1)
    BY <1>2, <2>1, RunExists
  <2>3. (i - 1 - j) % 2 # 0
    BY <1>2, <2>2 DEF Begins
  <2>4. (i - j) % 2 = 0
    BY <2>2, <2>3
  <2>5. \A k \in j .. i : k \in j .. i - 1 \/ k = i
    BY <2>2
  <2>6. RunFrom(f, j, i)
    BY <2>2, <2>5 DEF RunFrom
  <2>7. j \in 1 .. i
    BY <2>2
  <2> QED
    BY <2>4, <2>6, <2>7 DEF Begins
<1> QED
  BY <1>1, <1>2

\* The character after the beginning of a conversion begins none.
LEMMA SecondBeginsNone ==
  ASSUME NEW f, NEW i \in Nat \ {0}, Begins(f, i)
  PROVE  ~Begins(f, i + 1)
<1> SUFFICES ASSUME Begins(f, i + 1) PROVE FALSE
  OBVIOUS
<1>1. PICK j \in 1 .. i : RunFrom(f, j, i) /\ (i - j) % 2 = 0
  BY DEF Begins
<1>2. PICK m \in 1 .. i + 1 : RunFrom(f, m, i + 1) /\ (i + 1 - m) % 2 = 0
  BY DEF Begins
<1>3. ~(j < m)
  <2> SUFFICES ASSUME j < m PROVE FALSE
    OBVIOUS
  <2>1. m - 1 \in j .. i /\ m # 1
    BY <1>1, <1>2
  <2> QED
    BY <1>1, <1>2, <2>1 DEF RunFrom
<1>4. ~(m < j)
  <2> SUFFICES ASSUME m < j PROVE FALSE
    OBVIOUS
  <2>1. j - 1 \in m .. i + 1 /\ j # 1
    BY <1>1, <1>2
  <2> QED
    BY <1>1, <1>2, <2>1 DEF RunFrom
<1> QED
  BY <1>1, <1>2, <1>3, <1>4

\* The characters before s were read: whole conversions, all of them known.
Consumed(f, s) ==
  /\ s \in 1 .. Len(f) + 1
  /\ \A i \in 1 .. s - 1 : Begins(f, i) => i + 1 < s /\ f[i + 1] \in Conversions

LEMMA ConsumeLiteral ==
  ASSUME NEW f, Len(f) \in Nat, NEW s, Consumed(f, s), s <= Len(f), f[s] # "%"
  PROVE  Consumed(f, s + 1)
<1>1. ~Begins(f, s)
  BY DEF Begins, RunFrom, Consumed
<1>2. \A i \in 1 .. s : i \in 1 .. s - 1 \/ i = s
  BY DEF Consumed
<1> QED
  BY <1>1, <1>2 DEF Consumed

LEMMA ConversionBegins ==
  ASSUME NEW f, Len(f) \in Nat, NEW s, Consumed(f, s), s <= Len(f), f[s] = "%"
  PROVE  Begins(f, s)
<1>1. s \in Nat \ {0}
  BY DEF Consumed
<1>2. s # 1 => ~Begins(f, s - 1)
  BY <1>1 DEF Consumed
<1> QED
  BY <1>1, <1>2, NextBegins

LEMMA ConsumeConversion ==
  ASSUME NEW f, Len(f) \in Nat, NEW s, Consumed(f, s), s + 1 <= Len(f), f[s] = "%", f[s + 1] \in Conversions
  PROVE  Consumed(f, s + 2)
<1>1. s \in Nat \ {0} /\ s <= Len(f)
  BY DEF Consumed
<1>2. Begins(f, s)
  BY <1>1, ConversionBegins
<1>3. ~Begins(f, s + 1)
  BY <1>1, <1>2, SecondBeginsNone
<1>4. \A i \in 1 .. s + 2 - 1 : i \in 1 .. s - 1 \/ i = s \/ i = s + 1
  BY <1>1
<1>5. ASSUME NEW i \in 1 .. s + 2 - 1, Begins(f, i) PROVE i + 1 < s + 2 /\ f[i + 1] \in Conversions
  <2>1. CASE i \in 1 .. s - 1
    BY <1>1, <1>5, <2>1 DEF Consumed
  <2>2. CASE i = s
    BY <1>1, <2>2
  <2>3. CASE i = s + 1
    BY <1>3, <1>5, <2>3
  <2> QED
    BY <1>4, <2>1, <2>2, <2>3
<1>6. s + 2 \in 1 .. Len(f) + 1
  BY <1>1
<1> QED
  BY <1>5, <1>6 DEF Consumed

LEMMA ConsumedAll ==
  ASSUME NEW f, Len(f) \in Nat, Consumed(f, Len(f) + 1)
  PROVE  ~Unknown(f)
<1> SUFFICES ASSUME NEW i \in 1 .. Len(f), Begins(f, i), i = Len(f) \/ f[i + 1] \notin Conversions
             PROVE  FALSE
  BY UnknownBegins
<1>1. i \in 1 .. Len(f) + 1 - 1
  OBVIOUS
<1>2. i + 1 < Len(f) + 1 /\ f[i + 1] \in Conversions
  BY <1>1 DEF Consumed
<1> QED
  BY <1>2

-----------------------------------------------------------------------------
(***************************************************************************)
(* The inductive invariant.                                                *)
(***************************************************************************)
PrintTypes ==
  /\ pc \in {"idle", "loop", "writing"}
  /\ fd \in {1, 2}
  /\ pc # "idle" => fmt \in Formats
  /\ pending \in Seq(WriteCall)
  /\ flag \in Int /\ cnt2 \in Int /\ reply \in Int
  /\ out \in Seq(Byte)
  /\ faults \in [failed : Nat, short : Nat]

\* A byte went to the descriptor of the call, or is the sign of a number.
RightByte(b) == b.fd # fd => b.fd = 1 /\ b.ch = "-"

Directed ==
  /\ \A i \in 1 .. Len(pending) : RightFd(pending[i])
  /\ \A i \in 1 .. Len(out) : RightByte(out[i])

\* Between two conversions cnt2 is what was written, but for failed writes.
InLoop ==
  pc = "loop" =>
    /\ pending = << >>
    /\ Consumed(fmt, str)
    /\ cnt2 = Len(out) - faults.failed

\* Inside one, flag has the rest of it; or the conversion is an unknown one.
InConversion ==
  pc = "writing" =>
    \/ /\ Consumed(fmt, str)
       /\ cnt2 + flag = Len(out) - faults.failed
       /\ faults.failed = 0 => flag >= 0
    \/ pending = << >> /\ flag = -1 /\ Unknown(fmt)

PrintInv ==
  /\ PrintTypes /\ Directed /\ InLoop /\ InConversion
  /\ ReplyCounts /\ MinusOneMeansError

LEMMA FormatType ==
  ASSUME NEW f \in Formats
  PROVE  f # NULL /\ Len(f) \in Nat /\ \A i \in 1 .. Len(f) : f[i] \in STRING /\ f[i] # "NUL"
<1>1. f \in Seq(STRING \ {"NUL"}) /\ f # NULL
  BY PrintfAssumption
<1>2. Len(f) \in Nat /\ \A i \in 1 .. Len(f) : f[i] \in STRING \ {"NUL"}
  BY <1>1, LenProperties, ElementOfSeq
<1> QED
  BY <1>1, <1>2

LEMMA InitPrint == Init => PrintInv
<1> SUFFICES ASSUME Init PROVE PrintInv
  OBVIOUS
<1>1. << >> \in Seq(WriteCall) /\ << >> \in Seq(Byte) /\ Len(<< >>) = 0
  BY EmptySeq
<1>2. PrintTypes
  BY <1>1 DEF Init, PrintTypes, NoFaults
<1>3. Directed
  BY <1>1 DEF Init, Directed
<1>4. InLoop /\ InConversion
  BY DEF Init, InLoop, InConversion
<1>5. ReplyCounts
  BY <1>1 DEF Init, ReplyCounts, NoFaults
<1>6. MinusOneMeansError
  <2>1. ~Unknown(<< >>) /\ << >> # NULL
    <3>1. ~Unknown(<< >>)
      BY <1>1 DEF Unknown
    <3> QED
      BY <3>1, PrintfAssumption
  <2> QED
    BY <2>1 DEF Init, MinusOneMeansError
<1> QED
  BY <1>2, <1>3, <1>4, <1>5, <1>6 DEF PrintInv

LEMMA CallStep ==
  ASSUME PrintInv, ft_fprintf
  PROVE  PrintInv'
<1>1. << >> \in Seq(WriteCall) /\ << >> \in Seq(Byte) /\ Len(<< >>) = 0
  BY EmptySeq
<1>2. pending' = << >> /\ out' = << >> /\ str' = 1 /\ flag' = 0 /\ cnt2' = 0 /\ fd' \in {1, 2}
  BY DEF ft_fprintf
<1>3. Directed'
  BY <1>1, <1>2 DEF Directed
<1>4. CASE fmt' # NULL /\ pc' = "loop" /\ faults' = NoFaults /\ UNCHANGED reply
  <2>1. fmt' \in Formats
    BY <1>4 DEF ft_fprintf
  <2>2. PrintTypes'
    BY <1>1, <1>2, <1>4, <2>1 DEF PrintTypes, NoFaults, PrintInv
  <2>3. Consumed(fmt', 1)
    BY <2>1, FormatType DEF Consumed
  <2> QED
    BY <1>1, <1>2, <1>3, <1>4, <2>2, <2>3
    DEF PrintInv, InLoop, InConversion, ReplyCounts, MinusOneMeansError, NoFaults
<1>5. CASE Return(-1) /\ ((fmt' = NULL /\ faults' = NoFaults) \/ faults' = [NoFaults EXCEPT !.failed = 1])
  <2>1. PrintTypes'
    BY <1>1, <1>2, <1>5 DEF PrintTypes, NoFaults, Return
  <2>2. ReplyCounts' /\ InLoop' /\ InConversion'
    BY <1>5 DEF ReplyCounts, InLoop, InConversion, Return
  <2>3. MinusOneMeansError'
    BY <1>5 DEF MinusOneMeansError, NoFaults, Return
  <2> QED
    BY <1>3, <2>1, <2>2, <2>3 DEF PrintInv
<1> QED
  BY <1>4, <1>5 DEF ft_fprintf

LEMMA LoopStep ==
  ASSUME PrintInv, ft_fcallstr
  PROVE  PrintInv'
<1>1. /\ pc = "loop" /\ fmt \in Formats /\ pending = << >> /\ Consumed(fmt, str)
      /\ cnt2 = Len(out) - faults.failed
      /\ UNCHANGED <<fd, fmt, cnt2, out, faults>>
  BY DEF PrintInv, PrintTypes, InLoop, ft_fcallstr
<1>2. fmt # NULL /\ Len(fmt) \in Nat /\ \A i \in 1 .. Len(fmt) : fmt[i] \in STRING /\ fmt[i] # "NUL"
  BY <1>1, FormatType
<1>3. str \in 1 .. Len(fmt) + 1 /\ Len(out) \in Nat /\ faults.failed \in Nat /\ cnt2 \in Int
  BY <1>1, LenProperties DEF Consumed, PrintInv, PrintTypes
<1>4. At(str) # "NUL" => str <= Len(fmt) /\ At(str) = fmt[str]
  BY <1>2, <1>3 DEF At
<1>5. CASE At(str) = "NUL" \/ cnt2 = -1
  <2>1. Return(cnt2) /\ UNCHANGED <<str, pending, flag, items>>
    BY <1>5 DEF ft_fcallstr
  <2>2. PrintTypes' /\ Directed'
    BY <1>1, <2>1 DEF PrintInv, PrintTypes, Directed, Return, RightFd, RightByte
  <2>3. ReplyCounts' /\ InLoop' /\ InConversion'
    BY <1>1, <2>1 DEF ReplyCounts, InLoop, InConversion, Return
  <2>4. MinusOneMeansError'
    <3>1. faults.failed = 0 => cnt2 # -1
      BY <1>1, <1>3
    <3>2. faults.failed = 0 => str = Len(fmt) + 1
      BY <1>2, <1>3, <1>5, <3>1 DEF At
    <3>3. faults.failed = 0 => ~Unknown(fmt)
      BY <1>1, <1>2, <3>2, ConsumedAll
    <3> QED
      BY <1>1, <1>2, <2>1, <3>1, <3>3 DEF MinusOneMeansError, Return
  <2> QED
    BY <2>2, <2>3, <2>4 DEF PrintInv
<1>6. CASE At(str) # "NUL" /\ cnt2 # -1
  <2>1. /\ pc' = "writing" /\ UNCHANGED reply /\ str <= Len(fmt) /\ At(str) = fmt[str]
        /\ \/ /\ At(str) # "%"
              /\ pending' = Whole(fd, <<At(str)>>) /\ flag' = 0 /\ str' = str + 1
           \/ /\ At(str) = "%" /\ At(str + 1) \in Conversions
              /\ \E arg \in Arguments(At(str + 1)) : ft_ftype(At(str + 1), arg)
              /\ str' = str + 2
           \/ /\ At(str) = "%" /\ At(str + 1) \notin Conversions
              /\ flag' = -1 /\ str' = str + 2 /\ pending' = pending
    BY <1>4, <1>6 DEF ft_fcallstr
  <2>2. ASSUME pending' \in Seq(WriteCall), flag' \in Int, \A i \in 1 .. Len(pending') : RightFd(pending'[i]),
               \/ Consumed(fmt, str') /\ flag' = 0
               \/ pending' = << >> /\ flag' = -1 /\ Unknown(fmt)
        PROVE  PrintInv'
    <3>1. PrintTypes' /\ Directed'
      BY <1>1, <2>1, <2>2 DEF PrintInv, PrintTypes, Directed, RightFd, RightByte
    <3>2. InConversion'
      BY <1>1, <1>3, <2>1, <2>2 DEF InConversion
    <3>3. InLoop' /\ ReplyCounts' /\ MinusOneMeansError'
      BY <2>1 DEF InLoop, ReplyCounts, MinusOneMeansError
    <3> QED
      BY <3>1, <3>2, <3>3 DEF PrintInv
  <2>3. fd \in {1, 2}
    BY DEF PrintInv, PrintTypes
  <2>4. CASE At(str) # "%" /\ pending' = Whole(fd, <<At(str)>>) /\ flag' = 0 /\ str' = str + 1
    <3>1. At(str) \in Glyph
      <4>1. fmt[str] \in STRING
        BY <1>2, <1>3, <2>1
      <4> QED
        BY <2>1, <4>1, CharsAreGlyphs
    <3>2. <<At(str)>> \in Text
      BY <3>1, TuplesAreSeqs, Zenon DEF Text
    <3>3. Consumed(fmt, str + 1)
      BY <1>1, <1>2, <2>1, <2>4, ConsumeLiteral
    <3> QED
      BY <2>2, <2>3, <2>4, <3>2, <3>3, WholeType
  <2>5. CASE /\ At(str) = "%" /\ At(str + 1) \in Conversions
             /\ \E arg \in Arguments(At(str + 1)) : ft_ftype(At(str + 1), arg)
             /\ str' = str + 2
    <3>1. PICK arg \in Arguments(At(str + 1)) : pending' = Writes(At(str + 1), arg) /\ flag' = 0
      BY <2>5 DEF ft_ftype
    <3>2. str + 1 <= Len(fmt) /\ At(str + 1) = fmt[str + 1]
      BY <1>2, <1>3, <2>5 DEF At, Conversions
    <3>3. Consumed(fmt, str + 2)
      BY <1>1, <1>2, <2>1, <2>5, <3>2, ConsumeConversion
    <3>4. pending' \in Seq(WriteCall) /\ \A i \in 1 .. Len(pending') : RightFd(pending'[i])
      BY <2>3, <2>5, <3>1, WritesType
    <3> QED
      BY <2>2, <2>5, <3>1, <3>3, <3>4
  <2>6. CASE At(str) = "%" /\ At(str + 1) \notin Conversions /\ flag' = -1 /\ pending' = pending
    <3>1. Begins(fmt, str) /\ str \in 1 .. Len(fmt)
      <4>1. fmt[str] = "%" /\ str <= Len(fmt) /\ str \in 1 .. Len(fmt)
        BY <1>3, <2>1, <2>6
      <4>2. Begins(fmt, str)
        BY <1>1, <1>2, <4>1, ConversionBegins
      <4> QED
        BY <4>1, <4>2
    <3>2. str = Len(fmt) \/ fmt[str + 1] \notin Conversions
      BY <1>2, <1>3, <2>1, <2>6 DEF At
    <3>3. Unknown(fmt)
      BY <3>1, <3>2, UnknownBegins
    <3>4. pending' = << >> /\ << >> \in Seq(WriteCall) /\ Len(<< >>) = 0
      BY <1>1, <2>6, EmptySeq
    <3> QED
      BY <2>2, <2>6, <3>3, <3>4
  <2> QED
    BY <2>1, <2>4, <2>5, <2>6
<1> QED
  BY <1>5, <1>6

LEMMA WrittenType ==
  ASSUME PrintTypes, Directed, pending # << >>, NEW n \in 0 .. Len(Head(pending).text), Written(n)
  PROVE  /\ out' \in Seq(Byte) /\ Len(out') = Len(out) + n
         /\ \A i \in 1 .. Len(out') : RightByte(out'[i])
<1> DEFINE w == Head(pending)
           new == [i \in 1 .. n |-> [fd |-> w.fd, ch |-> w.text[i]]]
<1>1. w \in WriteCall /\ RightFd(w)
  <2>1. w \in WriteCall /\ w = pending[1] /\ 1 \in 1 .. Len(pending)
    BY HeadTailProperties, EmptySeq, LenProperties DEF PrintTypes
  <2> QED
    BY <2>1 DEF Directed
<1>2. Len(w.text) \in Nat /\ \A i \in 1 .. Len(w.text) : w.text[i] \in Glyph
  BY <1>1, LenProperties, ElementOfSeq DEF WriteCall, Text
<1>3. n \in Nat /\ new \in [1 .. n -> Byte]
  BY <1>1, <1>2 DEF Byte, WriteCall
<1>4. new \in Seq(Byte) /\ Len(new) = n
  BY <1>3, FcnIsSeq
<1>5. ASSUME NEW i \in 1 .. n PROVE RightByte(new[i])
  <2>1. new[i].fd = w.fd /\ new[i].ch = w.text[i]
    OBVIOUS
  <2>2. w.text = <<"-">> => w.text[i] = "-"
    BY <1>2
  <2> QED
    BY <1>1, <2>1, <2>2 DEF RightFd, RightByte
<1>6. out' = out \o new /\ out \in Seq(Byte) /\ Len(out) \in Nat
  BY LenProperties DEF Written, PrintTypes
<1> HIDE DEF w, new
<1>7. /\ out' \in Seq(Byte) /\ Len(out') = Len(out) + n
      /\ \A i \in 1 .. Len(out) + n : out'[i] = IF i <= Len(out) THEN out[i] ELSE new[i - Len(out)]
  BY <1>4, <1>6, ConcatProperties
<1>8. ASSUME NEW i \in 1 .. Len(out) + n PROVE RightByte(out'[i])
  <2>1. CASE i <= Len(out)
    BY <1>6, <1>7, <2>1 DEF Directed
  <2>2. CASE i > Len(out)
    <3>1. i - Len(out) \in 1 .. n
      BY <1>3, <1>6, <2>2
    <3> QED
      BY <1>5, <1>6, <1>7, <2>2, <3>1
  <2> QED
    BY <1>3, <1>6, <2>1, <2>2
<1> QED
  BY <1>7, <1>8

LEMMA WriteStep ==
  ASSUME PrintInv, write
  PROVE  PrintInv'
<1> DEFINE w == Head(pending)
           all == Len(w.text)
<1>1. /\ pc = "writing" /\ pending # << >> /\ pending' = Tail(pending)
      /\ UNCHANGED <<pc, fd, fmt, str, cnt2, reply>>
  BY DEF write
<1>2. /\ Tail(pending) \in Seq(WriteCall) /\ w \in WriteCall
      /\ \A i \in 1 .. Len(Tail(pending)) : RightFd(Tail(pending)[i])
  <2>1. /\ Tail(pending) \in Seq(WriteCall) /\ w \in WriteCall /\ Len(pending) \in Nat
        /\ Len(Tail(pending)) = Len(pending) - 1
        /\ \A i \in 1 .. Len(Tail(pending)) : Tail(pending)[i] = pending[i + 1]
    BY <1>1, HeadTailProperties, LenProperties DEF PrintInv, PrintTypes
  <2>2. \A i \in 1 .. Len(Tail(pending)) : i + 1 \in 1 .. Len(pending)
    BY <2>1
  <2> QED
    BY <2>1, <2>2 DEF PrintInv, Directed
<1>3. all \in Nat
  BY <1>2, LenProperties DEF WriteCall, Text
<1>4. /\ Consumed(fmt, str) /\ cnt2 + flag = Len(out) - faults.failed
      /\ faults.failed = 0 => flag >= 0
  BY <1>1 DEF PrintInv, InConversion
<1>5. /\ flag \in Int /\ cnt2 \in Int /\ Len(out) \in Nat /\ faults \in [failed : Nat, short : Nat]
      /\ PrintTypes /\ Directed
  BY LenProperties DEF PrintInv, PrintTypes
<1>6. ASSUME out' \in Seq(Byte), \A i \in 1 .. Len(out') : RightByte(out'[i]),
             flag' \in Int, faults' \in [failed : Nat, short : Nat],
             cnt2 + flag' = Len(out') - faults'.failed, faults'.failed = 0 => flag' >= 0
      PROVE  PrintInv'
  <2>1. PrintTypes'
    BY <1>1, <1>2, <1>5, <1>6 DEF PrintTypes
  <2>2. Directed'
    BY <1>1, <1>2, <1>6 DEF Directed, RightFd, RightByte
  <2>3. InConversion'
    BY <1>1, <1>4, <1>6 DEF InConversion
  <2>4. InLoop' /\ ReplyCounts' /\ MinusOneMeansError'
    BY <1>1 DEF InLoop, ReplyCounts, MinusOneMeansError
  <2> QED
    BY <2>1, <2>2, <2>3, <2>4 DEF PrintInv
<1> HIDE DEF w
<1>7. CASE Written(all) /\ flag' = flag + all /\ UNCHANGED faults
  <2>1. /\ out' \in Seq(Byte) /\ Len(out') = Len(out) + all
        /\ \A i \in 1 .. Len(out') : RightByte(out'[i])
    <3>1. all \in 0 .. Len(Head(pending).text)
      BY <1>3 DEF w
    <3> HIDE DEF all
    <3> QED
      BY <1>1, <1>5, <1>7, <3>1, WrittenType
  <2> HIDE DEF all
  <2> QED
    BY <1>3, <1>4, <1>5, <1>6, <1>7, <2>1
<1>8. CASE flag' = flag - 1 /\ faults' = [faults EXCEPT !.failed = @ + 1] /\ UNCHANGED out
  <2>1. /\ faults'.failed = faults.failed + 1 /\ faults.failed \in Nat
        /\ faults' \in [failed : Nat, short : Nat]
    BY <1>5, <1>8
  <2>2. out' \in Seq(Byte) /\ (\A i \in 1 .. Len(out') : RightByte(out'[i])) /\ Len(out') = Len(out)
    BY <1>5, <1>8 DEF PrintTypes, Directed
  <2>3. cnt2 + flag' = Len(out') - faults'.failed /\ faults'.failed # 0 /\ flag' \in Int
    BY <1>4, <1>5, <1>8, <2>1, <2>2
  <2> QED
    BY <1>6, <2>1, <2>2, <2>3
<1>9. CASE (\E n \in 1 .. all - 1 : Written(n) /\ flag' = flag + n) /\ faults' = [faults EXCEPT !.short = @ + 1]
  <2>1. PICK n \in 1 .. all - 1 : Written(n) /\ flag' = flag + n
    BY <1>9
  <2>2. /\ out' \in Seq(Byte) /\ Len(out') = Len(out) + n
        /\ \A i \in 1 .. Len(out') : RightByte(out'[i])
    <3>1. n \in 0 .. Len(Head(pending).text)
      BY <1>3 DEF w
    <3> QED
      BY <1>1, <1>5, <2>1, <3>1, WrittenType
  <2>3. /\ faults'.failed = faults.failed /\ faults.failed \in Nat
        /\ faults' \in [failed : Nat, short : Nat]
    BY <1>5, <1>9
  <2>4. n \in Nat
    BY <1>3
  <2>5. /\ cnt2 + flag' = Len(out') - faults'.failed /\ flag' \in Int
        /\ faults'.failed = 0 => flag' >= 0
    BY <1>4, <1>5, <2>1, <2>2, <2>3, <2>4
  <2> QED
    BY <1>6, <2>2, <2>3, <2>5
<1> QED
  BY <1>7, <1>8, <1>9 DEF write, w

LEMMA AddedStep ==
  ASSUME PrintInv, Added
  PROVE  PrintInv'
<1>1. /\ pc = "writing" /\ pending = << >> /\ cnt2' = cnt2 + flag
      /\ UNCHANGED <<fd, fmt, str, pending, flag, items, out, faults>>
      /\ flag \in Int /\ cnt2 \in Int
  BY DEF Added, PrintInv, PrintTypes
<1>2. CASE flag = -1
  <2>1. Return(-1)
    BY <1>2 DEF Added
  <2>2. PrintTypes' /\ Directed'
    BY <1>1, <2>1 DEF PrintInv, PrintTypes, Directed, Return, RightFd, RightByte
  <2>3. ReplyCounts' /\ InLoop' /\ InConversion'
    BY <2>1 DEF ReplyCounts, InLoop, InConversion, Return
  <2>4. faults.failed = 0 => Unknown(fmt)
    BY <1>1, <1>2 DEF PrintInv, InConversion
  <2>5. MinusOneMeansError'
    BY <1>1, <2>1, <2>4 DEF MinusOneMeansError, Return
  <2> QED
    BY <2>2, <2>3, <2>5 DEF PrintInv
<1>3. CASE flag # -1
  <2>1. pc' = "loop" /\ UNCHANGED reply
    BY <1>3 DEF Added
  <2>2. PrintTypes' /\ Directed'
    BY <1>1, <2>1 DEF PrintInv, PrintTypes, Directed, RightFd, RightByte
  <2>3. Consumed(fmt, str) /\ cnt2 + flag = Len(out) - faults.failed
    BY <1>1, <1>3 DEF PrintInv, InConversion
  <2>4. InLoop'
    BY <1>1, <2>3 DEF InLoop
  <2>5. ReplyCounts' /\ MinusOneMeansError' /\ InConversion'
    BY <2>1 DEF ReplyCounts, MinusOneMeansError, InConversion
  <2> QED
    BY <2>2, <2>4, <2>5 DEF PrintInv
<1> QED
  BY <1>2, <1>3

(***************************************************************************)
(* The inductive invariant holds: between two conversions the count is     *)
(* what was written less the failed writes, the format before str is whole *)
(* conversions, all known, and every byte goes to the descriptor of the    *)
(* call or is the sign of a number.                                        *)
(***************************************************************************)
THEOREM PrintInvHolds == Spec => []PrintInv
<1>1. Init => PrintInv
  BY InitPrint
<1>2. PrintInv /\ [Next]_vars => PrintInv'
  <2> SUFFICES ASSUME PrintInv, [Next]_vars PROVE PrintInv'
    OBVIOUS
  <2>1. CASE UNCHANGED vars
    BY <2>1
    DEF vars, PrintInv, PrintTypes, Directed, RightFd, RightByte, InLoop, InConversion, ReplyCounts, MinusOneMeansError
  <2> QED
    BY <2>1, CallStep, LoopStep, WriteStep, AddedStep DEF Next
<1> QED
  BY <1>1, <1>2, PTL DEF Spec

(***************************************************************************)
(* What a call returns, when not -1, is the number of bytes written less   *)
(* one for every write that failed.                                        *)
(***************************************************************************)
THEOREM ReplyCountsCorrect == Spec => []ReplyCounts
<1>1. PrintInv => ReplyCounts
  BY DEF PrintInv
<1> QED
  BY <1>1, PrintInvHolds, PTL

(***************************************************************************)
(* Without failing writes -1 means a NULL format or an unknown conversion, *)
(* and such a format always gives -1.                                      *)
(***************************************************************************)
THEOREM MinusOneMeansErrorCorrect == Spec => []MinusOneMeansError
<1>1. PrintInv => MinusOneMeansError
  BY DEF PrintInv
<1> QED
  BY <1>1, PrintInvHolds, PTL

(***************************************************************************)
(* The format is never read beyond its terminating NUL.                    *)
(***************************************************************************)
THEOREM StaysInStringCorrect == Spec => []StaysInString
<1>1. PrintInv => StaysInString
  <2> SUFFICES ASSUME PrintInv, pc = "loop" PROVE str <= Len(fmt) + 1
    BY DEF StaysInString
  <2>1. Consumed(fmt, str)
    BY DEF PrintInv, InLoop
  <2> QED
    BY <2>1 DEF Consumed
<1> QED
  BY <1>1, PrintInvHolds, PTL

(***************************************************************************)
(* Failing writes or not, a byte that does not go to the descriptor of the *)
(* call is a sign, which ft_fputnbr sends to descriptor 1.                 *)
(***************************************************************************)
THEOREM OnlySignsStray == Spec => [](\A i \in 1 .. Len(out) : RightByte(out[i]))
<1>1. PrintInv => \A i \in 1 .. Len(out) : RightByte(out[i])
  BY DEF PrintInv, Directed
<1> QED
  BY <1>1, PrintInvHolds, PTL

-----------------------------------------------------------------------------
(***************************************************************************)
(* Texts one after the other.                                              *)
(***************************************************************************)
Flattens(f, ws, n) == f = [i \in 1 .. n |-> IF i = 1 THEN ws[i] ELSE f[i - 1] \o ws[i]]

LEMMA FlattensExists ==
  ASSUME NEW ws, NEW n \in Nat
  PROVE  \E f : Flattens(f, ws, n)
<1> DEFINE S == {k \in Nat : \E f : Flattens(f, ws, k)}
<1>1. 0 \in S
  <2> DEFINE f == [i \in 1 .. 0 |-> 0]
  <2>1. f = [i \in 1 .. 0 |-> IF i = 1 THEN ws[i] ELSE f[i - 1] \o ws[i]]
    OBVIOUS
  <2> HIDE DEF f
  <2>2. Flattens(f, ws, 0)
    BY <2>1 DEF Flattens
  <2> QED
    BY <2>2
<1>2. ASSUME NEW k \in S PROVE k + 1 \in S
  <2>1. k \in Nat
    OBVIOUS
  <2>2. PICK f : Flattens(f, ws, k)
    OBVIOUS
  <2> DEFINE g == [i \in 1 .. k + 1 |-> IF i = 1 THEN ws[i] ELSE f[i - 1] \o ws[i]]
  <2>3. ASSUME NEW i \in 1 .. k PROVE g[i] = f[i]
    <3>1. i \in 1 .. k + 1
      BY <2>1
    <3>2. f[i] = IF i = 1 THEN ws[i] ELSE f[i - 1] \o ws[i]
      BY <2>2 DEF Flattens
    <3> QED
      BY <3>1, <3>2
  <2>4. ASSUME NEW i \in 1 .. k + 1 PROVE g[i] = IF i = 1 THEN ws[i] ELSE g[i - 1] \o ws[i]
    <3>1. i = 1 \/ i - 1 \in 1 .. k
      BY <2>1
    <3>2. g[i] = IF i = 1 THEN ws[i] ELSE f[i - 1] \o ws[i]
      OBVIOUS
    <3> HIDE DEF g
    <3> QED
      BY <2>3, <3>1, <3>2
  <2>5. g = [i \in 1 .. k + 1 |-> g[i]]
    OBVIOUS
  <2> HIDE DEF g
  <2>6. Flattens(g, ws, k + 1)
    BY <2>4, <2>5 DEF Flattens
  <2> QED
    BY <2>1, <2>6
<1>3. n \in S
  <2>1. S \in SUBSET Nat
    OBVIOUS
  <2> HIDE DEF S
  <2> QED
    BY <1>1, <1>2, <2>1, NatSet
<1> QED
  BY <1>3

\* FlattenSeq, step by step: f has the texts so far.
Joins(f, ws) ==
  /\ f[1] = ws[1]
  /\ \A i \in 1 .. Len(ws) - 1 : f[i + 1] = f[i] \o ws[i + 1]
  /\ \A i \in 1 .. Len(ws) : f[i] \in Text

LEMMA FlattenIs ==
  ASSUME NEW ws \in Seq(Text), Len(ws) # 0
  PROVE  \E f : Joins(f, ws) /\ FlattenSeq(ws) = f[Len(ws)]
<1> DEFINE IsFlat(f) == f = [i \in 1 .. Len(ws) |-> IF i = 1 THEN ws[i] ELSE f[i - 1] \o ws[i]]
           flatten == CHOOSE f : IsFlat(f)
<1>1. \A f : Flattens(f, ws, Len(ws)) <=> IsFlat(f)
  BY DEF Flattens
<1>2. \E f : Flattens(f, ws, Len(ws))
  BY FlattensExists, LenProperties
<1>3. FlattenSeq(ws) = flatten[Len(ws)]
  BY DEF FlattenSeq
<1>4. Flattens(flatten, ws, Len(ws))
  BY <1>1, <1>2
<1> HIDE DEF flatten
<1>5. PICK f, n : f = flatten /\ n = Len(ws)
  OBVIOUS
<1>6. n \in Nat \ {0} /\ \A i \in 1 .. n : ws[i] \in Text
  BY <1>5, LenProperties, ElementOfSeq
<1>7. \A i \in 1 .. n : f[i] = IF i = 1 THEN ws[i] ELSE f[i - 1] \o ws[i]
  BY <1>4, <1>5 DEF Flattens
<1>8. f[1] = ws[1]
  BY <1>6, <1>7
<1>9. ASSUME NEW i \in 1 .. n - 1 PROVE f[i + 1] = f[i] \o ws[i + 1]
  <2>1. i + 1 \in 1 .. n /\ i + 1 # 1 /\ (i + 1) - 1 = i
    BY <1>6
  <2> QED
    BY <1>7, <2>1
<1> DEFINE S == {k \in Nat : k + 1 <= n => f[k + 1] \in Text}
<1>10. 0 \in S
  BY <1>6, <1>8
<1>11. ASSUME NEW k \in S PROVE k + 1 \in S
  <2> SUFFICES ASSUME (k + 1) + 1 <= n PROVE f[(k + 1) + 1] \in Text
    OBVIOUS
  <2>1. k + 1 \in 1 .. n - 1 /\ (k + 1) + 1 \in 1 .. n /\ k + 1 <= n
    BY <1>6
  <2>2. f[k + 1] \in Text /\ ws[(k + 1) + 1] \in Text
    BY <1>6, <2>1
  <2>3. f[(k + 1) + 1] = f[k + 1] \o ws[(k + 1) + 1]
    BY <1>9, <2>1
  <2> QED
    BY <2>2, <2>3, ConcatProperties DEF Text
<1>12. ASSUME NEW i \in 1 .. n PROVE f[i] \in Text
  <2>1. i - 1 \in Nat /\ (i - 1) + 1 = i
    BY <1>6
  <2>2. i - 1 \in S
    <3>1. S \in SUBSET Nat
      OBVIOUS
    <3> HIDE DEF S
    <3> QED
      BY <1>10, <1>11, <2>1, <3>1, NatSet
  <2> QED
    BY <1>6, <2>1, <2>2
<1>13. Joins(f, ws)
  BY <1>5, <1>8, <1>9, <1>12 DEF Joins
<1> QED
  BY <1>3, <1>5, <1>13

LEMMA FlattenNone == FlattenSeq(<< >>) = << >>
  BY EmptySeq DEF FlattenSeq

LEMMA FlattenType ==
  ASSUME NEW ws \in Seq(Text)
  PROVE  FlattenSeq(ws) \in Text
<1>1. CASE Len(ws) = 0
  <2>1. ws = << >>
    BY <1>1, EmptySeq
  <2> QED
    BY <2>1, FlattenNone, EmptySeq DEF Text
<1>2. CASE Len(ws) # 0
  <2>1. PICK f : Joins(f, ws) /\ FlattenSeq(ws) = f[Len(ws)]
    BY <1>2, FlattenIs
  <2>2. Len(ws) \in 1 .. Len(ws)
    BY <1>2, LenProperties
  <2> QED
    BY <2>1, <2>2 DEF Joins
<1> QED
  BY <1>1, <1>2

LEMMA FlattenAppend ==
  ASSUME NEW ws \in Seq(Text), NEW w \in Text
  PROVE  FlattenSeq(Append(ws, w)) = FlattenSeq(ws) \o w
<1>1. PICK n, vs : n = Len(ws) /\ vs = Append(ws, w)
  OBVIOUS
<1>2. n \in Nat /\ vs \in Seq(Text) /\ Len(vs) = n + 1 /\ (\A i \in 1 .. n : vs[i] = ws[i]) /\ vs[n + 1] = w
  BY <1>1, LenProperties, AppendProperties
<1>3. PICK g : Joins(g, vs) /\ FlattenSeq(vs) = g[n + 1]
  <2>1. Len(vs) # 0
    BY <1>2
  <2> QED
    BY <1>2, <2>1, FlattenIs
<1>4. g[1] = vs[1] /\ \A i \in 1 .. n : g[i + 1] = g[i] \o vs[i + 1]
  <2>1. Len(vs) - 1 = n
    BY <1>2
  <2>2. g[1] = vs[1] /\ \A i \in 1 .. Len(vs) - 1 : g[i + 1] = g[i] \o vs[i + 1]
    BY ONLY <1>3 DEF Joins
  <2> QED
    BY ONLY <2>1, <2>2
<1>5. CASE n = 0
  <2>1. ws = << >>
    BY <1>1, <1>5, EmptySeq
  <2>2. << >> \o w = w
    BY ConcatEmptySeq DEF Text
  <2>3. g[n + 1] = w
    BY <1>2, <1>4, <1>5
  <2> QED
    BY ONLY <1>1, <1>3, <2>1, <2>2, <2>3, FlattenNone
<1>6. CASE n # 0
  <2>1. PICK f : Joins(f, ws) /\ FlattenSeq(ws) = f[n]
    BY <1>1, <1>6, FlattenIs
  <2>2. f[1] = ws[1] /\ \A i \in 1 .. n - 1 : f[i + 1] = f[i] \o ws[i + 1]
    BY <1>1, <2>1 DEF Joins
  <2> DEFINE S == {k \in Nat : k + 1 <= n => f[k + 1] = g[k + 1]}
  <2>3. 0 \in S
    BY <1>2, <1>4, <1>6, <2>2
  <2>4. ASSUME NEW k \in S PROVE k + 1 \in S
    <3> SUFFICES ASSUME (k + 1) + 1 <= n PROVE f[(k + 1) + 1] = g[(k + 1) + 1]
      OBVIOUS
    <3>1. PICK i : i = k + 1
      OBVIOUS
    <3>2. i \in 1 .. n - 1 /\ i \in 1 .. n /\ i + 1 \in 1 .. n /\ k + 1 <= n
      BY <1>2, <3>1
    <3>3. f[i + 1] = f[i] \o ws[i + 1] /\ g[i + 1] = g[i] \o vs[i + 1]
      BY <1>4, <2>2, <3>2
    <3>4. f[i] = g[i] /\ vs[i + 1] = ws[i + 1]
      BY <1>2, <3>1, <3>2
    <3> QED
      BY ONLY <3>1, <3>3, <3>4
  <2>5. n - 1 \in S
    <3>1. S \in SUBSET Nat /\ n - 1 \in Nat
      BY <1>2, <1>6
    <3> HIDE DEF S
    <3> QED
      BY <2>3, <2>4, <3>1, NatSet
  <2>6. f[n] = g[n]
    <3>1. (n - 1) + 1 = n /\ n <= n
      BY <1>2
    <3> QED
      BY <2>5, <3>1
  <2>7. g[n + 1] = g[n] \o w
    <3>1. n \in 1 .. n
      BY <1>2, <1>6
    <3> QED
      BY ONLY <1>2, <1>4, <3>1
  <2> QED
    BY ONLY <1>1, <1>3, <2>1, <2>6, <2>7
<1> QED
  BY <1>5, <1>6

\* The first text, and the others behind it.
LEMMA FlattenFirst ==
  ASSUME NEW ws \in Seq(Text), NEW vs \in Seq(Text), Len(ws) = Len(vs) + 1,
         \A i \in 1 .. Len(vs) : vs[i] = ws[i + 1]
  PROVE  FlattenSeq(ws) = ws[1] \o FlattenSeq(vs)
<1>1. PICK n : n = Len(vs)
  OBVIOUS
<1>2. n \in Nat /\ Len(ws) = n + 1 /\ \A i \in 1 .. n + 1 : ws[i] \in Text
  BY <1>1, LenProperties, ElementOfSeq
<1>3. PICK f : Joins(f, ws) /\ FlattenSeq(ws) = f[n + 1]
  <2>1. Len(ws) # 0
    BY <1>2
  <2> QED
    BY <1>2, <2>1, FlattenIs
<1>4. f[1] = ws[1] /\ (\A i \in 1 .. n : f[i + 1] = f[i] \o ws[i + 1]) /\ ws[1] \in Text
  <2>1. Len(ws) - 1 = n /\ 1 \in 1 .. n + 1
    BY <1>2
  <2>2. f[1] = ws[1] /\ \A i \in 1 .. Len(ws) - 1 : f[i + 1] = f[i] \o ws[i + 1]
    BY ONLY <1>3 DEF Joins
  <2> QED
    BY ONLY <1>2, <2>1, <2>2
<1>5. CASE n = 0
  <2>1. vs = << >>
    BY <1>1, <1>5, EmptySeq
  <2>2. ws[1] \o << >> = ws[1]
    BY <1>4, ConcatEmptySeq DEF Text
  <2>3. f[n + 1] = ws[1]
    BY <1>4, <1>5
  <2> QED
    BY ONLY <1>3, <2>1, <2>2, <2>3, FlattenNone
<1>6. CASE n # 0
  <2>1. PICK g : Joins(g, vs) /\ FlattenSeq(vs) = g[n]
    BY <1>1, <1>6, FlattenIs
  <2>2. /\ g[1] = vs[1] /\ \A i \in 1 .. n - 1 : g[i + 1] = g[i] \o vs[i + 1]
        /\ \A i \in 1 .. n : g[i] \in Text
    BY <1>1, <2>1 DEF Joins
  <2> DEFINE Good(i) == f[i + 1] = ws[1] \o g[i]
             S == {k \in Nat : k + 1 <= n => Good(k + 1)}
  <2>3. Good(1)
    <3>1. 1 \in 1 .. n
      BY <1>2, <1>6
    <3>2. f[1 + 1] = f[1] \o ws[1 + 1] /\ vs[1] = ws[1 + 1]
      BY <1>1, <1>4, <3>1
    <3> QED
      BY ONLY <1>4, <2>2, <3>2
  <2>4. ASSUME NEW i \in Nat, i \in 1 .. n - 1, Good(i) PROVE Good(i + 1)
    <3>1. i \in 1 .. n /\ i + 1 \in 1 .. n /\ (i + 1) + 1 \in 1 .. n + 1
      BY <1>2, <2>4
    <3>2. f[(i + 1) + 1] = f[i + 1] \o ws[(i + 1) + 1] /\ g[i + 1] = g[i] \o vs[i + 1]
      BY <1>4, <2>2, <2>4, <3>1
    <3>3. f[i + 1] = ws[1] \o g[i] /\ vs[i + 1] = ws[(i + 1) + 1]
      BY <1>1, <2>4, <3>1
    <3>4. g[i] \in Text /\ ws[(i + 1) + 1] \in Text
      BY <1>2, <2>2, <3>1
    <3>5. (ws[1] \o g[i]) \o ws[(i + 1) + 1] = ws[1] \o (g[i] \o ws[(i + 1) + 1])
      <4>1. PICK x, y, z : x = ws[1] /\ y = g[i] /\ z = ws[(i + 1) + 1]
        OBVIOUS
      <4>2. x \in Seq(Glyph) /\ y \in Seq(Glyph) /\ z \in Seq(Glyph)
        BY ONLY <1>4, <3>4, <4>1 DEF Text
      <4>3. (x \o y) \o z = x \o (y \o z)
        BY ONLY <4>2, ConcatAssociative
      <4> QED
        BY ONLY <4>1, <4>3
    <3> QED
      BY ONLY <3>2, <3>3, <3>5
  <2> HIDE DEF Good
  <2>5. n - 1 \in S
    <3>1. S \in SUBSET Nat /\ n - 1 \in Nat
      BY <1>2, <1>6
    <3>2. 0 \in S
      BY <2>3
    <3>3. ASSUME NEW k \in S PROVE k + 1 \in S
      <4>1. k \in Nat /\ (k + 1 <= n => Good(k + 1))
        OBVIOUS
      <4>2. (k + 1) + 1 <= n => k + 1 \in Nat /\ k + 1 \in 1 .. n - 1 /\ k + 1 <= n
        BY <1>2, <4>1
      <4>3. (k + 1) + 1 <= n => Good((k + 1) + 1)
        BY ONLY <2>4, <4>1, <4>2
      <4> QED
        BY <4>1, <4>3
    <3> HIDE DEF S
    <3> QED
      BY <3>1, <3>2, <3>3, NatSet
  <2>6. f[n + 1] = ws[1] \o g[n]
    <3>1. (n - 1) + 1 = n /\ n <= n
      BY <1>2
    <3>2. Good(n)
      BY <2>5, <3>1
    <3> QED
      BY <3>2 DEF Good
  <2> QED
    BY ONLY <1>3, <2>1, <2>6
<1> QED
  BY <1>5, <1>6

\* Its characters one after the other are a text.
LEMMA FlattenLetters ==
  ASSUME NEW t \in Text, NEW ws \in Seq(Text), Len(ws) = Len(t), \A i \in 1 .. Len(t) : ws[i] = <<t[i]>>
  PROVE  FlattenSeq(ws) = t
<1>1. PICK n : n = Len(t)
  OBVIOUS
<1>2. n \in Nat /\ Len(ws) = n /\ t \in [1 .. n -> Glyph]
  BY <1>1, LenProperties DEF Text
<1>3. CASE n = 0
  <2>1. ws = << >> /\ t = << >>
    BY <1>1, <1>2, <1>3, EmptySeq DEF Text
  <2> QED
    BY <2>1, FlattenNone
<1>4. CASE n # 0
  <2>1. PICK f : Joins(f, ws) /\ FlattenSeq(ws) = f[n]
    BY <1>2, <1>4, FlattenIs
  <2>2. /\ f[1] = ws[1] /\ \A i \in 1 .. n - 1 : f[i + 1] = f[i] \o ws[i + 1]
        /\ \A i \in 1 .. n : f[i] \in Text
    BY <1>2, <2>1 DEF Joins
  <2> DEFINE Upto(k) == f[k] \in Text /\ Len(f[k]) = k /\ \A j \in 1 .. k : f[k][j] = t[j]
             S == {k \in Nat : k + 1 <= n => Upto(k + 1)}
  <2>3. 0 \in S
    <3>1. 1 \in 1 .. n
      BY <1>2, <1>4
    <3>2. f[1] = <<t[1]>> /\ f[1] \in Text
      BY <1>1, <2>2, <3>1
    <3>3. Len(f[1]) = 1 /\ f[1][1] = t[1] /\ \A j \in 1 .. 1 : j = 1
      BY ONLY <3>2
    <3>4. Upto(1)
      BY ONLY <3>2, <3>3
    <3> HIDE DEF Upto
    <3> QED
      BY <3>4
  <2>4. ASSUME NEW k \in S PROVE k + 1 \in S
    <3> SUFFICES ASSUME (k + 1) + 1 <= n PROVE Upto((k + 1) + 1)
      OBVIOUS
    <3>1. PICK i : i = k + 1
      OBVIOUS
    <3>2. i \in Nat /\ i \in 1 .. n - 1 /\ i + 1 \in 1 .. n /\ k + 1 <= n
      BY <1>2, <3>1
    <3>3. Upto(i)
      BY <3>1, <3>2
    <3>4. f[i + 1] = f[i] \o <<t[i + 1]>> /\ f[i + 1] \in Text /\ t[i + 1] \in Glyph
      BY <1>1, <1>2, <2>2, <3>2
    <3>5. <<t[i + 1]>> \in Seq(Glyph) /\ Len(<<t[i + 1]>>) = 1 /\ <<t[i + 1]>>[1] = t[i + 1]
      BY ONLY <3>4
    <3>6. PICK a, b : a = f[i] /\ b = <<t[i + 1]>>
      OBVIOUS
    <3>7. /\ Len(a \o b) = i + 1
          /\ \A j \in 1 .. i + 1 : (a \o b)[j] = IF j <= i THEN a[j] ELSE b[j - i]
      BY <3>3, <3>5, <3>6, ConcatProperties DEF Text
    <3>8. ASSUME NEW j \in 1 .. i + 1 PROVE (a \o b)[j] = t[j]
      <4>1. CASE j <= i
        BY ONLY <3>2, <3>3, <3>6, <3>7, <4>1, j \in 1 .. i + 1
      <4>2. CASE ~(j <= i)
        <5>1. j = i + 1 /\ j - i = 1
          BY ONLY <3>2, <4>2, j \in 1 .. i + 1
        <5> QED
          BY ONLY <3>5, <3>6, <3>7, <4>2, <5>1, j \in 1 .. i + 1
      <4> QED
        BY <4>1, <4>2
    <3> QED
      BY ONLY <3>1, <3>4, <3>6, <3>7, <3>8
  <2>5. Upto(n)
    <3>1. S \in SUBSET Nat /\ n - 1 \in Nat /\ (n - 1) + 1 = n
      BY <1>2, <1>4
    <3> HIDE DEF Upto
    <3>2. n - 1 \in S
      <4> HIDE DEF S
      <4> QED
        BY <2>3, <2>4, <3>1, NatSet
    <3> QED
      BY <3>1, <3>2
  <2>6. f[n] = t
    <3>1. f[n] \in [1 .. n -> Glyph]
      BY <2>5, LenProperties DEF Text
    <3> QED
      BY <1>2, <2>5, <3>1
  <2> QED
    BY <2>1, <2>6
<1> QED
  BY <1>3, <1>4

-----------------------------------------------------------------------------
(***************************************************************************)
(* What the writes of a conversion spell is its meaning.                   *)
(***************************************************************************)
TextsOf(ws) == [i \in 1 .. Len(ws) |-> ws[i].text]

LEMMA TextsType ==
  ASSUME NEW ws \in Seq(WriteCall)
  PROVE  TextsOf(ws) \in Seq(Text) /\ Len(TextsOf(ws)) = Len(ws)
<1>1. Len(ws) \in Nat /\ \A i \in 1 .. Len(ws) : ws[i] \in WriteCall
  BY LenProperties, ElementOfSeq
<1>2. TextsOf(ws) \in [1 .. Len(ws) -> Text]
  BY <1>1 DEF TextsOf, WriteCall
<1> QED
  BY <1>1, <1>2, FcnIsSeq

LEMMA SpelledNone == TextsOf(<< >>) = << >> /\ FlattenSeq(TextsOf(<< >>)) = << >>
<1>1. << >> \in Seq(WriteCall) /\ Len(<< >>) = 0
  BY EmptySeq
<1>2. TextsOf(<< >>) = << >>
  BY <1>1, TextsType, EmptySeq
<1> QED
  BY <1>2, FlattenNone

\* The text of the first write, and what the others spell.
LEMMA SpelledFirst ==
  ASSUME NEW ws \in Seq(WriteCall), NEW vs \in Seq(WriteCall), Len(ws) = Len(vs) + 1,
         \A i \in 1 .. Len(vs) : vs[i] = ws[i + 1]
  PROVE  FlattenSeq(TextsOf(ws)) = ws[1].text \o FlattenSeq(TextsOf(vs))
<1>1. PICK n : n = Len(vs)
  OBVIOUS
<1>2. n \in Nat /\ Len(ws) = n + 1
  BY <1>1, LenProperties
<1>3. PICK a, b : a = TextsOf(ws) /\ b = TextsOf(vs)
  OBVIOUS
<1>4. a \in Seq(Text) /\ b \in Seq(Text) /\ Len(a) = n + 1 /\ Len(b) = n
  BY <1>1, <1>2, <1>3, TextsType
<1>5. \A i \in 1 .. n + 1 : a[i] = ws[i].text
  BY <1>2, <1>3 DEF TextsOf
<1>6. \A i \in 1 .. n : b[i] = vs[i].text
  BY <1>1, <1>3 DEF TextsOf
<1>7. \A i \in 1 .. n : i + 1 \in 1 .. n + 1
  BY <1>2
<1>8. \A i \in 1 .. n : b[i] = a[i + 1]
  BY <1>1, <1>5, <1>6, <1>7
<1>9. FlattenSeq(a) = a[1] \o FlattenSeq(b)
  BY <1>4, <1>8, FlattenFirst
<1>10. a[1] = ws[1].text
  BY <1>2, <1>5
<1> QED
  BY <1>3, <1>9, <1>10

LEMMA SpelledWhole ==
  ASSUME NEW d \in {1, 2}, NEW t \in Text, NEW ws \in Seq(WriteCall)
  PROVE  /\ Whole(d, t) \in Seq(WriteCall)
         /\ FlattenSeq(TextsOf(Whole(d, t))) = t
         /\ FlattenSeq(TextsOf(Whole(d, t) \o ws)) = t \o FlattenSeq(TextsOf(ws))
<1>1. PICK w, a : w = [fd |-> d, text |-> t] /\ a = Whole(d, t)
  OBVIOUS
<1>2. w \in WriteCall /\ a = <<w>> /\ w.text = t
  BY <1>1 DEF WriteCall, Whole
<1>3. a \in Seq(WriteCall) /\ Len(a) = 1 /\ a[1] = w
  BY ONLY <1>2
<1>4. PICK b : b = a \o ws
  OBVIOUS
<1>5. /\ Len(ws) \in Nat /\ b \in Seq(WriteCall) /\ Len(b) = 1 + Len(ws)
      /\ \A i \in 1 .. 1 + Len(ws) : b[i] = IF i <= 1 THEN a[i] ELSE ws[i - 1]
  <2>1. Len(ws) \in Nat
    BY LenProperties
  <2>2. /\ a \o ws \in Seq(WriteCall) /\ Len(a \o ws) = Len(a) + Len(ws)
        /\ \A i \in 1 .. Len(a) + Len(ws) : (a \o ws)[i] = IF i <= Len(a) THEN a[i] ELSE ws[i - Len(a)]
    BY <1>3, ConcatProperties
  <2> QED
    BY ONLY <1>3, <1>4, <2>1, <2>2
<1>6. Len(b) = Len(ws) + 1 /\ b[1] = w /\ \A i \in 1 .. Len(ws) : ws[i] = b[i + 1]
  <2>1. 1 \in 1 .. 1 + Len(ws) /\ Len(b) = Len(ws) + 1
    BY <1>5
  <2>2. ASSUME NEW i \in 1 .. Len(ws) PROVE ws[i] = b[i + 1]
    <3>1. i + 1 \in 1 .. 1 + Len(ws) /\ ~(i + 1 <= 1) /\ (i + 1) - 1 = i
      BY <1>5
    <3> QED
      BY <1>5, <3>1
  <2> QED
    BY <1>3, <1>5, <2>1, <2>2
<1>7. FlattenSeq(TextsOf(b)) = t \o FlattenSeq(TextsOf(ws))
  BY <1>2, <1>5, <1>6, SpelledFirst
<1>8. FlattenSeq(TextsOf(a)) = t
  <2>1. << >> \in Seq(WriteCall) /\ Len(<< >>) = 0 /\ Len(a) = 0 + 1
    BY <1>3, EmptySeq
  <2>2. FlattenSeq(TextsOf(a)) = t \o FlattenSeq(TextsOf(<< >>))
    <3>1. PICK e : e = << >>
      OBVIOUS
    <3>2. e \in Seq(WriteCall) /\ Len(a) = Len(e) + 1 /\ \A i \in 1 .. Len(e) : e[i] = a[i + 1]
      BY ONLY <2>1, <3>1
    <3>3. FlattenSeq(TextsOf(a)) = a[1].text \o FlattenSeq(TextsOf(e))
      BY ONLY <1>3, <3>2, SpelledFirst
    <3> QED
      BY ONLY <1>2, <1>3, <3>1, <3>3
  <2>3. t \o << >> = t
    BY ConcatEmptySeq DEF Text
  <2> QED
    BY <2>2, <2>3, SpelledNone
<1> QED
  BY <1>1, <1>3, <1>4, <1>7, <1>8

\* A write, and the others behind it.
LEMMA SpelledBehind ==
  ASSUME NEW d \in {1, 2}, NEW t \in Text
  PROVE  \A ws \in Seq(WriteCall) : FlattenSeq(TextsOf(Whole(d, t) \o ws)) = t \o FlattenSeq(TextsOf(ws))
<1> SUFFICES ASSUME NEW ws \in Seq(WriteCall)
             PROVE  FlattenSeq(TextsOf(Whole(d, t) \o ws)) = t \o FlattenSeq(TextsOf(ws))
  OBVIOUS
<1> QED
  BY SpelledWhole

LEMMA SpelledSingle ==
  ASSUME NEW d \in {1, 2}, NEW t \in Text
  PROVE  Single(d, t) \in Seq(WriteCall) /\ FlattenSeq(TextsOf(Single(d, t))) = t
<1>1. PICK n, a : n = Len(t) /\ a = Single(d, t)
  OBVIOUS
<1>2. n \in Nat /\ \A i \in 1 .. n : <<t[i]>> \in Text
  <2>1. n \in Nat /\ \A i \in 1 .. n : t[i] \in Glyph
    BY <1>1, LenProperties, ElementOfSeq DEF Text
  <2> QED
    BY <2>1 DEF Text
<1>3. a \in [1 .. n -> WriteCall] /\ \A i \in 1 .. n : a[i].text = <<t[i]>>
  BY <1>1, <1>2 DEF Single, WriteCall
<1>4. a \in Seq(WriteCall) /\ Len(a) = n
  BY <1>2, <1>3, FcnIsSeq
<1>5. TextsOf(a) \in Seq(Text) /\ Len(TextsOf(a)) = n /\ \A i \in 1 .. n : TextsOf(a)[i] = <<t[i]>>
  BY <1>3, <1>4, TextsType DEF TextsOf
<1>6. FlattenSeq(TextsOf(a)) = t
  BY <1>1, <1>5, FlattenLetters
<1> QED
  BY <1>1, <1>4, <1>6

\* A numeral without a sign, as the conversions write it.
LEMMA SpelledNumeral ==
  ASSUME NEW n \in Nat, NEW table \in {Lower, Upper}
  PROVE  /\ Spell(Decimal(n), table) = Spell(Numeral(n, 10), table)
         /\ n # 0 => Spell(HexDigits(n), table) = Spell(Numeral(n, 16), table)
         /\ Spell(Numeral(n, 10), table) \in Text
         /\ Spell(Numeral(n, 16), table) \in Text
         /\ n = 0 => Spell(Numeral(n, 16), table) = <<"0">>
<1>1. Decimal(n) = Numeral(n, 10) /\ Decimal(n) \in Seq(Int)
  BY DecimalIsNumeral, DecimalType
<1>2. n # 0 => HexDigits(n) = Numeral(n, 16)
  BY HexIsNumeral
<1>3. HexDigits(n) \in Seq(Int)
  <2>1. 0 .. 15 \subseteq Int
    OBVIOUS
  <2> QED
    BY <2>1, HexDigitsType, SeqSubset
<1>4. n = 0 => Numeral(n, 16) = <<0>>
  BY NumeralStep
<1>5. <<0>> \in Seq(Int) /\ Len(<<0>>) = 1 /\ <<0>>[1] = 0
  OBVIOUS
<1>6. Spell(<<0>>, table) = <<"0">>
  <2>1. table[0 + 1] = "0"
    BY DEF Lower, Upper
  <2>2. Spell(<<0>>, table) = [i \in 1 .. 1 |-> table[<<0>>[i] + 1]]
    BY <1>5 DEF Spell
  <2>3. \A i \in 1 .. 1 : i = 1
    OBVIOUS
  <2>4. [i \in 1 .. 1 |-> table[<<0>>[i] + 1]] = [i \in 1 .. 1 |-> "0"]
    BY <1>5, <2>1, <2>3
  <2>5. [i \in 1 .. 1 |-> "0"] = <<"0">>
    OBVIOUS
  <2> QED
    BY ONLY <2>2, <2>4, <2>5
<1>7. Numeral(n, 16) \in Seq(Int)
  BY <1>2, <1>3, <1>4, <1>5
<1>8. Spell(Numeral(n, 10), table) \in Text /\ Spell(Numeral(n, 16), table) \in Text
  BY <1>1, <1>7, SpellType
<1> QED
  BY <1>1, <1>2, <1>4, <1>6, <1>8

\* Whatever the conversion, its argument and its descriptor.
LEMMA MeaningIsWritten ==
  ASSUME fd \in {1, 2}, NEW conv \in Conversions, NEW arg \in Arguments(conv)
  PROVE  /\ Meaning([conv |-> conv, arg |-> arg]) \in Text
         /\ FlattenSeq(TextsOf(Writes(conv, arg))) = Meaning([conv |-> conv, arg |-> arg])
<1> DEFINE m == Meaning([conv |-> conv, arg |-> arg])
           Spells(ws, t) == t \in Text /\ FlattenSeq(TextsOf(ws)) = t
<1>1. << >> \in Seq(WriteCall)
  BY EmptySeq
<1>2. ASSUME NEW t \in Text, NEW d \in {1, 2} PROVE Spells(Whole(d, t), t)
  BY <1>1, SpelledWhole
<1>3. ASSUME NEW t \in Text PROVE Spells(Single(fd, t), t)
  BY SpelledSingle
<1>4. ASSUME NEW a \in Text, NEW b \in Text, NEW d \in {1, 2}
      PROVE  Spells(Whole(d, a) \o Whole(fd, b), a \o b) /\ Spells(Whole(d, a) \o Single(fd, b), a \o b)
  <2>1. a \o b \in Text
    BY ConcatProperties DEF Text
  <2>2. Whole(fd, b) \in Seq(WriteCall) /\ FlattenSeq(TextsOf(Whole(fd, b))) = b
    BY <1>1, SpelledWhole
  <2>3. Single(fd, b) \in Seq(WriteCall) /\ FlattenSeq(TextsOf(Single(fd, b))) = b
    BY SpelledSingle
  <2>4. \A ws \in Seq(WriteCall) : FlattenSeq(TextsOf(Whole(d, a) \o ws)) = a \o FlattenSeq(TextsOf(ws))
    BY SpelledBehind
  <2>5. /\ FlattenSeq(TextsOf(Whole(d, a) \o Whole(fd, b))) = a \o FlattenSeq(TextsOf(Whole(fd, b)))
        /\ FlattenSeq(TextsOf(Whole(d, a) \o Single(fd, b))) = a \o FlattenSeq(TextsOf(Single(fd, b)))
    BY ONLY <2>2, <2>3, <2>4
  <2> QED
    BY ONLY <2>1, <2>2, <2>3, <2>4, <2>5
<1>5. Table(conv) \in {Lower, Upper} /\ Lower \in {Lower, Upper}
  BY DEF Table
<1> HIDE DEF Spells
<1>6. CASE conv = "c"
  <2>1. arg = "c"
    BY <1>6 DEF Arguments
  <2>2. m = <<arg>> /\ Writes(conv, arg) = Whole(fd, <<arg>>)
    BY <1>6 DEF Meaning, Writes
  <2> QED
    BY <1>2, <2>1, <2>2, WordsAreTexts DEF Spells
<1>7. CASE conv = "s"
  <2>1. m = (IF arg = NULL THEN <<"(", "n", "u", "l", "l", ")">> ELSE arg) /\ Writes(conv, arg) = ft_fputstr(arg)
    BY <1>7 DEF Meaning, Writes
  <2>2. CASE arg = NULL
    BY <1>2, <2>1, <2>2, WordsAreTexts DEF Spells, ft_fputstr
  <2>3. CASE arg # NULL
    <3>1. arg \in Seq(STRING)
      BY <1>7, <2>3, PrintfAssumption DEF Arguments
    <3>2. arg \in Text
      BY <3>1, CharsAreGlyphs, SeqSubset DEF Text
    <3> QED
      BY <1>3, <2>1, <2>3, <3>2 DEF Spells, ft_fputstr
  <2> QED
    BY <2>2, <2>3
<1>8. CASE conv \in {"p", "P"}
  <2>1. arg \in Nat
    BY <1>8, PrintfAssumption DEF Arguments
  <2>2. /\ m = (IF arg = 0 THEN <<"(", "n", "i", "l", ")">> ELSE <<"0", "x">> \o Spell(Numeral(arg, 16), Table(conv)))
        /\ Writes(conv, arg) = ft_fputaddress(arg, Table(conv))
    BY <1>8 DEF Meaning, Writes
  <2>3. CASE arg = 0
    BY <1>2, <2>2, <2>3, WordsAreTexts DEF Spells, ft_fputaddress
  <2>4. CASE arg # 0
    <3>1. PICK t : t = Spell(Numeral(arg, 16), Table(conv))
      OBVIOUS
    <3>2. t \in Text /\ Spell(HexDigits(arg), Table(conv)) = t
      BY <1>5, <2>1, <2>4, <3>1, SpelledNumeral
    <3>3. Writes(conv, arg) = Whole(fd, <<"0", "x">>) \o Whole(fd, t)
      BY <2>2, <2>4, <3>2 DEF ft_fputaddress
    <3>4. m = <<"0", "x">> \o t
      BY <2>2, <2>4, <3>1
    <3>5. Spells(Whole(fd, <<"0", "x">>) \o Whole(fd, t), <<"0", "x">> \o t)
      BY <1>4, <3>2, WordsAreTexts
    <3> QED
      BY <3>3, <3>4, <3>5 DEF Spells
  <2> QED
    BY <2>3, <2>4
<1>9. CASE conv \in {"d", "i", "u"}
  <2>1. arg \in Int /\ (conv = "u" => arg \in Nat)
    BY <1>9, PrintfAssumption DEF Arguments
  <2>2. PICK n : n = IF arg < 0 THEN -arg ELSE arg
    OBVIOUS
  <2>3. n \in Nat
    BY <2>1, <2>2
  <2>4. PICK t : t = Spell(Numeral(n, 10), Lower)
    OBVIOUS
  <2>5. t \in Text /\ Spell(Decimal(n), Lower) = t
    BY <1>5, <2>3, <2>4, SpelledNumeral
  <2>6. m = (IF arg < 0 THEN <<"-">> ELSE << >>) \o t
    BY <1>9, <2>2, <2>4 DEF Meaning
  <2>7. << >> \o t = t /\ << >> \o Single(fd, t) = Single(fd, t)
    <3>1. t \in Seq(Glyph) /\ Single(fd, t) \in Seq(WriteCall)
      BY <2>5, SpelledSingle DEF Text
    <3> QED
      BY <3>1, ConcatEmptySeq
  <2>8. CASE conv = "u"
    <3>1. Writes(conv, arg) = Single(fd, t) /\ n = arg /\ ~(arg < 0)
      BY <2>1, <2>2, <2>5, <2>8 DEF Writes, ft_fputnbr_un
    <3> QED
      BY <1>3, <2>5, <2>6, <2>7, <3>1 DEF Spells
  <2>9. CASE conv \in {"d", "i"}
    <3>1. Writes(conv, arg) = (IF arg < 0 THEN Whole(1, <<"-">>) ELSE << >>) \o Single(fd, t)
      BY <2>2, <2>5, <2>9 DEF Writes, ft_fputnbr
    <3>2. CASE arg < 0
      <4>1. Spells(Whole(1, <<"-">>) \o Single(fd, t), <<"-">> \o t)
        BY <1>4, <2>5, WordsAreTexts
      <4> QED
        BY <2>6, <3>1, <3>2, <4>1 DEF Spells
    <3>3. CASE ~(arg < 0)
      BY <1>3, <2>5, <2>6, <2>7, <3>1, <3>3 DEF Spells
    <3> QED
      BY <3>2, <3>3
  <2> QED
    BY <1>9, <2>8, <2>9
<1>10. CASE conv \in {"x", "X"}
  <2>1. arg \in Nat
    BY <1>10, PrintfAssumption DEF Arguments
  <2>2. PICK t : t = Spell(Numeral(arg, 16), Table(conv))
    OBVIOUS
  <2>3. t \in Text /\ t = (IF arg = 0 THEN <<"0">> ELSE Spell(HexDigits(arg), Table(conv)))
    BY <1>5, <2>1, <2>2, SpelledNumeral
  <2>4. m = t /\ Writes(conv, arg) = Whole(fd, t)
    BY <1>10, <2>2, <2>3 DEF Meaning, Writes, ft_fput_hex
  <2> QED
    BY <1>2, <2>3, <2>4 DEF Spells
<1>11. CASE conv = "%"
  <2>1. m = <<"%">> /\ Writes(conv, arg) = Whole(fd, <<"%">>)
    BY <1>11 DEF Meaning, Writes
  <2> QED
    BY <1>2, <2>1, WordsAreTexts DEF Spells
<1> QED
  BY <1>6, <1>7, <1>8, <1>9, <1>10, <1>11 DEF Conversions

-----------------------------------------------------------------------------
(***************************************************************************)
(* Without faults, what was written and what remains to write are the      *)
(* meaning of the conversions begun.                                       *)
(***************************************************************************)
Item ==
  {item \in [conv : Conversions \union {"literal"},
             arg : STRING \union UNION {Arguments(conv) : conv \in Conversions}] :
     Meaning(item) \in Text}

MeaningsOf(its) == [i \in 1 .. Len(its) |-> Meaning(its[i])]
CharsOf(bytes) == [i \in 1 .. Len(bytes) |-> bytes[i].ch]

RenderInv ==
  /\ items \in Seq(Item)
  /\ faults = NoFaults => CharsOf(out) \o FlattenSeq(TextsOf(pending)) = FlattenSeq(MeaningsOf(items))

LEMMA MeaningsType ==
  ASSUME NEW its \in Seq(Item)
  PROVE  MeaningsOf(its) \in Seq(Text) /\ Len(MeaningsOf(its)) = Len(its)
<1>1. Len(its) \in Nat /\ \A i \in 1 .. Len(its) : its[i] \in Item
  BY LenProperties, ElementOfSeq
<1>2. MeaningsOf(its) \in [1 .. Len(its) -> Text]
  <2>1. \A i \in 1 .. Len(its) : Meaning(its[i]) \in Text
    BY <1>1 DEF Item
  <2> QED
    BY <2>1 DEF MeaningsOf
<1> QED
  BY <1>1, <1>2, FcnIsSeq

LEMMA MeaningsAppend ==
  ASSUME NEW its \in Seq(Item), NEW item \in Item
  PROVE  /\ Append(its, item) \in Seq(Item)
         /\ FlattenSeq(MeaningsOf(Append(its, item))) = FlattenSeq(MeaningsOf(its)) \o Meaning(item)
<1>1. PICK n, more : n = Len(its) /\ more = Append(its, item)
  OBVIOUS
<1>2. /\ n \in Nat /\ more \in Seq(Item) /\ Len(more) = n + 1
      /\ (\A i \in 1 .. n : more[i] = its[i]) /\ more[n + 1] = item
  BY <1>1, LenProperties, AppendProperties
<1>3. PICK a, b, m : a = MeaningsOf(its) /\ b = MeaningsOf(more) /\ m = Meaning(item)
  OBVIOUS
<1>4. a \in Seq(Text) /\ Len(a) = n /\ b \in Seq(Text) /\ Len(b) = n + 1 /\ m \in Text
  BY <1>1, <1>2, <1>3, MeaningsType DEF Item
<1>5. (\A i \in 1 .. n : b[i] = a[i]) /\ b[n + 1] = m
  <2>1. \A i \in 1 .. n : a[i] = Meaning(its[i])
    BY ONLY <1>1, <1>3 DEF MeaningsOf
  <2>2. \A i \in 1 .. n + 1 : b[i] = Meaning(more[i])
    BY ONLY <1>2, <1>3 DEF MeaningsOf
  <2>3. \A i \in 1 .. n : i \in 1 .. n + 1
    BY <1>2
  <2>4. n + 1 \in 1 .. n + 1
    BY <1>2
  <2> QED
    BY ONLY <1>2, <1>3, <2>1, <2>2, <2>3, <2>4
<1>6. b = Append(a, m)
  <2>1. PICK c : c = Append(a, m)
    OBVIOUS
  <2>2. c \in Seq(Text) /\ Len(c) = n + 1 /\ (\A i \in 1 .. n : c[i] = a[i]) /\ c[n + 1] = m
    BY <1>4, <2>1, AppendProperties
  <2>3. \A i \in 1 .. n + 1 : i \in 1 .. n \/ i = n + 1
    BY <1>2
  <2>4. \A i \in 1 .. n + 1 : b[i] = c[i]
    BY ONLY <1>5, <2>2, <2>3
  <2>5. b \in [1 .. n + 1 -> Text] /\ c \in [1 .. n + 1 -> Text]
    BY <1>4, <2>2, LenProperties
  <2>6. b = c
    BY ONLY <1>2, <2>4, <2>5
  <2> QED
    BY ONLY <2>1, <2>6
<1>7. FlattenSeq(Append(a, m)) = FlattenSeq(a) \o m
  BY <1>4, FlattenAppend
<1> QED
  BY ONLY <1>1, <1>2, <1>3, <1>6, <1>7

LEMMA NothingMeant == << >> \in Seq(Item) /\ FlattenSeq(MeaningsOf(<< >>)) = << >> /\ CharsOf(<< >>) = << >>
<1>1. << >> \in Seq(Item) /\ Len(<< >>) = 0
  BY EmptySeq
<1>2. MeaningsOf(<< >>) = << >>
  BY <1>1, MeaningsType, EmptySeq
<1>3. CharsOf(<< >>) = << >>
  BY <1>1 DEF CharsOf
<1> QED
  BY <1>1, <1>2, <1>3, FlattenNone

LEMMA CharsType ==
  ASSUME NEW bytes \in Seq(Byte)
  PROVE  CharsOf(bytes) \in Text /\ Len(CharsOf(bytes)) = Len(bytes)
<1>1. Len(bytes) \in Nat /\ \A i \in 1 .. Len(bytes) : bytes[i] \in Byte
  BY LenProperties, ElementOfSeq
<1>2. CharsOf(bytes) \in [1 .. Len(bytes) -> Glyph]
  BY <1>1 DEF CharsOf, Byte
<1> QED
  BY <1>1, <1>2, FcnIsSeq DEF Text

\* A conversion begun: nothing was left to write, and its meaning is now.
LEMMA BegunRenders ==
  ASSUME PrintInv, RenderInv, pc = "loop", NEW item \in Item, UNCHANGED <<out, faults>>,
         items' = Append(items, item), FlattenSeq(TextsOf(pending')) = Meaning(item)
  PROVE  RenderInv'
<1>1. items \in Seq(Item) /\ pending = << >> /\ out \in Seq(Byte)
  BY DEF RenderInv, PrintInv, PrintTypes, InLoop
<1>2. items' \in Seq(Item) /\ FlattenSeq(MeaningsOf(items')) = FlattenSeq(MeaningsOf(items)) \o Meaning(item)
  BY <1>1, MeaningsAppend
<1>3. CharsOf(out) \o << >> = CharsOf(out)
  BY <1>1, CharsType, ConcatEmptySeq DEF Text
<1>4. faults = NoFaults => CharsOf(out) = FlattenSeq(MeaningsOf(items))
  BY <1>1, <1>3, SpelledNone DEF RenderInv
<1>5. CharsOf(out') = CharsOf(out) /\ faults' = faults
  OBVIOUS
<1>6. faults' = NoFaults => CharsOf(out') \o FlattenSeq(TextsOf(pending')) = FlattenSeq(MeaningsOf(items'))
  BY ONLY <1>2, <1>4, <1>5, FlattenSeq(TextsOf(pending')) = Meaning(item)
<1> QED
  BY ONLY <1>2, <1>6 DEF RenderInv

LEMMA LoopRenders ==
  ASSUME PrintInv, RenderInv, ft_fcallstr
  PROVE  RenderInv'
<1>1. pc = "loop" /\ UNCHANGED <<out, faults>> /\ fd \in {1, 2} /\ fmt \in Formats /\ str \in 1 .. Len(fmt) + 1
  BY DEF ft_fcallstr, PrintInv, PrintTypes, InLoop, Consumed
<1>2. \A i \in 1 .. Len(fmt) : fmt[i] \in STRING
  BY <1>1, FormatType
<1>3. CASE UNCHANGED <<pending, items>>
  BY <1>1, <1>3 DEF RenderInv, TextsOf, MeaningsOf, CharsOf
<1>4. CASE /\ At(str) # "NUL" /\ items' = Append(items, [conv |-> "literal", arg |-> At(str)])
           /\ pending' = Whole(fd, <<At(str)>>)
  <2>1. PICK c : c = At(str)
    OBVIOUS
  <2>2. c \in STRING
    <3>1. str <= Len(fmt) /\ c = fmt[str]
      BY <1>4, <2>1 DEF At
    <3>2. str \in 1 .. Len(fmt)
      BY <1>1, <3>1, FormatType
    <3> QED
      BY <1>2, <3>1, <3>2
  <2>3. <<c>> \in Text
    BY <2>2, CharsAreGlyphs, TuplesAreSeqs, Zenon DEF Text
  <2>4. PICK item : item = [conv |-> "literal", arg |-> c]
    OBVIOUS
  <2>5. Meaning(item) = <<c>>
    BY <2>4 DEF Meaning
  <2>6. item \in Item
    BY <2>2, <2>3, <2>4, <2>5 DEF Item
  <2>7. FlattenSeq(TextsOf(pending')) = <<c>>
    <3>1. << >> \in Seq(WriteCall)
      BY EmptySeq
    <3>2. FlattenSeq(TextsOf(Whole(fd, <<c>>))) = <<c>>
      BY <1>1, <2>3, <3>1, SpelledWhole
    <3> QED
      BY ONLY <1>4, <2>1, <3>2
  <2>8. items' = Append(items, item)
    BY <1>4, <2>1, <2>4
  <2> QED
    BY <1>1, <2>5, <2>6, <2>7, <2>8, BegunRenders
<1>5. ASSUME NEW conv \in Conversions, NEW arg \in Arguments(conv), ft_ftype(conv, arg)
      PROVE  RenderInv'
  <2>1. PICK item : item = [conv |-> conv, arg |-> arg]
    OBVIOUS
  <2>2. Meaning(item) \in Text /\ FlattenSeq(TextsOf(Writes(conv, arg))) = Meaning(item)
    BY <1>1, <2>1, MeaningIsWritten
  <2>3. arg \in UNION {Arguments(cv) : cv \in Conversions}
    OBVIOUS
  <2>4. item \in Item
    BY <2>1, <2>2, <2>3 DEF Item
  <2>5. items' = Append(items, item) /\ pending' = Writes(conv, arg)
    BY <1>5, <2>1 DEF ft_ftype
  <2>6. FlattenSeq(TextsOf(pending')) = Meaning(item)
    BY ONLY <2>2, <2>5
  <2> QED
    BY <1>1, <2>4, <2>5, <2>6, BegunRenders
<1> QED
  BY <1>3, <1>4, <1>5 DEF ft_fcallstr

LEMMA WriteRenders ==
  ASSUME PrintInv, RenderInv, write
  PROVE  RenderInv'
<1> DEFINE w == Head(pending)
           all == Len(w.text)
<1>1. /\ pending \in Seq(WriteCall) /\ pending # << >> /\ pending' = Tail(pending)
      /\ items' = items /\ items \in Seq(Item) /\ out \in Seq(Byte)
      /\ faults \in [failed : Nat, short : Nat]
  BY DEF write, PrintInv, PrintTypes, RenderInv
<1>2. CASE Written(all) /\ UNCHANGED faults
  <2>1. PICK new : new = [i \in 1 .. all |-> [fd |-> w.fd, ch |-> w.text[i]]]
    OBVIOUS
  <2>2. out' = out \o new
    BY <1>2, <2>1 DEF Written
  <2>3. w \in WriteCall /\ w = pending[1]
    BY <1>1, HeadTailProperties
  <2>4. PICK t, n : t = w.text /\ n = all
    OBVIOUS
  <2>5. w.fd \in {1, 2} /\ t \in Text /\ n = Len(t) /\ n \in Nat /\ t \in [1 .. n -> Glyph]
    BY <2>3, <2>4, LenProperties DEF WriteCall, Text
  <2>6. new \in [1 .. n -> Byte] /\ \A i \in 1 .. n : new[i].ch = t[i]
    BY <2>1, <2>4, <2>5 DEF Byte
  <2>7. new \in Seq(Byte) /\ Len(new) = n
    BY <2>5, <2>6, FcnIsSeq
  <2>8. CharsOf(out') = CharsOf(out) \o t
    <3>1. PICK k : k = Len(out)
      OBVIOUS
    <3>2. /\ k \in Nat /\ out' \in Seq(Byte) /\ Len(out') = k + n
          /\ \A i \in 1 .. k + n : out'[i] = IF i <= k THEN out[i] ELSE new[i - k]
      BY <1>1, <2>2, <2>7, <3>1, ConcatProperties, LenProperties
    <3>3. CharsOf(out) \in Text /\ Len(CharsOf(out)) = k /\ \A i \in 1 .. k : CharsOf(out)[i] = out[i].ch
      BY <1>1, <3>1, CharsType DEF CharsOf
    <3>4. CharsOf(out') \in Text /\ Len(CharsOf(out')) = k + n /\ \A i \in 1 .. k + n : CharsOf(out')[i] = out'[i].ch
      BY <3>2, CharsType DEF CharsOf
    <3>5. PICK a, b, c : a = CharsOf(out) /\ b = CharsOf(out') /\ c = a \o t
      OBVIOUS
    <3>6. /\ c \in Text /\ Len(c) = k + n
          /\ \A i \in 1 .. k + n : c[i] = IF i <= k THEN a[i] ELSE t[i - k]
      BY <2>5, <3>3, <3>5, ConcatProperties DEF Text
    <3>7. ASSUME NEW i \in 1 .. k + n PROVE b[i] = c[i]
      <4>1. CASE i <= k
        <5>1. i \in 1 .. k
          BY <3>2, <4>1
        <5> QED
          BY ONLY <3>2, <3>3, <3>4, <3>5, <3>6, <3>7, <4>1, <5>1
      <4>2. CASE ~(i <= k)
        <5>1. i - k \in 1 .. n
          BY <2>5, <3>2, <4>2
        <5> QED
          BY ONLY <2>6, <3>2, <3>4, <3>5, <3>6, <3>7, <4>2, <5>1
      <4> QED
        BY <4>1, <4>2
    <3>8. b \in [1 .. k + n -> Glyph] /\ c \in [1 .. k + n -> Glyph]
      BY <3>4, <3>5, <3>6, LenProperties DEF Text
    <3>9. b = c
      BY ONLY <2>5, <3>2, <3>7, <3>8
    <3> QED
      BY ONLY <3>5, <3>9
  <2>9. PICK rest, vs : vs = Tail(pending) /\ rest = FlattenSeq(TextsOf(vs))
    OBVIOUS
  <2>10. /\ vs \in Seq(WriteCall) /\ Len(pending) = Len(vs) + 1
         /\ \A i \in 1 .. Len(vs) : vs[i] = pending[i + 1]
    <3>1. Len(pending) \in Nat
      BY <1>1, LenProperties
    <3> QED
      BY <1>1, <2>9, <3>1, HeadTailProperties
  <2>11. FlattenSeq(TextsOf(pending)) = t \o rest
    BY <1>1, <2>3, <2>4, <2>9, <2>10, SpelledFirst
  <2>12. (CharsOf(out) \o t) \o rest = CharsOf(out) \o (t \o rest)
    <3>1. CharsOf(out) \in Seq(Glyph) /\ t \in Seq(Glyph)
      BY <1>1, <2>5, CharsType DEF Text
    <3>2. rest \in Seq(Glyph)
      BY <2>9, <2>10, TextsType, FlattenType DEF Text
    <3> QED
      BY ONLY <3>1, <3>2, ConcatAssociative
  <2>13. faults = NoFaults => CharsOf(out) \o FlattenSeq(TextsOf(pending)) = FlattenSeq(MeaningsOf(items))
    BY DEF RenderInv
  <2>14. faults' = faults /\ pending' = vs
    BY <1>1, <1>2, <2>9
  <2>15. faults' = NoFaults => CharsOf(out') \o FlattenSeq(TextsOf(pending')) = FlattenSeq(MeaningsOf(items'))
    BY ONLY <1>1, <2>8, <2>9, <2>11, <2>12, <2>13, <2>14
  <2> QED
    BY ONLY <1>1, <2>15 DEF RenderInv
<1>3. CASE faults' = [faults EXCEPT !.failed = @ + 1] \/ faults' = [faults EXCEPT !.short = @ + 1]
  <2>1. faults' # NoFaults
    BY <1>1, <1>3 DEF NoFaults
  <2> QED
    BY <1>1, <2>1 DEF RenderInv
<1> QED
  BY <1>2, <1>3 DEF write

(***************************************************************************)
(* While no write fails or comes short, what was written, and what the     *)
(* conversion at hand will write, is the meaning of the conversions begun: *)
(* every number is written as its numeral, the least int and 0 included,   *)
(* whatever the width of an int.  And whatever the writes do, only signs   *)
(* leave the descriptor of the call.                                       *)
(***************************************************************************)
THEOREM RenderedCorrect == Spec => []Rendered
<1>1. Init => RenderInv
  <2> SUFFICES ASSUME Init PROVE RenderInv
    OBVIOUS
  <2>1. << >> \o << >> = << >>
    BY EmptySeq, ConcatEmptySeq
  <2>2. items = << >> /\ out = << >> /\ pending = << >>
    BY DEF Init
  <2> QED
    BY ONLY <2>1, <2>2, NothingMeant, SpelledNone DEF RenderInv
<1>2. PrintInv /\ RenderInv /\ [Next]_vars => RenderInv'
  <2> SUFFICES ASSUME PrintInv, RenderInv, [Next]_vars PROVE RenderInv'
    OBVIOUS
  <2>1. CASE UNCHANGED <<items, out, pending, faults>>
    BY <2>1 DEF RenderInv, TextsOf, MeaningsOf, CharsOf
  <2>2. CASE ft_fprintf
    <3>1. << >> \o << >> = << >>
      BY EmptySeq, ConcatEmptySeq
    <3>2. items' = << >> /\ out' = << >> /\ pending' = << >>
      BY <2>2 DEF ft_fprintf
    <3> QED
      BY ONLY <3>1, <3>2, NothingMeant, SpelledNone DEF RenderInv
  <2> QED
    BY <2>1, <2>2, LoopRenders, WriteRenders DEF Next, Added, vars
<1>3. PrintInv /\ RenderInv => Rendered
  <2> SUFFICES ASSUME PrintInv, RenderInv PROVE Rendered
    OBVIOUS
  <2>1. \A i \in 1 .. Len(out) : out[i].fd # fd => out[i].fd = 1 /\ out[i].ch = "-"
    BY DEF PrintInv, Directed, RightByte
  <2>2. [i \in 1 .. Len(pending) |-> pending[i].text] = TextsOf(pending)
        /\ [i \in 1 .. Len(items) |-> Meaning(items[i])] = MeaningsOf(items)
        /\ [i \in 1 .. Len(out) |-> out[i].ch] = CharsOf(out)
    BY DEF TextsOf, MeaningsOf, CharsOf
  <2> QED
    BY ONLY <2>1, <2>2, RenderInv DEF RenderInv, Rendered
<1> QED
  BY <1>1, <1>2, <1>3, PrintInvHolds, PTL DEF Spec

=============================================================================
