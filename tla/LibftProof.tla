------------------------------ MODULE LibftProof ------------------------------
(***************************************************************************)
(* Theorems about the functions of Libft and LibftText, for every size of  *)
(* the memory, every content of it and every argument.                     *)
(***************************************************************************)
EXTENDS LibftText, FiniteSetTheorems, SequenceTheorems, WellFoundedInduction, TLAPS

-----------------------------------------------------------------------------
(***************************************************************************)
(* The least element of a set of naturals, which takes the place of        *)
(* induction.                                                              *)
(***************************************************************************)
LEMMA LeastNat ==
  ASSUME NEW S \in SUBSET Nat, S # {}
  PROVE  Min(S) \in S /\ \A y \in S : Min(S) <= y
<1> DEFINE Under(n) == S \cap (0 .. n)
           T == {Under(n) : n \in S}
<1>1. T \subseteq FiniteSubsetsOf(Nat) /\ T # {}
  <2>1. \A n \in S : IsFiniteSet(0 .. n)
    BY FS_Interval
  <2>2. \A n \in S : IsFiniteSet(Under(n))
    BY <2>1, FS_Subset
  <2> QED
    BY <2>2 DEF FiniteSubsetsOf
<1> HIDE DEF T
<1>2. PICK X \in T : \A Y \in T : ~(<<Y, X>> \in StrictSubsetOrdering(Nat))
  BY <1>1, FS_StrictSubsetOrderingWellFounded, WFMin
<1> USE DEF T
<1>3. PICK n \in S : X = Under(n)
  OBVIOUS
<1>4. ASSUME NEW y \in S, y < n PROVE FALSE
  <2>1. Under(y) \in T /\ Under(y) \subseteq X /\ n \in X /\ n \notin Under(y)
    BY <1>3, <1>4
  <2>2. <<Under(y), X>> \in StrictSubsetOrdering(Nat)
    BY <2>1, <1>1 DEF StrictSubsetOrdering, FiniteSubsetsOf
  <2> QED
    BY <2>1, <2>2, <1>2
<1>5. \A y \in S : n <= y
  BY <1>4
<1> HIDE DEF T
<1> QED
  BY <1>5 DEF Min

\* Induction, over a set instead of a formula.
LEMMA NatSet ==
  ASSUME NEW S \in SUBSET Nat, 0 \in S, \A n \in S : n + 1 \in S
  PROVE  \A n \in Nat : n \in S
<1> DEFINE Bad == Nat \ S
<1> SUFFICES ASSUME Bad # {} PROVE FALSE
  OBVIOUS
<1>1. PICK n \in Bad : \A k \in Bad : n <= k
  <2>1. Bad \in SUBSET Nat
    OBVIOUS
  <2> HIDE DEF Bad
  <2> QED
    BY <2>1, LeastNat
<1>2. n - 1 \in Nat /\ n - 1 \in S
  BY <1>1
<1> QED
  BY <1>1, <1>2

\* The greatest element of a set of integers that has a bound.
LEMMA GreatestInt ==
  ASSUME NEW S \in SUBSET Int, S # {}, NEW b \in Int, \A x \in S : x <= b
  PROVE  Max(S) \in S /\ \A y \in S : y <= Max(S)
<1> DEFINE T == {b - x : x \in S}
<1>1. T \in SUBSET Nat /\ T # {}
  <2>1. \A x \in S : b - x \in Nat
    OBVIOUS
  <2> QED
    BY <2>1
<1>2. PICK t \in T : \A y \in T : t <= y
  <2> HIDE DEF T
  <2> QED
    BY <1>1, LeastNat
<1>3. PICK x \in S : t = b - x
  OBVIOUS
<1>4. \A y \in S : y <= x
  <2>1. \A y \in S : t <= b - y
    BY <1>2
  <2> QED
    BY <1>3, <2>1
<1> HIDE DEF T
<1> QED
  BY <1>4 DEF Max

\* The least element of a set of integers that has a bound.
LEMMA LeastInt ==
  ASSUME NEW S \in SUBSET Int, S # {}, NEW b \in Int, \A x \in S : b <= x
  PROVE  Min(S) \in S /\ \A y \in S : Min(S) <= y
<1> DEFINE T == {x - b : x \in S}
<1>1. T \in SUBSET Nat /\ T # {}
  <2>1. \A x \in S : x - b \in Nat
    OBVIOUS
  <2> QED
    BY <2>1
<1>2. PICK t \in T : \A y \in T : t <= y
  <2> HIDE DEF T
  <2> QED
    BY <1>1, LeastNat
<1>3. PICK x \in S : t = x - b
  OBVIOUS
<1>4. \A y \in S : x <= y
  <2>1. \A y \in S : t <= y - b
    BY <1>2
  <2> QED
    BY <1>3, <2>1
<1> HIDE DEF T
<1> QED
  BY <1>4 DEF Min

\* There is no other least or greatest element.
LEMMA MinIs ==
  ASSUME NEW S \in SUBSET Int, NEW x \in S, \A y \in S : x <= y
  PROVE  Min(S) = x
<1>1. \A z \in S : (\A y \in S : z <= y) => z = x
  OBVIOUS
<1> QED
  BY <1>1 DEF Min

LEMMA MaxIs ==
  ASSUME NEW S \in SUBSET Int, NEW x \in S, \A y \in S : y <= x
  PROVE  Max(S) = x
<1>1. \A z \in S : (\A y \in S : z >= y) => z = x
  OBVIOUS
<1> QED
  BY <1>1 DEF Max

LEMMA MinOfTwo ==
  ASSUME NEW a \in Int, NEW b \in Int
  PROVE  Min({a, b}) = IF a <= b THEN a ELSE b
<1>1. CASE a <= b
  BY <1>1, MinIs
<1>2. CASE ~(a <= b)
  BY <1>2, MinIs
<1> QED
  BY <1>1, <1>2

LEMMA MaxOfTwo ==
  ASSUME NEW a \in Int, NEW b \in Int
  PROVE  Max({a, b}) = IF a >= b THEN a ELSE b
<1>1. CASE a >= b
  BY <1>1, MaxIs
<1>2. CASE ~(a >= b)
  BY <1>2, MaxIs
<1> QED
  BY <1>1, <1>2

-----------------------------------------------------------------------------
(***************************************************************************)
(* A loop that looks at one place after the other, upwards or downwards,   *)
(* until it stops, returns what it has to say of the first place at which  *)
(* it stops.                                                               *)
(***************************************************************************)
ScansUp(f, stop, v) == f = [i \in Nat |-> IF i \in stop THEN v[i] ELSE f[i + 1]]
ScansDown(f, stop, v) == f = [i \in Int |-> IF i \in stop THEN v[i] ELSE f[i - 1]]

LEMMA ScanUpExists ==
  ASSUME NEW stop \in SUBSET Nat, NEW v
  PROVE  \E f : ScansUp(f, stop, v)
<1> DEFINE from(i) == {j \in stop : i <= j}
           f == [i \in Nat |-> IF from(i) = {} THEN 0 ELSE v[Min(from(i))]]
<1>1. ASSUME NEW i \in Nat PROVE f[i] = IF i \in stop THEN v[i] ELSE f[i + 1]
  <2>1. CASE i \in stop
    <3>1. i \in from(i) /\ \A j \in from(i) : i <= j
      BY <2>1
    <3>2. from(i) \in SUBSET Int
      <4>1. \A j \in stop : j \in Int
        OBVIOUS
      <4> QED
        BY <4>1
    <3> HIDE DEF from
    <3>3. Min(from(i)) = i
      BY <3>1, <3>2, MinIs
    <3> QED
      BY <2>1, <3>1, <3>3
  <2>2. CASE i \notin stop
    <3>1. from(i) = from(i + 1)
      <4>1. \A j \in stop : j \in Nat /\ (i <= j <=> i + 1 <= j)
        BY <2>2
      <4> QED
        BY <4>1
    <3> HIDE DEF from
    <3> QED
      BY <2>2, <3>1
  <2> QED
    BY <2>1, <2>2
<1>2. f = [i \in Nat |-> f[i]]
  OBVIOUS
<1> HIDE DEF f
<1> QED
  BY <1>1, <1>2 DEF ScansUp

LEMMA ScanUpValue ==
  ASSUME NEW stop, NEW v, NEW f, ScansUp(f, stop, v),
         NEW i \in Nat, NEW j \in stop, j \in Nat, i <= j, \A k \in i .. j - 1 : k \notin stop
  PROVE  f[i] = v[j]
<1> DEFINE S == {n \in Nat : n <= j - i => f[j - n] = v[j]}
<1>1. 0 \in S
  BY DEF ScansUp
<1>2. ASSUME NEW n \in S PROVE n + 1 \in S
  <2> SUFFICES ASSUME n + 1 <= j - i PROVE f[j - (n + 1)] = v[j]
    OBVIOUS
  <2>1. PICK k : k = j - (n + 1)
    OBVIOUS
  <2>2. k \in Nat /\ k \in i .. j - 1 /\ k + 1 = j - n
    BY <2>1
  <2>3. f[k] = f[k + 1]
    BY <2>2 DEF ScansUp
  <2> QED
    BY <2>1, <2>2, <2>3
<1>3. j - i \in S
  <2>1. S \in SUBSET Nat /\ j - i \in Nat
    OBVIOUS
  <2> HIDE DEF S
  <2> QED
    BY <1>1, <1>2, <2>1, NatSet
<1> QED
  BY <1>3

LEMMA ScanDownExists ==
  ASSUME NEW stop \in SUBSET Int, NEW v, NEW b \in Int, \A i \in Int : i < b => i \in stop
  PROVE  \E f : ScansDown(f, stop, v)
<1> DEFINE from(i) == {j \in stop : j <= i}
           f == [i \in Int |-> v[Max(from(i))]]
<1>1. ASSUME NEW i \in Int PROVE f[i] = IF i \in stop THEN v[i] ELSE f[i - 1]
  <2>1. CASE i \in stop
    <3>1. i \in from(i) /\ \A j \in from(i) : j <= i
      BY <2>1
    <3>2. from(i) \in SUBSET Int
      OBVIOUS
    <3> HIDE DEF from
    <3>3. Max(from(i)) = i
      BY <3>1, <3>2, MaxIs
    <3> QED
      BY <2>1, <3>1, <3>3
  <2>2. CASE i \notin stop
    <3>1. from(i) = from(i - 1)
      <4>1. \A j \in stop : j \in Int /\ (j <= i <=> j <= i - 1)
        BY <2>2
      <4> QED
        BY <4>1
    <3> HIDE DEF from
    <3> QED
      BY <2>2, <3>1
  <2> QED
    BY <2>1, <2>2
<1>2. f = [i \in Int |-> f[i]]
  OBVIOUS
<1> HIDE DEF f
<1> QED
  BY <1>1, <1>2 DEF ScansDown

LEMMA ScanDownValue ==
  ASSUME NEW stop, NEW v, NEW f, ScansDown(f, stop, v),
         NEW i \in Int, NEW j \in stop, j \in Int, j <= i, \A k \in j + 1 .. i : k \notin stop
  PROVE  f[i] = v[j]
<1> DEFINE S == {n \in Nat : n <= i - j => f[j + n] = v[j]}
<1>1. 0 \in S
  BY DEF ScansDown
<1>2. ASSUME NEW n \in S PROVE n + 1 \in S
  <2> SUFFICES ASSUME n + 1 <= i - j PROVE f[j + (n + 1)] = v[j]
    OBVIOUS
  <2>1. PICK k : k = j + (n + 1)
    OBVIOUS
  <2>2. k \in Int /\ k \in j + 1 .. i /\ k - 1 = j + n
    BY <2>1
  <2>3. f[k] = f[k - 1]
    BY <2>2 DEF ScansDown
  <2> QED
    BY <2>1, <2>2, <2>3
<1>3. i - j \in S
  <2>1. S \in SUBSET Nat /\ i - j \in Nat
    OBVIOUS
  <2> HIDE DEF S
  <2> QED
    BY <1>1, <1>2, <2>1, NatSet
<1> QED
  BY <1>3

-----------------------------------------------------------------------------
(***************************************************************************)
(* The strings in a memory.                                                *)
(***************************************************************************)
USE LibftAssumption, TextAssumption

Memories == [Addr -> Bytes]
Ends(m, p) == \E i \in p .. Size - 1 : m[i] = 0

LEMMA StrlenIsFirst ==
  ASSUME NEW m, NEW p \in Addr, Ends(m, p)
  PROVE  /\ ft_strlen(m, p) \in 0 .. Size - 1 - p /\ m[p + ft_strlen(m, p)] = 0
         /\ \A i \in 0 .. ft_strlen(m, p) - 1 : m[p + i] # 0
<1> DEFINE S == {i \in 0 .. Size - 1 - p : m[p + i] = 0}
<1>1. S # {}
  <2>1. PICK i \in p .. Size - 1 : m[i] = 0
    BY DEF Ends
  <2>2. i - p \in 0 .. Size - 1 - p /\ p + (i - p) = i
    BY <2>1 DEF Addr
  <2> QED
    BY <2>1, <2>2
<1>2. S \in SUBSET Nat
  BY DEF Addr
<1>3. ft_strlen(m, p) = Min(S)
  BY DEF ft_strlen
<1>4. Min(S) \in S /\ \A i \in S : Min(S) <= i
  <2> HIDE DEF S
  <2> QED
    BY <1>1, <1>2, LeastNat
<1>5. PICK l : l = Min(S)
  OBVIOUS
<1>6. l \in 0 .. Size - 1 - p /\ m[p + l] = 0 /\ \A i \in S : l <= i
  BY <1>4, <1>5
<1>7. ASSUME NEW i \in 0 .. l - 1 PROVE m[p + i] # 0
  <2>1. i \in 0 .. Size - 1 - p /\ ~(l <= i)
    BY <1>6 DEF Addr
  <2> QED
    BY <1>6, <2>1
<1> QED
  BY <1>3, <1>5, <1>6, <1>7

LEMMA StrlenIs ==
  ASSUME NEW m, NEW p \in Addr, NEW l \in 0 .. Size - 1 - p,
         m[p + l] = 0, \A i \in 0 .. l - 1 : m[p + i] # 0
  PROVE  ft_strlen(m, p) = l
<1> DEFINE S == {i \in 0 .. Size - 1 - p : m[p + i] = 0}
<1>1. S \in SUBSET Int /\ l \in S
  BY DEF Addr
<1>2. ASSUME NEW i \in S PROVE l <= i
  <2>1. i \in Int /\ i >= 0 /\ i \notin 0 .. l - 1
    BY DEF Addr
  <2> QED
    BY <2>1 DEF Addr
<1>3. ft_strlen(m, p) = Min(S)
  BY DEF ft_strlen
<1> HIDE DEF S
<1> QED
  BY <1>1, <1>2, <1>3, MinIs

\* A function from 1 .. n is a sequence.
LEMMA FcnIsSeq ==
  ASSUME NEW S, NEW n \in Nat, NEW f \in [1 .. n -> S]
  PROVE  f \in Seq(S) /\ Len(f) = n
<1>1. f \in Seq(S)
  BY SeqDef
<1> QED
  BY <1>1, LenProperties

Texts == Seq(Bytes \ {0})

LEMMA StrIs ==
  ASSUME NEW m \in Memories, NEW p \in Addr, Ends(m, p)
  PROVE  /\ Str(m, p) \in Texts /\ Len(Str(m, p)) = ft_strlen(m, p)
         /\ \A i \in 1 .. ft_strlen(m, p) : Str(m, p)[i] = m[p + i - 1]
<1>1. PICK l : l = ft_strlen(m, p)
  OBVIOUS
<1>2. l \in 0 .. Size - 1 - p /\ \A i \in 0 .. l - 1 : m[p + i] # 0
  BY <1>1, StrlenIsFirst
<1>3. ASSUME NEW i \in 1 .. l PROVE m[p + i - 1] \in Bytes \ {0}
  <2>1. i - 1 \in 0 .. l - 1 /\ p + (i - 1) = p + i - 1 /\ p + i - 1 \in Addr
    BY <1>2 DEF Addr
  <2>2. m[p + i - 1] \in Bytes
    BY <2>1 DEF Memories
  <2> QED
    BY <1>2, <2>1, <2>2
<1>4. Str(m, p) = [i \in 1 .. l |-> m[p + i - 1]]
  BY <1>1 DEF Str
<1>5. Str(m, p) \in [1 .. l -> Bytes \ {0}]
  BY <1>3, <1>4
<1>6. l \in Nat
  BY <1>2 DEF Addr
<1>7. Str(m, p) \in Texts /\ Len(Str(m, p)) = l
  BY <1>5, <1>6, FcnIsSeq DEF Texts
<1> QED
  BY <1>1, <1>4, <1>7

\* The string at p is s when s lies there with a 0 behind it.
LEMMA TextAt ==
  ASSUME NEW m, NEW p \in Addr, NEW s \in Texts, p + Len(s) < Size,
         m[p + Len(s)] = 0, \A i \in 1 .. Len(s) : m[p + i - 1] = s[i]
  PROVE  Str(m, p) = s /\ ft_strlen(m, p) = Len(s)
<1>1. PICK l : l = Len(s)
  OBVIOUS
<1>2. l \in Nat /\ l \in 0 .. Size - 1 - p /\ \A i \in 1 .. l : s[i] # 0
  BY <1>1, LenProperties, ElementOfSeq DEF Texts, Addr
<1>3. ASSUME NEW i \in 0 .. l - 1 PROVE m[p + i] # 0
  <2>1. i + 1 \in 1 .. l /\ p + (i + 1) - 1 = p + i
    BY <1>2 DEF Addr
  <2> QED
    BY <1>1, <1>2, <2>1
<1>4. ft_strlen(m, p) = l
  BY <1>1, <1>2, <1>3, StrlenIs
<1>5. s = [i \in 1 .. l |-> s[i]]
  BY <1>1, LenProperties DEF Texts
<1>6. Str(m, p) = [i \in 1 .. l |-> m[p + i - 1]]
  BY <1>4 DEF Str
<1> QED
  BY <1>1, <1>4, <1>5, <1>6

-----------------------------------------------------------------------------
(***************************************************************************)
(* Copying byte by byte: the k-th byte goes from s[k] to d[k].             *)
(***************************************************************************)
IsCopying(f, m, d, s) ==
  f = [k \in Nat |-> IF k = 0 THEN m ELSE [f[k - 1] EXCEPT ![d[k]] = f[k - 1][s[k]]]]

LEMMA CopyingExists ==
  ASSUME NEW m, NEW d, NEW s
  PROVE  \E f : IsCopying(f, m, d, s)
<1> DEFINE step(k, x) == [x EXCEPT ![d[k]] = x[s[k]]]
           Steps(f, n) == f[0] = m /\ \A k \in 1 .. n : f[k] = step(k, f[k - 1])
           Has == {n \in Nat : \E f : Steps(f, n)}
           pick(n) == CHOOSE f : Steps(f, n)
           F == [k \in Nat |-> pick(k)[k]]
<1> HIDE DEF step
<1>1. 0 \in Has
  <2> DEFINE f == [k \in {0} |-> m]
  <2>1. Steps(f, 0)
    OBVIOUS
  <2> HIDE DEF f
  <2> QED
    BY <2>1
<1>2. ASSUME NEW n \in Has PROVE n + 1 \in Has
  <2>1. PICK f : Steps(f, n)
    OBVIOUS
  <2> DEFINE g == [k \in Nat |-> IF k = n + 1 THEN step(n + 1, f[n]) ELSE f[k]]
  <2>2. n \in Nat /\ g[n + 1] = step(n + 1, f[n]) /\ \A k \in 0 .. n : g[k] = f[k]
    OBVIOUS
  <2> HIDE DEF g
  <2>3. ASSUME NEW k \in 1 .. n + 1 PROVE g[k] = step(k, g[k - 1])
    <3>1. k - 1 \in 0 .. n /\ g[k - 1] = f[k - 1]
      BY <2>2
    <3>2. CASE k = n + 1
      BY <2>2, <3>1, <3>2
    <3>3. CASE k \in 1 .. n
      <4>1. f[k] = step(k, f[k - 1])
        BY <2>1, <3>3
      <4>2. g[k] = f[k]
        BY <2>2, <3>3
      <4> QED
        BY <3>1, <4>1, <4>2
    <3> QED
      BY <2>2, <3>2, <3>3
  <2>4. g[0] = m
    BY <2>1, <2>2
  <2> QED
    BY <2>2, <2>3, <2>4
<1>3. \A n \in Nat : Steps(pick(n), n)
  <2>1. Has \in SUBSET Nat
    OBVIOUS
  <2>2. \A n \in Nat : n \in Has
    <3> HIDE DEF Has
    <3> QED
      BY <1>1, <1>2, <2>1, NatSet
  <2> HIDE DEF Steps
  <2> QED
    BY <2>2
<1> HIDE DEF pick
<1>4. ASSUME NEW n \in Nat PROVE pick(n + 1)[n] = pick(n)[n]
  <2>1. PICK a, b : a = pick(n) /\ b = pick(n + 1)
    OBVIOUS
  <2>2. Steps(a, n) /\ Steps(b, n + 1)
    BY <1>3, <2>1
  <2> DEFINE Same == {k \in Nat : k <= n => b[k] = a[k]}
  <2>3. 0 \in Same
    BY <2>2
  <2>4. ASSUME NEW k \in Same PROVE k + 1 \in Same
    <3> SUFFICES ASSUME k + 1 <= n PROVE b[k + 1] = a[k + 1]
      OBVIOUS
    <3>1. k + 1 \in 1 .. n /\ k + 1 \in 1 .. n + 1 /\ (k + 1) - 1 = k
      OBVIOUS
    <3>2. a[k + 1] = step(k + 1, a[k]) /\ b[k + 1] = step(k + 1, b[k])
      BY <2>2, <3>1
    <3> QED
      BY <3>2
  <2>5. n \in Same
    <3>1. Same \in SUBSET Nat
      OBVIOUS
    <3> HIDE DEF Same
    <3> QED
      BY <2>3, <2>4, <3>1, NatSet
  <2> QED
    BY <2>1, <2>5
<1>5. ASSUME NEW k \in Nat PROVE F[k] = IF k = 0 THEN m ELSE step(k, F[k - 1])
  <2>1. CASE k = 0
    BY <1>3, <2>1
  <2>2. CASE k # 0
    <3>1. k \in 1 .. k /\ k - 1 \in Nat /\ (k - 1) + 1 = k
      BY <2>2
    <3>2. pick(k)[k] = step(k, pick(k)[k - 1])
      BY <1>3, <3>1
    <3>3. pick(k)[k - 1] = pick(k - 1)[k - 1]
      BY <1>4, <3>1
    <3> QED
      BY <2>2, <3>1, <3>2, <3>3
  <2> QED
    BY <2>1, <2>2
<1>6. F = [k \in Nat |-> F[k]]
  OBVIOUS
<1> HIDE DEF F
<1>7. F = [k \in Nat |-> IF k = 0 THEN m ELSE step(k, F[k - 1])]
  BY <1>5, <1>6
<1>8. IsCopying(F, m, d, s)
  BY <1>7 DEF IsCopying, step
<1> QED
  BY <1>8

(***************************************************************************)
(* dst holds the n bytes that were at src, and the rest is as it was.      *)
(***************************************************************************)
Moved(m, dst, src, n) ==
  [i \in Addr |-> IF i \in dst .. dst + n - 1 THEN m[src + (i - dst)] ELSE m[i]]

LEMMA AscendingMoves ==
  ASSUME NEW m \in Memories, NEW dst \in Nat, NEW src \in Nat, NEW n \in Nat,
         dst + n <= Size, src + n <= Size, dst \notin src .. src + n - 1
  PROVE  Ascending(m, dst, src, n) = Moved(m, dst, src, n)
<1> DEFINE d == [k \in Nat |-> dst + k - 1]
           s == [k \in Nat |-> src + k - 1]
           IsCopied(f) == f = [k \in Nat |-> IF k = 0 THEN m
                                ELSE [f[k - 1] EXCEPT ![dst + k - 1] = f[k - 1][src + k - 1]]]
           copied == CHOOSE f : IsCopied(f)
<1>1. \E f : IsCopied(f)
  <2>1. PICK f : IsCopying(f, m, d, s)
    BY CopyingExists
  <2>2. \A k \in Nat : d[k] = dst + k - 1 /\ s[k] = src + k - 1
    OBVIOUS
  <2> HIDE DEF d, s
  <2>3. IsCopied(f)
    BY <2>1, <2>2 DEF IsCopying
  <2> QED
    BY <2>3
<1>2. IsCopied(copied)
  BY <1>1
<1>3. Ascending(m, dst, src, n) = copied[n]
  BY DEF Ascending
<1> HIDE DEF copied
<1> DEFINE S == {k \in Nat : k <= n => copied[k] = Moved(m, dst, src, k)}
<1>4. 0 \in S
  <2>1. Moved(m, dst, src, 0) = m
    BY DEF Moved, Memories
  <2> QED
    BY <1>2, <2>1
<1>5. ASSUME NEW k \in S PROVE k + 1 \in S
  <2> SUFFICES ASSUME k + 1 <= n PROVE copied[k + 1] = Moved(m, dst, src, k + 1)
    OBVIOUS
  <2>1. PICK a, b : a = copied[k] /\ b = copied[k + 1]
    OBVIOUS
  <2>2. a = Moved(m, dst, src, k) /\ k \in Nat
    BY <2>1
  <2>3. b = [a EXCEPT ![dst + k] = a[src + k]]
    <3>1. k + 1 \in Nat /\ k + 1 # 0 /\ (k + 1) - 1 = k /\ dst + (k + 1) - 1 = dst + k /\ src + (k + 1) - 1 = src + k
      BY <2>2
    <3> QED
      BY <1>2, <2>1, <3>1
  <2>4. src + k \in Addr /\ dst + k \in Addr /\ src + k \notin dst .. dst + k - 1
    BY <2>2 DEF Addr
  <2>5. a[src + k] = m[src + k]
    BY <2>2, <2>4 DEF Moved
  <2>6. b = [i \in Addr |-> IF i = dst + k THEN m[src + k] ELSE a[i]]
    BY <2>2, <2>3, <2>5 DEF Moved
  <2>7. ASSUME NEW i \in Addr PROVE b[i] = IF i \in dst .. dst + k THEN m[src + (i - dst)] ELSE m[i]
    <3>1. CASE i = dst + k
      <4>1. src + (i - dst) = src + k
        BY <2>2, <3>1
      <4> QED
        BY <2>2, <2>6, <3>1, <4>1
    <3>2. CASE i # dst + k
      <4>1. i \in Int /\ (i \in dst .. dst + k <=> i \in dst .. dst + k - 1)
        BY <2>2, <3>2 DEF Addr
      <4> QED
        BY <2>2, <2>6, <3>2, <4>1 DEF Moved
    <3> QED
      BY <3>1, <3>2
  <2>8. dst + (k + 1) - 1 = dst + k
    BY <2>2
  <2>9. b = Moved(m, dst, src, k + 1)
    BY <2>6, <2>7, <2>8 DEF Moved
  <2> QED
    BY <2>1, <2>9
<1>6. n \in S
  <2>1. S \in SUBSET Nat
    OBVIOUS
  <2> HIDE DEF S
  <2> QED
    BY <1>4, <1>5, <2>1, NatSet
<1> QED
  BY <1>3, <1>6

LEMMA DescendingMoves ==
  ASSUME NEW m \in Memories, NEW dst \in Nat, NEW src \in Nat, NEW n \in Nat,
         dst + n <= Size, src + n <= Size, src <= dst
  PROVE  Descending(m, dst, src, n) = Moved(m, dst, src, n)
<1> DEFINE d == [k \in Nat |-> dst + n - k]
           s == [k \in Nat |-> src + n - k]
           IsCopied(f) == f = [k \in Nat |-> IF k = 0 THEN m
                                ELSE [f[k - 1] EXCEPT ![dst + n - k] = f[k - 1][src + n - k]]]
           copied == CHOOSE f : IsCopied(f)
           \* The last k bytes are moved.
           Final(k) == [i \in Addr |-> IF i \in dst + n - k .. dst + n - 1
                                      THEN m[src + (i - dst)] ELSE m[i]]
<1>1. \E f : IsCopied(f)
  <2>1. PICK f : IsCopying(f, m, d, s)
    BY CopyingExists
  <2>2. \A k \in Nat : d[k] = dst + n - k /\ s[k] = src + n - k
    OBVIOUS
  <2> HIDE DEF d, s
  <2>3. IsCopied(f)
    BY <2>1, <2>2 DEF IsCopying
  <2> QED
    BY <2>3
<1>2. IsCopied(copied)
  BY <1>1
<1>3. Descending(m, dst, src, n) = copied[n]
  BY DEF Descending
<1> HIDE DEF copied
<1> DEFINE S == {k \in Nat : k <= n => copied[k] = Final(k)}
<1>4. 0 \in S
  <2>1. Final(0) = m
    BY DEF Memories, Addr
  <2> QED
    BY <1>2, <2>1
<1>5. ASSUME NEW k \in S PROVE k + 1 \in S
  <2> SUFFICES ASSUME k + 1 <= n PROVE copied[k + 1] = Final(k + 1)
    OBVIOUS
  <2>1. PICK a, b, to, from : a = copied[k] /\ b = copied[k + 1] /\ to = dst + n - (k + 1) /\ from = src + n - (k + 1)
    OBVIOUS
  <2>2. a = Final(k) /\ k \in Nat
    BY <2>1
  <2>3. b = [a EXCEPT ![to] = a[from]]
    <3>1. k + 1 \in Nat /\ k + 1 # 0 /\ (k + 1) - 1 = k
      BY <2>2
    <3> QED
      BY <1>2, <2>1, <3>1
  <2>4. from \in Addr /\ to \in Addr /\ from \notin dst + n - k .. dst + n - 1 /\ src + (to - dst) = from
    BY <2>1, <2>2 DEF Addr
  <2>5. a[from] = m[from]
    BY <2>2, <2>4
  <2>6. b = [i \in Addr |-> IF i = to THEN m[from] ELSE a[i]]
    BY <2>2, <2>3, <2>5
  <2>7. ASSUME NEW i \in Addr
        PROVE  b[i] = IF i \in dst + n - (k + 1) .. dst + n - 1 THEN m[src + (i - dst)] ELSE m[i]
    <3>1. CASE i = to
      <4>1. i \in dst + n - (k + 1) .. dst + n - 1
        BY <2>1, <2>2, <3>1
      <4> QED
        BY <2>4, <2>6, <3>1, <4>1
    <3>2. CASE i # to
      <4>1. i \in Int /\ (i \in dst + n - (k + 1) .. dst + n - 1 <=> i \in dst + n - k .. dst + n - 1)
        BY <2>1, <2>2, <3>2 DEF Addr
      <4> QED
        BY <2>2, <2>6, <3>2, <4>1
    <3> QED
      BY <3>1, <3>2
  <2>8. b = Final(k + 1)
    BY <2>6, <2>7
  <2> QED
    BY <2>1, <2>8
<1>6. n \in S
  <2>1. S \in SUBSET Nat
    OBVIOUS
  <2> HIDE DEF S
  <2> QED
    BY <1>4, <1>5, <2>1, NatSet
<1>7. Final(n) = Moved(m, dst, src, n)
  BY DEF Moved
<1> QED
  BY <1>3, <1>6, <1>7

LEMMA MemmoveMoves ==
  ASSUME NEW m \in Memories, NEW dst \in Nat, NEW src \in Nat, NEW n \in Nat,
         dst + n <= Size, src + n <= Size
  PROVE  ft_memmove(m, dst, src, n) = Moved(m, dst, src, n)
<1>1. CASE dst \in src .. src + n - 1
  BY <1>1, DescendingMoves DEF ft_memmove
<1>2. CASE dst \notin src .. src + n - 1
  BY <1>2, AscendingMoves DEF ft_memmove
<1> QED
  BY <1>1, <1>2

\* What ft_strlcpy and ft_strlcat store: the first k bytes of src, and a 0.
LEMMA TerminatedStores ==
  ASSUME NEW m \in Memories, NEW dst \in Addr, NEW src \in Addr, NEW room \in Nat, dst + room < Size,
         Ends(m, src), dst .. dst + room \cap src .. src + ft_strlen(m, src) = {},
         NEW k, k = IF ft_strlen(m, src) <= room THEN ft_strlen(m, src) ELSE room
  PROVE  /\ k \in 0 .. room /\ dst + k \in Addr
         /\ Terminated(m, dst, src, room) =
              [i \in Addr |-> IF i = dst + k THEN 0 ELSE Moved(m, dst, src, k)[i]]
<1>1. PICK l : l = ft_strlen(m, src)
  OBVIOUS
<1>2. l \in 0 .. Size - 1 - src
  BY <1>1, StrlenIsFirst
<1>3. k \in 0 .. room /\ k <= l /\ k \in Nat /\ l \in Int
  BY <1>1, <1>2 DEF Addr
<1>4. dst + k \in Addr /\ dst \in Nat /\ src \in Nat /\ dst + k <= Size /\ src + k <= Size
  BY <1>2, <1>3 DEF Addr
<1>5. dst \notin src .. src + k - 1
  <2>1. dst \in dst .. dst + room /\ (dst \in src .. src + k - 1 => dst \in src .. src + l)
    BY <1>2, <1>3, <1>4
  <2> QED
    BY <1>1, <2>1
<1>6. Min({l, room}) = k
  BY <1>1, <1>3, MinOfTwo
<1>7. Terminated(m, dst, src, room) = [Moved(m, dst, src, k) EXCEPT ![dst + k] = 0]
  <2>1. Ascending(m, dst, src, k) = Moved(m, dst, src, k)
    BY <1>3, <1>4, <1>5, AscendingMoves
  <2>2. Terminated(m, dst, src, room) = [Ascending(m, dst, src, k) EXCEPT ![dst + k] = 0]
    BY <1>1, <1>6 DEF Terminated
  <2> QED
    BY <2>1, <2>2
<1> QED
  BY <1>3, <1>4, <1>7 DEF Moved


LEMMA TextFacts ==
  ASSUME NEW s \in Texts
  PROVE  /\ Len(s) \in Nat /\ \A i \in 1 .. Len(s) : s[i] \in Bytes /\ s[i] # 0
         /\ s = << >> <=> Len(s) = 0
  BY LenProperties, ElementOfSeq, EmptySeq DEF Texts

\* The first k characters.
LEMMA Prefix ==
  ASSUME NEW s \in Texts, NEW k \in 0 .. Len(s)
  PROVE  /\ SubSeq(s, 1, k) \in Texts /\ Len(SubSeq(s, 1, k)) = k
         /\ \A i \in 1 .. k : SubSeq(s, 1, k)[i] = s[i]
<1>1. Len(s) \in Nat /\ \A i \in 1 .. k : s[i] \in Bytes \ {0}
  BY TextFacts
<1> QED
  BY <1>1, SubSeqProperties, SMTT(30) DEF Texts

\* A string and the first k characters of another.
LEMMA JoinPrefix ==
  ASSUME NEW s \in Texts, NEW t \in Texts, NEW k \in 0 .. Len(t)
  PROVE  LET u == SubSeq(s \o t, 1, Len(s) + k)
         IN  /\ u \in Texts /\ Len(u) = Len(s) + k
             /\ \A i \in 1 .. Len(s) : u[i] = s[i]
             /\ \A i \in Len(s) + 1 .. Len(s) + k : u[i] = t[i - Len(s)]
<1>1. /\ s \o t \in Texts /\ Len(s \o t) = Len(s) + Len(t)
      /\ \A i \in 1 .. Len(s) + Len(t) : (s \o t)[i] = IF i <= Len(s) THEN s[i] ELSE t[i - Len(s)]
  BY ConcatProperties DEF Texts
<1>2. PICK w, l, u : w = s \o t /\ l = Len(s) + k /\ u = SubSeq(s \o t, 1, Len(s) + k)
  OBVIOUS
<1>3. Len(s) \in Nat /\ Len(t) \in Nat
  BY TextFacts
<1>4. w \in Texts /\ l \in 0 .. Len(w)
  BY <1>1, <1>2, <1>3
<1>5. u \in Texts /\ Len(u) = l /\ \A i \in 1 .. l : u[i] = w[i]
  BY <1>2, <1>4, Prefix
<1>6. ASSUME NEW i \in 1 .. Len(s) PROVE u[i] = s[i]
  BY <1>1, <1>2, <1>3, <1>5
<1>7. ASSUME NEW i \in Len(s) + 1 .. Len(s) + k PROVE u[i] = t[i - Len(s)]
  BY <1>1, <1>2, <1>3, <1>5
<1> QED
  BY <1>2, <1>5, <1>6, <1>7

\* There is the string before at dst, and room for more behind it; src lies
\* elsewhere.
Fits(m, dst, src, room, before) ==
  /\ dst + Len(before) + room < Size /\ Ends(m, src)
  /\ \A i \in 1 .. Len(before) : before[i] = m[dst + i - 1]
  /\ dst .. dst + Len(before) + room \cap src .. src + ft_strlen(m, src) = {}

\* The memory after is m but for the buffer, which holds the string before
\* and what there is room for of the string at src.
Stored(m, dst, src, room, before, after) ==
  LET k == IF ft_strlen(m, src) <= room THEN ft_strlen(m, src) ELSE room
  IN  /\ after \in Memories
      /\ \A i \in Addr \ (dst .. dst + Len(before) + room) : after[i] = m[i]
      /\ Str(after, dst) = SubSeq(before \o Str(m, src), 1, Len(before) + k)
      /\ ft_strlen(after, dst) = Len(before) + k

LEMMA TerminatedText ==
  ASSUME NEW m \in Memories, NEW dst \in Addr, NEW src \in Addr, NEW room \in Nat,
         NEW before \in Texts, Fits(m, dst, src, room, before)
  PROVE  Stored(m, dst, src, room, before, Terminated(m, dst + Len(before), src, room))
<1>a. PICK l, after, k :
        /\ l = Len(before) /\ after = Terminated(m, dst + Len(before), src, room)
        /\ k = IF ft_strlen(m, src) <= room THEN ft_strlen(m, src) ELSE room
  OBVIOUS
<1>b. /\ dst + l + room < Size /\ Ends(m, src) /\ after = Terminated(m, dst + l, src, room)
      /\ \A i \in 1 .. l : before[i] = m[dst + i - 1]
      /\ dst .. dst + l + room \cap src .. src + ft_strlen(m, src) = {}
      /\ l \in Nat
  BY <1>a, TextFacts DEF Fits
<1>1. PICK to, s, n : to = dst + l /\ s = Str(m, src) /\ n = ft_strlen(m, src)
  OBVIOUS
<1>2. /\ n \in 0 .. Size - 1 - src
      /\ s \in Texts /\ Len(s) = n /\ \A i \in 1 .. n : s[i] = m[src + i - 1]
  BY <1>1, <1>b, StrlenIsFirst, StrIs
<1>3. to \in Addr /\ to + room < Size /\ to .. to + room \cap src .. src + n = {}
  <2>1. to \in Addr /\ to + room < Size
    BY <1>1, <1>b DEF Addr
  <2>2. to .. to + room \subseteq dst .. dst + l + room
    BY <1>1, <1>b DEF Addr
  <2> QED
    BY <1>1, <1>b, <2>1, <2>2
<1>4. /\ k \in 0 .. room /\ to + k \in Addr
      /\ after = [i \in Addr |-> IF i = to + k THEN 0 ELSE Moved(m, to, src, k)[i]]
  <2>1. /\ to \in Addr /\ to + room < Size /\ to .. to + room \cap src .. src + ft_strlen(m, src) = {}
        /\ after = Terminated(m, to, src, room)
    BY <1>1, <1>3, <1>b
  <2>2. /\ m \in Memories /\ src \in Addr /\ room \in Nat /\ Ends(m, src)
        /\ k = IF ft_strlen(m, src) <= room THEN ft_strlen(m, src) ELSE room
    BY <1>a, <1>b
  <2> QED
    BY ONLY <2>1, <2>2, TerminatedStores
<1>5. k \in Nat /\ k <= n /\ n \in Nat
  BY <1>1, <1>2, <1>4, <1>a DEF Addr
<1>6. ASSUME NEW i \in Addr
      PROVE  after[i] = IF i = to + k THEN 0 ELSE IF i \in to .. to + k - 1 THEN m[src + (i - to)] ELSE m[i]
  BY <1>4 DEF Moved
<1>7. after \in Memories
  <2>1. ASSUME NEW i \in Addr PROVE after[i] \in Bytes
    <3>1. i \in to .. to + k - 1 => src + (i - to) \in Addr
      BY <1>2, <1>3, <1>5 DEF Addr
    <3>2. \A a \in Addr : m[a] \in Bytes
      BY DEF Memories
    <3> QED
      BY <1>6, <3>1, <3>2
  <2> QED
    BY <1>4, <2>1 DEF Memories
<1>8. ASSUME NEW i \in Addr \ (dst .. dst + l + room) PROVE after[i] = m[i]
  <2>1. i # to + k /\ i \notin to .. to + k - 1
    BY <1>1, <1>4, <1>5, <1>b DEF Addr
  <2> QED
    BY <1>6, <2>1
<1>9. PICK t : t = SubSeq(before \o s, 1, l + k)
  OBVIOUS
<1>10. /\ t \in Texts /\ Len(t) = l + k
       /\ \A i \in 1 .. l : t[i] = m[dst + i - 1]
       /\ \A i \in l + 1 .. l + k : t[i] = m[src + (i - l) - 1]
  <2>1. t \in Texts /\ Len(t) = l + k /\ (\A i \in 1 .. l : t[i] = before[i])
        /\ \A i \in l + 1 .. l + k : t[i] = s[i - l]
    <3>1. k \in 0 .. Len(s)
      BY <1>2, <1>5
    <3>2. before \in Texts /\ s \in Texts /\ t = SubSeq(before \o s, 1, Len(before) + k)
      BY <1>2, <1>9, <1>a
    <3>3. /\ t \in Texts /\ Len(t) = Len(before) + k
          /\ \A i \in 1 .. Len(before) : t[i] = before[i]
          /\ \A i \in Len(before) + 1 .. Len(before) + k : t[i] = s[i - Len(before)]
      BY ONLY <3>1, <3>2, JoinPrefix
    <3> QED
      BY ONLY <3>3, <1>a
  <2>2. ASSUME NEW i \in l + 1 .. l + k PROVE t[i] = m[src + (i - l) - 1]
    <3>1. i - l \in 1 .. n
      BY <1>5, <1>b
    <3> QED
      BY <1>2, <2>1, <3>1
  <2> QED
    BY <1>b, <2>1, <2>2
<1>11. Str(after, dst) = t /\ ft_strlen(after, dst) = l + k
  <2>1. dst + (l + k) < Size /\ dst + (l + k) = to + k /\ after[to + k] = 0
    BY <1>1, <1>4, <1>5, <1>6, <1>b DEF Addr
  <2>2. ASSUME NEW i \in 1 .. l + k PROVE after[dst + i - 1] = t[i]
    <3>1. PICK a : a = dst + i - 1
      OBVIOUS
    <3>2. a \in Addr /\ a # to + k
      BY <1>1, <1>4, <1>5, <1>b, <2>1, <3>1 DEF Addr
    <3>3. CASE i <= l
      <4>1. a \notin to .. to + k - 1 /\ i \in 1 .. l
        BY <1>1, <1>5, <1>b, <3>1, <3>3 DEF Addr
      <4> QED
        BY ONLY <1>6, <1>10, <3>1, <3>2, <4>1
    <3>4. CASE ~(i <= l)
      <4>1. a \in to .. to + k - 1 /\ i \in l + 1 .. l + k /\ src + (a - to) = src + (i - l) - 1
        BY <1>1, <1>5, <1>b, <3>1, <3>4 DEF Addr
      <4> QED
        BY ONLY <1>6, <1>10, <3>1, <3>2, <4>1
    <3> QED
      BY <3>3, <3>4
  <2>3. /\ dst + Len(t) < Size /\ after[dst + Len(t)] = 0 /\ t \in Texts
        /\ \A i \in 1 .. Len(t) : after[dst + i - 1] = t[i]
    BY ONLY <1>10, <2>1, <2>2
  <2>4. Str(after, dst) = t /\ ft_strlen(after, dst) = Len(t)
    BY ONLY <2>3, TextAt, dst \in Addr
  <2> QED
    BY ONLY <1>10, <2>4
<1> QED
  BY <1>1, <1>7, <1>8, <1>9, <1>11, <1>a DEF Stored


-----------------------------------------------------------------------------
(***************************************************************************)
(* The calls.                                                              *)
(***************************************************************************)
LEMMA StringPtr ==
  ASSUME NEW p \in StringPtrs
  PROVE  p \in Addr /\ Ends(mem, p)
  BY DEF StringPtrs, IsString, Ends

LEMMA MoveStep ==
  ASSUME mem \in Memories, NEW dst \in Addr, NEW src \in Addr, NEW n \in 0 .. Size, Move(dst, src, n)
  PROVE  mem' \in Memories /\ mem' = Moved(mem, dst, src, n)
<1>1. dst \in Nat /\ src \in Nat /\ n \in Nat /\ dst + n <= Size /\ src + n <= Size
  BY DEF Addr, Move
<1>2. mem' = Moved(mem, dst, src, n)
  BY <1>1, MemmoveMoves DEF Move
<1>3. \A i \in Addr : i \in dst .. dst + n - 1 => src + (i - dst) \in Addr
  BY <1>1 DEF Addr
<1> QED
  BY <1>2, <1>3 DEF Moved, Memories

LEMMA MemsetStep ==
  ASSUME mem \in Memories, NEW s \in Addr, NEW c \in Bytes, NEW n \in 0 .. Size, ft_memset(s, c, n)
  PROVE  mem' \in Memories
  BY DEF ft_memset, Memories

\* What there is at dst before the call: nothing for ft_strlcpy, the string
\* of length l for ft_strlcat; and what there is afterwards, for a buffer of
\* n bytes of which it takes less.
Appends(dst, src, n, before) ==
  LET k == IF ft_strlen(mem, src) <= n - 1 - Len(before) THEN ft_strlen(mem, src) ELSE n - 1 - Len(before)
  IN  /\ mem' \in Memories
      /\ \A i \in Addr \ (dst .. dst + n - 1) : mem'[i] = mem[i]
      /\ Str(mem', dst) = SubSeq(before \o Str(mem, src), 1, Len(before) + k)
      /\ ft_strlen(mem', dst) = Len(before) + k
      /\ call'.ret = Len(before) + ft_strlen(mem, src)

LEMMA TerminatedAppends ==
  ASSUME mem \in Memories, NEW dst \in Addr, NEW src \in StringPtrs, NEW n \in 1 .. Size, Apart(dst, n, src),
         NEW before \in Texts, Len(before) < n, \A i \in 1 .. Len(before) : mem[dst + i - 1] = before[i],
         mem' = Terminated(mem, dst + Len(before), src, n - 1 - Len(before)),
         call'.ret = Len(before) + ft_strlen(mem, src)
  PROVE  Appends(dst, src, n, before)
<1>1. PICK l, room, after, ls :
        l = Len(before) /\ room = n - 1 - l /\ after = mem' /\ ls = ft_strlen(mem, src)
  OBVIOUS
<1>3. src \in Addr /\ Ends(mem, src)
  BY StringPtr
<1>4. l \in Nat /\ room \in Nat /\ n \in Nat /\ dst + l + room = dst + n - 1 /\ dst + l + room < Size
  BY <1>1, TextFacts DEF Apart, Addr
<1>6. dst .. dst + l + room \cap src .. src + ls = {}
  BY <1>1, <1>4 DEF Apart
<1>7. Stored(mem, dst, src, room, before, after)
  <2>1. Fits(mem, dst, src, room, before)
    BY <1>1, <1>3, <1>4, <1>6 DEF Fits
  <2>2. after = Terminated(mem, dst + Len(before), src, room)
    BY <1>1
  <2> QED
    BY <1>3, <1>4, <2>1, <2>2, TerminatedText
<1> QED
  BY <1>1, <1>4, <1>7 DEF Appends, Stored

LEMMA CopyStep ==
  ASSUME mem \in Memories, NEW dst \in Addr, NEW src \in Addr, NEW n \in 0 .. Size, Copy(dst, src, n)
  PROVE  /\ call'.op = "ft_strlcpy" /\ call'.dst = dst /\ call'.src = src /\ call'.n = n
         /\ src \in StringPtrs /\ call'.ret = ft_strlen(mem, src)
         /\ n = 0 => mem' = mem
         /\ n # 0 => Appends(dst, src, n, << >>)
<1>1. PICK r : r = ft_strlcpy(mem, dst, src, n)
  OBVIOUS
<1>2. /\ src \in StringPtrs /\ Apart(dst, n, src) /\ mem' = r.m
      /\ call' = [op |-> "ft_strlcpy", dst |-> dst, src |-> src, n |-> n, ret |-> r.ret]
  BY <1>1 DEF Copy
<1>3. /\ r.ret = ft_strlen(mem, src)
      /\ r.m = IF n = 0 THEN mem ELSE Terminated(mem, dst, src, n - 1)
  BY <1>1 DEF ft_strlcpy
<1>4. src \in Addr /\ Ends(mem, src)
  BY <1>2, StringPtr
<1>5. ft_strlen(mem, src) \in Nat
  BY <1>4, StrlenIsFirst DEF Addr
<1>6. CASE n # 0
  <2>1. << >> \in Texts /\ Len(<< >>) = 0
    BY EmptySeq DEF Texts
  <2>2. PICK e : e = << >>
    OBVIOUS
  <2>3. /\ e \in Texts /\ Len(e) = 0 /\ Len(e) < n /\ n \in 1 .. Size
        /\ \A i \in 1 .. Len(e) : mem[dst + i - 1] = e[i]
        /\ dst + Len(e) = dst /\ n - 1 - Len(e) = n - 1 /\ Len(e) + ft_strlen(mem, src) = ft_strlen(mem, src)
    BY <1>5, <1>6, <2>1, <2>2 DEF Addr
  <2>4. mem' = Terminated(mem, dst + Len(e), src, n - 1 - Len(e)) /\ call'.ret = Len(e) + ft_strlen(mem, src)
    BY <1>2, <1>3, <1>6, <2>3
  <2>5. Appends(dst, src, n, e)
    BY <1>2, <2>3, <2>4, TerminatedAppends
  <2> QED
    BY <1>2, <1>3, <1>6, <2>2, <2>5
<1> QED
  BY <1>2, <1>3, <1>6

LEMMA ConcatenateStep ==
  ASSUME mem \in Memories, NEW dst \in Addr, NEW src \in Addr, NEW n \in 0 .. Size, Concatenate(dst, src, n)
  PROVE  /\ call'.op = "ft_strlcat" /\ call'.dst = dst /\ call'.src = src /\ call'.n = n
         /\ src \in StringPtrs /\ dst \in StringPtrs
         /\ n <= ft_strlen(mem, dst) => mem' = mem /\ call'.ret = n + ft_strlen(mem, src)
         /\ n > ft_strlen(mem, dst) => Appends(dst, src, n, Str(mem, dst))
<1>1. PICK r, l : r = ft_strlcat(mem, dst, src, n) /\ l = ft_strlen(mem, dst)
  OBVIOUS
<1>2. /\ src \in StringPtrs /\ dst \in StringPtrs /\ Apart(dst, n, src) /\ mem' = r.m
      /\ call' = [op |-> "ft_strlcat", dst |-> dst, src |-> src, n |-> n, ret |-> r.ret]
  BY <1>1 DEF Concatenate
<1>3. r = IF l >= n THEN [m |-> mem, ret |-> n + ft_strlen(mem, src)]
          ELSE [m |-> Terminated(mem, dst + l, src, n - 1 - l), ret |-> l + ft_strlen(mem, src)]
  BY <1>1 DEF ft_strlcat
<1>4. Ends(mem, dst)
  BY <1>2, StringPtr
<1>5. PICK s : s = Str(mem, dst)
  OBVIOUS
<1>6. s \in Texts /\ Len(s) = l /\ \A i \in 1 .. l : s[i] = mem[dst + i - 1]
  BY <1>1, <1>4, <1>5, StrIs
<1>7. l \in Nat
  BY <1>6, TextFacts
<1>8. CASE n > l
  <2>1. r.m = Terminated(mem, dst + l, src, n - 1 - l) /\ r.ret = l + ft_strlen(mem, src)
    BY <1>3, <1>7, <1>8
  <2>2. /\ mem' = Terminated(mem, dst + Len(s), src, n - 1 - Len(s))
        /\ call'.ret = Len(s) + ft_strlen(mem, src)
    BY <1>2, <1>6, <2>1
  <2>3. n \in 1 .. Size /\ Len(s) < n /\ \A i \in 1 .. Len(s) : mem[dst + i - 1] = s[i]
    BY <1>6, <1>7, <1>8
  <2>4. Appends(dst, src, n, s)
    BY <1>2, <1>6, <2>2, <2>3, TerminatedAppends
  <2> QED
    BY <1>1, <1>2, <1>5, <1>7, <1>8, <2>4
<1>9. CASE n <= l
  BY <1>1, <1>2, <1>3, <1>7, <1>9
<1> QED
  BY <1>1, <1>7, <1>8, <1>9


LEMMA NextCases ==
  ASSUME Next
  PROVE  \/ mem' = mem /\ call'.op = "none"
         \/ \E dst \in Addr, n \in 0 .. Size :
              \/ \E c \in Bytes : ft_memset(dst, c, n) /\ call'.op = "ft_memset"
              \/ \E src \in Addr : Move(dst, src, n) \/ Copy(dst, src, n) \/ Concatenate(dst, src, n)
<1>1. CASE Done
  BY <1>1 DEF Done, NoCall
<1>2. ASSUME NEW dst \in Addr, NEW n \in 0 .. Size, NEW c \in Bytes, ft_memset(dst, c, n)
      PROVE  call'.op = "ft_memset"
  BY <1>2 DEF ft_memset
<1> QED
  BY <1>1, <1>2 DEF Next

LEMMA MemoryStep ==
  ASSUME mem \in Memories, [Next]_vars
  PROVE  mem' \in Memories
<1>1. CASE UNCHANGED vars
  BY <1>1 DEF vars
<1>2. ASSUME NEW dst \in Addr, NEW n \in 0 .. Size, NEW c \in Bytes, ft_memset(dst, c, n)
      PROVE  mem' \in Memories
  BY <1>2, MemsetStep
<1>3. ASSUME NEW dst \in Addr, NEW src \in Addr, NEW n \in 0 .. Size, Move(dst, src, n)
      PROVE  mem' \in Memories
  BY <1>3, MoveStep
<1>4. ASSUME NEW dst \in Addr, NEW src \in Addr, NEW n \in 0 .. Size, Copy(dst, src, n)
      PROVE  mem' \in Memories
  BY <1>4, CopyStep DEF Appends
<1>5. ASSUME NEW dst \in Addr, NEW src \in Addr, NEW n \in 0 .. Size, Concatenate(dst, src, n)
      PROVE  mem' \in Memories
  <2>1. Ends(mem, dst)
    BY <1>5, ConcatenateStep, StringPtr
  <2>2. ft_strlen(mem, dst) \in Int
    BY <2>1, StrlenIsFirst DEF Addr
  <2> QED
    BY <1>5, <2>2, ConcatenateStep DEF Appends
<1> QED
  BY <1>1, <1>2, <1>3, <1>4, <1>5, NextCases

(***************************************************************************)
(* The memory stays as large as it is, and every byte of it a byte: no     *)
(* call stores outside it.                                                 *)
(***************************************************************************)
THEOREM MemoryCorrect == Spec => [](mem \in Memories)
<1>1. Init => mem \in Memories
  BY DEF Init, Memories
<1>2. mem \in Memories /\ [Next]_vars => (mem \in Memories)'
  BY MemoryStep
<1> QED
  BY <1>1, <1>2, PTL DEF Spec

(***************************************************************************)
(* ft_memmove copies as if through a second buffer: MoveIsCopy, for every  *)
(* size of the memory and every overlap.                                   *)
(***************************************************************************)
MovesNow ==
  call'.op = "ft_memmove" =>
    mem' = [i \in Addr |-> IF i \in call'.dst .. call'.dst + call'.n - 1
                           THEN mem[call'.src + (i - call'.dst)] ELSE mem[i]]

LEMMA MovesStep ==
  ASSUME mem \in Memories, Next
  PROVE  MovesNow
<1>1. ASSUME NEW dst \in Addr, NEW src \in Addr, NEW n \in 0 .. Size, Move(dst, src, n)
      PROVE  MovesNow
  <2>1. mem' = Moved(mem, dst, src, n)
    BY <1>1, MoveStep
  <2>2. call'.dst = dst /\ call'.src = src /\ call'.n = n
    BY <1>1 DEF Move
  <2> QED
    BY <2>1, <2>2 DEF MovesNow, Moved
<1>2. ASSUME NEW dst \in Addr, NEW src \in Addr, NEW n \in 0 .. Size, Copy(dst, src, n)
      PROVE  MovesNow
  BY <1>2, CopyStep DEF MovesNow
<1>3. ASSUME NEW dst \in Addr, NEW src \in Addr, NEW n \in 0 .. Size, Concatenate(dst, src, n)
      PROVE  MovesNow
  BY <1>3, ConcatenateStep DEF MovesNow
<1>4. call'.op \in {"none", "ft_memset"} => MovesNow
  BY DEF MovesNow
<1> QED
  BY <1>1, <1>2, <1>3, <1>4, NextCases

\* MoveIsCopy: ft_memmove copies n bytes as they were before the call, also
\* where source and destination overlap, and touches no other byte.
THEOREM MovesAreCopies == Spec => MoveIsCopy
<1>1. mem \in Memories /\ [Next]_vars => [MovesNow]_vars
  BY MovesStep
<1> QED
  BY <1>1, MemoryCorrect, PTL DEF Spec, MoveIsCopy, MovesNow

(***************************************************************************)
(* StaysInBuffer and TruncationShows: ft_strlcpy and ft_strlcat store      *)
(* nothing outside the buffer, leave a string of what fits in it, and      *)
(* return a length by which the caller sees whether all did.               *)
(***************************************************************************)
StaysNow ==
  call'.op \in {"ft_strlcpy", "ft_strlcat"} =>
    LET before == IF call'.op = "ft_strlcpy" THEN << >> ELSE Str(mem, call'.dst)
        whole == before \o Str(mem, call'.src)
    IN  /\ \A i \in Addr \ (call'.dst .. call'.dst + call'.n - 1) : mem'[i] = mem[i]
        /\ call'.n > Len(before) =>
             Str(mem', call'.dst) = SubSeq(whole, 1, Min({Len(whole), call'.n - 1}))

ShowsNow ==
  call'.op \in {"ft_strlcpy", "ft_strlcat"} =>
    (call'.ret < call'.n <=>
       /\ call'.n > 0
       /\ call'.op = "ft_strlcat" => ft_strlen(mem, call'.dst) < call'.n
       /\ Len(Str(mem', call'.dst)) =
            ft_strlen(mem, call'.src)
              + (IF call'.op = "ft_strlcat" THEN ft_strlen(mem, call'.dst) ELSE 0))

\* What Appends says in the words of the two properties.
Tells(dst, src, n, before) ==
  LET whole == before \o Str(mem, src)
  IN  /\ \A i \in Addr \ (dst .. dst + n - 1) : mem'[i] = mem[i]
      /\ Str(mem', dst) = SubSeq(whole, 1, Min({Len(whole), n - 1}))
      /\ call'.ret < n <=> Len(Str(mem', dst)) = Len(before) + ft_strlen(mem, src)

LEMMA AppendsTells ==
  ASSUME mem \in Memories, NEW dst \in Addr, NEW src \in StringPtrs, NEW n \in 1 .. Size,
         NEW before \in Texts, Len(before) < n, Appends(dst, src, n, before)
  PROVE  Tells(dst, src, n, before)
<1>1. PICK l, ls, s, t : l = Len(before) /\ ls = ft_strlen(mem, src) /\ s = Str(mem, src) /\ t = Str(mem', dst)
  OBVIOUS
<1>2. PICK k : k = IF ls <= n - 1 - l THEN ls ELSE n - 1 - l
  OBVIOUS
<1>3. Ends(mem, src) /\ src \in Addr
  BY StringPtr
<1>4. s \in Texts /\ Len(s) = ls
  BY <1>1, <1>3, StrIs
<1>5. l \in Nat /\ ls \in Nat /\ n \in Nat /\ l < n
  BY <1>1, <1>4, TextFacts
<1>6. /\ \A i \in Addr \ (dst .. dst + n - 1) : mem'[i] = mem[i]
      /\ t = SubSeq(before \o s, 1, l + k) /\ call'.ret = l + ls
  BY <1>1, <1>2 DEF Appends
<1>7. k \in 0 .. Len(s)
  BY <1>2, <1>4, <1>5
<1>8. Len(t) = l + k
  <2>1. t = SubSeq(before \o s, 1, Len(before) + k)
    BY <1>1, <1>6
  <2>2. Len(SubSeq(before \o s, 1, Len(before) + k)) = Len(before) + k
    BY ONLY <1>4, <1>7, before \in Texts, JoinPrefix
  <2> QED
    BY <1>1, <2>1, <2>2
<1>9. Len(before \o s) = l + ls
  BY <1>1, <1>4, ConcatProperties DEF Texts
<1>10. Min({l + ls, n - 1}) = l + k
  <2>1. l + ls \in Int /\ n - 1 \in Int
    BY <1>5
  <2> QED
    BY <1>2, <1>5, <2>1, MinOfTwo
<1>11. call'.ret < n <=> Len(t) = l + ls
  BY <1>2, <1>5, <1>6, <1>8
<1> QED
  BY <1>1, <1>6, <1>9, <1>10, <1>11 DEF Tells

LEMMA BufferStep ==
  ASSUME mem \in Memories, Next
  PROVE  StaysNow /\ ShowsNow
<1>1. ASSUME NEW dst \in Addr, NEW src \in Addr, NEW n \in 0 .. Size, Copy(dst, src, n)
      PROVE  StaysNow /\ ShowsNow
  <2>1. /\ call'.op = "ft_strlcpy" /\ call'.dst = dst /\ call'.src = src /\ call'.n = n
        /\ src \in StringPtrs /\ call'.ret = ft_strlen(mem, src)
        /\ n = 0 => mem' = mem
        /\ n # 0 => Appends(dst, src, n, << >>)
    BY <1>1, CopyStep
  <2>2. ft_strlen(mem, src) \in Nat
    BY <2>1, StringPtr, StrlenIsFirst DEF Addr
  <2>3. Len(<< >>) = 0 /\ << >> \in Texts
    BY EmptySeq DEF Texts
  <2>4. CASE n = 0
    <3>1. StaysNow
      BY <2>1, <2>3, <2>4 DEF StaysNow
    <3>2. ShowsNow
      BY <2>1, <2>2, <2>4 DEF ShowsNow
    <3> QED
      BY <3>1, <3>2
  <2>5. CASE n # 0
    <3>1. PICK e : e = << >>
      OBVIOUS
    <3>2. e \in Texts /\ Len(e) = 0 /\ Len(e) < n /\ n \in 1 .. Size /\ Appends(dst, src, n, e)
      BY <2>1, <2>3, <2>5, <3>1
    <3>3. /\ \A i \in Addr \ (dst .. dst + n - 1) : mem'[i] = mem[i]
          /\ Str(mem', dst) = SubSeq(e \o Str(mem, src), 1, Min({Len(e \o Str(mem, src)), n - 1}))
          /\ call'.ret < n <=> Len(Str(mem', dst)) = Len(e) + ft_strlen(mem, src)
      <4>1. Tells(dst, src, n, e)
        BY <2>1, <3>2, AppendsTells
      <4> QED
        BY <4>1 DEF Tells
    <3>4. StaysNow
      BY <2>1, <3>1, <3>2, <3>3 DEF StaysNow
    <3>5. ShowsNow
      <4>1. n > 0 /\ Len(e) + ft_strlen(mem, src) = ft_strlen(mem, src) + 0
        BY <2>2, <2>5, <3>2
      <4> QED
        BY ONLY <2>1, <3>3, <4>1 DEF ShowsNow
    <3> QED
      BY <3>4, <3>5
  <2> QED
    BY <2>4, <2>5
<1>2. ASSUME NEW dst \in Addr, NEW src \in Addr, NEW n \in 0 .. Size, Concatenate(dst, src, n)
      PROVE  StaysNow /\ ShowsNow
  <2>1. /\ call'.op = "ft_strlcat" /\ call'.dst = dst /\ call'.src = src /\ call'.n = n
        /\ src \in StringPtrs /\ dst \in StringPtrs
        /\ n <= ft_strlen(mem, dst) => mem' = mem /\ call'.ret = n + ft_strlen(mem, src)
        /\ n > ft_strlen(mem, dst) => Appends(dst, src, n, Str(mem, dst))
    BY <1>2, ConcatenateStep
  <2>2. Ends(mem, src) /\ Ends(mem, dst)
    BY <2>1, StringPtr
  <2>3. ft_strlen(mem, src) \in Nat /\ ft_strlen(mem, dst) \in Nat
    BY <2>2, StrlenIsFirst DEF Addr
  <2>4. PICK s : s = Str(mem, dst)
    OBVIOUS
  <2>5. s \in Texts /\ Len(s) = ft_strlen(mem, dst)
    BY <2>2, <2>4, StrIs
  <2>6. CASE n <= ft_strlen(mem, dst)
    <3>1. StaysNow
      BY <2>1, <2>3, <2>4, <2>5, <2>6 DEF StaysNow
    <3>2. ShowsNow
      BY <2>1, <2>3, <2>6 DEF ShowsNow
    <3> QED
      BY <3>1, <3>2
  <2>7. CASE n > ft_strlen(mem, dst)
    <3>1. Len(s) < n /\ n \in 1 .. Size /\ Appends(dst, src, n, s)
      BY <2>1, <2>3, <2>4, <2>5, <2>7
    <3>2. /\ \A i \in Addr \ (dst .. dst + n - 1) : mem'[i] = mem[i]
          /\ Str(mem', dst) = SubSeq(s \o Str(mem, src), 1, Min({Len(s \o Str(mem, src)), n - 1}))
          /\ call'.ret < n <=> Len(Str(mem', dst)) = Len(s) + ft_strlen(mem, src)
      <4>1. Tells(dst, src, n, s)
        BY <2>1, <2>5, <3>1, AppendsTells
      <4> QED
        BY <4>1 DEF Tells
    <3>3. StaysNow
      BY <2>1, <2>4, <3>2 DEF StaysNow
    <3>4. ShowsNow
      <4>1. n > 0 /\ Len(s) + ft_strlen(mem, src) = ft_strlen(mem, src) + ft_strlen(mem, dst)
        BY <2>3, <2>5, <2>7
      <4> QED
        BY ONLY <2>1, <2>7, <3>2, <4>1 DEF ShowsNow
    <3> QED
      BY <3>3, <3>4
  <2> QED
    BY <2>3, <2>6, <2>7
<1>3. call'.op \in {"none", "ft_memset", "ft_memmove"} => StaysNow /\ ShowsNow
  BY DEF StaysNow, ShowsNow
<1>4. ASSUME NEW dst \in Addr, NEW src \in Addr, NEW n \in 0 .. Size, Move(dst, src, n)
      PROVE  call'.op = "ft_memmove"
  BY <1>4 DEF Move
<1> QED
  BY <1>1, <1>2, <1>3, <1>4, NextCases

\* StaysInBuffer: ft_strlcpy and ft_strlcat store nothing outside the n bytes
\* of dst, and leave there as much of the whole string as fits.
THEOREM CopiesStayInBuffer == Spec => StaysInBuffer
<1>1. mem \in Memories /\ [Next]_vars => [StaysNow]_vars
  BY BufferStep
<1> QED
  BY <1>1, MemoryCorrect, PTL DEF Spec, StaysInBuffer, StaysNow

\* TruncationShows: their result is less than n exactly when nothing was cut.
THEOREM TruncationIsShown == Spec => TruncationShows
<1>1. mem \in Memories /\ [Next]_vars => [ShowsNow]_vars
  BY BufferStep
<1> QED
  BY <1>1, MemoryCorrect, PTL DEF Spec, TruncationShows, ShowsNow


-----------------------------------------------------------------------------
(***************************************************************************)
(* ft_calloc's check.                                                      *)
(***************************************************************************)
LEMMA ModSmall ==
  ASSUME NEW a \in Nat, NEW d \in Nat \ {0}
  PROVE  a % d \in 0 .. d - 1 /\ a % d <= a /\ (a < d => a % d = a) /\ (a \div d) * d <= a /\ a \div d \in Nat
<1>1. a = d * (a \div d) + (a % d) /\ a % d \in 0 .. d - 1 /\ a \div d \in Int
  OBVIOUS
<1>2. a \div d \in Nat
  OBVIOUS
<1>3. PICK q, r : q = a \div d /\ r = a % d
  OBVIOUS
<1>4. q \in Nat /\ r \in 0 .. d - 1 /\ a = d * q + r
  BY <1>1, <1>2, <1>3
<1>5. d * q = q * d /\ q * d >= 0
  BY <1>4
<1>6. a < d => r = a
  <2> SUFFICES ASSUME a < d PROVE r = a
    OBVIOUS
  <2>1. q = 0
    <3> SUFFICES ASSUME q >= 1 PROVE FALSE
      BY <1>4
    <3>1. d * q >= d
      BY <1>4
    <3> QED
      BY <1>4, <3>1
  <2> QED
    BY <1>4, <2>1
<1>7. r <= a /\ q * d <= a
  BY <1>4, <1>5
<1> QED
  BY <1>3, <1>4, <1>6, <1>7

LEMMA CallocAsks ==
  ASSUME NEW nmemb \in Lengths, NEW size \in Lengths, ft_calloc(nmemb, size) # NULL
  PROVE  \/ ft_calloc(nmemb, size) = nmemb * size
         \/ ft_calloc(nmemb, size) = 0 /\ nmemb * size > SIZE_MAX
<1>1. nmemb \in Nat /\ size \in Nat /\ SIZE_MAX + 1 \in Nat \ {0}
  OBVIOUS
<1>2. PICK x : x = nmemb * size
  OBVIOUS
<1>3. x \in Nat
  BY <1>1, <1>2
<1>4. PICK total : total = x % (SIZE_MAX + 1)
  OBVIOUS
<1>5. total \in Nat /\ total <= x /\ (x < SIZE_MAX + 1 => total = x)
  BY <1>1, <1>3, <1>4, ModSmall
<1>6. ft_calloc(nmemb, size) = IF nmemb = 0 \/ size = 0 THEN 0
                               ELSE IF total # 0 /\ total \div nmemb # size THEN NULL ELSE total
  BY <1>2, <1>4 DEF ft_calloc
<1>7. CASE nmemb = 0 \/ size = 0
  <2>1. nmemb * size = 0
    BY <1>1, <1>7
  <2> QED
    BY ONLY <1>6, <1>7, <2>1
<1>8. CASE nmemb # 0 /\ size # 0 /\ total = 0
  BY <1>2, <1>3, <1>5, <1>6, <1>8
<1>9. CASE nmemb # 0 /\ size # 0 /\ total # 0
  <2>1. total \div nmemb = size /\ ft_calloc(nmemb, size) = total
    BY <1>6, <1>9
  <2>2. (total \div nmemb) * nmemb <= total
    BY <1>1, <1>5, <1>9, ModSmall
  <2>3. size * nmemb = x
    BY <1>1, <1>2
  <2>4. x <= total
    BY <2>1, <2>2, <2>3
  <2>5. total = x
    BY ONLY <1>3, <1>5, <2>4
  <2> QED
    BY ONLY <1>2, <2>1, <2>5
<1> QED
  BY <1>7, <1>8, <1>9

(***************************************************************************)
(* CallocIsWhole, for every width of size_t: ft_calloc asks for the whole  *)
(* product, or for 0 bytes where the product wraps around to exactly 0.    *)
(***************************************************************************)
THEOREM CallocAsksForAll == Spec => []CallocIsWhole
<1>1. CallocIsWhole
  BY CallocAsks DEF CallocIsWhole
<1> QED
  BY <1>1, PTL


-----------------------------------------------------------------------------
(***************************************************************************)
(* The searches for a byte.  Seen is where there is a byte a char can hold *)
(* in the string at p, its terminating 0 included.                         *)
(***************************************************************************)
Seen(m, p, c) == IF c > CHAR_MAX THEN {} ELSE {i \in p .. p + ft_strlen(m, p) : m[i] = c}

LEMMA ByteRange ==
  ASSUME NEW b \in Bytes
  PROVE  b \in Nat /\ b < 2 * CHAR_MAX + 2 /\ CHAR_MAX \in Nat
<1>1. b \in 0 .. (2 * CHAR_MAX + 1) /\ CHAR_MAX \in Nat
  OBVIOUS
<1> QED
  BY <1>1

LEMMA SeenFacts ==
  ASSUME NEW m \in Memories, NEW p \in Addr, Ends(m, p), NEW c \in Bytes,
         NEW l, l = ft_strlen(m, p)
  PROVE  /\ l \in Nat /\ p \in Nat /\ p + l < Size /\ m[p + l] = 0
         /\ \A i \in p .. p + l - 1 : m[i] # 0
         /\ \A i \in p .. p + l : AsChar(m[i]) = c <=> i \in Seen(m, p, c)
         /\ Seen(m, p, c) \subseteq p .. p + l /\ Seen(m, p, c) \in SUBSET Nat
         /\ p + l \in Seen(m, p, c) <=> c = 0
         /\ c = 0 => Seen(m, p, c) = {p + l}
<1>1. /\ l \in 0 .. Size - 1 - p /\ m[p + l] = 0 /\ p \in 0 .. Size - 1
      /\ \A i \in 0 .. l - 1 : m[p + i] # 0
  BY StrlenIsFirst DEF Addr
<1>2. l \in Nat /\ p \in Nat /\ p + l < Size
  BY <1>1
<1>3. ASSUME NEW i \in p .. p + l - 1 PROVE m[i] # 0
  <2>1. i - p \in 0 .. l - 1 /\ p + (i - p) = i
    BY <1>2
  <2> QED
    BY <1>1, <2>1
<1>4. ASSUME NEW i \in p .. p + l PROVE AsChar(m[i]) = c <=> i \in Seen(m, p, c)
  <2>1. i \in Addr
    BY <1>2 DEF Addr
  <2>2. m[i] \in Bytes
    BY <2>1 DEF Memories
  <2>3. AsChar(m[i]) = c <=> m[i] = c /\ ~(c > CHAR_MAX)
    <3>1. PICK b : b = m[i]
      OBVIOUS
    <3>2. b \in Nat /\ c \in Nat /\ b < 2 * CHAR_MAX + 2 /\ CHAR_MAX \in Nat
      BY ONLY <2>2, <3>1, c \in Bytes, ByteRange
    <3>3. AsChar(b) = c <=> b = c /\ ~(c > CHAR_MAX)
      BY ONLY <3>2 DEF AsChar
    <3> QED
      BY <3>1, <3>3
  <2> QED
    BY <2>3 DEF Seen
<1>5. Seen(m, p, c) \subseteq p .. p + l
  BY DEF Seen
<1>6. Seen(m, p, c) \in SUBSET Nat
  BY <1>2, <1>5
<1>7. p + l \in Seen(m, p, c) <=> c = 0
  BY <1>1, <1>2 DEF Seen
<1>8. ASSUME c = 0, NEW i \in Seen(m, p, c) PROVE i = p + l
  <2>1. i \in p .. p + l /\ m[i] = 0
    BY <1>8 DEF Seen
  <2> QED
    BY <1>2, <1>3, <2>1
<1> QED
  BY <1>1, <1>2, <1>3, <1>4, <1>5, <1>6, <1>7, <1>8

LEMMA StrchrFinds ==
  ASSUME NEW m \in Memories, NEW p \in Addr, Ends(m, p), NEW c \in Bytes
  PROVE  ft_strchr(m, p, c) = LeastOf(Seen(m, p, c))
<1> DEFINE IsFrom(f) == f = [i \in Nat |-> IF m[i] = 0 THEN (IF c = 0 THEN i ELSE NULL)
                                           ELSE IF AsChar(m[i]) = c THEN i ELSE f[i + 1]]
           from == CHOOSE f : IsFrom(f)
           stop == {i \in Nat : m[i] = 0 \/ AsChar(m[i]) = c}
           v == [i \in Nat |-> IF m[i] = 0 /\ c # 0 THEN NULL ELSE i]
<1>1. \A f : ScansUp(f, stop, v) <=> IsFrom(f)
  BY DEF ScansUp
<1>2. \E f : ScansUp(f, stop, v)
  <2> HIDE DEF v
  <2> QED
    BY ScanUpExists
<1>3. ScansUp(from, stop, v)
  BY <1>1, <1>2
<1>4. ft_strchr(m, p, c) = from[p]
  BY DEF ft_strchr
<1> HIDE DEF from
<1>5. PICK l, seen : l = ft_strlen(m, p) /\ seen = Seen(m, p, c)
  OBVIOUS
<1>6. /\ l \in Nat /\ p \in Nat /\ m[p + l] = 0
      /\ \A i \in p .. p + l - 1 : m[i] # 0
      /\ \A i \in p .. p + l : AsChar(m[i]) = c <=> i \in seen
      /\ seen \subseteq p .. p + l /\ seen \in SUBSET Nat
      /\ p + l \in seen <=> c = 0
  BY <1>5, SeenFacts
<1>7. CASE seen = {}
  <2>1. p + l \in stop /\ p + l \in Nat /\ p <= p + l /\ \A k \in p .. p + l - 1 : k \notin stop
    BY <1>6, <1>7
  <2>2. v[p + l] = NULL
    BY <1>6, <1>7, <2>1
  <2> HIDE DEF v, stop
  <2>3. from[p] = v[p + l]
    BY <1>3, <1>6, <2>1, ScanUpValue
  <2> QED
    BY <1>4, <1>5, <1>7, <2>2, <2>3 DEF LeastOf
<1>8. CASE seen # {}
  <2>1. PICK j : j = Min(seen) /\ j \in seen /\ \A i \in seen : j <= i
    BY <1>6, <1>8, LeastNat
  <2>2. j \in Nat /\ p <= j /\ j \in stop /\ \A k \in p .. j - 1 : k \notin stop
    <3>1. j \in p .. p + l /\ AsChar(m[j]) = c /\ j \in Nat
      BY <1>6, <2>1
    <3>2. ASSUME NEW k \in p .. j - 1 PROVE k \notin stop
      <4>1. k \in p .. p + l - 1 /\ k \in p .. p + l /\ ~(j <= k)
        BY <1>6, <3>1
      <4> QED
        BY <1>6, <2>1, <4>1
    <3> QED
      BY <3>1, <3>2
  <2>3. v[j] = j
    BY <1>6, <2>1, <2>2
  <2> HIDE DEF v, stop
  <2>4. from[p] = v[j]
    BY <1>3, <1>6, <2>2, ScanUpValue
  <2> QED
    BY <1>4, <1>5, <1>8, <2>1, <2>3, <2>4 DEF LeastOf
<1> QED
  BY <1>7, <1>8


LEMMA StrrchrFinds ==
  ASSUME NEW m \in Memories, NEW p \in Addr, Ends(m, p), NEW c \in Bytes
  PROVE  ft_strrchr(m, p, c) = GreatestOf(Seen(m, p, c))
<1> DEFINE IsBack(f) == f = [len \in Int |-> IF len < 0 THEN NULL
                                             ELSE IF AsChar(m[p + len]) = c THEN p + len ELSE f[len - 1]]
           back == CHOOSE f : IsBack(f)
           stop == {len \in Int : len < 0 \/ AsChar(m[p + len]) = c}
           v == [len \in Int |-> IF len < 0 THEN NULL ELSE p + len]
<1>1. \A f : ScansDown(f, stop, v) <=> IsBack(f)
  BY DEF ScansDown
<1>2. \E f : ScansDown(f, stop, v)
  <2>1. stop \in SUBSET Int /\ 0 \in Int /\ \A i \in Int : i < 0 => i \in stop
    OBVIOUS
  <2> HIDE DEF v, stop
  <2> QED
    BY <2>1, ScanDownExists
<1>3. ScansDown(back, stop, v)
  BY <1>1, <1>2
<1>4. ft_strrchr(m, p, c) = back[ft_strlen(m, p)]
  BY DEF ft_strrchr
<1> HIDE DEF back
<1>5. PICK l, seen : l = ft_strlen(m, p) /\ seen = Seen(m, p, c)
  OBVIOUS
<1>6. /\ l \in Nat /\ p \in Nat /\ m[p + l] = 0
      /\ \A i \in p .. p + l - 1 : m[i] # 0
      /\ \A i \in p .. p + l : AsChar(m[i]) = c <=> i \in seen
      /\ seen \subseteq p .. p + l /\ seen \in SUBSET Nat
      /\ p + l \in seen <=> c = 0
      /\ c = 0 => seen = {p + l}
  BY <1>5, SeenFacts
<1>7. CASE seen = {}
  <2>1. -1 \in stop /\ -1 \in Int /\ l \in Int /\ -1 <= l /\ \A k \in -1 + 1 .. l : k \notin stop
    BY <1>6, <1>7
  <2>2. v[-1] = NULL
    BY DEF NULL
  <2> HIDE DEF v, stop
  <2>3. back[l] = v[-1]
    BY <1>3, <2>1, ScanDownValue
  <2> QED
    BY <1>4, <1>5, <1>7, <2>2, <2>3 DEF GreatestOf
<1>8. CASE seen # {}
  <2>1. PICK j : j = Max(seen) /\ j \in seen /\ \A i \in seen : i <= j
    <3>1. p + l \in Int /\ seen \in SUBSET Int /\ \A i \in seen : i <= p + l
      BY <1>6
    <3> QED
      BY <1>8, <3>1, GreatestInt
  <2>2. PICK n : n = j - p
    OBVIOUS
  <2>3. n \in Nat /\ n <= l /\ n \in stop /\ p + n = j /\ \A k \in n + 1 .. l : k \notin stop
    <3>1. j \in p .. p + l /\ AsChar(m[j]) = c /\ j \in Nat
      BY <1>6, <2>1
    <3>2. n \in Nat /\ n <= l /\ p + n = j
      BY <1>6, <2>2, <3>1
    <3>3. ASSUME NEW k \in n + 1 .. l PROVE k \notin stop
      <4>1. k >= 0 /\ p + k \in p .. p + l /\ ~(p + k <= j)
        BY <1>6, <3>2
      <4> QED
        BY <1>6, <2>1, <4>1
    <3> QED
      BY <3>1, <3>2, <3>3
  <2>4. v[n] = j
    BY <2>3
  <2> HIDE DEF v, stop
  <2>5. back[l] = v[n]
    <3>1. l \in Int /\ n \in Int
      BY <1>6, <2>3
    <3> QED
      BY <1>3, <2>3, <3>1, ScanDownValue
  <2> QED
    BY <1>4, <1>5, <1>8, <2>1, <2>4, <2>5 DEF GreatestOf
<1> QED
  BY <1>7, <1>8

LEMMA StrchrLenFinds ==
  ASSUME NEW m \in Memories, NEW p \in Addr, Ends(m, p), NEW c \in Bytes,
         NEW end, end = p + ft_strlen(m, p)
  PROVE  ft_strchr_len(m, p, c) = IF Seen(m, p, c) \ {end} = {} THEN 0 ELSE Min(Seen(m, p, c)) - p
<1> DEFINE IsFrom(f) == f = [idx \in Nat |-> IF m[p + idx] = 0 THEN 0
                                             ELSE IF AsChar(m[p + idx]) = c THEN idx ELSE f[idx + 1]]
           from == CHOOSE f : IsFrom(f)
           stop == {idx \in Nat : m[p + idx] = 0 \/ AsChar(m[p + idx]) = c}
           v == [idx \in Nat |-> IF m[p + idx] = 0 THEN 0 ELSE idx]
<1>1. \A f : ScansUp(f, stop, v) <=> IsFrom(f)
  BY DEF ScansUp
<1>2. \E f : ScansUp(f, stop, v)
  <2> HIDE DEF v
  <2> QED
    BY ScanUpExists
<1>3. ScansUp(from, stop, v)
  BY <1>1, <1>2
<1>4. ft_strchr_len(m, p, c) = from[0]
  BY DEF ft_strchr_len
<1> HIDE DEF from
<1>5. PICK l, seen : l = ft_strlen(m, p) /\ seen = Seen(m, p, c)
  OBVIOUS
<1>6. /\ l \in Nat /\ p \in Nat /\ m[p + l] = 0
      /\ \A i \in p .. p + l - 1 : m[i] # 0
      /\ \A i \in p .. p + l : AsChar(m[i]) = c <=> i \in seen
      /\ seen \subseteq p .. p + l /\ seen \in SUBSET Nat
      /\ p + l \in seen <=> c = 0
      /\ c = 0 => seen = {p + l}
  BY <1>5, SeenFacts
<1>7. CASE seen \ {end} = {}
  <2>1. l \in stop /\ l \in Nat /\ 0 <= l /\ \A k \in 0 .. l - 1 : k \notin stop
    <3>1. ASSUME NEW k \in 0 .. l - 1 PROVE k \notin stop
      <4>1. p + k \in p .. p + l - 1 /\ p + k \in p .. p + l /\ p + k # end
        BY <1>5, <1>6
      <4> QED
        BY <1>6, <1>7, <4>1
    <3> QED
      BY <1>6, <3>1
  <2>2. v[l] = 0
    BY <1>6
  <2> HIDE DEF v, stop
  <2>3. from[0] = v[l]
    BY <1>3, <2>1, ScanUpValue
  <2> QED
    BY <1>4, <1>5, <1>7, <2>2, <2>3
<1>8. CASE seen \ {end} # {}
  <2>1. PICK j : j = Min(seen) /\ j \in seen /\ \A i \in seen : j <= i
    BY <1>6, <1>8, LeastNat
  <2>2. c # 0 /\ j \in p .. p + l - 1
    <3>1. c # 0
      BY <1>5, <1>6, <1>8
    <3>2. j \in p .. p + l /\ j # p + l
      BY <1>6, <2>1, <3>1
    <3> QED
      BY <1>6, <3>1, <3>2
  <2>3. PICK n : n = j - p
    OBVIOUS
  <2>4. n \in Nat /\ 0 <= n /\ p + n = j /\ n \in stop /\ \A k \in 0 .. n - 1 : k \notin stop
    <3>1. n \in Nat /\ p + n = j /\ AsChar(m[j]) = c
      BY <1>6, <2>1, <2>2, <2>3
    <3>2. ASSUME NEW k \in 0 .. n - 1 PROVE k \notin stop
      <4>1. p + k \in p .. p + l - 1 /\ p + k \in p .. p + l /\ ~(j <= p + k)
        BY <1>6, <2>2, <3>1
      <4> QED
        BY <1>6, <2>1, <4>1
    <3> QED
      BY <3>1, <3>2
  <2>5. v[n] = n
    BY <1>6, <2>2, <2>4
  <2> HIDE DEF v, stop
  <2>6. from[0] = v[n]
    BY <1>3, <2>4, ScanUpValue
  <2> QED
    BY <1>4, <1>5, <1>8, <2>1, <2>3, <2>5, <2>6
<1> QED
  BY <1>7, <1>8

LEMMA IsinstrFinds ==
  ASSUME NEW m \in Memories, NEW p \in Addr, Ends(m, p), NEW c \in Bytes,
         NEW end, end = p + ft_strlen(m, p)
  PROVE  ft_isinstr(m, c, p) <=> Seen(m, p, c) \ {end} # {}
<1> DEFINE IsFrom(f) == f = [i \in Nat |-> m[i] # 0 /\ (c = AsChar(m[i]) \/ f[i + 1])]
           from == CHOOSE f : IsFrom(f)
           stop == {i \in Nat : m[i] = 0 \/ c = AsChar(m[i])}
           v == [i \in Nat |-> m[i] # 0]
<1>1. \E f : IsFrom(f)
  <2>1. PICK f : ScansUp(f, stop, v)
    <3> HIDE DEF v
    <3> QED
      BY ScanUpExists
  <2> DEFINE g == [i \in Nat |-> f[i] = TRUE]
  <2>2. ASSUME NEW i \in Nat PROVE g[i] = (m[i] # 0 /\ (c = AsChar(m[i]) \/ g[i + 1]))
    <3>1. f[i] = IF i \in stop THEN v[i] ELSE f[i + 1]
      <4> HIDE DEF stop, v
      <4> QED
        BY <2>1 DEF ScansUp
    <3>2. g[i] = (f[i] = TRUE) /\ g[i + 1] = (f[i + 1] = TRUE)
      OBVIOUS
    <3>3. CASE i \in stop
      <4>1. v[i] = (m[i] # 0) /\ (m[i] = 0 \/ c = AsChar(m[i]))
        BY <3>3, Zenon
      <4> QED
        BY <3>1, <3>2, <3>3, <4>1, Zenon
    <3>4. CASE i \notin stop
      <4>1. m[i] # 0 /\ c # AsChar(m[i])
        BY <3>4, Zenon
      <4> QED
        BY <3>1, <3>2, <3>4, <4>1, Zenon
    <3> QED
      BY <3>3, <3>4
  <2>3. g = [i \in Nat |-> g[i]]
    OBVIOUS
  <2> HIDE DEF g
  <2>4. IsFrom(g)
    BY <2>2, <2>3
  <2> QED
    BY <2>4
<1>2. IsFrom(from)
  BY <1>1
<1>3. ft_isinstr(m, c, p) = from[p]
  BY DEF ft_isinstr
<1> HIDE DEF from
<1>4. ScansUp(from, stop, v)
  <2>1. \A i \in Nat : from[i] = (m[i] # 0 /\ (c = AsChar(m[i]) \/ from[i + 1]))
    BY <1>2
  <2>2. \A i \in Nat : from[i] \in BOOLEAN
    BY <2>1
  <2>3. ASSUME NEW i \in Nat PROVE from[i] = IF i \in stop THEN v[i] ELSE from[i + 1]
    <3>1. i + 1 \in Nat
      OBVIOUS
    <3>2. from[i + 1] \in BOOLEAN
      BY <2>2, <3>1
    <3>3. i \in stop <=> m[i] = 0 \/ c = AsChar(m[i])
      OBVIOUS
    <3> QED
      BY <2>1, <3>2, <3>3
  <2>4. from = [i \in Nat |-> from[i]]
    BY <1>2
  <2> HIDE DEF stop, v
  <2> QED
    BY <2>3, <2>4 DEF ScansUp
<1>5. PICK l, seen : l = ft_strlen(m, p) /\ seen = Seen(m, p, c)
  OBVIOUS
<1>6. /\ l \in Nat /\ p \in Nat /\ m[p + l] = 0
      /\ \A i \in p .. p + l - 1 : m[i] # 0
      /\ \A i \in p .. p + l : AsChar(m[i]) = c <=> i \in seen
      /\ seen \subseteq p .. p + l /\ seen \in SUBSET Nat
      /\ p + l \in seen <=> c = 0
      /\ c = 0 => seen = {p + l}
  BY <1>5, SeenFacts
<1>7. CASE seen \ {end} = {}
  <2>1. p + l \in stop /\ p + l \in Nat /\ p <= p + l /\ \A k \in p .. p + l - 1 : k \notin stop
    <3>1. ASSUME NEW k \in p .. p + l - 1 PROVE k \notin stop
      <4>1. k \in p .. p + l /\ k # end
        BY <1>5, <1>6
      <4> QED
        BY <1>6, <1>7, <4>1
    <3> QED
      BY <1>6, <3>1
  <2>2. ~v[p + l]
    <3>1. v[p + l] = (m[p + l] # 0)
      BY <2>1, Zenon
    <3> QED
      BY <1>6, <3>1, Zenon
  <2> HIDE DEF v, stop
  <2>3. from[p] = v[p + l]
    BY <1>4, <1>6, <2>1, ScanUpValue
  <2> QED
    BY <1>3, <1>5, <1>7, <2>2, <2>3
<1>8. CASE seen \ {end} # {}
  <2>1. PICK j : j = Min(seen) /\ j \in seen /\ \A i \in seen : j <= i
    BY <1>6, <1>8, LeastNat
  <2>2. c # 0 /\ j \in p .. p + l - 1
    <3>1. c # 0
      BY <1>5, <1>6, <1>8
    <3>2. j \in p .. p + l /\ j # p + l
      BY <1>6, <2>1, <3>1
    <3> QED
      BY <1>6, <3>1, <3>2
  <2>3. j \in Nat /\ p <= j /\ j \in stop /\ \A k \in p .. j - 1 : k \notin stop
    <3>1. j \in Nat /\ c = AsChar(m[j])
      BY <1>6, <2>1, <2>2
    <3>2. ASSUME NEW k \in p .. j - 1 PROVE k \notin stop
      <4>1. k \in p .. p + l - 1 /\ k \in p .. p + l /\ ~(j <= k)
        BY <1>6, <2>2, <3>1
      <4> QED
        BY <1>6, <2>1, <4>1
    <3> QED
      BY <2>2, <3>1, <3>2
  <2>4. v[j]
    <3>1. v[j] = (m[j] # 0)
      BY <2>3, Zenon
    <3> QED
      BY <1>6, <2>2, <3>1, Zenon
  <2> HIDE DEF v, stop
  <2>5. from[p] = v[j]
    BY <1>4, <1>6, <2>3, ScanUpValue
  <2> QED
    BY <1>3, <1>5, <1>8, <2>4, <2>5
<1> QED
  BY <1>7, <1>8

LEMMA MemchrFinds ==
  ASSUME NEW m \in Memories, NEW p \in Addr, NEW c \in Bytes, NEW n \in 0 .. Size - p
  PROVE  ft_memchr(m, p, c, n) = LeastOf({i \in p .. p + n - 1 : m[i] = c})
<1> DEFINE IsFrom(f) == f = [cnt1 \in Nat |-> IF cnt1 >= n THEN NULL
                                              ELSE IF m[p + cnt1] = c THEN p + cnt1 ELSE f[cnt1 + 1]]
           from == CHOOSE f : IsFrom(f)
           stop == {cnt1 \in Nat : cnt1 >= n \/ m[p + cnt1] = c}
           v == [cnt1 \in Nat |-> IF cnt1 >= n THEN NULL ELSE p + cnt1]
           places == {i \in p .. p + n - 1 : m[i] = c}
<1>1. \A f : ScansUp(f, stop, v) <=> IsFrom(f)
  BY DEF ScansUp
<1>2. \E f : ScansUp(f, stop, v)
  <2> HIDE DEF v
  <2> QED
    BY ScanUpExists
<1>3. ScansUp(from, stop, v)
  BY <1>1, <1>2
<1>4. ft_memchr(m, p, c, n) = from[0]
  BY DEF ft_memchr
<1> HIDE DEF from
<1>5. n \in Nat /\ p \in Nat
  BY DEF Addr
<1>6. CASE places = {}
  <2>1. n \in stop /\ \A k \in 0 .. n - 1 : k \notin stop
    <3>1. ASSUME NEW k \in 0 .. n - 1 PROVE k \notin stop
      <4>1. p + k \in p .. p + n - 1 /\ ~(k >= n)
        BY <1>5
      <4> QED
        BY <1>6, <4>1
    <3> QED
      BY <1>5, <3>1
  <2>2. v[n] = NULL
    BY <1>5
  <2> HIDE DEF v, stop, places
  <2>3. from[0] = v[n]
    BY <1>3, <1>5, <2>1, ScanUpValue
  <2> QED
    BY <1>4, <1>6, <2>2, <2>3 DEF LeastOf, places
<1>7. CASE places # {}
  <2>1. PICK j : j = Min(places) /\ j \in places /\ \A i \in places : j <= i
    <3>1. places \in SUBSET Nat
      BY <1>5
    <3> HIDE DEF places
    <3> QED
      BY <1>7, <3>1, LeastNat
  <2>2. j \in p .. p + n - 1 /\ m[j] = c
    BY <2>1
  <2>3. PICK k0 : k0 = j - p
    OBVIOUS
  <2>4. k0 \in Nat /\ k0 < n /\ p + k0 = j /\ k0 \in stop /\ \A k \in 0 .. k0 - 1 : k \notin stop
    <3>1. k0 \in Nat /\ k0 < n /\ p + k0 = j
      BY <1>5, <2>2, <2>3
    <3>2. ASSUME NEW k \in 0 .. k0 - 1 PROVE k \notin stop
      <4>1. p + k \in p .. p + n - 1 /\ ~(j <= p + k) /\ ~(k >= n)
        BY <1>5, <3>1
      <4>2. p + k \notin places
        BY <2>1, <4>1
      <4> QED
        BY <4>1, <4>2
    <3> QED
      BY <2>2, <3>1, <3>2
  <2>5. v[k0] = j
    BY <1>5, <2>4
  <2> HIDE DEF v, stop, places
  <2>6. from[0] = v[k0]
    BY <1>3, <2>4, ScanUpValue
  <2> QED
    BY <1>4, <1>7, <2>1, <2>5, <2>6 DEF LeastOf, places
<1> QED
  BY <1>6, <1>7


-----------------------------------------------------------------------------
(***************************************************************************)
(* The comparisons.                                                        *)
(***************************************************************************)
Differ(m, p, q, k) == {i \in 0 .. k - 1 : m[p + i] # m[q + i]}
Told(m, p, q, places) == IF places = {} THEN 0 ELSE m[p + Min(places)] - m[q + Min(places)]

LEMMA LeastDiffer ==
  ASSUME NEW m, NEW p, NEW q, NEW k \in Nat, Differ(m, p, q, k) # {}
  PROVE  \E j \in 0 .. k - 1 : /\ j = Min(Differ(m, p, q, k)) /\ m[p + j] # m[q + j]
                               /\ \A i \in 0 .. j - 1 : m[p + i] = m[q + i]
<1> DEFINE places == Differ(m, p, q, k)
<1>1. places \in SUBSET Nat
  BY DEF Differ
<1>2. PICK j : j = Min(places) /\ j \in places /\ \A i \in places : j <= i
  <2> HIDE DEF places
  <2>1. places # {}
    BY DEF places
  <2> QED
    BY <1>1, <2>1, LeastNat
<1>3. j \in 0 .. k - 1 /\ m[p + j] # m[q + j]
  BY <1>2 DEF Differ
<1>4. ASSUME NEW i \in 0 .. j - 1 PROVE m[p + i] = m[q + i]
  <2>1. i \in 0 .. k - 1 /\ ~(j <= i)
    BY <1>3
  <2>2. i \notin places
    BY <1>2, <2>1
  <2> QED
    BY <2>1, <2>2 DEF Differ
<1> QED
  BY <1>2, <1>3, <1>4

LEMMA NoDiffer ==
  ASSUME NEW m, NEW p, NEW q, NEW k \in Nat, Differ(m, p, q, k) = {}
  PROVE  \A i \in 0 .. k - 1 : m[p + i] = m[q + i]
  BY DEF Differ

LEMMA MemcmpTells ==
  ASSUME NEW m, NEW p \in Addr, NEW q \in Addr, NEW n \in Nat
  PROVE  ft_memcmp(m, p, q, n) = Told(m, p, q, Differ(m, p, q, n))
<1> DEFINE IsFrom(f) == f = [cnt \in Nat |-> IF cnt >= n THEN 0
                                             ELSE IF m[p + cnt] # m[q + cnt] THEN m[p + cnt] - m[q + cnt] ELSE f[cnt + 1]]
           from == CHOOSE f : IsFrom(f)
           stop == {cnt \in Nat : cnt >= n \/ m[p + cnt] # m[q + cnt]}
           v == [cnt \in Nat |-> IF cnt >= n THEN 0 ELSE m[p + cnt] - m[q + cnt]]
<1>1. \A f : ScansUp(f, stop, v) <=> IsFrom(f)
  BY DEF ScansUp
<1>2. \E f : ScansUp(f, stop, v)
  <2> HIDE DEF v
  <2> QED
    BY ScanUpExists
<1>3. ScansUp(from, stop, v)
  BY <1>1, <1>2
<1>4. ft_memcmp(m, p, q, n) = from[0]
  BY DEF ft_memcmp
<1> HIDE DEF from
<1>5. CASE Differ(m, p, q, n) = {}
  <2>1. n \in stop /\ 0 <= n /\ \A k \in 0 .. n - 1 : k \notin stop
    BY <1>5, NoDiffer
  <2>2. v[n] = 0
    OBVIOUS
  <2> HIDE DEF v, stop
  <2>3. from[0] = v[n]
    BY <1>3, <2>1, ScanUpValue
  <2> QED
    BY <1>4, <1>5, <2>2, <2>3 DEF Told
<1>6. CASE Differ(m, p, q, n) # {}
  <2>1. PICK j \in 0 .. n - 1 : /\ j = Min(Differ(m, p, q, n)) /\ m[p + j] # m[q + j]
                                /\ \A i \in 0 .. j - 1 : m[p + i] = m[q + i]
    BY <1>6, LeastDiffer
  <2>2. j \in stop /\ 0 <= j /\ j \in Nat /\ \A k \in 0 .. j - 1 : k \notin stop
    BY <2>1
  <2>3. v[j] = m[p + j] - m[q + j]
    OBVIOUS
  <2> HIDE DEF v, stop
  <2>4. from[0] = v[j]
    BY <1>3, <2>2, ScanUpValue
  <2> QED
    BY <1>4, <1>6, <2>1, <2>3, <2>4 DEF Told
<1> QED
  BY <1>5, <1>6

LEMMA StrncmpTells ==
  ASSUME NEW m \in Memories, NEW p \in Addr, NEW q \in Addr, Ends(m, p), Ends(m, q), NEW n \in Nat,
         NEW shorter, shorter = IF ft_strlen(m, p) <= ft_strlen(m, q) THEN ft_strlen(m, p) ELSE ft_strlen(m, q),
         NEW top, top = IF n <= shorter + 1 THEN n ELSE shorter + 1
  PROVE  ft_strncmp(m, p, q, n) = Told(m, p, q, Differ(m, p, q, top))
<1> DEFINE IsFrom(f) == f = [cnt \in Nat |->
                               IF (m[p + cnt] = 0 /\ m[q + cnt] = 0) \/ cnt >= n THEN 0
                               ELSE IF m[p + cnt] # m[q + cnt] THEN m[p + cnt] - m[q + cnt] ELSE f[cnt + 1]]
           from == CHOOSE f : IsFrom(f)
           stop == {cnt \in Nat : (m[p + cnt] = 0 /\ m[q + cnt] = 0) \/ cnt >= n \/ m[p + cnt] # m[q + cnt]}
           v == [cnt \in Nat |-> IF (m[p + cnt] = 0 /\ m[q + cnt] = 0) \/ cnt >= n THEN 0
                                 ELSE m[p + cnt] - m[q + cnt]]
<1>1. \A f : ScansUp(f, stop, v) <=> IsFrom(f)
  BY DEF ScansUp
<1>2. \E f : ScansUp(f, stop, v)
  <2> HIDE DEF v
  <2> QED
    BY ScanUpExists
<1>3. ScansUp(from, stop, v)
  BY <1>1, <1>2
<1>4. ft_strncmp(m, p, q, n) = from[0]
  BY DEF ft_strncmp
<1> HIDE DEF from
<1>5. PICK lp, lq : lp = ft_strlen(m, p) /\ lq = ft_strlen(m, q)
  OBVIOUS
<1>6. /\ lp \in Nat /\ m[p + lp] = 0 /\ \A i \in 0 .. lp - 1 : m[p + i] # 0
      /\ lq \in Nat /\ m[q + lq] = 0 /\ \A i \in 0 .. lq - 1 : m[q + i] # 0
  <2>1. /\ ft_strlen(m, p) \in 0 .. Size - 1 - p /\ m[p + ft_strlen(m, p)] = 0
        /\ \A i \in 0 .. ft_strlen(m, p) - 1 : m[p + i] # 0
    BY StrlenIsFirst
  <2>2. /\ ft_strlen(m, q) \in 0 .. Size - 1 - q /\ m[q + ft_strlen(m, q)] = 0
        /\ \A i \in 0 .. ft_strlen(m, q) - 1 : m[q + i] # 0
    BY StrlenIsFirst
  <2> QED
    BY <1>5, <2>1, <2>2 DEF Addr
<1>7. /\ shorter \in Nat /\ top \in Nat /\ top <= n /\ top <= shorter + 1
      /\ \A i \in 0 .. shorter - 1 : m[p + i] # 0 /\ m[q + i] # 0
      /\ m[p + shorter] = 0 \/ m[q + shorter] = 0
  BY <1>5, <1>6
<1>8. CASE Differ(m, p, q, top) = {}
  <2>1. \A i \in 0 .. top - 1 : m[p + i] = m[q + i]
    BY <1>7, <1>8, NoDiffer
  <2>2. PICK j : j = IF n <= shorter THEN n ELSE shorter
    OBVIOUS
  <2>3. j \in stop /\ 0 <= j /\ j \in Nat /\ (\A k \in 0 .. j - 1 : k \notin stop) /\ v[j] = 0
    <3>1. CASE n <= shorter
      BY <1>7, <2>1, <2>2, <3>1
    <3>2. CASE ~(n <= shorter)
      <4>1. j = shorter /\ j \in Nat /\ j \in 0 .. top - 1
        BY <1>7, <2>2, <3>2
      <4>2. m[p + j] = 0 /\ m[q + j] = 0
        BY <1>7, <2>1, <4>1
      <4>3. ASSUME NEW k \in 0 .. j - 1 PROVE k \notin stop
        <5>1. k \in 0 .. top - 1 /\ k \in 0 .. shorter - 1 /\ ~(k >= n)
          BY <1>7, <3>2, <4>1
        <5> QED
          BY <1>7, <2>1, <5>1
      <4> QED
        BY <4>1, <4>2, <4>3
    <3> QED
      BY <3>1, <3>2
  <2> HIDE DEF v, stop
  <2>4. from[0] = v[j]
    BY <1>3, <2>3, ScanUpValue
  <2> QED
    BY <1>4, <1>8, <2>3, <2>4 DEF Told
<1>9. CASE Differ(m, p, q, top) # {}
  <2>1. PICK j \in 0 .. top - 1 : /\ j = Min(Differ(m, p, q, top)) /\ m[p + j] # m[q + j]
                                  /\ \A i \in 0 .. j - 1 : m[p + i] = m[q + i]
    BY <1>7, <1>9, LeastDiffer
  <2>2. j \in stop /\ 0 <= j /\ j \in Nat /\ ~(j >= n)
    BY <1>7, <2>1
  <2>3. ASSUME NEW k \in 0 .. j - 1 PROVE k \notin stop
    <3>1. k \in 0 .. shorter - 1 /\ ~(k >= n)
      BY <1>7, <2>1
    <3> QED
      BY <1>7, <2>1, <3>1
  <2>4. v[j] = m[p + j] - m[q + j]
    BY <2>1, <2>2
  <2> HIDE DEF v, stop
  <2>5. from[0] = v[j]
    BY <1>3, <2>2, <2>3, ScanUpValue
  <2> QED
    BY <1>4, <1>9, <2>1, <2>4, <2>5 DEF Told
<1> QED
  BY <1>8, <1>9

(***************************************************************************)
(* SeesBytes, for every content of the memory: the searches find the first *)
(* or the last place there is, and the comparisons tell by the first place *)
(* that differs.                                                           *)
(***************************************************************************)
LEMMA ByteIsFound ==
  ASSUME mem \in Memories, NEW p \in StringPtrs, NEW c \in Bytes
  PROVE  FindsByte(p, c)
<1>1. p \in Addr /\ Ends(mem, p)
  BY StringPtr
<1>2. ft_strchr(mem, p, c) = LeastOf(Seen(mem, p, c))
  BY <1>1, StrchrFinds
<1>3. ft_strrchr(mem, p, c) = GreatestOf(Seen(mem, p, c))
  BY <1>1, StrrchrFinds
<1>4. ft_isinstr(mem, c, p) <=> Seen(mem, p, c) \ {p + ft_strlen(mem, p)} # {}
  BY <1>1, IsinstrFinds
<1>5. ft_strchr_len(mem, p, c) =
        IF Seen(mem, p, c) \ {p + ft_strlen(mem, p)} = {} THEN 0 ELSE Min(Seen(mem, p, c)) - p
  BY <1>1, StrchrLenFinds
<1>6. \A n \in 0 .. Size - p : ft_memchr(mem, p, c, n) = LeastOf({i \in p .. p + n - 1 : mem[i] = c})
  BY <1>1, MemchrFinds
<1> QED
  BY ONLY <1>2, <1>3, <1>4, <1>5, <1>6 DEF FindsByte, Seen

LEMMA BytesAreCompared ==
  ASSUME mem \in Memories, NEW p \in StringPtrs, NEW q \in StringPtrs, NEW n \in 0 .. Size
  PROVE  ComparesBytes(p, q, n)
<1>1. p \in Addr /\ Ends(mem, p) /\ q \in Addr /\ Ends(mem, q) /\ n \in Nat
  BY StringPtr
<1>2. PICK shorter : shorter = IF ft_strlen(mem, p) <= ft_strlen(mem, q) THEN ft_strlen(mem, p) ELSE ft_strlen(mem, q)
  OBVIOUS
<1>3. PICK top : top = IF n <= shorter + 1 THEN n ELSE shorter + 1
  OBVIOUS
<1>4. ft_strlen(mem, p) \in Int /\ ft_strlen(mem, q) \in Int
  BY <1>1, StrlenIsFirst DEF Addr
<1>5. Min({ft_strlen(mem, p), ft_strlen(mem, q)}) = shorter
  BY <1>2, <1>4, MinOfTwo
<1>6. Min({n, shorter + 1}) = top
  <2>1. n \in Int /\ shorter + 1 \in Int
    BY <1>2, <1>4
  <2> QED
    BY <1>3, <2>1, MinOfTwo
<1>7. ft_strncmp(mem, p, q, n) = Told(mem, p, q, Differ(mem, p, q, top))
  BY <1>1, <1>2, <1>3, StrncmpTells
<1>8. ft_memcmp(mem, p, q, n) = Told(mem, p, q, Differ(mem, p, q, n))
  BY <1>1, MemcmpTells
<1> QED
  BY ONLY <1>5, <1>6, <1>7, <1>8 DEF ComparesBytes, Told, Differ

\* SeesBytes: what the searches and the comparisons make of bytes above
\* CHAR_MAX, for every memory, string and length.
THEOREM BytesAreSeen == Spec => []SeesBytes
<1>1. mem \in Memories => SeesBytes
  BY ByteIsFound, BytesAreCompared DEF SeesBytes
<1> QED
  BY <1>1, MemoryCorrect, PTL


-----------------------------------------------------------------------------
(***************************************************************************)
(* Parts of a string.                                                      *)
(***************************************************************************)
LEMMA Part ==
  ASSUME NEW s \in Texts, NEW a \in Nat \ {0}, NEW b \in Int, b <= Len(s)
  PROVE  /\ SubSeq(s, a, b) \in Texts
         /\ Len(SubSeq(s, a, b)) = IF a <= b THEN b - a + 1 ELSE 0
         /\ \A i \in 1 .. b - a + 1 : SubSeq(s, a, b)[i] = s[a + i - 1]
<1>1. Len(s) \in Nat /\ \A i \in a .. b : s[i] \in Bytes \ {0}
  BY TextFacts
<1> QED
  BY <1>1, SubSeqProperties, SMTT(30) DEF Texts

LEMMA SameText ==
  ASSUME NEW s \in Texts, NEW t \in Texts, Len(s) = Len(t), \A i \in 1 .. Len(s) : s[i] = t[i]
  PROVE  s = t
  BY SeqEqual DEF Texts

\* Cutting a string in two loses nothing.
LEMMA CutInTwo ==
  ASSUME NEW s \in Texts, NEW k \in 0 .. Len(s)
  PROVE  SubSeq(s, 1, k) \o SubSeq(s, k + 1, Len(s)) = s
<1>1. PICK u, v, n, w : u = SubSeq(s, 1, k) /\ v = SubSeq(s, k + 1, Len(s)) /\ n = Len(s) /\ w = u \o v
  OBVIOUS
<1>2. n \in Nat /\ k \in Nat /\ k <= n
  BY <1>1, TextFacts
<1>3. u \in Texts /\ Len(u) = k /\ \A i \in 1 .. k : u[i] = s[i]
  BY <1>1, Prefix
<1>4. v \in Texts /\ Len(v) = n - k /\ \A i \in 1 .. n - k : v[i] = s[k + i]
  <2>1. /\ SubSeq(s, k + 1, n) \in Texts
        /\ Len(SubSeq(s, k + 1, n)) = IF k + 1 <= n THEN n - (k + 1) + 1 ELSE 0
        /\ \A i \in 1 .. n - (k + 1) + 1 : SubSeq(s, k + 1, n)[i] = s[(k + 1) + i - 1]
    <3>1. k + 1 \in Nat \ {0} /\ n \in Int /\ n <= Len(s)
      BY <1>1, <1>2
    <3> QED
      BY <3>1, Part
  <2>2. n - (k + 1) + 1 = n - k /\ \A i \in Int : (k + 1) + i - 1 = k + i
    BY <1>2
  <2> QED
    BY <1>1, <1>2, <2>1, <2>2
<1>5. /\ w \in Texts /\ Len(w) = n
      /\ \A i \in 1 .. n : w[i] = IF i <= k THEN u[i] ELSE v[i - k]
  <2>1. /\ u \o v \in Texts /\ Len(u \o v) = Len(u) + Len(v)
        /\ \A i \in 1 .. Len(u) + Len(v) : (u \o v)[i] = IF i <= Len(u) THEN u[i] ELSE v[i - Len(u)]
    BY <1>3, <1>4, ConcatProperties DEF Texts
  <2>2. Len(u) = k /\ Len(v) = n - k /\ Len(u) + Len(v) = n
    BY <1>2, <1>3, <1>4
  <2> QED
    BY ONLY <1>1, <2>1, <2>2
<1>6. ASSUME NEW i \in 1 .. n PROVE w[i] = s[i]
  <2>1. CASE i <= k
    BY <1>2, <1>3, <1>5, <2>1
  <2>2. CASE ~(i <= k)
    <3>1. i - k \in 1 .. n - k /\ k + (i - k) = i
      BY <1>2, <2>2
    <3> QED
      BY <1>4, <1>5, <2>2, <3>1
  <2> QED
    BY <2>1, <2>2
<1>7. w = s
  BY <1>1, <1>5, <1>6, SameText
<1> QED
  BY <1>1, <1>7

\* The string at a later character is the rest of the string.
LEMMA StrTail ==
  ASSUME NEW m \in Memories, NEW p \in Addr, Ends(m, p), NEW k \in 0 .. Len(Str(m, p))
  PROVE  /\ p + k \in Addr
         /\ Str(m, p + k) = SubSeq(Str(m, p), k + 1, Len(Str(m, p)))
<1>1. PICK s, n : s = Str(m, p) /\ n = Len(s)
  OBVIOUS
<1>2. /\ s \in Texts /\ n = ft_strlen(m, p) /\ n \in 0 .. Size - 1 - p /\ m[p + n] = 0
      /\ \A i \in 1 .. n : s[i] = m[p + i - 1]
  BY <1>1, StrIs, StrlenIsFirst
<1>3. n \in Nat /\ p + n < Size /\ k \in Nat /\ k <= n
  BY <1>1, <1>2 DEF Addr
<1>4. p + k \in Addr
  BY <1>3 DEF Addr
<1>5. PICK q, t : q = p + k /\ t = SubSeq(s, k + 1, n)
  OBVIOUS
<1>6. t \in Texts /\ Len(t) = n - k /\ \A i \in 1 .. n - k : t[i] = s[k + i]
  <2>1. /\ SubSeq(s, k + 1, n) \in Texts
        /\ Len(SubSeq(s, k + 1, n)) = IF k + 1 <= n THEN n - (k + 1) + 1 ELSE 0
        /\ \A i \in 1 .. n - (k + 1) + 1 : SubSeq(s, k + 1, n)[i] = s[(k + 1) + i - 1]
    <3>1. k + 1 \in Nat \ {0} /\ n \in Int /\ n <= Len(s)
      BY <1>1, <1>3
    <3> QED
      BY <1>2, <3>1, Part
  <2>2. n - (k + 1) + 1 = n - k /\ (k + 1 <= n \/ n - k = 0)
    BY <1>3
  <2>3. t \in Texts /\ Len(t) = n - k
    BY ONLY <1>5, <2>1, <2>2
  <2>4. ASSUME NEW i \in 1 .. n - k PROVE t[i] = s[k + i]
    <3>1. SubSeq(s, k + 1, n)[i] = s[(k + 1) + i - 1]
      BY <2>1, <2>2
    <3>2. (k + 1) + i - 1 = k + i
      BY <1>3
    <3> QED
      BY ONLY <1>5, <3>1, <3>2
  <2> QED
    BY <2>3, <2>4
<1>7. q + Len(t) < Size /\ m[q + Len(t)] = 0
  <2>1. q + Len(t) = p + n
    BY <1>3, <1>5, <1>6 DEF Addr
  <2> QED
    BY <1>2, <1>3, <2>1
<1>8. ASSUME NEW i \in 1 .. Len(t) PROVE m[q + i - 1] = t[i]
  <2>1. i \in 1 .. n - k /\ k + i \in 1 .. n /\ p + (k + i) - 1 = q + i - 1
    BY <1>3, <1>5, <1>6 DEF Addr
  <2> QED
    BY <1>2, <1>6, <2>1
<1>9. Str(m, q) = t
  <2>1. q \in Addr /\ t \in Texts
    BY ONLY <1>4, <1>5, <1>6
  <2> QED
    BY ONLY <1>7, <1>8, <2>1, TextAt
<1> QED
  BY <1>1, <1>4, <1>5, <1>9

\* As much of a string as fits: all of it, or its first characters.
LEMMA CopiedIs ==
  ASSUME NEW s \in Texts, NEW size \in Nat \ {0}
  PROVE  /\ Copied(s, size) = SubSeq(s, 1, IF Len(s) <= size - 1 THEN Len(s) ELSE size - 1)
         /\ Len(Copied(s, size)) = IF Len(s) <= size - 1 THEN Len(s) ELSE size - 1
         /\ Len(s) <= size - 1 => Copied(s, size) = s
         /\ Copied(s, size) \in Texts
<1>1. PICK k, n : k = (IF Len(s) <= size - 1 THEN Len(s) ELSE size - 1) /\ n = Len(s)
  OBVIOUS
<1>2. n \in Nat /\ k \in 0 .. n
  BY <1>1, TextFacts
<1>3. Copied(s, size) = SubSeq(s, 1, k)
  <2>1. n \in Int /\ size - 1 \in Int
    BY <1>2
  <2>2. Min({n, size - 1}) = k
    BY <1>1, <2>1, MinOfTwo
  <2> QED
    BY <1>1, <2>2 DEF Copied
<1>4. /\ SubSeq(s, 1, k) \in Texts /\ Len(SubSeq(s, 1, k)) = k
      /\ \A i \in 1 .. k : SubSeq(s, 1, k)[i] = s[i]
  BY <1>1, <1>2, Prefix
<1>5. k = n => SubSeq(s, 1, k) = s
  BY <1>1, <1>4, SameText
<1> QED
  BY <1>1, <1>2, <1>3, <1>4, <1>5

\* The part of s after its first start characters, up to the place e.
LEMMA MiddleIs ==
  ASSUME NEW s \in Texts, NEW start \in Nat, NEW e \in 0 .. Len(s)
  PROVE  /\ SubSeq(s, start + 1, e) \in Texts
         /\ Len(SubSeq(s, start + 1, e)) = IF start <= e THEN e - start ELSE 0
         /\ \A i \in 1 .. e - start : SubSeq(s, start + 1, e)[i] = s[start + i]
<1>1. start + 1 \in Nat \ {0} /\ e \in Int /\ e <= Len(s) /\ e - (start + 1) + 1 = e - start
  BY TextFacts
<1>2. /\ SubSeq(s, start + 1, e) \in Texts
      /\ Len(SubSeq(s, start + 1, e)) = IF start + 1 <= e THEN e - (start + 1) + 1 ELSE 0
      /\ \A i \in 1 .. e - (start + 1) + 1 : SubSeq(s, start + 1, e)[i] = s[(start + 1) + i - 1]
  BY <1>1, Part
<1>3. Len(SubSeq(s, start + 1, e)) = IF start <= e THEN e - start ELSE 0
  BY <1>1, <1>2
<1>4. ASSUME NEW i \in 1 .. e - start PROVE SubSeq(s, start + 1, e)[i] = s[start + i]
  <2>1. (start + 1) + i - 1 = start + i
    BY <1>1
  <2>2. SubSeq(s, start + 1, e)[i] = s[(start + 1) + i - 1]
    BY <1>1, <1>2
  <2> QED
    BY ONLY <2>1, <2>2
<1> QED
  BY <1>2, <1>3, <1>4

\* Copying len characters from a place in the string.
LEMMA CopyOfTail ==
  ASSUME NEW m \in Memories, NEW p \in Addr, Ends(m, p), NEW start \in 0 .. Len(Str(m, p)), NEW len \in Nat
  PROVE  Copied(Str(m, p + start), len + 1)
           = SubSeq(Str(m, p), start + 1,
                    IF Len(Str(m, p)) <= start + len THEN Len(Str(m, p)) ELSE start + len)
<1>1. PICK s, n : s = Str(m, p) /\ n = Len(s)
  OBVIOUS
<1>2. s \in Texts /\ n \in Nat /\ start \in Nat /\ start <= n
  BY <1>1, StrIs, TextFacts
<1>3. PICK e : e = IF n <= start + len THEN n ELSE start + len
  OBVIOUS
<1>4. e \in 0 .. n /\ start <= e
  BY <1>2, <1>3
<1>5. PICK mid : mid = SubSeq(s, start + 1, e)
  OBVIOUS
<1>6. mid \in Texts /\ Len(mid) = e - start /\ \A i \in 1 .. e - start : mid[i] = s[start + i]
  BY <1>1, <1>2, <1>4, <1>5, MiddleIs
<1>7. PICK tail : tail = SubSeq(s, start + 1, n)
  OBVIOUS
<1>8. tail \in Texts /\ Len(tail) = n - start /\ \A i \in 1 .. n - start : tail[i] = s[start + i]
  <2>1. n \in 0 .. Len(s)
    BY <1>1, <1>2
  <2> QED
    BY <1>1, <1>2, <1>7, <2>1, MiddleIs
<1>9. Str(m, p + start) = tail
  BY <1>1, <1>7, StrTail
<1>10. PICK c, k : c = Copied(tail, len + 1) /\ k = IF n - start <= len THEN n - start ELSE len
  OBVIOUS
<1>11. k = e - start /\ k \in 0 .. Len(tail)
  BY <1>2, <1>3, <1>8, <1>10
<1>12. c = SubSeq(tail, 1, k)
  <2>1. len + 1 \in Nat \ {0} /\ (len + 1) - 1 = len
    OBVIOUS
  <2>2. Copied(tail, len + 1) = SubSeq(tail, 1, IF Len(tail) <= (len + 1) - 1 THEN Len(tail) ELSE (len + 1) - 1)
    BY <1>8, <2>1, CopiedIs
  <2> QED
    BY ONLY <1>8, <1>10, <2>1, <2>2
<1>13. c \in Texts /\ Len(c) = k /\ \A i \in 1 .. k : c[i] = tail[i]
  BY <1>8, <1>11, <1>12, Prefix
<1>14. ASSUME NEW i \in 1 .. Len(c) PROVE c[i] = mid[i]
  <2>1. i \in 1 .. k /\ i \in 1 .. e - start /\ i \in 1 .. n - start
    BY <1>2, <1>4, <1>11, <1>13
  <2> QED
    BY <1>6, <1>8, <1>13, <2>1
<1>15. c = mid
  BY <1>6, <1>11, <1>13, <1>14, SameText
<1> QED
  BY ONLY <1>1, <1>3, <1>5, <1>9, <1>10, <1>15

\* What ft_substr gives when its sums do not wrap.
LEMMA SubstrGives ==
  ASSUME NEW m \in Memories, NEW p \in Addr, Ends(m, p), NEW start \in Nat, NEW len \in Nat, start + len < SIZE_MAX
  PROVE  LET s == Str(m, p)
             cut == ft_substr(m, p, start, len)
             part == SubSeq(s, start + 1, IF Len(s) <= start + len THEN Len(s) ELSE start + len)
         IN  /\ cut.text = part /\ cut.asked = start + len + 1
             /\ cut.stored = IF s = << >> THEN 0 ELSE Len(part) + 1
             /\ cut.null <=> s # << >> /\ len # 0 /\ start <= Len(s) /\ part = << >>
<1>1. PICK s, n, e : s = Str(m, p) /\ n = Len(s) /\ e = IF n <= start + len THEN n ELSE start + len
  OBVIOUS
<1>2. s \in Texts /\ n = ft_strlen(m, p) /\ n \in Nat /\ (m[p] = 0 <=> s = << >>)
  <2>1. s \in Texts /\ n = ft_strlen(m, p) /\ n \in Nat /\ (s = << >> <=> n = 0)
    BY <1>1, StrIs, TextFacts
  <2>2. n = 0 => m[p] = 0
    <3>1. m[p + n] = 0
      BY <2>1, StrlenIsFirst
    <3>2. n = 0 => p + n = p
      BY DEF Addr
    <3> QED
      BY <3>1, <3>2
  <2>3. n # 0 => m[p] # 0
    <3>1. \A i \in 0 .. n - 1 : m[p + i] # 0
      BY <2>1, StrlenIsFirst
    <3>2. n # 0 => 0 \in 0 .. n - 1 /\ p + 0 = p
      BY <2>1 DEF Addr
    <3> QED
      BY <3>1, <3>2
  <2> QED
    BY <2>1, <2>2, <2>3
<1>3. e \in 0 .. n
  BY <1>1, <1>2
<1>4. PICK part : part = SubSeq(s, start + 1, e)
  OBVIOUS
<1>5. part \in Texts /\ Len(part) = IF start <= e THEN e - start ELSE 0
  <2>1. e \in 0 .. Len(s)
    BY <1>1, <1>3
  <2>2. /\ SubSeq(s, start + 1, e) \in Texts
        /\ Len(SubSeq(s, start + 1, e)) = IF start <= e THEN e - start ELSE 0
    BY <1>2, <2>1, MiddleIs
  <2> QED
    BY ONLY <1>4, <2>2
<1>6. (start + len + 1) % (SIZE_MAX + 1) = start + len + 1 /\ (len + 1) % (SIZE_MAX + 1) = len + 1
  <2>1. /\ start + len + 1 \in Nat /\ start + len + 1 < SIZE_MAX + 1 /\ SIZE_MAX + 1 \in Nat \ {0}
        /\ len + 1 \in Nat /\ len + 1 < SIZE_MAX + 1
    OBVIOUS
  <2> QED
    BY <2>1, ModSmall
<1>7. PICK dst : dst = IF start > ft_strlen(m, p) THEN << >> ELSE Copied(Str(m, p + start), len + 1)
  OBVIOUS
<1>8. dst = part
  <2>1. CASE start > n
    <3>1. dst = << >> /\ Len(part) = 0
      BY <1>2, <1>3, <1>5, <1>7, <2>1
    <3> QED
      BY <1>5, <3>1, TextFacts
  <2>2. CASE ~(start > n)
    <3>1. start \in 0 .. Len(s)
      BY <1>1, <1>2, <2>2
    <3>2. Copied(Str(m, p + start), len + 1) = part
      BY <1>1, <1>4, <3>1, CopyOfTail
    <3> QED
      BY ONLY <1>2, <1>7, <2>2, <3>2
  <2> QED
    BY <2>1, <2>2
<1>9. PICK cut : cut = ft_substr(m, p, start, len)
  OBVIOUS
<1>10. cut = [asked |-> start + len + 1, stored |-> IF m[p] = 0 \/ len + 1 = 0 THEN 0 ELSE Len(dst) + 1,
              null |-> m[p] # 0 /\ len # 0 /\ start <= ft_strlen(m, p) /\ dst = << >>, text |-> dst]
  BY ONLY <1>6, <1>7, <1>9 DEF ft_substr
<1>11. /\ cut.text = part /\ cut.asked = start + len + 1
       /\ cut.stored = IF s = << >> THEN 0 ELSE Len(part) + 1
  <2>1. len + 1 # 0
    OBVIOUS
  <2> QED
    BY ONLY <1>2, <1>8, <1>10, <2>1
<1>12. cut.null <=> s # << >> /\ len # 0 /\ start <= n /\ part = << >>
  BY ONLY <1>2, <1>8, <1>10
<1> QED
  BY ONLY <1>1, <1>4, <1>9, <1>11, <1>12

\* ft_strjoin is the one text and then the other.
LEMMA JoinIs ==
  ASSUME NEW s \in Texts, NEW t \in Texts
  PROVE  ft_strjoin(s, t) = s \o t
<1>1. /\ Len(s) + 1 \in Nat \ {0} /\ Len(s) <= (Len(s) + 1) - 1
      /\ Len(t) + 1 \in Nat \ {0} /\ Len(t) <= (Len(t) + 1) - 1
  BY TextFacts
<1>2. Copied(s, Len(s) + 1) = s /\ Copied(t, Len(t) + 1) = t
  BY <1>1, CopiedIs
<1> QED
  BY ONLY <1>2 DEF ft_strjoin

LEMMA MiddleOf ==
  ASSUME mem \in Memories, NEW p \in StringPtrs, NEW start \in 0 .. Size, NEW len \in Lengths,
         start + len < SIZE_MAX
  PROVE  LET s == Str(mem, p) cut == ft_substr(mem, p, start, len)
         IN  /\ start <= Len(s) => cut.stored <= cut.asked
             /\ cut.null <=> s # << >> /\ start = Len(s) /\ len > 0
             /\ cut.text = SubSeq(s, start + 1, Min({Len(s), start + len}))
             /\ ~cut.null /\ start + len >= Len(s) =>
                  ft_strjoin(ft_strndup(mem, p, start), cut.text) = s
<1>1. p \in Addr /\ Ends(mem, p) /\ start \in Nat /\ len \in Nat
  BY StringPtr
<1>2. PICK s, n, e : s = Str(mem, p) /\ n = Len(s) /\ e = IF n <= start + len THEN n ELSE start + len
  OBVIOUS
<1>3. s \in Texts /\ n = ft_strlen(mem, p) /\ n \in Nat /\ (s = << >> <=> n = 0)
  BY <1>1, <1>2, StrIs, TextFacts
<1>4. e \in 0 .. n /\ Min({n, start + len}) = e
  <2>1. n \in Int /\ start + len \in Int
    BY <1>1, <1>3
  <2> QED
    BY <1>1, <1>2, <1>3, <2>1, MinOfTwo
<1>5. PICK part : part = SubSeq(s, start + 1, e)
  OBVIOUS
<1>6. part \in Texts /\ Len(part) = (IF start <= e THEN e - start ELSE 0) /\ (part = << >> <=> Len(part) = 0)
  <2>1. e \in 0 .. Len(s)
    BY <1>2, <1>4
  <2>2. /\ SubSeq(s, start + 1, e) \in Texts
        /\ Len(SubSeq(s, start + 1, e)) = IF start <= e THEN e - start ELSE 0
    BY <1>1, <1>3, <2>1, MiddleIs
  <2>3. part \in Texts /\ Len(part) = IF start <= e THEN e - start ELSE 0
    BY ONLY <1>5, <2>2
  <2> QED
    BY <2>3, TextFacts
<1>7. PICK cut : cut = ft_substr(mem, p, start, len)
  OBVIOUS
<1>8. /\ cut.text = part /\ cut.asked = start + len + 1
      /\ cut.stored = IF s = << >> THEN 0 ELSE Len(part) + 1
      /\ cut.null <=> s # << >> /\ len # 0 /\ start <= n /\ part = << >>
  <2>1. LET whole == Str(mem, p)
            piece == ft_substr(mem, p, start, len)
            middle == SubSeq(whole, start + 1, IF Len(whole) <= start + len THEN Len(whole) ELSE start + len)
        IN  /\ piece.text = middle /\ piece.asked = start + len + 1
            /\ piece.stored = IF whole = << >> THEN 0 ELSE Len(middle) + 1
            /\ piece.null <=> whole # << >> /\ len # 0 /\ start <= Len(whole) /\ middle = << >>
    BY <1>1, SubstrGives
  <2> QED
    BY ONLY <1>2, <1>5, <1>7, <2>1
<1>9. start <= n => cut.stored <= cut.asked
  BY <1>1, <1>2, <1>3, <1>4, <1>6, <1>8
<1>10. cut.null <=> s # << >> /\ start = n /\ len > 0
  BY ONLY <1>1, <1>2, <1>3, <1>4, <1>6, <1>8
<1>11. ASSUME start + len >= n PROVE ft_strjoin(ft_strndup(mem, p, start), part) = s
  <2>1. PICK k : k = IF n <= start THEN n ELSE start
    OBVIOUS
  <2>2. k \in 0 .. n /\ e = n
    BY <1>1, <1>2, <1>3, <1>11, <2>1
  <2>3. ft_strndup(mem, p, start) = SubSeq(s, 1, k)
    <3>1. Min({n, start}) = k
      <4>1. n \in Int /\ start \in Int
        BY <1>1, <1>3
      <4> QED
        BY <2>1, <4>1, MinOfTwo
    <3> QED
      BY ONLY <1>2, <1>3, <3>1 DEF ft_strndup
  <2>4. SubSeq(s, 1, k) \in Texts
    BY <1>2, <1>3, <2>2, Prefix
  <2>5. SubSeq(s, k + 1, n) = part
    <3>1. CASE start <= n
      <4>1. k = start
        BY <1>1, <1>3, <2>1, <3>1
      <4> QED
        BY ONLY <1>5, <2>2, <4>1
    <3>2. CASE ~(start <= n)
      <4>1. k = n /\ Len(part) = 0
        BY <1>1, <1>3, <1>6, <2>1, <2>2, <3>2
      <4>2. SubSeq(s, n + 1, n) \in Texts /\ Len(SubSeq(s, n + 1, n)) = 0
        <5>1. n \in 0 .. Len(s)
          BY <1>2, <1>3
        <5> QED
          BY <1>3, <5>1, MiddleIs
      <4>3. part = << >> /\ SubSeq(s, n + 1, n) = << >>
        BY <1>6, <4>1, <4>2, TextFacts
      <4> QED
        BY ONLY <4>1, <4>3
    <3> QED
      BY <3>1, <3>2
  <2>6. ft_strjoin(SubSeq(s, 1, k), part) = SubSeq(s, 1, k) \o part
    BY <1>6, <2>4, JoinIs
  <2>7. SubSeq(s, 1, k) \o SubSeq(s, k + 1, n) = s
    <3>1. k \in 0 .. Len(s)
      BY <1>2, <2>2
    <3>2. SubSeq(s, 1, k) \o SubSeq(s, k + 1, Len(s)) = s
      BY <1>3, <3>1, CutInTwo
    <3> QED
      BY ONLY <1>2, <3>2
  <2> QED
    BY ONLY <2>3, <2>5, <2>6, <2>7
<1> QED
  BY ONLY <1>2, <1>4, <1>5, <1>7, <1>8, <1>9, <1>10, <1>11

(***************************************************************************)
(* SubstrIsMiddle, for every content of the memory, every start and every  *)
(* length whose sum with it is a size_t: ft_substr's block has room for    *)
(* the copy, the copy is the len characters from start or what there is of *)
(* them, and ft_strjoin puts it back behind what ft_strndup took.          *)
(***************************************************************************)
THEOREM MiddlesAreCut == Spec => []SubstrIsMiddle
<1>1. mem \in Memories => SubstrIsMiddle
  BY MiddleOf DEF SubstrIsMiddle
<1> QED
  BY <1>1, MemoryCorrect, PTL

-----------------------------------------------------------------------------
(***************************************************************************)
(* ft_strtrim.                                                             *)
(***************************************************************************)
\* The characters of a string that are not of the set.
Kept(s, set) == {i \in 1 .. Len(s) : s[i] \notin set}

LEMMA KeptFacts ==
  ASSUME NEW s \in Texts, NEW set, Kept(s, set) # {}
  PROVE  /\ Min(Kept(s, set)) \in Kept(s, set) /\ \A i \in Kept(s, set) : Min(Kept(s, set)) <= i
         /\ Max(Kept(s, set)) \in Kept(s, set) /\ \A i \in Kept(s, set) : i <= Max(Kept(s, set))
<1>1. PICK kept : kept = Kept(s, set)
  OBVIOUS
<1>2. /\ kept \in SUBSET Nat /\ kept \in SUBSET Int /\ kept # {}
      /\ Len(s) \in Int /\ \A i \in kept : i <= Len(s)
  <2>1. \A i \in 1 .. Len(s) : i \in Nat /\ i \in Int /\ i <= Len(s)
    BY TextFacts
  <2> QED
    BY <1>1, <2>1, TextFacts DEF Kept
<1> QED
  BY <1>1, <1>2, LeastNat, GreatestInt

\* Where the scan from the front ends.
LEMMA TrimFront ==
  ASSUME NEW m \in Memories, NEW p \in Addr, Ends(m, p), NEW set \in Sets, NEW f,
         f = [i \in Nat |-> IF m[p + i] \in set THEN f[i + 1] ELSE i]
  PROVE  f[0] = IF Kept(Str(m, p), set) = {} THEN ft_strlen(m, p) ELSE Min(Kept(Str(m, p), set)) - 1
<1> DEFINE stop == {i \in Nat : m[p + i] \notin set}
           v == [i \in Nat |-> i]
<1>1. ScansUp(f, stop, v)
  BY DEF ScansUp
<1>2. PICK s, l, kept : s = Str(m, p) /\ l = ft_strlen(m, p) /\ kept = Kept(s, set)
  OBVIOUS
<1>3. /\ s \in Texts /\ l \in Nat /\ l = Len(s) /\ m[p + l] = 0 /\ 0 \notin set
      /\ \A i \in 1 .. l : s[i] = m[p + i - 1]
  BY <1>2, StrIs, StrlenIsFirst DEF Addr, Sets
<1>4. \A i \in 0 .. l - 1 : i \in stop <=> i + 1 \in kept
  <2>1. ASSUME NEW i \in 0 .. l - 1 PROVE i \in stop <=> i + 1 \in kept
    <3>1. i \in Nat /\ i + 1 \in 1 .. l /\ p + (i + 1) - 1 = p + i
      <4>1. p \in Nat /\ l \in Nat
        BY <1>3 DEF Addr
      <4> QED
        BY ONLY <4>1, i \in 0 .. l - 1
    <3>2. s[i + 1] = m[p + i]
      BY <1>3, <3>1
    <3> QED
      BY <1>2, <1>3, <3>1, <3>2 DEF Kept
  <2> QED
    BY <2>1
<1>5. CASE kept = {}
  <2>1. l \in stop /\ 0 <= l /\ \A k \in 0 .. l - 1 : k \notin stop
    BY <1>3, <1>4, <1>5
  <2>2. v[l] = l /\ l \in Nat /\ 0 \in Nat
    BY <1>3
  <2> HIDE DEF stop, v
  <2>3. f[0] = v[l]
    BY ONLY <1>1, <2>1, <2>2, ScanUpValue
  <2> QED
    BY ONLY <1>2, <1>5, <2>2, <2>3
<1>6. CASE kept # {}
  <2>1. PICK j : j = Min(kept) - 1
    OBVIOUS
  <2>2. Min(kept) \in kept /\ \A i \in kept : Min(kept) <= i
    BY <1>2, <1>3, <1>6, KeptFacts
  <2>3. j \in 0 .. l - 1 /\ j + 1 = Min(kept)
    <3>1. Min(kept) \in 1 .. l
      BY <1>2, <1>3, <2>2 DEF Kept
    <3> QED
      BY <1>3, <2>1, <3>1
  <2>4. j \in Nat /\ j \in stop /\ 0 <= j
    BY <1>4, <2>2, <2>3
  <2>5. ASSUME NEW k \in 0 .. j - 1 PROVE k \notin stop
    <3>1. k \in 0 .. l - 1 /\ ~(j + 1 <= k + 1)
      BY <1>3, <2>3
    <3> QED
      BY <1>4, <2>2, <2>3, <3>1
  <2>6. v[j] = j
    BY <2>4
  <2> HIDE DEF stop, v
  <2>7. f[0] = v[j]
    BY <1>1, <2>4, <2>5, ScanUpValue
  <2> QED
    BY ONLY <1>2, <1>6, <2>1, <2>6, <2>7
<1> QED
  BY <1>5, <1>6

\* Where the scan from the end ends: before the string if all of it goes.
LEMMA TrimBack ==
  ASSUME NEW m \in Memories, NEW p \in Addr, Ends(m, p), NEW set \in Sets, NEW f,
         f = [i \in Int |-> IF p + i < 0 THEN Below - p ELSE IF m[p + i] \in set THEN f[i - 1] ELSE i]
  PROVE  LET last == f[ft_strlen(m, p) - 1]
         IN  IF Kept(Str(m, p), set) = {} THEN last \in Int /\ last < 0
             ELSE last = Max(Kept(Str(m, p), set)) - 1
<1> DEFINE stop == {i \in Int : p + i < 0 \/ m[p + i] \notin set}
           v == [i \in Int |-> IF p + i < 0 THEN Below - p ELSE i]
<1>1. ScansDown(f, stop, v)
  BY DEF ScansDown
<1>2. /\ stop \in SUBSET Int
      /\ \A i \in Int : /\ i \in stop <=> p + i < 0 \/ m[p + i] \notin set
                        /\ v[i] = IF p + i < 0 THEN Below - p ELSE i
  OBVIOUS
<1> HIDE DEF stop, v
<1>3. PICK s, l, kept : s = Str(m, p) /\ l = ft_strlen(m, p) /\ kept = Kept(s, set)
  OBVIOUS
<1>4. /\ s \in Texts /\ l \in Nat /\ l = Len(s) /\ p \in Nat
      /\ \A i \in 1 .. l : s[i] = m[p + i - 1]
  <2>1. s \in Texts /\ l = Len(s) /\ \A i \in 1 .. l : s[i] = m[p + i - 1]
    BY <1>3, StrIs
  <2>2. l \in Nat
    BY <2>1, TextFacts
  <2>3. p \in Nat
    BY DEF Addr
  <2> QED
    BY <2>1, <2>2, <2>3
<1>5. \A i \in 0 .. l - 1 : i \in stop <=> i + 1 \in kept
  <2>1. ASSUME NEW i \in 0 .. l - 1 PROVE i \in stop <=> i + 1 \in kept
    <3>1. i \in Int /\ i + 1 \in 1 .. l /\ p + (i + 1) - 1 = p + i /\ ~(p + i < 0)
      <4>1. l \in Nat /\ p \in Nat
        BY ONLY <1>4
      <4> QED
        BY ONLY <2>1, <4>1
    <3>2. s[i + 1] = m[p + i]
      BY ONLY <1>4, <3>1
    <3> QED
      BY <1>2, <1>3, <1>4, <3>1, <3>2 DEF Kept
  <2> QED
    BY <2>1
<1>6. PICK top : top = l - 1
  OBVIOUS
<1>7. top \in Int /\ top < l /\ \A i \in Int : 0 <= i /\ i <= top <=> i \in 0 .. l - 1
  <2>1. l \in Nat
    BY ONLY <1>4
  <2> QED
    BY ONLY <1>6, <2>1
<1>8. CASE kept = {}
  <2> DEFINE T == {i \in stop : i <= top}
  <2>1. T \in SUBSET Int /\ T # {} /\ \A i \in T : i <= top
    <3>1. -1 - p \in Int /\ p + (-1 - p) < 0 /\ -1 - p <= top
      <4>1. l \in Nat /\ p \in Nat
        BY ONLY <1>4
      <4> QED
        BY ONLY <1>6, <4>1
    <3>2. -1 - p \in T
      BY <1>2, <3>1
    <3> QED
      BY <1>2, <3>2
  <2>2. PICK j : j \in T /\ \A i \in T : i <= j
    <3> HIDE DEF T
    <3> QED
      BY <1>7, <2>1, GreatestInt
  <2>3. j \in Int /\ j \in stop /\ j <= top
    BY <1>2, <2>2
  <2>4. \A k \in j + 1 .. top : k \notin stop
    <3>1. ASSUME NEW k \in j + 1 .. top, k \in stop PROVE FALSE
      <4>1. k \in T /\ ~(k <= j)
        BY <1>7, <2>3, <3>1
      <4> QED
        BY <2>2, <4>1
    <3> QED
      BY <3>1
  <2>5. j < 0
    <3>1. j \notin 0 .. l - 1
      BY <1>5, <1>8, <2>3
    <3> QED
      BY <1>7, <2>3, <3>1
  <2>6. v[j] \in Int /\ v[j] < 0
    <3>1. v[j] = IF p + j < 0 THEN Below - p ELSE j
      BY <1>2, <2>3
    <3> QED
      BY <1>4, <2>3, <2>5, <3>1 DEF Below
  <2> HIDE DEF T
  <2>7. f[top] = v[j]
    <3>1. top \in Int /\ j \in Int /\ j \in stop /\ j <= top
      BY ONLY <1>7, <2>3
    <3> QED
      BY ONLY <1>1, <3>1, <2>4, ScanDownValue
  <2> QED
    BY ONLY <1>3, <1>6, <1>8, <2>6, <2>7
<1>9. CASE kept # {}
  <2>1. PICK b, j : b = Max(kept) /\ j = b - 1
    OBVIOUS
  <2>2. b \in kept /\ \A i \in kept : i <= b
    BY <1>3, <1>4, <1>9, <2>1, KeptFacts
  <2>3. j \in 0 .. l - 1 /\ j + 1 = b
    <3>1. b \in 1 .. l
      BY <1>3, <1>4, <2>2 DEF Kept
    <3>2. j = b - 1
      BY <2>1
    <3> QED
      BY ONLY <1>4, <3>1, <3>2
  <2>4. j \in Int /\ j \in stop /\ j <= top /\ 0 <= j
    <3>1. j \in stop
      BY <1>5, <2>2, <2>3
    <3> QED
      BY <1>7, <2>3, <3>1
  <2>5. ASSUME NEW k \in j + 1 .. top PROVE k \notin stop
    <3>1. k \in 0 .. l - 1 /\ ~(k + 1 <= j + 1)
      BY <1>7, <2>4
    <3> QED
      BY <1>5, <2>2, <2>3, <3>1
  <2>6. v[j] = j
    <3>1. v[j] = IF p + j < 0 THEN Below - p ELSE j
      BY ONLY <1>2, <2>4
    <3>2. ~(p + j < 0)
      BY ONLY <1>4, <2>4
    <3> QED
      BY ONLY <3>1, <3>2
  <2>7. f[top] = v[j]
    <3>1. top \in Int /\ j \in Int /\ j \in stop /\ j <= top /\ \A k \in j + 1 .. top : k \notin stop
      BY ONLY <1>7, <2>4, <2>5
    <3> QED
      BY ONLY <1>1, <3>1, ScanDownValue
  <2>8. j = Max(kept) - 1
    BY <2>1
  <2> QED
    BY ONLY <1>3, <1>6, <1>9, <2>6, <2>7, <2>8
<1> QED
  BY <1>8, <1>9

\* The two scans, and what ft_strtrim returns of them.
LEMMA TrimGives ==
  ASSUME NEW m \in Memories, NEW p \in Addr, Ends(m, p), NEW set \in Sets
  PROVE  LET s == Str(m, p) kept == Kept(s, set) trimmed == ft_strtrim(m, p, set)
         IN  IF kept = {} THEN trimmed.ret = << >>
             ELSE trimmed.len2 >= 0 /\ trimmed.ret = SubSeq(s, Min(kept), Max(kept))
<1> DEFINE IsUp(f) == f = [i \in Nat |-> IF m[p + i] \in set THEN f[i + 1] ELSE i]
           up == CHOOSE f : IsUp(f)
           IsDown(f) == f = [i \in Int |-> IF p + i < 0 THEN Below - p
                                           ELSE IF m[p + i] \in set THEN f[i - 1] ELSE i]
           down == CHOOSE f : IsDown(f)
<1>1. IsUp(up)
  <2> DEFINE stop == {i \in Nat : m[p + i] \notin set}
             v == [i \in Nat |-> i]
  <2>1. \A f : ScansUp(f, stop, v) <=> IsUp(f)
    BY DEF ScansUp
  <2>2. \E f : ScansUp(f, stop, v)
    <3>1. stop \in SUBSET Nat
      OBVIOUS
    <3> HIDE DEF stop, v
    <3> QED
      BY <3>1, ScanUpExists
  <2> QED
    BY <2>1, <2>2
<1>2. IsDown(down)
  <2> DEFINE stop == {i \in Int : p + i < 0 \/ m[p + i] \notin set}
             v == [i \in Int |-> IF p + i < 0 THEN Below - p ELSE i]
  <2>1. \A f : ScansDown(f, stop, v) <=> IsDown(f)
    BY DEF ScansDown
  <2>2. \E f : ScansDown(f, stop, v)
    <3>1. stop \in SUBSET Int /\ -p \in Int /\ \A i \in Int : i < -p => i \in stop
      BY DEF Addr
    <3> HIDE DEF stop, v
    <3> QED
      BY <3>1, ScanDownExists
  <2> QED
    BY <2>1, <2>2
<1>3. PICK s, l, kept, trimmed : s = Str(m, p) /\ l = ft_strlen(m, p) /\ kept = Kept(s, set)
                                 /\ trimmed = ft_strtrim(m, p, set)
  OBVIOUS
<1>4. PICK first, last : first = up[0] /\ last = down[l - 1]
  OBVIOUS
<1>5. trimmed = [len2 |-> last, ret |-> IF last < first THEN << >> ELSE SubSeq(s, first + 1, last + 1)]
  BY <1>3, <1>4 DEF ft_strtrim
<1> HIDE DEF up, down
<1>6. first = IF kept = {} THEN l ELSE Min(kept) - 1
  BY <1>1, <1>3, <1>4, TrimFront
<1>7. IF kept = {} THEN last \in Int /\ last < 0 ELSE last = Max(kept) - 1
  BY <1>2, <1>3, <1>4, TrimBack
<1>8. s \in Texts /\ l \in Nat /\ l = Len(s)
  BY <1>3, StrIs, TextFacts
<1>9. CASE kept = {}
  BY <1>3, <1>5, <1>6, <1>7, <1>8, <1>9
<1>10. CASE kept # {}
  <2>1. PICK a, b : a = Min(kept) /\ b = Max(kept)
    OBVIOUS
  <2>2. a \in Int /\ b \in Int /\ 1 <= a /\ a <= b
    <3>1. a \in kept /\ b \in kept /\ a <= b
      BY <1>3, <1>8, <1>10, <2>1, KeptFacts
    <3> QED
      BY <1>3, <1>8, <3>1 DEF Kept
  <2>3. first = a - 1 /\ last = b - 1
    BY ONLY <1>6, <1>7, <1>10, <2>1
  <2>4. first + 1 = a /\ last + 1 = b /\ ~(last < first) /\ last >= 0
    BY ONLY <2>2, <2>3
  <2>5. trimmed.len2 >= 0 /\ trimmed.ret = SubSeq(s, a, b)
    BY ONLY <1>5, <2>4
  <2> QED
    BY ONLY <1>3, <1>10, <2>1, <2>5
<1> QED
  BY <1>9, <1>10

(***************************************************************************)
(* TrimsBothEnds, for every content of the memory and every set: ft_strtrim *)
(* cuts off what belongs to the set at both ends and no more, and its scan *)
(* from the end leaves the string only when nothing of it is to be kept.   *)
(***************************************************************************)
THEOREM BothEndsAreTrimmed == Spec => []TrimsBothEnds
<1>1. ASSUME mem \in Memories, NEW p \in StringPtrs, NEW set \in Sets
      PROVE  LET s == Str(mem, p) trimmed == ft_strtrim(mem, p, set)
                 kept == {i \in 1 .. Len(s) : s[i] \notin set}
             IN  IF kept = {} THEN trimmed.ret = << >>
                 ELSE trimmed.len2 >= 0 /\ trimmed.ret = SubSeq(s, Min(kept), Max(kept))
  <2>1. p \in Addr /\ Ends(mem, p)
    BY StringPtr
  <2> QED
    BY <1>1, <2>1, TrimGives DEF Kept
<1>2. mem \in Memories => TrimsBothEnds
  BY <1>1 DEF TrimsBothEnds
<1> QED
  BY <1>2, MemoryCorrect, PTL

-----------------------------------------------------------------------------
(***************************************************************************)
(* A loop that looks at one place after the other and appends what it      *)
(* takes from some of them has in the end as many elements as there are    *)
(* such places.                                                            *)
(***************************************************************************)
Collects(f, W, e) ==
  f = [i \in Nat |-> IF i = 0 THEN << >>
                     ELSE IF i \in W THEN Append(f[i - 1], e[i]) ELSE f[i - 1]]
Rank(W, k) == Cardinality({i \in 1 .. k : i \in W})

LEMMA RankStep ==
  ASSUME NEW W, NEW k \in Nat
  PROVE  /\ Rank(W, 0) = 0 /\ Rank(W, k) \in Nat
         /\ Rank(W, k + 1) = IF k + 1 \in W THEN Rank(W, k) + 1 ELSE Rank(W, k)
<1> DEFINE before == {i \in 1 .. k : i \in W}
<1>1. IsFiniteSet(before) /\ Cardinality(before) \in Nat
  <2>1. IsFiniteSet(1 .. k)
    BY FS_Interval
  <2>2. IsFiniteSet(before)
    BY <2>1, FS_Subset
  <2> QED
    BY <2>2, FS_CardinalityType
<1>2. {i \in 1 .. 0 : i \in W} = {}
  OBVIOUS
<1>3. {i \in 1 .. k + 1 : i \in W} = IF k + 1 \in W THEN before \cup {k + 1} ELSE before
  <2>1. \A i : i \in 1 .. k + 1 <=> i \in 1 .. k \/ i = k + 1
    OBVIOUS
  <2> QED
    BY <2>1
<1>4. k + 1 \notin before
  OBVIOUS
<1>5. Cardinality(before \cup {k + 1}) = Cardinality(before) + 1
  BY <1>1, <1>4, FS_AddElement
<1> HIDE DEF before
<1>6. Rank(W, k + 1) = IF k + 1 \in W THEN Cardinality(before) + 1 ELSE Cardinality(before)
  BY ONLY <1>3, <1>5 DEF Rank
<1>7. Rank(W, 0) = 0
  BY <1>2, FS_EmptySet DEF Rank
<1>8. Rank(W, k) = Cardinality(before)
  BY DEF Rank, before
<1> QED
  BY ONLY <1>1, <1>6, <1>7, <1>8

LEMMA RankGrows ==
  ASSUME NEW W, NEW i \in Nat, NEW k \in Nat, i <= k
  PROVE  Rank(W, i) <= Rank(W, k)
<1> DEFINE S == {n \in Nat : Rank(W, i) <= Rank(W, i + n)}
<1>1. 0 \in S
  BY RankStep
<1>2. ASSUME NEW n \in S PROVE n + 1 \in S
  <2>1. i + n \in Nat /\ i + (n + 1) = (i + n) + 1
    OBVIOUS
  <2>2. Rank(W, i + n) \in Nat /\ Rank(W, (i + n) + 1) >= Rank(W, i + n) /\ Rank(W, (i + n) + 1) \in Nat
    BY <2>1, RankStep
  <2>3. Rank(W, i) \in Nat
    BY RankStep
  <2> QED
    BY <2>1, <2>2, <2>3
<1>3. k - i \in S
  <2>1. S \in SUBSET Nat /\ k - i \in Nat
    OBVIOUS
  <2> HIDE DEF S
  <2> QED
    BY <1>1, <1>2, <2>1, NatSet
<1> QED
  BY <1>3

LEMMA CollectExists ==
  ASSUME NEW T, NEW W, NEW e, \A i \in Nat \ {0} : e[i] \in T
  PROVE  \E f : Collects(f, W, e)
<1> DEFINE having(j) == {i \in Nat \ {0} : Rank(W, i) = j}
           taken(j) == IF having(j) = {} THEN e[1] ELSE e[Min(having(j))]
           f == [k \in Nat |-> [j \in 1 .. Rank(W, k) |-> taken(j)]]
<1>1. \A j : taken(j) \in T
  <2>1. ASSUME NEW j, having(j) # {} PROVE Min(having(j)) \in Nat \ {0}
    <3>1. having(j) \in SUBSET Nat /\ \A i \in having(j) : i # 0
      OBVIOUS
    <3> HIDE DEF having
    <3> QED
      BY <2>1, <3>1, LeastNat
  <2> HIDE DEF having
  <2> QED
    BY <2>1
<1>2. \A k \in Nat : f[k] \in Seq(T) /\ Len(f[k]) = Rank(W, k) /\ \A j \in 1 .. Rank(W, k) : f[k][j] = taken(j)
  <2> HIDE DEF taken
  <2>1. ASSUME NEW k \in Nat PROVE f[k] \in Seq(T) /\ Len(f[k]) = Rank(W, k)
                                   /\ \A j \in 1 .. Rank(W, k) : f[k][j] = taken(j)
    <3>1. PICK r : r = Rank(W, k)
      OBVIOUS
    <3>2. r \in Nat
      BY <3>1, RankStep
    <3>3. PICK g : g = [j \in 1 .. r |-> taken(j)]
      OBVIOUS
    <3>4. g \in [1 .. r -> T]
      BY <1>1, <3>3
    <3>5. g \in Seq(T) /\ Len(g) = r
      BY <3>2, <3>4, FcnIsSeq
    <3>6. f[k] = g
      BY <3>1, <3>3
    <3> HIDE DEF f
    <3> QED
      BY <3>1, <3>3, <3>5, <3>6
  <2> QED
    BY <2>1
<1>3. f[0] = << >>
  <2>1. f[0] \in Seq(T) /\ Len(f[0]) = 0
    <3> HIDE DEF f
    <3> QED
      BY <1>2, RankStep
  <2> HIDE DEF f
  <2> QED
    BY <2>1, EmptySeq
<1>4. ASSUME NEW k \in Nat, k # 0 PROVE f[k] = IF k \in W THEN Append(f[k - 1], e[k]) ELSE f[k - 1]
  <2>1. PICK r, a : r = Rank(W, k - 1) /\ a = f[k - 1]
    OBVIOUS
  <2>2. PICK b : b = f[k]
    OBVIOUS
  <2>3. k - 1 \in Nat /\ (k - 1) + 1 = k
    BY <1>4
  <2>4. r \in Nat /\ Rank(W, k) = IF k \in W THEN r + 1 ELSE r
    <3>1. /\ Rank(W, k - 1) \in Nat
          /\ Rank(W, (k - 1) + 1) = IF (k - 1) + 1 \in W THEN Rank(W, k - 1) + 1 ELSE Rank(W, k - 1)
      BY <2>3, RankStep
    <3> QED
      BY ONLY <2>1, <2>3, <3>1
  <2>5. a \in Seq(T) /\ Len(a) = r /\ \A j \in 1 .. r : a[j] = taken(j)
    <3> HIDE DEF f, taken
    <3> QED
      BY <1>2, <2>1, <2>3
  <2>6. b \in Seq(T) /\ Len(b) = Rank(W, k) /\ \A j \in 1 .. Rank(W, k) : b[j] = taken(j)
    <3> HIDE DEF f, taken
    <3> QED
      BY <1>2, <2>2
  <2>7. CASE k \notin W
    <3> HIDE DEF f, taken
    <3>1. a = b
      BY <2>4, <2>5, <2>6, <2>7, SeqEqual
    <3> QED
      BY ONLY <2>1, <2>2, <2>7, <3>1
  <2>8. CASE k \in W
    <3>1. taken(r + 1) = e[k]
      <4>1. k \in having(r + 1)
        BY <1>4, <2>4, <2>8
      <4>2. ASSUME NEW i \in having(r + 1) PROVE k <= i
        <5>1. i \in Nat /\ Rank(W, i) = r + 1
          BY <4>2
        <5>2. i <= k - 1 => Rank(W, i) <= r
          BY <2>1, <2>3, <5>1, RankGrows
        <5> QED
          BY <2>3, <2>4, <5>1, <5>2
      <4>3. having(r + 1) \in SUBSET Int
        OBVIOUS
      <4> HIDE DEF having
      <4>4. Min(having(r + 1)) = k
        BY <4>1, <4>2, <4>3, MinIs
      <4> QED
        BY <4>1, <4>4
    <3> HIDE DEF f, taken
    <3>2. e[k] \in T
      BY <1>4
    <3>3. PICK d : d = Append(a, e[k])
      OBVIOUS
    <3>4. d \in Seq(T) /\ Len(d) = r + 1 /\ (\A j \in 1 .. r : d[j] = a[j]) /\ d[r + 1] = e[k]
      BY <2>4, <2>5, <3>2, <3>3, AppendProperties
    <3>5. ASSUME NEW j \in 1 .. r + 1 PROVE b[j] = d[j]
      <4>1. j \in 1 .. r \/ j = r + 1
        BY <2>4
      <4> QED
        BY <2>4, <2>5, <2>6, <2>8, <3>1, <3>4, <4>1
    <3>6. b = d
      BY <2>4, <2>6, <2>8, <3>4, <3>5, SeqEqual
    <3> QED
      BY ONLY <2>1, <2>2, <2>8, <3>3, <3>6
  <2> QED
    BY <2>7, <2>8
<1>5. f = [k \in Nat |-> f[k]]
  OBVIOUS
<1> HIDE DEF f
<1>6. Collects(f, W, e)
  BY <1>3, <1>4, <1>5 DEF Collects
<1> QED
  BY <1>6

LEMMA CollectStep ==
  ASSUME NEW f, NEW W, NEW e, Collects(f, W, e), NEW k \in Nat
  PROVE  f[0] = << >> /\ f[k + 1] = IF k + 1 \in W THEN Append(f[k], e[k + 1]) ELSE f[k]
<1>1. k + 1 \in Nat /\ k + 1 # 0 /\ (k + 1) - 1 = k
  OBVIOUS
<1>2. f[k + 1] = IF k + 1 \in W THEN Append(f[(k + 1) - 1], e[k + 1]) ELSE f[(k + 1) - 1]
  BY <1>1 DEF Collects
<1>3. f[0] = << >>
  BY DEF Collects
<1> QED
  BY ONLY <1>1, <1>2, <1>3

LEMMA CollectLen ==
  ASSUME NEW T, NEW f, NEW W, NEW e, Collects(f, W, e), \A i \in Nat \ {0} : e[i] \in T, NEW k \in Nat
  PROVE  /\ f[k] \in Seq(T) /\ Len(f[k]) = Rank(W, k)
         /\ \A j \in 1 .. Len(f[k]) : \E i \in 1 .. k : i \in W /\ f[k][j] = e[i]
<1> DEFINE S == {n \in Nat : /\ f[n] \in Seq(T) /\ Len(f[n]) = Rank(W, n)
                             /\ \A j \in 1 .. Len(f[n]) : \E i \in 1 .. n : i \in W /\ f[n][j] = e[i]}
<1>1. 0 \in S
  <2>1. f[0] = << >> /\ Rank(W, 0) = 0
    BY CollectStep, RankStep
  <2>2. << >> \in Seq(T) /\ Len(<< >>) = 0 /\ 1 .. 0 = {}
    BY EmptySeq
  <2> QED
    BY <2>1, <2>2
<1>2. ASSUME NEW n \in S PROVE n + 1 \in S
  <2>1. PICK a, b : a = f[n] /\ b = f[n + 1]
    OBVIOUS
  <2>2. /\ n \in Nat /\ a \in Seq(T) /\ Len(a) = Rank(W, n)
        /\ \A j \in 1 .. Len(a) : \E i \in 1 .. n : i \in W /\ a[j] = e[i]
    BY <2>1
  <2>3. b = IF n + 1 \in W THEN Append(a, e[n + 1]) ELSE a
    BY <2>1, CollectStep
  <2>4. Rank(W, n + 1) = IF n + 1 \in W THEN Rank(W, n) + 1 ELSE Rank(W, n)
    BY RankStep
  <2>5. \A i \in 1 .. n : i \in 1 .. n + 1
    OBVIOUS
  <2>6. /\ b \in Seq(T) /\ Len(b) = Rank(W, n + 1)
        /\ \A j \in 1 .. Len(b) : \E i \in 1 .. n + 1 : i \in W /\ b[j] = e[i]
    <3>1. CASE n + 1 \notin W
      BY <2>2, <2>3, <2>4, <2>5, <3>1
    <3>2. CASE n + 1 \in W
      <4>1. e[n + 1] \in T
        OBVIOUS
      <4>2. b \in Seq(T) /\ Len(b) = Len(a) + 1 /\ (\A j \in 1 .. Len(a) : b[j] = a[j]) /\ b[Len(a) + 1] = e[n + 1]
        BY <2>2, <2>3, <3>2, <4>1, AppendProperties
      <4>3. ASSUME NEW j \in 1 .. Len(b) PROVE \E i \in 1 .. n + 1 : i \in W /\ b[j] = e[i]
        <5>1. j \in 1 .. Len(a) \/ j = Len(a) + 1
          BY <2>2, <4>2, LenProperties
        <5>2. CASE j \in 1 .. Len(a)
          BY <2>2, <2>5, <4>2, <5>2
        <5>3. CASE j = Len(a) + 1
          <6>1. n + 1 \in 1 .. n + 1
            OBVIOUS
          <6> QED
            BY <3>2, <4>2, <5>3, <6>1
        <5> QED
          BY <5>1, <5>2, <5>3
      <4> QED
        BY <2>2, <2>4, <3>2, <4>2, <4>3
    <3> QED
      BY <3>1, <3>2
  <2> QED
    BY <2>1, <2>6
<1>3. k \in S
  <2>1. S \in SUBSET Nat
    OBVIOUS
  <2> HIDE DEF S
  <2> QED
    BY <1>1, <1>2, <2>1, NatSet
<1> QED
  BY <1>3

\* Two such loops that take the same from the same places.
LEMMA CollectSame ==
  ASSUME NEW f, NEW W, NEW d, Collects(f, W, d), NEW g, NEW V, NEW e, Collects(g, V, e), NEW k \in Nat,
         \A i \in 1 .. k : (i \in W <=> i \in V) /\ d[i] = e[i]
  PROVE  f[k] = g[k]
<1> DEFINE S == {n \in Nat : n <= k => f[n] = g[n]}
<1>1. 0 \in S
  BY CollectStep
<1>2. ASSUME NEW n \in S PROVE n + 1 \in S
  <2> SUFFICES ASSUME n + 1 <= k PROVE f[n + 1] = g[n + 1]
    OBVIOUS
  <2>1. n \in Nat /\ f[n] = g[n] /\ n + 1 \in 1 .. k
    OBVIOUS
  <2>2. f[n + 1] = IF n + 1 \in W THEN Append(f[n], d[n + 1]) ELSE f[n]
    BY <2>1, CollectStep
  <2>3. g[n + 1] = IF n + 1 \in V THEN Append(g[n], e[n + 1]) ELSE g[n]
    BY <2>1, CollectStep
  <2> QED
    BY <2>1, <2>2, <2>3
<1>3. k \in S
  <2>1. S \in SUBSET Nat
    OBVIOUS
  <2> HIDE DEF S
  <2> QED
    BY <1>1, <1>2, <2>1, NatSet
<1> QED
  BY <1>3

-----------------------------------------------------------------------------
(***************************************************************************)
(* ft_split.                                                               *)
(***************************************************************************)
Starts(s, c) == {i \in Nat : WordAt(s, c, i)}
Word(s, c) == [i \in Nat |-> SubSeq(s, i, i + ft_len(s, c, i) - 1)]

LEMMA SplitCollects ==
  ASSUME NEW s, NEW c, NEW T, \A i \in Nat \ {0} : Word(s, c)[i] \in T
  PROVE  \E f : Collects(f, Starts(s, c), Word(s, c)) /\ ft_split(s, c) = f[Len(s)]
<1> DEFINE IsWords(f) == f = [i \in Nat |->
                                IF i = 0 THEN << >>
                                ELSE IF WordAt(s, c, i)
                                THEN Append(f[i - 1], SubSeq(s, i, i + ft_len(s, c, i) - 1))
                                ELSE f[i - 1]]
           words == CHOOSE f : IsWords(f)
<1>1. ASSUME NEW f PROVE Collects(f, Starts(s, c), Word(s, c)) <=> IsWords(f)
  <2>1. \A i \in Nat : /\ i \in Starts(s, c) <=> WordAt(s, c, i)
                       /\ Word(s, c)[i] = SubSeq(s, i, i + ft_len(s, c, i) - 1)
    BY DEF Starts, Word
  <2> QED
    BY <2>1 DEF Collects
<1>2. \E f : Collects(f, Starts(s, c), Word(s, c))
  BY CollectExists
<1>3. ft_split(s, c) = words[Len(s)]
  BY DEF ft_split
<1>4. Collects(words, Starts(s, c), Word(s, c))
  BY <1>1, <1>2
<1> HIDE DEF words
<1> QED
  BY <1>3, <1>4

\* A word ends at the last place before the next separator.
LEMMA LenIs ==
  ASSUME NEW s \in Texts, NEW c, NEW i \in 1 .. Len(s)
  PROVE  LET last == i + ft_len(s, c, i) - 1
         IN  /\ ft_len(s, c, i) \in Nat /\ last \in i - 1 .. Len(s)
             /\ \A k \in i .. last : s[k] \notin c
             /\ last = Len(s) \/ (last + 1 \in 1 .. Len(s) /\ s[last + 1] \in c)
<1> DEFINE stops == {k \in i .. Len(s) : s[k] \in c}
<1>1. PICK n, l : n = Len(s) /\ l = ft_len(s, c, i)
  OBVIOUS
<1>2. n \in Nat /\ i \in Nat /\ 1 <= i /\ i <= n
  BY <1>1, TextFacts
<1>3. l = IF stops = {} THEN n - i + 1 ELSE Min(stops) - i
  BY <1>1 DEF ft_len
<1>4. CASE stops = {}
  <2>1. l \in Nat /\ i + l - 1 = n
    BY <1>2, <1>3, <1>4
  <2>2. \A k \in i .. n : s[k] \notin c
    BY <1>1, <1>4
  <2> QED
    BY <1>1, <1>2, <2>1, <2>2
<1>5. CASE stops # {}
  <2>1. PICK k : k = Min(stops)
    OBVIOUS
  <2>2. k \in stops /\ \A j \in stops : k <= j
    <3>1. stops \in SUBSET Nat
      BY <1>2
    <3> HIDE DEF stops
    <3> QED
      BY <1>5, <2>1, <3>1, LeastNat
  <2>3. k \in i .. n /\ s[k] \in c /\ l = k - i
    BY <1>1, <1>3, <1>5, <2>1, <2>2
  <2>4. l \in Nat /\ i + l - 1 = k - 1 /\ k - 1 \in i - 1 .. n /\ (k - 1) + 1 = k /\ k \in 1 .. n
    BY <1>2, <2>3
  <2>5. \A j \in i .. k - 1 : s[j] \notin c
    <3>1. ASSUME NEW j \in i .. k - 1, s[j] \in c PROVE FALSE
      <4>1. j \in i .. n /\ ~(k <= j)
        BY <1>2, <2>3
      <4>2. j \in stops
        BY <1>1, <3>1, <4>1
      <4> QED
        BY <2>2, <4>1, <4>2
    <3> QED
      BY <3>1
  <2> QED
    BY <1>1, <2>3, <2>4, <2>5
<1> QED
  BY <1>4, <1>5

LEMMA WordIs ==
  ASSUME NEW s \in Texts, NEW c, NEW i \in Nat \ {0}
  PROVE  /\ Word(s, c)[i] \in Texts
         /\ i <= Len(s) => /\ Len(Word(s, c)[i]) = ft_len(s, c, i)
                           /\ \A j \in 1 .. ft_len(s, c, i) : Word(s, c)[i][j] = s[i + j - 1]
<1>1. PICK n, l, w : n = Len(s) /\ l = ft_len(s, c, i) /\ w = SubSeq(s, i, i + l - 1)
  OBVIOUS
<1>2. Word(s, c)[i] = w /\ n \in Nat
  BY <1>1, TextFacts DEF Word
<1>3. CASE i <= n
  <2>1. i \in 1 .. Len(s)
    BY <1>1, <1>2, <1>3
  <2>2. l \in Nat /\ i + l - 1 <= n
    BY <1>1, <2>1, LenIs
  <2>3. i + l - 1 \in Int /\ i + l - 1 <= Len(s) /\ (i + l - 1) - i + 1 = l /\ (~(i <= i + l - 1) => l = 0)
    BY <1>1, <2>2
  <2>4. w \in Texts /\ Len(w) = (IF i <= i + l - 1 THEN (i + l - 1) - i + 1 ELSE 0)
        /\ \A j \in 1 .. (i + l - 1) - i + 1 : w[j] = s[i + j - 1]
    <3>1. PICK b : b = i + l - 1
      OBVIOUS
    <3>2. /\ SubSeq(s, i, b) \in Texts
          /\ Len(SubSeq(s, i, b)) = IF i <= b THEN b - i + 1 ELSE 0
          /\ \A j \in 1 .. b - i + 1 : SubSeq(s, i, b)[j] = s[i + j - 1]
      BY <2>3, <3>1, Part
    <3> QED
      BY ONLY <1>1, <3>1, <3>2
  <2>5. Len(w) = l /\ \A j \in 1 .. l : w[j] = s[i + j - 1]
    BY ONLY <2>3, <2>4
  <2> QED
    BY ONLY <1>1, <1>2, <2>4, <2>5
<1>4. CASE ~(i <= n)
  <2>1. {k \in i .. Len(s) : s[k] \in c} = {}
    BY <1>1, <1>2, <1>4
  <2>2. l = n - i + 1
    BY <1>1, <2>1 DEF ft_len
  <2>3. i + l - 1 \in Int /\ i + l - 1 <= Len(s)
    BY <1>1, <1>2, <2>2
  <2>4. w \in Texts
    BY <1>1, <2>3, Part
  <2> QED
    BY ONLY <1>1, <1>2, <1>4, <2>4
<1> QED
  BY <1>3, <1>4

\* The two functions agree on where a word starts.
LEMMA CountIs ==
  ASSUME NEW s, NEW c
  PROVE  ft_wordcount(s, c) = Cardinality({i \in 1 .. Len(s) : WordAt(s, c, i)})
<1>1. ASSUME NEW i PROVE Counted(s, c, i) <=> WordAt(s, c, i)
  BY DEF Counted, WordAt
<1>2. {i \in 1 .. Len(s) : Counted(s, c, i)} = {i \in 1 .. Len(s) : WordAt(s, c, i)}
  BY <1>1
<1> QED
  BY <1>2 DEF ft_wordcount

\* Only which characters of the string are separators matters.
LEMMA SplitSame ==
  ASSUME NEW s \in Texts, NEW c, NEW d, \A i \in 1 .. Len(s) : s[i] \in c <=> s[i] \in d
  PROVE  ft_split(s, c) = ft_split(s, d) /\ ft_wordcount(s, c) = ft_wordcount(s, d)
<1>1. PICK n : n = Len(s)
  OBVIOUS
<1>2. n \in Nat
  BY <1>1, TextFacts
<1>3. ASSUME NEW i \in 1 .. n
      PROVE  (WordAt(s, c, i) <=> WordAt(s, d, i)) /\ ft_len(s, c, i) = ft_len(s, d, i)
  <2>1. i = 1 \/ i - 1 \in 1 .. Len(s)
    BY <1>1, <1>2
  <2>2. WordAt(s, c, i) <=> WordAt(s, d, i)
    BY <1>1, <2>1 DEF WordAt
  <2>3. {k \in i .. Len(s) : s[k] \in c} = {k \in i .. Len(s) : s[k] \in d}
    <3>1. \A k \in i .. Len(s) : k \in 1 .. Len(s)
      BY <1>1, <1>2
    <3> QED
      BY <3>1
  <2>4. ft_len(s, c, i) = ft_len(s, d, i)
    BY <2>3 DEF ft_len
  <2> QED
    BY <2>2, <2>4
<1>4. ft_wordcount(s, c) = ft_wordcount(s, d)
  <2>1. {i \in 1 .. n : WordAt(s, c, i)} = {i \in 1 .. n : WordAt(s, d, i)}
    BY <1>3
  <2> QED
    BY <1>1, <2>1, CountIs
<1>5. PICK f : Collects(f, Starts(s, c), Word(s, c)) /\ ft_split(s, c) = f[Len(s)]
  <2>1. \A i \in Nat \ {0} : Word(s, c)[i] \in Texts
    BY WordIs
  <2> QED
    BY <2>1, SplitCollects
<1>6. PICK g : Collects(g, Starts(s, d), Word(s, d)) /\ ft_split(s, d) = g[Len(s)]
  <2>1. \A i \in Nat \ {0} : Word(s, d)[i] \in Texts
    BY WordIs
  <2> QED
    BY <2>1, SplitCollects
<1>7. \A i \in 1 .. n : (i \in Starts(s, c) <=> i \in Starts(s, d)) /\ Word(s, c)[i] = Word(s, d)[i]
  <2>1. \A i \in 1 .. n : i \in Nat
    OBVIOUS
  <2> QED
    BY <1>3, <2>1 DEF Starts, Word
<1>8. f[n] = g[n]
  BY <1>2, <1>5, <1>6, <1>7, CollectSame
<1> QED
  BY <1>1, <1>4, <1>5, <1>6, <1>8

\* There are as many words as were counted, and none is empty or has a
\* separator in it.
LEMMA SplitIs ==
  ASSUME NEW s \in Texts, NEW c
  PROVE  /\ ft_split(s, c) \in Seq(Texts) /\ Len(ft_split(s, c)) = ft_wordcount(s, c)
         /\ \A j \in 1 .. Len(ft_split(s, c)) :
              \E i \in 1 .. Len(s) : i \in Starts(s, c) /\ ft_split(s, c)[j] = Word(s, c)[i]
<1>1. \A i \in Nat \ {0} : Word(s, c)[i] \in Texts
  BY WordIs
<1>2. PICK f : Collects(f, Starts(s, c), Word(s, c)) /\ ft_split(s, c) = f[Len(s)]
  BY <1>1, SplitCollects
<1>3. Len(s) \in Nat
  BY TextFacts
<1>4. /\ f[Len(s)] \in Seq(Texts) /\ Len(f[Len(s)]) = Rank(Starts(s, c), Len(s))
      /\ \A j \in 1 .. Len(f[Len(s)]) : \E i \in 1 .. Len(s) : i \in Starts(s, c) /\ f[Len(s)][j] = Word(s, c)[i]
  <2>1. PICK n, W, e : n = Len(s) /\ W = Starts(s, c) /\ e = Word(s, c)
    OBVIOUS
  <2>2. Collects(f, W, e) /\ n \in Nat /\ \A i \in Nat \ {0} : e[i] \in Texts
    BY ONLY <1>1, <1>2, <1>3, <2>1
  <2>3. /\ f[n] \in Seq(Texts) /\ Len(f[n]) = Rank(W, n)
        /\ \A j \in 1 .. Len(f[n]) : \E i \in 1 .. n : i \in W /\ f[n][j] = e[i]
    BY ONLY <2>2, CollectLen
  <2> QED
    BY ONLY <2>1, <2>3
<1>5. Rank(Starts(s, c), Len(s)) = ft_wordcount(s, c)
  <2>1. \A i \in 1 .. Len(s) : i \in Starts(s, c) <=> WordAt(s, c, i)
    <3>1. \A i \in 1 .. Len(s) : i \in Nat
      OBVIOUS
    <3> QED
      BY <3>1 DEF Starts
  <2>2. {i \in 1 .. Len(s) : i \in Starts(s, c)} = {i \in 1 .. Len(s) : WordAt(s, c, i)}
    BY <2>1
  <2> QED
    BY <2>2, CountIs DEF Rank
<1> QED
  BY ONLY <1>2, <1>4, <1>5

\* The separators ft_split_str finds are those a char can hold, as far as
\* the characters of a string go.
LEMMA FoundIs ==
  ASSUME NEW m \in Memories, NEW q \in Addr, Ends(m, q), NEW x \in Bytes \ {0}
  PROVE  x \in {c \in Bytes : ft_strchr(m, q, c) # NULL}
           <=> x \in {c \in ToSet(Str(m, q)) : c <= CHAR_MAX}
<1>1. PICK l, seen, s : l = ft_strlen(m, q) /\ seen = Seen(m, q, x) /\ s = Str(m, q)
  OBVIOUS
<1>2. l \in Nat /\ q \in Nat /\ m[q + l] = 0 /\ Len(s) = l /\ s \in Texts /\ \A i \in 1 .. l : s[i] = m[q + i - 1]
  BY <1>1, StrIs, StrlenIsFirst DEF Addr
<1>3. seen \in SUBSET Nat
  BY <1>1, SeenFacts
<1>4. ft_strchr(m, q, x) = LeastOf(seen)
  BY <1>1, StrchrFinds
<1>5. LeastOf(seen) # NULL <=> seen # {}
  <2>1. seen # {} => Min(seen) \in Nat
    BY <1>3, LeastNat
  <2> QED
    BY <2>1 DEF LeastOf, NULL
<1>6. seen # {} <=> x <= CHAR_MAX /\ \E i \in 1 .. l : s[i] = x
  <2>1. x \in Nat /\ CHAR_MAX \in Nat
    BY ByteRange
  <2>2. (\E i \in q .. q + l : m[i] = x) <=> (\E i \in 1 .. l : s[i] = x)
    <3>1. ASSUME NEW i \in q .. q + l, m[i] = x PROVE \E j \in 1 .. l : s[j] = x
      <4>1. i # q + l
        BY <1>2, <3>1
      <4>2. i - q + 1 \in 1 .. l /\ q + (i - q + 1) - 1 = i
        BY <1>2, <4>1
      <4> QED
        BY <1>2, <3>1, <4>2
    <3>2. ASSUME NEW i \in 1 .. l, s[i] = x PROVE \E j \in q .. q + l : m[j] = x
      <4>1. q + i - 1 \in q .. q + l
        BY <1>2
      <4> QED
        BY <1>2, <3>2, <4>1
    <3> QED
      BY <3>1, <3>2
  <2>3. seen = IF x > CHAR_MAX THEN {} ELSE {i \in q .. q + l : m[i] = x}
    BY <1>1 DEF Seen
  <2> QED
    BY <2>1, <2>2, <2>3
<1>7. x \in ToSet(s) <=> \E i \in 1 .. l : s[i] = x
  <2>1. DOMAIN s = 1 .. l
    BY <1>2, LenProperties DEF Texts
  <2> QED
    BY <2>1 DEF ToSet
<1> QED
  BY ONLY <1>1, <1>4, <1>5, <1>6, <1>7

\* What is freed after the array had n words in it and a NULL.
LEMMA FreesAll ==
  ASSUME NEW n \in Nat
  PROVE  FreedOnce(ft_strfree(Saved(n), n), 0 .. n) /\ FreedOnce(ft_free_two(Saved(n)), 0 .. n)
<1>1. PICK str : str = Saved(n)
  OBVIOUS
<1>2. /\ DOMAIN str = 0 .. n /\ str[n] = NULL /\ NULL = -1
      /\ \A k \in 0 .. n - 1 : str[k] = k + 1
  BY ONLY <1>1, n \in Nat DEF Saved, NULL
<1>3. FreedOnce(ft_strfree(str, n), 0 .. n)
  <2>1. PICK freed : freed = ft_strfree(str, n)
    OBVIOUS
  <2>2. /\ DOMAIN freed = 1 .. n + 2 /\ freed[n + 1] = NULL /\ freed[n + 2] = 0
        /\ \A i \in 1 .. n : freed[i] = i
    BY ONLY <1>2, <2>1, n \in Nat DEF ft_strfree, Array
  <2>3. \A i \in 1 .. n + 2 : i \in 1 .. n \/ i = n + 1 \/ i = n + 2
    OBVIOUS
  <2>4. ToSet(freed) \ {NULL} = 0 .. n
    BY ONLY <1>2, <2>2, <2>3, n \in Nat DEF ToSet
  <2>5. \A i \in DOMAIN freed : freed[i] # NULL => i = IF freed[i] = 0 THEN n + 2 ELSE freed[i]
    BY ONLY <1>2, <2>2, <2>3, n \in Nat
  <2>6. \A i, j \in DOMAIN freed : freed[i] = freed[j] /\ freed[i] # NULL => i = j
    BY ONLY <2>5
  <2> QED
    BY ONLY <2>1, <2>4, <2>6 DEF FreedOnce
<1>4. FreedOnce(ft_free_two(str), 0 .. n)
  <2>1. {k \in DOMAIN str : str[k] = NULL} = {n}
    <3>1. \A k \in 0 .. n : k \in 0 .. n - 1 \/ k = n
      OBVIOUS
    <3> QED
      BY ONLY <1>2, <3>1, n \in Nat
  <2>2. Min({n}) = n
    BY ONLY n \in Nat DEF Min
  <2>3. PICK freed : freed = ft_free_two(str)
    OBVIOUS
  <2>4. freed = [i \in 1 .. n + 1 |-> IF i <= n THEN str[i - 1] ELSE 0]
    BY ONLY <2>1, <2>2, <2>3 DEF ft_free_two, Array
  <2>5. /\ DOMAIN freed = 1 .. n + 1 /\ freed[n + 1] = 0
        /\ \A i \in 1 .. n : freed[i] = i
    BY ONLY <1>2, <2>4, n \in Nat
  <2>6. \A i \in 1 .. n + 1 : i \in 1 .. n \/ i = n + 1
    OBVIOUS
  <2>7. ToSet(freed) \ {NULL} = 0 .. n
    BY ONLY <1>2, <2>5, <2>6, n \in Nat DEF ToSet
  <2>8. \A i \in DOMAIN freed : i = IF freed[i] = 0 THEN n + 1 ELSE freed[i]
    BY ONLY <1>2, <2>5, <2>6, n \in Nat
  <2>9. \A i, j \in DOMAIN freed : freed[i] = freed[j] /\ freed[i] # NULL => i = j
    BY ONLY <2>8
  <2> QED
    BY ONLY <2>3, <2>7, <2>9 DEF FreedOnce
<1> QED
  BY ONLY <1>1, <1>3, <1>4

LEMMA SplitKeeps ==
  ASSUME mem \in Memories, NEW p \in StringPtrs, NEW set \in StringPtrs,
         NEW words, words = ft_split(Str(mem, p), {c \in ToSet(Str(mem, set)) : c <= CHAR_MAX}),
         NEW fails \in Failures(words)
  PROVE  LET split == ft_split_str(mem, p, set, fails)
         IN  /\ DOMAIN split.str \subseteq 0 .. split.room
             /\ IF fails <= Len(words)
                THEN split.null /\ FreedOnce(split.freed, split.blocks)
                ELSE split.words = words /\ FreedOnce(ft_free_two(split.str), split.blocks)
<1>1. p \in Addr /\ Ends(mem, p) /\ set \in Addr /\ Ends(mem, set)
  BY StringPtr
<1>2. PICK s, found, seps : /\ s = Str(mem, p)
                            /\ found = {c \in Bytes : ft_strchr(mem, set, c) # NULL}
                            /\ seps = {c \in ToSet(Str(mem, set)) : c <= CHAR_MAX}
  OBVIOUS
<1>3. s \in Texts
  BY <1>1, <1>2, StrIs
<1>4. \A i \in 1 .. Len(s) : s[i] \in found <=> s[i] \in seps
  <2>1. ASSUME NEW i \in 1 .. Len(s) PROVE s[i] \in found <=> s[i] \in seps
    <3>1. s[i] \in Bytes \ {0}
      BY <1>3, TextFacts
    <3> QED
      BY <1>1, <1>2, <3>1, FoundIs
  <2> QED
    BY <2>1
<1>5. ft_split(s, found) = words /\ ft_wordcount(s, found) = ft_wordcount(s, seps) /\ words = ft_split(s, seps)
  BY <1>2, <1>3, <1>4, SplitSame
<1>6. Len(words) = ft_wordcount(s, seps) /\ words \in Seq(Texts)
  BY <1>3, <1>5, SplitIs
<1>7. Len(words) \in Nat
  BY <1>6, LenProperties
<1>8. PICK split : split = ft_split_str(mem, p, set, fails)
  OBVIOUS
<1>9. fails \in 0 .. Len(words) + 1
  BY DEF Failures
<1>10. PICK n : n = IF fails \in 1 .. Len(words) THEN fails - 1 ELSE Len(words)
  OBVIOUS
<1>11. n \in Nat /\ n <= Len(words)
  BY ONLY <1>7, <1>9, <1>10
<1>12. DOMAIN Saved(n) = 0 .. n
  BY DEF Saved
<1>13. CASE fails = 0
  <2>1. /\ split.null /\ split.str = << >> /\ split.blocks = {} /\ split.freed = << >>
    BY ONLY <1>2, <1>5, <1>8, <1>13 DEF ft_split_str
  <2>2. DOMAIN << >> = {}
    OBVIOUS
  <2>3. FreedOnce(<< >>, {})
    BY <2>2 DEF FreedOnce, ToSet
  <2>4. DOMAIN split.str \subseteq 0 .. split.room /\ FreedOnce(split.freed, split.blocks)
    BY ONLY <2>1, <2>2, <2>3
  <2>5. fails <= Len(words)
    BY ONLY <1>7, <1>13
  <2> QED
    BY ONLY <1>8, <2>1, <2>4, <2>5
<1>14. CASE fails \in 1 .. Len(words)
  <2>1. /\ split.null /\ split.str = Saved(n) /\ split.blocks = 0 .. n
        /\ split.freed = ft_strfree(Saved(n), n) /\ split.room = Len(words)
    BY ONLY <1>2, <1>5, <1>6, <1>8, <1>10, <1>14 DEF ft_split_str
  <2>2. FreedOnce(split.freed, split.blocks)
    BY ONLY <1>11, <2>1, FreesAll
  <2>3. DOMAIN split.str \subseteq 0 .. split.room
    BY ONLY <1>7, <1>11, <1>12, <2>1
  <2>4. fails <= Len(words)
    BY ONLY <1>7, <1>14
  <2> QED
    BY ONLY <1>8, <2>1, <2>2, <2>3, <2>4
<1>15. CASE fails = Len(words) + 1
  <2>1. fails # 0 /\ fails \notin 1 .. Len(words) /\ ~(fails <= Len(words))
    BY ONLY <1>7, <1>15
  <2>2. /\ split.words = words /\ split.str = Saved(n) /\ split.blocks = 0 .. n
        /\ split.room = Len(words)
    BY ONLY <1>2, <1>5, <1>6, <1>8, <1>10, <2>1 DEF ft_split_str
  <2>3. FreedOnce(ft_free_two(split.str), split.blocks)
    BY ONLY <1>11, <2>2, FreesAll
  <2>4. DOMAIN split.str \subseteq 0 .. split.room
    BY ONLY <1>7, <1>11, <1>12, <2>2
  <2> QED
    BY ONLY <1>8, <2>1, <2>2, <2>3, <2>4
<1> QED
  BY ONLY <1>7, <1>9, <1>13, <1>14, <1>15

(***************************************************************************)
(* SplitKeepsNothing, for every two strings and whichever block there is   *)
(* no memory for: a failed ft_split_str has freed each of its blocks once, *)
(* and ft_free_two does so after one that succeeds, whose words and the    *)
(* NULL behind them fit in the array.                                      *)
(***************************************************************************)
THEOREM NothingIsKept == Spec => []SplitKeepsNothing
<1>1. mem \in Memories => SplitKeepsNothing
  BY SplitKeeps DEF SplitKeepsNothing
<1> QED
  BY <1>1, MemoryCorrect, PTL

\* The place up to which the words that start at or before k have the
\* characters of s.
RunEnd(s, c, k) ==
  IF k = 0 THEN 0 ELSE IF s[k] \in c THEN k ELSE k + ft_len(s, c, k) - 1

LEMMA RunEndStep ==
  ASSUME NEW s \in Texts, NEW c, NEW k \in 0 .. Len(s) - 1
  PROVE  /\ s[k + 1] \in c => RunEnd(s, c, k) = k /\ RunEnd(s, c, k + 1) = k + 1
         /\ WordAt(s, c, k + 1) => RunEnd(s, c, k) = k
         /\ s[k + 1] \notin c /\ ~WordAt(s, c, k + 1) => RunEnd(s, c, k + 1) = RunEnd(s, c, k)
<1>1. PICK n : n = Len(s)
  OBVIOUS
<1>2. n \in Nat /\ k \in Nat /\ k + 1 <= n /\ k + 1 \in 1 .. n /\ k + 1 # 0 /\ (k + 1) - 1 = k
  BY <1>1, TextFacts
<1>3. WordAt(s, c, k + 1) <=> s[k + 1] \notin c /\ (k = 0 \/ s[k] \in c)
  BY ONLY <1>2 DEF WordAt
<1>4. CASE k = 0 \/ s[k] \in c
  <2>1. RunEnd(s, c, k) = k
    BY <1>4 DEF RunEnd
  <2>2. s[k + 1] \in c => RunEnd(s, c, k + 1) = k + 1
    BY <1>2 DEF RunEnd
  <2> QED
    BY ONLY <1>3, <1>4, <2>1, <2>2
<1>5. CASE k # 0 /\ s[k] \notin c
  <2>1. k \in 1 .. Len(s)
    BY <1>1, <1>2, <1>5
  <2>2. PICK last : last = k + ft_len(s, c, k) - 1
    OBVIOUS
  <2>3. /\ last \in k - 1 .. n /\ \A j \in k .. last : s[j] \notin c
        /\ last = n \/ (last + 1 \in 1 .. n /\ s[last + 1] \in c)
    BY <1>1, <2>1, <2>2, LenIs
  <2>4. last # k - 1
    <3>1. last = k - 1 => last + 1 = k /\ last # n
      BY <1>2
    <3> QED
      BY <1>5, <2>3, <3>1
  <2>5. RunEnd(s, c, k) = last
    BY ONLY <1>5, <2>2 DEF RunEnd
  <2>6. CASE s[k + 1] \in c
    <3>1. last = k
      <4>1. ~(last >= k + 1)
        <5>1. last >= k + 1 => k + 1 \in k .. last
          BY <1>2, <2>3
        <5> QED
          BY <2>3, <2>6, <5>1
      <4> QED
        BY <1>2, <2>3, <2>4, <4>1
    <3>2. RunEnd(s, c, k + 1) = k + 1
      BY <1>2, <2>6 DEF RunEnd
    <3> QED
      BY ONLY <1>3, <2>5, <2>6, <3>1, <3>2
  <2>7. CASE s[k + 1] \notin c
    <3>1. PICK next : next = (k + 1) + ft_len(s, c, k + 1) - 1
      OBVIOUS
    <3>2. /\ next \in k .. n /\ \A j \in k + 1 .. next : s[j] \notin c
          /\ next = n \/ (next + 1 \in 1 .. n /\ s[next + 1] \in c)
      <4>1. k + 1 \in 1 .. Len(s)
        BY <1>1, <1>2
      <4> QED
        BY <1>1, <1>2, <3>1, <4>1, LenIs
    <3>3. ~(last < next)
      <4>1. last < next => last + 1 \in k + 1 .. next /\ last # n
        BY <1>2, <2>3, <2>4, <3>2
      <4> QED
        BY <2>3, <3>2, <4>1
    <3>4. ~(next < last)
      <4>1. next < last => next + 1 \in k .. last /\ next # n
        BY <1>2, <2>3, <3>2
      <4> QED
        BY <2>3, <3>2, <4>1
    <3>5. next = last
      BY <1>2, <2>3, <3>2, <3>3, <3>4
    <3>6. RunEnd(s, c, k + 1) = next
      BY <1>2, <2>7, <3>1 DEF RunEnd
    <3> QED
      BY ONLY <1>3, <1>5, <2>5, <2>7, <3>5, <3>6
  <2> QED
    BY <2>6, <2>7
<1> QED
  BY <1>4, <1>5

\* Everything is in some word in the end.
LEMMA RunEndAll ==
  ASSUME NEW s \in Texts, NEW c
  PROVE  RunEnd(s, c, Len(s)) = Len(s)
<1>1. PICK n : n = Len(s)
  OBVIOUS
<1>2. n \in Nat
  BY <1>1, TextFacts
<1>3. CASE n = 0 \/ s[n] \in c
  BY ONLY <1>1, <1>3 DEF RunEnd
<1>4. CASE n # 0 /\ s[n] \notin c
  <2>1. n \in 1 .. Len(s)
    BY <1>1, <1>2, <1>4
  <2>2. PICK last : last = n + ft_len(s, c, n) - 1
    OBVIOUS
  <2>3. last \in n - 1 .. n /\ (last = n \/ s[last + 1] \in c)
    BY <1>1, <2>1, <2>2, LenIs
  <2>4. last = n
    <3>1. last = n - 1 => last + 1 = n
      BY <1>2
    <3> QED
      BY <1>2, <1>4, <2>3, <3>1
  <2> QED
    BY ONLY <1>1, <1>4, <2>2, <2>4 DEF RunEnd
<1> QED
  BY <1>3, <1>4

\* What is left of the first k characters of s.
LEMMA WithoutCollects ==
  ASSUME NEW s \in Texts, NEW c
  PROVE  \E g : Collects(g, {i \in Nat : s[i] \notin c}, s) /\ Without(s, c) = g[Len(s)]
<1> DEFINE IsKept(f) == f = [i \in Nat |-> IF i = 0 THEN << >>
                                           ELSE IF s[i] \in c THEN f[i - 1] ELSE Append(f[i - 1], s[i])]
           kept == CHOOSE f : IsKept(f)
           W == {i \in Nat : s[i] \notin c}
<1>1. ASSUME NEW f PROVE Collects(f, W, s) <=> IsKept(f)
  <2>1. \A i \in Nat : i \in W <=> ~(s[i] \in c)
    OBVIOUS
  <2> QED
    BY <2>1 DEF Collects
<1>2. \E f : Collects(f, W, s)
  <2> DEFINE T == {s[i] : i \in Nat}
  <2>1. \A i \in Nat \ {0} : s[i] \in T
    OBVIOUS
  <2> HIDE DEF T, W
  <2> QED
    BY <2>1, CollectExists
<1>3. Without(s, c) = kept[Len(s)]
  BY DEF Without
<1>4. Collects(kept, W, s)
  BY <1>1, <1>2
<1> HIDE DEF kept
<1> QED
  BY <1>3, <1>4

LEMMA WithoutTexts ==
  ASSUME NEW s \in Texts, NEW c, NEW W, NEW g, Collects(g, W, s), NEW k \in 0 .. Len(s)
  PROVE  g[k] \in Texts /\ Len(g[k]) = Rank(W, k)
<1> DEFINE T == {s[i] : i \in Nat}
<1>1. \A i \in Nat \ {0} : s[i] \in T
  OBVIOUS
<1> HIDE DEF T
<1>2. k \in Nat /\ \A i \in 1 .. k : s[i] \in Bytes \ {0}
  BY TextFacts
<1>3. g[k] \in Seq(T) /\ Len(g[k]) = Rank(W, k) /\ \A j \in 1 .. Len(g[k]) : \E i \in 1 .. k : g[k][j] = s[i]
  BY <1>1, <1>2, CollectLen
<1>4. Len(g[k]) \in Nat /\ g[k] \in [1 .. Len(g[k]) -> T]
  BY <1>3, LenProperties
<1>5. g[k] \in [1 .. Len(g[k]) -> Bytes \ {0}]
  BY <1>2, <1>3, <1>4
<1> QED
  BY <1>3, <1>4, <1>5, FcnIsSeq DEF Texts

\* FlattenSeq, one text after the other.
Flattens(f, ws, n) == f = [i \in 1 .. n |-> IF i = 1 THEN ws[i] ELSE f[i - 1] \o ws[i]]

LEMMA FlattensExists ==
  ASSUME NEW ws, NEW n \in Nat
  PROVE  \E f : Flattens(f, ws, n)
<1> DEFINE S == {k \in Nat : \E f : Flattens(f, ws, k)}
<1>1. 0 \in S
  <2> DEFINE f == [i \in 1 .. 0 |-> 0]
  <2>1. f = [i \in 1 .. 0 |-> IF i = 1 THEN ws[i] ELSE f[i - 1] \o ws[i]]
    OBVIOUS
  <2> HIDE DEF f
  <2>2. Flattens(f, ws, 0)
    BY <2>1 DEF Flattens
  <2> QED
    BY <2>2
<1>2. ASSUME NEW k \in S PROVE k + 1 \in S
  <2>1. k \in Nat
    OBVIOUS
  <2>2. PICK f : Flattens(f, ws, k)
    OBVIOUS
  <2> DEFINE g == [i \in 1 .. k + 1 |-> IF i = 1 THEN ws[i] ELSE f[i - 1] \o ws[i]]
  <2>3. \A i \in 1 .. k : g[i] = f[i]
    <3>1. ASSUME NEW i \in 1 .. k PROVE g[i] = f[i]
      <4>1. i \in 1 .. k + 1
        BY <2>1
      <4>2. f[i] = IF i = 1 THEN ws[i] ELSE f[i - 1] \o ws[i]
        BY <2>2 DEF Flattens
      <4> QED
        BY <4>1, <4>2
    <3> QED
      BY <3>1
  <2>4. ASSUME NEW i \in 1 .. k + 1 PROVE g[i] = IF i = 1 THEN ws[i] ELSE g[i - 1] \o ws[i]
    <3>1. i = 1 \/ i - 1 \in 1 .. k
      BY <2>1
    <3>2. g[i] = IF i = 1 THEN ws[i] ELSE f[i - 1] \o ws[i]
      OBVIOUS
    <3> HIDE DEF g
    <3> QED
      BY <2>3, <3>1, <3>2
  <2>5. g = [i \in 1 .. k + 1 |-> g[i]]
    OBVIOUS
  <2> HIDE DEF g
  <2>6. Flattens(g, ws, k + 1)
    BY <2>4, <2>5 DEF Flattens
  <2> QED
    BY <2>1, <2>6
<1>3. n \in S
  <2>1. S \in SUBSET Nat
    OBVIOUS
  <2> HIDE DEF S
  <2> QED
    BY <1>1, <1>2, <2>1, NatSet
<1> QED
  BY <1>3

LEMMA FlattenIs ==
  ASSUME NEW ws \in Seq(Texts), Len(ws) # 0
  PROVE  \E f : Flattens(f, ws, Len(ws)) /\ FlattenSeq(ws) = f[Len(ws)]
<1> DEFINE IsFlat(f) == f = [i \in 1 .. Len(ws) |-> IF i = 1 THEN ws[i] ELSE f[i - 1] \o ws[i]]
           flatten == CHOOSE f : IsFlat(f)
<1>1. \A f : Flattens(f, ws, Len(ws)) <=> IsFlat(f)
  BY DEF Flattens
<1>2. \E f : Flattens(f, ws, Len(ws))
  BY FlattensExists, LenProperties
<1>3. FlattenSeq(ws) = flatten[Len(ws)]
  BY DEF FlattenSeq
<1>4. Flattens(flatten, ws, Len(ws))
  BY <1>1, <1>2
<1> HIDE DEF flatten
<1> QED
  BY <1>3, <1>4

LEMMA FlattenAppend ==
  ASSUME NEW ws \in Seq(Texts), NEW w \in Texts, FlattenSeq(ws) \in Texts
  PROVE  FlattenSeq(Append(ws, w)) = FlattenSeq(ws) \o w
<1>1. PICK n, vs : n = Len(ws) /\ vs = Append(ws, w)
  OBVIOUS
<1>2. n \in Nat /\ vs \in Seq(Texts) /\ Len(vs) = n + 1 /\ (\A i \in 1 .. n : vs[i] = ws[i]) /\ vs[n + 1] = w
  BY <1>1, LenProperties, AppendProperties
<1>3. PICK g : Flattens(g, vs, n + 1) /\ FlattenSeq(vs) = g[n + 1]
  <2>1. Len(vs) # 0
    BY <1>2
  <2> QED
    BY <1>2, <2>1, FlattenIs
<1>4. g[n + 1] = IF n + 1 = 1 THEN vs[n + 1] ELSE g[(n + 1) - 1] \o vs[n + 1]
  <2>1. n + 1 \in 1 .. n + 1
    BY <1>2
  <2> QED
    BY <1>3, <2>1 DEF Flattens
<1>5. CASE n = 0
  <2>1. FlattenSeq(ws) = ws
    BY <1>1, <1>5 DEF FlattenSeq
  <2>2. ws = << >>
    BY <1>1, <1>5, EmptySeq
  <2>3. << >> \o w = w
    BY ConcatEmptySeq DEF Texts
  <2>4. g[n + 1] = w
    BY <1>2, <1>4, <1>5
  <2> QED
    BY ONLY <1>1, <1>3, <2>1, <2>2, <2>3, <2>4
<1>6. CASE n # 0
  <2>1. PICK f : Flattens(f, ws, n) /\ FlattenSeq(ws) = f[n]
    BY <1>1, <1>6, FlattenIs
  <2> DEFINE S == {k \in Nat : k + 1 <= n => f[k + 1] = g[k + 1]}
  <2>2. 0 \in S
    <3>1. 1 \in 1 .. n /\ 1 \in 1 .. n + 1
      BY <1>2, <1>6
    <3>2. f[1] = ws[1] /\ g[1] = vs[1]
      BY <1>3, <2>1, <3>1 DEF Flattens
    <3> QED
      BY <1>2, <3>1, <3>2
  <2>3. ASSUME NEW k \in S PROVE k + 1 \in S
    <3> SUFFICES ASSUME (k + 1) + 1 <= n PROVE f[(k + 1) + 1] = g[(k + 1) + 1]
      OBVIOUS
    <3>1. PICK i : i = (k + 1) + 1
      OBVIOUS
    <3>2. i \in 1 .. n /\ i \in 1 .. n + 1 /\ i # 1 /\ i - 1 = k + 1 /\ k + 1 <= n
      BY <1>2, <3>1
    <3>3. f[i] = f[i - 1] \o ws[i] /\ g[i] = g[i - 1] \o vs[i]
      BY <1>3, <2>1, <3>2 DEF Flattens
    <3>4. f[k + 1] = g[k + 1] /\ vs[i] = ws[i]
      BY <1>2, <3>2
    <3> QED
      BY ONLY <3>1, <3>2, <3>3, <3>4
  <2>4. n - 1 \in S
    <3>1. S \in SUBSET Nat /\ n - 1 \in Nat
      BY <1>2, <1>6
    <3> HIDE DEF S
    <3> QED
      BY <2>2, <2>3, <3>1, NatSet
  <2>5. f[n] = g[n]
    <3>1. (n - 1) + 1 = n /\ n <= n
      BY <1>2
    <3> QED
      BY <2>4, <3>1
  <2>6. n + 1 # 1 /\ (n + 1) - 1 = n
    BY <1>2, <1>6
  <2> QED
    BY ONLY <1>1, <1>2, <1>3, <1>4, <2>1, <2>5, <2>6
<1> QED
  BY <1>5, <1>6

\* A run of kept characters, w behind the first k, is kept in one piece.
Keeps(g, s, c) == Collects(g, {i \in Nat : s[i] \notin c}, s)
RunAt(s, c, k, w) ==
  /\ k \in Nat /\ w \in Texts /\ k + Len(w) <= Len(s)
  /\ \A j \in 1 .. Len(w) : w[j] = s[k + j] /\ s[k + j] \notin c

LEMMA KeepsStep ==
  ASSUME NEW g, NEW s \in Texts, NEW c, Keeps(g, s, c), NEW k \in Nat, k < Len(s)
  PROVE  /\ g[0] = << >> /\ g[k] \in Texts /\ g[k + 1] \in Texts
         /\ g[k + 1] = IF s[k + 1] \in c THEN g[k] ELSE Append(g[k], s[k + 1])
<1>1. PICK W : W = {i \in Nat : s[i] \notin c}
  OBVIOUS
<1>2. Collects(g, W, s)
  BY <1>1 DEF Keeps
<1>3. k + 1 \in W <=> ~(s[k + 1] \in c)
  BY <1>1
<1>4. g[0] = << >> /\ g[k + 1] = IF k + 1 \in W THEN Append(g[k], s[k + 1]) ELSE g[k]
  BY <1>2, CollectStep
<1>5. k \in 0 .. Len(s) /\ k + 1 \in 0 .. Len(s)
  BY TextFacts
<1>6. g[k] \in Texts /\ g[k + 1] \in Texts
  BY <1>2, <1>5, WithoutTexts
<1> QED
  BY ONLY <1>3, <1>4, <1>6

LEMMA RunIsKept ==
  ASSUME NEW g, NEW s \in Texts, NEW c, Keeps(g, s, c), NEW k, NEW w, RunAt(s, c, k, w), k < Len(s)
  PROVE  g[k + Len(w)] = g[k] \o w
<1>1. PICK l, b : l = Len(w) /\ b = Len(s)
  OBVIOUS
<1>2. l \in Nat /\ b \in Nat /\ k \in Nat /\ k + l <= b /\ k < b /\ w \in Texts
  BY <1>1, TextFacts DEF RunAt
<1>3. \A j \in 1 .. l : w[j] = s[k + j] /\ s[k + j] \notin c
  BY <1>1 DEF RunAt
<1>4. g[k] \in Texts
  BY <1>1, <1>2, KeepsStep
<1> DEFINE Good(n) == n <= l => g[k + n] = g[k] \o SubSeq(w, 1, n)
           S == {n \in Nat : Good(n)}
<1>5. 0 \in S
  <2>1. SubSeq(w, 1, 0) = << >>
    BY SubSeqEmpty
  <2>2. g[k] \o << >> = g[k]
    BY <1>4, ConcatEmptySeq DEF Texts
  <2>3. k + 0 = k
    BY <1>2
  <2> QED
    BY <2>1, <2>2, <2>3
<1>6. ASSUME NEW n \in Nat, Good(n), n + 1 <= l PROVE g[k + (n + 1)] = g[k] \o SubSeq(w, 1, n + 1)
  <2>1. PICK x, u, i : x = w[n + 1] /\ u = SubSeq(w, 1, n) /\ i = k + n
    OBVIOUS
  <2>2. g[i] = g[k] \o u
    <3>1. n <= l
      BY <1>2, <1>6
    <3> QED
      BY <1>6, <2>1, <3>1
  <2> HIDE DEF Good
  <2>3. i \in Nat /\ i < b /\ i + 1 = k + (n + 1) /\ n + 1 \in 1 .. l
    BY <1>2, <1>6, <2>1
  <2>4. x = s[i + 1] /\ s[i + 1] \notin c /\ x \in Bytes \ {0}
    <3>1. w[n + 1] = s[k + (n + 1)] /\ s[k + (n + 1)] \notin c
      BY <1>3, <2>3
    <3>2. w[n + 1] \in Bytes \ {0}
      BY <1>1, <1>2, <2>3, TextFacts
    <3> QED
      BY ONLY <2>1, <2>3, <3>1, <3>2
  <2>5. g[i + 1] = Append(g[i], x) /\ g[i] \in Texts
    <3>1. g[i] \in Texts /\ g[i + 1] = IF s[i + 1] \in c THEN g[i] ELSE Append(g[i], s[i + 1])
      BY <1>1, <2>3, KeepsStep
    <3> QED
      BY ONLY <2>4, <3>1
  <2>6. SubSeq(w, 1, n + 1) = u \o <<x>>
    <3>1. 1 \in 1 .. Len(w) /\ n + 1 \in 1 .. Len(w) /\ (n + 1) - 1 = n /\ w \in Seq(Bytes \ {0})
      BY <1>1, <1>2, <2>3 DEF Texts
    <3>2. SubSeq(w, 1, n + 1) = SubSeq(w, 1, (n + 1) - 1) \o << w[n + 1] >>
      BY <3>1, SubSeqRecursiveSecond
    <3> QED
      BY ONLY <2>1, <3>1, <3>2
  <2>7. u \in Texts /\ <<x>> \in Texts
    <3>1. n \in 0 .. Len(w)
      BY <1>1, <1>2, <1>6
    <3>2. u \in Texts
      BY <1>2, <2>1, <3>1, Prefix
    <3>3. <<x>> \in Texts
      BY <2>4 DEF Texts
    <3> QED
      BY <3>2, <3>3
  <2>8. Append(g[i], x) = g[i] \o <<x>>
    BY <2>4, <2>5, AppendIsConcat DEF Texts
  <2>9. (g[k] \o u) \o <<x>> = g[k] \o (u \o <<x>>)
    <3>1. PICK a, y : a = g[k] /\ y = <<x>>
      OBVIOUS
    <3>2. a \in Seq(Bytes \ {0}) /\ u \in Seq(Bytes \ {0}) /\ y \in Seq(Bytes \ {0})
      BY ONLY <1>4, <2>7, <3>1 DEF Texts
    <3>3. (a \o u) \o y = a \o (u \o y)
      BY ONLY <3>2, ConcatAssociative
    <3> QED
      BY ONLY <3>1, <3>3
  <2> QED
    BY ONLY <2>2, <2>3, <2>5, <2>6, <2>8, <2>9
<1>7. ASSUME NEW n \in S PROVE n + 1 \in S
  <2> HIDE DEF Good
  <2>1. n \in Nat /\ Good(n) /\ n + 1 \in Nat
    OBVIOUS
  <2> USE DEF Good
  <2>2. Good(n + 1)
    BY <1>6, <2>1
  <2> HIDE DEF Good
  <2> QED
    BY <2>1, <2>2
<1>8. l \in S
  <2>1. S \in SUBSET Nat
    OBVIOUS
  <2> HIDE DEF S
  <2> QED
    BY <1>2, <1>5, <1>7, <2>1, NatSet
<1>9. g[k + l] = g[k] \o SubSeq(w, 1, l)
  <2>1. l <= l
    BY <1>2
  <2> QED
    BY <1>8, <2>1
<1>10. SubSeq(w, 1, l) = w
  BY <1>1, <1>2, SubSeqFull DEF Texts
<1> QED
  BY ONLY <1>1, <1>9, <1>10

\* The words that start at or before k, put together, are what is kept of
\* the characters up to the end of the last of them.
LEMMA WordsAreKept ==
  ASSUME NEW s \in Texts, NEW c
  PROVE  FlattenSeq(ft_split(s, c)) = Without(s, c)
<1>1. PICK n : n = Len(s)
  OBVIOUS
<1>2. n \in Nat
  BY <1>1, TextFacts
<1>3. \A i \in Nat \ {0} : Word(s, c)[i] \in Texts
  BY WordIs
<1>4. PICK f : Collects(f, Starts(s, c), Word(s, c)) /\ ft_split(s, c) = f[Len(s)]
  BY <1>3, SplitCollects
<1>5. PICK g : Collects(g, {i \in Nat : s[i] \notin c}, s) /\ Without(s, c) = g[Len(s)]
  BY WithoutCollects
<1>6. Keeps(g, s, c)
  BY <1>5 DEF Keeps
<1>7. \A k \in 0 .. n : g[k] \in Texts
  BY <1>1, <1>5, WithoutTexts
<1>8. \A k \in Nat : f[k] \in Seq(Texts)
  BY <1>3, <1>4, CollectLen
<1> DEFINE S == {k \in Nat : k <= n => FlattenSeq(f[k]) = g[RunEnd(s, c, k)] /\ RunEnd(s, c, k) \in 0 .. n}
<1>9. 0 \in S
  <2>1. f[0] = << >> /\ g[0] = << >>
    BY <1>4, <1>5, CollectStep
  <2>2. RunEnd(s, c, 0) = 0
    BY DEF RunEnd
  <2>3. FlattenSeq(<< >>) = << >>
    BY EmptySeq DEF FlattenSeq
  <2> QED
    BY <1>2, <2>1, <2>2, <2>3
<1>10. ASSUME NEW k \in S PROVE k + 1 \in S
  <2> SUFFICES ASSUME k + 1 <= n
               PROVE  FlattenSeq(f[k + 1]) = g[RunEnd(s, c, k + 1)] /\ RunEnd(s, c, k + 1) \in 0 .. n
    OBVIOUS
  <2>1. /\ k \in Nat /\ k <= n /\ k \in 0 .. Len(s) - 1 /\ k + 1 \in 1 .. Len(s) /\ k + 1 # 0
        /\ FlattenSeq(f[k]) = g[RunEnd(s, c, k)] /\ RunEnd(s, c, k) \in 0 .. n
    BY <1>1, <1>2
  <2>2. PICK e, d : e = RunEnd(s, c, k) /\ d = RunEnd(s, c, k + 1)
    OBVIOUS
  <2>3. /\ s[k + 1] \in c => e = k /\ d = k + 1
        /\ WordAt(s, c, k + 1) => e = k
        /\ s[k + 1] \notin c /\ ~WordAt(s, c, k + 1) => d = e
    BY <2>1, <2>2, RunEndStep
  <2>4. k + 1 \in Starts(s, c) <=> WordAt(s, c, k + 1)
    BY <2>1 DEF Starts
  <2>5. f[k + 1] = IF WordAt(s, c, k + 1) THEN Append(f[k], Word(s, c)[k + 1]) ELSE f[k]
    <3>1. f[k + 1] = IF k + 1 \in Starts(s, c) THEN Append(f[k], Word(s, c)[k + 1]) ELSE f[k]
      <4>1. k \in Nat /\ Collects(f, Starts(s, c), Word(s, c))
        BY <1>4, <2>1
      <4> QED
        BY ONLY <4>1, CollectStep
    <3> QED
      BY ONLY <2>4, <3>1
  <2>6. CASE s[k + 1] \in c
    <3>1. ~WordAt(s, c, k + 1)
      BY <2>6 DEF WordAt
    <3>2. k < Len(s)
      BY <1>2, <2>1
    <3>3. g[k + 1] = g[k]
      BY <1>6, <2>1, <2>6, <3>2, KeepsStep
    <3>4. k + 1 \in 0 .. n
      BY <1>1, <1>2, <2>1
    <3> QED
      BY ONLY <2>1, <2>2, <2>3, <2>5, <2>6, <3>1, <3>3, <3>4
  <2>7. CASE s[k + 1] \notin c /\ ~WordAt(s, c, k + 1)
    BY ONLY <2>1, <2>2, <2>3, <2>5, <2>7
  <2>8. CASE WordAt(s, c, k + 1)
    <3>1. PICK w, l : w = Word(s, c)[k + 1] /\ l = ft_len(s, c, k + 1)
      OBVIOUS
    <3>2. s[k + 1] \notin c
      BY <2>8 DEF WordAt
    <3>3. d = (k + 1) + l - 1
      BY ONLY <2>1, <2>2, <3>1, <3>2 DEF RunEnd
    <3>4. w \in Texts /\ Len(w) = l /\ \A j \in 1 .. l : w[j] = s[(k + 1) + j - 1]
      <4>1. k + 1 \in Nat \ {0} /\ k + 1 <= Len(s)
        BY <1>1, <1>2, <2>1
      <4> QED
        BY <3>1, <4>1, WordIs
    <3>5. l \in Nat /\ (k + 1) + l - 1 \in (k + 1) - 1 .. Len(s) /\ \A j \in k + 1 .. (k + 1) + l - 1 : s[j] \notin c
      BY <2>1, <3>1, LenIs
    <3>6. ASSUME NEW j \in 1 .. Len(w) PROVE w[j] = s[k + j] /\ s[k + j] \notin c
      <4>1. j \in 1 .. l /\ (k + 1) + j - 1 = k + j /\ k + j \in k + 1 .. (k + 1) + l - 1
        BY <2>1, <3>4, <3>5
      <4>2. w[j] = s[(k + 1) + j - 1]
        BY <3>4, <4>1
      <4>3. s[k + j] \notin c
        BY <3>5, <4>1
      <4> QED
        BY ONLY <4>1, <4>2, <4>3
    <3>7. k + Len(w) = d /\ d \in 0 .. n /\ k + Len(w) <= Len(s)
      BY <1>1, <1>2, <2>1, <3>3, <3>4, <3>5
    <3>8. g[k + Len(w)] = g[k] \o w
      <4>1. RunAt(s, c, k, w)
        BY <2>1, <3>4, <3>6, <3>7 DEF RunAt
      <4>2. k < Len(s)
        BY <1>1, <1>2, <2>1
      <4> QED
        BY <1>6, <4>1, <4>2, RunIsKept
    <3>9. FlattenSeq(f[k]) = g[k] /\ g[k] \in Texts
      <4>1. FlattenSeq(f[k]) = g[k]
        BY ONLY <2>1, <2>2, <2>3, <2>8
      <4>2. k \in 0 .. n
        BY <1>2, <2>1
      <4> QED
        BY <1>7, <4>1, <4>2
    <3>10. FlattenSeq(Append(f[k], w)) = FlattenSeq(f[k]) \o w
      BY <1>8, <2>1, <3>4, <3>9, FlattenAppend
    <3> QED
      BY ONLY <2>2, <2>5, <2>8, <3>1, <3>7, <3>8, <3>9, <3>10
  <2> QED
    BY <2>6, <2>7, <2>8
<1>11. n \in S
  <2>1. S \in SUBSET Nat
    OBVIOUS
  <2> HIDE DEF S
  <2> QED
    BY <1>2, <1>9, <1>10, <2>1, NatSet
<1>12. RunEnd(s, c, n) = n
  BY <1>1, RunEndAll
<1>13. FlattenSeq(f[n]) = g[n]
  BY <1>2, <1>11, <1>12
<1> QED
  BY ONLY <1>1, <1>4, <1>5, <1>13

\* Of the characters kept, each starts a word or follows a kept one.
LEMMA KeptAreCounted ==
  ASSUME NEW s \in Texts, NEW c, NEW W, W = {i \in Nat : s[i] \notin c},
         NEW V, V = {i \in Nat : s[i] \notin c /\ s[i + 1] \notin c}, NEW k \in Nat
  PROVE  Rank(W, k + 1) = Rank(V, k) + Rank(Starts(s, c), k + 1)
<1> DEFINE S == {n \in Nat : Rank(W, n + 1) = Rank(V, n) + Rank(Starts(s, c), n + 1)}
<1>1. \A n \in Nat : (n \in W <=> s[n] \notin c) /\ (n \in V <=> s[n] \notin c /\ s[n + 1] \notin c)
  OBVIOUS
<1>2. 0 \in S
  <2>1. 1 \in W <=> 1 \in Starts(s, c)
    BY <1>1 DEF Starts, WordAt
  <2>2. 0 \in Nat /\ 0 + 1 = 1
    OBVIOUS
  <2>3. Rank(W, 1) = (IF 1 \in W THEN 1 ELSE 0) /\ Rank(V, 0) = 0
        /\ Rank(Starts(s, c), 1) = (IF 1 \in Starts(s, c) THEN 1 ELSE 0)
    BY <2>2, RankStep
  <2> QED
    BY <2>1, <2>2, <2>3
<1>3. ASSUME NEW n \in S PROVE n + 1 \in S
  <2>1. n \in Nat /\ n + 1 \in Nat /\ (n + 1) + 1 \in Nat /\ (n + 1) + 1 # 1 /\ ((n + 1) + 1) - 1 = n + 1
    OBVIOUS
  <2>2. (n + 1) + 1 \in Starts(s, c) <=> s[(n + 1) + 1] \notin c /\ s[n + 1] \in c
    BY <2>1 DEF Starts, WordAt
  <2>3. n + 1 \in V <=> s[n + 1] \notin c /\ s[(n + 1) + 1] \notin c
    BY <1>1, <2>1
  <2>4. (n + 1) + 1 \in W <=> s[(n + 1) + 1] \notin c
    BY <1>1, <2>1
  <2>5. PICK a, b, d : a = Rank(W, n + 1) /\ b = Rank(V, n) /\ d = Rank(Starts(s, c), n + 1)
    OBVIOUS
  <2>6. a \in Nat /\ b \in Nat /\ d \in Nat /\ a = b + d
    BY <2>1, <2>5, RankStep
  <2>7. /\ Rank(W, (n + 1) + 1) = IF (n + 1) + 1 \in W THEN a + 1 ELSE a
        /\ Rank(Starts(s, c), (n + 1) + 1) = IF (n + 1) + 1 \in Starts(s, c) THEN d + 1 ELSE d
        /\ Rank(V, n + 1) = IF n + 1 \in V THEN b + 1 ELSE b
    BY <2>1, <2>5, RankStep
  <2>8. Rank(W, (n + 1) + 1) = Rank(V, n + 1) + Rank(Starts(s, c), (n + 1) + 1)
    BY ONLY <2>2, <2>3, <2>4, <2>6, <2>7
  <2> QED
    BY <2>1, <2>8
<1>4. k \in S
  <2>1. S \in SUBSET Nat
    OBVIOUS
  <2> HIDE DEF S
  <2> QED
    BY <1>2, <1>3, <2>1, NatSet
<1> QED
  BY <1>4

LEMMA SplitCounts ==
  ASSUME NEW s \in Texts, NEW c
  PROVE  Cardinality({i \in 1 .. Len(s) - 1 : s[i] \notin c /\ s[i + 1] \notin c})
           = Len(FlattenSeq(ft_split(s, c))) - Len(ft_split(s, c))
<1>1. PICK n, W, V, together :
        /\ n = Len(s) /\ W = {i \in Nat : s[i] \notin c}
        /\ V = {i \in Nat : s[i] \notin c /\ s[i + 1] \notin c}
        /\ together = {i \in 1 .. Len(s) - 1 : s[i] \notin c /\ s[i + 1] \notin c}
  OBVIOUS
<1>2. n \in Nat
  BY <1>1, TextFacts
<1>3. Len(FlattenSeq(ft_split(s, c))) = Rank(W, n)
  <2>1. PICK g : Collects(g, W, s) /\ Without(s, c) = g[Len(s)]
    BY <1>1, WithoutCollects
  <2>2. Len(s) \in 0 .. Len(s)
    BY TextFacts
  <2>3. Len(g[Len(s)]) = Rank(W, Len(s))
    BY <2>1, <2>2, WithoutTexts
  <2> QED
    BY ONLY <1>1, <2>1, <2>3, WordsAreKept, s \in Texts
<1>4. Len(ft_split(s, c)) = Rank(Starts(s, c), n)
  <2>1. \A i \in Nat \ {0} : Word(s, c)[i] \in Texts
    BY WordIs
  <2>2. PICK f : Collects(f, Starts(s, c), Word(s, c)) /\ ft_split(s, c) = f[Len(s)]
    BY <2>1, SplitCollects
  <2>3. Len(f[n]) = Rank(Starts(s, c), n)
    <3>1. PICK S, e : S = Starts(s, c) /\ e = Word(s, c)
      OBVIOUS
    <3>2. Collects(f, S, e) /\ n \in Nat /\ \A i \in Nat \ {0} : e[i] \in Texts
      BY ONLY <1>2, <2>1, <2>2, <3>1
    <3>3. /\ f[n] \in Seq(Texts) /\ Len(f[n]) = Rank(S, n)
          /\ \A j \in 1 .. Len(f[n]) : \E i \in 1 .. n : i \in S /\ f[n][j] = e[i]
      BY ONLY <3>2, CollectLen
    <3> QED
      BY ONLY <3>1, <3>3
  <2> QED
    BY ONLY <1>1, <2>2, <2>3
<1>5. CASE n = 0
  <2>1. together = {}
    BY <1>1, <1>5
  <2>2. Cardinality(together) = 0
    BY <2>1, FS_EmptySet
  <2>3. Rank(W, 0) = 0 /\ Rank(Starts(s, c), 0) = 0
    BY RankStep
  <2> QED
    BY <1>1, <1>3, <1>4, <1>5, <2>2, <2>3
<1>6. CASE n # 0
  <2>1. PICK k : k = n - 1
    OBVIOUS
  <2>2. k \in Nat /\ k + 1 = n
    BY <1>2, <1>6, <2>1
  <2>3. Cardinality(together) = Rank(V, k)
    <3>1. \A i \in 1 .. k : i \in V <=> s[i] \notin c /\ s[i + 1] \notin c
      BY <1>1
    <3>2. together = {i \in 1 .. k : i \in V}
      BY <1>1, <2>1, <3>1
    <3> QED
      BY <3>2 DEF Rank
  <2>4. Rank(W, k + 1) = Rank(V, k) + Rank(Starts(s, c), k + 1)
    BY <1>1, <2>2, KeptAreCounted
  <2>5. Rank(V, k) \in Nat /\ Rank(Starts(s, c), n) \in Nat /\ Rank(W, n) \in Nat
    BY <1>2, <2>2, RankStep
  <2>6. Rank(W, n) = Rank(V, k) + Rank(Starts(s, c), n)
    BY ONLY <2>2, <2>4
  <2>7. Rank(V, k) = Rank(W, n) - Rank(Starts(s, c), n)
    BY ONLY <2>5, <2>6
  <2> QED
    BY ONLY <1>1, <1>3, <1>4, <2>3, <2>7
<1> QED
  BY <1>5, <1>6

LEMMA WordsHaveNoSeparator ==
  ASSUME NEW s \in Texts, NEW c, NEW w \in ToSet(ft_split(s, c))
  PROVE  w # << >> /\ ToSet(w) \cap c = {}
<1>1. PICK ws : ws = ft_split(s, c)
  OBVIOUS
<1>2. ws \in Seq(Texts) /\ \A j \in 1 .. Len(ws) : \E i \in 1 .. Len(s) : i \in Starts(s, c) /\ ws[j] = Word(s, c)[i]
  BY <1>1, SplitIs
<1>3. PICK j \in 1 .. Len(ws) : w = ws[j]
  <2>1. DOMAIN ws = 1 .. Len(ws)
    BY <1>2, LenProperties
  <2> QED
    BY <1>1, <2>1 DEF ToSet
<1>4. PICK i \in 1 .. Len(s) : i \in Starts(s, c) /\ w = Word(s, c)[i]
  BY <1>2, <1>3
<1>5. i \in Nat \ {0} /\ i <= Len(s)
  BY TextFacts
<1>6. PICK l : l = ft_len(s, c, i)
  OBVIOUS
<1>7. w \in Texts /\ Len(w) = l /\ \A k \in 1 .. l : w[k] = s[i + k - 1]
  BY <1>4, <1>5, <1>6, WordIs
<1>8. /\ l \in Nat /\ \A k \in i .. i + l - 1 : s[k] \notin c
      /\ i + l - 1 = Len(s) \/ s[(i + l - 1) + 1] \in c
  BY <1>6, LenIs
<1>9. l # 0
  <2>1. s[i] \notin c
    BY <1>4 DEF Starts, WordAt
  <2>2. l = 0 => (i + l - 1) + 1 = i /\ i + l - 1 # Len(s)
    BY <1>5, TextFacts
  <2> QED
    BY <1>8, <2>1, <2>2
<1>10. ASSUME NEW x \in ToSet(w) PROVE x \notin c
  <2>1. PICK k \in 1 .. l : x = w[k]
    <3>1. DOMAIN w = 1 .. l
      BY <1>7, LenProperties DEF Texts
    <3> QED
      BY <3>1 DEF ToSet
  <2>2. i + k - 1 \in i .. i + l - 1
    BY <1>5, <1>8
  <2> QED
    BY <1>7, <1>8, <2>1, <2>2
<1> QED
  BY <1>7, <1>9, <1>10, TextFacts

(***************************************************************************)
(* SplitsAtSeparators, for every string and every set of separators:       *)
(* ft_split stores as many words as ft_wordcount made room for, none empty *)
(* or with a separator in it; together they are the string without its     *)
(* separators, and no run of other characters is cut.                      *)
(***************************************************************************)
THEOREM SplitIsAtSeparators == Spec => []SplitsAtSeparators
<1>1. ASSUME mem \in Memories, NEW p \in StringPtrs, NEW c \in Sets
      PROVE  LET s == Str(mem, p) words == ft_split(s, c)
                 together == {i \in 1 .. Len(s) - 1 : s[i] \notin c /\ s[i + 1] \notin c}
             IN  /\ Len(words) = ft_wordcount(s, c)
                 /\ \A w \in ToSet(words) : w # << >> /\ ToSet(w) \cap c = {}
                 /\ FlattenSeq(words) = Without(s, c)
                 /\ Cardinality(together) = Len(FlattenSeq(words)) - Len(words)
  <2>1. Str(mem, p) \in Texts
    BY <1>1, StringPtr, StrIs
  <2> QED
    BY <2>1, SplitIs, WordsHaveNoSeparator, WordsAreKept, SplitCounts
<1>2. mem \in Memories => SplitsAtSeparators
  BY <1>1 DEF SplitsAtSeparators
<1> QED
  BY <1>2, MemoryCorrect, PTL

-----------------------------------------------------------------------------
(***************************************************************************)
(* ft_strnstr and ft_strrstr.                                              *)
(***************************************************************************)
\* little matches at i from its k-th character on, within len characters.
Rest(big, little, len, i, k) ==
  \A j \in k .. Len(little) - 1 : At(big, i + j) = At(little, j) /\ i + j < len

Counters == {q \in Nat \X Nat : q[2] <= q[1]}

Seeks(f, big, little, len) ==
  f = [p \in Counters |->
         IF At(big, p[1]) = At(little, p[2]) /\ p[1] < len
         THEN IF p[2] + 1 = Len(little) THEN p[1] - p[2] ELSE f[<<p[1] + 1, p[2] + 1>>]
         ELSE IF At(big, p[1] - p[2] + 1) # 0 /\ p[1] - p[2] + 1 < len
              THEN f[<<p[1] - p[2] + 1, 0>>] ELSE NULL]

\* What is found from i on.
Onwards(f, big, len, i) == IF At(big, i) # 0 /\ i < len THEN f[<<i, 0>>] ELSE NULL

LEMMA RestStep ==
  ASSUME NEW big, NEW little \in Texts, NEW len, NEW i, NEW k \in Nat, k < Len(little)
  PROVE  Rest(big, little, len, i, k)
           <=> /\ At(big, i + k) = At(little, k) /\ i + k < len
               /\ k + 1 = Len(little) \/ Rest(big, little, len, i, k + 1)
<1>1. PICK n : n = Len(little)
  OBVIOUS
<1>2. n \in Nat /\ k < n
  BY <1>1, TextFacts
<1>3. k + 1 = n => k + 1 .. n - 1 = {}
  BY <1>2
<1>4. \A j : j \in k .. n - 1 <=> j = k \/ j \in k + 1 .. n - 1
  BY <1>2
<1>5. Rest(big, little, len, i, k) <=> \A j \in k .. n - 1 : At(big, i + j) = At(little, j) /\ i + j < len
  BY <1>1 DEF Rest
<1>6. Rest(big, little, len, i, k + 1) <=> \A j \in k + 1 .. n - 1 : At(big, i + j) = At(little, j) /\ i + j < len
  BY <1>1 DEF Rest
<1> QED
  BY ONLY <1>1, <1>3, <1>4, <1>5, <1>6

LEMMA SeeksStep ==
  ASSUME NEW f, NEW big, NEW little, NEW len, Seeks(f, big, little, len), NEW i \in Nat, NEW k \in Nat
  PROVE  f[<<i + k, k>>] = IF At(big, i + k) = At(little, k) /\ i + k < len
                           THEN IF k + 1 = Len(little) THEN i ELSE f[<<i + (k + 1), k + 1>>]
                           ELSE Onwards(f, big, len, i + 1)
<1>1. PICK p : p = <<i + k, k>>
  OBVIOUS
<1>2. p[1] = i + k /\ p[2] = k /\ p \in Counters
  BY <1>1 DEF Counters
<1>3. p[1] - p[2] = i /\ p[1] + 1 = i + (k + 1) /\ p[2] + 1 = k + 1
  BY <1>2
<1>4. f[p] = IF At(big, p[1]) = At(little, p[2]) /\ p[1] < len
             THEN IF p[2] + 1 = Len(little) THEN p[1] - p[2] ELSE f[<<p[1] + 1, p[2] + 1>>]
             ELSE IF At(big, p[1] - p[2] + 1) # 0 /\ p[1] - p[2] + 1 < len
                  THEN f[<<p[1] - p[2] + 1, 0>>] ELSE NULL
  BY <1>2 DEF Seeks
<1> QED
  BY ONLY <1>1, <1>2, <1>3, <1>4 DEF Onwards

\* A search that is at the k-th character of little ends at i, or goes on.
LEMMA SeeksRest ==
  ASSUME NEW f, NEW big, NEW little \in Texts, NEW len, Seeks(f, big, little, len),
         NEW i \in Nat, NEW k \in Nat, k < Len(little)
  PROVE  f[<<i + k, k>>] = IF Rest(big, little, len, i, k) THEN i ELSE Onwards(f, big, len, i + 1)
<1>1. PICK n, next : n = Len(little) /\ next = Onwards(f, big, len, i + 1)
  OBVIOUS
<1>2. n \in Nat /\ k < n
  BY <1>1, TextFacts
<1>2a. ASSUME NEW c \in Nat
       PROVE  f[<<i + c, c>>] = IF At(big, i + c) = At(little, c) /\ i + c < len
                                THEN IF c + 1 = Len(little) THEN i ELSE f[<<i + (c + 1), c + 1>>]
                                ELSE Onwards(f, big, len, i + 1)
  <2>1. Seeks(f, big, little, len)
    OBVIOUS
  <2> QED
    BY ONLY <2>1, c \in Nat, i \in Nat, SeeksStep
<1> DEFINE Good(c) == f[<<i + c, c>>] = IF Rest(big, little, len, i, c) THEN i ELSE next
           S == {d \in Nat : d < n => Good(n - 1 - d)}
<1>3. ASSUME NEW c \in Nat, c < n, c + 1 = n \/ Good(c + 1) PROVE Good(c)
  <2>1. f[<<i + c, c>>] = IF At(big, i + c) = At(little, c) /\ i + c < len
                          THEN IF c + 1 = n THEN i ELSE f[<<i + (c + 1), c + 1>>]
                          ELSE next
    BY ONLY <1>1, <1>2a, c \in Nat
  <2>2. Rest(big, little, len, i, c)
          <=> /\ At(big, i + c) = At(little, c) /\ i + c < len
              /\ c + 1 = n \/ Rest(big, little, len, i, c + 1)
    BY <1>1, <1>3, RestStep
  <2> QED
    BY ONLY <1>3, <2>1, <2>2
<1>4. 0 \in S
  <2>1. 0 < n => n - 1 - 0 \in Nat /\ n - 1 - 0 < n /\ (n - 1 - 0) + 1 = n
    BY <1>2
  <2> HIDE DEF Good
  <2> QED
    BY <1>3, <2>1
<1>5. ASSUME NEW d \in S PROVE d + 1 \in S
  <2> SUFFICES ASSUME d + 1 < n PROVE Good(n - 1 - (d + 1))
    OBVIOUS
  <2>1. PICK c : c = n - 1 - (d + 1)
    OBVIOUS
  <2>2. c \in Nat /\ c < n /\ c + 1 = n - 1 - d /\ d < n
    BY <1>2, <2>1
  <2> HIDE DEF Good
  <2>3. Good(c + 1)
    BY <2>2
  <2> QED
    BY <1>3, <2>1, <2>2, <2>3
<1>6. n - 1 - k \in S
  <2>1. S \in SUBSET Nat /\ n - 1 - k \in Nat
    BY <1>2
  <2> HIDE DEF S
  <2> QED
    BY <1>4, <1>5, <2>1, NatSet
<1>7. Good(k)
  <2>1. n - 1 - k < n /\ n - 1 - (n - 1 - k) = k
    BY <1>2
  <2> HIDE DEF Good
  <2> QED
    BY <1>6, <2>1
<1> QED
  BY <1>1, <1>7

LEMMA SeeksExists ==
  ASSUME NEW big, NEW little \in Texts, NEW len
  PROVE  \E f : Seeks(f, big, little, len)
<1> DEFINE stop == {i \in Nat : ~(At(big, i) # 0 /\ i < len) \/ (0 < Len(little) /\ Rest(big, little, len, i, 0))}
           v == [i \in Nat |-> IF At(big, i) # 0 /\ i < len THEN i ELSE NULL]
<1>1. PICK g : ScansUp(g, stop, v)
  <2>1. stop \in SUBSET Nat
    OBVIOUS
  <2> HIDE DEF stop, v
  <2> QED
    BY <2>1, ScanUpExists
<1>2. PICK n : n = Len(little)
  OBVIOUS
<1>3. n \in Nat
  BY <1>2, TextFacts
<1> DEFINE Value(i, k) == IF k < n /\ Rest(big, little, len, i, k) THEN i ELSE g[i + 1]
           f == [p \in Counters |-> Value(p[1] - p[2], p[2])]
<1>4. ASSUME NEW i \in Nat PROVE f[<<i, 0>>] = Value(i, 0)
  <2>1. PICK p : p = <<i, 0>>
    OBVIOUS
  <2>2. p[1] = i /\ p[2] = 0 /\ p \in Counters /\ p[1] - p[2] = i
    BY <2>1 DEF Counters
  <2> HIDE DEF Value
  <2>3. f[p] = Value(p[1] - p[2], p[2])
    BY <2>2
  <2> HIDE DEF f
  <2> QED
    BY ONLY <2>1, <2>2, <2>3
<1>5. ASSUME NEW i \in Nat PROVE g[i] = Onwards(f, big, len, i)
  <2>1. g[i] = IF i \in stop THEN v[i] ELSE g[i + 1]
    <3> HIDE DEF stop, v
    <3> QED
      BY <1>1 DEF ScansUp
  <2>2. i \in stop <=> ~(At(big, i) # 0 /\ i < len) \/ (0 < n /\ Rest(big, little, len, i, 0))
    BY <1>2
  <2>3. v[i] = IF At(big, i) # 0 /\ i < len THEN i ELSE NULL
    OBVIOUS
  <2> HIDE DEF f, stop, v
  <2> QED
    BY ONLY <1>4, <2>1, <2>2, <2>3, i \in Nat DEF Onwards
<1>6. ASSUME NEW p \in Counters
      PROVE  f[p] = IF At(big, p[1]) = At(little, p[2]) /\ p[1] < len
                    THEN IF p[2] + 1 = Len(little) THEN p[1] - p[2] ELSE f[<<p[1] + 1, p[2] + 1>>]
                    ELSE IF At(big, p[1] - p[2] + 1) # 0 /\ p[1] - p[2] + 1 < len
                         THEN f[<<p[1] - p[2] + 1, 0>>] ELSE NULL
  <2>1. PICK i, k : i = p[1] - p[2] /\ k = p[2]
    OBVIOUS
  <2>2. i \in Nat /\ k \in Nat /\ p[1] = i + k /\ i + 1 \in Nat
    BY <2>1 DEF Counters
  <2>3. f[p] = Value(i, k)
    <3> HIDE DEF Value
    <3> QED
      BY <2>1
  <2>4. f[<<p[1] + 1, p[2] + 1>>] = Value(i, k + 1)
    <3>1. PICK q : q = <<p[1] + 1, p[2] + 1>>
      OBVIOUS
    <3>2. q \in Counters /\ q[1] - q[2] = i /\ q[2] = k + 1
      BY <2>1, <2>2, <3>1 DEF Counters
    <3> HIDE DEF Value
    <3>3. f[q] = Value(q[1] - q[2], q[2])
      BY <3>2
    <3> HIDE DEF f
    <3> QED
      BY ONLY <3>1, <3>2, <3>3
  <2>5. g[i + 1] = Onwards(f, big, len, i + 1)
    BY <1>5, <2>2
  <2>6. k < n => (Rest(big, little, len, i, k)
                   <=> /\ At(big, i + k) = At(little, k) /\ i + k < len
                       /\ k + 1 = n \/ Rest(big, little, len, i, k + 1))
    <3>1. k < Len(little) => (Rest(big, little, len, i, k)
                   <=> /\ At(big, i + k) = At(little, k) /\ i + k < len
                       /\ k + 1 = Len(little) \/ Rest(big, little, len, i, k + 1))
      BY <2>2, RestStep
    <3> QED
      BY ONLY <1>2, <3>1
  <2>7. k + 1 # n => (k < n <=> k + 1 < n)
    BY <1>3, <2>2
  <2>8. k + 1 = n => k < n
    BY <1>3, <2>2
  <2>9. k + 1 < n => k < n
    BY <1>3, <2>2
  <2>10. Value(i, k) = IF At(big, i + k) = At(little, k) /\ i + k < len
                       THEN IF k + 1 = n THEN i ELSE Value(i, k + 1)
                       ELSE g[i + 1]
    BY ONLY <2>6, <2>7, <2>8, <2>9
  <2> HIDE DEF f, Value
  <2> QED
    BY ONLY <1>2, <2>1, <2>2, <2>3, <2>4, <2>5, <2>10 DEF Onwards
<1>7. f = [p \in Counters |-> f[p]]
  OBVIOUS
<1> HIDE DEF f
<1>8. Seeks(f, big, little, len)
  BY <1>6, <1>7 DEF Seeks
<1> QED
  BY <1>8

Matches(s, t, i, n) ==
  SubSeq(s, i + 1, i + n) = t <=> \A j \in 0 .. n - 1 : s[i + j + 1] = t[j + 1]

LEMMA MatchIs ==
  ASSUME NEW s \in Texts, NEW t \in Texts, NEW i \in Nat, i + Len(t) <= Len(s)
  PROVE  Matches(s, t, i, Len(t))
<1>1. PICK n, u : n = Len(t) /\ u = SubSeq(s, i + 1, i + n)
  OBVIOUS
<1>2. n \in Nat
  BY <1>1, TextFacts
<1>3. u \in Texts /\ Len(u) = n /\ \A j \in 1 .. n : u[j] = s[i + j]
  <2>1. PICK e : e = i + n
    OBVIOUS
  <2>2. e \in 0 .. Len(s) /\ i <= e /\ e - i = n
    BY <1>1, <1>2, <2>1, TextFacts
  <2>3. /\ SubSeq(s, i + 1, e) \in Texts /\ Len(SubSeq(s, i + 1, e)) = (IF i <= e THEN e - i ELSE 0)
        /\ \A j \in 1 .. e - i : SubSeq(s, i + 1, e)[j] = s[i + j]
    BY <2>2, MiddleIs
  <2> QED
    BY ONLY <1>1, <2>1, <2>2, <2>3
<1>4. ASSUME u = t, NEW j \in 0 .. n - 1 PROVE s[i + j + 1] = t[j + 1]
  <2>1. j + 1 \in 1 .. n /\ i + (j + 1) = i + j + 1
    BY <1>2
  <2>2. u[j + 1] = s[i + (j + 1)]
    BY <1>3, <2>1
  <2> QED
    BY ONLY <1>4, <2>1, <2>2
<1>5. ASSUME \A j \in 0 .. n - 1 : s[i + j + 1] = t[j + 1] PROVE u = t
  <2>1. ASSUME NEW k \in 1 .. n PROVE u[k] = t[k]
    <3>1. k - 1 \in 0 .. n - 1 /\ (k - 1) + 1 = k /\ i + (k - 1) + 1 = i + k
      BY <1>2
    <3>2. s[i + (k - 1) + 1] = t[(k - 1) + 1]
      BY <1>5, <3>1
    <3>3. u[k] = s[i + k]
      BY <1>3
    <3> QED
      BY ONLY <3>1, <3>2, <3>3
  <2> QED
    BY <1>1, <1>3, <2>1, SameText
<1> QED
  BY ONLY <1>1, <1>4, <1>5 DEF Matches

LEMMA PlaceIs ==
  ASSUME NEW big \in Texts, NEW little \in Texts, NEW len \in Nat, NEW i \in Nat, little # << >>
  PROVE  /\ Rest(big, little, len, i, 0) <=> i \in Places(big, little, len)
         /\ i \in Places(big, little, len) => At(big, i) # 0 /\ i < len /\ i < Len(big)
<1>1. PICK n, b, top : n = Len(little) /\ b = Len(big) /\ top = IF b <= len THEN b ELSE len
  OBVIOUS
<1>2. n \in Nat /\ b \in Nat /\ 0 < n
  BY <1>1, TextFacts
<1>3. Min({b, len}) = top /\ top \in Nat
  <2>1. b \in Int /\ len \in Int
    BY <1>2
  <2> QED
    BY <1>1, <1>2, <2>1, MinOfTwo
<1>4. i \in Places(big, little, len) <=> i + n <= top /\ \A j \in 0 .. n - 1 : big[i + j + 1] = little[j + 1]
  <2>1. i \in 0 .. top - n <=> i + n <= top
    BY <1>2, <1>3
  <2>2. i + n <= top => i + n <= b
    BY <1>1, <1>2, <1>3
  <2>3. i + n <= b => (SubSeq(big, i + 1, i + n) = little <=> \A j \in 0 .. n - 1 : big[i + j + 1] = little[j + 1])
    <3>1. i + Len(little) <= Len(big) => Matches(big, little, i, Len(little))
      BY MatchIs
    <3> QED
      BY ONLY <1>1, <3>1 DEF Matches
  <2>4. i \in Places(big, little, len) <=> i \in 0 .. top - n /\ SubSeq(big, i + 1, i + n) = little
    BY ONLY <1>1, <1>3 DEF Places
  <2> QED
    BY ONLY <2>1, <2>2, <2>3, <2>4
<1>5. \A j \in 0 .. n - 1 : At(little, j) = little[j + 1] /\ little[j + 1] # 0
  <2>1. ASSUME NEW j \in 0 .. n - 1 PROVE At(little, j) = little[j + 1] /\ little[j + 1] # 0
    <3>1. j < n /\ j + 1 \in 1 .. n
      BY <1>2
    <3> QED
      BY <1>1, <3>1, TextFacts DEF At
  <2> QED
    BY <2>1
<1>6. ASSUME Rest(big, little, len, i, 0)
      PROVE  i + n <= top /\ \A j \in 0 .. n - 1 : big[i + j + 1] = little[j + 1]
  <2>1. \A j \in 0 .. n - 1 : At(big, i + j) = At(little, j) /\ i + j < len
    BY <1>1, <1>6 DEF Rest
  <2>2. \A j \in 0 .. n - 1 : i + j < b /\ At(big, i + j) = big[i + j + 1]
    <3>1. ASSUME NEW j \in 0 .. n - 1 PROVE i + j < b /\ At(big, i + j) = big[i + j + 1]
      <4>1. At(big, i + j) # 0
        BY <1>5, <2>1
      <4> QED
        BY <1>1, <4>1 DEF At
    <3> QED
      BY <3>1
  <2>3. i + n <= top
    <3>1. n - 1 \in 0 .. n - 1
      BY <1>2
    <3>2. i + (n - 1) < b /\ i + (n - 1) < len
      BY <2>1, <2>2, <3>1
    <3> QED
      BY <1>1, <1>2, <3>2
  <2>4. \A j \in 0 .. n - 1 : big[i + j + 1] = little[j + 1]
    BY <1>5, <2>1, <2>2
  <2> QED
    BY <2>3, <2>4
<1>7. ASSUME i + n <= top, \A j \in 0 .. n - 1 : big[i + j + 1] = little[j + 1]
      PROVE  Rest(big, little, len, i, 0) /\ At(big, i) # 0 /\ i < len /\ i < b
  <2>1. ASSUME NEW j \in 0 .. n - 1
        PROVE  At(big, i + j) = At(little, j) /\ i + j < len /\ i + j < b /\ At(big, i + j) # 0
    <3>1. i + j < b /\ i + j < len
      BY <1>1, <1>2, <1>3, <1>7
    <3>2. At(big, i + j) = big[i + j + 1]
      BY <1>1, <3>1 DEF At
    <3>3. big[i + j + 1] = little[j + 1]
      BY <1>7
    <3>4. At(little, j) = little[j + 1] /\ little[j + 1] # 0
      BY <1>5
    <3> QED
      BY ONLY <3>1, <3>2, <3>3, <3>4
  <2>2. 0 \in 0 .. n - 1 /\ i + 0 = i
    BY <1>2
  <2>3. Rest(big, little, len, i, 0)
    BY <1>1, <2>1 DEF Rest
  <2>4. At(big, i) # 0 /\ i < len /\ i < b
    <3>1. At(big, i + 0) # 0 /\ i + 0 < len /\ i + 0 < b
      BY <2>1, <2>2
    <3> QED
      BY ONLY <2>2, <3>1
  <2> QED
    BY <2>3, <2>4
<1> QED
  BY ONLY <1>1, <1>4, <1>6, <1>7

LEMMA StrnstrFinds ==
  ASSUME NEW big \in Texts, NEW little \in Texts, NEW len \in Nat
  PROVE  ft_strnstr(big, little, len) = LeastOf(Places(big, little, len))
<1>1. PICK b, n, top, places :
        b = Len(big) /\ n = Len(little) /\ top = (IF b <= len THEN b ELSE len) /\ places = Places(big, little, len)
  OBVIOUS
<1>2. b \in Nat /\ n \in Nat /\ top \in Nat /\ (little = << >> <=> n = 0) /\ (big = << >> <=> b = 0)
  BY <1>1, TextFacts
<1>3. Min({b, len}) = top
  <2>1. b \in Int /\ len \in Int
    BY <1>2
  <2> QED
    BY <1>1, <2>1, MinOfTwo
<1>4. places \in SUBSET Nat /\ places \subseteq 0 .. top - n
  <2>1. \A i \in 0 .. top - n : i \in Nat
    OBVIOUS
  <2> QED
    BY <1>1, <1>3, <2>1 DEF Places
<1>5. CASE little = << >>
  <2>1. ft_strnstr(big, little, len) = 0
    BY <1>5 DEF ft_strnstr
  <2>2. 0 \in places
    <3>1. n = 0 /\ 0 \in 0 .. top - n
      BY <1>2, <1>5
    <3>2. SubSeq(big, 0 + 1, 0 + n) = little
      BY <1>5, <3>1, SubSeqEmpty
    <3> QED
      BY <1>1, <1>3, <3>1, <3>2 DEF Places
  <2>3. Min(places) = 0
    <3>1. places \in SUBSET Int /\ \A j \in places : 0 <= j
      BY <1>4
    <3> QED
      BY <2>2, <3>1, MinIs
  <2> QED
    BY <1>1, <2>1, <2>2, <2>3 DEF LeastOf
<1>6. CASE little # << >> /\ (big = << >> \/ len = 0)
  <2>1. ft_strnstr(big, little, len) = NULL
    BY <1>6 DEF ft_strnstr
  <2>2. places = {}
    <3>1. top = 0 /\ n > 0
      BY <1>1, <1>2, <1>6
    <3>2. 0 .. top - n = {}
      BY <1>2, <3>1
    <3> QED
      BY <1>4, <3>2
  <2> QED
    BY <1>1, <2>1, <2>2 DEF LeastOf
<1>7. CASE little # << >> /\ ~(big = << >> \/ len = 0)
  <2> DEFINE IsFrom(f) ==
               f = [p \in {q \in Nat \X Nat : q[2] <= q[1]} |->
                      LET next == p[1] - p[2] + 1
                      IN  IF At(big, p[1]) = At(little, p[2]) /\ p[1] < len
                          THEN IF p[2] + 1 = Len(little) THEN p[1] - p[2] ELSE f[<<p[1] + 1, p[2] + 1>>]
                          ELSE IF At(big, next) # 0 /\ next < len THEN f[<<next, 0>>] ELSE NULL]
             from == CHOOSE f : IsFrom(f)
  <2>1. \A f : Seeks(f, big, little, len) <=> IsFrom(f)
    BY DEF Seeks, Counters
  <2>2. \E f : Seeks(f, big, little, len)
    BY SeeksExists
  <2>3. ft_strnstr(big, little, len) = from[<<0, 0>>]
    BY ONLY <1>7 DEF ft_strnstr
  <2>4. Seeks(from, big, little, len)
    BY <2>1, <2>2
  <2> HIDE DEF from
  <2> DEFINE h == [i \in Nat |-> Onwards(from, big, len, i)]
             stop == {i \in Nat : ~(At(big, i) # 0 /\ i < len) \/ i \in places}
             v == [i \in Nat |-> IF At(big, i) # 0 /\ i < len THEN i ELSE NULL]
  <2>5. \A i \in Nat : from[<<i, 0>>] = IF i \in places THEN i ELSE Onwards(from, big, len, i + 1)
    <3>1. ASSUME NEW i \in Nat PROVE from[<<i, 0>>] = IF i \in places THEN i ELSE Onwards(from, big, len, i + 1)
      <4>1. 0 \in Nat /\ 0 < Len(little) /\ i + 0 = i
        BY <1>1, <1>2, <1>7
      <4>2. from[<<i + 0, 0>>] = IF Rest(big, little, len, i, 0) THEN i ELSE Onwards(from, big, len, i + 1)
        BY <2>4, <4>1, SeeksRest
      <4>3. Rest(big, little, len, i, 0) <=> i \in places
        BY <1>1, <1>7, PlaceIs
      <4> QED
        BY ONLY <4>1, <4>2, <4>3
    <3> QED
      BY <3>1
  <2>6. ScansUp(h, stop, v)
    <3>1. ASSUME NEW i \in Nat PROVE h[i] = IF i \in stop THEN v[i] ELSE h[i + 1]
      <4>1. /\ h[i] = Onwards(from, big, len, i) /\ h[i + 1] = Onwards(from, big, len, i + 1)
            /\ i \in stop <=> ~(At(big, i) # 0 /\ i < len) \/ i \in places
            /\ v[i] = IF At(big, i) # 0 /\ i < len THEN i ELSE NULL
        OBVIOUS
      <4>2. from[<<i, 0>>] = IF i \in places THEN i ELSE Onwards(from, big, len, i + 1)
        BY <2>5
      <4>3. Onwards(from, big, len, i) = IF At(big, i) # 0 /\ i < len THEN from[<<i, 0>>] ELSE NULL
        BY DEF Onwards
      <4> HIDE DEF h, stop, v
      <4> QED
        BY ONLY <4>1, <4>2, <4>3
    <3>2. h = [i \in Nat |-> h[i]]
      OBVIOUS
    <3> HIDE DEF h, stop, v
    <3> QED
      BY <3>1, <3>2 DEF ScansUp
  <2>7. from[<<0, 0>>] = h[0]
    <3>1. At(big, 0) # 0 /\ 0 < len
      <4>1. 0 < b /\ 0 + 1 \in 1 .. Len(big)
        BY <1>1, <1>2, <1>7
      <4>2. At(big, 0) = big[0 + 1]
        BY <1>1, <4>1 DEF At
      <4>3. big[0 + 1] # 0
        BY <4>1, TextFacts
      <4> QED
        BY <1>7, <4>2, <4>3
    <3>2. h[0] = Onwards(from, big, len, 0)
      OBVIOUS
    <3> QED
      BY ONLY <3>1, <3>2 DEF Onwards
  <2>8. \A i \in 0 .. top - 1 : At(big, i) # 0 /\ i < len
    <3>1. ASSUME NEW i \in 0 .. top - 1 PROVE At(big, i) # 0 /\ i < len
      <4>1. i < b /\ i < len /\ i + 1 \in 1 .. Len(big)
        BY <1>1, <1>2
      <4>2. At(big, i) = big[i + 1]
        BY <1>1, <4>1 DEF At
      <4>3. big[i + 1] # 0
        BY <4>1, TextFacts
      <4> QED
        BY <4>1, <4>2, <4>3
    <3> QED
      BY <3>1
  <2>9. CASE places = {}
    <3>1. ~(At(big, top) # 0 /\ top < len)
      <4>1. top < len => ~(top < Len(big))
        BY <1>1, <1>2
      <4> QED
        BY <4>1 DEF At
    <3>2. top \in stop /\ top \in Nat /\ 0 <= top /\ v[top] = NULL
      BY <1>2, <3>1
    <3>3. \A k \in 0 .. top - 1 : k \notin stop
      BY <2>8, <2>9
    <3> HIDE DEF h, stop, v
    <3>4. h[0] = v[top]
      BY <2>6, <3>2, <3>3, ScanUpValue
    <3> QED
      BY ONLY <1>1, <2>3, <2>7, <2>9, <3>2, <3>4 DEF LeastOf
  <2>10. CASE places # {}
    <3>1. PICK j : j = Min(places) /\ j \in places /\ \A i \in places : j <= i
      BY <1>4, <2>10, LeastNat
    <3>2. j \in Nat /\ j < top
      <4>1. j \in 0 .. top - n /\ n > 0
        BY <1>2, <1>4, <1>7, <3>1
      <4> QED
        BY <1>2, <4>1
    <3>3. j \in stop /\ 0 <= j /\ v[j] = j
      <4>1. j \in 0 .. top - 1
        BY <1>2, <3>2
      <4>2. At(big, j) # 0 /\ j < len
        BY <2>8, <4>1
      <4> QED
        BY <3>1, <3>2, <4>2
    <3>4. ASSUME NEW k \in 0 .. j - 1 PROVE k \notin stop
      <4>1. k \in 0 .. top - 1 /\ ~(j <= k)
        BY <1>2, <3>2
      <4>2. At(big, k) # 0 /\ k < len
        BY <2>8, <4>1
      <4> QED
        BY <3>1, <4>1, <4>2
    <3> HIDE DEF h, stop, v
    <3>5. h[0] = v[j]
      BY <2>6, <3>2, <3>3, <3>4, ScanUpValue
    <3> QED
      BY ONLY <1>1, <2>3, <2>7, <2>10, <3>1, <3>3, <3>5 DEF LeastOf
  <2> QED
    BY <2>9, <2>10
<1> QED
  BY <1>5, <1>6, <1>7

FindsLast(s, t, len, lo) ==
  ft_strrstr(s, t, len) <=> t # << >> /\ \E j \in lo .. Len(s) - Len(t) : SubSeq(s, j + 1, j + Len(t)) = t

LEMMA StrrstrFinds ==
  ASSUME NEW s \in Texts, NEW t \in Texts, NEW len \in Nat,
         NEW lo, lo = IF 0 >= Len(s) - len THEN 0 ELSE Len(s) - len
  PROVE  FindsLast(s, t, len, lo)
<1> DEFINE Here(i) == SubSeq(s, i + 1, i + Len(t)) = t
           IsDown(f) == f = [i \in Int |-> /\ i >= 0 /\ i >= Len(s) - len
                                           /\ SubSeq(s, i + 1, i + Len(t)) = t \/ f[i - 1]]
           down == CHOOSE f : IsDown(f)
<1>1. PICK b, n : b = Len(s) /\ n = Len(t)
  OBVIOUS
<1>2. b \in Nat /\ n \in Nat /\ lo \in Nat /\ (t = << >> <=> n = 0)
  BY <1>1, TextFacts
<1>3. \A i \in Int : i >= 0 /\ i >= Len(s) - len <=> lo <= i
  BY <1>1, <1>2
<1>4. \E f : IsDown(f)
  <2> DEFINE g == [i \in Int |-> \E j \in lo .. i : Here(j)]
  <2>1. ASSUME NEW i \in Int
        PROVE  g[i] = (/\ i >= 0 /\ i >= Len(s) - len
                       /\ SubSeq(s, i + 1, i + Len(t)) = t \/ g[i - 1])
    <3>1. g[i] = (\E j \in lo .. i : Here(j)) /\ g[i - 1] = (\E j \in lo .. i - 1 : Here(j))
      <4>1. i - 1 \in Int
        OBVIOUS
      <4> QED
        BY <4>1, Zenon
    <3>2. (\E j \in lo .. i : Here(j)) <=> lo <= i /\ (Here(i) \/ \E j \in lo .. i - 1 : Here(j))
      <4>1. \A j : j \in lo .. i <=> lo <= i /\ (j = i \/ j \in lo .. i - 1)
        BY <1>2
      <4> HIDE DEF Here
      <4> QED
        BY <4>1
    <3>3. lo <= i <=> i >= 0 /\ i >= Len(s) - len
      BY <1>3
    <3>4. g[i] = (lo <= i /\ (Here(i) \/ g[i - 1]))
      <4> HIDE DEF Here, g
      <4> QED
        BY <3>1, <3>2, Zenon
    <3> HIDE DEF g
    <3> QED
      BY <3>3, <3>4, Zenon
  <2>2. g = [i \in Int |-> g[i]]
    OBVIOUS
  <2> HIDE DEF g
  <2>3. IsDown(g)
    BY <2>1, <2>2
  <2> QED
    BY <2>3
<1>5. IsDown(down)
  BY <1>4
<1>6. ft_strrstr(s, t, len) <=> t # << >> /\ Len(t) <= Len(s) /\ Len(t) <= len /\ down[Len(s) - Len(t)]
  BY DEF ft_strrstr
<1> HIDE DEF down
<1>7. ASSUME NEW i \in Int PROVE down[i] <=> lo <= i /\ (Here(i) \/ down[i - 1])
  <2>1. down[i] = (/\ i >= 0 /\ i >= Len(s) - len
                   /\ SubSeq(s, i + 1, i + Len(t)) = t \/ down[i - 1])
    BY <1>5, Zenon
  <2>2. lo <= i <=> i >= 0 /\ i >= Len(s) - len
    BY <1>3
  <2> QED
    BY <2>1, <2>2, Zenon
<1> HIDE DEF Here
<1> DEFINE S == {d \in Nat : down[lo - 1 + d] <=> \E j \in lo .. lo - 1 + d : Here(j)}
<1>8. 0 \in S
  <2>1. lo - 1 + 0 \in Int /\ ~(lo <= lo - 1 + 0) /\ lo .. lo - 1 + 0 = {}
    BY <1>2
  <2>2. ~down[lo - 1 + 0]
    BY <1>7, <2>1
  <2>3. ~(\E j \in lo .. lo - 1 + 0 : Here(j))
    BY <2>1
  <2> QED
    BY <2>2, <2>3
<1>9. ASSUME NEW d \in S PROVE d + 1 \in S
  <2>1. PICK i : i = lo - 1 + (d + 1)
    OBVIOUS
  <2>2. i \in Int /\ lo <= i /\ i - 1 = lo - 1 + d /\ \A j : j \in lo .. i <=> j = i \/ j \in lo .. i - 1
    <3>1. d \in Nat
      OBVIOUS
    <3>2. i \in Int /\ lo <= i /\ i - 1 = lo - 1 + d
      BY ONLY <1>2, <2>1, <3>1
    <3>3. \A j : j \in lo .. i <=> j = i \/ j \in lo .. i - 1
      BY ONLY <1>2, <3>2
    <3> QED
      BY <3>2, <3>3
  <2>3. down[lo - 1 + d] <=> \E j \in lo .. lo - 1 + d : Here(j)
    OBVIOUS
  <2>4. down[i] <=> Here(i) \/ down[i - 1]
    BY <1>7, <2>2
  <2>5. down[i] <=> \E j \in lo .. i : Here(j)
    BY ONLY <2>2, <2>3, <2>4
  <2>6. d + 1 \in Nat
    OBVIOUS
  <2> QED
    BY <2>1, <2>5, <2>6
<1>10. ASSUME lo <= b - n PROVE down[b - n] <=> \E j \in lo .. b - n : Here(j)
  <2>1. PICK d : d = b - n - lo + 1
    OBVIOUS
  <2>2. d \in Nat /\ lo - 1 + d = b - n
    BY ONLY <1>2, <1>10, <2>1
  <2>3. d \in S
    <3>1. S \in SUBSET Nat
      OBVIOUS
    <3> HIDE DEF S
    <3> QED
      BY <1>8, <1>9, <2>2, <3>1, NatSet
  <2> QED
    BY <2>2, <2>3
<1>11. n <= b /\ n <= len <=> lo <= b - n
  BY <1>1, <1>2
<1>12. (\E j \in lo .. b - n : Here(j)) => lo <= b - n
  BY <1>2
<1> QED
  BY ONLY <1>1, <1>6, <1>10, <1>11, <1>12 DEF Here, FindsLast

\* A place in the last characters of a string is a place in the string.
LEMMA PlacesInTail ==
  ASSUME NEW s \in Texts, NEW t \in Texts, NEW lo \in 0 .. Len(s)
  PROVE  LET tail == SubSeq(s, lo + 1, Len(s))
         IN  Places(tail, t, Len(tail)) # {}
               <=> \E j \in lo .. Len(s) - Len(t) : SubSeq(s, j + 1, j + Len(t)) = t
<1>1. PICK b, n, tail, r : b = Len(s) /\ n = Len(t) /\ tail = SubSeq(s, lo + 1, Len(s)) /\ r = Len(tail)
  OBVIOUS
<1>2. b \in Nat /\ n \in Nat /\ lo \in Nat /\ lo <= b
  BY <1>1, TextFacts
<1>3. tail \in Texts /\ r = b - lo /\ \A i \in 1 .. b - lo : tail[i] = s[lo + i]
  <2>1. b \in 0 .. Len(s)
    BY <1>1, <1>2
  <2> QED
    BY <1>1, <1>2, <2>1, MiddleIs
<1>4. Places(tail, t, r) = {i \in 0 .. r - n : SubSeq(tail, i + 1, i + n) = t}
  <2>1. r \in Int
    BY <1>2, <1>3
  <2>2. Min({r, r}) = r
    BY <2>1, MinOfTwo
  <2> QED
    BY ONLY <1>1, <2>2 DEF Places
<1>5. ASSUME NEW i \in 0 .. r - n
      PROVE  SubSeq(tail, i + 1, i + n) = t <=> SubSeq(s, (lo + i) + 1, (lo + i) + n) = t
  <2>1. i \in Nat /\ i + n <= r /\ lo + i \in Nat /\ (lo + i) + n <= b
    BY <1>2, <1>3
  <2>2. SubSeq(tail, i + 1, i + n) = t <=> \A j \in 0 .. n - 1 : tail[i + j + 1] = t[j + 1]
    <3>1. tail \in Texts /\ i \in Nat /\ i + Len(t) <= Len(tail)
      BY <1>1, <1>3, <2>1
    <3>2. Matches(tail, t, i, Len(t))
      BY <3>1, MatchIs
    <3> QED
      BY ONLY <1>1, <3>2 DEF Matches
  <2>3. SubSeq(s, (lo + i) + 1, (lo + i) + n) = t <=> \A j \in 0 .. n - 1 : s[(lo + i) + j + 1] = t[j + 1]
    <3>1. lo + i \in Nat /\ (lo + i) + Len(t) <= Len(s)
      BY <1>1, <2>1
    <3>2. Matches(s, t, lo + i, Len(t))
      BY <3>1, MatchIs
    <3> QED
      BY ONLY <1>1, <3>2 DEF Matches
  <2>4. ASSUME NEW j \in 0 .. n - 1 PROVE tail[i + j + 1] = s[(lo + i) + j + 1]
    <3>1. i + j + 1 \in 1 .. b - lo /\ lo + (i + j + 1) = (lo + i) + j + 1
      BY <1>2, <1>3, <2>1
    <3>2. tail[i + j + 1] = s[lo + (i + j + 1)]
      BY <1>3, <3>1
    <3> QED
      BY ONLY <3>1, <3>2
  <2>5. (\A j \in 0 .. n - 1 : tail[i + j + 1] = t[j + 1])
          <=> \A j \in 0 .. n - 1 : s[(lo + i) + j + 1] = t[j + 1]
    <3>1. ASSUME \A j \in 0 .. n - 1 : tail[i + j + 1] = t[j + 1], NEW j \in 0 .. n - 1
          PROVE  s[(lo + i) + j + 1] = t[j + 1]
      BY ONLY <2>4, <3>1, j \in 0 .. n - 1
    <3>2. ASSUME \A j \in 0 .. n - 1 : s[(lo + i) + j + 1] = t[j + 1], NEW j \in 0 .. n - 1
          PROVE  tail[i + j + 1] = t[j + 1]
      BY ONLY <2>4, <3>2, j \in 0 .. n - 1
    <3> QED
      BY ONLY <3>1, <3>2
  <2>6. SubSeq(tail, i + 1, i + n) = t <=> \A j \in 0 .. n - 1 : s[(lo + i) + j + 1] = t[j + 1]
    BY ONLY <2>2, <2>5
  <2> QED
    BY ONLY <2>3, <2>6
<1>6. ASSUME Places(tail, t, r) # {} PROVE \E j \in lo .. b - n : SubSeq(s, j + 1, j + n) = t
  <2>1. PICK i \in 0 .. r - n : SubSeq(tail, i + 1, i + n) = t
    BY <1>4, <1>6
  <2>2. lo + i \in lo .. b - n
    BY <1>2, <1>3
  <2>3. SubSeq(s, (lo + i) + 1, (lo + i) + n) = t
    BY <1>5, <2>1
  <2> QED
    BY <2>2, <2>3
<1>7. ASSUME NEW j \in lo .. b - n, SubSeq(s, j + 1, j + n) = t PROVE Places(tail, t, r) # {}
  <2>1. PICK i : i = j - lo
    OBVIOUS
  <2>2. i \in 0 .. r - n /\ lo + i = j
    BY <1>2, <1>3, <2>1
  <2>3. SubSeq(tail, i + 1, i + n) = t
    BY <1>5, <1>7, <2>2
  <2> QED
    BY <1>4, <2>2, <2>3
<1> QED
  BY ONLY <1>1, <1>6, <1>7

(***************************************************************************)
(* FindsString, for every two strings and every length: ft_strnstr finds   *)
(* the first place there is, also when a match begins inside a failed one, *)
(* and ft_strrstr a string that lies whole in the last len characters.     *)
(***************************************************************************)
THEOREM StringsAreFound == Spec => []FindsString
<1>1. ASSUME mem \in Memories, NEW p \in StringPtrs, NEW q \in StringPtrs, NEW len \in 0 .. Size
      PROVE  LET big == Str(mem, p) little == Str(mem, q)
                 tail == SubSeq(big, Max({0, Len(big) - len}) + 1, Len(big))
             IN  /\ ft_strnstr(big, little, len) = LeastOf(Places(big, little, len))
                 /\ ft_strrstr(big, little, len)
                      <=> little # << >> /\ Places(tail, little, Len(tail)) # {}
  <2>1. PICK big, little : big = Str(mem, p) /\ little = Str(mem, q)
    OBVIOUS
  <2>2. big \in Texts /\ little \in Texts /\ len \in Nat
    BY <1>1, <2>1, StringPtr, StrIs
  <2>3. ft_strnstr(big, little, len) = LeastOf(Places(big, little, len))
    BY <2>2, StrnstrFinds
  <2>4. PICK lo : lo = IF 0 >= Len(big) - len THEN 0 ELSE Len(big) - len
    OBVIOUS
  <2>5. Max({0, Len(big) - len}) = lo /\ lo \in 0 .. Len(big)
    <3>1. Len(big) \in Nat
      BY <2>2, TextFacts
    <3>2. 0 \in Int /\ Len(big) - len \in Int
      BY <2>2, <3>1
    <3>3. Max({0, Len(big) - len}) = lo
      BY <2>4, <3>2, MaxOfTwo
    <3>4. PICK b : b = Len(big)
      OBVIOUS
    <3>5. lo \in 0 .. b
      BY ONLY <2>2, <2>4, <3>1, <3>4
    <3> QED
      BY ONLY <2>4, <3>3, <3>4, <3>5
  <2>6. ft_strrstr(big, little, len)
          <=> little # << >> /\ \E j \in lo .. Len(big) - Len(little) : SubSeq(big, j + 1, j + Len(little)) = little
    <3>1. FindsLast(big, little, len, lo)
      BY ONLY <2>2, <2>4, StrrstrFinds
    <3> QED
      BY ONLY <3>1 DEF FindsLast
  <2>7. PICK tail : tail = SubSeq(big, lo + 1, Len(big))
    OBVIOUS
  <2>8. Places(tail, little, Len(tail)) # {}
          <=> \E j \in lo .. Len(big) - Len(little) : SubSeq(big, j + 1, j + Len(little)) = little
    BY <2>2, <2>5, <2>7, PlacesInTail
  <2> QED
    BY ONLY <2>1, <2>3, <2>5, <2>6, <2>7, <2>8
<1>2. mem \in Memories => FindsString
  BY <1>1 DEF FindsString
<1> QED
  BY <1>2, MemoryCorrect, PTL

-----------------------------------------------------------------------------
(***************************************************************************)
(* A function on the naturals, each value of which is made from the value  *)
(* at a smaller argument, exists.                                          *)
(***************************************************************************)
Follows(f, base, op, d, n) ==
  /\ f[0] = base
  /\ \A k \in 1 .. n : f[k] = op[<<k, f[d[k]]>>]

LEMMA FollowsUnique ==
  ASSUME NEW d \in [Nat -> Nat], \A k \in Nat \ {0} : d[k] < k,
         NEW base, NEW op, NEW n \in Nat, NEW m \in Nat, NEW f, NEW g,
         Follows(f, base, op, d, n), Follows(g, base, op, d, m), n <= m
  PROVE  \A k \in 0 .. n : f[k] = g[k]
<1> DEFINE Bad == {k \in 0 .. n : f[k] # g[k]}
<1> SUFFICES ASSUME Bad # {} PROVE FALSE
  OBVIOUS
<1>1. PICK k \in Bad : \A j \in Bad : k <= j
  <2>1. Bad \in SUBSET Nat
    OBVIOUS
  <2> HIDE DEF Bad
  <2> QED
    BY <2>1, LeastNat
<1>2. k \in 0 .. n /\ f[k] # g[k] /\ \A j \in 0 .. n : j < k => f[j] = g[j]
  BY <1>1
<1>3. k # 0
  BY <1>2 DEF Follows
<1>4. d[k] \in 0 .. n /\ d[k] < k
  BY <1>2, <1>3
<1>5. f[d[k]] = g[d[k]]
  BY <1>2, <1>4
<1>6. k \in 1 .. n /\ k \in 1 .. m
  BY <1>2, <1>3
<1>7. f[k] = op[<<k, f[d[k]]>>] /\ g[k] = op[<<k, g[d[k]]>>]
  BY <1>6 DEF Follows
<1> QED
  BY <1>2, <1>5, <1>7

LEMMA FollowsExists ==
  ASSUME NEW d \in [Nat -> Nat], \A k \in Nat \ {0} : d[k] < k,
         NEW S, NEW base \in S, NEW op \in [Nat \X S -> S]
  PROVE  \E f \in [Nat -> S] : \A n \in Nat : Follows(f, base, op, d, n)
<1> DEFINE Has(n) == \E f \in [Nat -> S] : Follows(f, base, op, d, n)
           Bad == {n \in Nat : ~Has(n)}
<1>1. Has(0)
  <2>1. [k \in Nat |-> base] \in [Nat -> S] /\ Follows([k \in Nat |-> base], base, op, d, 0)
    BY DEF Follows
  <2> QED
    BY <2>1
<1>2. ASSUME NEW n \in Nat, Has(n) PROVE Has(n + 1)
  <2>1. PICK f \in [Nat -> S] : Follows(f, base, op, d, n)
    BY <1>2
  <2> DEFINE g == [f EXCEPT ![n + 1] = op[<<n + 1, f[d[n + 1]]>>]]
  <2>2. d[n + 1] \in Nat /\ d[n + 1] < n + 1
    OBVIOUS
  <2>3. g \in [Nat -> S] /\ g[n + 1] = op[<<n + 1, f[d[n + 1]]>>]
    BY <2>2
  <2>4. \A k \in 0 .. n : g[k] = f[k]
    OBVIOUS
  <2> HIDE DEF g
  <2>5. ASSUME NEW k \in 1 .. n + 1 PROVE g[k] = op[<<k, g[d[k]]>>]
    <3>1. d[k] \in 0 .. n
      OBVIOUS
    <3>2. g[d[k]] = f[d[k]]
      BY <2>4, <3>1
    <3>3. CASE k = n + 1
      BY <2>3, <3>2, <3>3
    <3>4. CASE k \in 1 .. n
      BY <2>1, <2>4, <3>2, <3>4 DEF Follows
    <3> QED
      BY <3>3, <3>4
  <2>6. g[0] = base
    BY <2>1, <2>4 DEF Follows
  <2> QED
    BY <2>3, <2>5, <2>6 DEF Follows
<1> HIDE DEF Has
<1>3. Bad = {}
  <2> SUFFICES ASSUME Bad # {} PROVE FALSE
    OBVIOUS
  <2>1. PICK n \in Bad : \A k \in Bad : n <= k
    <3>1. Bad \in SUBSET Nat
      OBVIOUS
    <3> HIDE DEF Bad
    <3> QED
      BY <3>1, LeastNat
  <2>2. n \in Nat \ {0} /\ ~Has(n)
    BY <1>1, <2>1
  <2>3. Has(n - 1)
    BY <2>1, <2>2
  <2> QED
    BY <1>2, <2>2, <2>3
<1> DEFINE pick == [n \in Nat |-> CHOOSE f \in [Nat -> S] : Follows(f, base, op, d, n)]
           F == [n \in Nat |-> pick[n][n]]
<1>4. \A n \in Nat : pick[n] \in [Nat -> S] /\ Follows(pick[n], base, op, d, n)
  BY <1>3 DEF Has
<1> HIDE DEF pick
<1>5. F \in [Nat -> S]
  BY <1>4
<1>6. F[0] = base
  BY <1>4 DEF Follows
<1>7. ASSUME NEW k \in Nat \ {0} PROVE F[k] = op[<<k, F[d[k]]>>]
  <2>1. d[k] \in Nat /\ d[k] < k
    OBVIOUS
  <2>2. PICK a, b : a = pick[k] /\ b = pick[d[k]]
    OBVIOUS
  <2>3. Follows(a, base, op, d, k) /\ Follows(b, base, op, d, d[k])
    BY <1>4, <2>1, <2>2
  <2>4. b[d[k]] = a[d[k]]
    <3>1. \A j \in 0 .. d[k] : b[j] = a[j]
      BY <2>1, <2>3, FollowsUnique
    <3> QED
      BY <2>1, <3>1
  <2>5. a[k] = op[<<k, a[d[k]]>>]
    BY <2>3 DEF Follows
  <2>6. F[k] = a[k] /\ F[d[k]] = b[d[k]]
    BY <2>1, <2>2
  <2> QED
    BY <2>4, <2>5, <2>6
<1> HIDE DEF F
<1>8. \A n \in Nat : Follows(F, base, op, d, n)
  BY <1>6, <1>7 DEF Follows
<1> QED
  BY <1>5, <1>8

-----------------------------------------------------------------------------
(***************************************************************************)
(* Division.                                                               *)
(***************************************************************************)
LEMMA DivisionUnique ==
  ASSUME NEW n \in Nat, NEW p \in Nat \ {0}, NEW s \in Nat, NEW t \in 0 .. p - 1, n = p * s + t
  PROVE  n \div p = s /\ n % p = t
<1>1. PICK q, r : q = n \div p /\ r = n % p
  OBVIOUS
<1>2. q \in Nat /\ r \in 0 .. p - 1 /\ n = p * q + r
  BY <1>1
<1>3. CASE q < s
  <2>1. p * (q + 1) <= p * s
    BY <1>2, <1>3
  <2>2. p * (q + 1) = p * q + p
    BY <1>2
  <2> QED
    BY <1>2, <2>1, <2>2
<1>4. CASE s < q
  <2>1. p * (s + 1) <= p * q
    BY <1>2, <1>4
  <2>2. p * (s + 1) = p * s + p
    BY <1>2
  <2> QED
    BY <1>2, <2>1, <2>2
<1>5. CASE q = s
  BY <1>1, <1>2, <1>5
<1> QED
  BY <1>2, <1>3, <1>4, <1>5

LEMMA DivisionIs ==
  ASSUME NEW n \in Nat, NEW p \in Nat \ {0}
  PROVE  \E s \in Nat, t \in 0 .. p - 1 : n = p * s + t /\ n \div p = s /\ n % p = t
  OBVIOUS

\* Dividing by c, b times p, is dividing by b, to q, and then by p.
Twice(n, b, p, c, q) == n \div c = q \div p /\ (n % c) \div b = q % p /\ (n % c) % b = n % b

LEMMA DivisionTwice ==
  ASSUME NEW n \in Nat, NEW b \in Nat \ {0}, NEW p \in Nat \ {0}
  PROVE  Twice(n, b, p, b * p, n \div b)
<1>1. PICK q \in Nat, r \in 0 .. b - 1 : n = b * q + r /\ n \div b = q /\ n % b = r
  BY DivisionIs
<1>2. PICK s \in Nat, t \in 0 .. p - 1 : q = p * s + t /\ q \div p = s /\ q % p = t
  BY DivisionIs
<1>3. PICK c, x, y, z : c = b * p /\ x = b * t /\ y = p * s /\ z = b * y
  OBVIOUS
<1>4. c \in Nat \ {0} /\ x \in Nat /\ y \in Nat /\ z \in Nat
  BY <1>3
<1>5. c * s = z
  BY <1>3
<1>6. b * q = z + x
  <2>1. b * (y + t) = b * y + b * t
    BY <1>4
  <2> QED
    BY <1>2, <1>3, <2>1
<1>7. x + r < c
  <2>1. b * (t + 1) <= b * p
    OBVIOUS
  <2>2. b * (t + 1) = b * t + b
    OBVIOUS
  <2> QED
    BY <1>3, <2>1, <2>2
<1>8. n = c * s + (x + r) /\ x + r \in 0 .. c - 1
  BY <1>1, <1>4, <1>5, <1>6, <1>7
<1>9. n \div c = s /\ n % c = x + r
  BY <1>4, <1>8, DivisionUnique
<1>10. (x + r) \div b = t /\ (x + r) % b = r
  BY <1>3, <1>4, DivisionUnique
<1>11. Twice(n, b, p, c, q)
  BY ONLY <1>1, <1>2, <1>9, <1>10 DEF Twice
<1> QED
  BY ONLY <1>1, <1>3, <1>11

\* The loop that looks for the first divisor, from div up, ends.
IsTop(f, n) == f = [div \in Nat |-> IF n \div div > 9 THEN f[div * 10] ELSE div]

LEMMA TopExists ==
  ASSUME NEW n \in Nat
  PROVE  \E f : IsTop(f, n)
<1> DEFINE Steps(f, div) == f[div] = IF n \div div > 9 THEN f[div * 10] ELSE div
           Has(m) == \E f \in [Nat -> Nat] : \A div \in Nat : div + m > n => Steps(f, div)
           Bad == {m \in Nat : ~Has(m)}
<1>1. Has(0)
  <2> DEFINE f == [div \in Nat |-> div]
  <2>1. ASSUME NEW div \in Nat, div > n PROVE Steps(f, div)
    <3>1. n \div div = 0
      BY <2>1
    <3> QED
      BY <3>1
  <2>2. f \in [Nat -> Nat] /\ \A div \in Nat : div + 0 > n => Steps(f, div)
    <3>1. f \in [Nat -> Nat] /\ \A div \in Nat : div + 0 > n => div > n
      OBVIOUS
    <3> HIDE DEF f, Steps
    <3> QED
      BY <2>1, <3>1
  <2> HIDE DEF f, Steps
  <2> QED
    BY <2>2
<1>2. ASSUME NEW m \in Nat, Has(m) PROVE Has(m + 1)
  <2>1. PICK f \in [Nat -> Nat] : \A div \in Nat : div + m > n => Steps(f, div)
    BY <1>2
  <2>2. CASE m > n
    <3>1. \A div \in Nat : div + m > n
      BY <2>2
    <3> QED
      BY <2>1, <3>1
  <2>3. CASE m <= n
    <3> DEFINE e == n - m
               v == IF e # 0 /\ n \div e > 9 THEN f[e * 10] ELSE e
               g == [f EXCEPT ![e] = v]
    <3>1. e \in Nat /\ v \in Nat
      BY <2>3
    <3> HIDE DEF v
    <3>2. g \in [Nat -> Nat] /\ g[e] = v /\ \A div \in Nat : div # e => g[div] = f[div]
      BY <3>1
    <3> HIDE DEF g
    <3>3. ASSUME NEW div \in Nat, div + (m + 1) > n PROVE Steps(g, div)
      <4>1. CASE div = e
        <5>1. CASE e = 0
          <6>1. v = 0 /\ g[div * 10] = 0 /\ g[div] = 0
            BY <3>2, <4>1, <5>1 DEF v
          <6> QED
            BY <4>1, <5>1, <6>1
        <5>2. CASE e # 0
          <6>1. e * 10 \in Nat /\ e * 10 # e
            BY <3>1, <5>2
          <6>2. g[e * 10] = f[e * 10]
            BY <3>2, <6>1
          <6> QED
            BY <3>2, <4>1, <5>2, <6>2 DEF v
        <5> QED
          BY <5>1, <5>2
      <4>2. CASE div # e
        <5>1. div + m > n /\ div * 10 \in Nat /\ div * 10 # e
          BY <2>3, <3>3, <4>2
        <5>2. Steps(f, div) /\ g[div] = f[div] /\ g[div * 10] = f[div * 10]
          BY <2>1, <3>2, <4>2, <5>1
        <5> QED
          BY <5>2
      <4> QED
        BY <4>1, <4>2
    <3> QED
      BY <3>2, <3>3
  <2> QED
    BY <2>2, <2>3
<1> HIDE DEF Has
<1>3. Bad = {}
  <2> SUFFICES ASSUME Bad # {} PROVE FALSE
    OBVIOUS
  <2>1. PICK m \in Bad : \A k \in Bad : m <= k
    <3>1. Bad \in SUBSET Nat
      OBVIOUS
    <3> HIDE DEF Bad
    <3> QED
      BY <3>1, LeastNat
  <2>2. m \in Nat \ {0} /\ ~Has(m)
    BY <1>1, <2>1
  <2>3. Has(m - 1)
    BY <2>1, <2>2
  <2> QED
    BY <1>2, <2>2, <2>3
<1>4. PICK f \in [Nat -> Nat] : \A div \in Nat : div + (n + 1) > n => Steps(f, div)
  <2>1. Has(n + 1)
    BY <1>3
  <2> HIDE DEF Steps
  <2> QED
    BY <2>1 DEF Has
<1>5. \A div \in Nat : Steps(f, div)
  BY <1>4
<1> QED
  BY <1>4, <1>5 DEF IsTop

Top(n) == CHOOSE f : IsTop(f, n)

\* The divisor found for n is ten times the one found for n \div 10.
LEMMA TopOfTen ==
  ASSUME NEW n \in Nat, NEW f, NEW g, IsTop(f, n), IsTop(g, n \div 10)
  PROVE  f[10] = 10 * g[1]
<1>1. PICK q \in Nat : q = n \div 10
  OBVIOUS
<1>2. \A p \in Nat : f[p] = IF n \div p > 9 THEN f[p * 10] ELSE p
  BY DEF IsTop
<1>3. \A p \in Nat : g[p] = IF q \div p > 9 THEN g[p * 10] ELSE p
  BY <1>1 DEF IsTop
<1> DEFINE Good(p) == f[10 * p] = 10 * g[p]
<1>4. ASSUME NEW p \in Nat \ {0}, q \div p > 9 => Good(10 * p) PROVE Good(p)
  <2>1. PICK c, d : c = 10 * p /\ d = 10 * c
    OBVIOUS
  <2>2. c \in Nat /\ d \in Nat /\ p * 10 = c /\ c * 10 = d
    BY <2>1
  <2>3. n \div c = q \div p
    <3>1. 10 \in Nat \ {0}
      OBVIOUS
    <3>2. Twice(n, 10, p, 10 * p, n \div 10)
      BY ONLY <3>1, p \in Nat \ {0}, n \in Nat, DivisionTwice
    <3> QED
      BY ONLY <1>1, <2>1, <3>2 DEF Twice
  <2>4. f[c] = IF q \div p > 9 THEN f[d] ELSE c
    BY <1>2, <2>2, <2>3
  <2>5. g[p] = IF q \div p > 9 THEN g[c] ELSE p
    BY <1>3, <2>2
  <2>6. q \div p > 9 => f[d] = 10 * g[c]
    BY ONLY <1>4, <2>1
  <2>7. f[c] = 10 * g[p]
    BY ONLY <2>1, <2>4, <2>5, <2>6
  <2> QED
    BY ONLY <2>1, <2>7
<1>5. ASSUME NEW p \in Nat \ {0}, p > q PROVE Good(p)
  <2>1. q \div p = 0
    BY <1>5
  <2> HIDE DEF Good
  <2> QED
    BY <1>4, <2>1
<1> HIDE DEF Good
<1> DEFINE Bad == {m \in Nat : m < q /\ ~Good(q - m)}
<1>6. Bad = {}
  <2> SUFFICES ASSUME Bad # {} PROVE FALSE
    OBVIOUS
  <2>1. PICK m \in Bad : \A k \in Bad : m <= k
    <3>1. Bad \in SUBSET Nat
      OBVIOUS
    <3> HIDE DEF Bad
    <3> QED
      BY <3>1, LeastNat
  <2>2. PICK p \in Nat : p = q - m
    BY <2>1
  <2>3. p \in Nat \ {0} /\ ~Good(p) /\ m \in Nat
    BY <2>1, <2>2
  <2>4. ~Good(10 * p)
    BY <1>4, <2>3
  <2>5. 10 * p \in Nat \ {0} /\ 10 * p <= q
    BY <1>5, <2>3, <2>4
  <2>6. PICK k \in Nat : k = q - 10 * p
    BY <2>5
  <2>7. k < q /\ q - k = 10 * p /\ k < m
    BY <2>2, <2>3, <2>5, <2>6
  <2>8. k \in Bad
    BY <2>4, <2>7
  <2> HIDE DEF Bad
  <2> QED
    BY <2>1, <2>3, <2>7, <2>8
<1>7. Good(1)
  <2>1. CASE 1 > q
    BY <1>5, <2>1
  <2>2. CASE 1 <= q
    <3>1. q - 1 \in Nat /\ q - 1 < q /\ q - (q - 1) = 1
      BY <2>2
    <3> QED
      BY <1>6, <3>1
  <2> QED
    BY <2>1, <2>2
<1> QED
  BY <1>7 DEF Good

LEMMA TopStep ==
  ASSUME NEW n \in Nat
  PROVE  Top(n)[1] = IF n < 10 THEN 1 ELSE 10 * Top(n \div 10)[1]
<1>1. PICK q \in Nat : q = n \div 10
  OBVIOUS
<1>2. PICK f, g : f = Top(n) /\ g = Top(q)
  OBVIOUS
<1>3. IsTop(f, n) /\ IsTop(g, q)
  BY <1>2, TopExists DEF Top
<1>4. f[10] = 10 * g[1]
  BY <1>1, <1>3, TopOfTen
<1>5. f[1] = IF n \div 1 > 9 THEN f[1 * 10] ELSE 1
  BY <1>3 DEF IsTop
<1>6. 1 * 10 = 10 /\ n \div 1 = n
  OBVIOUS
<1>7. f[1] = IF n < 10 THEN 1 ELSE 10 * g[1]
  BY ONLY <1>4, <1>5, <1>6, n \in Nat
<1> QED
  BY ONLY <1>1, <1>2, <1>7

-----------------------------------------------------------------------------
(***************************************************************************)
(* The digits of a number, as ft_itoa and as ft_putnbr_fd find them.       *)
(***************************************************************************)
Figures == 48 .. 57

IsNumeral(f) == f = [j \in Nat |-> IF j >= 10 THEN Append(f[j \div 10], Code(j % 10)) ELSE <<Code(j)>>]
Numeral == CHOOSE f : IsNumeral(f)

IsPrinted(f, n) == f = [div \in Nat |-> IF div = 0 THEN << >> ELSE <<Code((n \div div) % 10)>> \o f[div \div 10]]
Printed(n) == CHOOSE f : IsPrinted(f, n)

LEMMA CodeType == \A k \in 0 .. 9 : Code(k) \in Figures /\ Code(k) - 48 = k
  BY DEF Code, Figures

LEMMA NumeralIs == IsNumeral(Numeral) /\ \A n : Digits(n) = Numeral[n]
<1> DEFINE S == Seq(Int)
           base == <<Code(0)>>
           op == [p \in Nat \X S |-> IF p[1] >= 10 THEN Append(p[2], Code(p[1] % 10)) ELSE <<Code(p[1])>>]
           d == [k \in Nat |-> k \div 10]
<1>1. \A k \in Nat : k \div 10 \in Nat /\ (k # 0 => k \div 10 < k) /\ Code(k % 10) \in Int /\ Code(k) \in Int
  BY DEF Code
<1>2. \A s \in S : \A x \in Int : Append(s, x) \in S /\ <<x>> \in S
  BY AppendProperties
<1>3. \E f : IsNumeral(f)
  <2>1. op \in [Nat \X S -> S]
    <3>1. ASSUME NEW k \in Nat, NEW s \in S
          PROVE  (IF k >= 10 THEN Append(s, Code(k % 10)) ELSE <<Code(k)>>) \in S
      BY <1>1, <1>2
    <3> HIDE DEF S
    <3> QED
      BY <3>1
  <2>2. d \in [Nat -> Nat] /\ \A k \in Nat \ {0} : d[k] < k
    BY <1>1
  <2>3. base \in S
    <3>1. 0 \in Nat
      OBVIOUS
    <3> QED
      BY <1>1, <3>1
  <2>4. PICK f \in [Nat -> S] : \A n0 \in Nat : Follows(f, base, op, d, n0)
    <3> HIDE DEF op, d, S, base
    <3> QED
      BY <2>1, <2>2, <2>3, FollowsExists
  <2>5. f[0] = <<Code(0)>>
    BY <2>4 DEF Follows
  <2>6. ASSUME NEW k \in Nat \ {0} PROVE f[k] = IF k >= 10 THEN Append(f[k \div 10], Code(k % 10)) ELSE <<Code(k)>>
    <3>1. f[k] = op[<<k, f[d[k]]>>]
      <4> HIDE DEF op, d, base
      <4>1. Follows(f, base, op, d, k) /\ k \in 1 .. k
        BY <2>4
      <4> QED
        BY <4>1 DEF Follows
    <3>2. k \div 10 \in Nat /\ f[k \div 10] \in S /\ d[k] = k \div 10
      BY <1>1, <2>4
    <3> HIDE DEF d, S
    <3>3. op[<<k, f[k \div 10]>>] = IF k >= 10 THEN Append(f[k \div 10], Code(k % 10)) ELSE <<Code(k)>>
      BY <3>2
    <3> QED
      BY ONLY <3>1, <3>2, <3>3
  <2>7. IsNumeral(f)
    <3>1. ASSUME NEW k \in Nat PROVE f[k] = IF k >= 10 THEN Append(f[k \div 10], Code(k % 10)) ELSE <<Code(k)>>
      <4>1. CASE k = 0
        <5>1. ~(k >= 10)
          BY <4>1
        <5> QED
          BY ONLY <2>5, <4>1, <5>1
      <4>2. CASE k # 0
        BY <2>6, <4>2
      <4> QED
        BY <4>1, <4>2
    <3>2. f = [k \in Nat |-> f[k]]
      BY <2>4
    <3> HIDE DEF op, d, S, base
    <3> QED
      BY <3>1, <3>2 DEF IsNumeral
  <2> QED
    BY <2>7
<1>4. IsNumeral(Numeral)
  BY <1>3 DEF Numeral
<1>5. \A n : Digits(n) = Numeral[n]
  BY DEF Digits, Numeral, IsNumeral
<1> QED
  BY <1>4, <1>5

LEMMA DigitsStep ==
  ASSUME NEW n \in Nat
  PROVE  Digits(n) = IF n >= 10 THEN Append(Digits(n \div 10), Code(n % 10)) ELSE <<Code(n)>>
<1>1. PICK f : f = Numeral
  OBVIOUS
<1>2. f = [j \in Nat |-> IF j >= 10 THEN Append(f[j \div 10], Code(j % 10)) ELSE <<Code(j)>>]
  BY <1>1, NumeralIs DEF IsNumeral
<1>3. f[n] = IF n >= 10 THEN Append(f[n \div 10], Code(n % 10)) ELSE <<Code(n)>>
  BY ONLY <1>2, n \in Nat
<1>4. Digits(n) = f[n] /\ Digits(n \div 10) = f[n \div 10]
  BY <1>1, NumeralIs
<1> QED
  BY ONLY <1>3, <1>4

\* Figures, at least one.
LEMMA DigitsType ==
  ASSUME NEW n \in Nat
  PROVE  Digits(n) \in Seq(Figures) /\ Len(Digits(n)) \in Nat \ {0}
<1> DEFINE Good(k) == Digits(k) \in Seq(Figures) /\ Len(Digits(k)) \in Nat \ {0}
           Bad == {k \in Nat : ~Good(k)}
<1>1. ASSUME NEW k \in Nat, k >= 10 => Good(k \div 10) PROVE Good(k)
  <2>1. Digits(k) = IF k >= 10 THEN Append(Digits(k \div 10), Code(k % 10)) ELSE <<Code(k)>>
    BY DigitsStep
  <2>2. CASE k < 10
    <3>1. Code(k) \in Figures
      BY <2>2, CodeType
    <3>2. Digits(k) = <<Code(k)>>
      BY <2>1, <2>2
    <3> QED
      BY <3>1, <3>2
  <2>3. CASE k >= 10
    <3>1. PICK s, x : s = Digits(k \div 10) /\ x = Code(k % 10)
      OBVIOUS
    <3>2. x \in Figures /\ s \in Seq(Figures) /\ Digits(k) = Append(s, x)
      <4>1. k % 10 \in 0 .. 9
        OBVIOUS
      <4> QED
        BY <1>1, <2>1, <2>3, <3>1, <4>1, CodeType
    <3>3. Append(s, x) \in Seq(Figures) /\ Len(Append(s, x)) = Len(s) + 1 /\ Len(s) \in Nat
      BY <3>2, AppendProperties, LenProperties
    <3> QED
      BY ONLY <3>2, <3>3
  <2> QED
    BY <2>2, <2>3
<1> HIDE DEF Good
<1>2. Bad = {}
  <2> SUFFICES ASSUME Bad # {} PROVE FALSE
    OBVIOUS
  <2>1. PICK k \in Bad : \A j \in Bad : k <= j
    <3>1. Bad \in SUBSET Nat
      OBVIOUS
    <3> HIDE DEF Bad
    <3> QED
      BY <3>1, LeastNat
  <2>2. k \in Nat /\ ~Good(k)
    BY <2>1
  <2>3. k >= 10 /\ ~Good(k \div 10)
    BY <1>1, <2>2
  <2>4. k \div 10 \in Nat /\ k \div 10 < k
    BY <2>2, <2>3
  <2> QED
    BY ONLY <2>1, <2>2, <2>3, <2>4
<1> QED
  BY <1>2 DEF Good

LEMMA PrintedIs ==
  ASSUME NEW n \in Nat
  PROVE  IsPrinted(Printed(n), n)
<1> DEFINE S == Seq(Int)
           op == [p \in Nat \X S |-> IF p[1] = 0 THEN << >> ELSE <<Code((n \div p[1]) % 10)>> \o p[2]]
           d == [k \in Nat |-> k \div 10]
<1>1. \A k \in Nat \ {0} : k \div 10 \in Nat /\ k \div 10 < k /\ Code((n \div k) % 10) \in Int
  BY DEF Code
<1>2. \A s \in S : \A x \in Int : <<x>> \o s \in S
  BY ConcatProperties
<1>3. << >> \in S
  BY EmptySeq
<1>4. \E f : IsPrinted(f, n)
  <2>1. op \in [Nat \X S -> S]
    <3>1. ASSUME NEW k \in Nat, NEW s \in S
          PROVE  (IF k = 0 THEN << >> ELSE <<Code((n \div k) % 10)>> \o s) \in S
      BY <1>1, <1>2, <1>3
    <3> HIDE DEF S
    <3> QED
      BY <3>1
  <2>2. d \in [Nat -> Nat] /\ \A k \in Nat \ {0} : d[k] < k
    BY <1>1
  <2>3. PICK f \in [Nat -> S] : \A n0 \in Nat : Follows(f, << >>, op, d, n0)
    <3> HIDE DEF op, d, S
    <3> QED
      BY <1>3, <2>1, <2>2, FollowsExists
  <2>4. f[0] = << >>
    BY <2>3 DEF Follows
  <2>5. ASSUME NEW k \in Nat \ {0} PROVE f[k] = <<Code((n \div k) % 10)>> \o f[k \div 10]
    <3>1. f[k] = op[<<k, f[d[k]]>>]
      <4> HIDE DEF op, d
      <4>1. Follows(f, << >>, op, d, k) /\ k \in 1 .. k
        BY <2>3
      <4> QED
        BY <4>1 DEF Follows
    <3>2. k \div 10 \in Nat /\ f[k \div 10] \in S /\ d[k] = k \div 10
      BY <1>1, <2>3
    <3> HIDE DEF d, S
    <3>3. op[<<k, f[k \div 10]>>] = <<Code((n \div k) % 10)>> \o f[k \div 10]
      BY <3>2
    <3> QED
      BY ONLY <3>1, <3>2, <3>3
  <2>6. IsPrinted(f, n)
    BY <2>3, <2>4, <2>5 DEF IsPrinted
  <2> QED
    BY <2>6
<1> QED
  BY <1>4 DEF Printed

LEMMA PrintedFrom ==
  ASSUME NEW n \in Nat, NEW k \in Nat
  PROVE  Printed(n)[k] = IF k = 0 THEN << >> ELSE <<Code((n \div k) % 10)>> \o Printed(n)[k \div 10]
<1>1. PICK f : f = Printed(n)
  OBVIOUS
<1>2. f = [div \in Nat |-> IF div = 0 THEN << >> ELSE <<Code((n \div div) % 10)>> \o f[div \div 10]]
  BY <1>1, PrintedIs DEF IsPrinted
<1>3. f[k] = IF k = 0 THEN << >> ELSE <<Code((n \div k) % 10)>> \o f[k \div 10]
  BY ONLY <1>2, k \in Nat
<1> QED
  BY ONLY <1>1, <1>3

\* With ten times a power of ten: the digits of the quotient by 10, then the
\* last one.
Tens(p) == p \in Nat \ {0} /\ \A n \in Nat : Printed(n)[10 * p] = Append(Printed(n \div 10)[p], Code(n % 10))

LEMMA TensOne == Tens(1)
<1> SUFFICES ASSUME NEW n \in Nat PROVE Printed(n)[10] = Append(Printed(n \div 10)[1], Code(n % 10))
  <2>1. 10 * 1 = 10 /\ 1 \in Nat \ {0}
    OBVIOUS
  <2> QED
    BY <2>1 DEF Tens
<1>1. PICK q, r : q = n \div 10 /\ r = n % 10
  OBVIOUS
<1>2. q \in Nat /\ r \in 0 .. 9 /\ q % 10 \in 0 .. 9 /\ r % 10 = r /\ n \div 1 = n /\ q \div 1 = q
  BY <1>1
<1>3. ASSUME NEW m \in Nat PROVE Printed(m)[1] = <<Code(m % 10)>>
  <2>1. Printed(m)[1] = IF 1 = 0 THEN << >> ELSE <<Code((m \div 1) % 10)>> \o Printed(m)[1 \div 10]
    BY PrintedFrom
  <2>2. Printed(m)[0] = << >>
    BY PrintedFrom
  <2>3. PICK k, x : k = 1 \div 10 /\ x = Code((m \div 1) % 10)
    OBVIOUS
  <2>4. k = 0
    BY <2>3
  <2>5. x = Code(m % 10)
    <3>1. m \div 1 = m
      OBVIOUS
    <3> QED
      BY <2>3, <3>1
  <2>6. <<x>> \o << >> = <<x>>
    OBVIOUS
  <2>7. PICK y : y = Printed(m)[k]
    OBVIOUS
  <2>8. Printed(m)[1] = <<x>> \o y
    BY ONLY <2>1, <2>3, <2>7
  <2>9. y = << >>
    BY ONLY <2>2, <2>4, <2>7
  <2> QED
    BY ONLY <2>5, <2>6, <2>8, <2>9
<1>4. Printed(n)[10] = <<Code(q % 10)>> \o Printed(n)[1]
  <2>1. Printed(n)[10] = IF 10 = 0 THEN << >> ELSE <<Code((n \div 10) % 10)>> \o Printed(n)[10 \div 10]
    BY PrintedFrom
  <2>2. PICK k : k = 10 \div 10
    OBVIOUS
  <2>3. k = 1
    BY <2>2
  <2> QED
    BY ONLY <1>1, <2>1, <2>2, <2>3
<1>5. Printed(n)[1] = <<Code(r)>> /\ Printed(q)[1] = <<Code(q % 10)>>
  BY <1>1, <1>2, <1>3
<1>6. \A x, y : <<x>> \o <<y>> = Append(<<x>>, y)
  OBVIOUS
<1> QED
  BY ONLY <1>1, <1>4, <1>5, <1>6

LEMMA PrintedType ==
  ASSUME NEW n \in Nat
  PROVE  \A k \in Nat : Printed(n)[k] \in Seq(Int)
<1> DEFINE Good(k) == Printed(n)[k] \in Seq(Int)
           Bad == {k \in Nat : ~Good(k)}
<1>1. ASSUME NEW k \in Nat, k # 0 => Good(k \div 10) PROVE Good(k)
  <2>1. Printed(n)[k] = IF k = 0 THEN << >> ELSE <<Code((n \div k) % 10)>> \o Printed(n)[k \div 10]
    BY PrintedFrom
  <2>2. CASE k = 0
    BY <2>1, <2>2, EmptySeq
  <2>3. CASE k # 0
    <3>1. PICK x, s : x = Code((n \div k) % 10) /\ s = Printed(n)[k \div 10]
      OBVIOUS
    <3>2. x \in Int
      BY <2>3, <3>1 DEF Code
    <3>3. <<x>> \in Seq(Int) /\ s \in Seq(Int)
      BY <1>1, <2>3, <3>1, <3>2
    <3>4. <<x>> \o s \in Seq(Int)
      BY ONLY <3>3, ConcatProperties
    <3> QED
      BY <2>1, <2>3, <3>1, <3>4
  <2> QED
    BY <2>2, <2>3
<1> HIDE DEF Good
<1>2. Bad = {}
  <2> SUFFICES ASSUME Bad # {} PROVE FALSE
    OBVIOUS
  <2>1. PICK k \in Bad : \A j \in Bad : k <= j
    <3>1. Bad \in SUBSET Nat
      OBVIOUS
    <3> HIDE DEF Bad
    <3> QED
      BY <3>1, LeastNat
  <2>2. k \in Nat /\ ~Good(k)
    BY <2>1
  <2>3. k # 0 /\ ~Good(k \div 10)
    BY <1>1, <2>2
  <2>4. k \div 10 \in Nat /\ k \div 10 < k
    BY <2>2, <2>3
  <2> QED
    BY ONLY <2>1, <2>2, <2>3, <2>4
<1> QED
  BY <1>2 DEF Good

LEMMA TensTen ==
  ASSUME NEW s, Tens(s)
  PROVE  Tens(10 * s)
<1>1. s \in Nat \ {0} /\ \A n \in Nat : Printed(n)[10 * s] = Append(Printed(n \div 10)[s], Code(n % 10))
  BY DEF Tens
<1>2. PICK p, c : p = 10 * s /\ c = 10 * p
  OBVIOUS
<1>3. p \in Nat \ {0} /\ c \in Nat \ {0} /\ p \div 10 = s /\ c \div 10 = p
  BY <1>1, <1>2
<1>4. ASSUME NEW n \in Nat PROVE Printed(n)[c] = Append(Printed(n \div 10)[p], Code(n % 10))
  <2>1. PICK q, r : q = n \div 10 /\ r = Code(n % 10)
    OBVIOUS
  <2>2. q \in Nat /\ r \in Int
    BY <2>1 DEF Code
  <2>3. n \div c = q \div p
    <3>1. 10 \in Nat \ {0}
      OBVIOUS
    <3>2. Twice(n, 10, p, 10 * p, n \div 10)
      BY ONLY <1>3, <3>1, n \in Nat, DivisionTwice
    <3> QED
      BY ONLY <1>2, <2>1, <3>2 DEF Twice
  <2>4. PICK x, u : x = Code((q \div p) % 10) /\ u = Printed(q)[s]
    OBVIOUS
  <2>5. x \in Int
    BY <1>3, <2>2, <2>4 DEF Code
  <2>6. u \in Seq(Int)
    BY <1>1, <2>2, <2>4, PrintedType
  <2>7. Printed(n)[c] = <<x>> \o Printed(n)[p]
    <3>1. Printed(n)[c] = IF c = 0 THEN << >> ELSE <<Code((n \div c) % 10)>> \o Printed(n)[c \div 10]
      BY <1>3, PrintedFrom
    <3> QED
      BY ONLY <1>3, <2>3, <2>4, <3>1
  <2>8. Printed(q)[p] = <<x>> \o u
    <3>1. Printed(q)[p] = IF p = 0 THEN << >> ELSE <<Code((q \div p) % 10)>> \o Printed(q)[p \div 10]
      BY <1>3, <2>2, PrintedFrom
    <3> QED
      BY ONLY <1>3, <2>4, <3>1
  <2>9. Printed(n)[p] = Append(u, r)
    BY ONLY <1>1, <1>2, <2>1, <2>4, n \in Nat
  <2>10. <<x>> \o Append(u, r) = Append(<<x>> \o u, r)
    <3>1. <<x>> \in Seq(Int)
      BY <2>5
    <3> QED
      BY ONLY <2>2, <2>6, <3>1
  <2> QED
    BY ONLY <2>1, <2>7, <2>8, <2>9, <2>10
<1> QED
  BY ONLY <1>2, <1>3, <1>4 DEF Tens

LEMMA TopIsTens ==
  ASSUME NEW n \in Nat
  PROVE  Tens(Top(n)[1])
<1> DEFINE Good(k) == Tens(Top(k)[1])
           Bad == {k \in Nat : ~Good(k)}
<1>1. ASSUME NEW k \in Nat, k >= 10 => Good(k \div 10) PROVE Good(k)
  <2>1. Top(k)[1] = IF k < 10 THEN 1 ELSE 10 * Top(k \div 10)[1]
    BY TopStep
  <2>2. CASE k < 10
    BY <2>1, <2>2, TensOne
  <2>3. CASE ~(k < 10)
    <3>1. Tens(10 * Top(k \div 10)[1])
      BY <1>1, <2>3, TensTen
    <3>2. Top(k)[1] = 10 * Top(k \div 10)[1]
      BY ONLY <2>1, <2>3
    <3> QED
      BY ONLY <3>1, <3>2
  <2> QED
    BY <2>2, <2>3
<1> HIDE DEF Good
<1>2. Bad = {}
  <2> SUFFICES ASSUME Bad # {} PROVE FALSE
    OBVIOUS
  <2>1. PICK k \in Bad : \A j \in Bad : k <= j
    <3>1. Bad \in SUBSET Nat
      OBVIOUS
    <3> HIDE DEF Bad
    <3> QED
      BY <3>1, LeastNat
  <2>2. k \in Nat /\ ~Good(k)
    BY <2>1
  <2>3. k >= 10 /\ ~Good(k \div 10)
    BY <1>1, <2>2
  <2>4. k \div 10 \in Nat /\ k \div 10 < k
    BY <2>2, <2>3
  <2> QED
    BY ONLY <2>1, <2>2, <2>3, <2>4
<1> QED
  BY <1>2 DEF Good

\* Both functions find the same digits.
LEMMA PrintedIsDigits ==
  ASSUME NEW n \in Nat
  PROVE  Printed(n)[Top(n)[1]] = Digits(n)
<1> DEFINE Good(k) == Printed(k)[Top(k)[1]] = Digits(k)
           Bad == {k \in Nat : ~Good(k)}
<1>1. ASSUME NEW k \in Nat, k >= 10 => Good(k \div 10) PROVE Good(k)
  <2>1. Top(k)[1] = IF k < 10 THEN 1 ELSE 10 * Top(k \div 10)[1]
    BY TopStep
  <2>2. Digits(k) = IF k >= 10 THEN Append(Digits(k \div 10), Code(k % 10)) ELSE <<Code(k)>>
    BY DigitsStep
  <2>3. CASE k < 10
    <3>1. Printed(k)[1] = IF 1 = 0 THEN << >> ELSE <<Code((k \div 1) % 10)>> \o Printed(k)[1 \div 10]
      BY PrintedFrom
    <3>2. Printed(k)[0] = << >>
      BY PrintedFrom
    <3>3. PICK z, x : z = 1 \div 10 /\ x = Code((k \div 1) % 10)
      OBVIOUS
    <3>4. z = 0
      BY <3>3
    <3>5. x = Code(k)
      <4>1. (k \div 1) % 10 = k
        BY <2>3
      <4> QED
        BY <3>3, <4>1
    <3>6. <<x>> \o << >> = <<x>>
      OBVIOUS
    <3>7. ~(k >= 10)
      BY <2>3
    <3> QED
      BY ONLY <2>1, <2>2, <2>3, <3>1, <3>2, <3>3, <3>4, <3>5, <3>6, <3>7
  <2>4. CASE ~(k < 10)
    <3>1. PICK q, p : q = k \div 10 /\ p = Top(q)[1]
      OBVIOUS
    <3>2. q \in Nat /\ k >= 10
      BY <2>4, <3>1
    <3>3. Tens(p)
      BY <3>1, <3>2, TopIsTens
    <3>4. Printed(k)[10 * p] = Append(Printed(k \div 10)[p], Code(k % 10))
      BY ONLY <3>3, k \in Nat DEF Tens
    <3>5. Printed(q)[p] = Digits(q)
      BY ONLY <1>1, <3>1, <3>2
    <3> QED
      BY ONLY <2>1, <2>2, <2>4, <3>1, <3>2, <3>4, <3>5
  <2> QED
    BY <2>3, <2>4
<1> HIDE DEF Good
<1>2. Bad = {}
  <2> SUFFICES ASSUME Bad # {} PROVE FALSE
    OBVIOUS
  <2>1. PICK k \in Bad : \A j \in Bad : k <= j
    <3>1. Bad \in SUBSET Nat
      OBVIOUS
    <3> HIDE DEF Bad
    <3> QED
      BY <3>1, LeastNat
  <2>2. k \in Nat /\ ~Good(k)
    BY <2>1
  <2>3. k >= 10 /\ ~Good(k \div 10)
    BY <1>1, <2>2
  <2>4. k \div 10 \in Nat /\ k \div 10 < k
    BY <2>2, <2>3
  <2> QED
    BY ONLY <2>1, <2>2, <2>3, <2>4
<1> QED
  BY <1>2 DEF Good

\* The sign of n, and what ft_itoa and ft_putnbr_fd make of it.
Sign(n) == IF n < 0 THEN <<Minus>> ELSE << >>
Abs(n) == IF n < 0 THEN -n ELSE n

LEMMA NumberIsWritten ==
  ASSUME NEW n \in Ints
  PROVE  /\ Abs(n) \in Nat
         /\ ft_itoa(n) = Sign(n) \o Digits(Abs(n))
         /\ ft_putnbr_fd(n) = ft_itoa(n)
<1>1. n \in Int /\ INT_MAX \in Nat /\ n >= -INT_MAX - 1
  BY TextAssumption DEF Ints
<1>2. PICK k : k = Abs(n)
  OBVIOUS
<1>3. k \in Nat
  BY <1>1, <1>2 DEF Abs
<1>4. PICK e : e = Digits(k)
  OBVIOUS
<1>5. e \in Seq(Figures)
  BY <1>3, <1>4, DigitsType
<1>6. << >> \o e = e
  BY <1>5, ConcatEmptySeq
<1>7. ft_itoa(n) = Sign(n) \o e
  <2>1. CASE n = -INT_MAX - 1
    <3>1. n < 0 /\ k = INT_MAX + 1
      BY <1>1, <1>2, <2>1 DEF Abs
    <3> QED
      BY <1>4, <2>1, <3>1 DEF ft_itoa, Sign
  <2>2. CASE n # -INT_MAX - 1 /\ n < 0
    BY <1>2, <1>4, <2>2 DEF ft_itoa, ft_in_nbr, Sign, Abs
  <2>3. CASE n # -INT_MAX - 1 /\ ~(n < 0)
    BY <1>2, <1>4, <1>6, <2>3 DEF ft_itoa, ft_in_nbr, Sign, Abs
  <2> QED
    BY <2>1, <2>2, <2>3
<1>8. ft_putnbr_fd(n) = Sign(n) \o Printed(k)[Top(k)[1]]
  <2>1. ft_putnbr_fd(n) = Sign(n) \o Printed(Abs(n))[Top(Abs(n))[1]]
    BY DEF ft_putnbr_fd, Sign, Abs, Printed, Top, IsPrinted, IsTop
  <2> QED
    BY ONLY <1>2, <2>1
<1>9. Printed(k)[Top(k)[1]] = e
  BY <1>3, <1>4, PrintedIsDigits
<1> QED
  BY ONLY <1>2, <1>3, <1>4, <1>7, <1>8, <1>9

-----------------------------------------------------------------------------
(***************************************************************************)
(* What ft_atoi makes of blanks, at most two signs, the digits of k and    *)
(* something that is no digit.                                             *)
(***************************************************************************)
IsValues(f, tail, flag) ==
  f = [i \in flag + 1 .. Len(tail) + 1 |-> IF i = flag + 1 THEN 0 ELSE f[i - 1] * 10 + (tail[i - 1] - 48)]
Values(tail, flag) == CHOOSE f : IsValues(f, tail, flag)

IsStop(f, tail) ==
  f = [i \in Nat |-> IF i <= Len(tail) /\ IsDigit(tail[i]) THEN f[i + 1] ELSE i]
Stop(tail) == CHOOSE f : IsStop(f, tail)

LEMMA ValuesExist ==
  ASSUME NEW tail \in Seq(Int), NEW flag \in Nat
  PROVE  IsValues(Values(tail, flag), tail, flag)
<1>1. PICK m : m = Len(tail)
  OBVIOUS
<1>2. m \in Nat /\ \A i \in 1 .. m : tail[i] \in Int
  BY <1>1, LenProperties
<1> DEFINE op == [p \in Nat \X Int |-> IF p[1] \in flag + 2 .. m + 1 THEN p[2] * 10 + (tail[p[1] - 1] - 48) ELSE 0]
           d == [k \in Nat |-> IF k = 0 THEN 0 ELSE k - 1]
<1>3. op \in [Nat \X Int -> Int]
  <2>1. ASSUME NEW k \in Nat, NEW v \in Int
        PROVE  (IF k \in flag + 2 .. m + 1 THEN v * 10 + (tail[k - 1] - 48) ELSE 0) \in Int
    BY <1>2
  <2> QED
    BY <2>1
<1>4. d \in [Nat -> Nat] /\ \A k \in Nat \ {0} : d[k] < k
  OBVIOUS
<1>5. PICK f \in [Nat -> Int] : \A n0 \in Nat : Follows(f, 0, op, d, n0)
  <2>1. 0 \in Int
    OBVIOUS
  <2> HIDE DEF op, d
  <2> QED
    BY <1>3, <1>4, <2>1, FollowsExists
<1>6. ASSUME NEW k \in Nat \ {0}
      PROVE  f[k] = IF k \in flag + 2 .. m + 1 THEN f[k - 1] * 10 + (tail[k - 1] - 48) ELSE 0
  <2>1. f[k] = op[<<k, f[d[k]]>>]
    <3> HIDE DEF op, d
    <3>1. Follows(f, 0, op, d, k) /\ k \in 1 .. k
      BY <1>5
    <3> QED
      BY <3>1 DEF Follows
  <2>2. k - 1 \in Nat /\ f[k - 1] \in Int /\ d[k] = k - 1
    BY <1>5
  <2> HIDE DEF d
  <2>3. op[<<k, f[k - 1]>>] = IF k \in flag + 2 .. m + 1 THEN f[k - 1] * 10 + (tail[k - 1] - 48) ELSE 0
    BY <2>2
  <2> QED
    BY ONLY <2>1, <2>2, <2>3
<1> HIDE DEF op, d
<1> DEFINE g == [i \in flag + 1 .. m + 1 |-> f[i]]
<1>7. ASSUME NEW i \in flag + 1 .. m + 1
      PROVE  g[i] = IF i = flag + 1 THEN 0 ELSE g[i - 1] * 10 + (tail[i - 1] - 48)
  <2>1. i \in Nat \ {0} /\ g[i] = f[i]
    BY <1>2
  <2>2. CASE i = flag + 1
    <3>1. i \notin flag + 2 .. m + 1
      BY <1>2, <2>2
    <3> QED
      BY ONLY <1>6, <2>1, <2>2, <3>1
  <2>3. CASE i # flag + 1
    <3>1. i \in flag + 2 .. m + 1 /\ i - 1 \in flag + 1 .. m + 1
      BY <1>2, <2>3
    <3>2. g[i - 1] = f[i - 1]
      BY <3>1
    <3> HIDE DEF g
    <3> QED
      BY ONLY <1>6, <2>1, <2>3, <3>1, <3>2
  <2> QED
    BY <2>2, <2>3
<1>8. g = [i \in flag + 1 .. m + 1 |-> g[i]]
  OBVIOUS
<1> HIDE DEF g
<1>9. g = [i \in flag + 1 .. m + 1 |-> IF i = flag + 1 THEN 0 ELSE g[i - 1] * 10 + (tail[i - 1] - 48)]
  BY ONLY <1>7, <1>8
<1>10. IsValues(g, tail, flag)
  BY ONLY <1>1, <1>9 DEF IsValues
<1> QED
  BY <1>10 DEF Values

LEMMA StopIs ==
  ASSUME NEW tail \in Seq(Int), NEW a \in Nat, NEW b \in Nat, a <= b, b <= Len(tail) + 1,
         \A i \in a .. b - 1 : IsDigit(tail[i]), b <= Len(tail) => ~IsDigit(tail[b])
  PROVE  Stop(tail)[a] = b
<1> DEFINE stops == {i \in Nat : ~(i <= Len(tail) /\ IsDigit(tail[i]))}
           v == [i \in Nat |-> i]
<1>1. Len(tail) \in Nat /\ stops \in SUBSET Nat
  BY LenProperties
<1>2. ASSUME NEW f PROVE ScansUp(f, stops, v) <=> IsStop(f, tail)
  <2>1. [i \in Nat |-> IF i \in stops THEN v[i] ELSE f[i + 1]]
          = [i \in Nat |-> IF i <= Len(tail) /\ IsDigit(tail[i]) THEN f[i + 1] ELSE i]
    OBVIOUS
  <2> HIDE DEF stops, v
  <2> QED
    BY ONLY <2>1 DEF ScansUp, IsStop
<1>3. b \in stops /\ v[b] = b /\ \A i \in a .. b - 1 : i \notin stops
  BY <1>1
<1> HIDE DEF stops, v
<1>4. \E f : ScansUp(f, stops, v)
  BY <1>1, ScanUpExists
<1>5. PICK f : f = Stop(tail)
  OBVIOUS
<1>6. ScansUp(f, stops, v)
  BY <1>2, <1>4, <1>5 DEF Stop
<1>7. f[a] = v[b]
  BY ONLY <1>3, <1>6, a \in Nat, b \in Nat, a <= b, ScanUpValue
<1> QED
  BY <1>3, <1>5, <1>7

\* The digits of k, in their place, are worth k.
LEMMA DigitsAreWorth ==
  ASSUME NEW tail \in Seq(Int), NEW flag \in Nat, NEW k \in Nat, flag + Len(Digits(k)) <= Len(tail),
         \A i \in 1 .. Len(Digits(k)) : tail[flag + i] = Digits(k)[i]
  PROVE  Values(tail, flag)[flag + Len(Digits(k)) + 1] = k
<1>1. PICK f, m : f = Values(tail, flag) /\ m = Len(tail)
  OBVIOUS
<1>2. m \in Nat
  BY <1>1, LenProperties
<1>3. f = [i \in flag + 1 .. m + 1 |-> IF i = flag + 1 THEN 0 ELSE f[i - 1] * 10 + (tail[i - 1] - 48)]
  <2>1. IsValues(Values(tail, flag), tail, flag)
    BY ValuesExist
  <2>2. IsValues(f, tail, flag)
    BY ONLY <1>1, <2>1
  <2> QED
    BY ONLY <1>1, <2>2 DEF IsValues
<1>4. ASSUME NEW i \in Nat \ {0}, flag + i <= m
      PROVE  f[flag + i + 1] = f[flag + i] * 10 + (tail[flag + i] - 48)
  <2>1. PICK x : x = flag + i + 1
    OBVIOUS
  <2>2. x \in flag + 1 .. m + 1 /\ x # flag + 1 /\ x - 1 = flag + i
    BY <1>2, <1>4, <2>1
  <2>3. f[x] = IF x = flag + 1 THEN 0 ELSE f[x - 1] * 10 + (tail[x - 1] - 48)
    BY ONLY <1>3, <2>2
  <2> QED
    BY ONLY <2>1, <2>2, <2>3
<1>5. f[flag + 1] = 0
  <2>1. flag + 1 \in flag + 1 .. m + 1
    <3>1. Len(Digits(k)) \in Nat
      BY DigitsType
    <3> QED
      BY <1>1, <1>2, <3>1
  <2> QED
    BY ONLY <1>3, <2>1
<1> DEFINE Lies(e) == flag + Len(e) <= m /\ \A i \in 1 .. Len(e) : tail[flag + i] = e[i]
           Good(j) == Lies(Digits(j)) => f[flag + Len(Digits(j)) + 1] = j
           Bad == {j \in Nat : ~Good(j)}
<1>6. ASSUME NEW j \in Nat, j >= 10 => Good(j \div 10), Lies(Digits(j))
      PROVE  f[flag + Len(Digits(j)) + 1] = j
  <2>1. Digits(j) = IF j >= 10 THEN Append(Digits(j \div 10), Code(j % 10)) ELSE <<Code(j)>>
    BY DigitsStep
  <2>2. CASE j < 10
    <3>1. PICK x : x = Code(j)
      OBVIOUS
    <3>2. Digits(j) = <<x>>
      BY <2>1, <2>2, <3>1
    <3>3. Len(<<x>>) = 1 /\ <<x>>[1] = x
      OBVIOUS
    <3>4. x - 48 = j
      <4>1. j \in 0 .. 9
        BY <2>2
      <4> QED
        BY <3>1, <4>1, CodeType
    <3>5. flag + 1 <= m /\ tail[flag + 1] = x
      <4>1. Lies(<<x>>)
        BY ONLY <1>6, <3>2
      <4>2. flag + Len(<<x>>) <= m /\ \A i \in 1 .. Len(<<x>>) : tail[flag + i] = <<x>>[i]
        BY <4>1
      <4>3. 1 \in 1 .. 1
        OBVIOUS
      <4> QED
        BY ONLY <3>3, <4>2, <4>3
    <3>6. f[flag + 1 + 1] = f[flag + 1] * 10 + (tail[flag + 1] - 48)
      <4>1. 1 \in Nat \ {0}
        OBVIOUS
      <4> QED
        BY ONLY <1>4, <3>5, <4>1
    <3>7. f[flag + 1 + 1] = j
      <4>1. PICK y : y = 0 * 10 + (x - 48)
        OBVIOUS
      <4>2. f[flag + 1 + 1] = y
        BY ONLY <1>5, <3>5, <3>6, <4>1
      <4>3. y = j
        BY ONLY <3>4, <4>1, j \in Nat
      <4> QED
        BY ONLY <4>2, <4>3
    <3> QED
      BY ONLY <3>2, <3>3, <3>7
  <2>3. CASE ~(j < 10)
    <3>1. PICK e, x, q : e = Digits(q) /\ x = Code(j % 10) /\ q = j \div 10
      OBVIOUS
    <3>2. j >= 10 /\ q \in Nat /\ j % 10 \in 0 .. 9 /\ j = q * 10 + (j % 10)
      <4>1. j \in Nat /\ j >= 10
        BY <1>6, <2>3
      <4> QED
        BY ONLY <3>1, <4>1
    <3>3. e \in Seq(Figures) /\ Len(e) \in Nat \ {0} /\ x - 48 = j % 10 /\ x \in Figures
      BY <3>1, <3>2, DigitsType, CodeType
    <3>4. PICK c : c = Len(e)
      OBVIOUS
    <3>5. Digits(j) = Append(e, x)
      BY ONLY <2>1, <3>1, <3>2
    <3>6. Len(Append(e, x)) = c + 1 /\ Append(e, x)[c + 1] = x /\ \A i \in 1 .. c : Append(e, x)[i] = e[i]
      BY <3>3, <3>4, AppendProperties
    <3>7. flag + (c + 1) <= m /\ \A i \in 1 .. c + 1 : tail[flag + i] = Append(e, x)[i]
      <4>1. Lies(Append(e, x))
        BY ONLY <1>6, <3>5
      <4>2. flag + Len(Append(e, x)) <= m /\ \A i \in 1 .. Len(Append(e, x)) : tail[flag + i] = Append(e, x)[i]
        BY <4>1
      <4> QED
        BY ONLY <3>6, <4>2
    <3>8. c \in Nat \ {0} /\ c + 1 \in 1 .. c + 1 /\ \A i \in 1 .. c : i \in 1 .. c + 1
      BY <3>3, <3>4
    <3>9. Lies(e)
      <4>1. flag + c <= m
        BY ONLY <1>2, <3>7, <3>8, flag \in Nat
      <4>2. \A i \in 1 .. c : tail[flag + i] = e[i]
        BY ONLY <3>6, <3>7, <3>8
      <4> QED
        BY ONLY <3>4, <4>1, <4>2
    <3>10. f[flag + c + 1] = q
      <4>1. Good(q)
        BY <1>6, <3>1, <3>2
      <4>2. Lies(e) => f[flag + c + 1] = q
        BY <3>1, <3>4, <4>1
      <4> HIDE DEF Lies
      <4> QED
        BY ONLY <3>9, <4>2
    <3>11. f[flag + (c + 1) + 1] = f[flag + (c + 1)] * 10 + (tail[flag + (c + 1)] - 48)
      <4>1. c + 1 \in Nat \ {0}
        BY ONLY <3>8
      <4> QED
        BY ONLY <1>4, <3>7, <4>1
    <3>12. f[flag + (c + 1)] = q /\ tail[flag + (c + 1)] = x
      <4>1. flag + (c + 1) = flag + c + 1
        BY ONLY <3>8, flag \in Nat
      <4>2. tail[flag + (c + 1)] = x
        BY ONLY <3>6, <3>7, <3>8
      <4> QED
        BY ONLY <3>10, <4>1, <4>2
    <3>13. q * 10 + (x - 48) = j
      BY ONLY <3>2, <3>3
    <3> QED
      BY ONLY <3>5, <3>6, <3>11, <3>12, <3>13
  <2> QED
    BY <2>2, <2>3
<1>7. \A j \in Nat : (j >= 10 => Good(j \div 10)) => Good(j)
  BY <1>6
<1> HIDE DEF Good
<1>8. Bad = {}
  <2> SUFFICES ASSUME Bad # {} PROVE FALSE
    OBVIOUS
  <2>1. PICK j \in Bad : \A i \in Bad : j <= i
    <3>1. Bad \in SUBSET Nat
      OBVIOUS
    <3> HIDE DEF Bad
    <3> QED
      BY <3>1, LeastNat
  <2>2. j \in Nat /\ ~Good(j)
    BY <2>1
  <2>3. j >= 10 /\ ~Good(j \div 10)
    BY <1>7, <2>2
  <2>4. j \div 10 \in Nat /\ j \div 10 < j
    BY <2>2, <2>3
  <2> QED
    BY ONLY <2>1, <2>2, <2>3, <2>4
<1>9. Lies(Digits(k))
  BY <1>1
<1> QED
  BY <1>1, <1>8, <1>9 DEF Good

\* b blanks, s signs, the digits of k, and no digit behind them.
Layout(t, b, s, k) ==
  /\ b + s + Len(Digits(k)) <= Len(t)
  /\ \A i \in 1 .. b : ft_isspace(t[i])
  /\ \A i \in 1 .. s : t[b + i] \in {Plus, Minus}
  /\ \A i \in 1 .. Len(Digits(k)) : t[b + s + i] = Digits(k)[i]
  /\ b + s + Len(Digits(k)) < Len(t) => ~IsDigit(t[b + s + Len(Digits(k)) + 1])

\* What is first in a text, behind n characters that are not like it.
LEMMA FirstIs ==
  ASSUME NEW t \in Seq(Int), NEW S, NEW n \in Nat, n < Len(t), t[n + 1] \in S,
         \A i \in 1 .. n : t[i] \notin S
  PROVE  /\ {i \in 1 .. Len(t) : t[i] \in S} # {}
         /\ Min({i \in 1 .. Len(t) : t[i] \in S}) = n + 1
<1>1. PICK m : m = Len(t)
  OBVIOUS
<1>2. m \in Nat /\ n + 1 \in 1 .. m
  BY <1>1, LenProperties
<1> DEFINE I == {i \in 1 .. m : t[i] \in S}
<1>3. I \in SUBSET Int /\ n + 1 \in I /\ \A i \in I : n + 1 <= i
  <2>1. \A i \in I : i \in 1 .. m /\ i \notin 1 .. n
    OBVIOUS
  <2> QED
    BY <1>2, <2>1
<1> HIDE DEF I
<1>4. I # {} /\ Min(I) = n + 1
  BY <1>3, MinIs
<1> QED
  BY <1>1, <1>4 DEF I

NoBlanks == {c \in Int : ~ft_isspace(c)}
NoSigns == {c \in Int : c \notin {Plus, Minus}}

LEMMA NumberIsRead ==
  ASSUME NEW t \in Seq(Int), NEW b \in Nat, NEW s \in Nat, NEW k \in Nat, NEW greatest, Layout(t, b, s, k)
  PROVE  Number(t, greatest) =
           IF s > 1 THEN [value |-> 0, defined |-> TRUE]
           ELSE [value |-> k * (IF s = 1 /\ t[b + 1] = Minus THEN -1 ELSE 1), defined |-> k <= greatest]
<1>1. PICK e, n, m, u : e = Digits(k) /\ n = Len(e) /\ m = Len(t) /\ u = SubSeq(t, b + 1, m)
  OBVIOUS
<1>2. m \in Nat /\ n \in Nat \ {0} /\ e \in Seq(Figures) /\ \A i \in 1 .. m : t[i] \in Int
  BY <1>1, LenProperties, DigitsType
<1>3. /\ b + s + n <= m
      /\ \A i \in 1 .. b : ft_isspace(t[i])
      /\ \A i \in 1 .. s : t[b + i] \in {Plus, Minus}
      /\ \A i \in 1 .. n : t[b + s + i] = e[i]
      /\ b + s + n < m => ~IsDigit(t[b + s + n + 1])
  BY <1>1 DEF Layout
<1>4. \A i \in 1 .. n : e[i] \in Figures
  BY <1>1, <1>2
<1>5. b + 1 \in 1 .. m /\ b < m /\ t[b + 1] \in NoBlanks /\ \A i \in 1 .. b : t[i] \notin NoBlanks
  <2>1. b + 1 \in 1 .. m /\ b < m
    BY <1>2, <1>3
  <2> SUFFICES t[b + 1] \in NoBlanks
    BY <1>3, <2>1 DEF NoBlanks
  <2>2. CASE s = 0
    <3>1. 1 \in 1 .. n /\ b + s + 1 = b + 1
      BY <1>2, <2>2
    <3>2. t[b + 1] \in Figures
      BY <1>3, <1>4, <3>1
    <3>3. \A c \in Figures : c \in NoBlanks
      BY DEF NoBlanks, Figures, ft_isspace
    <3> QED
      BY ONLY <3>2, <3>3
  <2>3. CASE s # 0
    <3>1. 1 \in 1 .. s
      BY <2>3
    <3>2. t[b + 1] \in {Plus, Minus}
      BY <1>3, <3>1
    <3> QED
      BY ONLY <3>2 DEF NoBlanks, Plus, Minus, ft_isspace
  <2> QED
    BY <2>2, <2>3
<1>6. u \in Seq(Int) /\ Len(u) = m - b /\ \A i \in 1 .. m - b : u[i] = t[b + i]
  <2>1. /\ SubSeq(t, b + 1, m) \in Seq(Int)
        /\ Len(SubSeq(t, b + 1, m)) = m - (b + 1) + 1
        /\ \A i \in 1 .. m - (b + 1) + 1 : SubSeq(t, b + 1, m)[i] = t[(b + 1) + i - 1]
    <3>1. b + 1 \in Int /\ m \in Int /\ b + 1 <= m /\ \A i \in b + 1 .. m : t[i] \in Int
      BY <1>2, <1>5
    <3>2. /\ SubSeq(t, b + 1, m) \in Seq(Int)
          /\ Len(SubSeq(t, b + 1, m)) = IF b + 1 <= m THEN m - (b + 1) + 1 ELSE 0
          /\ \A i \in 1 .. m - (b + 1) + 1 : SubSeq(t, b + 1, m)[i] = t[(b + 1) + i - 1]
      BY ONLY <3>1, SubSeqProperties
    <3> QED
      BY ONLY <3>1, <3>2
  <2>2. m - (b + 1) + 1 = m - b /\ \A i \in 1 .. m - b : (b + 1) + i - 1 = b + i
    BY <1>2
  <2> QED
    BY ONLY <1>1, <2>1, <2>2
<1>7. s + n <= Len(u) /\ s < Len(u) /\ \A i \in 1 .. s + n : u[i] = t[b + i]
  <2>1. s + n <= m - b /\ s < m - b
    BY <1>2, <1>3
  <2> QED
    BY <1>2, <1>6, <2>1
<1>8. \A i \in 1 .. s : u[i] \in {Plus, Minus}
  <2> SUFFICES ASSUME NEW i \in 1 .. s PROVE u[i] \in {Plus, Minus}
    OBVIOUS
  <2>1. i \in 1 .. s + n
    BY <1>2
  <2> QED
    BY ONLY <1>3, <1>7, <2>1, i \in 1 .. s
<1>9. \A i \in 1 .. n : u[s + i] = e[i]
  <2> SUFFICES ASSUME NEW i \in 1 .. n PROVE u[s + i] = e[i]
    OBVIOUS
  <2>1. s + i \in 1 .. s + n /\ b + (s + i) = b + s + i
    BY <1>2
  <2> QED
    BY <1>3, <1>7, <2>1
<1>10. s + n < Len(u) => ~IsDigit(u[s + n + 1])
  <2> SUFFICES ASSUME s + n < Len(u) PROVE ~IsDigit(u[s + n + 1])
    OBVIOUS
  <2>1. s + n + 1 \in 1 .. m - b /\ b + (s + n + 1) = b + s + n + 1 /\ b + s + n < m
    BY <1>2, <1>6
  <2> QED
    BY <1>3, <1>6, <2>1
<1>11. u[s + 1] \in NoSigns /\ \A i \in 1 .. s : u[i] \notin NoSigns
  <2>1. 1 \in 1 .. n
    BY <1>2
  <2>2. u[s + 1] \in Figures
    BY <1>4, <1>9, <2>1
  <2>3. \A c \in Figures : c \in NoSigns
    BY DEF Figures, NoSigns, Plus, Minus
  <2>4. u[s + 1] \in NoSigns
    BY ONLY <2>2, <2>3
  <2> QED
    BY <1>8, <2>4 DEF NoSigns
<1>12. SelectInSeq(t, LAMBDA c : ~ft_isspace(c)) = b + 1
  <2> DEFINE I == {i \in 1 .. Len(t) : ~ft_isspace(t[i])}
  <2>1. I = {i \in 1 .. Len(t) : t[i] \in NoBlanks}
    BY <1>1, <1>2 DEF NoBlanks
  <2>2. I # {} /\ Min(I) = b + 1
    <3> HIDE DEF I
    <3> QED
      BY <1>1, <1>5, <2>1, FirstIs
  <2>3. SelectInSeq(t, LAMBDA c : ~ft_isspace(c)) = IF I # {} THEN Min(I) ELSE 0
    BY DEF SelectInSeq
  <2> HIDE DEF I
  <2> QED
    BY ONLY <2>2, <2>3
<1>13. SelectInSeq(u, LAMBDA c : c \notin {Plus, Minus}) = s + 1
  <2> DEFINE I == {i \in 1 .. Len(u) : u[i] \notin {Plus, Minus}}
  <2>1. I = {i \in 1 .. Len(u) : u[i] \in NoSigns}
    BY <1>6 DEF NoSigns
  <2>2. I # {} /\ Min(I) = s + 1
    <3> HIDE DEF I
    <3> QED
      BY <1>6, <1>7, <1>11, <2>1, FirstIs
  <2>3. SelectInSeq(u, LAMBDA c : c \notin {Plus, Minus}) = IF I # {} THEN Min(I) ELSE 0
    BY DEF SelectInSeq
  <2> HIDE DEF I
  <2> QED
    BY ONLY <2>2, <2>3
<1> DEFINE mi(tail, flag) == IF Cardinality({i \in 1 .. flag : tail[i] = Minus}) % 2 = 1 THEN -1 ELSE 1
           Read(tail, flag) ==
             IF flag > 1 THEN [value |-> 0, defined |-> TRUE]
             ELSE [value |-> Values(tail, flag)[Stop(tail)[flag + 1]] * mi(tail, flag),
                   defined |-> Values(tail, flag)[Stop(tail)[flag + 1]] <= greatest]
<1>14. Number(t, greatest) = Read(u, s)
  <2> DEFINE first == SelectInSeq(t, LAMBDA c : ~ft_isspace(c))
             tail == IF first = 0 THEN << >> ELSE SubSeq(t, first, Len(t))
             after == SelectInSeq(tail, LAMBDA c : c \notin {Plus, Minus})
             flag == IF after = 0 THEN Len(tail) ELSE after - 1
  <2>1. Number(t, greatest) = Read(tail, flag)
    BY DEF Number, Values, Stop, IsValues, IsStop
  <2>2. first = b + 1 /\ b + 1 # 0
    BY <1>12
  <2> HIDE DEF first
  <2>3. tail = u
    BY ONLY <1>1, <2>2
  <2> HIDE DEF tail
  <2>4. after = s + 1
    BY ONLY <1>13, <2>3 DEF after
  <2> HIDE DEF after
  <2>5. flag = s
    BY <2>4
  <2> HIDE DEF flag, Read
  <2> QED
    BY ONLY <2>1, <2>3, <2>5
<1>15. ASSUME s <= 1 PROVE mi(u, s) = IF s = 1 /\ t[b + 1] = Minus THEN -1 ELSE 1
  <2> DEFINE M == {i \in 1 .. s : u[i] = Minus}
  <2>1. M = IF s = 1 /\ t[b + 1] = Minus THEN {1} ELSE {}
    <3>1. CASE s = 0
      BY <3>1
    <3>2. CASE s = 1
      <4>1. u[1] = t[b + 1]
        BY <1>2, <1>7, <3>2
      <4> QED
        BY <3>2, <4>1
    <3> QED
      BY <1>15, <3>1, <3>2
  <2> HIDE DEF M
  <2>2. Cardinality({1}) = 1 /\ Cardinality({}) = 0
    BY FS_EmptySet, FS_Singleton
  <2>3. 1 % 2 = 1 /\ 0 % 2 = 0
    OBVIOUS
  <2>4. (Cardinality(M) % 2 = 1) <=> (s = 1 /\ t[b + 1] = Minus)
    BY ONLY <2>1, <2>2, <2>3
  <2> QED
    BY ONLY <2>4 DEF M
<1>16. Values(u, s)[Stop(u)[s + 1]] = k
  <2>1. Stop(u)[s + 1] = s + n + 1
    <3>1. s + 1 \in Nat /\ s + n + 1 \in Nat /\ s + 1 <= s + n + 1 /\ s + n + 1 <= Len(u) + 1
      BY <1>2, <1>6, <1>7
    <3>2. ASSUME NEW i \in s + 1 .. (s + n + 1) - 1 PROVE IsDigit(u[i])
      <4>1. PICK j : j = i - s
        OBVIOUS
      <4>2. j \in 1 .. n /\ i = s + j
        BY <1>2, <4>1
      <4>3. u[i] \in Figures
        BY <1>4, <1>9, <4>2
      <4> QED
        BY <4>3 DEF IsDigit, Figures
    <3>3. s + n + 1 <= Len(u) => ~IsDigit(u[s + n + 1])
      BY <1>2, <1>6, <1>10
    <3> QED
      BY ONLY <1>6, <3>1, <3>2, <3>3, StopIs
  <2>2. Values(u, s)[s + Len(Digits(k)) + 1] = k
    <3>1. s + Len(Digits(k)) <= Len(u) /\ \A i \in 1 .. Len(Digits(k)) : u[s + i] = Digits(k)[i]
      BY ONLY <1>1, <1>7, <1>9
    <3> QED
      BY ONLY <1>6, <3>1, s \in Nat, k \in Nat, DigitsAreWorth
  <2> QED
    BY ONLY <1>1, <2>1, <2>2
<1> HIDE DEF mi
<1>17. CASE s > 1
  BY <1>14, <1>17
<1>18. CASE ~(s > 1)
  <2>1. mi(u, s) = IF s = 1 /\ t[b + 1] = Minus THEN -1 ELSE 1
    BY <1>15, <1>18
  <2>2. Number(t, greatest) = [value |-> Values(u, s)[Stop(u)[s + 1]] * mi(u, s),
                               defined |-> Values(u, s)[Stop(u)[s + 1]] <= greatest]
    BY <1>14, <1>18
  <2>3. Number(t, greatest) = [value |-> k * mi(u, s), defined |-> k <= greatest]
    BY ONLY <1>16, <2>2
  <2> QED
    BY ONLY <1>18, <2>1, <2>3
<1> QED
  BY <1>17, <1>18

\* A text put together of such parts is laid out like this.
AllBlank(p) == \A i \in 1 .. Len(p) : ft_isspace(p[i])
AllSigns(g) == \A i \in 1 .. Len(g) : g[i] \in {Plus, Minus}
NoDigitFirst(a) == Len(a) > 0 => ~IsDigit(a[1])
IsLaid(t, p, g, k) ==
  /\ t \in Seq(Int) /\ Layout(t, Len(p), Len(g), k)
  /\ Len(g) > 0 => t[Len(p) + 1] = g[1]

LEMMA PartsAreLaid ==
  ASSUME NEW p \in Seq(Int), NEW g \in Seq(Int), NEW k \in Nat, NEW a \in Seq(Int),
         AllBlank(p), AllSigns(g), NoDigitFirst(a)
  PROVE  IsLaid(((p \o g) \o Digits(k)) \o a, p, g, k)
<1> SUFFICES ASSUME NEW t, t = ((p \o g) \o Digits(k)) \o a PROVE IsLaid(t, p, g, k)
  OBVIOUS
<1>1. PICK e, pg, pge : e = Digits(k) /\ pg = p \o g /\ pge = pg \o e
  OBVIOUS
<1>2. PICK b, s, n, m : b = Len(p) /\ s = Len(g) /\ n = Len(e) /\ m = Len(a)
  OBVIOUS
<1>3. e \in Seq(Int)
  <2>1. e \in Seq(Figures) /\ \A x \in Figures : x \in Int
    BY <1>1, DigitsType DEF Figures
  <2>2. Len(e) \in Nat /\ e \in [1 .. Len(e) -> Int]
    BY <2>1
  <2> QED
    BY ONLY <2>2, FcnIsSeq
<1>4. b \in Nat /\ s \in Nat /\ n \in Nat \ {0} /\ m \in Nat
  BY <1>1, <1>2, DigitsType, LenProperties
<1>5. pg \in Seq(Int) /\ Len(pg) = b + s /\ \A i \in 1 .. b + s : pg[i] = IF i <= b THEN p[i] ELSE g[i - b]
  <2>1. /\ p \o g \in Seq(Int) /\ Len(p \o g) = Len(p) + Len(g)
        /\ \A i \in 1 .. Len(p) + Len(g) : (p \o g)[i] = IF i <= Len(p) THEN p[i] ELSE g[i - Len(p)]
    BY ConcatProperties
  <2> QED
    BY ONLY <1>1, <1>2, <2>1
<1>6. /\ pge \in Seq(Int) /\ Len(pge) = (b + s) + n
      /\ \A i \in 1 .. (b + s) + n : pge[i] = IF i <= b + s THEN pg[i] ELSE e[i - (b + s)]
  <2>1. /\ pg \o e \in Seq(Int) /\ Len(pg \o e) = Len(pg) + Len(e)
        /\ \A i \in 1 .. Len(pg) + Len(e) : (pg \o e)[i] = IF i <= Len(pg) THEN pg[i] ELSE e[i - Len(pg)]
    BY <1>3, <1>5, ConcatProperties
  <2> QED
    BY ONLY <1>1, <1>2, <1>5, <2>1
<1>7. /\ t \in Seq(Int) /\ Len(t) = ((b + s) + n) + m
      /\ \A i \in 1 .. ((b + s) + n) + m : t[i] = IF i <= (b + s) + n THEN pge[i] ELSE a[i - ((b + s) + n)]
  <2>1. /\ pge \o a \in Seq(Int) /\ Len(pge \o a) = Len(pge) + Len(a)
        /\ \A i \in 1 .. Len(pge) + Len(a) : (pge \o a)[i] = IF i <= Len(pge) THEN pge[i] ELSE a[i - Len(pge)]
    BY <1>6, ConcatProperties
  <2>2. t = pge \o a
    BY <1>1
  <2>3. Len(pge) = (b + s) + n /\ Len(a) = m
    BY ONLY <1>2, <1>6
  <2>4. /\ t \in Seq(Int) /\ Len(t) = Len(pge) + Len(a)
        /\ \A i \in 1 .. Len(pge) + Len(a) : t[i] = IF i <= Len(pge) THEN pge[i] ELSE a[i - Len(pge)]
    BY ONLY <2>1, <2>2
  <2> QED
    BY ONLY <2>3, <2>4
<1>8. \A i \in 1 .. b : t[i] = p[i]
  <2> SUFFICES ASSUME NEW i \in 1 .. b PROVE t[i] = p[i]
    OBVIOUS
  <2>1. i \in 1 .. b + s /\ i \in 1 .. (b + s) + n /\ i \in 1 .. ((b + s) + n) + m
        /\ i <= b /\ i <= b + s /\ i <= (b + s) + n
    BY <1>4
  <2> QED
    BY ONLY <1>5, <1>6, <1>7, <2>1
<1>9. \A i \in 1 .. s : t[b + i] = g[i]
  <2> SUFFICES ASSUME NEW i \in 1 .. s PROVE t[b + i] = g[i]
    OBVIOUS
  <2>1. PICK j : j = b + i
    OBVIOUS
  <2>2. j \in 1 .. b + s /\ j \in 1 .. (b + s) + n /\ j \in 1 .. ((b + s) + n) + m
        /\ ~(j <= b) /\ j <= b + s /\ j <= (b + s) + n /\ j - b = i
    BY <1>4, <2>1
  <2> QED
    BY ONLY <1>5, <1>6, <1>7, <2>1, <2>2
<1>10. \A i \in 1 .. n : t[b + s + i] = e[i]
  <2> SUFFICES ASSUME NEW i \in 1 .. n PROVE t[b + s + i] = e[i]
    OBVIOUS
  <2>1. PICK j : j = b + s + i
    OBVIOUS
  <2>2. j \in 1 .. (b + s) + n /\ j \in 1 .. ((b + s) + n) + m
        /\ ~(j <= b + s) /\ j <= (b + s) + n /\ j - (b + s) = i
    BY <1>4, <2>1
  <2> QED
    BY ONLY <1>6, <1>7, <2>1, <2>2
<1>11. b + s + n < Len(t) => ~IsDigit(t[b + s + n + 1])
  <2> SUFFICES ASSUME b + s + n < Len(t) PROVE ~IsDigit(t[b + s + n + 1])
    OBVIOUS
  <2>1. PICK j, c : j = b + s + n + 1 /\ c = (b + s) + n
    OBVIOUS
  <2>2. m > 0 /\ j \in 1 .. c + m /\ ~(j <= c) /\ j - c = 1
    <3>1. c \in Nat /\ b + s + n = c /\ Len(t) = c + m
      BY ONLY <1>4, <1>7, <2>1
    <3>2. c < c + m
      BY ONLY <3>1, b + s + n < Len(t)
    <3>3. j = c + 1
      BY ONLY <2>1, <3>1
    <3> QED
      BY ONLY <1>4, <3>1, <3>2, <3>3
  <2>3. t[j] = a[1]
    BY ONLY <1>7, <2>1, <2>2
  <2>4. ~IsDigit(a[1])
    BY <1>2, <2>2 DEF NoDigitFirst
  <2> QED
    BY ONLY <2>1, <2>3, <2>4
<1>12. b + s + n <= Len(t)
  BY <1>4, <1>7
<1>13. \A i \in 1 .. b : ft_isspace(t[i])
  BY <1>2, <1>8 DEF AllBlank
<1>14. \A i \in 1 .. s : t[b + i] \in {Plus, Minus}
  BY <1>2, <1>9 DEF AllSigns
<1>15. Layout(t, b, s, k)
  BY ONLY <1>1, <1>2, <1>10, <1>11, <1>12, <1>13, <1>14 DEF Layout
<1>16. s > 0 => t[b + 1] = g[1]
  <2>1. s > 0 => 1 \in 1 .. s
    BY <1>4
  <2> QED
    BY <1>9, <2>1
<1> QED
  BY ONLY <1>2, <1>7, <1>15, <1>16 DEF IsLaid

\* What ft_itoa writes, with signs, is read as this.
IsRead(t, n, g, greatest) ==
  Number(t, greatest) =
    IF Len(g) > 1 THEN [value |-> 0, defined |-> TRUE]
    ELSE [value |-> Abs(n) * (IF Len(g) = 1 /\ g[1] = Minus THEN -1 ELSE 1), defined |-> Abs(n) <= greatest]

LEMMA WrittenIsRead ==
  ASSUME NEW n \in Ints, NEW before \in Leads, NEW after \in Trails, NEW g \in Seq({Plus, Minus}),
         NEW greatest
  PROVE  IsRead(((before \o g) \o Digits(Abs(n))) \o after, n, g, greatest)
<1> SUFFICES ASSUME NEW t, t = ((before \o g) \o Digits(Abs(n))) \o after PROVE IsRead(t, n, g, greatest)
  OBVIOUS
<1>1. PICK k : k = Abs(n)
  OBVIOUS
<1>2. k \in Nat
  BY <1>1, NumberIsWritten
<1>3. before \in Seq(Int) /\ AllBlank(before)
  <2>1. CASE before = << >>
    BY <2>1, EmptySeq DEF AllBlank
  <2>2. CASE before = <<32, 9>>
    <3>1. ft_isspace(32) /\ ft_isspace(9)
      BY DEF ft_isspace
    <3>2. <<32, 9>> \in Seq(Int) /\ Len(<<32, 9>>) = 2 /\ <<32, 9>>[1] = 32 /\ <<32, 9>>[2] = 9
      OBVIOUS
    <3>3. \A i \in 1 .. 2 : i = 1 \/ i = 2
      OBVIOUS
    <3> QED
      BY ONLY <2>2, <3>1, <3>2, <3>3 DEF AllBlank
  <2> QED
    BY <2>1, <2>2 DEF Leads
<1>4. after \in Seq(Int) /\ NoDigitFirst(after)
  <2>1. CASE after = << >>
    BY <2>1, EmptySeq DEF NoDigitFirst
  <2>2. CASE after = <<Minus>>
    <3>1. Minus \in Int /\ ~IsDigit(Minus)
      BY DEF Minus, IsDigit
    <3> QED
      BY <2>2, <3>1 DEF NoDigitFirst
  <2>3. CASE after = <<32, Code(1)>>
    <3>1. Code(1) \in Int /\ ~IsDigit(32)
      BY DEF Code, IsDigit
    <3>2. PICK x : x = Code(1)
      OBVIOUS
    <3>3. <<32, x>> \in Seq(Int) /\ <<32, x>>[1] = 32
      BY <3>1, <3>2
    <3> QED
      BY ONLY <2>3, <3>1, <3>2, <3>3 DEF NoDigitFirst
  <2> QED
    BY <2>1, <2>2, <2>3 DEF Trails
<1>5. g \in Seq(Int) /\ AllSigns(g)
  <2>1. \A i \in 1 .. Len(g) : g[i] \in {Plus, Minus}
    BY LenProperties
  <2>2. Plus \in Int /\ Minus \in Int
    BY DEF Plus, Minus
  <2>3. Len(g) \in Nat /\ g \in [1 .. Len(g) -> Int]
    BY <2>1, <2>2, LenProperties
  <2> QED
    BY <2>1, <2>3, FcnIsSeq DEF AllSigns
<1>6. t = ((before \o g) \o Digits(k)) \o after
  BY <1>1
<1>7. /\ t \in Seq(Int) /\ Layout(t, Len(before), Len(g), k)
      /\ Len(g) > 0 => t[Len(before) + 1] = g[1]
  <2>1. IsLaid(((before \o g) \o Digits(k)) \o after, before, g, k)
    BY ONLY <1>2, <1>3, <1>4, <1>5, PartsAreLaid
  <2> QED
    BY ONLY <1>6, <2>1 DEF IsLaid
<1>8. Len(before) \in Nat /\ Len(g) \in Nat
  BY <1>3, <1>5, LenProperties
<1>9. PICK b, s : b = Len(before) /\ s = Len(g)
  OBVIOUS
<1>10. b \in Nat /\ s \in Nat /\ Layout(t, b, s, k) /\ t \in Seq(Int)
  BY ONLY <1>7, <1>8, <1>9
<1>11. Number(t, greatest) =
        IF s > 1 THEN [value |-> 0, defined |-> TRUE]
        ELSE [value |-> k * (IF s = 1 /\ t[b + 1] = Minus THEN -1 ELSE 1), defined |-> k <= greatest]
  BY ONLY <1>2, <1>10, NumberIsRead
<1>12. (s = 1 /\ t[b + 1] = Minus) <=> (s = 1 /\ g[1] = Minus)
  <2>1. s = 1 => t[b + 1] = g[1]
    BY ONLY <1>7, <1>8, <1>9
  <2> QED
    BY ONLY <2>1
<1>13. (IF s = 1 /\ t[b + 1] = Minus THEN -1 ELSE 1) = (IF s = 1 /\ g[1] = Minus THEN -1 ELSE 1)
  BY ONLY <1>12
<1>14. Number(t, greatest) =
        IF s > 1 THEN [value |-> 0, defined |-> TRUE]
        ELSE [value |-> k * (IF s = 1 /\ g[1] = Minus THEN -1 ELSE 1), defined |-> k <= greatest]
  BY ONLY <1>11, <1>13
<1> QED
  BY ONLY <1>1, <1>9, <1>14 DEF IsRead

SignIs(n, sign) ==
  /\ Sign(n) \in Seq({Plus, Minus}) /\ <<sign>> \o Sign(n) \in Seq({Plus, Minus})
  /\ Len(Sign(n)) = (IF n < 0 THEN 1 ELSE 0) /\ (n < 0 => Sign(n)[1] = Minus)
  /\ Len(<<sign>> \o Sign(n)) = (IF n < 0 THEN 2 ELSE 1) /\ (~(n < 0) => (<<sign>> \o Sign(n))[1] = sign)

LEMMA SignFacts ==
  ASSUME NEW n \in Ints, NEW sign \in {Plus, Minus}
  PROVE  SignIs(n, sign)
<1>1. <<sign>> \in Seq({Plus, Minus}) /\ Len(<<sign>>) = 1 /\ <<sign>>[1] = sign
  OBVIOUS
<1>2. CASE n < 0
  <2>1. Sign(n) = <<Minus>>
    BY <1>2 DEF Sign
  <2>2. <<Minus>> \in Seq({Plus, Minus}) /\ Len(<<Minus>>) = 1 /\ <<Minus>>[1] = Minus
    OBVIOUS
  <2>3. <<sign>> \o <<Minus>> \in Seq({Plus, Minus}) /\ Len(<<sign>> \o <<Minus>>) = 2
    BY <1>1, <2>2, ConcatProperties
  <2> QED
    BY ONLY <1>2, <2>1, <2>2, <2>3 DEF SignIs
<1>3. CASE ~(n < 0)
  <2>1. Sign(n) = << >>
    BY <1>3 DEF Sign
  <2>2. << >> \in Seq({Plus, Minus}) /\ Len(<< >>) = 0 /\ <<sign>> \o << >> = <<sign>>
    BY <1>1, EmptySeq, ConcatEmptySeq
  <2> QED
    BY ONLY <1>1, <1>3, <2>1, <2>2 DEF SignIs
<1> QED
  BY <1>2, <1>3

LEMMA Associate == \A s, t, u \in Seq(Int) : (s \o t) \o u = s \o (t \o u)
<1> SUFFICES ASSUME NEW s \in Seq(Int), NEW t \in Seq(Int), NEW u \in Seq(Int)
             PROVE  (s \o t) \o u = s \o (t \o u)
  OBVIOUS
<1> QED
  BY ONLY s \in Seq(Int), t \in Seq(Int), u \in Seq(Int), ConcatAssociative

ComesBack(n, before, after) ==
  LET text == before \o ft_itoa(n) \o after
      read == ft_atoi(text)
  IN  /\ ft_putnbr_fd(n) = ft_itoa(n)
      /\ ft_atoi_longlong(text) = [value |-> n, defined |-> TRUE]
      /\ read.defined <=> n # -INT_MAX - 1
      /\ read.defined => read.value = n
      /\ \A sign \in {Plus, Minus} :
           LET signed == ft_atoi_longlong(before \o <<sign>> \o ft_itoa(n) \o after)
           IN  signed.value = IF n < 0 THEN 0 ELSE IF sign = Minus THEN -n ELSE n

LEMMA NumberComesBack ==
  ASSUME NEW n \in Ints, NEW before \in Leads, NEW after \in Trails
  PROVE  ComesBack(n, before, after)
<1>1. PICK k, e, S : k = Abs(n) /\ e = Digits(k) /\ S = Sign(n)
  OBVIOUS
<1>2. /\ n \in Int /\ INT_MAX \in Nat /\ LLONG_MAX \in Nat /\ INT_MAX < LLONG_MAX
      /\ n >= -INT_MAX - 1 /\ n <= INT_MAX
  BY TextAssumption DEF Ints
<1>3. k \in Nat /\ ft_itoa(n) = S \o e /\ ft_putnbr_fd(n) = ft_itoa(n)
  BY <1>1, NumberIsWritten
<1>4. before \in Seq(Int) /\ e \in Seq(Int)
  <2>1. << >> \in Seq(Int) /\ <<32, 9>> \in Seq(Int)
    BY EmptySeq
  <2>2. Digits(k) \in Seq(Figures) /\ Figures \subseteq Int
    BY <1>3, DigitsType DEF Figures
  <2> QED
    BY <1>1, <2>1, <2>2, SeqMonotonic DEF Leads
<1>5. {Plus, Minus} \subseteq Int
  BY DEF Plus, Minus
<1>6. S \in Seq({Plus, Minus}) /\ Len(S) = (IF n < 0 THEN 1 ELSE 0) /\ (n < 0 => S[1] = Minus)
  <2>1. Plus \in {Plus, Minus}
    OBVIOUS
  <2> QED
    BY ONLY <1>1, <2>1, n \in Ints, SignFacts DEF SignIs
<1>7. S \in Seq(Int)
  BY <1>5, <1>6, SeqMonotonic
<1>8. k <= LLONG_MAX /\ (k <= INT_MAX <=> n # -INT_MAX - 1) /\ k * (IF n < 0 THEN -1 ELSE 1) = n
  <2>1. CASE n < 0
    <3>1. k = -n
      BY <1>1, <2>1 DEF Abs
    <3> QED
      BY ONLY <1>2, <2>1, <3>1
  <2>2. CASE ~(n < 0)
    <3>1. k = n
      BY <1>1, <2>2 DEF Abs
    <3> QED
      BY ONLY <1>2, <2>2, <3>1
  <2> QED
    BY ONLY <2>1, <2>2
<1>9. PICK text : text = (before \o ft_itoa(n)) \o after
  OBVIOUS
<1>10. \A greatest : Number(text, greatest) = [value |-> n, defined |-> k <= greatest]
  <2> SUFFICES ASSUME NEW greatest PROVE Number(text, greatest) = [value |-> n, defined |-> k <= greatest]
    OBVIOUS
  <2>1. before \o (S \o e) = (before \o S) \o e
    BY ONLY <1>4, <1>7, Associate
  <2>2. text = ((before \o S) \o Digits(Abs(n))) \o after
    BY ONLY <1>1, <1>3, <1>9, <2>1
  <2>3. Number(text, greatest) =
          IF Len(S) > 1 THEN [value |-> 0, defined |-> TRUE]
          ELSE [value |-> Abs(n) * (IF Len(S) = 1 /\ S[1] = Minus THEN -1 ELSE 1), defined |-> Abs(n) <= greatest]
    <3>1. IsRead(((before \o S) \o Digits(Abs(n))) \o after, n, S, greatest)
      BY <1>6, WrittenIsRead
    <3> QED
      BY ONLY <2>2, <3>1 DEF IsRead
  <2>4. ~(Len(S) > 1) /\ ((Len(S) = 1 /\ S[1] = Minus) <=> n < 0)
    BY <1>6
  <2> QED
    BY ONLY <1>1, <1>8, <2>3, <2>4
<1>11. ASSUME NEW sign \in {Plus, Minus}
       PROVE  ft_atoi_longlong(before \o <<sign>> \o ft_itoa(n) \o after).value =
                IF n < 0 THEN 0 ELSE IF sign = Minus THEN -n ELSE n
  <2>1. PICK g, signed : g = <<sign>> \o S /\ signed = before \o <<sign>> \o ft_itoa(n) \o after
    OBVIOUS
  <2>2. g \in Seq({Plus, Minus}) /\ Len(g) = (IF n < 0 THEN 2 ELSE 1) /\ (~(n < 0) => g[1] = sign)
    <3>1. SignIs(n, sign)
      BY SignFacts
    <3> QED
      BY ONLY <1>1, <2>1, <3>1 DEF SignIs
  <2>3. <<sign>> \in Seq(Int) /\ g \in Seq(Int)
    <3>1. <<sign>> \in Seq({Plus, Minus})
      OBVIOUS
    <3> QED
      BY <1>5, <2>2, <3>1, SeqMonotonic
  <2>4. signed = ((before \o g) \o Digits(Abs(n))) \o after
    <3>1. PICK bs : bs = before \o <<sign>>
      OBVIOUS
    <3>2. bs \in Seq(Int)
      BY <1>4, <2>3, <3>1, ConcatProperties
    <3>3. bs \o (S \o e) = (bs \o S) \o e
      BY ONLY <1>4, <1>7, <3>2, Associate
    <3>4. (before \o <<sign>>) \o S = before \o (<<sign>> \o S)
      BY ONLY <1>4, <1>7, <2>3, Associate
    <3> QED
      BY ONLY <1>1, <1>3, <2>1, <3>1, <3>3, <3>4
  <2>5. Number(signed, LLONG_MAX) =
          IF Len(g) > 1 THEN [value |-> 0, defined |-> TRUE]
          ELSE [value |-> Abs(n) * (IF Len(g) = 1 /\ g[1] = Minus THEN -1 ELSE 1), defined |-> Abs(n) <= LLONG_MAX]
    <3>1. IsRead(((before \o g) \o Digits(Abs(n))) \o after, n, g, LLONG_MAX)
      BY <2>2, WrittenIsRead
    <3> QED
      BY ONLY <2>4, <3>1 DEF IsRead
  <2>6. CASE n < 0
    <3>1. Len(g) > 1
      BY <2>2, <2>6
    <3>2. Number(signed, LLONG_MAX).value = 0
      BY <2>5, <3>1
    <3> QED
      BY <2>1, <2>6, <3>2 DEF ft_atoi_longlong
  <2>7. CASE ~(n < 0)
    <3>1. ~(Len(g) > 1) /\ Len(g) = 1 /\ g[1] = sign /\ Abs(n) = n
      BY <2>2, <2>7 DEF Abs
    <3>2. Number(signed, LLONG_MAX).value = n * (IF sign = Minus THEN -1 ELSE 1)
      BY ONLY <2>5, <3>1
    <3>3. n * (IF sign = Minus THEN -1 ELSE 1) = IF sign = Minus THEN -n ELSE n
      BY <1>2
    <3> QED
      BY ONLY <2>1, <2>7, <3>2, <3>3 DEF ft_atoi_longlong
  <2> QED
    BY <2>6, <2>7
<1>12. ft_atoi_longlong(text) = [value |-> n, defined |-> TRUE]
  BY <1>8, <1>10 DEF ft_atoi_longlong
<1>13. ft_atoi(text) = [value |-> n, defined |-> k <= INT_MAX]
  BY <1>10 DEF ft_atoi
<1>14. /\ ft_atoi(text).defined <=> n # -INT_MAX - 1
       /\ ft_atoi(text).value = n
  <2>1. ft_atoi(text).defined = (k <= INT_MAX) /\ ft_atoi(text).value = n
    BY ONLY <1>13
  <2> QED
    BY ONLY <1>8, <2>1
<1> QED
  BY ONLY <1>3, <1>9, <1>11, <1>12, <1>14 DEF ComesBack

(***************************************************************************)
(* NumbersComeBack, for every INT_MAX and every LLONG_MAX above it:        *)
(* ft_itoa and ft_putnbr_fd write every int alike, and ft_atoi_longlong    *)
(* reads it back, as ft_atoi does but for the least int.                   *)
(***************************************************************************)
THEOREM NumbersAreReadBack == Spec => []NumbersComeBack
<1>1. NumbersComeBack
  BY NumberComesBack DEF NumbersComeBack, ComesBack
<1> QED
  BY <1>1, PTL

=============================================================================
