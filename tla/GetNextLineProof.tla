--------------------------- MODULE GetNextLineProof ---------------------------
(***************************************************************************)
(* Theorems about get_next_line, for every text, every BUFFER_SIZE and     *)
(* every way in which the bytes come and the reads and mallocs fail.       *)
(***************************************************************************)
EXTENDS GetNextLine, FiniteSetTheorems, SequenceTheorems, WellFoundedInduction, TLAPS

-----------------------------------------------------------------------------
(***************************************************************************)
(* The least element of a set of naturals, which takes the place of        *)
(* induction.                                                              *)
(***************************************************************************)
LEMMA LeastNat ==
  ASSUME NEW S \in SUBSET Nat, S # {}
  PROVE  Min(S) \in S /\ \A y \in S : Min(S) <= y
<1> DEFINE Below(n) == S \cap (0 .. n)
           T == {Below(n) : n \in S}
<1>1. T \subseteq FiniteSubsetsOf(Nat) /\ T # {}
  <2>1. \A n \in S : IsFiniteSet(0 .. n)
    BY FS_Interval
  <2>2. \A n \in S : IsFiniteSet(Below(n))
    BY <2>1, FS_Subset
  <2> QED
    BY <2>2 DEF FiniteSubsetsOf
<1> HIDE DEF T
<1>2. PICK X \in T : \A Y \in T : ~(<<Y, X>> \in StrictSubsetOrdering(Nat))
  BY <1>1, FS_StrictSubsetOrderingWellFounded, WFMin
<1> USE DEF T
<1>3. PICK n \in S : X = Below(n)
  OBVIOUS
<1>4. ASSUME NEW y \in S, y < n PROVE FALSE
  <2>1. Below(y) \in T /\ Below(y) \subseteq X /\ n \in X /\ n \notin Below(y)
    BY <1>3, <1>4
  <2>2. <<Below(y), X>> \in StrictSubsetOrdering(Nat)
    BY <2>1, <1>1 DEF StrictSubsetOrdering, FiniteSubsetsOf
  <2> QED
    BY <2>1, <2>2, <1>2
<1>5. \A y \in S : n <= y
  BY <1>4
<1> HIDE DEF T
<1> QED
  BY <1>5 DEF Min

-----------------------------------------------------------------------------
(***************************************************************************)
(* FlattenSeq.  IsFlat(f, ss, n) says of f what FlattenSeq's own function  *)
(* says of itself.                                                         *)
(***************************************************************************)
IsFlat(f, ss, n) == f = [i \in 1 .. n |-> IF i = 1 THEN ss[i] ELSE f[i - 1] \o ss[i]]

LEMMA FlatExists ==
  ASSUME NEW ss, NEW n \in Nat
  PROVE  \E f : IsFlat(f, ss, n)
<1> DEFINE Has(m) == \E f : IsFlat(f, ss, m)
           Bad == {m \in Nat : ~Has(m)}
<1>1. Has(0)
  <2> DEFINE f == [i \in 1 .. 0 |-> i]
  <2>1. IsFlat(f, ss, 0)
    BY DEF IsFlat
  <2> QED
    BY <2>1
<1>2. ASSUME NEW m \in Nat, Has(m) PROVE Has(m + 1)
  <2>1. PICK f : IsFlat(f, ss, m)
    BY <1>2
  <2> DEFINE last == IF m = 0 THEN ss[1] ELSE f[m] \o ss[m + 1]
             g == [i \in 1 .. m + 1 |-> IF i = m + 1 THEN last ELSE f[i]]
  <2>2. \A i \in 1 .. m : f[i] = IF i = 1 THEN ss[i] ELSE f[i - 1] \o ss[i]
    BY <2>1 DEF IsFlat
  <2> HIDE DEF last
  <2>3. /\ g[m + 1] = last
        /\ \A i \in 1 .. m : g[i] = f[i]
    OBVIOUS
  <2>4. g = [i \in 1 .. m + 1 |-> g[i]]
    OBVIOUS
  <2>5. ASSUME NEW i \in 1 .. m + 1 PROVE g[i] = IF i = 1 THEN ss[i] ELSE g[i - 1] \o ss[i]
    <3>1. CASE i = m + 1
      BY <2>3, <3>1 DEF last
    <3>2. CASE i \in 1 .. m
      <4>1. i # 1 => g[i - 1] = f[i - 1]
        BY <2>3, <3>2
      <4> HIDE DEF g
      <4> QED
        BY <2>2, <2>3, <3>2, <4>1
    <3> QED
      BY <3>1, <3>2
  <2> HIDE DEF g
  <2>6. IsFlat(g, ss, m + 1)
    BY <2>4, <2>5 DEF IsFlat
  <2> QED
    BY <2>6
<1> HIDE DEF Has
<1>3. Bad = {}
  <2> SUFFICES ASSUME Bad # {} PROVE FALSE
    OBVIOUS
  <2> DEFINE m == Min(Bad)
  <2>1. m \in Bad /\ \A k \in Bad : m <= k
    BY LeastNat
  <2> HIDE DEF m
  <2>2. m # 0 /\ m \in Nat /\ m - 1 \in Nat /\ ~Has(m)
    BY <1>1, <2>1
  <2>3. Has(m - 1)
    BY <2>1, <2>2
  <2> QED
    BY <1>2, <2>2, <2>3
<1> QED
  BY <1>3 DEF Has

LEMMA FlattenIsFlat ==
  ASSUME NEW ss, Len(ss) \in Nat \ {0}
  PROVE  \E f : IsFlat(f, ss, Len(ss)) /\ FlattenSeq(ss) = f[Len(ss)]
<1> DEFINE flat == CHOOSE f : f = [i \in 1 .. Len(ss) |-> IF i = 1 THEN ss[i] ELSE f[i - 1] \o ss[i]]
<1>1. \E f : f = [i \in 1 .. Len(ss) |-> IF i = 1 THEN ss[i] ELSE f[i - 1] \o ss[i]]
  BY FlatExists DEF IsFlat
<1>2. flat = [i \in 1 .. Len(ss) |-> IF i = 1 THEN ss[i] ELSE flat[i - 1] \o ss[i]]
  BY <1>1
<1>3. FlattenSeq(ss) = flat[Len(ss)]
  BY DEF FlattenSeq
<1> QED
  BY <1>2, <1>3 DEF IsFlat

LEMMA FlatAt ==
  ASSUME NEW ss, NEW n \in Nat, NEW f, IsFlat(f, ss, n), NEW i \in 1 .. n
  PROVE  f[i] = IF i = 1 THEN ss[i] ELSE f[i - 1] \o ss[i]
  BY DEF IsFlat

LEMMA FlatUnique ==
  ASSUME NEW ss, NEW tt, NEW n \in Nat, NEW m \in n .. n + 1, NEW f, NEW g,
         IsFlat(f, ss, n), IsFlat(g, tt, m), \A i \in 1 .. n : tt[i] = ss[i]
  PROVE  \A i \in 1 .. n : g[i] = f[i]
<1> DEFINE Bad == {i \in 1 .. n : g[i] # f[i]}
<1> SUFFICES ASSUME Bad # {} PROVE FALSE
  OBVIOUS
<1> DEFINE i == Min(Bad)
<1>1. i \in Bad /\ \A j \in Bad : i <= j
  BY LeastNat
<1> HIDE DEF i
<1>2. i \in 1 .. n /\ g[i] # f[i] /\ (i # 1 => i - 1 \in 1 .. n /\ g[i - 1] = f[i - 1])
  BY <1>1
<1>3. /\ f[i] = IF i = 1 THEN ss[i] ELSE f[i - 1] \o ss[i]
      /\ g[i] = IF i = 1 THEN tt[i] ELSE g[i - 1] \o tt[i]
  BY <1>2, FlatAt
<1> QED
  BY <1>2, <1>3

\* A flattened prefix is a sequence of characters.
LEMMA FlatIsSeq ==
  ASSUME NEW C, NEW n \in Nat, NEW ss, \A i \in 1 .. n : ss[i] \in Seq(C), NEW f, IsFlat(f, ss, n)
  PROVE  \A i \in 1 .. n : f[i] \in Seq(C)
<1> DEFINE Bad == {i \in 1 .. n : f[i] \notin Seq(C)}
<1> SUFFICES ASSUME Bad # {} PROVE FALSE
  OBVIOUS
<1> DEFINE i == Min(Bad)
<1>0. Bad \in SUBSET Nat
  OBVIOUS
<1> HIDE DEF Bad
<1>1. i \in Bad /\ \A j \in Bad : i <= j
  BY <1>0, LeastNat
<1> HIDE DEF i
<1> USE DEF Bad
<1>2. i \in 1 .. n /\ f[i] \notin Seq(C) /\ (i # 1 => i - 1 \in 1 .. n /\ f[i - 1] \in Seq(C))
  BY <1>1
<1>3. f[i] = IF i = 1 THEN ss[i] ELSE f[i - 1] \o ss[i]
  BY <1>2 DEF IsFlat
<1>4. i = 1 => f[i] \in Seq(C)
  BY <1>2, <1>3
<1>5. i # 1 => f[i] \in Seq(C)
  BY <1>2, <1>3, ConcatProperties
<1> QED
  BY <1>2, <1>4, <1>5

LEMMA FlattenType ==
  ASSUME NEW C, NEW ss \in Seq(Seq(C))
  PROVE  FlattenSeq(ss) \in Seq(C)
<1>1. Len(ss) \in Nat /\ \A i \in 1 .. Len(ss) : ss[i] \in Seq(C)
  BY LenProperties
<1>2. CASE Len(ss) = 0
  BY <1>2, EmptySeq DEF FlattenSeq
<1>3. CASE Len(ss) # 0
  <2>1. PICK f : IsFlat(f, ss, Len(ss)) /\ FlattenSeq(ss) = f[Len(ss)]
    BY <1>1, <1>3, FlattenIsFlat
  <2> QED
    BY <1>1, <1>3, <2>1, FlatIsSeq
<1> QED
  BY <1>2, <1>3

\* FlattenSeq of one line more.
LEMMA FlattenAppend ==
  ASSUME NEW C, NEW ss \in Seq(Seq(C)), NEW x \in Seq(C)
  PROVE  FlattenSeq(Append(ss, x)) = FlattenSeq(ss) \o x
<1> DEFINE tt == Append(ss, x)
           n == Len(ss)
<1>1. /\ n \in Nat /\ Len(tt) = n + 1 /\ tt[n + 1] = x
      /\ \A i \in 1 .. n : tt[i] = ss[i]
  BY LenProperties, AppendProperties
<1> HIDE DEF tt
<1>2. PICK g : IsFlat(g, tt, n + 1) /\ FlattenSeq(tt) = g[n + 1]
  BY <1>1, FlattenIsFlat
<1> HIDE DEF n
<1>3. g[n + 1] = IF n = 0 THEN x ELSE g[n] \o x
  <2>1. PICK m : m = n + 1
    OBVIOUS
  <2>2. m \in Nat /\ m \in 1 .. m /\ IsFlat(g, tt, m)
    BY <1>1, <1>2, <2>1
  <2>3. g[m] = IF m = 1 THEN tt[m] ELSE g[m - 1] \o tt[m]
    BY <2>2, FlatAt
  <2>4. m - 1 = n /\ (m = 1 <=> n = 0)
    BY <1>1, <2>1
  <2> QED
    BY <1>1, <2>1, <2>3, <2>4
<1>4. CASE n = 0
  <2>1. FlattenSeq(ss) = << >>
    BY <1>4, LenProperties DEF FlattenSeq, n
  <2>2. << >> \o x = x
    BY ConcatEmptySeq
  <2> QED
    BY <1>2, <1>3, <1>4, <2>1, <2>2 DEF tt
<1>5. CASE n # 0
  <2>1. PICK f : IsFlat(f, ss, n) /\ FlattenSeq(ss) = f[n]
    BY <1>1, <1>5, FlattenIsFlat DEF n
  <2>2. g[n] = f[n]
    <3>1. n + 1 \in n .. n + 1 /\ n \in 1 .. n
      BY <1>1, <1>5
    <3>2. IsFlat(f, ss, n) /\ IsFlat(g, tt, n + 1) /\ \A i \in 1 .. n : tt[i] = ss[i] /\ n \in Nat
      BY <1>1, <1>2, <2>1
    <3>3. \A i \in 1 .. n : g[i] = f[i]
      BY <3>1, <3>2, FlatUnique, SMTT(30)
    <3> QED
      BY <3>1, <3>3
  <2> QED
    BY <1>2, <1>3, <1>5, <2>1, <2>2 DEF tt
<1> QED
  BY <1>4, <1>5

-----------------------------------------------------------------------------
(***************************************************************************)
(* Where a line ends.                                                      *)
(***************************************************************************)
LEMMA MaxOfTwo ==
  ASSUME NEW a \in Int, NEW b \in Int
  PROVE  Max({a, b}) = IF a >= b THEN a ELSE b
<1> DEFINE m == IF a >= b THEN a ELSE b
<1>1. m \in {a, b} /\ \A y \in {a, b} : m >= y
  OBVIOUS
<1>2. \A x \in {a, b} : (\A y \in {a, b} : x >= y) => x = m
  OBVIOUS
<1> HIDE DEF m
<1>3. Max({a, b}) = m
  BY <1>1, <1>2 DEF Max
<1> QED
  BY <1>3 DEF m

LEMMA MinOfTwo ==
  ASSUME NEW a \in Int, NEW b \in Int
  PROVE  Min({a, b}) = IF a <= b THEN a ELSE b
<1> DEFINE m == IF a <= b THEN a ELSE b
<1>1. m \in {a, b} /\ \A y \in {a, b} : m <= y
  OBVIOUS
<1>2. \A x \in {a, b} : (\A y \in {a, b} : x <= y) => x = m
  OBVIOUS
<1> HIDE DEF m
<1>3. Min({a, b}) = m
  BY <1>1, <1>2 DEF Min
<1> QED
  BY <1>3 DEF m

Text == Seq(Chars)

LEMMA EmptyText ==
  ASSUME NEW str \in Text
  PROVE  /\ str = << >> <=> Len(str) = 0
         /\ str \o << >> = str /\ << >> \o str = str
  BY EmptySeq, ConcatEmptySeq DEF Text

\* The first newline of a text that has one.
LEMMA FirstNewline ==
  ASSUME NEW str \in Text, Newlines(str) # {}
  PROVE  /\ Min(Newlines(str)) \in 1 .. Len(str) /\ str[Min(Newlines(str))] = NL
         /\ \A i \in 1 .. Len(str) : i < Min(Newlines(str)) => str[i] # NL
<1>1. Len(str) \in Nat
  BY LenProperties DEF Text
<1>2. Newlines(str) \in SUBSET Nat
  BY <1>1 DEF Newlines
<1>3. Min(Newlines(str)) \in Newlines(str) /\ \A i \in Newlines(str) : Min(Newlines(str)) <= i
  BY <1>2, LeastNat
<1> HIDE DEF Newlines
<1> DEFINE m == Min(Newlines(str))
<1> HIDE DEF m
<1>4. m \in Newlines(str) /\ \A i \in Newlines(str) : m <= i
  BY <1>3 DEF m
<1>5. m \in 1 .. Len(str) /\ str[m] = NL
  BY <1>4 DEF Newlines
<1>6. ASSUME NEW i \in 1 .. Len(str), i < m PROVE str[i] # NL
  BY <1>1, <1>4, <1>5, <1>6 DEF Newlines
<1> QED
  BY <1>5, <1>6 DEF m

\* With a newline ft_new_line returns its index, but 1 for index 0 (here
\* indices start at 1); without one it tells whether the text has ended.
LEMMA NewLineCases ==
  ASSUME NEW str \in Text, NEW re_frf \in Int
  PROVE  LET first == Min(Newlines(str))
         IN  /\ Newlines(str) # {} =>
                  ft_new_line(str, re_frf) = IF first <= 2 THEN 1 ELSE first - 1
             /\ Newlines(str) = {} => ft_new_line(str, re_frf) = IF re_frf = 0 THEN Len(str) ELSE 0
<1> DEFINE first == Min(Newlines(str))
<1>1. CASE Newlines(str) # {}
  <2>1. first \in 1 .. Len(str) /\ Len(str) \in Nat
    BY <1>1, FirstNewline, LenProperties DEF Text
  <2>2. ft_new_line(str, re_frf) = Max({1, first - 1})
    BY <1>1 DEF ft_new_line
  <2> HIDE DEF first
  <2>3. Max({1, first - 1}) = IF first <= 2 THEN 1 ELSE first - 1
    <3>1. first - 1 \in Int /\ 1 \in Int
      BY <2>1
    <3>2. Max({1, first - 1}) = IF 1 >= first - 1 THEN 1 ELSE first - 1
      BY <3>1, MaxOfTwo
    <3> QED
      BY <2>1, <3>2
  <2> QED
    BY <1>1, <2>2, <2>3 DEF first
<1>2. CASE Newlines(str) = {}
  BY <1>2 DEF ft_new_line
<1> QED
  BY <1>1, <1>2

LEMMA LineEndType ==
  ASSUME NEW str \in Text, NEW re_frf \in Int
  PROVE  LineEnd(str, re_frf) \in Nat
<1>1. Len(str) \in Nat
  BY LenProperties DEF Text
<1>2. ft_new_line(str, re_frf) \in Nat
  <2>1. Newlines(str) # {} => Min(Newlines(str)) \in 1 .. Len(str)
    BY FirstNewline
  <2> QED
    BY <1>1, <2>1, NewLineCases
<1> QED
  BY <1>2 DEF LineEnd

(***************************************************************************)
(* ft_gnl_strdup and ft_gnl_substr divide the text: nothing is lost.       *)
(***************************************************************************)
LEMMA LineAndKept ==
  ASSUME NEW str \in Text, NEW end \in Nat
  PROVE  /\ Line(str, end) \in Text /\ Kept(str, end) \in Text
         /\ Line(str, end) \o Kept(str, end) = str
         /\ Len(Line(str, end)) = IF end + 1 <= Len(str) THEN end + 1 ELSE Len(str)
         /\ Kept(str, end) # << >> => end + 1 < Len(str)
         /\ end + 1 < Len(str) => Kept(str, end) # << >> /\ Kept(str, end)[1] = str[end + 2]
         /\ \A i \in 1 .. Len(Line(str, end)) : Line(str, end)[i] = str[i]
<1> DEFINE n == Len(str)
           m == IF end + 1 <= n THEN end + 1 ELSE n
<1>1. n \in Nat /\ \A i \in 1 .. n : str[i] \in Chars
  BY LenProperties, ElementOfSeq DEF Text
<1>2. m \in 0 .. n /\ m \in Int
  BY <1>1
<1>3. Line(str, end) = SubSeq(str, 1, m)
  BY <1>1, MinOfTwo DEF Line
<1>4. Kept(str, end) = SubSeq(str, end + 2, n)
  BY DEF Kept
<1> HIDE DEF n
<1>5. /\ SubSeq(str, 1, m) \in Text /\ Len(SubSeq(str, 1, m)) = m
      /\ \A i \in 1 .. m : SubSeq(str, 1, m)[i] = str[i]
  <2>1. \A i \in 1 .. m : str[i] \in Chars
    BY <1>1, <1>2
  <2> HIDE DEF m
  <2> QED
    BY <1>1, <1>2, <2>1, SubSeqProperties, SMTT(30) DEF Text
<1>6. /\ SubSeq(str, end + 2, n) \in Text
      /\ Len(SubSeq(str, end + 2, n)) = IF end + 2 <= n THEN n - end - 1 ELSE 0
      /\ \A i \in 1 .. n - end - 1 : SubSeq(str, end + 2, n)[i] = str[end + 1 + i]
  <2>1. PICK k : k = end + 2
    OBVIOUS
  <2>2. k \in Int /\ n \in Int /\ \A i \in k .. n : str[i] \in Chars
    BY <1>1, <2>1
  <2>3. /\ SubSeq(str, k, n) \in Seq(Chars)
        /\ Len(SubSeq(str, k, n)) = IF k <= n THEN n - k + 1 ELSE 0
        /\ \A i \in 1 .. n - k + 1 : SubSeq(str, k, n)[i] = str[k + i - 1]
    BY <2>2, SubSeqProperties
  <2>4. n - k + 1 = n - end - 1 /\ \A i \in Int : k + i - 1 = end + 1 + i
    BY <1>1, <2>1
  <2> QED
    BY <1>1, <2>1, <2>3, <2>4 DEF Text
<1> QED
  <2> DEFINE line == SubSeq(str, 1, m)
             kept == SubSeq(str, end + 2, n)
  <2>1. line \in Text /\ kept \in Text
    BY <1>5, <1>6
  <2>2. line \o kept = str
    <3>1. /\ line \o kept \in Text /\ Len(line \o kept) = Len(line) + Len(kept)
          /\ \A i \in 1 .. Len(line) + Len(kept) :
               (line \o kept)[i] = IF i <= Len(line) THEN line[i] ELSE kept[i - Len(line)]
      BY <2>1, ConcatProperties DEF Text
    <3>2. Len(line) + Len(kept) = n
      BY <1>1, <1>5, <1>6
    <3>3. ASSUME NEW i \in 1 .. n PROVE (line \o kept)[i] = str[i]
      <4>1. CASE i <= m
        BY <1>2, <1>5, <3>1, <3>2, <4>1
      <4>2. CASE ~(i <= m)
        <5>1. m = end + 1 /\ i - m \in 1 .. n - end - 1 /\ Len(line) = m
          BY <1>1, <1>5, <4>2
        <5>2. (line \o kept)[i] = kept[i - m]
          BY <1>1, <3>1, <3>2, <4>2, <5>1
        <5>3. kept[i - m] = str[end + 1 + (i - m)]
          BY <1>6, <5>1
        <5>4. end + 1 + (i - m) = i
          BY <1>1, <5>1
        <5> QED
          BY <5>2, <5>3, <5>4
      <4> QED
        BY <4>1, <4>2
    <3>4. Len(line \o kept) = Len(str)
      BY <3>1, <3>2 DEF n
    <3> HIDE DEF line, kept
    <3> QED
      BY <3>1, <3>3, <3>4, SeqEqual DEF Text, n
  <2>3. kept # << >> <=> end + 1 < n
    <3>1. kept = << >> <=> Len(kept) = 0
      BY <2>1, EmptyText
    <3> QED
      BY <1>1, <1>6, <3>1
  <2>4. end + 1 < n => kept[1] = str[end + 2]
    BY <1>1, <1>6
  <2>5. /\ Len(line) = IF end + 1 <= n THEN end + 1 ELSE n
        /\ \A i \in 1 .. Len(line) : line[i] = str[i]
    BY <1>5
  <2>6. Line(str, end) = line /\ Kept(str, end) = kept
    BY <1>3, <1>4
  <2> HIDE DEF line, kept
  <2> QED
    BY <2>1, <2>2, <2>3, <2>4, <2>5, <2>6 DEF n

\* The line ft_get_head takes off a text in which a line ends: it has its
\* newline last, or none because the text ended there, but for the plain
\* version's line of one character.
LEMMA CutLine ==
  ASSUME bonus \in BOOLEAN, NEW str \in Text, str # << >>, NEW re_frf \in Int,
         Newlines(str) # {} \/ re_frf = 0
  PROVE  LET line == Line(str, LineEnd(str, re_frf))
             kept == Kept(str, LineEnd(str, re_frf))
         IN  /\ line # << >> /\ Newlines(line) \subseteq {Len(line)}
             /\ Newlines(line) = {} =>
                  \/ Newlines(str) = {} /\ kept = << >>
                  \/ ~bonus /\ Len(line) = 1 /\ re_frf = 0 /\ kept # << >> /\ kept[1] = NL
<1> DEFINE end == LineEnd(str, re_frf)
           line == Line(str, end)
           kept == Kept(str, end)
           first == Min(Newlines(str))
           n == Len(str)
           i == ft_new_line(str, re_frf)
<1>1. n \in Nat \ {0}
  BY EmptyText, LenProperties DEF Text
<1>2. end \in Nat
  BY LineEndType
<1>3. end = IF i = 1 /\ (str[1] = NL \/ (re_frf = 0 /\ (IF bonus THEN n = 1 ELSE str[1] # NL))) THEN 0 ELSE i
  BY DEF LineEnd
<1>4. /\ Newlines(str) # {} => i = IF first <= 2 THEN 1 ELSE first - 1
      /\ Newlines(str) = {} => i = IF re_frf = 0 THEN n ELSE 0
  BY NewLineCases
<1>5. /\ line \in Text /\ kept \in Text
      /\ Len(line) = IF end + 1 <= n THEN end + 1 ELSE n
      /\ kept # << >> => end + 1 < n
      /\ end + 1 < n => kept # << >> /\ kept[1] = str[end + 2]
      /\ \A j \in 1 .. Len(line) : line[j] = str[j]
  BY <1>2, LineAndKept
<1>6. Newlines(str) # {} =>
        /\ first \in 1 .. n /\ str[first] = NL
        /\ \A j \in 1 .. n : j < first => str[j] # NL
  BY FirstNewline
<1>7. Newlines(str) = {} => \A j \in 1 .. n : str[j] # NL
  BY DEF Newlines
<1> HIDE DEF end, line, kept, first, n, i
<1>8. Len(line) >= 1 /\ Len(line) \in 1 .. n
  BY <1>1, <1>2, <1>5
<1>9. line # << >>
  BY <1>5, <1>8, EmptyText
<1>10. Newlines(line) = {j \in 1 .. Len(line) : str[j] = NL}
  BY <1>5 DEF Newlines
<1>11. CASE Newlines(str) # {} /\ first = 1
  <2>1. end = 0 /\ Len(line) = 1 /\ str[1] = NL
    BY <1>1, <1>3, <1>4, <1>5, <1>6, <1>11
  <2>2. Newlines(line) = {1}
    BY <1>10, <2>1
  <2>3. /\ line # << >> /\ Newlines(line) \subseteq {Len(line)}
        /\ Newlines(line) # {}
    BY <1>9, <2>1, <2>2
  <2> QED
    BY <2>3 DEF line, end, kept
<1>12. CASE Newlines(str) # {} /\ first = 2
  <2>1. i = 1 /\ str[1] # NL /\ str[2] = NL /\ n >= 2
    BY <1>1, <1>4, <1>6, <1>12
  <2>2. CASE end = 0
    <3>1. ~bonus /\ re_frf = 0
      BY <1>3, <2>1, <2>2
    <3>2. Len(line) = 1 /\ kept # << >> /\ kept[1] = NL
      BY <1>1, <1>5, <2>1, <2>2
    <3>3. Newlines(line) \subseteq {Len(line)}
      BY <1>10, <3>2
    <3> QED
      BY <1>9, <3>1, <3>2, <3>3 DEF line, end, kept
  <2>3. CASE end # 0
    <3>1. end = 1 /\ Len(line) = 2
      BY <1>1, <1>3, <1>5, <2>1, <2>3
    <3>2. 2 \in Newlines(line) /\ Newlines(line) \subseteq {2}
      BY <1>10, <2>1, <3>1
    <3> QED
      BY <1>9, <3>1, <3>2 DEF line, end, kept
  <2> QED
    BY <2>2, <2>3
<1>13. CASE Newlines(str) # {} /\ first > 2
  <2>1. end = first - 1 /\ Len(line) = first
    BY <1>1, <1>3, <1>4, <1>5, <1>6, <1>13
  <2>2. first \in Newlines(line) /\ Newlines(line) \subseteq {first}
    BY <1>1, <1>6, <1>10, <1>13, <2>1
  <2> QED
    BY <1>9, <2>1, <2>2 DEF line, end, kept
<1>14. CASE Newlines(str) = {}
  <2>1. i = n /\ re_frf = 0
    BY <1>4, <1>14
  <2>2. end + 1 >= n
    <3>1. CASE n = 1
      BY <1>1, <1>2, <3>1
    <3>2. CASE n # 1
      BY <1>1, <1>3, <2>1, <3>2
    <3> QED
      BY <3>1, <3>2
  <2>3. kept = << >> /\ Newlines(line) = {}
    BY <1>1, <1>2, <1>5, <1>7, <1>8, <1>10, <1>14, <2>2
  <2> QED
    BY <1>9, <1>14, <2>3 DEF line, end, kept
<1>15. Newlines(str) # {} => first = 1 \/ first = 2 \/ first > 2
  BY <1>1, <1>6
<1> QED
  BY <1>11, <1>12, <1>13, <1>14, <1>15

-----------------------------------------------------------------------------
(***************************************************************************)
(* What a step of the call of fd does to the text.                         *)
(***************************************************************************)
StreamTypes ==
  /\ bonus \in BOOLEAN /\ denied \in BOOLEAN
  /\ rest \in [Fds -> Text] /\ backup \in [Fds -> Text] /\ text \in [Fds -> Text]
  /\ lines \in [Fds -> Seq(Text)]
  /\ reply \in [fd : Fds, null : BOOLEAN, re_frf : Int]

\* The text that is still to be returned.
Ahead(fd) == backup[fd] \o rest[fd]

Same(fd) == backup'[fd] = backup[fd] /\ rest'[fd] = rest[fd] /\ lines'[fd] = lines[fd]

\* The text ahead stays as it was; a reply of NULL without an error says
\* that there is none.
Stays(fd) ==
  /\ lines'[fd] = lines[fd] /\ Ahead(fd)' = Ahead(fd)
  /\ reply' = reply \/ (reply'.fd = fd /\ (reply'.re_frf >= 0 => Ahead(fd)' = << >> \/ denied'))

\* A line is taken off the text.
Cuts(fd) ==
  \E line \in Text :
    /\ lines'[fd] = Append(lines[fd], line) /\ line \o Ahead(fd)' = Ahead(fd) /\ ~reply'.null
    /\ line # << >> /\ Newlines(line) \subseteq {Len(line)}
    /\ Newlines(line) = {} /\ Ahead(fd)' # << >> =>
         denied' \/ (~bonus /\ Len(line) = 1 /\ Ahead(fd)'[1] = NL /\ rest'[fd] = << >>)

Loses(fd) ==
  /\ lines'[fd] = lines[fd] /\ denied'
  /\ \/ crashed'
     \/ reading' = NoFd /\ reply'.fd = fd /\ reply'.null
     \/ bonus /\ reading' = fd /\ backup'[fd] = << >>

StepOf(fd) ==
  /\ \A g \in Fds \ {fd} : Same(g)
  /\ rest[fd] = << >> => rest'[fd] = << >>
  /\ denied => denied'
  /\ UNCHANGED <<bonus, text>>
  /\ Stays(fd) \/ Cuts(fd) \/ Loses(fd)

\* A call looks at the text str, which the buffer and what was read make.
Looks(fd, str, re_frf) ==
  /\ rest' \in [Fds -> Text] /\ \A g \in Fds \ {fd} : rest'[g] = rest[g]
  /\ rest[fd] = << >> => rest'[fd] = << >>
  /\ str \o rest'[fd] = Ahead(fd)
  /\ UNCHANGED <<bonus, text>>
  /\ re_frf = 0 /\ (~bonus \/ Newlines(str) = {}) => rest'[fd] = << >> \/ denied'

\* A line ends in str.
EndsLine(str, re_frf) == str # << >> /\ (Newlines(str) # {} \/ re_frf = 0)

Granted == denied' \in BOOLEAN /\ (denied => denied')

LEMMA RepliedType ==
  ASSUME NEW fd \in Fds, NEW null \in BOOLEAN, NEW re_frf \in Int, Replied(fd, null, re_frf)
  PROVE  /\ reply' \in [fd : Fds, null : BOOLEAN, re_frf : Int]
         /\ reply'.fd = fd /\ reply'.null = null /\ reply'.re_frf = re_frf
  BY DEF Replied

LEMMA Joined ==
  ASSUME NEW s \in Text, NEW t \in Text, NEW u \in Text
  PROVE  (s \o t) \o u = s \o (t \o u) /\ s \o t \in Text
  BY ConcatAssociative, ConcatProperties DEF Text

LEMMA JoinedAll == \A s, t, u \in Text : (s \o t) \o u = s \o (t \o u)
  BY Joined

LEMMA ReturnedStep ==
  ASSUME StreamTypes, Granted, NEW fd \in Fds, NEW str \in Text, NEW re_frf \in Int,
         Looks(fd, str, re_frf), EndsLine(str, re_frf), Returned(fd, str, re_frf)
  PROVE  StreamTypes' /\ StepOf(fd)
<1> DEFINE end == LineEnd(str, re_frf)
           line == Line(str, end)
           kept == Kept(str, end)
<1>1. /\ line # << >> /\ Newlines(line) \subseteq {Len(line)}
      /\ Newlines(line) = {} =>
           \/ Newlines(str) = {} /\ kept = << >>
           \/ ~bonus /\ Len(line) = 1 /\ re_frf = 0 /\ kept # << >> /\ kept[1] = NL
  BY CutLine DEF StreamTypes, EndsLine
<1>2. line \in Text /\ kept \in Text /\ line \o kept = str
  BY LineEndType, LineAndKept
<1>3. /\ lines' = [lines EXCEPT ![fd] = Append(@, line)] /\ backup' = [backup EXCEPT ![fd] = kept]
      /\ Replied(fd, FALSE, re_frf)
  BY DEF Returned
<1> HIDE DEF line, kept, end
<1>4. reply' \in [fd : Fds, null : BOOLEAN, re_frf : Int] /\ ~reply'.null
  BY <1>3, RepliedType
<1>5. /\ lines' \in [Fds -> Seq(Text)] /\ lines'[fd] = Append(lines[fd], line)
      /\ backup' \in [Fds -> Text] /\ backup'[fd] = kept
      /\ \A g \in Fds \ {fd} : lines'[g] = lines[g] /\ backup'[g] = backup[g]
  <2>1. Append(lines[fd], line) \in Seq(Text)
    BY <1>2, AppendProperties DEF StreamTypes
  <2> QED
    BY <1>2, <1>3, <2>1 DEF StreamTypes
<1>6. StreamTypes'
  BY <1>4, <1>5 DEF StreamTypes, Looks, Granted
<1>7. Ahead(fd)' = kept \o rest'[fd] /\ rest'[fd] \in Text
  BY <1>5 DEF Ahead, Looks
<1>8. line \o Ahead(fd)' = Ahead(fd)
  <2>1. (line \o kept) \o rest'[fd] = line \o (kept \o rest'[fd])
    <3>1. PICK r : r = rest'[fd]
      OBVIOUS
    <3>2. line \in Text /\ kept \in Text /\ r \in Text
      BY <1>2, <1>7, <3>1
    <3>3. (line \o kept) \o r = line \o (kept \o r)
      BY <3>2, ConcatAssociative DEF Text
    <3> QED
      BY <3>1, <3>3
  <2> QED
    BY <1>2, <1>7, <2>1 DEF Looks
<1>9. ASSUME Newlines(line) = {}, Ahead(fd)' # << >>, ~denied'
      PROVE  ~bonus /\ Len(line) = 1 /\ Ahead(fd)'[1] = NL /\ rest'[fd] = << >>
  <2>1. CASE Newlines(str) = {} /\ kept = << >>
    <3>1. rest'[fd] = << >>
      BY <1>9, <2>1 DEF Looks, EndsLine
    <3> QED
      BY <1>7, <1>9, <2>1, <3>1, EmptyText
  <2>2. CASE ~bonus /\ Len(line) = 1 /\ re_frf = 0 /\ kept # << >> /\ kept[1] = NL
    <3>1. rest'[fd] = << >>
      BY <1>9, <2>2 DEF Looks
    <3>2. Ahead(fd)' = kept
      BY <1>2, <1>7, <3>1, EmptyText
    <3> QED
      BY <2>2, <3>1, <3>2
  <2> QED
    BY <1>1, <1>9, <2>1, <2>2
<1>10. Cuts(fd)
  BY <1>1, <1>2, <1>4, <1>5, <1>8, <1>9 DEF Cuts
<1> QED
  BY <1>5, <1>6, <1>10 DEF StepOf, Looks, Same, Granted

LEMMA HeadlessStep ==
  ASSUME StreamTypes, denied' = TRUE, NEW fd \in Fds, NEW str \in Text, NEW re_frf \in Int,
         Looks(fd, str, re_frf), Headless(fd, str, re_frf)
  PROVE  StreamTypes' /\ StepOf(fd)
<1> DEFINE kept == Kept(str, LineEnd(str, re_frf))
<1>1. kept \in Text
  BY LineEndType, LineAndKept
<1>2. /\ lines' = lines /\ backup' = [backup EXCEPT ![fd] = kept] /\ Replied(fd, TRUE, re_frf)
  BY DEF Headless
<1> HIDE DEF kept
<1>3. /\ reply' \in [fd : Fds, null : BOOLEAN, re_frf : Int] /\ reply'.null /\ reply'.fd = fd
      /\ reading' = NoFd
  BY <1>2, RepliedType DEF Replied
<1>4. backup' \in [Fds -> Text] /\ \A g \in Fds \ {fd} : lines'[g] = lines[g] /\ backup'[g] = backup[g]
  BY <1>1, <1>2 DEF StreamTypes
<1>5. Loses(fd)
  BY <1>2, <1>3 DEF Loses
<1>6. StreamTypes'
  BY <1>2, <1>3, <1>4 DEF StreamTypes, Looks
<1> QED
  BY <1>4, <1>5, <1>6 DEF StepOf, Looks, Same

LEMMA CrashStep ==
  ASSUME StreamTypes, NEW fd \in Fds, NEW str \in Text, NEW re_frf \in Int,
         Looks(fd, str, re_frf), Crash
  PROVE  StreamTypes' /\ StepOf(fd)
  BY DEF Crash, StreamTypes, StepOf, Looks, Same, Loses

LEMMA FinishStep ==
  ASSUME StreamTypes, NEW fd \in Fds, NEW str \in Text, NEW re_frf \in Int,
         Looks(fd, str, re_frf), EndsLine(str, re_frf) \/ NothingLeft(str, re_frf),
         Finish(fd, str, re_frf)
  PROVE  StreamTypes' /\ StepOf(fd)
<1>1. CASE NothingLeft(str, re_frf)
  <2>1. /\ Replied(fd, TRUE, re_frf) /\ backup' = [backup EXCEPT ![fd] = << >>]
        /\ lines' = lines /\ denied' = denied /\ str = << >> /\ re_frf <= 0
    BY <1>1 DEF Finish, NothingLeft
  <2>2. reply' \in [fd : Fds, null : BOOLEAN, re_frf : Int] /\ reply'.fd = fd /\ reply'.re_frf = re_frf
    BY <2>1, RepliedType
  <2>3. /\ backup' \in [Fds -> Text] /\ backup'[fd] = << >>
        /\ \A g \in Fds \ {fd} : lines'[g] = lines[g] /\ backup'[g] = backup[g]
    BY <2>1 DEF StreamTypes
  <2>4. StreamTypes'
    BY <2>1, <2>2, <2>3 DEF StreamTypes, Looks
  <2>5. Ahead(fd)' = rest'[fd] /\ Ahead(fd) = rest'[fd]
    BY <2>1, <2>3, EmptyText DEF Ahead, Looks
  <2>6. re_frf >= 0 => rest'[fd] = << >> \/ denied'
    <3>1. Newlines(str) = {}
      BY <2>1 DEF Newlines
    <3> QED
      BY <2>1, <3>1 DEF Looks
  <2>7. Stays(fd)
    BY <2>1, <2>2, <2>5, <2>6 DEF Stays
  <2> QED
    BY <2>1, <2>3, <2>4, <2>7 DEF StepOf, Looks, Same
<1>2. CASE ~NothingLeft(str, re_frf) /\ Returned(fd, str, re_frf) /\ UNCHANGED denied
  BY <1>2, ReturnedStep DEF Granted, StreamTypes
<1>3. CASE Headless(fd, str, re_frf) /\ denied' = TRUE
  BY <1>3, HeadlessStep
<1>4. CASE Crash
  BY <1>4, CrashStep
<1> QED
  BY <1>1, <1>2, <1>3, <1>4 DEF Finish

LEMMA UnjoinedStep ==
  ASSUME StreamTypes, NEW fd \in Fds, NEW str \in Text, NEW re_frf \in Int,
         Looks(fd, str, re_frf), reading = fd, Unjoined(fd)
  PROVE  StreamTypes' /\ StepOf(fd)
<1>1. CASE Crash
  BY <1>1, CrashStep
<1>2. CASE ~Crash
  <2>1. /\ bonus /\ denied' = TRUE /\ backup' = [backup EXCEPT ![fd] = << >>]
        /\ lines' = lines /\ reply' = reply /\ reading' = reading
    BY <1>2 DEF Unjoined
  <2>2. /\ backup' \in [Fds -> Text] /\ backup'[fd] = << >>
        /\ \A g \in Fds \ {fd} : lines'[g] = lines[g] /\ backup'[g] = backup[g]
    BY <2>1, EmptySeq DEF StreamTypes, Text
  <2>3. Loses(fd)
    BY <2>1, <2>2 DEF Loses
  <2>4. StreamTypes'
    BY <2>1, <2>2 DEF StreamTypes, Looks
  <2> QED
    BY <2>1, <2>2, <2>3, <2>4 DEF StepOf, Looks, Same
<1> QED
  BY <1>1, <1>2

\* What one read brings, and what is left to read.
Brings(fd, buf, read_len) ==
  /\ rest' \in [Fds -> Text] /\ \A g \in Fds \ {fd} : rest'[g] = rest[g]
  /\ rest[fd] = << >> => rest'[fd] = << >>
  /\ buf \o rest'[fd] = rest[fd]
  /\ read_len <= 0 <=> buf = << >>
  /\ read_len = 0 => rest'[fd] = << >>
  /\ UNCHANGED <<bonus, text>>

LEMMA ReceivedStep ==
  ASSUME StreamTypes, NEW fd \in Fds, NEW buf \in Text, NEW read_len \in Int,
         Brings(fd, buf, read_len), reading = fd, Received(fd, buf, read_len)
  PROVE  StreamTypes' /\ StepOf(fd)
<1> DEFINE str == backup[fd] \o buf
<1>1. /\ backup[fd] \in Text /\ rest'[fd] \in Text /\ str \in Text
      /\ str \o rest'[fd] = backup[fd] \o (buf \o rest'[fd])
      /\ str = << >> <=> backup[fd] = << >> /\ buf = << >>
  <2>1. backup[fd] \in Text /\ rest'[fd] \in Text
    BY DEF StreamTypes, Brings
  <2>2. /\ str \o rest'[fd] = backup[fd] \o (buf \o rest'[fd])
        /\ str \in Text
    BY <2>1, Joined, Zenon
  <2>3. str = << >> <=> backup[fd] = << >> /\ buf = << >>
    BY <2>1, ConcatEqualIffEmpty DEF Text
  <2> QED
    BY <2>1, <2>2, <2>3
<1> HIDE DEF str
<1>2. Looks(fd, str, read_len)
  BY <1>1 DEF Brings, Looks, Ahead
<1>3. CASE Unjoined(fd)
  BY <1>1, <1>2, <1>3, UnjoinedStep
<1>4. CASE ReadOn(fd, str, read_len) /\ ~Unjoined(fd)
  <2>1. /\ backup' = [backup EXCEPT ![fd] = str]
        /\ UNCHANGED <<reading, lines, reply, denied, crashed>>
    BY <1>4 DEF Received, str
  <2>2. /\ backup' \in [Fds -> Text] /\ backup'[fd] = str
        /\ \A g \in Fds \ {fd} : lines'[g] = lines[g] /\ backup'[g] = backup[g]
    BY <1>1, <2>1 DEF StreamTypes
  <2>3. Stays(fd)
    BY <1>2, <2>1, <2>2 DEF Stays, Ahead, Looks
  <2> QED
    BY <1>2, <2>1, <2>2, <2>3 DEF StreamTypes, StepOf, Looks, Same
<1>5. CASE ~ReadOn(fd, str, read_len) /\ ~Unjoined(fd)
  <2>1. Finish(fd, str, read_len)
    BY <1>5 DEF Received, str
  <2>2. CASE ft_new_line(str, read_len) # 0
    <3>1. CASE Newlines(str) # {}
      <4>1. str # << >>
        BY <3>1 DEF Newlines
      <4> QED
        BY <1>1, <1>2, <2>1, <3>1, <4>1, FinishStep DEF EndsLine
    <3>2. CASE Newlines(str) = {}
      <4>1. read_len = 0 /\ Len(str) # 0
        BY <1>1, <2>2, <3>2, NewLineCases
      <4>2. str # << >>
        BY <1>1, <4>1, EmptyText
      <4> QED
        BY <1>1, <1>2, <2>1, <4>1, <4>2, FinishStep DEF EndsLine
    <3> QED
      BY <3>1, <3>2
  <2>3. CASE backup[fd] = << >> /\ read_len <= 0
    <3>1. NothingLeft(str, read_len)
      BY <1>1, <2>3 DEF NothingLeft, Brings
    <3> QED
      BY <1>1, <1>2, <2>1, <3>1, FinishStep
  <2> QED
    BY <1>5, <2>2, <2>3 DEF ReadOn
<1> QED
  BY <1>3, <1>4, <1>5

LEMMA ReadStep ==
  ASSUME StreamTypes, NEW fd \in Fds, ft_read_sub(fd)
  PROVE  StreamTypes' /\ StepOf(fd)
<1> DEFINE r == rest[fd]
<1>1. /\ r \in Text /\ Len(r) \in Nat /\ UNCHANGED <<bonus, text>> /\ << >> \in Text
      /\ reading = fd
  BY LenProperties, EmptySeq DEF ft_read_sub, StreamTypes, Text
<1> HIDE DEF r
<1>2. ASSUME NEW n \in 1 .. Min({BUFFER_SIZE, Len(r)}), Received(fd, SubSeq(r, 1, n), n),
             rest' = [rest EXCEPT ![fd] = SubSeq(r, n + 1, Len(r))]
      PROVE  StreamTypes' /\ StepOf(fd)
  <2>1. n \in 1 .. Len(r)
    <3>1. BUFFER_SIZE \in Int
      BY StreamAssumption
    <3>2. Min({BUFFER_SIZE, Len(r)}) = IF BUFFER_SIZE <= Len(r) THEN BUFFER_SIZE ELSE Len(r)
      BY <1>1, <3>1, MinOfTwo
    <3> QED
      BY <1>1, <1>2, <3>1, <3>2
  <2> DEFINE buf == SubSeq(r, 1, n)
             left == SubSeq(r, n + 1, Len(r))
  <2>2. buf \in Text /\ Len(buf) = n
    <3>1. \A i \in 1 .. n : r[i] \in Chars
      BY <1>1, <2>1, ElementOfSeq DEF Text
    <3> QED
      BY <2>1, <3>1, SubSeqProperties DEF Text
  <2>3. left \in Text
    <3>1. n + 1 \in Int /\ \A i \in n + 1 .. Len(r) : r[i] \in Chars
      BY <1>1, <2>1, ElementOfSeq DEF Text
    <3> QED
      BY <1>1, <3>1, SubSeqProperties DEF Text
  <2>4. buf \o left = r
    <3>1. 1 \in 1 .. Len(r) + 1 /\ n \in 1 - 1 .. Len(r) /\ Len(r) \in n .. Len(r)
      BY <1>1, <2>1
    <3>2. buf \o left = SubSeq(r, 1, Len(r))
      BY <1>1, <3>1, ConcatAdjacentSubSeq DEF Text
    <3> QED
      BY <1>1, <3>2, SubSeqFull DEF Text
  <2> HIDE DEF buf, left
  <2>5. buf # << >>
    BY <2>1, <2>2, EmptyText
  <2>6. r # << >>
    BY <1>1, <2>1, EmptyText
  <2>7. rest' \in [Fds -> Text] /\ rest'[fd] = left /\ \A g \in Fds \ {fd} : rest'[g] = rest[g]
    BY <1>2, <2>3 DEF StreamTypes, left
  <2>8. Brings(fd, buf, n)
    BY <1>1, <2>1, <2>4, <2>5, <2>6, <2>7 DEF Brings, r
  <2>9. Received(fd, buf, n) /\ n \in Int
    BY <1>2, <2>1 DEF buf
  <2> QED
    BY <1>1, <2>2, <2>8, <2>9, ReceivedStep
<1>3. ASSUME NEW read_len \in {0, -1}, read_len = 0 => r = << >>,
             Received(fd, << >>, read_len), rest' = rest
      PROVE  StreamTypes' /\ StepOf(fd)
  <2>1. << >> \o rest'[fd] = rest[fd]
    BY <1>1, <1>3, EmptyText DEF r
  <2>2. Brings(fd, << >>, read_len)
    BY <1>1, <1>3, <2>1 DEF Brings, r, StreamTypes
  <2> QED
    BY <1>1, <1>3, <2>2, ReceivedStep
<1>4. CASE \E n \in 1 .. Min({BUFFER_SIZE, Len(r)}) :
              /\ Received(fd, SubSeq(r, 1, n), n)
              /\ rest' = [rest EXCEPT ![fd] = SubSeq(r, n + 1, Len(r))]
  BY <1>2, <1>4
<1>5. CASE r = << >> /\ Received(fd, << >>, 0) /\ UNCHANGED rest
  BY <1>3, <1>5
<1>6. CASE Received(fd, << >>, -1) /\ UNCHANGED rest
  <2>1. -1 \in {0, -1} /\ -1 # 0
    OBVIOUS
  <2> QED
    BY <1>3, <1>6, <2>1
<1> QED
  BY <1>4, <1>5, <1>6 DEF ft_read_sub, r

LEMMA CallStep ==
  ASSUME StreamTypes, NEW fd \in Fds, get_next_line(fd)
  PROVE  StreamTypes' /\ StepOf(fd)
<1> DEFINE str == backup[fd]
<1>1. str \in Text /\ rest' = rest /\ UNCHANGED <<bonus, text>>
  BY DEF get_next_line, StreamTypes
<1>2. (bonus /\ Newlines(str) # {}) \/ denied' => Looks(fd, str, 0)
  BY <1>1 DEF Looks, StreamTypes, Ahead
<1> HIDE DEF str
<1>3. CASE bonus /\ ft_new_line(str, 10) # 0 /\ Finish(fd, str, 0)
  <2>1. Newlines(str) # {}
    BY <1>1, <1>3, NewLineCases
  <2>2. str # << >>
    BY <2>1 DEF Newlines
  <2> QED
    BY <1>1, <1>2, <1>3, <2>1, <2>2, FinishStep DEF EndsLine
<1>4. CASE UNCHANGED <<backup, lines, reply, denied, crashed>>
  BY <1>1, <1>4 DEF StreamTypes, StepOf, Same, Stays, Ahead
<1>5. CASE NoBuffer(fd)
  <2>1. CASE str # << >> /\ denied' = TRUE /\ Returned(fd, str, 0)
    BY <1>1, <1>2, <2>1, ReturnedStep DEF EndsLine, Granted
  <2>2. CASE str # << >> /\ denied' = TRUE /\ Headless(fd, str, 0)
    BY <1>1, <1>2, <2>2, HeadlessStep
  <2>3. CASE Crash
    BY <1>1, <1>2, <2>3, CrashStep DEF Crash
  <2> QED
    BY <1>5, <2>1, <2>2, <2>3 DEF NoBuffer, str
<1> QED
  BY <1>3, <1>4, <1>5 DEF get_next_line, str

-----------------------------------------------------------------------------
(***************************************************************************)
(* The inductive invariant.                                                *)
(***************************************************************************)
StreamInv == StreamTypes /\ NothingLost /\ LinesOrSplit /\ NullMeansEnd

\* What Whole and After say, of any buffer and rest.
WholeOf(ls, b, r) == FlattenSeq(ls) \o b \o r
AfterOf(ls, b, r, k) == FlattenSeq(SubSeq(ls, k + 1, Len(ls))) \o b \o r

LEMMA WholeIsAhead ==
  ASSUME NEW ls \in Seq(Text), NEW b \in Text, NEW r \in Text
  PROVE  /\ WholeOf(ls, b, r) = FlattenSeq(ls) \o (b \o r)
         /\ FlattenSeq(ls) \in Text /\ b \o r \in Text
<1>1. FlattenSeq(ls) \in Text
  BY FlattenType DEF Text
<1> QED
  BY <1>1, ConcatAssociative, ConcatProperties DEF WholeOf, Text

\* The lines after the k-th are lines too.
LEMMA LinesAfter ==
  ASSUME NEW ls \in Seq(Text), NEW k \in 1 .. Len(ls)
  PROVE  SubSeq(ls, k + 1, Len(ls)) \in Seq(Text)
<1>1. Len(ls) \in Nat /\ k + 1 \in Int /\ Len(ls) \in Int /\ \A i \in k + 1 .. Len(ls) : ls[i] \in Text
  <2>1. Len(ls) \in Nat /\ \A i \in 1 .. Len(ls) : ls[i] \in Text
    BY LenProperties, ElementOfSeq
  <2> QED
    BY <2>1
<1> QED
  BY <1>1, SubSeqProperties

LEMMA AfterIsAhead ==
  ASSUME NEW ls \in Seq(Text), NEW b \in Text, NEW r \in Text, NEW k \in 1 .. Len(ls)
  PROVE  AfterOf(ls, b, r, k) = FlattenSeq(SubSeq(ls, k + 1, Len(ls))) \o (b \o r)
<1> DEFINE ss == SubSeq(ls, k + 1, Len(ls))
<1>1. ss \in Seq(Text)
  BY LinesAfter
<1> HIDE DEF ss
<1>2. WholeOf(ss, b, r) = FlattenSeq(ss) \o (b \o r)
  BY <1>1, WholeIsAhead
<1> QED
  BY <1>2 DEF WholeOf, AfterOf, ss

\* One line more: the lines after the k-th are one more.
LEMMA LinesAfterAppend ==
  ASSUME NEW ls \in Seq(Text), NEW x \in Text, NEW k \in 1 .. Len(ls)
  PROVE  SubSeq(Append(ls, x), k + 1, Len(ls) + 1) = Append(SubSeq(ls, k + 1, Len(ls)), x)
<1> DEFINE n == Len(ls)
           m == Append(ls, x)
           u == SubSeq(m, k + 1, n + 1)
           v == SubSeq(ls, k + 1, n)
           w == Append(v, x)
<1>1. n \in Nat /\ \A i \in 1 .. n : ls[i] \in Text
  BY LenProperties, ElementOfSeq
<1>2. /\ m \in Seq(Text) /\ Len(m) = n + 1 /\ m[n + 1] = x
      /\ \A i \in 1 .. n : m[i] = ls[i]
  BY AppendProperties
<1> HIDE DEF n, m
<1>3. k \in 1 .. n
  BY DEF n
<1>4. /\ u \in Seq(Text) /\ Len(u) = n - k + 1
      /\ \A i \in 1 .. n - k + 1 : u[i] = m[k + i]
  <2>1. PICK a : a = k + 1
    OBVIOUS
  <2>2. PICK b : b = n + 1
    OBVIOUS
  <2>3. a \in Int /\ b \in Int /\ \A i \in a .. b : m[i] \in Text
    BY <1>1, <1>2, <1>3, <2>1, <2>2
  <2>4. /\ SubSeq(m, a, b) \in Seq(Text)
        /\ Len(SubSeq(m, a, b)) = IF a <= b THEN b - a + 1 ELSE 0
        /\ \A i \in 1 .. b - a + 1 : SubSeq(m, a, b)[i] = m[a + i - 1]
    BY <2>3, SubSeqProperties
  <2>5. b - a + 1 = n - k + 1 /\ a <= b /\ \A i \in Int : a + i - 1 = k + i
    BY <1>1, <1>3, <2>1, <2>2
  <2>6. u = SubSeq(m, a, b)
    BY <2>1, <2>2
  <2> HIDE DEF u
  <2>7. ASSUME NEW i \in 1 .. n - k + 1 PROVE u[i] = m[k + i]
    <3>1. a + i - 1 = k + i /\ i \in 1 .. b - a + 1
      BY <2>5
    <3> QED
      BY <2>4, <2>6, <3>1, Zenon
  <2> QED
    BY <2>4, <2>5, <2>6, <2>7
<1>5. /\ v \in Seq(Text) /\ Len(v) = n - k
      /\ \A i \in 1 .. n - k : v[i] = ls[k + i]
  <2>1. PICK a : a = k + 1
    OBVIOUS
  <2>2. a \in Int /\ n \in Int /\ \A i \in a .. n : ls[i] \in Text
    BY <1>1, <1>3, <2>1
  <2>3. /\ SubSeq(ls, a, n) \in Seq(Text)
        /\ Len(SubSeq(ls, a, n)) = IF a <= n THEN n - a + 1 ELSE 0
        /\ \A i \in 1 .. n - a + 1 : SubSeq(ls, a, n)[i] = ls[a + i - 1]
    BY <2>2, SubSeqProperties
  <2>4. n - a + 1 = n - k /\ (~(a <= n) => n - k = 0) /\ \A i \in Int : a + i - 1 = k + i
    BY <1>1, <1>3, <2>1
  <2>5. v = SubSeq(ls, a, n)
    BY <2>1
  <2> HIDE DEF v
  <2>6. ASSUME NEW i \in 1 .. n - k PROVE v[i] = ls[k + i]
    <3>1. a + i - 1 = k + i /\ i \in 1 .. n - a + 1
      BY <2>4
    <3> QED
      BY <2>3, <2>5, <3>1, Zenon
  <2> QED
    BY <2>3, <2>4, <2>5, <2>6
<1> HIDE DEF u, v
<1>6. /\ w \in Seq(Text) /\ Len(w) = n - k + 1 /\ w[n - k + 1] = x
      /\ \A i \in 1 .. n - k : w[i] = v[i]
  BY <1>5, AppendProperties, SMTT(20)
<1> HIDE DEF w
<1>7. ASSUME NEW i \in 1 .. n - k + 1 PROVE u[i] = w[i]
  <2>1. CASE i = n - k + 1
    <3>1. k + i = n + 1
      BY <1>1, <1>3, <2>1
    <3> QED
      BY <1>2, <1>4, <1>6, <2>1, <3>1
  <2>2. CASE i \in 1 .. n - k
    <3>1. k + i \in 1 .. n
      BY <1>1, <1>3, <2>2
    <3> QED
      BY <1>2, <1>4, <1>5, <1>6, <2>2, <3>1
  <2> QED
    BY <1>1, <1>3, <2>1, <2>2
<1>8. u = w
  BY <1>4, <1>6, <1>7, SeqEqual
<1> QED
  BY <1>8 DEF u, v, w, m, n

LEMMA AfterLast ==
  ASSUME NEW ls \in Seq(Text), NEW b \in Text, NEW r \in Text
  PROVE  AfterOf(ls, b, r, Len(ls)) = b \o r
<1>1. Len(ls) \in Nat
  BY LenProperties
<1>2. SubSeq(ls, Len(ls) + 1, Len(ls)) = << >>
  BY <1>1, SubSeqEmpty
<1>3. FlattenSeq(<< >>) = << >>
  BY DEF FlattenSeq
<1> QED
  BY <1>2, <1>3, EmptyText DEF AfterOf

\* A line is the next of the lines or the first of what is ahead.
LEMMA FlattenMore ==
  ASSUME NEW ls \in Seq(Text), NEW x \in Text, NEW t \in Text
  PROVE  FlattenSeq(Append(ls, x)) \o t = FlattenSeq(ls) \o (x \o t)
<1>1. FlattenSeq(Append(ls, x)) = FlattenSeq(ls) \o x
  BY FlattenAppend DEF Text
<1>2. PICK f : f = FlattenSeq(ls)
  OBVIOUS
<1>3. f \in Text
  BY <1>2, FlattenType DEF Text
<1>4. (f \o x) \o t = f \o (x \o t)
  BY <1>3, JoinedAll, Zenon
<1> QED
  BY <1>1, <1>2, <1>4

(***************************************************************************)
(* While nothing is lost, the text after a line stays the same, also when  *)
(* a line is taken off it.                                                 *)
(***************************************************************************)
LEMMA AfterStays ==
  \A ls \in Seq(Text) : \A x \in Text : \A b \in Text : \A r \in Text : \A c \in Text : \A q \in Text :
    x \o (c \o q) = b \o r =>
      /\ WholeOf(Append(ls, x), c, q) = WholeOf(ls, b, r)
      /\ \A k \in 1 .. Len(ls) : AfterOf(Append(ls, x), c, q, k) = AfterOf(ls, b, r, k)
<1> SUFFICES ASSUME NEW ls \in Seq(Text), NEW x \in Text, NEW b \in Text, NEW r \in Text,
                    NEW c \in Text, NEW q \in Text, x \o (c \o q) = b \o r
             PROVE  /\ WholeOf(Append(ls, x), c, q) = WholeOf(ls, b, r)
                    /\ \A k \in 1 .. Len(ls) : AfterOf(Append(ls, x), c, q, k) = AfterOf(ls, b, r, k)
  OBVIOUS
<1>1. ASSUME NEW us \in Seq(Text)
      PROVE  FlattenSeq(Append(us, x)) \o (c \o q) = FlattenSeq(us) \o (b \o r)
  <2>1. PICK t : t = c \o q
    OBVIOUS
  <2>2. t \in Text
    BY <2>1, ConcatProperties DEF Text
  <2>3. FlattenSeq(Append(us, x)) \o t = FlattenSeq(us) \o (x \o t)
    BY <2>2, FlattenMore
  <2> QED
    BY <2>1, <2>3
<1>2. Append(ls, x) \in Seq(Text) /\ Len(Append(ls, x)) = Len(ls) + 1 /\ Len(ls) \in Nat
  BY AppendProperties, LenProperties
<1>3. WholeOf(Append(ls, x), c, q) = WholeOf(ls, b, r)
  <2>1. PICK m : m = Append(ls, x)
    OBVIOUS
  <2>2. m \in Seq(Text)
    BY <1>2, <2>1
  <2>3. WholeOf(m, c, q) = FlattenSeq(m) \o (c \o q) /\ WholeOf(ls, b, r) = FlattenSeq(ls) \o (b \o r)
    BY <2>2, WholeIsAhead
  <2>4. FlattenSeq(m) \o (c \o q) = FlattenSeq(ls) \o (b \o r)
    BY <1>1, <2>1
  <2> QED
    BY <2>1, <2>3, <2>4
<1>4. ASSUME NEW k \in 1 .. Len(ls)
      PROVE  AfterOf(Append(ls, x), c, q, k) = AfterOf(ls, b, r, k)
  <2> DEFINE us == SubSeq(ls, k + 1, Len(ls))
  <2>1. us \in Seq(Text)
    BY LinesAfter
  <2>2. SubSeq(Append(ls, x), k + 1, Len(ls) + 1) = Append(us, x)
    BY LinesAfterAppend
  <2>3. PICK m : m = Append(ls, x)
    OBVIOUS
  <2>4. AfterOf(ls, b, r, k) = FlattenSeq(us) \o (b \o r)
    BY AfterIsAhead
  <2> HIDE DEF us
  <2>5. m \in Seq(Text) /\ Len(m) = Len(ls) + 1 /\ k \in 1 .. Len(m)
    BY <1>2, <2>3
  <2>6. SubSeq(m, k + 1, Len(m)) = Append(us, x)
    BY <2>2, <2>3, <2>5
  <2>7. AfterOf(m, c, q, k) = FlattenSeq(SubSeq(m, k + 1, Len(m))) \o (c \o q)
    BY <2>5, AfterIsAhead, ZenonT(30)
  <2>8. FlattenSeq(Append(us, x)) \o (c \o q) = FlattenSeq(us) \o (b \o r)
    BY <1>1, <2>1
  <2> QED
    BY <2>3, <2>4, <2>6, <2>7, <2>8
<1> QED
  BY <1>3, <1>4

\* A line taken off the text ahead of descriptor fd, seen from one step.
LEMMA CutStays ==
  ASSUME StreamTypes, StreamTypes', NEW fd \in Fds, NEW line \in Text,
         lines'[fd] = Append(lines[fd], line),
         line \o (backup'[fd] \o rest'[fd]) = backup[fd] \o rest[fd]
  PROVE  /\ WholeOf(lines'[fd], backup'[fd], rest'[fd]) = WholeOf(lines[fd], backup[fd], rest[fd])
         /\ \A k \in 1 .. Len(lines[fd]) :
              AfterOf(lines'[fd], backup'[fd], rest'[fd], k) = AfterOf(lines[fd], backup[fd], rest[fd], k)
<1>1. PICK ls, b, r, c, q : ls = lines[fd] /\ b = backup[fd] /\ r = rest[fd] /\ c = backup'[fd] /\ q = rest'[fd]
  OBVIOUS
<1>2. ls \in Seq(Text) /\ b \in Text /\ r \in Text /\ c \in Text /\ q \in Text
  BY <1>1 DEF StreamTypes
<1>3. line \o (c \o q) = b \o r
  BY <1>1
<1>4. /\ WholeOf(Append(ls, line), c, q) = WholeOf(ls, b, r)
      /\ \A k \in 1 .. Len(ls) : AfterOf(Append(ls, line), c, q, k) = AfterOf(ls, b, r, k)
  <2>1. \A x \in Text : \A b0 \in Text : \A r0 \in Text : \A c0 \in Text : \A q0 \in Text :
          x \o (c0 \o q0) = b0 \o r0 =>
            /\ WholeOf(Append(ls, x), c0, q0) = WholeOf(ls, b0, r0)
            /\ \A k \in 1 .. Len(ls) : AfterOf(Append(ls, x), c0, q0, k) = AfterOf(ls, b0, r0, k)
    BY ONLY <1>2, AfterStays, Zenon
  <2>2. \A c0 \in Text : \A q0 \in Text :
          line \o (c0 \o q0) = b \o r =>
            /\ WholeOf(Append(ls, line), c0, q0) = WholeOf(ls, b, r)
            /\ \A k \in 1 .. Len(ls) : AfterOf(Append(ls, line), c0, q0, k) = AfterOf(ls, b, r, k)
    BY ONLY <1>2, <2>1, line \in Text, ZenonT(40)
  <2> QED
    BY ONLY <1>2, <1>3, <2>2, Zenon
<1>5. lines'[fd] = Append(ls, line)
  BY <1>1
<1>6. PICK m : m = Append(ls, line)
  OBVIOUS
<1>7. /\ WholeOf(m, c, q) = WholeOf(ls, b, r)
      /\ \A k \in 1 .. Len(ls) : AfterOf(m, c, q, k) = AfterOf(ls, b, r, k)
  BY <1>4, <1>6, Zenon
<1>8. lines'[fd] = m
  BY <1>5, <1>6, Zenon
<1> QED
  BY <1>1, <1>7, <1>8, Zenon

LEMMA StepKeepsWhole ==
  ASSUME StreamTypes, StreamTypes', NEW fd \in Fds, StepOf(fd), ~Loses(fd)
  PROVE  \A g \in Fds : Whole(g)' = Whole(g)
<1>1. ASSUME NEW g \in Fds, g # fd PROVE Whole(g)' = Whole(g)
  BY <1>1 DEF StepOf, Same, Whole
<1>2. /\ lines[fd] \in Seq(Text) /\ backup[fd] \in Text /\ rest[fd] \in Text
      /\ lines'[fd] \in Seq(Text) /\ backup'[fd] \in Text /\ rest'[fd] \in Text
  BY DEF StreamTypes
<1>3. CASE Stays(fd)
  <2>1. /\ lines'[fd] = lines[fd]
        /\ backup'[fd] \o rest'[fd] = backup[fd] \o rest[fd]
    BY <1>3 DEF Stays, Ahead
  <2>2. /\ Whole(fd) = FlattenSeq(lines[fd]) \o (backup[fd] \o rest[fd])
        /\ Whole(fd)' = FlattenSeq(lines'[fd]) \o (backup'[fd] \o rest'[fd])
    BY <1>2, WholeIsAhead, ZenonT(30) DEF Whole, WholeOf
  <2> QED
    BY <1>1, <2>1, <2>2
<1>4. CASE Cuts(fd)
  <2>1. PICK line \in Text : /\ lines'[fd] = Append(lines[fd], line)
                             /\ line \o (backup'[fd] \o rest'[fd]) = backup[fd] \o rest[fd]
    BY <1>4 DEF Cuts, Ahead
  <2>2. WholeOf(lines'[fd], backup'[fd], rest'[fd]) = WholeOf(lines[fd], backup[fd], rest[fd])
    BY <2>1, CutStays, Zenon
  <2>3. Whole(fd)' = Whole(fd)
    BY <2>1, <2>2 DEF Whole, WholeOf
  <2> QED
    BY <1>1, <2>3
<1> QED
  BY <1>3, <1>4 DEF StepOf

LEMMA NothingLostStep ==
  ASSUME StreamInv, StreamTypes', NEW fd \in Fds, StepOf(fd)
  PROVE  NothingLost'
<1> SUFFICES ASSUME ~denied', NEW g \in Fds PROVE Whole(g)' = text'[g]
  BY DEF NothingLost
<1>1. ~denied /\ text' = text /\ ~Loses(fd)
  BY DEF StepOf, Loses
<1>2. Whole(g) = text[g]
  BY <1>1 DEF StreamInv, NothingLost
<1> QED
  BY <1>1, <1>2, StepKeepsWhole DEF StreamInv

LEMMA NullMeansEndStep ==
  ASSUME StreamInv, StreamTypes', NEW fd \in Fds, StepOf(fd)
  PROVE  NullMeansEnd'
<1> SUFFICES ASSUME reply'.null, reply'.re_frf >= 0, ~denied'
             PROVE  FlattenSeq(lines'[reply'.fd]) = text'[reply'.fd]
  BY DEF NullMeansEnd
<1>1. Stays(fd) /\ text' = text /\ ~denied
  BY DEF StepOf, Loses, Cuts
<1>2. CASE reply' = reply
  <2>1. reply.fd \in Fds
    BY DEF StreamInv, StreamTypes
  <2>2. lines'[reply.fd] = lines[reply.fd]
    BY <1>1, <2>1 DEF StepOf, Same, Stays
  <2>3. FlattenSeq(lines[reply.fd]) = text[reply.fd]
    BY <1>1, <1>2 DEF StreamInv, NullMeansEnd
  <2> QED
    BY <1>1, <1>2, <2>2, <2>3
<1>3. CASE reply'.fd = fd /\ Ahead(fd)' = << >>
  <2>1. Whole(fd)' = text[fd]
    BY <1>1, NothingLostStep DEF NothingLost
  <2>2. lines'[fd] \in Seq(Text) /\ backup'[fd] \in Text /\ rest'[fd] \in Text
    BY DEF StreamTypes
  <2>3. Whole(fd)' = FlattenSeq(lines'[fd]) \o Ahead(fd)' /\ FlattenSeq(lines'[fd]) \in Text
    BY <2>2, WholeIsAhead DEF Whole, WholeOf, Ahead
  <2> QED
    BY <1>1, <1>3, <2>1, <2>3, EmptyText
<1> QED
  BY <1>1, <1>2, <1>3 DEF Stays

LEMMA LinesOrSplitStep ==
  ASSUME StreamInv, StreamTypes', NEW fd \in Fds, StepOf(fd)
  PROVE  LinesOrSplit'
<1> DEFINE Good(ls, b, r, d, k) ==
             /\ ls[k] # << >>
             /\ Newlines(ls[k]) \subseteq {Len(ls[k])}
             /\ Newlines(ls[k]) = {} /\ AfterOf(ls, b, r, k) # << >> =>
                  d \/ (~bonus /\ Len(ls[k]) = 1 /\ AfterOf(ls, b, r, k)[1] = NL /\ r = << >>)
<1>1. \A g \in Fds : \A k \in 1 .. Len(lines[g]) : Good(lines[g], backup[g], rest[g], denied, k)
  BY DEF StreamInv, LinesOrSplit, After, AfterOf
<1>2. bonus' = bonus /\ (denied => denied') /\ (rest[fd] = << >> => rest'[fd] = << >>)
  BY DEF StepOf
<1>3. /\ lines[fd] \in Seq(Text) /\ backup[fd] \in Text /\ rest[fd] \in Text
      /\ lines'[fd] \in Seq(Text) /\ backup'[fd] \in Text /\ rest'[fd] \in Text
  BY DEF StreamInv, StreamTypes
<1>4. ASSUME NEW g \in Fds, g # fd, NEW k \in 1 .. Len(lines'[g])
      PROVE  Good(lines'[g], backup'[g], rest'[g], denied', k)
  BY <1>1, <1>2, <1>4 DEF StepOf, Same
<1>5. CASE Stays(fd)
  <2>1. lines'[fd] = lines[fd] /\ backup'[fd] \o rest'[fd] = backup[fd] \o rest[fd]
    BY <1>5 DEF Stays, Ahead
  <2>2. \A k \in 1 .. Len(lines[fd]) :
          AfterOf(lines[fd], backup'[fd], rest'[fd], k) = AfterOf(lines[fd], backup[fd], rest[fd], k)
    <3>1. PICK ls, b, r, c, q :
            ls = lines[fd] /\ b = backup[fd] /\ r = rest[fd] /\ c = backup'[fd] /\ q = rest'[fd]
      OBVIOUS
    <3>2. ls \in Seq(Text) /\ b \in Text /\ r \in Text /\ c \in Text /\ q \in Text
      BY <1>3, <3>1, Zenon
    <3>3. c \o q = b \o r
      BY <2>1, <3>1, Zenon
    <3>4. ASSUME NEW k \in 1 .. Len(ls) PROVE AfterOf(ls, c, q, k) = AfterOf(ls, b, r, k)
      <4>1. AfterOf(ls, b, r, k) = FlattenSeq(SubSeq(ls, k + 1, Len(ls))) \o (b \o r)
        BY ONLY <3>2, <3>4, AfterIsAhead, Zenon
      <4>2. AfterOf(ls, c, q, k) = FlattenSeq(SubSeq(ls, k + 1, Len(ls))) \o (c \o q)
        BY ONLY <3>2, <3>4, AfterIsAhead, Zenon
      <4> QED
        BY ONLY <3>3, <4>1, <4>2, Zenon
    <3> QED
      BY <3>1, <3>4, Zenon
  <2>3. \A k \in 1 .. Len(lines'[fd]) : Good(lines'[fd], backup'[fd], rest'[fd], denied', k)
    <3> SUFFICES ASSUME NEW k \in 1 .. Len(lines[fd])
                 PROVE  Good(lines[fd], backup'[fd], rest'[fd], denied', k)
      BY <2>1, Zenon
    <3>1. Good(lines[fd], backup[fd], rest[fd], denied, k)
      BY <1>1
    <3>2. AfterOf(lines[fd], backup'[fd], rest'[fd], k) = AfterOf(lines[fd], backup[fd], rest[fd], k)
      BY <2>2
    <3> QED
      BY <1>2, <3>1, <3>2, Zenon
  <2> QED
    BY <1>2, <1>4, <2>3 DEF LinesOrSplit, After, AfterOf
<1>6. CASE Cuts(fd)
  <2>1. PICK line \in Text :
          /\ lines'[fd] = Append(lines[fd], line) /\ line \o (backup'[fd] \o rest'[fd]) = backup[fd] \o rest[fd]
          /\ line # << >> /\ Newlines(line) \subseteq {Len(line)}
          /\ Newlines(line) = {} /\ backup'[fd] \o rest'[fd] # << >> =>
               denied' \/ (~bonus /\ Len(line) = 1 /\ (backup'[fd] \o rest'[fd])[1] = NL /\ rest'[fd] = << >>)
    BY <1>6 DEF Cuts, Ahead
  <2> DEFINE n == Len(lines[fd])
             ls == lines'[fd]
  <2>2. /\ n \in Nat /\ Len(ls) = n + 1 /\ ls[n + 1] = line
        /\ \A k \in 1 .. n : ls[k] = lines[fd][k]
    <3>1. PICK us, us1 : us = lines[fd] /\ us1 = lines'[fd]
      OBVIOUS
    <3>2. us \in Seq(Text) /\ us1 = Append(us, line)
      BY <1>3, <2>1, <3>1, Zenon
    <3>3. /\ Len(us) \in Nat /\ Len(us1) = Len(us) + 1 /\ us1[Len(us) + 1] = line
          /\ \A k \in 1 .. Len(us) : us1[k] = us[k]
      BY ONLY <3>2, LenProperties, AppendProperties, line \in Text
    <3> QED
      BY <3>1, <3>3, Zenon
  <2>3. \A k \in 1 .. n : AfterOf(ls, backup'[fd], rest'[fd], k) = AfterOf(lines[fd], backup[fd], rest[fd], k)
    <3>1. StreamTypes
      BY DEF StreamInv
    <3> QED
      BY <2>1, <3>1, CutStays, Zenon
  <2>4. AfterOf(ls, backup'[fd], rest'[fd], n + 1) = backup'[fd] \o rest'[fd]
    <3>1. PICK us, c, q : us = lines'[fd] /\ c = backup'[fd] /\ q = rest'[fd]
      OBVIOUS
    <3>2. us \in Seq(Text) /\ c \in Text /\ q \in Text
      BY <1>3, <3>1, Zenon
    <3>3. Len(us) = n + 1 /\ n \in Nat
      BY <2>2, <3>1, Zenon
    <3>4. Len(us) # 0
      BY ONLY <3>3
    <3>5. AfterOf(us, c, q, Len(us)) = c \o q
      BY ONLY <3>2, <3>4, AfterLast, Zenon
    <3> QED
      BY <3>1, <3>3, <3>5, Zenon
  <2> HIDE DEF n, ls
  <2>5. ASSUME NEW k \in 1 .. n PROVE Good(ls, backup'[fd], rest'[fd], denied', k)
    <3>1. Good(lines[fd], backup[fd], rest[fd], denied, k)
      BY <1>1, <2>5 DEF n
    <3> QED
      BY <1>2, <2>2, <2>3, <3>1
  <2>6. Good(ls, backup'[fd], rest'[fd], denied', n + 1)
    BY <2>1, <2>2, <2>4
  <2>7. \A k \in 1 .. Len(ls) : Good(ls, backup'[fd], rest'[fd], denied', k)
    <3>1. \A k \in 1 .. Len(ls) : k \in 1 .. n \/ k = n + 1
      BY <2>2
    <3> QED
      BY <2>5, <2>6, <3>1
  <2> QED
    BY <1>2, <1>4, <2>7 DEF LinesOrSplit, After, AfterOf, ls
<1>7. CASE Loses(fd)
  <2>1. lines'[fd] = lines[fd] /\ denied'
    BY <1>7 DEF Loses
  <2>2. \A k \in 1 .. Len(lines'[fd]) : Good(lines'[fd], backup'[fd], rest'[fd], denied', k)
    BY <1>1, <2>1
  <2> QED
    BY <1>2, <1>4, <2>2 DEF LinesOrSplit, After, AfterOf
<1> QED
  BY <1>5, <1>6, <1>7 DEF StepOf

LEMMA InitStream == Init => StreamInv
<1> SUFFICES ASSUME Init PROVE StreamInv
  OBVIOUS
<1>1. << >> \in Text /\ << >> \in Seq(Text)
  BY EmptySeq DEF Text
<1>2. text \in [Fds -> Text]
  <2>1. \A fd \in Fds : text[fd] \in Text
    BY <1>1, StreamAssumption DEF Init, Text
  <2> QED
    BY <2>1 DEF Init
<1>3. StreamTypes
  <2>1. rest \in [Fds -> Text] /\ lines \in [Fds -> Seq(Text)] /\ backup \in [Fds -> Text]
    BY <1>1, <1>2 DEF Init
  <2>2. reply \in [fd : Fds, null : BOOLEAN, re_frf : Int]
    BY StreamAssumption DEF Init
  <2> QED
    BY <1>2, <2>1, <2>2 DEF Init, StreamTypes
<1>4. \A fd \in Fds : Whole(fd) = text[fd]
  <2> SUFFICES ASSUME NEW fd \in Fds PROVE Whole(fd) = text[fd]
    OBVIOUS
  <2>1. FlattenSeq(<< >>) = << >>
    BY DEF FlattenSeq
  <2>2. Whole(fd) = << >> \o << >> \o text[fd]
    BY <2>1 DEF Init, Whole
  <2> QED
    BY <1>1, <1>2, <2>2, EmptyText
<1>5. LinesOrSplit
  BY DEF Init, LinesOrSplit
<1>6. NullMeansEnd
  BY DEF Init, NullMeansEnd
<1> QED
  BY <1>3, <1>4, <1>5, <1>6 DEF StreamInv, NothingLost

\* Every step is a step of one call, or changes nothing.
LEMMA NextIsStepOf ==
  ASSUME StreamTypes, [Next]_vars
  PROVE  UNCHANGED vars \/ (StreamTypes' /\ \E fd \in Fds : StepOf(fd))
<1>1. Readable \subseteq Fds
  BY StreamAssumption DEF Readable
<1> QED
  BY <1>1, CallStep, ReadStep DEF Next, Dead

(***************************************************************************)
(* The inductive invariant holds: types, and the three invariants the runs *)
(* check.                                                                  *)
(***************************************************************************)
THEOREM StreamInvHolds == Spec => []StreamInv
<1>1. Init => StreamInv
  BY InitStream
<1>2. StreamInv /\ [Next]_vars => StreamInv'
  <2> SUFFICES ASSUME StreamInv, [Next]_vars PROVE StreamInv'
    OBVIOUS
  <2>1. CASE UNCHANGED vars
    BY <2>1 DEF vars, StreamInv, StreamTypes, NothingLost, Whole, LinesOrSplit, After, NullMeansEnd
  <2>2. ASSUME StreamTypes', NEW fd \in Fds, StepOf(fd) PROVE StreamInv'
    BY <2>2, NothingLostStep, NullMeansEndStep, LinesOrSplitStep DEF StreamInv
  <2> QED
    BY <2>1, <2>2, NextIsStepOf DEF StreamInv
<1> QED
  BY <1>1, <1>2, PTL DEF Spec

(***************************************************************************)
(* No byte is lost, repeated or moved while there is memory.               *)
(***************************************************************************)
THEOREM NothingLostCorrect == Spec => []NothingLost
<1>1. StreamInv => NothingLost
  BY DEF StreamInv
<1> QED
  BY <1>1, StreamInvHolds, PTL

(***************************************************************************)
(* What is returned is the lines of the text, but for the plain version's  *)
(* last line of one character.                                             *)
(***************************************************************************)
THEOREM LinesOrSplitCorrect == Spec => []LinesOrSplit
<1>1. StreamInv => LinesOrSplit
  BY DEF StreamInv
<1> QED
  BY <1>1, StreamInvHolds, PTL

(***************************************************************************)
(* NULL without an error means that the whole text was returned.           *)
(***************************************************************************)
THEOREM NullMeansEndCorrect == Spec => []NullMeansEnd
<1>1. StreamInv => NullMeansEnd
  BY DEF StreamInv
<1> QED
  BY <1>1, StreamInvHolds, PTL

(***************************************************************************)
(* Without memory a call loses text only by dying or by returning NULL     *)
(* itself, but for the bonus version that drops a line it is reading.      *)
(***************************************************************************)
THEOREM LossIsToldCorrect == Spec => LossIsTold
<1> DEFINE Told == \A fd \in Fds : Whole(fd)' # Whole(fd) =>
                     \/ crashed'
                     \/ reading' = NoFd /\ reply'.fd = fd /\ reply'.null
                     \/ bonus /\ reading' = fd /\ backup'[fd] = << >>
<1>1. StreamInv /\ [Next]_vars => [Told]_vars
  <2> SUFFICES ASSUME StreamInv, [Next]_vars PROVE [Told]_vars
    OBVIOUS
  <2>1. ASSUME StreamTypes', NEW fd \in Fds, StepOf(fd), Loses(fd) PROVE Told
    <3>1. \A g \in Fds \ {fd} : Whole(g)' = Whole(g)
      BY <2>1 DEF StepOf, Same, Whole
    <3> QED
      BY <2>1, <3>1 DEF Loses
  <2>2. ASSUME StreamTypes', NEW fd \in Fds, StepOf(fd), ~Loses(fd) PROVE Told
    BY <2>2, StepKeepsWhole DEF StreamInv
  <2> QED
    BY <2>1, <2>2, NextIsStepOf DEF StreamInv
<1> QED
  BY <1>1, StreamInvHolds, PTL DEF Spec, LossIsTold

===============================================================================
