------------------------------- MODULE LibftText -------------------------------
(***************************************************************************)
(* The functions of libft that look at strings without changing them, on   *)
(* the strings of Libft's memory: searching for a byte and for a string,   *)
(* comparing, cutting out, splitting at a set of separators, and reading   *)
(* and writing numbers.  Only ft_split_str may run out of memory here.     *)
(*                                                                         *)
(* A loop of the code is a recursive function of its counter.  A byte is   *)
(* read as a char, which is signed, or as an unsigned char, as the code    *)
(* does in each place.                                                     *)
(***************************************************************************)
EXTENDS Libft

CONSTANTS
  CHAR_MAX, \* greatest char (127)
  INT_MAX,  \* greatest int
  LLONG_MAX \* greatest long long

ASSUME TextAssumption ==
  /\ CHAR_MAX \in Nat /\ Bytes \subseteq 0 .. (2 * CHAR_MAX + 1)
  /\ INT_MAX \in Nat /\ LLONG_MAX \in Nat /\ INT_MAX < LLONG_MAX

Ints == -INT_MAX - 1 .. INT_MAX

\* *s where s points to char.
AsChar(byte) == IF byte > CHAR_MAX THEN byte - (2 * CHAR_MAX + 2) ELSE byte

-----------------------------------------------------------------------------
\* The searches for a byte compare a char with (unsigned char)c, all but
\* ft_memchr: a byte above CHAR_MAX is a negative char, and never equal.
ft_strchr(m, p, c) ==
  LET from[i \in Nat] ==
        IF m[i] = 0 THEN (IF c = 0 THEN i ELSE NULL)
        ELSE IF AsChar(m[i]) = c THEN i ELSE from[i + 1]
  IN  from[p]

\* cnt counts the characters looked at and cannot end the loop before len.
ft_strrchr(m, p, c) ==
  LET back[len \in Int] ==
        IF len < 0 THEN NULL ELSE IF AsChar(m[p + len]) = c THEN p + len ELSE back[len - 1]
  IN  back[ft_strlen(m, p)]

ft_memchr(m, p, c, n) ==
  LET from[cnt1 \in Nat] ==
        IF cnt1 >= n THEN NULL ELSE IF m[p + cnt1] = c THEN p + cnt1 ELSE from[cnt1 + 1]
  IN  from[0]

\* 0 where there is none.
ft_strchr_len(m, p, c) ==
  LET from[idx \in Nat] ==
        IF m[p + idx] = 0 THEN 0 ELSE IF AsChar(m[p + idx]) = c THEN idx ELSE from[idx + 1]
  IN  from[0]

ft_isinstr(m, c, p) ==
  LET from[i \in Nat] == m[i] # 0 /\ (c = AsChar(m[i]) \/ from[i + 1])
  IN  from[p]

ft_memcmp(m, p, q, n) ==
  LET from[cnt \in Nat] ==
        IF cnt >= n THEN 0
        ELSE IF m[p + cnt] # m[q + cnt] THEN m[p + cnt] - m[q + cnt] ELSE from[cnt + 1]
  IN  from[0]

\* Bug variant: the end of either string ends the comparison.
ft_strncmp_Shorter(m, p, q, n) ==
  LET from[cnt \in Nat] ==
        IF m[p + cnt] = 0 \/ m[q + cnt] = 0 \/ cnt >= n THEN 0
        ELSE IF m[p + cnt] # m[q + cnt] THEN m[p + cnt] - m[q + cnt] ELSE from[cnt + 1]
  IN  from[0]

\* The loop runs while either string has a character left.
ft_strncmp(m, p, q, n) ==
  LET from[cnt \in Nat] ==
        IF (m[p + cnt] = 0 /\ m[q + cnt] = 0) \/ cnt >= n THEN 0
        ELSE IF m[p + cnt] # m[q + cnt] THEN m[p + cnt] - m[q + cnt] ELSE from[cnt + 1]
  IN  from[0]

\* Is s2 in the last len characters of s1?  Looked for from the end.
ft_strrstr(s1, s2, len) ==
  LET down[i \in Int] ==
        /\ i >= 0 /\ i >= Len(s1) - len
        /\ SubSeq(s1, i + 1, i + Len(s2)) = s2 \/ down[i - 1]
  IN  s2 # << >> /\ Len(s2) <= Len(s1) /\ Len(s2) <= len /\ down[Len(s1) - Len(s2)]

-----------------------------------------------------------------------------
\* What strlcpy leaves in a fresh block: at most size - 1 characters.
Copied(s, size) == IF size = 0 THEN << >> ELSE SubSeq(s, 1, Min({Len(s), size - 1}))

(***************************************************************************)
(* ft_substr asks for start + len + 1 bytes, of which len + 1 are for the  *)
(* copy; both sums are size_t.  It copies before it compares start with    *)
(* the length, so with start beyond the end it copies what it finds there; *)
(* the result is then emptied.  stored is what the copy takes up, for a    *)
(* start within the string; null and text are what is returned when the    *)
(* sums do not wrap (where they do, the block is too small, or not zeroed).*)
(***************************************************************************)
\* Bug variant: an empty result is NULL also when none was asked for.
ft_substr_NoLen(m, p, start, len) ==
  LET asked == (start + len + 1) % (SIZE_MAX + 1)
      size == (len + 1) % (SIZE_MAX + 1)
      dst == IF start > ft_strlen(m, p) THEN << >> ELSE Copied(Str(m, p + start), size)
  IN  [asked |-> asked, stored |-> IF size = 0 THEN 0 ELSE Len(dst) + 1,
       null |-> m[p] # 0 /\ start <= ft_strlen(m, p) /\ dst = << >>, text |-> dst]

ft_substr(m, p, start, len) ==
  LET asked == (start + len + 1) % (SIZE_MAX + 1)
      size == (len + 1) % (SIZE_MAX + 1)
      dst == IF start > ft_strlen(m, p) THEN << >> ELSE Copied(Str(m, p + start), size)
  IN  [asked |-> asked, stored |-> IF m[p] = 0 \/ size = 0 THEN 0 ELSE Len(dst) + 1,
       null |-> m[p] # 0 /\ len # 0 /\ start <= ft_strlen(m, p) /\ dst = << >>, text |-> dst]

ft_strndup(m, p, n) == SubSeq(Str(m, p), 1, Min({ft_strlen(m, p), n}))

ft_strjoin(s1, s2) == Copied(s1, Len(s1) + 1) \o Copied(s2, Len(s2) + 1)

-----------------------------------------------------------------------------
(***************************************************************************)
(* ft_split_str finds its separators with ft_strchr.  Its blocks are the   *)
(* array and the words 1, 2, ...; fails is the one there is no memory for, *)
(* if any.                                                                 *)
(***************************************************************************)
Array == 0

\* The array with n words in it and a NULL behind them: the one that ends
\* it, or the word there was no memory for.
Saved(n) == [k \in 0 .. n |-> IF k < n THEN k + 1 ELSE NULL]

\* Bug variant: the array is kept.
ft_strfree_Words(str, stri) == [i \in 1 .. stri + 1 |-> str[i - 1]]

\* What is handed to free, one after the other: str[0 .. stri] and the array.
ft_strfree(str, stri) ==
  [i \in 1 .. stri + 2 |-> IF i <= stri + 1 THEN str[i - 1] ELSE Array]

ft_split_str(m, p, set, fails) ==
  LET s == Str(m, p)
      found == {c \in Bytes : ft_strchr(m, set, c) # NULL}
      words == ft_split(s, found)
      n == IF fails \in 1 .. Len(words) THEN fails - 1 ELSE Len(words)
      split == [null |-> FALSE, room |-> ft_wordcount(s, found), words |-> words,
                str |-> Saved(n), blocks |-> 0 .. n, freed |-> << >>]
  IN  IF fails = 0 THEN [split EXCEPT !.null = TRUE, !.str = << >>, !.blocks = {}]
      ELSE IF fails \in 1 .. Len(words)
      THEN [split EXCEPT !.null = TRUE, !.freed = ft_strfree(split.str, n)]
      ELSE split

\* The words up to the NULL, then the array.
ft_free_two(str) ==
  LET idx == Min({k \in DOMAIN str : str[k] = NULL})
  IN  [i \in 1 .. idx + 1 |-> IF i <= idx THEN str[i - 1] ELSE Array]

-----------------------------------------------------------------------------
(***************************************************************************)
(* Numbers.  Characters are their codes here.                              *)
(***************************************************************************)
Minus == 45
Plus == 43
Code(digit) == 48 + digit
IsDigit(c) == c \in 48 .. 57
ft_isspace(c) == c = 32 \/ c \in 9 .. 13

\* The digits of k / 10 before the last one.
Digits(k) ==
  LET digits[j \in Nat] ==
        IF j >= 10 THEN Append(digits[j \div 10], Code(j % 10)) ELSE <<Code(j)>>
  IN  digits[k]

\* n *= -1 leaves the least int what it is.
ft_in_nbr(n) ==
  IF n = -INT_MAX - 1 THEN <<Minus, Code(n)>>
  ELSE IF n < 0 THEN <<Minus>> \o Digits(-n) ELSE Digits(n)

\* Bug variant: the least int has no case of its own.
ft_itoa_NoCase(n) == ft_in_nbr(n)

ft_itoa(n) == IF n = -INT_MAX - 1 THEN <<Minus>> \o Digits(INT_MAX + 1) ELSE ft_in_nbr(n)

\* A long int: no case for the least int, and a divisor for each digit.
ft_putnbr_fd(n) ==
  LET nb == IF n < 0 THEN -n ELSE n
      top[div \in Nat] == IF nb \div div > 9 THEN top[div * 10] ELSE div
      rest[div \in Nat] == \* the digits from div on
        IF div = 0 THEN << >> ELSE <<Code((nb \div div) % 10)>> \o rest[div \div 10]
  IN  (IF n < 0 THEN <<Minus>> ELSE << >>) \o rest[top[1]]

\* The value of a text in a type that ends at greatest; not defined where
\* the digits so far are more than that (a signed overflow).
Number(text, greatest) ==
  LET first == SelectInSeq(text, LAMBDA c : ~ft_isspace(c))
      tail == IF first = 0 THEN << >> ELSE SubSeq(text, first, Len(text))
      after == SelectInSeq(tail, LAMBDA c : c \notin {Plus, Minus})
      flag == IF after = 0 THEN Len(tail) ELSE after - 1
      mi == IF Cardinality({i \in 1 .. flag : tail[i] = Minus}) % 2 = 1 THEN -1 ELSE 1
      nb[i \in flag + 1 .. Len(tail) + 1] == \* of the digits before the i-th character
        IF i = flag + 1 THEN 0 ELSE nb[i - 1] * 10 + (tail[i - 1] - 48)
      stop[i \in Nat] == IF i <= Len(tail) /\ IsDigit(tail[i]) THEN stop[i + 1] ELSE i
      value == nb[stop[flag + 1]]
  IN  IF flag > 1 THEN [value |-> 0, defined |-> TRUE]
      ELSE [value |-> value * mi, defined |-> value <= greatest]

ft_atoi(text) == Number(text, INT_MAX)
ft_atoi_longlong(text) == Number(text, LLONG_MAX)

-----------------------------------------------------------------------------
\* The first and the last of some places, or NULL.
LeastOf(places) == IF places = {} THEN NULL ELSE Min(places)
GreatestOf(places) == IF places = {} THEN NULL ELSE Max(places)

(***************************************************************************)
(* The searches find the first, or the last, byte c there is - among the   *)
(* bytes a char can hold, all but ft_memchr: for them no string has a byte *)
(* above CHAR_MAX.  ft_strchr and ft_strrchr find the terminating 0, the   *)
(* others do not, and ft_strchr_len tells a first character from none at   *)
(* all no more than the code does.                                         *)
(***************************************************************************)
FindsByte(p, c) ==
  LET end == p + ft_strlen(mem, p)
      seen == IF c > CHAR_MAX THEN {} ELSE {i \in p .. end : mem[i] = c}
  IN  /\ ft_strchr(mem, p, c) = LeastOf(seen)
      /\ ft_strrchr(mem, p, c) = GreatestOf(seen)
      /\ ft_isinstr(mem, c, p) <=> seen \ {end} # {}
      /\ ft_strchr_len(mem, p, c) = IF seen \ {end} = {} THEN 0 ELSE Min(seen) - p
      /\ \A n \in 0 .. Size - p :
           ft_memchr(mem, p, c, n) = LeastOf({i \in p .. p + n - 1 : mem[i] = c})

(***************************************************************************)
(* ft_strncmp and ft_memcmp tell two texts apart by the first byte in      *)
(* which they differ, as unsigned chars: ft_memcmp among n bytes, whatever *)
(* they are, ft_strncmp up to the end of the shorter string, which counts. *)
(***************************************************************************)
ComparesBytes(p, q, n) ==
  LET Differ(k) == {i \in 0 .. k - 1 : mem[p + i] # mem[q + i]}
      Told(places) == IF places = {} THEN 0 ELSE mem[p + Min(places)] - mem[q + Min(places)]
      shorter == Min({ft_strlen(mem, p), ft_strlen(mem, q)})
  IN  /\ ft_strncmp(mem, p, q, n) = Told(Differ(Min({n, shorter + 1})))
      /\ p + n <= Size /\ q + n <= Size => ft_memcmp(mem, p, q, n) = Told(Differ(n))

(***************************************************************************)
(* Where a byte above CHAR_MAX is a negative char, and where it is itself, *)
(* is as above in every function; the searches miss it, the comparisons    *)
(* do not, and none of them passes over the last place it has to look at.  *)
(***************************************************************************)
SeesBytes ==
  call = NoCall =>
    /\ \A p \in StringPtrs, c \in Bytes : FindsByte(p, c)
    /\ \A p, q \in StringPtrs, n \in 0 .. Size : ComparesBytes(p, q, n)

(***************************************************************************)
(* ft_strnstr finds the first place of little among the first len          *)
(* characters of big, also when a match begins inside a failed one.        *)
(* ft_strrstr finds a string in the last len characters of another exactly *)
(* when the whole of it lies there; it never finds the empty string.       *)
(***************************************************************************)
FindsString ==
  call = NoCall =>
    \A p, q \in StringPtrs, len \in 0 .. Size :
      LET big == Str(mem, p) little == Str(mem, q)
          tail == SubSeq(big, Max({0, Len(big) - len}) + 1, Len(big))
      IN  /\ ft_strnstr(big, little, len) = LeastOf(Places(big, little, len))
          /\ ft_strrstr(big, little, len) <=>
               little # << >> /\ Places(tail, little, Len(tail)) # {}

(***************************************************************************)
(* As long as start + len + 1 is a size_t, ft_substr's block has room for  *)
(* the copy, and its result is the len characters from start, or all there *)
(* are; it is NULL exactly for a start at the end of a string that is not  *)
(* empty, with a len that is not 0.  Unless it is NULL, ft_strjoin puts it *)
(* back behind what ft_strndup takes from before it.                       *)
(***************************************************************************)
SubstrIsMiddle ==
  call = NoCall =>
    \A p \in StringPtrs, start \in 0 .. Size, len \in Lengths :
      LET s == Str(mem, p) cut == ft_substr(mem, p, start, len)
      IN  start + len < SIZE_MAX =>
            /\ start <= Len(s) => cut.stored <= cut.asked
            /\ cut.null <=> s # << >> /\ start = Len(s) /\ len > 0
            /\ cut.text = SubSeq(s, start + 1, Min({Len(s), start + len}))
            /\ ~cut.null /\ start + len >= Len(s) =>
                 ft_strjoin(ft_strndup(mem, p, start), cut.text) = s

Failures(words) == 0 .. Len(words) + 1

\* Every block is freed, once, and nothing else is.
FreedOnce(freed, blocks) ==
  /\ ToSet(freed) \ {NULL} = blocks
  /\ \A i, j \in DOMAIN freed : freed[i] = freed[j] /\ freed[i] # NULL => i = j

(***************************************************************************)
(* ft_split_str with no memory for the array or for some word returns NULL *)
(* and has freed each of the blocks it had once; otherwise it has the      *)
(* words, split at the separators a char can hold, and ft_free_two frees   *)
(* each of its blocks once.  The NULL behind the words lies in the array.  *)
(***************************************************************************)
SplitKeepsNothing ==
  call = NoCall =>
    \A p, set \in StringPtrs :
      LET words == ft_split(Str(mem, p), {c \in ToSet(Str(mem, set)) : c <= CHAR_MAX})
      IN  \A fails \in Failures(words) :
            LET split == ft_split_str(mem, p, set, fails)
            IN  /\ DOMAIN split.str \subseteq 0 .. split.room
                /\ IF fails <= Len(words)
                   THEN split.null /\ FreedOnce(split.freed, split.blocks)
                   ELSE split.words = words /\ FreedOnce(ft_free_two(split.str), split.blocks)

Leads == {<< >>, <<32, 9>>}
Trails == {<< >>, <<Minus>>, <<32, Code(1)>>}

(***************************************************************************)
(* ft_itoa and ft_putnbr_fd write the same text for every int.  Reading it *)
(* again, after blanks and before anything but a digit, gives the int back *)
(* - but for the least one, whose digits are no int: only                  *)
(* ft_atoi_longlong reads that.  A second sign makes it 0.                 *)
(* (None of this looks at mem: one memory is enough.)                      *)
(***************************************************************************)
NumbersComeBack ==
  call = NoCall /\ (\A a \in Addr : mem[a] = 0) =>
    \A n \in Ints, before \in Leads, after \in Trails :
      LET text == before \o ft_itoa(n) \o after
          read == ft_atoi(text)
      IN  /\ ft_putnbr_fd(n) = ft_itoa(n)
          /\ ft_atoi_longlong(text) = [value |-> n, defined |-> TRUE]
          /\ read.defined <=> n # -INT_MAX - 1
          /\ read.defined => read.value = n
          /\ \A sign \in {Plus, Minus} :
               LET signed == ft_atoi_longlong(before \o <<sign>> \o ft_itoa(n) \o after)
               IN  signed.value = IF n < 0 THEN 0 ELSE IF sign = Minus THEN -n ELSE n

=============================================================================
