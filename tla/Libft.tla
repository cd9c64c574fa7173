-------------------------------- MODULE Libft --------------------------------
(***************************************************************************)
(* The memory and string functions of libft, on a small memory in which    *)
(* any string may lie anywhere.                                            *)
(*                                                                         *)
(* The functions that store are actions; the others are operators, looked  *)
(* at in every memory between the calls.  A pointer is an address, a       *)
(* string ends at its first 0, and a function that allocates returns the   *)
(* string itself (there is always memory).                                 *)
(***************************************************************************)
EXTENDS Integers, Sequences, SequencesExt, FiniteSetsExt

CONSTANTS
  Size,    \* bytes of the memory
  Bytes,   \* values of a byte
  Lengths, \* numbers handed to ft_calloc
  SIZE_MAX \* greatest size_t

ASSUME LibftAssumption ==
  /\ Size \in Nat \ {0} /\ Bytes \subseteq Nat /\ 0 \in Bytes
  /\ SIZE_MAX \in Nat /\ Lengths \subseteq 0 .. SIZE_MAX

VARIABLES
  mem, \* the memory
  call \* the last call: function, arguments and what it returned

vars == <<mem, call>>

Addr == 0 .. Size - 1
NULL == -1
NoCall == [op |-> "none"]

Init == mem \in [Addr -> Bytes] /\ call = NoCall

IsString(p) == \E i \in p .. Size - 1 : mem[i] = 0
StringPtrs == {p \in Addr : IsString(p)}

ft_strlen(m, p) == Min({i \in 0 .. Size - 1 - p : m[p + i] = 0})

\* The string at p, as a sequence.
Str(m, p) == [i \in 1 .. ft_strlen(m, p) |-> m[p + i - 1]]
At(s, i) == IF i < Len(s) THEN s[i + 1] ELSE 0

-----------------------------------------------------------------------------
\* n bytes from src to dst, one after the other, the first or the last first.
Ascending(m, dst, src, n) ==
  LET copied[k \in Nat] ==
        IF k = 0 THEN m ELSE [copied[k - 1] EXCEPT ![dst + k - 1] = copied[k - 1][src + k - 1]]
  IN  copied[n]
Descending(m, dst, src, n) ==
  LET copied[k \in Nat] ==
        IF k = 0 THEN m ELSE [copied[k - 1] EXCEPT ![dst + n - k] = copied[k - 1][src + n - k]]
  IN  copied[n]

\* Bug variant: the order does not depend on the overlap.
ft_memmove_Ascending(m, dst, src, n) == Ascending(m, dst, src, n)

ft_memmove(m, dst, src, n) ==
  IF dst \in src .. src + n - 1 THEN Descending(m, dst, src, n) ELSE Ascending(m, dst, src, n)

\* Bug variant: the terminating 0 follows size characters.
Terminated_Late(m, dst, src, room) ==
  LET k == Min({ft_strlen(m, src), room + 1})
  IN  [Ascending(m, dst, src, k) EXCEPT ![dst + k] = 0]

\* As much of src as fits into room characters, and a terminating 0.
Terminated(m, dst, src, room) ==
  LET k == Min({ft_strlen(m, src), room})
  IN  [Ascending(m, dst, src, k) EXCEPT ![dst + k] = 0]

ft_strlcpy(m, dst, src, size) ==
  [m |-> IF size = 0 THEN m ELSE Terminated(m, dst, src, size - 1), ret |-> ft_strlen(m, src)]

\* Bug variant: the length copied is returned.
ft_strlcat_Copied(m, dst, src, size) ==
  LET len == ft_strlen(m, dst)
  IN  IF len >= size THEN [m |-> m, ret |-> size + ft_strlen(m, src)]
      ELSE [m |-> Terminated(m, dst + len, src, size - 1 - len),
            ret |-> Min({len + ft_strlen(m, src), size - 1})]

ft_strlcat(m, dst, src, size) ==
  LET len == ft_strlen(m, dst)
  IN  IF len >= size THEN [m |-> m, ret |-> size + ft_strlen(m, src)]
      ELSE [m |-> Terminated(m, dst + len, src, size - 1 - len), ret |-> len + ft_strlen(m, src)]

-----------------------------------------------------------------------------
\* Bug variant: the scan goes on after the mismatch.
ft_strnstr_Skips(big, little, len) ==
  LET from[p \in Nat \X Nat] ==
        IF At(big, p[1]) = At(little, p[2]) /\ p[1] < len
        THEN IF p[2] + 1 = Len(little) THEN p[1] - p[2] ELSE from[<<p[1] + 1, p[2] + 1>>]
        ELSE IF At(big, p[1]) # 0 /\ p[1] + 1 < len THEN from[<<p[1] + 1, 0>>] ELSE NULL
  IN  IF little = << >> THEN 0 ELSE IF big = << >> \/ len = 0 THEN NULL ELSE from[<<0, 0>>]

\* cnt1 runs along with cnt2 while they match, and is set back on a mismatch.
ft_strnstr(big, little, len) ==
  LET from[p \in {q \in Nat \X Nat : q[2] <= q[1]}] == \* p is <<cnt1, cnt2>>
        LET next == p[1] - p[2] + 1
        IN  IF At(big, p[1]) = At(little, p[2]) /\ p[1] < len
            THEN IF p[2] + 1 = Len(little) THEN p[1] - p[2] ELSE from[<<p[1] + 1, p[2] + 1>>]
            ELSE IF At(big, next) # 0 /\ next < len THEN from[<<next, 0>>] ELSE NULL
  IN  IF little = << >> THEN 0 ELSE IF big = << >> \/ len = 0 THEN NULL ELSE from[<<0, 0>>]

\* ft_strtrim's len1 and len2.  len2 walks down as long as it finds a byte of
\* the set, whatever memory that is; Below stands for the memory before mem.
Below == -2

\* Bug variant: the scan from the end stops one character early.
ft_strtrim_OneLeft(m, p, set) ==
  LET up[i \in Nat] == IF m[p + i] \in set THEN up[i + 1] ELSE i
      down[i \in Int] ==
        IF p + i < 0 THEN Below - p ELSE IF m[p + i] \in set THEN down[i - 1] ELSE i
      len2 == down[ft_strlen(m, p) - 2]
  IN  [len2 |-> len2, ret |-> SubSeq(Str(m, p), up[0] + 1, len2 + 1)]

ft_strtrim(m, p, set) ==
  LET up[i \in Nat] == IF m[p + i] \in set THEN up[i + 1] ELSE i
      down[i \in Int] ==
        IF p + i < 0 THEN Below - p ELSE IF m[p + i] \in set THEN down[i - 1] ELSE i
      len1 == up[0]
      len2 == down[ft_strlen(m, p) - 1]
  IN  [len2 |-> len2,
       ret |-> IF len2 < len1 THEN << >> ELSE SubSeq(Str(m, p), len1 + 1, len2 + 1)]

\* A word starts at the i-th character: ft_split saves it, up to the next
\* separator.
WordAt(s, c, i) == s[i] \notin c /\ (i = 1 \/ s[i - 1] \in c)

\* Bug variant: a word at the very beginning is not counted.
Counted_Later(s, c, i) == i # 1 /\ s[i] \notin c /\ s[i - 1] \in c

\* ft_wordcount, which makes room for the words, decides it by itself.
Counted(s, c, i) ==
  \/ i = 1 /\ s[i] \notin c
  \/ i # 1 /\ s[i] \notin c /\ s[i - 1] \in c
ft_wordcount(s, c) == Cardinality({i \in 1 .. Len(s) : Counted(s, c, i)})

ft_len(s, c, i) ==
  LET stops == {k \in i .. Len(s) : s[k] \in c}
  IN  IF stops = {} THEN Len(s) - i + 1 ELSE Min(stops) - i

ft_split(s, c) ==
  LET words[i \in Nat] ==
        IF i = 0 THEN << >>
        ELSE IF WordAt(s, c, i) THEN Append(words[i - 1], SubSeq(s, i, i + ft_len(s, c, i) - 1))
        ELSE words[i - 1]
  IN  words[Len(s)]

\* Bug variant: the product is not checked.
ft_calloc_Wraps(nmemb, size) == (nmemb * size) % (SIZE_MAX + 1)

\* The bytes ft_calloc asks malloc for, or NULL.
ft_calloc(nmemb, size) ==
  LET total == (nmemb * size) % (SIZE_MAX + 1)
  IN  IF nmemb = 0 \/ size = 0 THEN 0
      ELSE IF total # 0 /\ total \div nmemb # size THEN NULL
      ELSE total

-----------------------------------------------------------------------------
\* The calls.  The buffers are in memory, and those of ft_strlcpy and
\* ft_strlcat do not overlap, as their callers must see to.
Move(dst, src, n) ==
  /\ dst + n <= Size /\ src + n <= Size
  /\ mem' = ft_memmove(mem, dst, src, n)
  /\ call' = [op |-> "ft_memmove", dst |-> dst, src |-> src, n |-> n, ret |-> dst]

ft_memset(s, c, n) ==
  /\ s + n <= Size
  /\ mem' = [i \in Addr |-> IF i \in s .. s + n - 1 THEN c ELSE mem[i]]
  /\ call' = [op |-> "ft_memset", dst |-> s, src |-> c, n |-> n, ret |-> s]

Apart(dst, size, src) ==
  /\ dst + size <= Size
  /\ dst .. dst + size - 1 \cap src .. src + ft_strlen(mem, src) = {}

Copy(dst, src, size) ==
  /\ src \in StringPtrs /\ Apart(dst, size, src)
  /\ LET r == ft_strlcpy(mem, dst, src, size)
     IN  /\ mem' = r.m
         /\ call' = [op |-> "ft_strlcpy", dst |-> dst, src |-> src, n |-> size, ret |-> r.ret]

Concatenate(dst, src, size) ==
  /\ src \in StringPtrs /\ dst \in StringPtrs /\ Apart(dst, size, src)
  /\ LET r == ft_strlcat(mem, dst, src, size)
     IN  /\ mem' = r.m
         /\ call' = [op |-> "ft_strlcat", dst |-> dst, src |-> src, n |-> size, ret |-> r.ret]

Done == call # NoCall /\ call' = NoCall /\ UNCHANGED mem

Next ==
  \/ /\ call = NoCall
     /\ \E dst \in Addr, n \in 0 .. Size :
          \/ \E c \in Bytes : ft_memset(dst, c, n)
          \/ \E src \in Addr : Move(dst, src, n) \/ Copy(dst, src, n) \/ Concatenate(dst, src, n)
  \/ Done

Spec == Init /\ [][Next]_vars

-----------------------------------------------------------------------------
(***************************************************************************)
(* ft_memmove gives dst the bytes src had before, however they overlap,    *)
(* and changes nothing else.                                               *)
(***************************************************************************)
MoveIsCopy ==
  [][call'.op = "ft_memmove" =>
       mem' = [i \in Addr |-> IF i \in call'.dst .. call'.dst + call'.n - 1
                              THEN mem[call'.src + (i - call'.dst)] ELSE mem[i]]]_vars

(***************************************************************************)
(* ft_strlcpy and ft_strlcat store nothing outside the buffer, and leave   *)
(* in it a string: what was there, for ft_strlcat, and as much of src as   *)
(* the buffer holds.                                                       *)
(***************************************************************************)
StaysInBuffer ==
  [][call'.op \in {"ft_strlcpy", "ft_strlcat"} =>
       LET before == IF call'.op = "ft_strlcpy" THEN << >> ELSE Str(mem, call'.dst)
           whole == before \o Str(mem, call'.src)
       IN  /\ \A i \in Addr \ (call'.dst .. call'.dst + call'.n - 1) : mem'[i] = mem[i]
           /\ call'.n > Len(before) =>
                Str(mem', call'.dst) = SubSeq(whole, 1, Min({Len(whole), call'.n - 1}))]_vars

(***************************************************************************)
(* The length returned is at least the size exactly when not all of the    *)
(* result is in the buffer: callers find truncation out by this.           *)
(***************************************************************************)
TruncationShows ==
  [][call'.op \in {"ft_strlcpy", "ft_strlcat"} =>
       (call'.ret < call'.n <=>
          /\ call'.n > 0
          /\ call'.op = "ft_strlcat" => ft_strlen(mem, call'.dst) < call'.n
          /\ Len(Str(mem', call'.dst)) =
               ft_strlen(mem, call'.src)
                 + (IF call'.op = "ft_strlcat" THEN ft_strlen(mem, call'.dst) ELSE 0))]_vars

\* The places of little in the first len characters of big.
Places(big, little, len) ==
  {i \in 0 .. Min({Len(big), len}) - Len(little) :
     SubSeq(big, i + 1, i + Len(little)) = little}

Sets == SUBSET (Bytes \ {0})

\* What is left of s without the characters of c.
Without(s, c) ==
  LET kept[i \in Nat] ==
        IF i = 0 THEN << >> ELSE IF s[i] \in c THEN kept[i - 1] ELSE Append(kept[i - 1], s[i])
  IN  kept[Len(s)]

(***************************************************************************)
(* ft_strtrim cuts the set's characters off both ends and no others, and   *)
(* looks at memory before the string only when all of the string is to be  *)
(* cut off (the code does so then).                                        *)
(***************************************************************************)
TrimsBothEnds ==
  call = NoCall =>
    \A p \in StringPtrs, set \in Sets :
      LET s == Str(mem, p) trimmed == ft_strtrim(mem, p, set)
          kept == {i \in 1 .. Len(s) : s[i] \notin set}
      IN  IF kept = {} THEN trimmed.ret = << >>
          ELSE trimmed.len2 >= 0 /\ trimmed.ret = SubSeq(s, Min(kept), Max(kept))

(***************************************************************************)
(* ft_split stores as many words as ft_wordcount made room for; no word is *)
(* empty or has a separator, no other character is lost or moved, and two  *)
(* neighbours that are no separators stay in one word.                     *)
(***************************************************************************)
SplitsAtSeparators ==
  call = NoCall =>
    \A p \in StringPtrs, c \in Sets :
      LET s == Str(mem, p) words == ft_split(s, c)
          together == {i \in 1 .. Len(s) - 1 : s[i] \notin c /\ s[i + 1] \notin c}
      IN  /\ Len(words) = ft_wordcount(s, c)
          /\ \A w \in ToSet(words) : w # << >> /\ ToSet(w) \cap c = {}
          /\ FlattenSeq(words) = Without(s, c)
          /\ Cardinality(together) = Len(FlattenSeq(words)) - Len(words)

(***************************************************************************)
(* What ft_calloc asks for is the whole product, unless the product wraps  *)
(* around to exactly 0: its check lets that one through.                   *)
(***************************************************************************)
CallocIsWhole ==
  call = NoCall =>
    \A nmemb, size \in Lengths :
      LET asked == ft_calloc(nmemb, size)
      IN  asked # NULL => asked = nmemb * size \/ (asked = 0 /\ nmemb * size > SIZE_MAX)

=============================================================================
