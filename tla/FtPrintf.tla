------------------------------ MODULE FtPrintf ------------------------------
(***************************************************************************)
(* ft_printf and ft_fprintf: the loop over the format, the conversions,    *)
(* and the write calls they make.                                          *)
(*                                                                         *)
(* The two are the same code, with the descriptor 1 or the one given, so   *)
(* fd is a variable and both are the same actions.  Every write is a step: *)
(* it writes its bytes, fewer of them, or fails.  An argument is chosen    *)
(* when va_arg reads it, among values of the type the conversion asks for. *)
(* A character is a one-letter string, and a string ends where its         *)
(* sequence does.                                                          *)
(***************************************************************************)
EXTENDS Integers, Sequences, SequencesExt

CONSTANTS
  NULL,      \* the null pointer
  Formats,   \* formats the program passes (sequences of characters)
  Ints,      \* values of an int
  UInts,     \* values of an unsigned int
  Addresses, \* values of a pointer, as numbers
  Strings,   \* strings
  INT_MIN, INT_MAX,
  MaxFaults  \* writes that fail or come short (the bound on a run)

ASSUME PrintfAssumption ==
  /\ INT_MIN \in Int /\ INT_MAX \in Nat /\ INT_MIN = -INT_MAX - 1
  /\ Ints \subseteq INT_MIN .. INT_MAX /\ UInts \subseteq 0 .. 2 * INT_MAX + 1
  /\ Addresses \subseteq Nat /\ MaxFaults \in Nat
  /\ Strings \subseteq Seq(STRING) /\ Formats \subseteq Seq(STRING \ {"NUL"})
  /\ NULL \notin Strings \union Formats \union {<< >>}

VARIABLES
  pc,      \* "idle", "loop" (ft_callstr) or "writing" (inside a conversion)
  fd,      \* the descriptor of the call
  fmt,     \* its format
  str,     \* the index of the next character of it
  pending, \* the writes the conversion has still to make
  flag,    \* what the conversion's writes returned, added up
  cnt2,    \* what the conversions before it returned, added up
  reply,   \* what the last call returned
  items,   \* the conversions begun, with their arguments (history)
  out,     \* the bytes written, each with its descriptor (history)
  faults   \* [failed, short]: writes of the call that did so (history)

vars == <<pc, fd, fmt, str, pending, flag, cnt2, reply, items, out, faults>>

NoFaults == [failed |-> 0, short |-> 0]

Init ==
  /\ pc = "idle" /\ fd = 1 /\ fmt = << >> /\ str = 1
  /\ pending = << >> /\ flag = 0 /\ cnt2 = 0 /\ reply = 0
  /\ items = << >> /\ out = << >> /\ faults = NoFaults

-----------------------------------------------------------------------------
Lower == <<"0", "1", "2", "3", "4", "5", "6", "7", "8", "9", "a", "b", "c", "d", "e", "f">>
Upper == <<"0", "1", "2", "3", "4", "5", "6", "7", "8", "9", "A", "B", "C", "D", "E", "F">>

Spell(digits, table) == [i \in 1 .. Len(digits) |-> table[digits[i] + 1]]

\* Bug variant: no digit when the quotient is gone, 0 included.
Decimal_NoZero(n) ==
  LET f[k \in Nat] == IF k = 0 THEN << >> ELSE Append(f[k \div 10], k % 10)
  IN  f[n]

\* The divisor grows by 10 until one digit is left, and shrinks again.
Decimal(n) ==
  LET grow[div \in Nat] == IF n \div div > 9 THEN grow[div * 10] ELSE div
      digits[p \in Nat \X Nat] ==
        IF p[2] = 0 THEN << >>
        ELSE <<p[1] \div p[2]>> \o digits[<<p[1] % p[2], p[2] \div 10>>]
  IN  digits[<<n, grow[1]>>]

\* hex[], filled from its end.
HexDigits(n) ==
  LET hex[k \in Nat] == IF k = 0 THEN << >> ELSE Append(hex[k \div 16], k % 16)
  IN  hex[n]

\* One write of the bytes text to the descriptor d; one for each byte.
Whole(d, text) == <<[fd |-> d, text |-> text]>>
Single(d, text) == [i \in 1 .. Len(text) |-> [fd |-> d, text |-> <<text[i]>>]]

Table(conv) == IF conv \in {"X", "P"} THEN Upper ELSE Lower

\* ft_fputnbr writes the sign to the descriptor 1, whichever it was given.
ft_fputnbr(n) ==
  (IF n < 0 THEN Whole(1, <<"-">>) ELSE << >>)
    \o Single(fd, Spell(Decimal(IF n < 0 THEN -n ELSE n), Lower))

ft_fputstr(s) ==
  IF s = NULL THEN Whole(fd, <<"(", "n", "u", "l", "l", ")">>) ELSE Single(fd, s)

ft_fputnbr_un(n) == Single(fd, Spell(Decimal(n), Lower))

\* The upper-case functions differ in the table only.
ft_fputaddress(address, table) ==
  IF address = 0 THEN Whole(fd, <<"(", "n", "i", "l", ")">>)
  ELSE Whole(fd, <<"0", "x">>) \o Whole(fd, Spell(HexDigits(address), table))

ft_fput_hex(n, table) == Whole(fd, IF n = 0 THEN <<"0">> ELSE Spell(HexDigits(n), table))

\* The writes of a conversion.
Writes(conv, arg) ==
  CASE conv = "c" -> Whole(fd, <<arg>>)
    [] conv = "s" -> ft_fputstr(arg)
    [] conv \in {"p", "P"} -> ft_fputaddress(arg, Table(conv))
    [] conv \in {"d", "i"} -> ft_fputnbr(arg)
    [] conv = "u" -> ft_fputnbr_un(arg)
    [] conv \in {"x", "X"} -> ft_fput_hex(arg, Table(conv))
    [] conv = "%" -> Whole(fd, <<"%">>)

\* The values va_arg can read for a conversion; none is read for "%%".
Arguments(conv) ==
  CASE conv = "c" -> {"c"}
    [] conv = "s" -> Strings \union {NULL}
    [] conv \in {"p", "P"} -> Addresses
    [] conv \in {"d", "i"} -> Ints
    [] conv = "%" -> {NULL}
    [] OTHER -> UInts

Conversions == {"c", "s", "p", "P", "d", "i", "u", "x", "X", "%"}

\* *str, which is the terminating NUL after the last character.
At(i) == IF i <= Len(fmt) THEN fmt[i] ELSE "NUL"

-----------------------------------------------------------------------------
Return(n) == pc' = "idle" /\ reply' = n

\* A call: an empty write tells whether the descriptor is open.
ft_fprintf ==
  /\ pc = "idle"
  /\ fd' \in {1, 2} /\ fmt' \in Formats \union {NULL}
  /\ str' = 1 /\ pending' = << >> /\ flag' = 0 /\ cnt2' = 0
  /\ items' = << >> /\ out' = << >>
  /\ \/ fmt' # NULL /\ pc' = "loop" /\ faults' = NoFaults /\ UNCHANGED reply
     \/ fmt' = NULL /\ Return(-1) /\ faults' = NoFaults
     \/ Return(-1) /\ faults' = [NoFaults EXCEPT !.failed = 1]

\* The loop of ft_fcallstr reads a character, and ft_ftype the one after "%".
ft_ftype(conv, arg) ==
  /\ items' = Append(items, [conv |-> conv, arg |-> arg])
  /\ pending' = Writes(conv, arg)
  /\ flag' = 0

ft_fcallstr ==
  /\ pc = "loop"
  /\ \/ /\ At(str) = "NUL" \/ cnt2 = -1
        /\ Return(cnt2)
        /\ UNCHANGED <<str, pending, flag, items>>
     \/ /\ At(str) # "NUL" /\ cnt2 # -1
        /\ pc' = "writing"
        /\ UNCHANGED reply
        /\ \/ /\ At(str) # "%"
              /\ items' = Append(items, [conv |-> "literal", arg |-> At(str)])
              /\ pending' = Whole(fd, <<At(str)>>)
              /\ flag' = 0
              /\ str' = str + 1
           \/ /\ At(str) = "%" /\ At(str + 1) \in Conversions
              /\ \E arg \in Arguments(At(str + 1)) : ft_ftype(At(str + 1), arg)
              /\ str' = str + 2
           \/ /\ At(str) = "%" /\ At(str + 1) \notin Conversions
              /\ flag' = -1
              /\ str' = str + 2
              /\ UNCHANGED <<pending, items>>
  /\ UNCHANGED <<fd, fmt, cnt2, out, faults>>

Written(n) ==
  out' = out \o [i \in 1 .. n |-> [fd |-> Head(pending).fd, ch |-> Head(pending).text[i]]]

\* Bug variant: a write counts its whole length.
write_Length ==
  /\ pc = "writing" /\ pending # << >>
  /\ pending' = Tail(pending)
  /\ flag' = flag + Len(Head(pending).text)
  /\ \/ Written(Len(Head(pending).text)) /\ UNCHANGED faults
     \/ /\ faults.failed + faults.short < MaxFaults
        /\ \E n \in 1 .. Len(Head(pending).text) - 1 : Written(n)
        /\ faults' = [faults EXCEPT !.short = @ + 1]
  /\ UNCHANGED <<pc, fd, fmt, str, cnt2, reply, items>>

\* One write of the conversion.
write ==
  /\ pc = "writing" /\ pending # << >>
  /\ pending' = Tail(pending)
  /\ LET all == Len(Head(pending).text)
     IN  \/ Written(all) /\ flag' = flag + all /\ UNCHANGED faults
         \/ /\ faults.failed + faults.short < MaxFaults
            /\ flag' = flag - 1
            /\ faults' = [faults EXCEPT !.failed = @ + 1]
            /\ UNCHANGED out
         \/ /\ faults.failed + faults.short < MaxFaults
            /\ \E n \in 1 .. all - 1 : Written(n) /\ flag' = flag + n
            /\ faults' = [faults EXCEPT !.short = @ + 1]
  /\ UNCHANGED <<pc, fd, fmt, str, cnt2, reply, items>>

\* Bug variant: -1 is added like any other count.
Added_NoReturn ==
  /\ pc = "writing" /\ pending = << >>
  /\ cnt2' = cnt2 + flag
  /\ pc' = "loop"
  /\ UNCHANGED <<fd, fmt, str, pending, flag, reply, items, out, faults>>

\* Bug variant: an empty string ends the call.
Added_Empty ==
  /\ pc = "writing" /\ pending = << >>
  /\ cnt2' = cnt2 + flag
  /\ IF flag <= 0 THEN Return(-1) ELSE pc' = "loop" /\ UNCHANGED reply
  /\ UNCHANGED <<fd, fmt, str, pending, flag, items, out, faults>>

\* After a conversion; a count of -1 ends the call.
Added ==
  /\ pc = "writing" /\ pending = << >>
  /\ cnt2' = cnt2 + flag
  /\ IF flag = -1 THEN Return(-1) ELSE pc' = "loop" /\ UNCHANGED reply
  /\ UNCHANGED <<fd, fmt, str, pending, flag, items, out, faults>>

Next == ft_fprintf \/ ft_fcallstr \/ write \/ Added

Spec == Init /\ [][Next]_vars

-----------------------------------------------------------------------------
\* The numeral of n: its digits by their positions, without a leading zero.
Numeral(n, base) ==
  LET power[i \in Nat] == IF i = 0 THEN 1 ELSE base * power[i - 1]
      k == CHOOSE k \in 1 .. n + 1 : n < power[k] /\ (k = 1 \/ n >= power[k - 1])
  IN  [i \in 1 .. k |-> (n \div power[k - i]) % base]

\* What a conversion means.
Meaning(item) ==
  CASE item.conv \in {"d", "i", "u"} ->
         LET n == item.arg
         IN  (IF n < 0 THEN <<"-">> ELSE << >>) \o Spell(Numeral(IF n < 0 THEN -n ELSE n, 10), Lower)
    [] item.conv \in {"x", "X"} -> Spell(Numeral(item.arg, 16), Table(item.conv))
    [] item.conv \in {"p", "P"} ->
         IF item.arg = 0 THEN <<"(", "n", "i", "l", ")">>
         ELSE <<"0", "x">> \o Spell(Numeral(item.arg, 16), Table(item.conv))
    [] item.conv = "s" -> IF item.arg = NULL THEN <<"(", "n", "u", "l", "l", ")">> ELSE item.arg
    [] item.conv = "%" -> <<"%">>
    [] OTHER -> <<item.arg>>

(***************************************************************************)
(* When every write succeeds, what was written and what the conversion at  *)
(* hand will write are the meaning of the conversions begun, in their      *)
(* order.  The least int and 0 are where the number loops could fail.      *)
(* Failing writes or not, every byte goes to the descriptor of the call,   *)
(* but for the sign of a number, which ft_fputnbr sends to descriptor 1.   *)
(***************************************************************************)
Rendered ==
  /\ faults = NoFaults =>
       [i \in 1 .. Len(out) |-> out[i].ch]
         \o FlattenSeq([i \in 1 .. Len(pending) |-> pending[i].text])
       = FlattenSeq([i \in 1 .. Len(items) |-> Meaning(items[i])])
  /\ \A i \in 1 .. Len(out) : out[i].fd # fd => out[i].fd = 1 /\ out[i].ch = "-"

(***************************************************************************)
(* What a call returns, when not -1, is the number of bytes written, less  *)
(* one for every write that failed: a failed write inside a conversion of  *)
(* several writes goes unnoticed, but no byte is counted that was not      *)
(* written, also when writes come short.                                   *)
(***************************************************************************)
ReplyCounts == pc = "idle" /\ reply # -1 => reply = Len(out) - faults.failed

\* The format has a conversion nobody knows; "%%" is one that is known.
Unknown(f) ==
  \E i \in 1 .. Len(f) :
    /\ \E j \in 1 .. i : /\ \A k \in j .. i : f[k] = "%"
                         /\ j = 1 \/ f[j - 1] # "%"
                         /\ (i - j) % 2 = 0
    /\ i = Len(f) \/ f[i + 1] \notin Conversions

(***************************************************************************)
(* Without failing writes a call returns -1 exactly when the format is     *)
(* NULL or has an unknown conversion (a "%" at its end is one): printing   *)
(* nothing, or a short count, is no error.                                 *)
(***************************************************************************)
MinusOneMeansError ==
  pc = "idle" /\ faults.failed = 0 =>
    (reply = -1 <=> fmt = NULL \/ Unknown(fmt))

(***************************************************************************)
(* The format is never read beyond its terminating NUL, though a "%" at    *)
(* the end takes str one past it.                                          *)
(***************************************************************************)
StaysInString == pc = "loop" => str <= Len(fmt) + 1
=============================================================================
