----------------------------- MODULE GetNextLine -----------------------------
(***************************************************************************)
(* get_next_line of libft: a call returns the next line of a descriptor,   *)
(* reading at most BUFFER_SIZE bytes at a time and keeping what it read    *)
(* beyond the line in a static buffer for the next call.                   *)
(*                                                                         *)
(* libft has it twice.  get_next_line.c has one buffer for all             *)
(* descriptors and always reads before it looks; get_next_line_bonus.c has *)
(* a buffer for each descriptor and looks first.  The variable bonus says  *)
(* which of the two runs.                                                  *)
(*                                                                         *)
(* Every read is a step: the bytes come in pieces of any length, and any   *)
(* read may fail, as may any malloc.  Not all results of malloc are        *)
(* tested: then the process dies of a NULL pointer.  The strings are C     *)
(* strings, so the texts have no NUL.                                      *)
(***************************************************************************)
EXTENDS Integers, Sequences, SequencesExt

CONSTANTS
  Fds,         \* descriptors the client reads lines from
  OnlyFd,      \* the one it reads when there is one buffer for all of them
  BUFFER_SIZE,
  Chars,       \* characters of the texts; NL is one of them
  NL,          \* the newline character
  Texts        \* per descriptor: the texts it may have (the bound on a run)

ASSUME StreamAssumption ==
  /\ OnlyFd \in Fds /\ BUFFER_SIZE \in Nat \ {0} /\ NL \in Chars
  /\ DOMAIN Texts = Fds /\ \A fd \in Fds : Texts[fd] \subseteq Seq(Chars) /\ << >> \in Texts[fd]

VARIABLES
  bonus,   \* which version runs
  rest,    \* per descriptor: the text that was not read yet
  backup,  \* per descriptor: the text kept for the next call (NULL is << >>)
  reading, \* the descriptor of the call that is reading, or NoFd
  text,    \* per descriptor: the whole text, as it was at the start
  lines,   \* per descriptor: the lines returned
  reply,   \* the last call: its descriptor, whether it got NULL, its last read
  denied,  \* TRUE once a malloc has failed
  crashed  \* TRUE once the process has died

vars == <<bonus, rest, backup, reading, text, lines, reply, denied, crashed>>

NoFd == "no descriptor"
Readable == IF bonus THEN Fds ELSE {OnlyFd}

Init ==
  /\ bonus \in BOOLEAN
  /\ text \in {f \in [Fds -> UNION {Texts[fd] : fd \in Fds}] :
                \A fd \in Fds : f[fd] \in IF fd \in Readable THEN Texts[fd] ELSE {<< >>}}
  /\ rest = text
  /\ backup = [fd \in Fds |-> << >>]
  /\ reading = NoFd
  /\ lines = [fd \in Fds |-> << >>]
  /\ reply = [fd |-> OnlyFd, null |-> FALSE, re_frf |-> 0]
  /\ denied = FALSE /\ crashed = FALSE

-----------------------------------------------------------------------------
Newlines(str) == {i \in 1 .. Len(str) : str[i] = NL}

\* Bug variant: the end of the text ends no line.
ft_new_line_NoEnd(str, read_len) ==
  IF Newlines(str) # {} THEN Max({1, Min(Newlines(str)) - 1}) ELSE 0

\* The index of the first newline, but 1 also for index 0; without a newline
\* the length if the last read met the end, and else 0: read on.
ft_new_line(str, read_len) ==
  IF Newlines(str) # {} THEN Max({1, Min(Newlines(str)) - 1})
  ELSE IF read_len = 0 THEN Len(str) ELSE 0

\* Bug variant: the bonus version tests what the plain version does.
LineEnd_Plain(str, re_frf) ==
  LET i == ft_new_line(str, re_frf)
  IN  IF i = 1 /\ (str[1] = NL \/ re_frf = 0) THEN 0 ELSE i

\* ft_get_head's index of the last character of the line.
LineEnd(str, re_frf) ==
  LET i == ft_new_line(str, re_frf)
      alone == IF bonus THEN Len(str) = 1 ELSE str[1] # NL
  IN  IF i = 1 /\ (str[1] = NL \/ (re_frf = 0 /\ alone)) THEN 0 ELSE i

\* Bug variant: ft_gnl_substr starts one character late.
Kept_Late(str, end) == SubSeq(str, end + 3, Len(str))

\* ft_gnl_strdup(backup, end + 1) and ft_gnl_substr(backup, end + 1).
Line(str, end) == SubSeq(str, 1, Min({end + 1, Len(str)}))
Kept(str, end) == SubSeq(str, end + 2, Len(str))

\* Bug variant: the last line is dropped with the end of the file.
NothingLeft_AnyText(str, re_frf) == re_frf <= 0

NothingLeft(str, re_frf) == re_frf <= 0 /\ str = << >>

\* A NULL pointer is followed.
Crash ==
  /\ denied' = TRUE /\ crashed' = TRUE /\ reading' = NoFd
  /\ UNCHANGED <<backup, lines, reply>>

Replied(fd, null, re_frf) ==
  reading' = NoFd /\ reply' = [fd |-> fd, null |-> null, re_frf |-> re_frf] /\ UNCHANGED crashed

\* ft_get_head takes a line off str; without memory for it the line is gone.
Returned(fd, str, re_frf) ==
  /\ Replied(fd, FALSE, re_frf)
  /\ lines' = [lines EXCEPT ![fd] = Append(@, Line(str, LineEnd(str, re_frf)))]
  /\ backup' = [backup EXCEPT ![fd] = Kept(str, LineEnd(str, re_frf))]
Headless(fd, str, re_frf) ==
  /\ Replied(fd, TRUE, re_frf)
  /\ backup' = [backup EXCEPT ![fd] = Kept(str, LineEnd(str, re_frf))]
  /\ UNCHANGED lines

\* What get_next_line does with the text str after the reads.  The text to
\* keep is stored without a test: without memory for it, Crash.
Finish(fd, str, re_frf) ==
  IF NothingLeft(str, re_frf)
  THEN /\ Replied(fd, TRUE, re_frf)
       /\ backup' = [backup EXCEPT ![fd] = << >>]
       /\ UNCHANGED <<lines, denied>>
  ELSE \/ Returned(fd, str, re_frf) /\ UNCHANGED denied
       \/ Headless(fd, str, re_frf) /\ denied' = TRUE
       \/ Crash

\* ft_read_file gets no memory for its buffer and returns 0, as at the end.
NoBuffer(fd) ==
  \/ /\ backup[fd] # << >> /\ denied' = TRUE
     /\ Returned(fd, backup[fd], 0) \/ Headless(fd, backup[fd], 0)
  \/ Crash

\* A call.  The bonus version returns a line it has without reading.
get_next_line(fd) ==
  /\ reading = NoFd /\ ~crashed
  /\ IF bonus /\ ft_new_line(backup[fd], 10) # 0
     THEN Finish(fd, backup[fd], 0)
     ELSE \/ reading' = fd /\ UNCHANGED <<backup, lines, reply, denied, crashed>>
          \/ NoBuffer(fd)
  /\ UNCHANGED <<bonus, rest, text>>

\* ft_read_file stops when there is a line, or when its first read, into an
\* empty buffer, brought nothing.
ReadOn(fd, str, read_len) ==
  /\ ft_new_line(str, read_len) = 0
  /\ ~(backup[fd] = << >> /\ read_len <= 0)

\* Bug variant: the plain version tests for NULL too, and goes on.
Unjoined_Tested(fd) ==
  IF backup[fd] # << >>
  THEN /\ denied' = TRUE
       /\ backup' = [backup EXCEPT ![fd] = << >>]
       /\ UNCHANGED <<reading, lines, reply, crashed>>
  ELSE Crash

\* No memory to add the bytes read to the text.  The plain version looks for
\* a newline in NULL.  The bonus version tests for it, but goes on without
\* the text it had; it follows NULL only when it had none.
Unjoined(fd) ==
  IF bonus /\ backup[fd] # << >>
  THEN /\ denied' = TRUE
       /\ backup' = [backup EXCEPT ![fd] = << >>]
       /\ UNCHANGED <<reading, lines, reply, crashed>>
  ELSE Crash

\* One read of ft_read_file returned read_len, with the bytes buf.
Received(fd, buf, read_len) ==
  LET str == backup[fd] \o buf
  IN  \/ IF ReadOn(fd, str, read_len)
         THEN /\ backup' = [backup EXCEPT ![fd] = str]
              /\ UNCHANGED <<reading, lines, reply, denied, crashed>>
         ELSE Finish(fd, str, read_len)
      \/ Unjoined(fd)

ft_read_sub(fd) ==
  /\ reading = fd
  /\ \/ \E n \in 1 .. Min({BUFFER_SIZE, Len(rest[fd])}) :
          /\ Received(fd, SubSeq(rest[fd], 1, n), n)
          /\ rest' = [rest EXCEPT ![fd] = SubSeq(@, n + 1, Len(@))]
     \/ rest[fd] = << >> /\ Received(fd, << >>, 0) /\ UNCHANGED rest
     \/ Received(fd, << >>, -1) /\ UNCHANGED rest
  /\ UNCHANGED <<bonus, text>>

Dead == crashed /\ UNCHANGED vars

Next == (\E fd \in Readable : get_next_line(fd) \/ ft_read_sub(fd)) \/ Dead

\* A read after which the call has had the memory it wanted.
Served(fd) == ft_read_sub(fd) /\ UNCHANGED <<denied, crashed>>

\* A call that has begun goes on reading, and nothing makes memory end.  A
\* failed read with text kept changes nothing, so this also says that the
\* reads do not fail for ever.
Spec == Init /\ [][Next]_vars /\ \A fd \in Fds : WF_vars(Served(fd))

-----------------------------------------------------------------------------
Whole(fd) == FlattenSeq(lines[fd]) \o backup[fd] \o rest[fd]

(***************************************************************************)
(* No byte is lost, repeated or moved: the lines returned, the text kept   *)
(* for the next call and the text not read yet are the whole text, in this *)
(* order, however the bytes came and whichever reads failed, as long as    *)
(* there is memory.                                                        *)
(***************************************************************************)
NothingLost == ~denied => \A fd \in Fds : Whole(fd) = text[fd]

(***************************************************************************)
(* Without memory a call loses text only by dying or by returning NULL     *)
(* itself: no later line is put together over a gap the caller was not     *)
(* told of.  The bonus version has one more way: in the middle of a call   *)
(* it drops what it has of the line, and reads on (Unjoined).              *)
(***************************************************************************)
LossIsTold ==
  [][\A fd \in Fds : Whole(fd)' # Whole(fd) =>
       \/ crashed'
       \/ reading' = NoFd /\ reply'.fd = fd /\ reply'.null
       \/ bonus /\ reading' = fd /\ backup'[fd] = << >>]_vars

\* The text after the k-th line.
After(fd, k) == FlattenSeq(SubSeq(lines[fd], k + 1, Len(lines[fd]))) \o backup[fd] \o rest[fd]

(***************************************************************************)
(* Both versions return exactly the lines: each ends with the first        *)
(* newline in it, and only the last line of the text may have none, or one *)
(* cut short because there was no memory - except that the plain version   *)
(* returns a line of one character at the end of the file in two pieces:   *)
(* the character, and then its newline.                                    *)
(***************************************************************************)
LinesOrSplit ==
  \A fd \in Fds : \A k \in 1 .. Len(lines[fd]) :
    LET line == lines[fd][k]
    IN  /\ line # << >>
        /\ Newlines(line) \subseteq {Len(line)}
        /\ Newlines(line) = {} /\ After(fd, k) # << >> =>
             denied \/ (~bonus /\ Len(line) = 1 /\ After(fd, k)[1] = NL /\ rest[fd] = << >>)

(***************************************************************************)
(* NULL means that a read failed, that there was no memory, or that the    *)
(* whole text was returned.                                                *)
(***************************************************************************)
NullMeansEnd ==
  reply.null /\ reply.re_frf >= 0 /\ ~denied => FlattenSeq(lines[reply.fd]) = text[reply.fd]

(***************************************************************************)
(* A call returns once the reads stop failing, at the end of a text        *)
(* without a newline too.                                                  *)
(***************************************************************************)
CallReturns == \A fd \in Fds : reading = fd ~> reading = NoFd

=============================================================================
