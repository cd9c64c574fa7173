---------------------------- MODULE MCGetNextLine ----------------------------
(***************************************************************************)
(* A small instance of GetNextLine.                                        *)
(***************************************************************************)
EXTENDS GetNextLine

CONSTANTS f1, f2, a

TwoFds == {f1, f2}
TwoChars == {a, NL}

\* The second descriptor is there to be read in between.
SomeTexts == [fd \in TwoFds |-> BoundedSeq(TwoChars, IF fd = f1 THEN 4 ELSE 2)]

=============================================================================
