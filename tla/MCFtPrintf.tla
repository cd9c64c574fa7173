----------------------------- MODULE MCFtPrintf -----------------------------
(* Values for the constants of FtPrintf: ints of 8 bits, pointers of 16. *)
EXTENDS FtPrintf

ShortFormats == BoundedSeq({"%", "d", "u", "x", "p", "s", "z"}, 3)
LongFormats == {<<"%", "d", "%", "X">>, <<"%", "s", "%", "d">>, <<"%", "P", "%", "c">>, <<"%", "%", "%", "s">>,
                <<"%", "d", "%", "z">>, <<"%", "s", "%", "%">>}
AllFormats == ShortFormats \union LongFormats

SomeInts == {-128, -127, -10, -9, 0, 9, 10, 99, 100, 127}
SomeUInts == {0, 9, 10, 15, 16, 100, 255}
SomeAddresses == {0, 1, 16, 255, 4096, 65535}
SomeStrings == {<< >>, <<"a">>, <<"a", "b">>}
Least == -128
=============================================================================
