-------------------------- MODULE MCFtMallocThreads --------------------------
(***************************************************************************)
(* Small instances of FtMallocThreads.                                     *)
(***************************************************************************)
EXTENDS FtMallocThreads, TLC

CONSTANTS t1, t2

TwoThreads == {t1, t2}
AnyOrder == Permutations(TwoThreads)

=============================================================================
