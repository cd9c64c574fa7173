----------------------------- MODULE MCFtMalloc -----------------------------
(***************************************************************************)
(* Small instances of FtMalloc.                                            *)
(***************************************************************************)
EXTENDS FtMalloc

\* Every address is a pointer somebody may hand in.
AllPointers == Addr
\* With a one-byte header in aligned slots, every block starts at an odd
\* address; the others are interior pointers.
OddPointers == {a \in Addr : a % 2 = 1} \cup {NULL}
\* With a two-byte header at the beginning of a page of eight bytes, every
\* block starts at such an address; every other one is interior.
EntryPointers == {a \in Addr : a % 4 = 2} \cup {NULL}
AllPages == 1 .. (PAGES - 1)

=============================================================================
