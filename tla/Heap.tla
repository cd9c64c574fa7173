-------------------------------- MODULE Heap ---------------------------------
(***************************************************************************)
(* What an allocator promises, and nothing of how it keeps the promise:    *)
(* a set of blocks that do not share a byte, the data in them, and calls   *)
(* that each touch one block.  FtMalloc implements it.                     *)
(***************************************************************************)
EXTENDS Integers

CONSTANTS Addr, Values

VARIABLES
  blocks, \* the live blocks: first address |-> length
  bytes   \* the data at each address; outside the live blocks it is arbitrary

heapVars == <<blocks, bytes>>

Extent(p, n) == p .. (p + n - 1)
Covered(b) == UNION {Extent(p, b[p]) : p \in DOMAIN b}

\* The blocks b keep their data.
Keeps(b) == \A a \in Covered(b) : bytes'[a] = bytes[a]

HeapInit == blocks = << >> /\ bytes \in [Addr -> Values]

\* A new block in unused memory.
Grant ==
  \E p \in DOMAIN blocks' \ DOMAIN blocks :
    \E b \in {blocks'} :
      /\ b[p] > 0 /\ Extent(p, b[p]) \subseteq Addr
      /\ Extent(p, b[p]) \cap Covered(blocks) = {}
      /\ b = [q \in DOMAIN blocks \cup {p} |-> IF q = p THEN b[p] ELSE blocks[q]]
      /\ Keeps(blocks)

\* One block goes.
Release ==
  \E p \in DOMAIN blocks \ DOMAIN blocks' :
    /\ blocks' = [q \in DOMAIN blocks \ {p} |-> blocks[q]]
    /\ Keeps(blocks')

\* One block p gets another length, at its place or at a place q that was
\* unused while the old block was still there.  The common prefix moves along.
Resize ==
  \E b \in {blocks'}, p \in DOMAIN blocks :
    \E q \in (DOMAIN b \ DOMAIN blocks) \cup (DOMAIN b \cap {p}) :
      LET others == [r \in DOMAIN blocks \ {p} |-> blocks[r]]
      IN  /\ b[q] > 0 /\ Extent(q, b[q]) \subseteq Addr
          /\ Extent(q, b[q]) \cap Covered(IF p = q THEN others ELSE blocks) = {}
          /\ b = [r \in DOMAIN others \cup {q} |-> IF r = q THEN b[q] ELSE others[r]]
          /\ Keeps(others)
          /\ \A i \in 0 .. (b[q] - 1) : i < blocks[p] => bytes'[q + i] = bytes[p + i]

\* The client stores into one of its blocks.
Store ==
  /\ UNCHANGED blocks
  /\ \E p \in DOMAIN blocks : Keeps([q \in DOMAIN blocks \ {p} |-> blocks[q]])

\* Only memory that belongs to no block changes.
Idle == UNCHANGED blocks /\ Keeps(blocks)

HeapNext == Grant \/ Release \/ Resize \/ Store \/ Idle

HeapSpec == HeapInit /\ [][HeapNext]_heapVars

=============================================================================
