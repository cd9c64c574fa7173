-------------------------- MODULE FtMallocBlocksProof --------------------------
(***************************************************************************)
(* Theorems about every behaviour of FtMalloc, for every value of the      *)
(* constants that the assumptions admit.  First the tables of the          *)
(* allocator, then the blocks in the clients' hands: the tables know them  *)
(* and no others, with the lengths asked for; they share no byte with each *)
(* other or with a header; they keep what was stored in them; a NULL has   *)
(* one of four reasons; every step of FtMalloc is a step of Heap; and what *)
(* show_alloc_mem prints is a listing of them.                             *)
(***************************************************************************)
EXTENDS FtMalloc, AllocBlocksProof

USE DEF Zones, Slots, Entries, NULL, MAP_FAILED

LEMMA MinOfTwo ==
  ASSUME NEW a \in Nat, NEW b \in Nat
  PROVE  Min({a, b}) \in Nat
<1>1. {a, b} \in SUBSET Nat /\ {a, b} # {}
  OBVIOUS
<1>2. Min({a, b}) \in {a, b}
  BY <1>1, MinIsLeast
<1> QED
  BY <1>2

-----------------------------------------------------------------------------
(***************************************************************************)
(* The inductive invariant: the type invariant and the three table         *)
(* invariants need each other.  The tables say which header belongs to     *)
(* whom, the headers say how long a mapping is, the mappings are disjoint  *)
(* and so writing one header or unmapping one block leaves the others be.  *)
(***************************************************************************)
IInv == TypeOK /\ PoolTables /\ LargeTable /\ MappedExactly

LEMMA IInvTables == IInv <=> TypeOK /\ AllocOK(manage_free)
  BY DEF IInv, TypeOK, PoolTables, LargeTable, MappedExactly, AllocOK

ClientOK == /\ DOMAIN owned \subseteq Addr /\ \A p \in DOMAIN owned : owned[p] \in Block
            /\ reply \in Reply /\ running \in BOOLEAN

LEMMA IInvParts == IInv <=> AllocOK(manage_free) /\ ClientOK
  BY IInvTables DEF TypeOK, ClientOK, AllocOK

LEMMA InitIInv == Init => IInv
<1> SUFFICES ASSUME Init PROVE IInv
  OBVIOUS
<1>1. AllocOK(manage_free)
  BY InitStateOK DEF Init
<1>2. ClientOK
  BY DEF Init, ClientOK, Served, Reply, Classes
<1> QED
  BY <1>1, <1>2, IInvParts

LEMMA ReplyType ==
  ASSUME NEW o, NEW n, NEW mine, o.refused \in BOOLEAN
  PROVE  ReplyTo(o, n, mine) \in Reply /\ Served \in Reply
<1>1. Served \in Reply
  BY DEF Served, Reply, Classes
<1>2. Class(n) \in Classes
  BY DEF Class, Classes
<1>3. Huge(n) \in BOOLEAN
  BY DEF Huge
<1>4. (o.ret \in mine) \in BOOLEAN
  OBVIOUS
<1> DEFINE h == Huge(n)
           c == (o.ret \in mine)
<1> HIDE DEF h, c
<1>5. [Served EXCEPT !.null = TRUE, !.class = Class(n), !.refused = o.refused, !.huge = h] \in Reply
  BY <1>1, <1>2, <1>3 DEF Reply, h
<1>6. [Served EXCEPT !.clash = c] \in Reply
  BY <1>1, <1>4 DEF Reply, c
<1> QED
  BY <1>1, <1>5, <1>6 DEF ReplyTo, h, c

LEMMA IInvPartsNext == IInv' <=> AllocOK(manage_free') /\ ClientOK'
  BY DEF IInv, TypeOK, PoolTables, LargeTable, MappedExactly, AllocOK, ClientOK

-----------------------------------------------------------------------------
\* What the client holds.
IsHolding(b) == DOMAIN b \subseteq Addr /\ \A p \in DOMAIN b : b[p] \in Block

LEMMA HoldingChanges ==
  ASSUME NEW b, IsHolding(b), NEW p
  PROVE  /\ IsHolding(Without(b, p))
         /\ \A blk \in Block : p \in Addr => IsHolding(With(b, p, blk))
  BY DEF IsHolding, Without, With

LEMMA NewBlockType ==
  ASSUME NEW n \in Nat, NEW v \in Values, NEW k \in Nat
  PROVE  NewBlock(n, v, k) \in Block /\ NewBlock(AtLeastOne(n), v, k) \in Block
  BY DEF NewBlock, Block, AtLeastOne

\* A call that ends in well-formed tables keeps the inductive invariant.
LEMMA BecameOK ==
  ASSUME IInv,
         \E o : \E b : \E r \in Reply :
           /\ AllocOK(o.st) /\ IsOutcome(o) /\ IsHolding(b)
           /\ Became(o, b, r)
  PROVE  IInv'
<1>1. PICK o : \E b : \E r \in Reply :
           /\ AllocOK(o.st) /\ IsOutcome(o) /\ IsHolding(b)
           /\ Became(o, b, r)
  OBVIOUS
<1>2. PICK b : \E r \in Reply :
           /\ AllocOK(o.st) /\ IsOutcome(o) /\ IsHolding(b)
           /\ Became(o, b, r)
  BY <1>1
<1>3. PICK r \in Reply : 
           /\ AllocOK(o.st) /\ IsOutcome(o) /\ IsHolding(b)
           /\ Became(o, b, r)
  BY <1>2
<1>4. AllocOK(manage_free')
  BY <1>3 DEF Became
<1>5. ClientOK
  BY IInvParts
<1>6. Served \in Reply
  BY DEF Served, Reply, Classes
<1>7. running' \in BOOLEAN /\ reply' \in Reply
  BY <1>3, <1>6 DEF Became
<1>8. owned' = owned \/ owned' = b
  BY <1>3 DEF Became
<1>9. DOMAIN owned' \subseteq Addr /\ \A p \in DOMAIN owned' : owned'[p] \in Block
  BY <1>3, <1>5, <1>8 DEF IsHolding, ClientOK
<1> QED
  BY <1>4, <1>7, <1>9, IInvPartsNext DEF ClientOK

LEMMA InputsTyped ==
  /\ Sizes \subseteq Nat /\ Counts \subseteq Nat /\ Pointers \subseteq Addr
  /\ 0 \in Values
  BY ClientAssumption, ValuesAssumption

LEMMA MallocStep ==
  ASSUME IInv, NEW n \in Sizes, Malloc(n)
  PROVE  IInv'
<1>1. AllocOK(manage_free) /\ IsHolding(owned) /\ n \in Nat
  BY IInvParts, InputsTyped DEF ClientOK, IsHolding
<1> DEFINE B(o) == IF o.ret = NULL THEN owned
                   ELSE With(owned, o.ret, NewBlock(AtLeastOne(n), 0, 0))
           R(o) == ReplyTo(o, n, DOMAIN owned)
<1>2. PICK o \in malloc_impl(manage_free, n) : Became(o, B(o), R(o))
  BY DEF Malloc
<1>3. AllocOK(o.st) /\ o.ret \in Addr /\ IsOutcome(o)
  BY <1>1, MallocImplCorrect, MallocOutcome
<1>4. R(o) \in Reply
  BY <1>3, ReplyType DEF IsOutcome
<1>5. IsHolding(B(o))
  BY <1>1, <1>3, InputsTyped, HoldingChanges, NewBlockType
<1> HIDE DEF B, R
<1> QED
  BY <1>2, <1>3, <1>4, <1>5, BecameOK, Zenon

LEMMA CallocStep ==
  ASSUME IInv, NEW k \in Counts, NEW n \in Sizes, Calloc(k, n)
  PROVE  IInv'
<1>1. AllocOK(manage_free) /\ IsHolding(owned) /\ n \in Nat /\ k \in Nat /\ k * n \in Nat
  BY IInvParts, InputsTyped DEF ClientOK, IsHolding
<1> DEFINE B(o) == IF o.ret = NULL THEN owned
                   ELSE With(owned, o.ret, NewBlock(AtLeastOne(k * n), 0, k * n))
           R(o) == ReplyTo(o, k * n, DOMAIN owned)
<1>2. PICK o \in callo_imp(manage_free, k, n) : Became(o, B(o), R(o))
  BY DEF Calloc
<1>3. AllocOK(o.st) /\ o.ret \in Addr /\ IsOutcome(o)
  BY <1>1, CalloImpCorrect, CalloOutcome
<1>4. R(o) \in Reply
  BY <1>3, ReplyType DEF IsOutcome
<1>5. NewBlock(AtLeastOne(k * n), 0, k * n) \in Block
  BY <1>1, InputsTyped, NewBlockType
<1>6. IsHolding(B(o))
  BY <1>1, <1>3, <1>5, HoldingChanges
<1> HIDE DEF B, R
<1> QED
  BY <1>2, <1>3, <1>4, <1>6, BecameOK, Zenon

LEMMA FreeStep ==
  ASSUME IInv, NEW p \in Pointers, Free(p)
  PROVE  IInv'
<1>1. AllocOK(manage_free) /\ IsHolding(owned) /\ p \in Addr
  BY IInvParts, InputsTyped DEF ClientOK, IsHolding
<1>2. PICK o \in free_impl(manage_free, p) : Became(o, Without(owned, p), Served)
  BY DEF Free
<1>3. AllocOK(o.st) /\ IsOutcome(o)
  BY <1>1, FreeImplCorrect, FreeOutcome
<1>4. IsHolding(Without(owned, p)) /\ Served \in Reply
  BY <1>1, HoldingChanges DEF Served, Reply, Classes
<1> QED
  BY <1>2, <1>3, <1>4, BecameOK, Zenon

LEMMA ReallocStep ==
  ASSUME IInv, NEW p \in Pointers, NEW n \in Sizes, Realloc(p, n)
  PROVE  IInv'
<1>1. AllocOK(manage_free) /\ IsHolding(owned) /\ p \in Addr /\ n \in Nat
  BY IInvParts, InputsTyped DEF ClientOK, IsHolding
<1> DEFINE old == IF p \in DOMAIN owned THEN owned[p] ELSE NewBlock(0, 0, 0)
           kept == Min({old.kept, n})
           grown == NewBlock(AtLeastOne(n), IF kept = 0 THEN 0 ELSE old.val, kept)
           left == IF p = NULL THEN owned ELSE Without(owned, p)
           asked == p = NULL \/ (p \in DOMAIN owned /\ n # 0)
           B(o) == IF o.ret # NULL THEN With(left, o.ret, grown)
                   ELSE IF n = 0 THEN left ELSE owned
           R(o) == IF asked THEN ReplyTo(o, n, DOMAIN left) ELSE Served
<1>2. PICK o \in realloc_impl(manage_free, p, n) : Became(o, B(o), R(o))
  BY DEF Realloc
<1>3. AllocOK(o.st) /\ o.ret \in Addr /\ IsOutcome(o)
  BY <1>1, ReallocImplCorrect, ReallocOutcome
<1>4. R(o) \in Reply
  <2> HIDE DEF asked, left
  <2> QED
    BY <1>3, ReplyType DEF IsOutcome
<1>5. grown \in Block
  <2>1. old \in Block
    BY <1>1, InputsTyped, NewBlockType DEF IsHolding
  <2> HIDE DEF old
  <2>2. old.kept \in Nat /\ old.val \in Values
    BY <2>1 DEF Block
  <2>3. kept \in Nat
    BY <1>1, <2>2, MinOfTwo
  <2> HIDE DEF kept
  <2> QED
    BY <1>1, <2>2, <2>3, InputsTyped, NewBlockType
<1>6. IsHolding(left)
  BY <1>1, HoldingChanges
<1> HIDE DEF left, grown
<1>7. IsHolding(B(o))
  BY <1>1, <1>3, <1>5, <1>6, HoldingChanges
<1> HIDE DEF B, R
<1> QED
  BY <1>2, <1>3, <1>4, <1>7, BecameOK, Zenon

LEMMA WriteStep ==
  ASSUME IInv, NEW p \in DOMAIN owned, NEW v \in Values, Write(p, v)
  PROVE  IInv'
<1>1. AllocOK(manage_free) /\ ClientOK
  BY IInvParts
<1>2. AllocOK(manage_free')
  BY <1>1, MemsetOK DEF Write
<1>3. owned[p] \in Block
  BY <1>1 DEF ClientOK
<1>4. owned[p].size \in Nat
  BY <1>3 DEF Block
<1>5. NewBlock(owned[p].size, v, owned[p].size) \in Block
  BY <1>4, NewBlockType
<1>6. owned' = [owned EXCEPT ![p] = NewBlock(owned[p].size, v, owned[p].size)]
  BY DEF Write
<1>7. DOMAIN owned' \subseteq Addr /\ \A q \in DOMAIN owned' : owned'[q] \in Block
  BY <1>1, <1>5, <1>6 DEF ClientOK
<1>8. reply' \in Reply /\ running' \in BOOLEAN
  BY <1>1 DEF Write, ClientOK, Served, Reply, Classes
<1> QED
  BY <1>2, <1>7, <1>8, IInvPartsNext DEF ClientOK

-----------------------------------------------------------------------------
(***************************************************************************)
(* IInv is an invariant: it holds at the start and every public call, with *)
(* any size and any pointer, and every store of the client keep it.        *)
(***************************************************************************)
THEOREM IInvHolds == Spec => []IInv
<1>1. Init => IInv
  BY InitIInv
<1>2. IInv /\ [Next]_vars => IInv'
  <2> SUFFICES ASSUME IInv, [Next]_vars PROVE IInv'
    OBVIOUS
  <2>1. ASSUME NEW n \in Sizes, Malloc(n) PROVE IInv'
    BY <2>1, MallocStep
  <2>2. ASSUME NEW k \in Counts, NEW n \in Sizes, Calloc(k, n) PROVE IInv'
    BY <2>2, CallocStep
  <2>3. ASSUME NEW p \in Pointers, Free(p) PROVE IInv'
    BY <2>3, FreeStep
  <2>4. ASSUME NEW p \in Pointers, NEW n \in Sizes, Realloc(p, n) PROVE IInv'
    BY <2>4, ReallocStep
  <2>5. ASSUME NEW p \in DOMAIN owned, NEW v \in Values \ {0}, Write(p, v) PROVE IInv'
    BY <2>5, WriteStep
  <2>6. CASE UNCHANGED vars
    BY <2>6 DEF vars, IInv, TypeOK, PoolTables, LargeTable, MappedExactly
  <2> QED
    BY <2>1, <2>2, <2>3, <2>4, <2>5, <2>6 DEF Next
<1> QED
  BY <1>1, <1>2, PTL DEF Spec

(***************************************************************************)
(* The allocator's record, the client's blocks and the replies keep their  *)
(* types: every address kept or returned is in the address space.          *)
(***************************************************************************)
THEOREM TypeCorrect == Spec => []TypeOK
<1>1. IInv => TypeOK
  BY DEF IInv
<1> QED
  BY <1>1, IInvHolds, PTL

(***************************************************************************)
(* Every header of an open pool keeps its stride, index and bit, and every *)
(* used slot a length it can hold, for any number of slots and any sizes.  *)
(***************************************************************************)
THEOREM PoolTablesCorrect == Spec => []PoolTables
<1>1. IInv => PoolTables
  BY DEF IInv
<1> QED
  BY <1>1, IInvHolds, PTL

(***************************************************************************)
(* large[], large_request_sizes[], the headers' positions and large_cnt    *)
(* stay four records of the same blocks, and the spare entry stays unused. *)
(***************************************************************************)
THEOREM LargeTableCorrect == Spec => []LargeTable
<1>1. IInv => LargeTable
  BY DEF IInv
<1> QED
  BY <1>1, IInvHolds, PTL

(***************************************************************************)
(* The pages mapped are the open arenas' and the live LARGE blocks', and   *)
(* no two of them share a page: no leak, and no munmap of another's page.  *)
(***************************************************************************)
THEOREM MappedExactlyCorrect == Spec => []MappedExactly
<1>1. IInv => MappedExactly
  BY DEF IInv
<1> QED
  BY <1>1, IInvHolds, PTL

-----------------------------------------------------------------------------
(***************************************************************************)
(* A client's record b of its blocks, next to the allocator's state s.     *)
(***************************************************************************)
\* Every block of b is one of the allocator's.
Holds(s, b) == \A p \in DOMAIN b : BlockAt(s, p, b[p].size) /\ b[p].kept <= b[p].size

\* The block blk at p reads what was stored in it.
Reads(s, p, blk) == \A a \in Region(p, blk.kept) : s.mem[a] = blk.val

\* The allocator's blocks are those of b, and they read what they should.
Matches(s, b) ==
  /\ \A p, n : BlockAt(s, p, n) <=> p \in DOMAIN b /\ n = b[p].size
  /\ \A p \in DOMAIN b : b[p].kept <= b[p].size /\ Reads(s, p, b[p])

LEMMA MatchesHolds ==
  ASSUME NEW s, NEW b, Matches(s, b)
  PROVE  Holds(s, b)
  BY DEF Matches, Holds

LEMMA BlockNats ==
  ASSUME NEW s, AllocOK(s), NEW p, NEW n, BlockAt(s, p, n)
  PROVE  p \in Nat \ {0} /\ n \in Nat \ {0} /\ p \in Addr /\ Region(p, n) \subseteq Addr
<1>1. p \in Addr \ {0} /\ n \in Nat \ {0} /\ Region(p, n) \subseteq Addr
  BY BlockLength
<1> QED
  BY <1>1 DEF Addr

\* Part of a block is in the block.
LEMMA PartOfBlock ==
  ASSUME NEW s, AllocOK(s), NEW p, NEW n, BlockAt(s, p, n), NEW k \in Nat, k <= n
  PROVE  Region(p, k) \subseteq Region(p, n)
<1>1. p \in Nat /\ n \in Nat
  BY BlockNats
<1> QED
  BY <1>1 DEF Region

LEMMA BlockFields ==
  ASSUME NEW n \in Nat, NEW v \in Values, NEW k \in Nat
  PROVE  LET blk == NewBlock(n, v, k)
         IN  blk \in Block /\ blk.size = n /\ blk.val = v /\ blk.kept = k
  BY DEF NewBlock, Block

\* The blocks of b but the one at q stay, and the block blk is put at q.
LEMMA PutMatches ==
  ASSUME NEW s, AllocOK(s), NEW t, NEW b, IsHolding(b), Matches(s, b),
         NEW left, left = b \/ \E p : left = Without(b, p),
         NEW q, NEW blk,
         \A p, k : BlockAt(t, p, k) <=> \/ p \in DOMAIN left /\ p # q /\ k = left[p].size
                                        \/ p = q /\ k = blk.size,
         \A p \in DOMAIN left : p # q => KeepsBytes(s, t, p, left[p].size),
         blk.kept <= blk.size, Reads(t, q, blk)
  PROVE  Matches(t, With(left, q, blk))
<1> DEFINE c == With(left, q, blk)
<1>1. /\ DOMAIN left \subseteq DOMAIN b /\ \A p \in DOMAIN left : left[p] = b[p]
  BY DEF Without
<1>2. /\ DOMAIN c = DOMAIN left \cup {q} /\ c[q] = blk
      /\ \A p \in DOMAIN left : p # q => c[p] = left[p]
  BY DEF With
<1> HIDE DEF c
<1>3. ASSUME NEW p \in DOMAIN left, p # q
      PROVE  c[p].kept <= c[p].size /\ Reads(t, p, c[p])
  <2>1. /\ c[p] = b[p] /\ left[p] = b[p] /\ p \in DOMAIN b /\ b[p] \in Block
        /\ BlockAt(s, p, b[p].size) /\ b[p].kept <= b[p].size /\ Reads(s, p, b[p])
    BY <1>1, <1>2, <1>3 DEF Matches, IsHolding
  <2>2. b[p].kept \in Nat
    BY <2>1 DEF Block
  <2>3. Region(p, b[p].kept) \subseteq Region(p, b[p].size)
    BY <2>1, <2>2, PartOfBlock
  <2>4. KeepsBytes(s, t, p, b[p].size)
    BY <1>3, <2>1
  <2> QED
    BY <2>1, <2>3, <2>4 DEF Reads, KeepsBytes
<1>4. \A p \in DOMAIN c : c[p].kept <= c[p].size /\ Reads(t, p, c[p])
  BY <1>2, <1>3
<1>5. ASSUME NEW p, NEW n PROVE BlockAt(t, p, n) <=> p \in DOMAIN c /\ n = c[p].size
  BY <1>2
<1> QED
  BY <1>4, <1>5 DEF Matches, c

\* A call adds a block.
LEMMA AddedMatches ==
  ASSUME NEW s, AllocOK(s), NEW t, NEW b, IsHolding(b), Matches(s, b), NEW q, NEW blk,
         Adds(s, t, q, blk.size),
         \A p, k : BlockAt(s, p, k) => KeepsBytes(s, t, p, k),
         blk.kept <= blk.size, Reads(t, q, blk)
  PROVE  Matches(t, With(b, q, blk)) /\ q \notin DOMAIN b
<1>1. q \notin DOMAIN b
  BY DEF Adds, Matches
<1>2. \A p, k : BlockAt(t, p, k) <=> \/ p \in DOMAIN b /\ p # q /\ k = b[p].size
                                     \/ p = q /\ k = blk.size
  BY <1>1 DEF Adds, Matches
<1>3. \A p \in DOMAIN b : p # q => KeepsBytes(s, t, p, b[p].size)
  BY DEF Matches
<1> QED
  BY <1>1, <1>2, <1>3, PutMatches

\* A call changes no block.
LEMMA SameMatches ==
  ASSUME NEW s, NEW t, NEW b, Matches(s, b), SameBlocks(s, t), t.mem = s.mem
  PROVE  Matches(t, b)
  BY DEF Matches, SameBlocks, Reads

\* A call removes a block, or there was none.
LEMMA RemovedMatches ==
  ASSUME NEW s, AllocOK(s), NEW t, NEW b, IsHolding(b), Matches(s, b), NEW q,
         Removes(s, t, q), \A p, n : BlockAt(t, p, n) => KeepsBytes(s, t, p, n)
  PROVE  Matches(t, Without(b, q))
<1> DEFINE c == Without(b, q)
<1>1. DOMAIN c = DOMAIN b \ {q} /\ \A p \in DOMAIN c : c[p] = b[p]
  BY DEF Without
<1> HIDE DEF c
<1>2. ASSUME NEW p, NEW n PROVE BlockAt(t, p, n) <=> p \in DOMAIN c /\ n = c[p].size
  BY <1>1 DEF Removes, Matches
<1>3. ASSUME NEW p \in DOMAIN c PROVE c[p].kept <= c[p].size /\ Reads(t, p, c[p])
  <2>1. /\ c[p] = b[p] /\ p \in DOMAIN b /\ b[p] \in Block /\ BlockAt(s, p, b[p].size)
        /\ b[p].kept <= b[p].size /\ Reads(s, p, b[p]) /\ BlockAt(t, p, b[p].size)
    BY <1>1, <1>2 DEF Matches, IsHolding
  <2>2. b[p].kept \in Nat
    BY <2>1 DEF Block
  <2>3. Region(p, b[p].kept) \subseteq Region(p, b[p].size)
    BY <2>1, <2>2, PartOfBlock
  <2> QED
    BY <2>1, <2>3 DEF Reads, KeepsBytes
<1> QED
  BY <1>2, <1>3 DEF Matches, c

\* A call resizes a block, in place or at another place.
LEMMA ResizedMatches ==
  ASSUME NEW s, AllocOK(s), NEW t, NEW b, IsHolding(b), Matches(s, b),
         NEW p \in DOMAIN b, NEW q \in Nat, NEW n \in Nat,
         \/ q = p /\ Resizes(s, t, p, n) /\ t.mem = s.mem
         \/ q # p /\ Moves(s, t, p, q, n),
         NEW blk, blk.size = n, blk.kept \in Nat, blk.kept <= n, blk.kept <= b[p].kept,
         blk.kept # 0 => blk.val = b[p].val
  PROVE  Matches(t, With(Without(b, p), q, blk)) /\ q \notin DOMAIN Without(b, p)
<1> DEFINE left == Without(b, p)
<1>1. DOMAIN left = DOMAIN b \ {p} /\ \A r \in DOMAIN left : left[r] = b[r]
  BY DEF Without
<1>p. left = Without(b, p)
  OBVIOUS
<1>2. BlockAt(s, p, b[p].size) /\ Reads(s, p, b[p]) /\ b[p].kept <= b[p].size
      /\ b[p] \in Block
  BY DEF Matches, IsHolding
<1>3. b[p].size \in Nat /\ b[p].kept \in Nat /\ p \in Nat
  BY <1>2, BlockNats DEF Block
<1> HIDE DEF left
<1>4. q \notin DOMAIN left
  BY <1>1 DEF Moves, Matches
<1>5. \A r, k : BlockAt(t, r, k) <=> \/ r \in DOMAIN left /\ r # q /\ k = left[r].size
                                     \/ r = q /\ k = blk.size
  BY <1>1, <1>4 DEF Moves, Resizes, Matches
<1>6. \A r \in DOMAIN left : r # q => KeepsBytes(s, t, r, left[r].size)
  BY <1>1 DEF Moves, KeepsBytes, Matches
<1>7. Reads(t, q, blk)
  <2>1. \A i \in 0 .. (blk.kept - 1) : s.mem[p + i] = b[p].val
    BY <1>2, <1>3 DEF Reads, Region
  <2>2. CASE q = p /\ t.mem = s.mem
    <3>1. Region(p, blk.kept) \subseteq Region(p, b[p].kept)
      BY <1>3 DEF Region
    <3>2. blk.kept = 0 => Region(p, blk.kept) = {}
      BY <1>3 DEF Region
    <3> QED
      BY <1>2, <2>2, <3>1, <3>2 DEF Reads
  <2>3. CASE Moves(s, t, p, q, n)
    <3>1. \A i \in 0 .. (b[p].size - 1) : t.mem[q + i] = s.mem[p + i]
      BY <1>2, <2>3 DEF Moves
    <3>3. ASSUME NEW a \in Region(q, blk.kept) PROVE t.mem[a] = blk.val
      <4> DEFINE i == a - q
      <4>1. i \in 0 .. (blk.kept - 1) /\ q + i = a /\ i \in 0 .. (b[p].size - 1)
        BY <1>2, <1>3, <3>3 DEF Region
      <4>2. blk.kept # 0
        BY <4>1
      <4> HIDE DEF i
      <4> QED
        BY <2>1, <3>1, <4>1, <4>2
    <3> QED
      BY <3>3 DEF Reads
  <2> QED
    BY <2>2, <2>3
<1> QED
  BY <1>4, <1>5, <1>6, <1>7, <1>p, PutMatches

-----------------------------------------------------------------------------
(***************************************************************************)
(* The inductive invariant.  While the process runs, the client's record   *)
(* and the tables say the same of every block.  print_error ends it inside *)
(* free_impl or realloc_impl: then the client still has all its blocks and *)
(* the tables may know one more.  The reply explains itself in the state   *)
(* that the call left.                                                     *)
(***************************************************************************)
Explained(s, r) == ~r.clash /\ (r.null => r.refused \/ r.huge \/ Exhausted(s, r.class))

Agreed ==
  /\ Holds(manage_free, owned)
  /\ running => Matches(manage_free, owned)
  /\ Explained(manage_free, reply)

BlocksInv == IInv /\ Agreed

LEMMA AgreedNext ==
  Agreed' <=> /\ Holds(manage_free', owned')
              /\ running' => Matches(manage_free', owned')
              /\ Explained(manage_free', reply')
  BY DEF Agreed, Holds, Matches, Explained, Reads, BlockAt, Exhausted

LEMMA ServedExplained == ASSUME NEW s PROVE Explained(s, Served)
  BY DEF Explained, Served

LEMMA ReplyExplained ==
  ASSUME NEW o, NEW n \in Nat, NEW mine,
         o.ret = NULL => o.refused \/ TooLong(n) \/ Exhausted(o.st, Class(n)),
         o.ret # NULL => o.ret \notin mine
  PROVE  Explained(o.st, ReplyTo(o, n, mine))
<1> DEFINE h == Huge(n)
           c == (o.ret \in mine)
<1>1. h = TooLong(n)
  BY DEF Huge, TooLong
<1> HIDE DEF h, c
<1>2. CASE o.ret = NULL
  <2> DEFINE r == [Served EXCEPT !.null = TRUE, !.class = Class(n), !.refused = o.refused, !.huge = h]
  <2>1. ReplyTo(o, n, mine) = r
    BY <1>2 DEF ReplyTo, h
  <2>2. r.refused = o.refused /\ r.huge = h /\ r.class = Class(n) /\ ~r.clash
    BY DEF Served
  <2> HIDE DEF r
  <2> QED
    BY <1>1, <1>2, <2>1, <2>2 DEF Explained
<1>3. CASE o.ret # NULL
  <2> DEFINE r == [Served EXCEPT !.clash = c]
  <2>1. ReplyTo(o, n, mine) = r
    BY <1>3 DEF ReplyTo, c
  <2>2. r.clash = c /\ ~r.null
    BY DEF Served
  <2> HIDE DEF r
  <2>3. ~c
    BY <1>3 DEF c
  <2> QED
    BY <2>1, <2>2, <2>3 DEF Explained
<1> QED
  BY <1>2, <1>3

LEMMA BecameAgreed ==
  ASSUME NEW o, NEW b, NEW r, Became(o, b, r), Holds(manage_free, owned),
         o.exit => Holds(o.st, owned),
         ~o.exit => Matches(o.st, b) /\ Explained(o.st, r)
  PROVE  Agreed'
<1>1. CASE o.exit
  <2>1. manage_free' = o.st /\ ~running' /\ owned' = owned /\ reply' = Served
    BY <1>1 DEF Became
  <2> QED
    BY <1>1, <2>1, AgreedNext, ServedExplained
<1>2. CASE ~o.exit
  <2>1. manage_free' = o.st /\ owned' = b /\ reply' = r
    BY <1>2 DEF Became
  <2> QED
    BY <1>2, <2>1, AgreedNext, MatchesHolds
<1> QED
  BY <1>1, <1>2

LEMMA InvParts ==
  ASSUME BlocksInv, running
  PROVE  AllocOK(manage_free) /\ IsHolding(owned)
         /\ Matches(manage_free, owned) /\ Holds(manage_free, owned)
  BY IInvParts DEF BlocksInv, Agreed, ClientOK, IsHolding

\* malloc_impl, as the client sees it: a new block, or no change.
LEMMA MallocMatches ==
  ASSUME NEW s, AllocOK(s), NEW b, IsHolding(b), Matches(s, b),
         NEW n \in Nat, NEW o \in malloc_impl(s, n)
  PROVE  /\ ~o.exit /\ Explained(o.st, ReplyTo(o, n, DOMAIN b))
         /\ Matches(o.st, IF o.ret = NULL THEN b ELSE With(b, o.ret, NewBlock(AtLeastOne(n), 0, 0)))
<1> DEFINE blk == NewBlock(AtLeastOne(n), 0, 0)
<1>1. blk \in Block /\ blk.size = AtLeastOne(n) /\ blk.kept = 0 /\ AtLeastOne(n) \in Nat
  BY BlockFields, InputsTyped DEF AtLeastOne
<1> HIDE DEF blk
<1>2. /\ o.st.mem = s.mem /\ ~o.exit
      /\ IF o.ret = NULL THEN SameBlocks(s, o.st) ELSE Adds(s, o.st, o.ret, AtLeastOne(n))
  BY MallocImplAddsOne
<1>3. o.ret \in Nat
  BY MallocImplCorrect DEF Addr
<1>4. CASE o.ret = NULL
  <2>1. Matches(o.st, b)
    BY <1>2, <1>4, SameMatches
  <2>2. o.refused \/ TooLong(n) \/ Exhausted(o.st, Class(n))
    BY <1>4, MallocNullReasons
  <2> QED
    BY <1>2, <1>4, <2>1, <2>2, ReplyExplained
<1>5. CASE o.ret # NULL
  <2>1. \A p, k : BlockAt(s, p, k) => KeepsBytes(s, o.st, p, k)
    BY <1>2 DEF KeepsBytes
  <2>2. Reads(o.st, o.ret, blk)
    BY <1>1, <1>3 DEF Reads, Region
  <2>3. Matches(o.st, With(b, o.ret, blk)) /\ o.ret \notin DOMAIN b
    BY <1>1, <1>2, <1>5, <2>1, <2>2, AddedMatches
  <2> QED
    BY <1>2, <1>5, <2>3, ReplyExplained DEF blk
<1> QED
  BY <1>4, <1>5

LEMMA MallocAgrees ==
  ASSUME BlocksInv, running, NEW n \in Sizes, Malloc(n)
  PROVE  Agreed'
<1> DEFINE B(o) == IF o.ret = NULL THEN owned
                   ELSE With(owned, o.ret, NewBlock(AtLeastOne(n), 0, 0))
           R(o) == ReplyTo(o, n, DOMAIN owned)
<1>1. AllocOK(manage_free) /\ IsHolding(owned) /\ n \in Nat
      /\ Matches(manage_free, owned) /\ Holds(manage_free, owned)
  BY InvParts, InputsTyped
<1>2. PICK o \in malloc_impl(manage_free, n) : Became(o, B(o), R(o))
  BY DEF Malloc
<1>3. ~o.exit /\ Explained(o.st, R(o)) /\ Matches(o.st, B(o))
  BY <1>1, MallocMatches
<1> HIDE DEF B, R
<1> QED
  BY <1>1, <1>2, <1>3, BecameAgreed

LEMMA CallocAgrees ==
  ASSUME BlocksInv, running, NEW k \in Counts, NEW n \in Sizes, Calloc(k, n)
  PROVE  Agreed'
<1> DEFINE total == k * n
           blk == NewBlock(AtLeastOne(total), 0, total)
           B(o) == IF o.ret = NULL THEN owned ELSE With(owned, o.ret, blk)
           R(o) == ReplyTo(o, total, DOMAIN owned)
<1>1. AllocOK(manage_free) /\ IsHolding(owned) /\ n \in Nat /\ k \in Nat
      /\ Matches(manage_free, owned) /\ Holds(manage_free, owned)
  BY InvParts, InputsTyped
<1>2. PICK o \in callo_imp(manage_free, k, n) : Became(o, B(o), R(o))
  BY DEF Calloc
<1>3. total \in Nat
  BY <1>1
<1>4. /\ ~o.exit
      /\ total > SIZE_MAX => o = Return(manage_free, NULL)
      /\ total <= SIZE_MAX /\ o.ret = NULL => o \in malloc_impl(manage_free, total)
      /\ o.ret = NULL => SameBlocks(manage_free, o.st) /\ o.st.mem = manage_free.mem
      /\ o.ret # NULL =>
           /\ Adds(manage_free, o.st, o.ret, AtLeastOne(total))
           /\ \A a \in Region(o.ret, total) : o.st.mem[a] = 0
           /\ \A p, m : BlockAt(manage_free, p, m) => KeepsBytes(manage_free, o.st, p, m)
  BY <1>1, CalloImpAddsZeros
<1> HIDE DEF total
<1>5. /\ blk.size = AtLeastOne(total) /\ blk.kept = total /\ blk.val = 0
      /\ total <= AtLeastOne(total)
  BY <1>3, BlockFields, InputsTyped DEF AtLeastOne
<1> HIDE DEF blk
<1>6. CASE o.ret = NULL
  <2>1. Matches(o.st, owned)
    BY <1>1, <1>4, <1>6, SameMatches
  <2>2. o.refused \/ TooLong(total) \/ Exhausted(o.st, Class(total))
    <3>1. CASE total <= SIZE_MAX
      BY <1>1, <1>3, <1>4, <1>6, <3>1, MallocNullReasons
    <3>2. CASE ~(total <= SIZE_MAX)
      BY <1>3, <3>2, LongMax, Positive DEF TooLong
    <3> QED
      BY <3>1, <3>2
  <2>3. Explained(o.st, R(o))
    BY <1>3, <1>6, <2>2, ReplyExplained
  <2>4. B(o) = owned
    BY <1>6
  <2> HIDE DEF B, R
  <2> QED
    BY <1>1, <1>2, <1>4, <2>1, <2>3, <2>4, BecameAgreed
<1>7. CASE o.ret # NULL
  <2>1. Reads(o.st, o.ret, blk)
    BY <1>4, <1>5, <1>7 DEF Reads
  <2>2. Matches(o.st, With(owned, o.ret, blk)) /\ o.ret \notin DOMAIN owned
    BY <1>1, <1>4, <1>5, <1>7, <2>1, AddedMatches
  <2>3. Explained(o.st, R(o))
    BY <1>3, <1>7, <2>2, ReplyExplained
  <2>4. B(o) = With(owned, o.ret, blk)
    BY <1>7
  <2> HIDE DEF B, R
  <2> QED
    BY <1>1, <1>2, <1>4, <2>2, <2>3, <2>4, BecameAgreed
<1> QED
  BY <1>6, <1>7

\* free_impl, as the client sees it: the block goes, if it was one.
LEMMA FreeMatches ==
  ASSUME NEW s, AllocOK(s), NEW b, IsHolding(b), Matches(s, b),
         NEW p \in Addr, NEW o \in free_impl(s, p)
  PROVE  IF o.exit THEN o.st = s ELSE Matches(o.st, Without(b, p))
<1>1. CASE o.st = s /\ ~o.exit /\ \A n : ~BlockAt(s, p, n)
  <2>1. Removes(s, o.st, p) /\ \A q, n : BlockAt(o.st, q, n) => KeepsBytes(s, o.st, q, n)
    BY <1>1 DEF Removes, KeepsBytes
  <2> QED
    BY <1>1, <2>1, RemovedMatches
<1>2. CASE o.st = s /\ o.exit
  BY <1>2
<1>3. CASE /\ ~o.exit /\ Removes(s, o.st, p)
           /\ \A q, n : BlockAt(o.st, q, n) => KeepsBytes(s, o.st, q, n)
  BY <1>3, RemovedMatches
<1> QED
  BY <1>1, <1>2, <1>3, FreeImplRemovesOne

LEMMA FreeAgrees ==
  ASSUME BlocksInv, running, NEW p \in Pointers, Free(p)
  PROVE  Agreed'
<1>1. AllocOK(manage_free) /\ IsHolding(owned) /\ p \in Addr
      /\ Matches(manage_free, owned) /\ Holds(manage_free, owned)
  BY InvParts, InputsTyped
<1>2. PICK o \in free_impl(manage_free, p) : Became(o, Without(owned, p), Served)
  BY DEF Free
<1>3. IF o.exit THEN o.st = manage_free ELSE Matches(o.st, Without(owned, p))
  BY <1>1, FreeMatches
<1> QED
  BY <1>1, <1>2, <1>3, BecameAgreed, ServedExplained

\* What a successful realloc of a block leaves the client with: as much of
\* the old contents as fits.
LEMMA MinOfTwoIs ==
  ASSUME NEW a \in Nat, NEW b \in Nat
  PROVE  Min({a, b}) \in Nat /\ Min({a, b}) <= a /\ Min({a, b}) <= b
<1>1. {a, b} \in SUBSET Nat /\ {a, b} # {}
  OBVIOUS
<1>2. Min({a, b}) \in {a, b} /\ \A y \in {a, b} : Min({a, b}) <= y
  BY <1>1, MinIsLeast
<1> QED
  BY <1>2

LEMMA ReallocAgrees ==
  ASSUME BlocksInv, running, NEW p \in Pointers, NEW n \in Sizes, Realloc(p, n)
  PROVE  Agreed'
<1>1. AllocOK(manage_free) /\ IsHolding(owned) /\ p \in Addr /\ n \in Nat
      /\ Matches(manage_free, owned) /\ Holds(manage_free, owned)
  BY InvParts, InputsTyped
<1> DEFINE old == IF p \in DOMAIN owned THEN owned[p] ELSE NewBlock(0, 0, 0)
           kept == Min({old.kept, n})
           val == IF kept = 0 THEN 0 ELSE old.val
           grown == NewBlock(AtLeastOne(n), val, kept)
           left == IF p = NULL THEN owned ELSE Without(owned, p)
           asked == p = NULL \/ (p \in DOMAIN owned /\ n # 0)
           B(o) == IF o.ret # NULL THEN With(left, o.ret, grown)
                   ELSE IF n = 0 THEN left ELSE owned
           R(o) == IF asked THEN ReplyTo(o, n, DOMAIN left) ELSE Served
<1>2. PICK o \in realloc_impl(manage_free, p, n) : Became(o, B(o), R(o))
  BY DEF Realloc
<1>3. SUFFICES /\ o.exit => Holds(o.st, owned)
               /\ ~o.exit => Matches(o.st, B(o)) /\ Explained(o.st, R(o))
  <2> HIDE DEF B, R
  <2> QED
    BY <1>1, <1>2, BecameAgreed
<1>4. NULL \notin DOMAIN owned
  BY <1>1, BlockNats DEF Matches
<1>5. CASE p = NULL
  <2>1. o \in malloc_impl(manage_free, n)
    BY <1>2, <1>5 DEF realloc_impl
  <2>2. old = NewBlock(0, 0, 0) /\ left = owned /\ asked
    BY <1>4, <1>5
  <2>3. old.kept = 0
    BY <2>2, BlockFields, InputsTyped
  <2> HIDE DEF old
  <2>4. kept = 0
    <3>1. Min({0, n}) \in Nat /\ Min({0, n}) <= 0
      BY <1>1, MinOfTwoIs
    <3> QED
      BY <2>3, <3>1
  <2> HIDE DEF kept
  <2>5. grown = NewBlock(AtLeastOne(n), 0, 0)
    BY <2>4
  <2> HIDE DEF grown, left, asked
  <2>6. B(o) = IF o.ret = NULL THEN owned ELSE With(owned, o.ret, NewBlock(AtLeastOne(n), 0, 0))
    BY <2>2, <2>5
  <2>7. R(o) = ReplyTo(o, n, DOMAIN owned)
    BY <2>2
  <2> HIDE DEF B, R
  <2> QED
    BY <1>1, <2>1, <2>6, <2>7, MallocMatches
<1>6. CASE p # NULL /\ n = 0
  <2>1. o \in free_impl(manage_free, p)
    BY <1>2, <1>6 DEF realloc_impl
  <2>2. o.ret = NULL
    BY <1>1, <2>1 DEF free_impl, Return, Exit
  <2>3. left = Without(owned, p) /\ ~asked
    BY <1>6
  <2> HIDE DEF grown, left, asked
  <2>4. B(o) = Without(owned, p) /\ R(o) = Served
    BY <1>6, <2>2, <2>3
  <2>5. IF o.exit THEN o.st = manage_free ELSE Matches(o.st, Without(owned, p))
    BY <1>1, <2>1, FreeMatches
  <2> HIDE DEF B, R
  <2> QED
    BY <1>1, <2>4, <2>5, ServedExplained
<1>7. CASE p # NULL /\ n # 0
  <2>1. p \in Addr \ {0} /\ n \in Nat \ {0} /\ AtLeastOne(n) = n /\ left = Without(owned, p)
    BY <1>1, <1>7 DEF AtLeastOne
  <2>2. (\E m : BlockAt(manage_free, p, m)) <=> p \in DOMAIN owned
    BY <1>1 DEF Matches
  <2>3. CASE o = Return(manage_free, NULL) /\ \A m : ~BlockAt(manage_free, p, m)
    <3>1. o.st = manage_free /\ o.ret = NULL /\ ~o.exit /\ ~asked
      BY <1>7, <2>2, <2>3 DEF Return
    <3> HIDE DEF grown, left, asked
    <3>2. B(o) = owned /\ R(o) = Served
      BY <1>7, <3>1
    <3> HIDE DEF B, R
    <3> QED
      BY <1>1, <3>1, <3>2, ServedExplained
  <2>4. CASE /\ \E m : BlockAt(manage_free, p, m)
             /\ o \in malloc_impl(manage_free, n) /\ o.ret = NULL
             /\ SameBlocks(manage_free, o.st) /\ o.st.mem = manage_free.mem /\ ~o.exit
    <3>1. asked
      BY <1>7, <2>2, <2>4
    <3>2. Matches(o.st, owned)
      BY <1>1, <2>4, SameMatches
    <3>3. o.refused \/ TooLong(n) \/ Exhausted(o.st, Class(n))
      BY <1>1, <2>4, MallocNullReasons
    <3>4. Explained(o.st, ReplyTo(o, n, DOMAIN left))
      <4> HIDE DEF left
      <4> QED
        BY <1>1, <2>4, <3>3, ReplyExplained
    <3> HIDE DEF grown, left, asked
    <3>5. B(o) = owned /\ R(o) = ReplyTo(o, n, DOMAIN left)
      BY <1>7, <2>4, <3>1
    <3> HIDE DEF B, R
    <3> QED
      BY <2>4, <3>2, <3>4, <3>5
  <2>5. CASE /\ \E m : BlockAt(manage_free, p, m)
             /\ o.ret \notin {NULL, p} /\ o.exit /\ AddsAndKeeps(manage_free, o.st, o.ret, n)
    BY <1>1, <2>5 DEF AddsAndKeeps, Adds, Holds
  <2>6. CASE /\ \E m : BlockAt(manage_free, p, m)
             /\ ~o.exit /\ o.ret # NULL
             /\ \/ o.ret = p /\ Resizes(manage_free, o.st, p, n) /\ o.st.mem = manage_free.mem
                \/ o.ret # p /\ Moves(manage_free, o.st, p, o.ret, n)
    <3>1. p \in DOMAIN owned /\ asked
      BY <1>7, <2>2, <2>6
    <3>2. old = owned[p] /\ old \in Block
      BY <1>1, <3>1 DEF IsHolding
    <3> HIDE DEF old, left, asked
    <3>3. old.kept \in Nat /\ old.val \in Values
      BY <3>2 DEF Block
    <3>4. kept \in Nat /\ kept <= old.kept /\ kept <= n
      BY <1>1, <3>3, MinOfTwoIs
    <3> HIDE DEF kept
    <3>5. val \in Values /\ (kept # 0 => val = old.val)
      BY <3>3, InputsTyped
    <3> HIDE DEF val
    <3>6. grown.size = n /\ grown.kept = kept /\ grown.val = val
      BY <1>1, <2>1, <3>4, <3>5, BlockFields
    <3> HIDE DEF grown
    <3>7. o.ret \in Nat
      BY <1>1, <1>2, ReallocImplCorrect DEF Addr
    <3>8. Matches(o.st, With(left, o.ret, grown)) /\ o.ret \notin DOMAIN left
      BY <1>1, <2>1, <2>6, <3>1, <3>2, <3>4, <3>5, <3>6, <3>7, ResizedMatches
    <3>9. Explained(o.st, ReplyTo(o, n, DOMAIN left))
      BY <1>1, <2>6, <3>8, ReplyExplained
    <3>10. B(o) = With(left, o.ret, grown) /\ R(o) = ReplyTo(o, n, DOMAIN left)
      BY <2>6, <3>1
    <3> HIDE DEF B, R
    <3> QED
      BY <2>6, <3>8, <3>9, <3>10
  <2> HIDE DEF B, R, grown, left, asked
  <2>7. p # NULL
    BY <1>7
  <2> QED
    BY <1>1, <1>2, <2>1, <2>3, <2>4, <2>5, <2>6, <2>7, ReallocImplResizesOne
<1> HIDE DEF B, R
<1> QED
  BY <1>5, <1>6, <1>7

\* The client's store reaches its own block and no other.
LEMMA WriteAgrees ==
  ASSUME BlocksInv, running, NEW p \in DOMAIN owned, NEW v \in Values, Write(p, v)
  PROVE  Agreed'
<1>1. AllocOK(manage_free) /\ IsHolding(owned)
      /\ Matches(manage_free, owned) /\ Holds(manage_free, owned)
  BY InvParts
<1> DEFINE n == owned[p].size
           t == manage_free'
           blk == NewBlock(n, v, n)
<1>2. BlockAt(manage_free, p, n) /\ n \in Nat
  BY <1>1 DEF Matches, IsHolding, Block
<1>3. blk.size = n /\ blk.kept = n /\ blk.val = v
  BY <1>2, BlockFields
<1>4. /\ SameBlocks(manage_free, t)
      /\ \A a \in Addr : t.mem[a] = IF a \in Region(p, n) THEN v ELSE manage_free.mem[a]
  BY <1>1, ZeroedBytes DEF Write, AllocOK
<1>5. owned' = [owned EXCEPT ![p] = blk] /\ reply' = Served /\ running' = running
  BY DEF Write
<1> HIDE DEF t, blk
<1>6. DOMAIN owned' = DOMAIN owned /\ owned'[p] = blk
      /\ \A q \in DOMAIN owned : q # p => owned'[q] = owned[q]
  BY <1>5
<1>7. \A q, k : BlockAt(t, q, k) <=> q \in DOMAIN owned' /\ k = owned'[q].size
  BY <1>1, <1>3, <1>4, <1>6 DEF Matches, SameBlocks
<1>8. ASSUME NEW q \in DOMAIN owned'
      PROVE  owned'[q].kept <= owned'[q].size /\ Reads(t, q, owned'[q])
  <2>1. CASE q = p
    <3>1. Region(p, n) \subseteq Addr
      BY <1>1, <1>2, BlockNats
    <3> QED
      BY <1>2, <1>3, <1>4, <1>6, <2>1, <3>1 DEF Reads
  <2>2. CASE q # p
    <3>1. /\ owned'[q] = owned[q] /\ BlockAt(manage_free, q, owned[q].size)
          /\ owned[q].kept <= owned[q].size /\ Reads(manage_free, q, owned[q])
          /\ owned[q].kept \in Nat
      BY <1>1, <1>6, <1>8, <2>2 DEF Matches, IsHolding, Block
    <3>2. /\ Region(q, owned[q].kept) \subseteq Region(q, owned[q].size)
          /\ Region(q, owned[q].size) \subseteq Addr
          /\ Region(q, owned[q].size) \cap Region(p, n) = {}
      BY <1>1, <1>2, <2>2, <3>1, PartOfBlock, BlockNats, BlocksApart
    <3> QED
      BY <1>4, <3>1, <3>2 DEF Reads
  <2> QED
    BY <2>1, <2>2
<1>9. Matches(t, owned')
  BY <1>7, <1>8 DEF Matches
<1> QED
  BY <1>5, <1>9, AgreedNext, MatchesHolds, ServedExplained DEF t

LEMMA InitAgreed == Init => Agreed
<1> SUFFICES ASSUME Init PROVE Agreed
  OBVIOUS
<1>1. DOMAIN owned = {} /\ reply = Served
  BY DEF Init
<1>2. \A o \in Owners : ~InUse(manage_free, o)
  <2>1. /\ \A zone \in Zones : InitState.bitmap[zone] = {}
        /\ \A e \in 0 .. LARGES : InitState.large[e] = 0
    BY DEF InitState
  <2>2. LiveEntries(InitState) = {}
    BY <2>1, Positive DEF LiveEntries
  <2> QED
    BY <2>1, <2>2, OwnerCases DEF Init, InUse
<1>3. Matches(manage_free, owned)
  BY <1>1, <1>2 DEF Matches, BlockAt
<1> QED
  BY <1>1, <1>3, MatchesHolds, ServedExplained DEF Agreed

(***************************************************************************)
(* BlocksInv is an invariant: at every public call, with any size and any  *)
(* pointer, and at every store of a client.                                *)
(***************************************************************************)
THEOREM BlocksInvHolds == Spec => []BlocksInv
<1>1. Init /\ IInv => BlocksInv
  BY InitAgreed DEF BlocksInv
<1>2. BlocksInv /\ IInv' /\ [Next]_vars => BlocksInv'
  <2> SUFFICES ASSUME BlocksInv, IInv', [Next]_vars PROVE Agreed'
    BY DEF BlocksInv
  <2>1. ASSUME running, NEW n \in Sizes, Malloc(n) PROVE Agreed'
    BY <2>1, MallocAgrees
  <2>2. ASSUME running, NEW k \in Counts, NEW n \in Sizes, Calloc(k, n) PROVE Agreed'
    BY <2>2, CallocAgrees
  <2>3. ASSUME running, NEW p \in Pointers, Free(p) PROVE Agreed'
    BY <2>3, FreeAgrees
  <2>4. ASSUME running, NEW p \in Pointers, NEW n \in Sizes, Realloc(p, n) PROVE Agreed'
    BY <2>4, ReallocAgrees
  <2>5. ASSUME running, NEW p \in DOMAIN owned, NEW v \in Values \ {0}, Write(p, v) PROVE Agreed'
    BY <2>5, WriteAgrees
  <2>6. CASE UNCHANGED vars
    BY <2>6, AgreedNext DEF vars, BlocksInv, Agreed
  <2> QED
    BY <2>1, <2>2, <2>3, <2>4, <2>5, <2>6 DEF Next
<1> QED
  BY <1>1, <1>2, IInvHolds, PTL DEF Spec

-----------------------------------------------------------------------------
(***************************************************************************)
(* What FtMalloc calls the live pointers and the headers.                  *)
(***************************************************************************)
LEMMA LivePtrsAreBlocks ==
  ASSUME NEW s, AllocOK(s)
  PROVE  \A p : p \in LivePtrs(s) <=> \E n : BlockAt(s, p, n)
<1>1. ASSUME NEW p, p \in LivePtrs(s) PROVE \E n : BlockAt(s, p, n)
  <2>1. CASE \E zs \in LiveSlots(s) : p = SlotHead(s, zs) + METASIZE
    <3>1. PICK zone \in Zones, slot \in Slots : /\ slot \in s.bitmap[zone]
                                                /\ p = Header(s.arena[zone], zone, slot) + METASIZE
      BY <2>1 DEF LiveSlots, SlotHead
    <3> DEFINE o == [zone |-> zone, slot |-> slot]
    <3>2. o \in Owners /\ InUse(s, o) /\ p = OwnerHeader(s, o) + METASIZE
      BY <3>1, OwnersMade DEF InUse, OwnerHeader
    <3> QED
      BY <3>2 DEF BlockAt
  <2>2. CASE \E e \in LiveEntries(s) : p = s.large[e] + METASIZE
    <3>1. PICK e \in Entries : e \in LiveEntries(s) /\ p = s.large[e] + METASIZE
      BY <2>2 DEF LiveEntries
    <3> DEFINE o == [zone |-> "large", slot |-> e]
    <3>2. o \in Owners /\ InUse(s, o) /\ p = OwnerHeader(s, o) + METASIZE
      BY <3>1, OwnersMade DEF InUse, OwnerHeader
    <3> QED
      BY <3>2 DEF BlockAt
  <2> QED
    BY <1>1, <2>1, <2>2 DEF LivePtrs
<1>2. ASSUME NEW p, NEW n, BlockAt(s, p, n) PROVE p \in LivePtrs(s)
  <2>1. PICK o \in Owners : InUse(s, o) /\ p = OwnerHeader(s, o) + METASIZE
    BY <1>2 DEF BlockAt
  <2>2. CASE o.zone = "large"
    BY <2>1, <2>2 DEF InUse, OwnerHeader, LivePtrs
  <2>3. CASE o.zone \in Zones
    <3> DEFINE zs == <<o.zone, o.slot>>
    <3>1. o.slot \in Slots /\ o.slot \in s.bitmap[o.zone]
      BY <2>1, <2>3 DEF InUse, AllocOK, StateType
    <3>2. zs \in LiveSlots(s) /\ p = SlotHead(s, zs) + METASIZE
      BY <2>1, <2>3, <3>1 DEF LiveSlots, SlotHead, OwnerHeader
    <3> QED
      BY <3>2 DEF LivePtrs
  <2> QED
    BY <2>2, <2>3, OwnerCases
<1> QED
  BY <1>1, <1>2

LEMMA HeadsAreHeaders ==
  ASSUME NEW s, NEW head \in Heads(s)
  PROVE  \E o \in Owners : IsPlace(s, o) /\ head = OwnerHeader(s, o)
<1>1. CASE \E zs \in {zone \in Zones : s.zone_flag[zone]} \X Slots : head = SlotHead(s, zs)
  <2>1. PICK zone \in Zones, slot \in Slots : /\ s.zone_flag[zone]
                                              /\ head = Header(s.arena[zone], zone, slot)
    BY <1>1 DEF SlotHead
  <2> DEFINE o == [zone |-> zone, slot |-> slot]
  <2>2. o \in Owners /\ IsPlace(s, o) /\ head = OwnerHeader(s, o)
    BY <2>1, OwnersMade DEF IsPlace, OwnerHeader
  <2> QED
    BY <2>2
<1>2. CASE \E e \in LiveEntries(s) : head = s.large[e]
  <2>1. PICK e \in Entries : e \in LiveEntries(s) /\ head = s.large[e]
    BY <1>2 DEF LiveEntries
  <2> DEFINE o == [zone |-> "large", slot |-> e]
  <2>2. o \in Owners /\ IsPlace(s, o) /\ head = OwnerHeader(s, o)
    BY <2>1, OwnersMade DEF IsPlace, OwnerHeader
  <2> QED
    BY <2>2
<1> QED
  BY <1>1, <1>2 DEF Heads

\* The block behind a pointer is the one find_live_allocation finds.
LEMMA LookupOfBlock ==
  ASSUME NEW s, AllocOK(s), NEW p, NEW n, BlockAt(s, p, n)
  PROVE  LET owner == find_live_allocation(s, p)
         IN  owner # NoOwner /\ Requested(s, owner) = n
<1> DEFINE owner == find_live_allocation(s, p)
<1>1. p \in Addr
  BY BlockNats
<1>2. owner # NoOwner /\ BlockAt(s, p, Requested(s, owner))
  BY <1>1, LookupExact
<1> HIDE DEF owner
<1>3. Requested(s, owner) = n
  BY <1>2, BlockLength
<1> QED
  BY <1>2, <1>3 DEF owner

-----------------------------------------------------------------------------
(***************************************************************************)
(* A pointer is accepted as live exactly if the client was given it and    *)
(* has not given it back, with the length it asked for last: no double     *)
(* free, stale, interior or foreign pointer reaches a block.               *)
(***************************************************************************)
THEOREM AgreementCorrect == Spec => []Agreement
<1>1. BlocksInv => Agreement
  <2> SUFFICES ASSUME BlocksInv, running
               PROVE  /\ LivePtrs(manage_free) = DOMAIN owned
                      /\ \A p \in DOMAIN owned :
                           LET owner == find_live_allocation(manage_free, p)
                           IN  owner # NoOwner /\ Requested(manage_free, owner) = owned[p].size
    BY DEF Agreement
  <2>1. AllocOK(manage_free)
        /\ \A p, n : BlockAt(manage_free, p, n) <=> p \in DOMAIN owned /\ n = owned[p].size
    BY InvParts DEF Matches
  <2>2. \A p : p \in LivePtrs(manage_free) <=> p \in DOMAIN owned
    BY <2>1, LivePtrsAreBlocks
  <2>3. LivePtrs(manage_free) = DOMAIN owned
    BY <2>2
  <2>4. ASSUME NEW p \in DOMAIN owned
        PROVE  LET owner == find_live_allocation(manage_free, p)
               IN  owner # NoOwner /\ Requested(manage_free, owner) = owned[p].size
    BY <2>1, LookupOfBlock
  <2> QED
    BY <2>3, <2>4
<1> QED
  BY <1>1, BlocksInvHolds, PTL

(***************************************************************************)
(* The client's blocks share no byte with each other or with a header, and *)
(* are mapped memory, also when print_error has ended the process.         *)
(***************************************************************************)
THEOREM NoOverlapCorrect == Spec => []NoOverlap
<1>1. BlocksInv => NoOverlap
  <2> SUFFICES ASSUME BlocksInv PROVE NoOverlap
    OBVIOUS
  <2>1. AllocOK(manage_free)
        /\ \A p \in DOMAIN owned : BlockAt(manage_free, p, owned[p].size)
    BY IInvParts DEF BlocksInv, Agreed, Holds
  <2>2. \A p, q \in DOMAIN owned : p # q => Bytes(p) \cap Bytes(q) = {}
    BY <2>1, BlocksApart DEF Bytes
  <2>3. ASSUME NEW p \in DOMAIN owned
        PROVE  /\ PagesOf(p, owned[p].size) \subseteq manage_free.pages
               /\ \A head \in Heads(manage_free) : Bytes(p) \cap Region(head, METASIZE) = {}
    BY <2>1, BlockMemory, HeadsAreHeaders DEF Bytes
  <2> QED
    BY <2>2, <2>3 DEF NoOverlap
<1> QED
  BY <1>1, BlocksInvHolds, PTL

(***************************************************************************)
(* No call returns a pointer that is already in the client's hands.        *)
(***************************************************************************)
THEOREM NoAliasCorrect == Spec => []NoAlias
<1>1. BlocksInv => NoAlias
  BY DEF BlocksInv, Agreed, Explained, NoAlias
<1> QED
  BY <1>1, BlocksInvHolds, PTL

(***************************************************************************)
(* A call that fails does so for one of the four reasons, and that reason  *)
(* is true of the state it leaves.                                         *)
(***************************************************************************)
THEOREM NullExplainedCorrect == Spec => []NullExplained
<1>1. BlocksInv => NullExplained
  <2> SUFFICES ASSUME BlocksInv, reply.null
               PROVE  reply.refused \/ reply.huge \/ Full(reply.class) \/ Abandoned(reply.class)
    BY DEF NullExplained
  <2>1. reply.refused \/ reply.huge \/ Exhausted(manage_free, reply.class)
    BY DEF BlocksInv, Agreed, Explained
  <2>2. reply.class \in Zones \cup {"large"}
    BY IInvParts DEF BlocksInv, ClientOK, Reply, Classes
  <2> QED
    BY <2>1, <2>2 DEF Exhausted, Full, Abandoned
<1> QED
  BY <1>1, BlocksInvHolds, PTL

(***************************************************************************)
(* Every block still reads what the client left in it, and what calloc or  *)
(* realloc promised it, whatever was called in between.                    *)
(***************************************************************************)
THEOREM ContentsKeptCorrect == Spec => []ContentsKept
<1>1. BlocksInv => ContentsKept
  BY InvParts DEF Matches, Reads, ContentsKept
<1> QED
  BY <1>1, BlocksInvHolds, PTL

-----------------------------------------------------------------------------
(***************************************************************************)
(* FtMalloc implements Heap: the tables are read as a map from pointers to *)
(* lengths, and each way the calls change the blocks is an action of Heap. *)
(***************************************************************************)
TableMap(s) == [p \in LivePtrs(s) |-> Requested(s, find_live_allocation(s, p))]

IsFunction(f) == f = [x \in DOMAIN f |-> f[x]]

LEMMA TableMapIs ==
  ASSUME NEW s, AllocOK(s)
  PROVE  /\ IsFunction(TableMap(s))
         /\ \A p, n : BlockAt(s, p, n) <=> p \in DOMAIN TableMap(s) /\ n = TableMap(s)[p]
<1> DEFINE f == TableMap(s)
<1>1. DOMAIN f = LivePtrs(s) /\ IsFunction(f)
      /\ \A p \in LivePtrs(s) : f[p] = Requested(s, find_live_allocation(s, p))
  BY DEF TableMap, IsFunction
<1> HIDE DEF f
<1>2. ASSUME NEW p, NEW n, BlockAt(s, p, n) PROVE p \in DOMAIN f /\ n = f[p]
  <2>1. p \in LivePtrs(s)
    BY <1>2, LivePtrsAreBlocks
  <2> QED
    BY <1>1, <1>2, <2>1, LookupOfBlock
<1>3. ASSUME NEW p \in DOMAIN f PROVE BlockAt(s, p, f[p])
  <2>1. PICK n : BlockAt(s, p, n)
    BY <1>1, LivePtrsAreBlocks
  <2> QED
    BY <1>2, <2>1
<1> QED
  BY <1>1, <1>2, <1>3 DEF f

\* What Heap calls the extent of a block and the bytes that blocks cover.
LEMMA CoveredIs ==
  ASSUME NEW f, NEW a
  PROVE  a \in AbstractHeap!Covered(f) <=> \E p \in DOMAIN f : a \in Region(p, f[p])
  BY DEF AbstractHeap!Covered, AbstractHeap!Extent, Region

LEMMA CoveredBlocks ==
  ASSUME NEW s, AllocOK(s), NEW a
  PROVE  a \in AbstractHeap!Covered(TableMap(s))
           <=> \E p, n : BlockAt(s, p, n) /\ a \in Region(p, n)
  BY CoveredIs, TableMapIs

LEMMA GrantStep ==
  ASSUME AllocOK(manage_free), AllocOK(manage_free'),
         NEW q, NEW k, Adds(manage_free, manage_free', q, k),
         \A p, n : BlockAt(manage_free, p, n) => KeepsBytes(manage_free, manage_free', p, n)
  PROVE  AbstractHeap!Grant
<1> DEFINE s == manage_free
           t == manage_free'
           f == TableMap(s)
           g == TableMap(t)
<1>1. /\ IsFunction(f) /\ \A p, n : BlockAt(s, p, n) <=> p \in DOMAIN f /\ n = f[p]
      /\ IsFunction(g) /\ \A p, n : BlockAt(t, p, n) <=> p \in DOMAIN g /\ n = g[p]
  BY TableMapIs
<1>2. TableBlocks = f /\ TableBlocks' = g
  BY DEF TableBlocks, TableMap, LivePtrs, LiveSlots, SlotHead
<1>3. \A a \in AbstractHeap!Covered(f) : t.mem[a] = s.mem[a]
  BY CoveredBlocks DEF KeepsBytes
<1>4. q \in DOMAIN g \ DOMAIN f /\ g[q] = k /\ BlockAt(t, q, k)
  BY <1>1 DEF Adds
<1>5. /\ k \in Nat \ {0} /\ Region(q, k) \subseteq Addr
  BY <1>4, BlockNats
<1>6. Region(q, k) \cap AbstractHeap!Covered(f) = {}
  <2> SUFFICES ASSUME NEW p, NEW n, BlockAt(s, p, n) PROVE Region(q, k) \cap Region(p, n) = {}
    BY CoveredBlocks
  <2>1. BlockAt(t, p, n) /\ p # q
    BY DEF Adds
  <2> QED
    BY <1>4, <2>1, BlocksApart
<1>7. g = [p \in DOMAIN f \cup {q} |-> IF p = q THEN g[q] ELSE f[p]]
  <2>1. DOMAIN g = DOMAIN f \cup {q} /\ \A p \in DOMAIN f : p # q => g[p] = f[p]
    BY <1>1, <1>4 DEF Adds
  <2> QED
    BY <1>1, <2>1 DEF IsFunction
<1> HIDE DEF f, g
<1> QED
  BY <1>2, <1>3, <1>4, <1>5, <1>6, <1>7
  DEF AbstractHeap!Grant, AbstractHeap!Keeps, AbstractHeap!Extent, Region

LEMMA ReleaseStep ==
  ASSUME AllocOK(manage_free), AllocOK(manage_free'),
         NEW q, \E n : BlockAt(manage_free, q, n), Removes(manage_free, manage_free', q),
         \A p, n : BlockAt(manage_free', p, n) => KeepsBytes(manage_free, manage_free', p, n)
  PROVE  AbstractHeap!Release
<1> DEFINE s == manage_free
           t == manage_free'
           f == TableMap(s)
           g == TableMap(t)
<1>1. /\ IsFunction(f) /\ \A p, n : BlockAt(s, p, n) <=> p \in DOMAIN f /\ n = f[p]
      /\ IsFunction(g) /\ \A p, n : BlockAt(t, p, n) <=> p \in DOMAIN g /\ n = g[p]
  BY TableMapIs
<1>2. TableBlocks = f /\ TableBlocks' = g
  BY DEF TableBlocks, TableMap, LivePtrs, LiveSlots, SlotHead
<1>3. \A a \in AbstractHeap!Covered(g) : t.mem[a] = s.mem[a]
  BY CoveredBlocks DEF KeepsBytes
<1>4. q \in DOMAIN f \ DOMAIN g
  BY <1>1 DEF Removes
<1>5. g = [p \in DOMAIN f \ {q} |-> f[p]]
  <2>1. DOMAIN g = DOMAIN f \ {q} /\ \A p \in DOMAIN g : g[p] = f[p]
    BY <1>1, <1>4 DEF Removes
  <2> QED
    BY <1>1, <2>1 DEF IsFunction
<1> HIDE DEF f, g
<1> QED
  BY <1>2, <1>3, <1>4, <1>5 DEF AbstractHeap!Release, AbstractHeap!Keeps

LEMMA ResizeStep ==
  ASSUME AllocOK(manage_free), AllocOK(manage_free'),
         NEW p, \E m : BlockAt(manage_free, p, m), NEW q, NEW n \in Nat,
         \/ q = p /\ Resizes(manage_free, manage_free', p, n) /\ manage_free'.mem = manage_free.mem
         \/ q # p /\ Moves(manage_free, manage_free', p, q, n)
  PROVE  AbstractHeap!Resize
<1> DEFINE s == manage_free
           t == manage_free'
           f == TableMap(s)
           g == TableMap(t)
           others == [r \in DOMAIN f \ {p} |-> f[r]]
<1>1. /\ IsFunction(f) /\ \A r, k : BlockAt(s, r, k) <=> r \in DOMAIN f /\ k = f[r]
      /\ IsFunction(g) /\ \A r, k : BlockAt(t, r, k) <=> r \in DOMAIN g /\ k = g[r]
  BY TableMapIs
<1>2. TableBlocks = f /\ TableBlocks' = g
  BY DEF TableBlocks, TableMap, LivePtrs, LiveSlots, SlotHead
<1>3. p \in DOMAIN f /\ BlockAt(s, p, f[p]) /\ f[p] \in Nat /\ p \in Nat
  BY <1>1, BlockNats
<1>4. /\ BlockAt(t, q, n) /\ q \in DOMAIN g /\ g[q] = n
      /\ q \in (DOMAIN g \ DOMAIN f) \cup (DOMAIN g \cap {p})
  BY <1>1 DEF Resizes, Moves
<1>5. n > 0 /\ q \in Nat /\ Region(q, n) \subseteq Addr
  BY <1>4, BlockNats
<1> HIDE DEF f, g
<1>6. DOMAIN others = DOMAIN f \ {p} /\ \A r \in DOMAIN others : others[r] = f[r]
  OBVIOUS
<1> HIDE DEF others
<1>7. ASSUME NEW r \in DOMAIN others
      PROVE  BlockAt(s, r, others[r]) /\ BlockAt(t, r, others[r]) /\ r # q /\ r # p
  <2>1. BlockAt(s, r, others[r]) /\ r # p
    BY <1>1, <1>6
  <2> QED
    BY <2>1 DEF Resizes, Moves
<1>8. \A a \in AbstractHeap!Covered(others) : t.mem[a] = s.mem[a]
  BY <1>7, CoveredIs DEF Moves, KeepsBytes
<1>9. Region(q, n) \cap AbstractHeap!Covered(IF p = q THEN others ELSE f) = {}
  <2>1. \A r \in DOMAIN others : Region(q, n) \cap Region(r, others[r]) = {}
    BY <1>4, <1>7, BlocksApart
  <2>2. q # p => Region(q, n) \cap Region(p, f[p]) = {}
    BY <1>3 DEF Moves
  <2>3. CASE p = q
    BY <2>1, <2>3, CoveredIs
  <2>4. CASE p # q
    <3>1. \A r \in DOMAIN f : Region(q, n) \cap Region(r, f[r]) = {}
      BY <1>6, <2>1, <2>2, <2>4
    <3> QED
      BY <2>4, <3>1, CoveredIs
  <2> QED
    BY <2>3, <2>4
<1>10. g = [r \in DOMAIN others \cup {q} |-> IF r = q THEN g[q] ELSE others[r]]
  <2>1. ASSUME NEW r, r \in DOMAIN g, r # q PROVE r \in DOMAIN f /\ r # p
    <3>1. BlockAt(t, r, g[r])
      BY <1>1, <2>1
    <3>2. BlockAt(s, r, g[r]) /\ r # p
      BY <2>1, <3>1 DEF Resizes, Moves
    <3> QED
      BY <1>1, <3>2
  <2>2. \A r \in DOMAIN others : r \in DOMAIN g /\ g[r] = others[r]
    BY <1>1, <1>7
  <2>3. DOMAIN g = DOMAIN others \cup {q}
    BY <1>4, <1>6, <2>1, <2>2
  <2> QED
    BY <1>1, <1>7, <2>2, <2>3 DEF IsFunction
<1>11. \A i \in 0 .. (n - 1) : i < f[p] => t.mem[q + i] = s.mem[p + i]
  BY <1>3 DEF Moves
<1>12. others = [r \in DOMAIN f \ {p} |-> f[r]]
  BY DEF others
<1> DEFINE R(h, b, x, y, rest) ==
             /\ b[y] > 0 /\ AbstractHeap!Extent(y, b[y]) \subseteq Addr
             /\ AbstractHeap!Extent(y, b[y])
                  \cap AbstractHeap!Covered(IF x = y THEN rest ELSE h) = {}
             /\ b = [r \in DOMAIN rest \cup {y} |-> IF r = y THEN b[y] ELSE rest[r]]
             /\ AbstractHeap!Keeps(rest)
             /\ \A i \in 0 .. (b[y] - 1) : i < h[x] => t.mem[y + i] = s.mem[x + i]
<1>13. R(f, g, p, q, others)
  BY <1>4, <1>5, <1>8, <1>9, <1>10, <1>11 DEF AbstractHeap!Extent, AbstractHeap!Keeps, Region
<1>14. \E b \in {TableBlocks'}, x \in DOMAIN TableBlocks :
         \E y \in (DOMAIN b \ DOMAIN TableBlocks) \cup (DOMAIN b \cap {x}) :
           R(TableBlocks, b, x, y, [r \in DOMAIN TableBlocks \ {x} |-> TableBlocks[r]])
  <2> HIDE DEF R
  <2> QED
    BY <1>2, <1>3, <1>4, <1>12, <1>13
<1> QED
  BY <1>14, Zenon DEF AbstractHeap!Resize

\* The blocks are as they were, and so are the bytes of all of them, or of
\* all but one.
LEMMA SameMap ==
  ASSUME AllocOK(manage_free), AllocOK(manage_free'), SameBlocks(manage_free, manage_free')
  PROVE  TableBlocks' = TableBlocks /\ TableBlocks = TableMap(manage_free)
<1> DEFINE f == TableMap(manage_free)
           g == TableMap(manage_free')
<1>1. /\ IsFunction(f) /\ IsFunction(g)
      /\ \A p, n : BlockAt(manage_free, p, n) <=> p \in DOMAIN f /\ n = f[p]
      /\ \A p, n : BlockAt(manage_free', p, n) <=> p \in DOMAIN g /\ n = g[p]
  BY TableMapIs
<1>2. TableBlocks = f /\ TableBlocks' = g
  BY DEF TableBlocks, TableMap, LivePtrs, LiveSlots, SlotHead
<1> HIDE DEF f, g
<1>3. DOMAIN f = DOMAIN g /\ \A p \in DOMAIN f : g[p] = f[p]
  BY <1>1 DEF SameBlocks
<1>4. f = g
  BY <1>1, <1>3 DEF IsFunction
<1> QED
  BY <1>2, <1>4 DEF f

LEMMA IdleStep ==
  ASSUME AllocOK(manage_free), AllocOK(manage_free'), SameBlocks(manage_free, manage_free'),
         manage_free'.mem = manage_free.mem
  PROVE  AbstractHeap!Idle
<1>1. UNCHANGED TableBlocks
  BY SameMap
<1> QED
  BY <1>1 DEF AbstractHeap!Idle, AbstractHeap!Keeps

LEMMA StoreStep ==
  ASSUME BlocksInv, AllocOK(manage_free'), running, NEW p \in DOMAIN owned, NEW v \in Values,
         Write(p, v)
  PROVE  AbstractHeap!Store
<1> DEFINE n == owned[p].size
           f == TableMap(manage_free)
           others == [q \in DOMAIN f \ {p} |-> f[q]]
<1>1. AllocOK(manage_free) /\ BlockAt(manage_free, p, n)
  BY InvParts DEF Holds
<1>2. /\ SameBlocks(manage_free, manage_free')
      /\ \A a \in Addr : manage_free'.mem[a]
                           = IF a \in Region(p, n) THEN v ELSE manage_free.mem[a]
  BY <1>1, ZeroedBytes DEF Write, AllocOK
<1>3. \A q, k : BlockAt(manage_free, q, k) <=> q \in DOMAIN f /\ k = f[q]
  BY <1>1, TableMapIs
<1>4. UNCHANGED TableBlocks /\ TableBlocks = f
  BY <1>1, <1>2, SameMap
<1> HIDE DEF f, n
<1>5. p \in DOMAIN f
  BY <1>1, <1>3
<1>6. ASSUME NEW q \in DOMAIN others, NEW a \in Region(q, others[q])
      PROVE  manage_free'.mem[a] = manage_free.mem[a]
  <2>1. BlockAt(manage_free, q, others[q]) /\ q # p
    BY <1>3
  <2>2. Region(q, others[q]) \cap Region(p, n) = {} /\ Region(q, others[q]) \subseteq Addr
    BY <1>1, <2>1, BlocksApart, BlockNats
  <2>3. a \in Addr /\ a \notin Region(p, n)
    BY ONLY <2>2, a \in Region(q, others[q])
  <2> QED
    BY ONLY <1>2, <2>3
<1>7. \A a \in AbstractHeap!Covered(others) : manage_free'.mem[a] = manage_free.mem[a]
  BY <1>6, CoveredIs
<1>8. AbstractHeap!Keeps([q \in DOMAIN TableBlocks \ {p} |-> TableBlocks[q]])
  <2>1. others = [q \in DOMAIN TableBlocks \ {p} |-> TableBlocks[q]]
    BY ONLY <1>4
  <2>2. \A a \in AbstractHeap!Covered([q \in DOMAIN TableBlocks \ {p} |-> TableBlocks[q]]) :
           manage_free'.mem[a] = manage_free.mem[a]
    BY ONLY <1>7, <2>1
  <2> QED
    BY ONLY <2>2 DEF AbstractHeap!Keeps
<1>9. p \in DOMAIN TableBlocks /\ UNCHANGED TableBlocks
  BY ONLY <1>4, <1>5
<1> QED
  BY ONLY <1>8, <1>9 DEF AbstractHeap!Store

LEMMA MallocImplements ==
  ASSUME AllocOK(manage_free), AllocOK(manage_free'), NEW n \in Nat,
         NEW o \in malloc_impl(manage_free, n), manage_free' = o.st
  PROVE  AbstractHeap!Grant \/ AbstractHeap!Idle
<1>1. /\ o.st.mem = manage_free.mem
      /\ IF o.ret = NULL THEN SameBlocks(manage_free, o.st)
         ELSE Adds(manage_free, o.st, o.ret, AtLeastOne(n))
  BY MallocImplAddsOne
<1>2. CASE o.ret = NULL
  BY <1>1, <1>2, IdleStep
<1>3. CASE o.ret # NULL
  <2>1. \A p, k : BlockAt(manage_free, p, k) => KeepsBytes(manage_free, manage_free', p, k)
    BY <1>1 DEF KeepsBytes
  <2> QED
    BY <1>1, <1>3, <2>1, GrantStep
<1> QED
  BY <1>2, <1>3

LEMMA FreeImplements ==
  ASSUME AllocOK(manage_free), AllocOK(manage_free'), NEW p \in Addr,
         NEW o \in free_impl(manage_free, p), manage_free' = o.st
  PROVE  AbstractHeap!Release \/ AbstractHeap!Idle
<1>1. CASE o.st = manage_free
  BY <1>1, SameBlocksItself, IdleStep
<1>2. CASE /\ \E n : BlockAt(manage_free, p, n) /\ Removes(manage_free, o.st, p)
           /\ \A q, n : BlockAt(o.st, q, n) => KeepsBytes(manage_free, o.st, q, n)
  BY <1>2, ReleaseStep
<1> QED
  BY <1>1, <1>2, FreeImplRemovesOne

LEMMA CallocImplements ==
  ASSUME AllocOK(manage_free), AllocOK(manage_free'), NEW k \in Nat, NEW n \in Nat,
         NEW o \in callo_imp(manage_free, k, n), manage_free' = o.st
  PROVE  AbstractHeap!Grant \/ AbstractHeap!Idle
<1>1. /\ o.ret = NULL => SameBlocks(manage_free, o.st) /\ o.st.mem = manage_free.mem
      /\ o.ret # NULL =>
           /\ Adds(manage_free, o.st, o.ret, AtLeastOne(k * n))
           /\ \A p, m : BlockAt(manage_free, p, m) => KeepsBytes(manage_free, o.st, p, m)
  BY CalloImpAddsZeros
<1> QED
  BY <1>1, IdleStep, GrantStep

\* realloc that ends in exit has granted a block and not released the other.
LEMMA ReallocImplements ==
  ASSUME AllocOK(manage_free), AllocOK(manage_free'), NEW p \in Addr, NEW n \in Nat,
         NEW o \in realloc_impl(manage_free, p, n), manage_free' = o.st
  PROVE  AbstractHeap!HeapNext
<1>1. CASE p = NULL
  <2>1. o \in malloc_impl(manage_free, n)
    BY <1>1 DEF realloc_impl
  <2> QED
    BY <2>1, MallocImplements DEF AbstractHeap!HeapNext
<1>2. CASE p # NULL /\ n = 0
  <2>1. o \in free_impl(manage_free, p)
    BY <1>2 DEF realloc_impl
  <2> QED
    BY <2>1, FreeImplements DEF AbstractHeap!HeapNext
<1>3. CASE p # NULL /\ n # 0
  <2>0. p \in Addr \ {0} /\ n \in Nat \ {0} /\ AtLeastOne(n) = n
    BY <1>3 DEF AtLeastOne
  <2>1. CASE o = Return(manage_free, NULL)
    <3>1. o.st = manage_free
      BY <2>1 DEF Return
    <3> QED
      BY <3>1, SameBlocksItself, IdleStep DEF AbstractHeap!HeapNext
  <2>2. CASE SameBlocks(manage_free, o.st) /\ o.st.mem = manage_free.mem
    BY <2>2, IdleStep DEF AbstractHeap!HeapNext
  <2>3. CASE /\ \E m : BlockAt(manage_free, p, m)
             /\ \/ o.ret = p /\ Resizes(manage_free, o.st, p, n) /\ o.st.mem = manage_free.mem
                \/ o.ret # p /\ Moves(manage_free, o.st, p, o.ret, n)
    BY <2>3, ResizeStep DEF AbstractHeap!HeapNext
  <2>4. CASE AddsAndKeeps(manage_free, o.st, o.ret, n)
    BY <2>4, GrantStep DEF AddsAndKeeps, AbstractHeap!HeapNext
  <2> QED
    BY <2>0, <2>1, <2>2, <2>3, <2>4, ReallocImplResizesOne
<1> QED
  BY <1>1, <1>2, <1>3

(***************************************************************************)
(* FtMalloc implements Heap: what the tables say of the blocks, and what   *)
(* the memory holds there, changes in every step as Heap allows.           *)
(***************************************************************************)
THEOREM ImplementsHeapCorrect == Spec => ImplementsHeap
<1>1. Init => AbstractHeap!HeapInit
  <2> SUFFICES ASSUME Init PROVE AbstractHeap!HeapInit
    OBVIOUS
  <2>1. AllocOK(manage_free) /\ Matches(manage_free, owned) /\ DOMAIN owned = {}
    BY InitIInv, InitAgreed, IInvParts DEF Init, Agreed
  <2> DEFINE f == TableMap(manage_free)
  <2>2. IsFunction(f) /\ \A p, n : BlockAt(manage_free, p, n) <=> p \in DOMAIN f /\ n = f[p]
    BY <2>1, TableMapIs
  <2>3. TableBlocks = f
    BY DEF TableBlocks, TableMap
  <2> HIDE DEF f
  <2>4. DOMAIN f = {}
    BY <2>1, <2>2 DEF Matches
  <2>5. f = << >>
    BY <2>2, <2>4 DEF IsFunction
  <2> QED
    BY <2>1, <2>3, <2>5 DEF AbstractHeap!HeapInit, AllocOK, StateType
<1>2. BlocksInv /\ BlocksInv' /\ [Next]_vars => [AbstractHeap!HeapNext]_(AbstractHeap!heapVars)
  <2> SUFFICES ASSUME BlocksInv, BlocksInv', [Next]_vars
               PROVE  AbstractHeap!HeapNext \/ UNCHANGED AbstractHeap!heapVars
    OBVIOUS
  <2>1. AllocOK(manage_free) /\ AllocOK(manage_free')
    BY IInvParts, IInvPartsNext DEF BlocksInv
  <2>2. ASSUME NEW n \in Sizes, Malloc(n) PROVE AbstractHeap!HeapNext
    BY <2>1, <2>2, InputsTyped, MallocImplements DEF Malloc, Became, AbstractHeap!HeapNext
  <2>3. ASSUME NEW k \in Counts, NEW n \in Sizes, Calloc(k, n) PROVE AbstractHeap!HeapNext
    BY <2>1, <2>3, InputsTyped, CallocImplements DEF Calloc, Became, AbstractHeap!HeapNext
  <2>4. ASSUME NEW p \in Pointers, Free(p) PROVE AbstractHeap!HeapNext
    BY <2>1, <2>4, InputsTyped, FreeImplements DEF Free, Became, AbstractHeap!HeapNext
  <2>5. ASSUME NEW p \in Pointers, NEW n \in Sizes, Realloc(p, n) PROVE AbstractHeap!HeapNext
    <3>1. PICK o \in realloc_impl(manage_free, p, n) : manage_free' = o.st
      BY <2>5 DEF Realloc, Became
    <3> QED
      BY <2>1, <3>1, InputsTyped, ReallocImplements
  <2>6. ASSUME running, NEW p \in DOMAIN owned, NEW v \in Values \ {0}, Write(p, v)
        PROVE  AbstractHeap!HeapNext
    BY <2>1, <2>6, StoreStep DEF AbstractHeap!HeapNext
  <2>7. CASE UNCHANGED vars
    BY <2>7 DEF vars, AbstractHeap!heapVars, TableBlocks, LivePtrs, LiveSlots, SlotHead
  <2> QED
    BY <2>2, <2>3, <2>4, <2>5, <2>6, <2>7 DEF Next
<1> QED
  BY <1>1, <1>2, BlocksInvHolds, PTL DEF Spec, ImplementsHeap, AbstractHeap!HeapSpec

-----------------------------------------------------------------------------
(***************************************************************************)
(* The listing of show_alloc_mem.  Its lengths pass through an int; what   *)
(* it shows is right as long as every stride and mapping fits in one.      *)
(***************************************************************************)
LengthsAreInts(s) ==
  /\ SMALL <= INT_MAX
  /\ \A e \in LiveEntries(s) : s.meta[s.large[e]].size <= INT_MAX

\* A line shows the place: its header, the length asked for, its cell.
LEMMA LineFields ==
  ASSUME NEW s, AllocOK(s), LengthsAreInts(s), NEW o \in Owners, InUse(s, o),
         NEW line, line = LineOf(s, o)
  PROVE  /\ line.zone = o.zone /\ line.from = OwnerHeader(s, o)
         /\ line.bytes = Requested(s, o) /\ line.to = OwnerHeader(s, o) + Requested(s, o)
         /\ line.unit = CellLen(s, o)
<1> DEFINE head == OwnerHeader(s, o)
           meta == s.meta[head]
           size == IF o.zone = "large" THEN meta.size ELSE meta.size - (meta.size % INDEX_UNIT)
<1>1. IsPlace(s, o) /\ Requested(s, o) \in Nat \ {0}
      /\ Requested(s, o) <= CellLen(s, o) - METASIZE
  BY UseFacts
<1>2. CellLen(s, o) \in Nat
  BY <1>1, PlaceFacts
<1>3. meta.client_size = Requested(s, o) /\ size = CellLen(s, o) /\ CellLen(s, o) <= INT_MAX
  <2>1. CASE o.zone = "large"
    <3>1. /\ o.slot \in LiveEntries(s) /\ head = s.large[o.slot]
          /\ Requested(s, o) = s.large_request_sizes[o.slot] /\ CellLen(s, o) = meta.size
      BY <1>1, <2>1 DEF IsPlace, OwnerHeader, Requested, CellLen
    <3>2. EntryOK(s, o.slot)
      BY <3>1, Positive DEF AllocOK, LargeOK, LiveEntries
    <3>3. meta.client_size = ToInt(Requested(s, o)) /\ CellLen(s, o) <= INT_MAX
      BY <3>1, <3>2 DEF EntryOK, LengthsAreInts
    <3>4. Requested(s, o) \in 0 .. INT_MAX
      BY <1>1, <1>2, <3>3, Positive
    <3>5. ToInt(Requested(s, o)) = Requested(s, o)
      BY <3>4, ToIntSmall
    <3> QED
      BY <2>1, <3>1, <3>3, <3>5
  <2>2. CASE o.zone \in Zones
    <3>1. /\ o.zone # "large" /\ o.slot \in Slots /\ s.zone_flag[o.zone]
          /\ head = Header(s.arena[o.zone], o.zone, o.slot)
          /\ Requested(s, o) = meta.client_size /\ CellLen(s, o) = Stride(o.zone)
      BY <1>1, <2>2 DEF IsPlace, OwnerHeader, Requested, CellLen
    <3>2. SlotOK(s, o.zone, o.slot)
      BY <2>2, <3>1 DEF AllocOK, PoolOK
    <3>3. meta.size = Stride(o.zone) + o.slot \div BITS
      BY <3>1, <3>2 DEF SlotOK
    <3>4. size = Stride(o.zone)
      BY <2>2, <3>1, <3>3, MaskIndex
    <3>5. Stride(o.zone) <= INT_MAX
      BY <2>2, SizesAssumption DEF Stride, LengthsAreInts
    <3> QED
      BY <3>1, <3>4, <3>5
  <2> QED
    BY <2>1, <2>2, OwnerCases
<1>4. ToInt(size) = CellLen(s, o)
  <2> HIDE DEF size
  <2> QED
    BY <1>2, <1>3, Positive, ToIntSmall
<1>5. line = [zone |-> o.zone, from |-> head, to |-> head + meta.client_size,
              bytes |-> meta.client_size, unit |-> ToInt(size)]
  BY DEF LineOf, ShownLine
<1> HIDE DEF head, meta, size
<1> QED
  BY <1>3, <1>4, <1>5 DEF head

\* The ranges shown, each from a header, are apart.
LEMMA LinesApart ==
  ASSUME NEW s, AllocOK(s), LengthsAreInts(s), NEW o \in Owners, InUse(s, o),
         NEW u \in Owners, InUse(s, u), u # o
  PROVE  LET l == LineOf(s, o)
             k == LineOf(s, u)
         IN  l.to <= k.from \/ k.to <= l.from
<1> DEFINE h == OwnerHeader(s, o)
           i == OwnerHeader(s, u)
           m == Requested(s, o)
           n == Requested(s, u)
<1>1. /\ LineOf(s, o).from = h /\ LineOf(s, o).to = h + m
      /\ LineOf(s, u).from = i /\ LineOf(s, u).to = i + n
  BY LineFields
<1>2. /\ IsPlace(s, o) /\ m \in Nat /\ m <= CellLen(s, o) - METASIZE
      /\ IsPlace(s, u) /\ n \in Nat /\ n <= CellLen(s, u) - METASIZE
  BY UseFacts
<1>3. /\ h \in Nat /\ CellLen(s, o) \in Nat /\ h \in Cell(s, o)
      /\ i \in Nat /\ CellLen(s, u) \in Nat /\ i \in Cell(s, u)
  BY <1>2, PlaceFacts DEF Addr
<1>4. h \notin Cell(s, u) /\ i \notin Cell(s, o)
  BY <1>2, <1>3, CellsApart
<1>5. Cell(s, o) = Region(h, CellLen(s, o)) /\ Cell(s, u) = Region(i, CellLen(s, u))
  BY DEF Cell
<1> HIDE DEF h, i, m, n
<1>6. h + m <= i \/ i + n <= h
  BY <1>2, <1>3, <1>4, <1>5, Positive DEF Region
<1> QED
  BY <1>1, <1>6

\* Line by block and block by line: where one is, there is the other, with
\* the same length as an int, and two lines are of two blocks.
LEMMA LinesAreBlocks ==
  ASSUME BlocksInv, running
  PROVE  LET lines == ShownLines(manage_free)
             D == DOMAIN owned
         IN  /\ IsFiniteSet(D) /\ IsFiniteSet(lines) /\ Cardinality(lines) = Cardinality(D)
             /\ \A line \in lines :
                  line.from + METASIZE \in D /\ line.bytes = ToInt(owned[line.from + METASIZE].size)
             /\ \A p \in D : \E line \in lines : p = line.from + METASIZE
             /\ \A line, other \in lines : line.from + METASIZE = other.from + METASIZE => line = other
<1> DEFINE s == manage_free
           lines == ShownLines(s)
           D == DOMAIN owned
<1>1. AllocOK(s) /\ D \subseteq Addr
      /\ \A p, n : BlockAt(s, p, n) <=> p \in D /\ n = owned[p].size
  BY InvParts DEF Matches, IsHolding
<1>2. \A line : line \in lines <=> \E o \in Owners : InUse(s, o) /\ line = LineOf(s, o)
  BY <1>1, LinesOfPlaces
<1> HIDE DEF s, lines, D
<1>4. ASSUME NEW line \in lines
      PROVE  \E o \in Owners :
               /\ InUse(s, o) /\ line = LineOf(s, o)
               /\ line.from = OwnerHeader(s, o) /\ line.bytes = ToInt(Requested(s, o))
  BY <1>1, <1>2, LineOfBlock
<1>5. ASSUME NEW line \in lines
      PROVE  line.from + METASIZE \in D /\ line.bytes = ToInt(owned[line.from + METASIZE].size)
  <2>1. PICK o \in Owners : /\ InUse(s, o) /\ line.from = OwnerHeader(s, o)
                            /\ line.bytes = ToInt(Requested(s, o))
    BY <1>4
  <2>2. BlockAt(s, line.from + METASIZE, Requested(s, o))
    BY <2>1 DEF BlockAt
  <2>3. line.from + METASIZE \in D /\ Requested(s, o) = owned[line.from + METASIZE].size
    BY <1>1, <2>2
  <2> QED
    BY <2>1, <2>3
<1>6. ASSUME NEW p \in D
      PROVE  \E line \in lines : p = line.from + METASIZE
  <2>1. PICK o \in Owners : InUse(s, o) /\ p = OwnerHeader(s, o) + METASIZE
    BY <1>1, <1>6 DEF BlockAt
  <2>2. LineOf(s, o) \in lines
    BY <1>2, <2>1
  <2>3. LineOf(s, o).from = OwnerHeader(s, o)
    BY <1>1, <2>1, LineOfBlock
  <2> QED
    BY <2>1, <2>2, <2>3
<1>7. ASSUME NEW line \in lines, NEW other \in lines,
             line.from + METASIZE = other.from + METASIZE
      PROVE  line = other
  <2>1. PICK o \in Owners : InUse(s, o) /\ line = LineOf(s, o) /\ line.from = OwnerHeader(s, o)
    BY <1>4
  <2>2. PICK u \in Owners : InUse(s, u) /\ other = LineOf(s, u) /\ other.from = OwnerHeader(s, u)
    BY <1>4
  <2>3. u = o
    BY <1>1, <1>7, <2>1, <2>2, UseOfPointer
  <2> QED
    BY <2>1, <2>2, <2>3
<1>8. IsFiniteSet(D) /\ IsFiniteSet(lines) /\ Cardinality(lines) = Cardinality(D)
  <2> DEFINE f == [line \in lines |-> line.from + METASIZE]
  <2>1. f \in Injection(lines, D)
    BY <1>5, <1>7 DEF Injection, IsInjective
  <2>2. f \in Surjection(lines, D)
    <3>1. \A p \in D : \E line \in lines : f[line] = p
      BY <1>6
    <3> QED
      BY <1>5, <3>1 DEF Surjection
  <2>3. IsFiniteSet(D)
    <3>1. 0 \in Int /\ PAGES * PAGE - 1 \in Int
      BY Positive
    <3>2. IsFiniteSet(Addr)
      BY <3>1, FS_Interval DEF Addr
    <3> QED
      BY <1>1, <3>2, FS_Subset
  <2> HIDE DEF f
  <2> QED
    BY <2>1, <2>2, <2>3, FS_Injection
<1>9. /\ \A line \in lines :
           line.from + METASIZE \in D /\ line.bytes = ToInt(owned[line.from + METASIZE].size)
      /\ \A p \in D : \E line \in lines : p = line.from + METASIZE
      /\ \A line, other \in lines : line.from + METASIZE = other.from + METASIZE => line = other
  BY <1>5, <1>6, <1>7
<1> QED
  BY <1>8, <1>9 DEF s, lines, D

(***************************************************************************)
(* show_alloc_mem prints one line for each block the client has, with the  *)
(* length it asked for last and a unit with room for it, and no two of the *)
(* ranges printed share a byte.                                            *)
(***************************************************************************)
THEOREM ListingCorrect == Spec => [](LengthsAreInts(manage_free) => ListingIsLive)
<1>1. BlocksInv => (LengthsAreInts(manage_free) => ListingIsLive)
  <2> DEFINE s == manage_free
             lines == ShownLines(s)
             D == DOMAIN owned
  <2> SUFFICES ASSUME BlocksInv, LengthsAreInts(s), running
               PROVE  /\ Cardinality(lines) = Cardinality(D)
                      /\ {<<line.from + METASIZE, line.bytes>> : line \in lines} =
                           {<<p, owned[p].size>> : p \in D}
                      /\ \A line \in lines :
                           IF line.zone = "large" THEN line.unit >= METASIZE + line.bytes
                           ELSE line.unit = Stride(line.zone) /\ METASIZE + line.bytes <= line.unit
                      /\ \A line, other \in lines :
                           line # other => line.to <= other.from \/ other.to <= line.from
    BY DEF ListingIsLive
  <2>1. AllocOK(s) /\ D \subseteq Addr
        /\ \A p, n : BlockAt(s, p, n) <=> p \in D /\ n = owned[p].size
    BY InvParts DEF Matches, IsHolding
  <2>2. \A line : line \in lines <=> \E o \in Owners : InUse(s, o) /\ line = LineOf(s, o)
    BY <2>1, LinesOfPlaces
  <2> HIDE DEF s, lines, D
  <2>3. ASSUME NEW line \in lines
        PROVE  \E o \in Owners :
                 /\ InUse(s, o) /\ line = LineOf(s, o)
                 /\ line.zone = o.zone /\ line.from = OwnerHeader(s, o)
                 /\ line.bytes = Requested(s, o) /\ line.unit = CellLen(s, o)
    BY <2>1, <2>2, LineFields
  <2>4. /\ Cardinality(lines) = Cardinality(D)
        /\ \A line \in lines : line.from + METASIZE \in D
        /\ \A p \in D : \E line \in lines : p = line.from + METASIZE
    BY LinesAreBlocks DEF s, lines, D
  <2>5. {<<line.from + METASIZE, line.bytes>> : line \in lines} = {<<p, owned[p].size>> : p \in D}
    <3>1. ASSUME NEW line \in lines PROVE line.bytes = owned[line.from + METASIZE].size
      <4>1. PICK o \in Owners : /\ InUse(s, o) /\ line.from = OwnerHeader(s, o)
                                /\ line.bytes = Requested(s, o)
        BY <2>3
      <4> QED
        BY <2>1, <4>1 DEF BlockAt
    <3> QED
      BY <2>4, <3>1
  <2>6. ASSUME NEW line \in lines
        PROVE  IF line.zone = "large" THEN line.unit >= METASIZE + line.bytes
               ELSE line.unit = Stride(line.zone) /\ METASIZE + line.bytes <= line.unit
    <3>1. PICK o \in Owners : /\ InUse(s, o) /\ line.zone = o.zone
                              /\ line.bytes = Requested(s, o) /\ line.unit = CellLen(s, o)
      BY <2>3
    <3>2. /\ line.bytes \in Nat /\ line.bytes <= line.unit - METASIZE /\ line.unit \in Nat
      BY <2>1, <3>1, UseFacts, PlaceFacts
    <3>3. line.zone # "large" => line.unit = Stride(line.zone)
      BY <3>1 DEF CellLen
    <3> QED
      BY <3>2, <3>3, Positive
  <2>7. ASSUME NEW line \in lines, NEW other \in lines, line # other
         PROVE  line.to <= other.from \/ other.to <= line.from
    <3>1. PICK o \in Owners : InUse(s, o) /\ line = LineOf(s, o)
      BY <2>3
    <3>2. PICK u \in Owners : InUse(s, u) /\ other = LineOf(s, u)
      BY <2>3
    <3>3. u # o
      BY <2>7, <3>1, <3>2
    <3> QED
      BY <2>1, <3>1, <3>2, <3>3, LinesApart
  <2> QED
    BY <2>4, <2>5, <2>6, <2>7
<1> QED
  BY <1>1, BlocksInvHolds, PTL

-----------------------------------------------------------------------------
(***************************************************************************)
(* What an int keeps of an integer: two that differ by a multiple of what  *)
(* it counts to are the same int.                                          *)
(***************************************************************************)
IntRange == 2 * (INT_MAX + 1)

SameInt(a, b) == \E k \in Int : a = b + IntRange * k

LEMMA IntRangeType == IntRange \in Nat \ {0}
  BY Positive DEF IntRange

LEMMA SameIntSame == ASSUME NEW a \in Int PROVE SameInt(a, a)
<1>1. a = a + IntRange * 0
  BY IntRangeType
<1> QED
  BY <1>1 DEF SameInt

LEMMA SameIntAdds ==
  ASSUME NEW a \in Int, NEW b \in Int, SameInt(a, b),
         NEW c \in Int, NEW d \in Int, SameInt(c, d)
  PROVE  SameInt(a + c, b + d)
<1>1. PICK k \in Int : a = b + IntRange * k
  BY DEF SameInt
<1>2. PICK l \in Int : c = d + IntRange * l
  BY DEF SameInt
<1>3. a + c = (b + d) + IntRange * (k + l) /\ k + l \in Int
  BY <1>1, <1>2, IntRangeType
<1> QED
  BY <1>3 DEF SameInt

LEMMA SameIntJoins ==
  ASSUME NEW a \in Int, NEW b \in Int, NEW c \in Int, SameInt(a, b), SameInt(b, c)
  PROVE  SameInt(a, c)
<1>1. PICK k \in Int : a = b + IntRange * k
  BY DEF SameInt
<1>2. PICK l \in Int : b = c + IntRange * l
  BY DEF SameInt
<1>3. a = c + IntRange * (k + l) /\ k + l \in Int
  BY <1>1, <1>2, IntRangeType
<1> QED
  BY <1>3 DEF SameInt

\* The conversion keeps what an int keeps, and depends on nothing else.
LEMMA ToIntSame ==
  ASSUME NEW a \in Int
  PROVE  ToInt(a) \in Int /\ SameInt(ToInt(a), a)
<1>1. PICK q, r : q = a \div IntRange /\ r = a % IntRange
  OBVIOUS
<1>2. q \in Int /\ r \in 0 .. (IntRange - 1) /\ a = IntRange * q + r
  BY <1>1, IntRangeType, DivMod
<1>3. ToInt(a) = IF r > INT_MAX THEN r - IntRange ELSE r
  BY <1>1 DEF ToInt, IntRange
<1>4. /\ r = a + IntRange * (-q) /\ r - IntRange = a + IntRange * (-q - 1)
      /\ r \in Int /\ r - IntRange \in Int /\ -q \in Int /\ -q - 1 \in Int
  BY ONLY <1>2, IntRangeType
<1> QED
  BY <1>3, <1>4 DEF SameInt

LEMMA ToIntOfSame ==
  ASSUME NEW a \in Int, NEW b \in Int, SameInt(a, b)
  PROVE  ToInt(a) = ToInt(b)
<1>1. PICK k \in Int : a = b + IntRange * k
  BY DEF SameInt
<1>2. PICK q, r : q = b \div IntRange /\ r = b % IntRange
  OBVIOUS
<1>3. q \in Int /\ r \in 0 .. (IntRange - 1) /\ b = IntRange * q + r
  BY <1>2, IntRangeType, DivMod
<1>4. a = IntRange * (q + k) + r /\ q + k \in Int
  BY ONLY <1>1, <1>3, IntRangeType
<1>5. (IntRange * (q + k) + r) % IntRange = r
  BY ONLY <1>3, <1>4, IntRangeType, DivUnique
<1>6. a % IntRange = b % IntRange
  BY ONLY <1>2, <1>4, <1>5
<1> QED
  BY <1>6 DEF ToInt, IntRange

\* A size_t keeps at least as much.
LEMMA SizeSame ==
  ASSUME NEW a \in Int
  PROVE  a % (SIZE_MAX + 1) \in Int /\ SameInt(a % (SIZE_MAX + 1), a)
<1>1. PICK m, c : m = SIZE_MAX + 1 /\ c = m \div IntRange
  OBVIOUS
<1>2. m \in Nat \ {0} /\ m \in Int /\ m % IntRange = 0
  BY <1>1, Positive, WidthAssumption DEF IntRange
<1>3. c \in Int /\ m = IntRange * c
  BY ONLY <1>1, <1>2, IntRangeType, Divides
<1>4. PICK q, r : q = a \div m /\ r = a % m
  OBVIOUS
<1>5. q \in Int /\ r \in Int /\ a = m * q + r
  BY <1>2, <1>4, DivMod
<1>6. c * q \in Int /\ m * q = IntRange * (c * q)
  BY ONLY <1>3, <1>5, IntRangeType
<1>7. PICK k : k = 0 - (c * q)
  OBVIOUS
<1>8. k \in Int /\ IntRange * k = 0 - (m * q) /\ m * q \in Int
  BY ONLY <1>2, <1>5, <1>6, <1>7, IntRangeType
<1>9. r = a + IntRange * k
  BY ONLY <1>5, <1>8
<1> QED
  BY <1>1, <1>4, <1>5, <1>8, <1>9 DEF SameInt

(***************************************************************************)
(* Sums over finite sets: w[x] for each x of T, taken out of T one by one. *)
(***************************************************************************)
Picked(T) == CHOOSE x \in T : TRUE

IsSum(g, S, w) ==
  /\ IsFiniteSet(S) /\ \A x \in S : w[x] \in Int
  /\ g = [T \in SUBSET S |-> IF T = {} THEN 0 ELSE w[Picked(T)] + g[T \ {Picked(T)}]]

\* Induction over the subsets of a finite set: what every set has of which
\* all smaller ones have it, they all have.
LEMMA SubsetsByPart ==
  ASSUME NEW S, IsFiniteSet(S), NEW Good,
         \A T \in SUBSET S : (\A U \in SUBSET T : U # T => U \in Good) => T \in Good
  PROVE  \A T \in SUBSET S : T \in Good
<1> DEFINE Bad == (SUBSET S) \ Good
<1> SUFFICES ASSUME Bad # {} PROVE FALSE
  OBVIOUS
<1>1. Bad \subseteq FiniteSubsetsOf(S)
  BY FS_Subset DEF FiniteSubsetsOf
<1>2. PICK T \in Bad : \A U \in Bad : ~(<<U, T>> \in StrictSubsetOrdering(S))
  <2> HIDE DEF Bad
  <2> QED
    BY <1>1, FS_StrictSubsetOrderingWellFounded, WFMin
<1>3. ASSUME NEW U \in SUBSET T, U # T PROVE U \in Good
  <2>1. U \in SUBSET S
    OBVIOUS
  <2>2. <<U, T>> \in StrictSubsetOrdering(S)
    BY <1>3 DEF StrictSubsetOrdering
  <2> QED
    BY <1>2, <2>1, <2>2
<1> QED
  BY <1>3

LEMMA PickedIs == ASSUME NEW T, T # {} PROVE Picked(T) \in T
  BY DEF Picked

LEMMA SumExists ==
  ASSUME NEW S, IsFiniteSet(S), NEW w, \A x \in S : w[x] \in Int
  PROVE  \E g : IsSum(g, S, w)
<1> DEFINE Folded(g, T) == g[T] = IF T = {} THEN 0 ELSE w[Picked(T)] + g[T \ {Picked(T)}]
           Solves(g, n) == /\ g = [T \in SUBSET S |-> g[T]]
                           /\ \A T \in SUBSET S : Cardinality(T) <= n => Folded(g, T)
           Good == {n \in Nat : \E g : Solves(g, n)}
<1>1. ASSUME NEW T \in SUBSET S
      PROVE  /\ IsFiniteSet(T) /\ Cardinality(T) \in Nat /\ (T = {} <=> Cardinality(T) = 0)
             /\ T # {} => /\ T \ {Picked(T)} \in SUBSET S
                          /\ Cardinality(T \ {Picked(T)}) = Cardinality(T) - 1
  <2>1. IsFiniteSet(T)
    BY FS_Subset
  <2>2. Cardinality(T) \in Nat /\ (T = {} <=> Cardinality(T) = 0)
    BY <2>1, FS_CardinalityType, FS_EmptySet
  <2>3. T # {} => Cardinality(T \ {Picked(T)}) = Cardinality(T) - 1
    BY <2>1, PickedIs, FS_RemoveElement
  <2> QED
    BY <2>1, <2>2, <2>3
<1>2. 0 \in Good
  <2> DEFINE g == [T \in SUBSET S |-> 0]
  <2>1. ASSUME NEW T \in SUBSET S, Cardinality(T) <= 0 PROVE Folded(g, T)
    <3>1. T = {}
      <4>1. Cardinality(T) \in Nat /\ (T = {} <=> Cardinality(T) = 0)
        BY <1>1
      <4> QED
        BY ONLY <2>1, <4>1
    <3> QED
      BY <3>1
  <2>2. Solves(g, 0)
    <3> HIDE DEF Folded
    <3> QED
      BY <2>1
  <2> HIDE DEF g, Solves
  <2> QED
    BY <2>2
<1>3. ASSUME NEW n \in Good PROVE n + 1 \in Good
  <2>1. n \in Nat
    OBVIOUS
  <2>2. PICK g : \A T \in SUBSET S : Cardinality(T) <= n => Folded(g, T)
    <3>1. PICK q : Solves(q, n)
      OBVIOUS
    <3> HIDE DEF Folded
    <3> QED
      BY <3>1
  <2> DEFINE h == [T \in SUBSET S |-> IF Cardinality(T) <= n THEN g[T] ELSE w[Picked(T)] + g[T \ {Picked(T)}]]
  <2>3. h = [T \in SUBSET S |-> h[T]]
    OBVIOUS
  <2>4. ASSUME NEW T \in SUBSET S, Cardinality(T) <= n + 1 PROVE Folded(h, T)
    <3>1. CASE T = {}
      <4>1. Cardinality(T) <= n
        <5>1. Cardinality(T) = 0
          BY <1>1, <3>1
        <5> QED
          BY ONLY <2>1, <5>1
      <4>2. h[T] = g[T] /\ Folded(g, T)
        BY <2>2, <4>1
      <4> QED
        BY <3>1, <4>2
    <3>2. CASE T # {}
      <4>1. PICK U : U = T \ {Picked(T)}
        OBVIOUS
      <4>2. U \in SUBSET S /\ Cardinality(U) <= n
        <5>1. U \in SUBSET S /\ Cardinality(U) = Cardinality(T) - 1 /\ Cardinality(T) \in Nat
          BY <1>1, <3>2, <4>1
        <5> QED
          BY ONLY <2>1, <2>4, <5>1
      <4>3. h[U] = g[U]
        BY <4>2
      <4>4. h[T] = w[Picked(T)] + g[U]
        BY <2>2, <3>2, <4>1
      <4> QED
        BY <3>2, <4>1, <4>3, <4>4
    <3> QED
      BY <3>1, <3>2
  <2>5. Solves(h, n + 1)
    <3> HIDE DEF h, Folded
    <3> QED
      BY <2>3, <2>4
  <2> HIDE DEF h, Solves
  <2> QED
    BY <2>1, <2>5
<1>4. Good \in SUBSET Nat
  OBVIOUS
<1>5. PICK b : b = Cardinality(S)
  OBVIOUS
<1>6. b \in Nat
  BY <1>1, <1>5
<1> HIDE DEF Good
<1>7. b \in Good
  <2> DEFINE Bad == Nat \ Good
  <2> SUFFICES ASSUME Bad # {} PROVE FALSE
    BY <1>6
  <2>1. PICK n : n = Min(Bad)
    OBVIOUS
  <2>2. n \in Bad /\ \A k \in Bad : n <= k
    <3>1. Bad \in SUBSET Nat
      OBVIOUS
    <3> HIDE DEF Bad
    <3> QED
      BY <2>1, <3>1, MinIsLeast
  <2>3. n # 0 /\ n - 1 \in Nat
    BY <1>2, <2>2
  <2>4. n - 1 \in Good
    BY <2>2, <2>3
  <2>5. n - 1 + 1 \in Good
    BY <1>3, <2>4
  <2> QED
    BY <2>2, <2>3, <2>5
<1> USE DEF Good
<1>8. PICK g : g = [T \in SUBSET S |-> g[T]] /\ \A T \in SUBSET S : Cardinality(T) <= b => Folded(g, T)
  <2>1. PICK q : Solves(q, b)
    BY <1>7
  <2> HIDE DEF Folded
  <2> QED
    BY <2>1
<1>9. ASSUME NEW T \in SUBSET S PROVE Folded(g, T)
  <2>1. Cardinality(T) <= b
    BY <1>5, FS_Subset
  <2> QED
    BY <1>8, <2>1
<1>10. g = [T \in SUBSET S |-> IF T = {} THEN 0 ELSE w[Picked(T)] + g[T \ {Picked(T)}]]
  BY <1>8, <1>9
<1> QED
  BY <1>10 DEF IsSum

LEMMA SumStep ==
  ASSUME NEW S, NEW w, NEW g, IsSum(g, S, w), NEW T \in SUBSET S
  PROVE  g[T] = IF T = {} THEN 0 ELSE w[Picked(T)] + g[T \ {Picked(T)}]
  BY DEF IsSum

LEMMA SumOfNone ==
  ASSUME NEW S, NEW w, NEW g, IsSum(g, S, w)
  PROVE  g[{}] = 0
<1>1. {} \in SUBSET S
  OBVIOUS
<1> QED
  BY <1>1, SumStep

\* It does not matter in which order they are taken out.
TakesOut(g, S, w) ==
  \A T \in SUBSET S : g[T] \in Int /\ \A x \in T : g[T] = w[x] + g[T \ {x}]

LEMMA SumTakesOut ==
  ASSUME NEW S, NEW w, NEW g, IsSum(g, S, w)
  PROVE  TakesOut(g, S, w)
<1>0. IsFiniteSet(S) /\ \A x \in S : w[x] \in Int
  BY DEF IsSum
<1> DEFINE Good == {T \in SUBSET S : g[T] \in Int /\ \A x \in T : g[T] = w[x] + g[T \ {x}]}
<1>1. ASSUME NEW T \in SUBSET S, \A U \in SUBSET T : U # T => U \in Good PROVE T \in Good
  <2>1. CASE T = {}
    <3>1. g[T] = 0
      BY <2>1, SumStep
    <3> QED
      BY <2>1, <3>1
  <2>2. CASE T # {}
    <3>1. PICK c : c = Picked(T)
      OBVIOUS
    <3>2. c \in T /\ c \in S
      BY <2>2, <3>1, PickedIs
    <3>3. g[T] = w[c] + g[T \ {c}] /\ w[c] \in Int
      <4>1. g[T] = IF T = {} THEN 0 ELSE w[Picked(T)] + g[T \ {Picked(T)}]
        BY SumStep
      <4> QED
        BY <1>0, <2>2, <3>1, <3>2, <4>1
    <3>4. T \ {c} \in Good
      BY <1>1, <3>2
    <3>5. g[T] \in Int
      BY <3>3, <3>4
    <3>6. ASSUME NEW x \in T, x # c PROVE g[T] = w[x] + g[T \ {x}]
      <4>1. PICK U, V, R : U = T \ {c} /\ V = T \ {x} /\ R = T \ {c, x}
        OBVIOUS
      <4>2. U \in Good /\ V \in Good /\ R \in Good
        <5>1. /\ U \in SUBSET T /\ U # T /\ V \in SUBSET T /\ V # T
              /\ R \in SUBSET T /\ R # T
          BY <3>2, <4>1
        <5> HIDE DEF Good
        <5> QED
          BY <1>1, <5>1
      <4>3. x \in U /\ c \in V /\ U \ {x} = R /\ V \ {c} = R
        BY <3>2, <3>6, <4>1
      <4>4. g[U] = w[x] + g[R] /\ g[V] = w[c] + g[R] /\ g[R] \in Int
        BY <4>2, <4>3
      <4>5. w[x] \in Int
        BY <1>0
      <4>6. g[T] = w[c] + g[U]
        BY <3>3, <4>1
      <4>7. g[T] = w[x] + g[V]
        BY ONLY <3>3, <4>4, <4>5, <4>6
      <4> QED
        BY <4>1, <4>7
    <3> QED
      BY <3>1, <3>3, <3>5, <3>6
  <2> QED
    BY <2>1, <2>2
<1> HIDE DEF Good
<1>2. \A T \in SUBSET S : T \in Good
  BY <1>0, <1>1, SubsetsByPart
<1> QED
  BY <1>2 DEF Good, TakesOut

\* A sum depends on the values alone, and as an int on what an int keeps of
\* them: one-to-one onto another set with the same ints it stays the same.
LEMMA SumMoves ==
  ASSUME NEW S, NEW w, NEW g, IsSum(g, S, w),
         NEW D, NEW u, NEW h, IsSum(h, D, u),
         NEW f, \A x \in S : f[x] \in D /\ SameInt(w[x], u[f[x]]),
         \A x \in S, y \in S : f[x] = f[y] => x = y,
         \A y \in D : \E x \in S : f[x] = y
  PROVE  g[S] \in Int /\ h[D] \in Int /\ SameInt(g[S], h[D])
<1>1. TakesOut(g, S, w) /\ TakesOut(h, D, u)
  BY SumTakesOut
<1>2. /\ \A T \in SUBSET S : g[T] \in Int /\ \A x \in T : g[T] = w[x] + g[T \ {x}]
      /\ \A T \in SUBSET D : h[T] \in Int /\ \A x \in T : h[T] = u[x] + h[T \ {x}]
  BY ONLY <1>1 DEF TakesOut
<1>3. g[{}] = 0 /\ h[{}] = 0
  BY SumOfNone
<1>4. (\A x \in S : w[x] \in Int) /\ (\A x \in D : u[x] \in Int)
  BY DEF IsSum
<1> DEFINE Im(T) == {f[x] : x \in T}
           Good == {T \in SUBSET S : SameInt(g[T], h[Im(T)])}
<1>5. ASSUME NEW T \in SUBSET S, \A U \in SUBSET T : U # T => U \in Good PROVE T \in Good
  <2>1. CASE T = {}
    <3>1. Im(T) = {}
      BY <2>1
    <3>2. SameInt(0, 0)
      BY SameIntSame
    <3> QED
      BY <1>3, <2>1, <3>1, <3>2
  <2>2. CASE T # {}
    <3>1. PICK x : x \in T
      BY <2>2
    <3>2. PICK U : U = T \ {x}
      OBVIOUS
    <3>3. U \in Good
      BY <1>5, <3>1, <3>2
    <3>4. g[T] = w[x] + g[U] /\ g[U] \in Int
      BY <1>2, <3>1, <3>2
    <3>5. Im(T) \in SUBSET D /\ Im(U) \in SUBSET D /\ f[x] \in Im(T) /\ Im(T) \ {f[x]} = Im(U)
      BY <3>1, <3>2
    <3>6. h[Im(T)] = u[f[x]] + h[Im(U)] /\ h[Im(U)] \in Int
      <4>1. PICK I, J, y : I = Im(T) /\ J = Im(U) /\ y = f[x]
        OBVIOUS
      <4>2. I \in SUBSET D /\ J \in SUBSET D /\ y \in I /\ I \ {y} = J
        BY <3>5, <4>1
      <4>3. h[I] = u[y] + h[J] /\ h[J] \in Int
        BY ONLY <1>2, <4>2
      <4> QED
        BY ONLY <4>1, <4>3
    <3>7. SameInt(w[x], u[f[x]]) /\ w[x] \in Int /\ u[f[x]] \in Int
      BY <1>4, <3>1
    <3>8. SameInt(g[U], h[Im(U)])
      BY <3>3
    <3> HIDE DEF Im
    <3>9. SameInt(w[x] + g[U], u[f[x]] + h[Im(U)])
      BY ONLY <3>4, <3>6, <3>7, <3>8, SameIntAdds
    <3> QED
      BY <3>4, <3>6, <3>9
  <2> QED
    BY <2>1, <2>2
<1>6. Im(S) = D
  OBVIOUS
<1>7. \A T \in SUBSET S : T \in Good
  <2> HIDE DEF Good
  <2> QED
    BY <1>5, SubsetsByPart DEF IsSum
<1> QED
  BY <1>2, <1>6, <1>7

\* The two sums of ShownTotalIsLive, as sums of that kind.
LEMMA SumOfLines ==
  ASSUME NEW S, IsFiniteSet(S), \A x \in S : x.bytes \in Int
  PROVE  \E g : /\ IsSum(g, S, [x \in S |-> x.bytes])
                /\ MapThenSumSet(LAMBDA line : line.bytes, S) = g[S]
<1> DEFINE w == [x \in S |-> x.bytes]
           SumsUp(g) == g = [T \in SUBSET S |-> IF T = {} THEN 0
                                                ELSE Picked(T).bytes + g[T \ {Picked(T)}]]
           sum == CHOOSE g : SumsUp(g)
<1>1. ASSUME NEW g PROVE IsSum(g, S, w) <=> SumsUp(g)
  <2>1. \A T \in SUBSET S : T # {} => w[Picked(T)] = Picked(T).bytes
    BY PickedIs
  <2>2. [T \in SUBSET S |-> IF T = {} THEN 0 ELSE w[Picked(T)] + g[T \ {Picked(T)}]]
          = [T \in SUBSET S |-> IF T = {} THEN 0 ELSE Picked(T).bytes + g[T \ {Picked(T)}]]
    BY <2>1
  <2> HIDE DEF w
  <2>3. \A x \in S : w[x] \in Int
    BY DEF w
  <2> QED
    BY <2>2, <2>3 DEF IsSum
<1>2. PICK g : IsSum(g, S, w)
  <2>1. \A x \in S : w[x] \in Int
    OBVIOUS
  <2> HIDE DEF w
  <2> QED
    BY <2>1, SumExists
<1>3. MapThenSumSet(LAMBDA line : line.bytes, S) = sum[S]
  BY DEF MapThenSumSet, MapThenFoldSet, Picked
<1> HIDE DEF SumsUp, w
<1>4. SumsUp(sum)
  BY <1>1, <1>2
<1> HIDE DEF sum
<1>5. IsSum(sum, S, w)
  BY <1>1, <1>4
<1> QED
  BY <1>3, <1>5 DEF w

LEMMA SumOfSizes ==
  ASSUME NEW S, IsFiniteSet(S), \A x \in S : owned[x].size \in Int
  PROVE  \E g : /\ IsSum(g, S, [x \in S |-> owned[x].size])
                /\ MapThenSumSet(LAMBDA p : owned[p].size, S) = g[S]
<1> DEFINE w == [x \in S |-> owned[x].size]
           SumsUp(g) == g = [T \in SUBSET S |-> IF T = {} THEN 0
                                                ELSE owned[Picked(T)].size + g[T \ {Picked(T)}]]
           sum == CHOOSE g : SumsUp(g)
<1>1. ASSUME NEW g PROVE IsSum(g, S, w) <=> SumsUp(g)
  <2>1. \A T \in SUBSET S : T # {} => w[Picked(T)] = owned[Picked(T)].size
    BY PickedIs
  <2>2. [T \in SUBSET S |-> IF T = {} THEN 0 ELSE w[Picked(T)] + g[T \ {Picked(T)}]]
          = [T \in SUBSET S |-> IF T = {} THEN 0 ELSE owned[Picked(T)].size + g[T \ {Picked(T)}]]
    BY <2>1
  <2> HIDE DEF w
  <2>3. \A x \in S : w[x] \in Int
    BY DEF w
  <2> QED
    BY <2>2, <2>3 DEF IsSum
<1>2. PICK g : IsSum(g, S, w)
  <2>1. \A x \in S : w[x] \in Int
    OBVIOUS
  <2> HIDE DEF w
  <2> QED
    BY <2>1, SumExists
<1>3. MapThenSumSet(LAMBDA p : owned[p].size, S) = sum[S]
  BY DEF MapThenSumSet, MapThenFoldSet, Picked
<1> HIDE DEF SumsUp, w
<1>4. SumsUp(sum)
  BY <1>1, <1>2
<1> HIDE DEF sum
<1>5. IsSum(sum, S, w)
  BY <1>1, <1>4
<1> QED
  BY <1>3, <1>5 DEF w

(***************************************************************************)
(* The total show_alloc_mem prints is what the client holds in all, as an  *)
(* int, whatever the lengths are: what the int client_size and the size_t  *)
(* total_size drop is nothing that the int printed has.                    *)
(***************************************************************************)
THEOREM ShownTotalCorrect == Spec => []ShownTotalIsLive
<1>1. BlocksInv => ShownTotalIsLive
  <2> SUFFICES ASSUME BlocksInv, running
               PROVE  ShownTotal(manage_free) = ToInt(Held)
    BY DEF ShownTotalIsLive
  <2>1. PICK lines, D : lines = ShownLines(manage_free) /\ D = DOMAIN owned
    OBVIOUS
  <2>2. /\ IsFiniteSet(D) /\ IsFiniteSet(lines)
        /\ \A line \in lines :
             line.from + METASIZE \in D /\ line.bytes = ToInt(owned[line.from + METASIZE].size)
        /\ \A p \in D : \E line \in lines : p = line.from + METASIZE
        /\ \A line, other \in lines : line.from + METASIZE = other.from + METASIZE => line = other
    BY <2>1, LinesAreBlocks
  <2>3. \A p \in D : owned[p].size \in Int
    BY <2>1, InvParts DEF IsHolding, Block
  <2>4. \A p \in D : ToInt(owned[p].size) \in Int /\ SameInt(ToInt(owned[p].size), owned[p].size)
    BY <2>3, ToIntSame
  <2>5. PICK g : /\ IsSum(g, lines, [line \in lines |-> line.bytes])
                 /\ MapThenSumSet(LAMBDA line : line.bytes, lines) = g[lines]
    <3>1. \A line \in lines : line.bytes \in Int
      BY <2>2, <2>4
    <3> QED
      BY <2>2, <3>1, SumOfLines
  <2>6. PICK h : /\ IsSum(h, D, [p \in D |-> owned[p].size])
                 /\ MapThenSumSet(LAMBDA p : owned[p].size, D) = h[D]
    BY <2>2, <2>3, SumOfSizes
  <2>7. g[lines] \in Int /\ h[D] \in Int /\ SameInt(g[lines], h[D])
    <3>1. PICK w, u, f : /\ w = [line \in lines |-> line.bytes] /\ u = [p \in D |-> owned[p].size]
                         /\ f = [line \in lines |-> line.from + METASIZE]
      OBVIOUS
    <3>2. IsSum(g, lines, w) /\ IsSum(h, D, u)
      BY ONLY <2>5, <2>6, <3>1
    <3>3. /\ \A x \in lines : f[x] \in D /\ SameInt(w[x], u[f[x]])
          /\ \A x \in lines, y \in lines : f[x] = f[y] => x = y
          /\ \A y \in D : \E x \in lines : f[x] = y
      BY ONLY <2>2, <2>4, <3>1
    <3> QED
      BY ONLY <3>2, <3>3, SumMoves
  <2>8. total_size(manage_free) = g[lines] % (SIZE_MAX + 1) /\ Held = h[D]
    BY ONLY <2>1, <2>5, <2>6 DEF total_size, Held
  <2>9. PICK a, b, n : a = g[lines] /\ b = h[D] /\ n = a % (SIZE_MAX + 1)
    OBVIOUS
  <2>10. a \in Int /\ b \in Int /\ n \in Int /\ SameInt(n, a) /\ SameInt(a, b)
    BY ONLY <2>7, <2>9, SizeSame
  <2>11. ToInt(n) = ToInt(b)
    <3>1. SameInt(n, b)
      BY ONLY <2>10, SameIntJoins
    <3> QED
      BY ONLY <2>10, <3>1, ToIntOfSame
  <2> QED
    BY ONLY <2>8, <2>9, <2>11 DEF ShownTotal
<1> QED
  BY <1>1, BlocksInvHolds, PTL

=============================================================================
