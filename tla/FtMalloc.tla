------------------------------ MODULE FtMalloc -------------------------------
(***************************************************************************)
(* The public calls ft_malloc, ft_free, ft_realloc and ft_calloc2 as a     *)
(* state machine.  Each call holds manage_free_mutex from its first to its *)
(* last access to the allocator, so a call is one step here; the module    *)
(* FtMallocThreads takes the calls apart and shows that this is sound.     *)
(*                                                                         *)
(* The client of the allocator is part of the model: it calls with any     *)
(* size and any pointer, also stale, interior and foreign ones, remembers  *)
(* what it was given, and writes only there.                               *)
(***************************************************************************)
EXTENDS AllocImpl

CONSTANTS
  Sizes,    \* the sizes clients ask for
  Counts,   \* the first argument of calloc
  Pointers  \* the pointers clients hand in

ASSUME ClientAssumption ==
  Sizes \subseteq 0 .. SIZE_MAX /\ Counts \subseteq 0 .. SIZE_MAX /\ Pointers \subseteq Addr

VARIABLES
  manage_free, \* the allocator (AllocImpl!StateType)
  owned,       \* the client's blocks: pointer |-> what it knows of the block
  reply,       \* how the last call looked to the client
  running      \* FALSE once print_error has called exit

vars == <<manage_free, owned, reply, running>>

\* The client asked for size bytes; the first kept of them must read val.
Block == [size : Nat, val : Values, kept : Nat]
NewBlock(n, v, k) == [size |-> n, val |-> v, kept |-> k]

Classes == {"tiny", "small", "large"}
\* class: what a call that failed asked for; refused: the kernel refused that
\* call an mmap; huge: the length cannot be represented; clash: the call
\* returned a block the client already had.
Served == [null |-> FALSE, class |-> "tiny", refused |-> FALSE, huge |-> FALSE, clash |-> FALSE]
Reply == [null : BOOLEAN, class : Classes, refused : BOOLEAN, huge : BOOLEAN, clash : BOOLEAN]

Init ==
  /\ manage_free = InitState
  /\ owned = << >>
  /\ reply = Served
  /\ running = TRUE

-----------------------------------------------------------------------------
Without(f, p) == [q \in DOMAIN f \ {p} |-> f[q]]
With(f, p, b) == [q \in DOMAIN f \cup {p} |-> IF q = p THEN b ELSE f[q]]

\* No LARGE mapping can hold n bytes: with the header, and rounded up to a
\* page, they are not a long.
Huge(n) == n > LONG_MAX - (PAGE - 1) - METASIZE

ReplyTo(o, n, mine) ==
  IF o.ret = NULL
  THEN [Served EXCEPT !.null = TRUE, !.class = Class(n), !.refused = o.refused, !.huge = Huge(n)]
  ELSE [Served EXCEPT !.clash = o.ret \in mine]

\* The call ended in outcome o: the client sees r and has the blocks b.
Became(o, b, r) ==
  /\ manage_free' = o.st
  /\ running' = ~o.exit
  /\ owned' = IF o.exit THEN owned ELSE b
  /\ reply' = IF o.exit THEN Served ELSE r

\* ft_malloc(n)
Malloc(n) ==
  \E o \in malloc_impl(manage_free, n) :
    Became(o,
           IF o.ret = NULL THEN owned
           ELSE With(owned, o.ret, NewBlock(AtLeastOne(n), 0, 0)),
           ReplyTo(o, n, DOMAIN owned))

\* ft_calloc2(k, n)
Calloc(k, n) ==
  \E o \in callo_imp(manage_free, k, n) :
    Became(o,
           IF o.ret = NULL THEN owned
           ELSE With(owned, o.ret, NewBlock(AtLeastOne(k * n), 0, k * n)),
           ReplyTo(o, k * n, DOMAIN owned))

\* ft_free(p)
Free(p) ==
  \E o \in free_impl(manage_free, p) : Became(o, Without(owned, p), Served)

\* ft_realloc(p, n).  realloc(p, 0) frees p and is no failure; a pointer that
\* is not a live block gets NULL, which is no failure of a pool either.
Realloc(p, n) ==
  \E o \in realloc_impl(manage_free, p, n) :
    LET old == IF p \in DOMAIN owned THEN owned[p] ELSE NewBlock(0, 0, 0)
        kept == Min({old.kept, n})
        grown == NewBlock(AtLeastOne(n), IF kept = 0 THEN 0 ELSE old.val, kept)
        left == IF p = NULL THEN owned ELSE Without(owned, p)
        asked == p = NULL \/ (p \in DOMAIN owned /\ n # 0)
    IN  Became(o,
               IF o.ret # NULL THEN With(left, o.ret, grown)
               ELSE IF n = 0 THEN left ELSE owned,
               IF asked THEN ReplyTo(o, n, DOMAIN left) ELSE Served)

\* The client stores v in every byte it asked for of one of its blocks.
Write(p, v) ==
  /\ p \in DOMAIN owned
  /\ manage_free' = ft_memset(manage_free, p, v, owned[p].size)
  /\ owned' = [owned EXCEPT ![p] = NewBlock(@.size, v, @.size)]
  /\ reply' = Served
  /\ UNCHANGED running

Next ==
  /\ running
  /\ \/ \E n \in Sizes : Malloc(n)
     \/ \E k \in Counts, n \in Sizes : Calloc(k, n)
     \/ \E p \in Pointers : Free(p)
     \/ \E p \in Pointers, n \in Sizes : Realloc(p, n)
     \/ \E p \in DOMAIN owned, v \in Values \ {0} : Write(p, v)

Spec == Init /\ [][Next]_vars

-----------------------------------------------------------------------------
(***************************************************************************)
(* What the tables say is in use.                                          *)
(***************************************************************************)
LiveSlots(s) == {zs \in Zones \X Slots : zs[2] \in s.bitmap[zs[1]]}

SlotHead(s, zs) == Header(s.arena[zs[1]], zs[1], zs[2])
LivePtrs(s) ==
  {SlotHead(s, zs) + METASIZE : zs \in LiveSlots(s)}
    \cup {s.large[entry] + METASIZE : entry \in LiveEntries(s)}

\* The headers of every slot of an open pool, live or not, and of every
\* LARGE mapping.
Heads(s) ==
  {SlotHead(s, zs) : zs \in {z \in Zones : s.zone_flag[z]} \X Slots}
    \cup {s.large[entry] : entry \in LiveEntries(s)}

Bytes(p) == Region(p, owned[p].size)

-----------------------------------------------------------------------------
TypeOK ==
  /\ manage_free \in StateType
  /\ DOMAIN owned \subseteq Addr /\ \A p \in DOMAIN owned : owned[p] \in Block
  /\ reply \in Reply
  /\ running \in BOOLEAN

(***************************************************************************)
(* The blocks find_live_allocation recognises are exactly the blocks the   *)
(* client has been given and has not given back, each with the length the  *)
(* client asked for last.  So a double free, a stale, an interior or a     *)
(* foreign pointer frees nothing, no block is lost, a failed call loses    *)
(* none either, and realloc copies exactly what the client asked for.      *)
(***************************************************************************)
Agreement ==
  running =>
    /\ LivePtrs(manage_free) = DOMAIN owned
    /\ \A p \in DOMAIN owned :
         LET owner == find_live_allocation(manage_free, p)
         IN  owner # NoOwner /\ Requested(manage_free, owner) = owned[p].size

(***************************************************************************)
(* No two blocks in the client's hands share a byte, no byte of a block    *)
(* lies in a METADATA_t header, and every byte is in mapped memory.  This  *)
(* is what the capacity test of realloc_impl and the strides are for.      *)
(***************************************************************************)
NoOverlap ==
  /\ \A p, q \in DOMAIN owned : p # q => Bytes(p) \cap Bytes(q) = {}
  /\ \A p \in DOMAIN owned :
       /\ PagesOf(p, owned[p].size) \subseteq manage_free.pages
       /\ \A head \in Heads(manage_free) : Bytes(p) \cap Region(head, METASIZE) = {}

(***************************************************************************)
(* No call returns a block that is already in the client's hands.          *)
(***************************************************************************)
NoAlias == ~reply.clash

(***************************************************************************)
(* The header of every slot of an open pool says the slot's stride, index  *)
(* and bit, whatever clients and calls did to the slot and its neighbours, *)
(* a used slot's length is one it can hold, and a pool that is not open    *)
(* has no used slot.                                                       *)
(***************************************************************************)
PoolTables == \A zone \in Zones : PoolOK(manage_free, zone)

(***************************************************************************)
(* The LARGE table: large_cnt counts the nonzero entries of large[], an    *)
(* entry has a request size, one that fits the mapping, exactly while it   *)
(* is live, the header of a mapping names the entry that holds it, and the *)
(* spare last entry of the array is never used.                            *)
(***************************************************************************)
LargeTable == LargeOK(manage_free)

(***************************************************************************)
(* The kernel's mappings are exactly the open arenas and the live LARGE    *)
(* mappings, which are disjoint: nothing leaks, and munmap never takes a   *)
(* page of another block.                                                  *)
(***************************************************************************)
MappedExactly == PagesOK(manage_free)

(***************************************************************************)
(* Every block still reads what the client left in it: calls on other      *)
(* blocks do not disturb it, realloc carries over the shorter of the old   *)
(* and the new length, a failed realloc leaves the original as it was, and *)
(* calloc returns zeros even in a slot that was used before.               *)
(***************************************************************************)
ContentsKept ==
  running =>
    \A p \in DOMAIN owned :
      \A a \in Region(p, owned[p].kept) : manage_free.mem[a] = owned[p].val

(***************************************************************************)
(* The total show_alloc_mem prints is what the client has in all, but for  *)
(* the bits an int has no room for: the lengths pass through client_size,  *)
(* an int, the sum is a size_t and is printed as an int, and still nothing *)
(* is lost on the way that the last conversion does not take.              *)
(***************************************************************************)
Held == MapThenSumSet(LAMBDA p : owned[p].size, DOMAIN owned)

ShownTotalIsLive == running => ShownTotal(manage_free) = ToInt(Held)

(***************************************************************************)
(* Test A28 of portfolio_audit/profile_a/test_plan.md: the total that is  *)
(* printed accounts for the bytes that were asked for.  It does not: a     *)
(* length longer than an int is lost when it is added up, and lengths that *)
(* are ints but together are not when their sum is printed.                *)
(***************************************************************************)
ShownTotalIsRequested == running => ShownTotal(manage_free) = Held

(***************************************************************************)
(* show_alloc_mem prints one line for each block the client has, with the  *)
(* length the client asked for last, and the unit printed with it has room *)
(* for the header and that length (as long as these are ints).  The range  *)
(* printed begins at the header, so no two ranges share a byte although    *)
(* none of them is the client's.                                           *)
(***************************************************************************)
ListingIsLive ==
  running =>
    LET lines == ShownLines(manage_free)
    IN  /\ Cardinality(lines) = Cardinality(DOMAIN owned)
        /\ {<<line.from + METASIZE, line.bytes>> : line \in lines} =
             {<<p, owned[p].size>> : p \in DOMAIN owned}
        /\ \A line \in lines :
             IF line.zone = "large" THEN line.unit >= METASIZE + line.bytes
             ELSE line.unit = Stride(line.zone) /\ METASIZE + line.bytes <= line.unit
        /\ \A line, other \in lines : line # other => line.to <= other.from \/ other.to <= line.from

(***************************************************************************)
(* README.md:15: a request gets NULL when its kind has no slot left        *)
(* (leaving aside a call the kernel refuses an mmap, and lengths that      *)
(* cannot be represented).                                                 *)
(***************************************************************************)
Full(class) ==
  IF class = "large" THEN LiveEntries(manage_free) = Entries
  ELSE manage_free.bitmap[class] = Slots

NullMeansFull == reply.null => reply.refused \/ reply.huge \/ Full(reply.class)

\* The pool asked the kernel for its arena, once, and did not get it.
Abandoned(class) ==
  class \in Zones /\ manage_free.page_flag[class] /\ ~manage_free.zone_flag[class]

(***************************************************************************)
(* The only other way to get NULL: a pool whose one mmap was refused       *)
(* earlier never serves a request again.                                   *)
(***************************************************************************)
NullExplained ==
  reply.null =>
    reply.refused \/ reply.huge \/ Full(reply.class) \/ Abandoned(reply.class)

-----------------------------------------------------------------------------
(***************************************************************************)
(* The allocator implements Heap, read off the allocator's own tables: a   *)
(* pointer find_live_allocation accepts is a block, as long as realloc     *)
(* takes it to be, and its data is what the memory holds there.            *)
(***************************************************************************)
TableBlocks ==
  [p \in LivePtrs(manage_free) |->
     Requested(manage_free, find_live_allocation(manage_free, p))]

AbstractHeap == INSTANCE Heap WITH blocks <- TableBlocks, bytes <- manage_free.mem

ImplementsHeap == AbstractHeap!HeapSpec

=============================================================================
