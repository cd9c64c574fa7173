--------------------------- MODULE AllocBlocksProof ---------------------------
(***************************************************************************)
(* What the functions of AllocImpl do to the blocks: which pointers are    *)
(* accepted as live, with which lengths, and what the bytes at them hold.  *)
(* AllocImplProof shows that the tables stay well formed; here a           *)
(* well-formed state is read as a set of blocks, and each call is shown to *)
(* add, remove or resize one of them and leave the others alone.           *)
(***************************************************************************)
EXTENDS AllocImplProof

USE DEF Zones, Slots, Entries, NULL, MAP_FAILED

-----------------------------------------------------------------------------
(***************************************************************************)
(* Places.  A place is a slot of an open pool or a live LARGE mapping, its *)
(* cell the bytes from its header to the next header or to the end of the  *)
(* mapping; a place is in use if its bit is set or it is a LARGE mapping.  *)
(***************************************************************************)
Owners == [zone : Zones \cup {"large"}, slot : Slots \cup Entries]

IsPlace(s, o) ==
  IF o.zone = "large" THEN o.slot \in LiveEntries(s)
  ELSE o.slot \in Slots /\ s.zone_flag[o.zone]

InUse(s, o) ==
  IF o.zone = "large" THEN o.slot \in LiveEntries(s) ELSE o.slot \in s.bitmap[o.zone]

CellLen(s, o) ==
  IF o.zone = "large" THEN s.meta[OwnerHeader(s, o)].size ELSE Stride(o.zone)
Cell(s, o) == Region(OwnerHeader(s, o), CellLen(s, o))

\* There is a block of n bytes at p.
BlockAt(s, p, n) ==
  \E o \in Owners : InUse(s, o) /\ p = OwnerHeader(s, o) + METASIZE /\ n = Requested(s, o)

PlacePages(s, o) == IF o.zone = "large" THEN EntryPages(s, o.slot) ELSE ArenaPages(s, o.zone)

LEMMA OwnerCases ==
  ASSUME NEW o \in Owners
  PROVE  /\ o.zone \in Zones \cup {"large"} /\ o = [zone |-> o.zone, slot |-> o.slot]
         /\ o.zone = "large" \/ o.zone \in Zones
  BY DEF Owners

LEMMA OwnersMade ==
  /\ \A zone \in Zones, slot \in Slots : [zone |-> zone, slot |-> slot] \in Owners
  /\ \A e \in Entries : [zone |-> "large", slot |-> e] \in Owners
  BY DEF Owners

\* A cell is memory of the place's pages and is longer than its header.
LEMMA PlaceFacts ==
  ASSUME NEW s, AllocOK(s), NEW o \in Owners, IsPlace(s, o)
  PROVE  /\ OwnerHeader(s, o) \in Addr \ {0}
         /\ CellLen(s, o) \in Nat \ {0} /\ METASIZE < CellLen(s, o)
         /\ Cell(s, o) \subseteq Addr
         /\ OwnerHeader(s, o) \in Cell(s, o)
         /\ \A a \in Cell(s, o) : a \div PAGE \in PlacePages(s, o)
<1>1. CASE o.zone = "large"
  <2> DEFINE base == s.large[o.slot]
             len == s.meta[base].size
  <2>1. o.slot \in LiveEntries(s)
    BY <1>1 DEF IsPlace
  <2>2. OwnerHeader(s, o) = base /\ CellLen(s, o) = len
    BY <1>1 DEF OwnerHeader, CellLen
  <2>3. base \in Addr \ {0} /\ len \in Nat \ {0} /\ METASIZE < len /\ base \in Region(base, len)
    BY <2>1, EntryPage
  <2>4. Region(base, len) \subseteq Addr
    BY <2>1, Positive DEF AllocOK, LargeOK, EntryOK, LiveEntries
  <2>5. \A a \in Region(base, len) : a \div PAGE \in EntryPages(s, o.slot)
    BY PageOfRegion DEF EntryPages
  <2> HIDE DEF base, len
  <2> QED
    BY <1>1, <2>2, <2>3, <2>4, <2>5 DEF Cell, PlacePages
<1>2. CASE o.zone \in Zones
  <2> DEFINE zone == o.zone
             base == s.arena[zone]
             head == Header(base, zone, o.slot)
             len == ArenaLen(zone)
  <2>1. zone # "large" /\ o.slot \in Slots /\ s.zone_flag[zone]
    BY <1>2 DEF IsPlace
  <2>2. OwnerHeader(s, o) = head /\ CellLen(s, o) = Stride(zone)
    BY <2>1 DEF OwnerHeader, CellLen
  <2>3. base \in Addr \ {0} /\ Region(base, len) \subseteq Addr
    BY <1>2, <2>1 DEF AllocOK, PoolOK
  <2>4. base \in Int /\ base > 0
    BY <2>3 DEF Addr
  <2>5. head \in Int /\ base <= head /\ head + Stride(zone) <= base + len
    BY <1>2, <2>1, <2>4, SlotInside
  <2>6. Stride(zone) \in Nat \ {0} /\ METASIZE < Stride(zone) /\ len \in Nat
    BY <1>2, StrideFacts, ArenaLenNat
  <2>7. \A a \in Region(base, len) : a \div PAGE \in ArenaPages(s, zone)
    BY <2>1, PageOfRegion DEF ArenaPages
  <2> HIDE DEF zone, base, head, len
  <2>8. Region(head, Stride(zone)) \subseteq Region(base, len) /\ head \in Region(head, Stride(zone))
    BY <2>4, <2>5, <2>6 DEF Region
  <2>9. head \in Addr \ {0}
    BY <2>3, <2>4, <2>5, <2>8
  <2> QED
    BY <2>1, <2>2, <2>3, <2>6, <2>7, <2>8, <2>9 DEF Cell, PlacePages, zone
<1> QED
  BY <1>1, <1>2, OwnerCases

\* The bytes a client asked for lie in the cell, behind the header.
LEMMA UseFacts ==
  ASSUME NEW s, AllocOK(s), NEW o \in Owners, InUse(s, o)
  PROVE  /\ IsPlace(s, o)
         /\ Requested(s, o) \in Nat \ {0} /\ Requested(s, o) <= CellLen(s, o) - METASIZE
<1>1. CASE o.zone = "large"
  <2>1. o.slot \in LiveEntries(s)
    BY <1>1 DEF InUse
  <2>2. EntryOK(s, o.slot) /\ s.meta[s.large[o.slot]].size \in Nat
    BY <2>1, EntryPage, Positive DEF AllocOK, LargeOK, LiveEntries
  <2>3. Requested(s, o) = s.large_request_sizes[o.slot]
        /\ CellLen(s, o) = s.meta[s.large[o.slot]].size
    BY <1>1 DEF Requested, CellLen, OwnerHeader
  <2> QED
    BY <1>1, <2>1, <2>2, <2>3, Positive DEF IsPlace, EntryOK
<1>2. CASE o.zone \in Zones
  <2>1. o.zone # "large" /\ o.slot \in s.bitmap[o.zone]
    BY <1>2 DEF InUse
  <2>2. s.zone_flag[o.zone] /\ o.slot \in Slots
    BY <1>2, <2>1 DEF AllocOK, PoolOK, StateType
  <2>3. SlotOK(s, o.zone, o.slot)
    BY <1>2, <2>2 DEF AllocOK, PoolOK
  <2>4. Requested(s, o) = s.meta[Header(s.arena[o.zone], o.zone, o.slot)].client_size
        /\ CellLen(s, o) = Stride(o.zone)
    BY <2>1 DEF Requested, CellLen, OwnerHeader
  <2>5. Requested(s, o) \in 1 .. (Stride(o.zone) - METASIZE)
    BY <2>1, <2>3, <2>4 DEF SlotOK
  <2>6. Stride(o.zone) \in Nat
    BY <1>2, StrideFacts
  <2> QED
    BY <2>1, <2>2, <2>4, <2>5, <2>6, Positive DEF IsPlace
<1> QED
  BY <1>1, <1>2, OwnerCases

\* No byte belongs to two cells.
LEMMA CellsApart ==
  ASSUME NEW s, AllocOK(s), NEW o \in Owners, NEW u \in Owners, IsPlace(s, o), IsPlace(s, u),
         NEW a, a \in Cell(s, o), a \in Cell(s, u)
  PROVE  o = u
<1>1. PagesOK(s)
  BY DEF AllocOK
<1> DEFINE p == a \div PAGE
<1>2. p \in PlacePages(s, o) /\ p \in PlacePages(s, u)
  BY PlaceFacts
<1> HIDE DEF p
<1>3. /\ ~(p \in ArenaPages(s, "tiny") /\ p \in ArenaPages(s, "small"))
      /\ \A zone \in Zones, e \in LiveEntries(s) :
           ~(p \in ArenaPages(s, zone) /\ p \in EntryPages(s, e))
      /\ \A e, f \in LiveEntries(s) :
           e # f => ~(p \in EntryPages(s, e) /\ p \in EntryPages(s, f))
  BY <1>1, PagesOKByPage
<1>4. o.zone = u.zone
  BY <1>2, <1>3, OwnerCases DEF PlacePages, IsPlace
<1>5. CASE o.zone = "large"
  <2>1. o.slot = u.slot
    BY <1>2, <1>3, <1>4, <1>5 DEF PlacePages, IsPlace
  <2> QED
    BY <1>4, <2>1, OwnerCases
<1>6. CASE o.zone \in Zones
  <2> DEFINE zone == o.zone
             base == s.arena[zone]
             n == Stride(zone)
             i == o.slot
             j == u.slot
  <2>1. zone # "large" /\ u.zone = zone /\ i \in Slots /\ j \in Slots /\ s.zone_flag[zone]
    BY <1>4, <1>6 DEF IsPlace
  <2>2. a \in Region(base + i * n, n) /\ a \in Region(base + j * n, n)
    BY <2>1 DEF Cell, CellLen, OwnerHeader, Header
  <2>3. base \in Int /\ n \in Nat \ {0} /\ i \in Nat /\ j \in Nat
    BY <1>6, <2>1, StrideFacts, Positive DEF AllocOK, PoolOK, Addr
  <2> HIDE DEF zone, base, n, i, j
  <2>4. i < j => i * n + n <= j * n
    BY <2>3, MulGap
  <2>5. j < i => j * n + n <= i * n
    BY <2>3, MulGap
  <2>6. i * n \in Nat /\ j * n \in Nat
    BY <2>3
  <2>7. i = j
    BY <2>2, <2>3, <2>4, <2>5, <2>6 DEF Region
  <2> QED
    BY <1>4, <2>7, OwnerCases DEF i, j
<1> QED
  BY <1>5, <1>6, OwnerCases

\* The place a header belongs to is determined by the header.
LEMMA HeadersApart ==
  ASSUME NEW s, AllocOK(s), NEW o \in Owners, NEW u \in Owners, IsPlace(s, o), IsPlace(s, u),
         OwnerHeader(s, o) = OwnerHeader(s, u)
  PROVE  o = u
<1>1. OwnerHeader(s, o) \in Cell(s, o) /\ OwnerHeader(s, o) \in Cell(s, u)
  BY PlaceFacts
<1> QED
  BY <1>1, CellsApart

\* The place in use behind a pointer is determined by the pointer.
LEMMA UseOfPointer ==
  ASSUME NEW s, AllocOK(s), NEW o \in Owners, NEW u \in Owners, InUse(s, o), InUse(s, u),
         OwnerHeader(s, u) + METASIZE = OwnerHeader(s, o) + METASIZE
  PROVE  u = o
<1>1. IsPlace(s, u) /\ IsPlace(s, o)
  BY UseFacts
<1>2. OwnerHeader(s, u) \in Nat /\ OwnerHeader(s, o) \in Nat
  BY <1>1, PlaceFacts DEF Addr
<1>3. OwnerHeader(s, u) = OwnerHeader(s, o)
  BY <1>2, Positive
<1> QED
  BY <1>1, <1>3, HeadersApart

LEMMA BlockFacts ==
  ASSUME NEW s, AllocOK(s), NEW p, NEW n, BlockAt(s, p, n),
         NEW o \in Owners, InUse(s, o), p = OwnerHeader(s, o) + METASIZE
  PROVE  /\ n = Requested(s, o) /\ n \in Nat \ {0}
         /\ p \in Addr \ {0} /\ Region(p, n) \subseteq Cell(s, o) /\ Region(p, n) \subseteq Addr
         /\ \A a \in Region(p, n) : a >= OwnerHeader(s, o) + METASIZE
<1>1. PICK u \in Owners : /\ InUse(s, u) /\ p = OwnerHeader(s, u) + METASIZE
                          /\ n = Requested(s, u)
  BY DEF BlockAt
<1>2. /\ IsPlace(s, o) /\ IsPlace(s, u)
      /\ OwnerHeader(s, o) \in Addr /\ OwnerHeader(s, u) \in Addr
  BY <1>1, UseFacts, PlaceFacts
<1>3. OwnerHeader(s, o) = OwnerHeader(s, u)
  BY <1>1, <1>2, Positive DEF Addr
<1>4. u = o
  BY <1>2, <1>3, HeadersApart
<1>5. n \in Nat \ {0} /\ n <= CellLen(s, o) - METASIZE
  BY <1>1, <1>4, UseFacts
<1>6. CellLen(s, o) \in Nat /\ Cell(s, o) \subseteq Addr
  BY <1>2, PlaceFacts
<1>7. OwnerHeader(s, o) \in Nat
  BY <1>2 DEF Addr
<1>8. Region(p, n) \subseteq Cell(s, o) /\ \A a \in Region(p, n) : a >= OwnerHeader(s, o) + METASIZE
  BY <1>5, <1>6, <1>7, Positive DEF Region, Cell
<1>9. p \in Region(p, n) /\ p # 0
  BY <1>5, <1>7, Positive DEF Region
<1> QED
  BY <1>1, <1>4, <1>5, <1>6, <1>8, <1>9

\* A pointer has one length.
LEMMA BlockLength ==
  ASSUME NEW s, AllocOK(s), NEW p, NEW m, NEW n, BlockAt(s, p, m), BlockAt(s, p, n)
  PROVE  m = n /\ n \in Nat \ {0} /\ p \in Addr \ {0} /\ Region(p, n) \subseteq Addr
<1>1. PICK o \in Owners : InUse(s, o) /\ p = OwnerHeader(s, o) + METASIZE
  BY DEF BlockAt
<1> QED
  BY <1>1, BlockFacts

\* No byte belongs to two blocks.
LEMMA BlocksApart ==
  ASSUME NEW s, AllocOK(s), NEW p, NEW m, NEW q, NEW n, BlockAt(s, p, m), BlockAt(s, q, n),
         p # q
  PROVE  Region(p, m) \cap Region(q, n) = {}
<1>1. PICK o \in Owners : InUse(s, o) /\ p = OwnerHeader(s, o) + METASIZE
  BY DEF BlockAt
<1>2. PICK u \in Owners : InUse(s, u) /\ q = OwnerHeader(s, u) + METASIZE
  BY DEF BlockAt
<1>3. IsPlace(s, o) /\ IsPlace(s, u) /\ o # u
  BY <1>1, <1>2, UseFacts
<1>4. Region(p, m) \subseteq Cell(s, o) /\ Region(q, n) \subseteq Cell(s, u)
  BY <1>1, <1>2, BlockFacts
<1> QED
  BY <1>3, <1>4, CellsApart

\* A block is mapped memory and shares no byte with the header of any place.
LEMMA BlockMemory ==
  ASSUME NEW s, AllocOK(s), NEW p, NEW n, BlockAt(s, p, n)
  PROVE  /\ PagesOf(p, n) \subseteq s.pages
         /\ \A o \in Owners : IsPlace(s, o) =>
              Region(p, n) \cap Region(OwnerHeader(s, o), METASIZE) = {}
<1>1. PICK u \in Owners : InUse(s, u) /\ p = OwnerHeader(s, u) + METASIZE
  BY DEF BlockAt
<1>2. /\ IsPlace(s, u) /\ Region(p, n) \subseteq Cell(s, u)
      /\ \A a \in Region(p, n) : a >= OwnerHeader(s, u) + METASIZE
  BY <1>1, UseFacts, BlockFacts
<1>3. ASSUME NEW a \in Region(p, n) PROVE a \div PAGE \in s.pages
  <2> DEFINE page == a \div PAGE
  <2>1. page \in PlacePages(s, u)
    BY <1>2, PlaceFacts
  <2> HIDE DEF page
  <2>2. \A z : z \in s.pages <=> \/ \E zone \in Zones : z \in ArenaPages(s, zone)
                                 \/ \E e \in LiveEntries(s) : z \in EntryPages(s, e)
    BY PagesOKByPage DEF AllocOK
  <2>3. page \in s.pages
    BY <1>2, <2>1, <2>2, OwnerCases DEF PlacePages, IsPlace
  <2> QED
    BY <2>3 DEF page
<1>4. ASSUME NEW o \in Owners, IsPlace(s, o), NEW a \in Region(p, n),
             a \in Region(OwnerHeader(s, o), METASIZE)
      PROVE  FALSE
  <2>1. OwnerHeader(s, o) \in Nat /\ CellLen(s, o) \in Nat /\ METASIZE < CellLen(s, o)
    BY <1>4, PlaceFacts DEF Addr
  <2>2. a \in Cell(s, o) /\ a < OwnerHeader(s, o) + METASIZE
    BY <1>4, <2>1, Positive DEF Region, Cell
  <2>3. a \in Int
    BY <1>4, <2>1, Positive DEF Region
  <2>4. o = u
    BY <1>2, <1>4, <2>2, CellsApart
  <2> QED
    BY <1>2, <2>1, <2>2, <2>3, <2>4, Positive
<1> QED
  BY <1>3, <1>4 DEF PagesOf

-----------------------------------------------------------------------------
(***************************************************************************)
(* The lookup.  find_live_allocation compares addresses only; it finds an  *)
(* owner exactly for the pointers at which there is a block.               *)
(***************************************************************************)
LEMMA SlotLookup ==
  ASSUME NEW s, AllocOK(s), NEW zone \in Zones, NEW slot \in s.bitmap[zone]
  PROVE  live_pool_slot(s, zone, Header(s.arena[zone], zone, slot) + METASIZE) = slot
<1> DEFINE base == s.arena[zone]
           n == Stride(zone)
           k == slot * n
           ptr == Header(base, zone, slot) + METASIZE
<1>1. slot \in Slots /\ base \in Addr \ {0} /\ n \in Nat \ {0}
  BY StrideFacts DEF AllocOK, PoolOK, StateType
<1>2. base \in Nat /\ base # 0 /\ slot \in Nat /\ slot < SLOTS /\ k \in Nat
  BY <1>1, Positive DEF Addr
<1>3. ptr - base - METASIZE = k
  BY <1>2, Positive DEF Header
<1>4. k = n * slot + 0 /\ 0 \in 0 .. (n - 1)
  BY <1>1, <1>2
<1>5. k \div n = slot /\ k % n = 0
  <2> HIDE DEF k, n
  <2> QED
    BY <1>1, <1>2, <1>4, DivUnique
<1> HIDE DEF ptr, k, n, base
<1>6. IsMapped(base)
  BY <1>2 DEF IsMapped
<1>7. live_pool_slot(s, zone, ptr) = slot
  BY <1>2, <1>3, <1>5, <1>6 DEF live_pool_slot, base, n
<1> QED
  BY <1>7 DEF ptr, base

LEMMA OwnerIsBlock ==
  ASSUME NEW s, AllocOK(s), NEW owner, NEW ptr,
         owner \in [zone : Zones \cup {"large"}, slot : Int],
         SlotOwner(s, owner, ptr) \/ EntryOwner(s, owner, ptr)
  PROVE  /\ owner \in Owners /\ InUse(s, owner) /\ ptr = OwnerHeader(s, owner) + METASIZE
         /\ BlockAt(s, ptr, Requested(s, owner))
<1>1. owner \in Owners
  BY DEF Owners, SlotOwner, EntryOwner, LiveEntries
<1>2. InUse(s, owner) /\ ptr = OwnerHeader(s, owner) + METASIZE
  BY DEF SlotOwner, EntryOwner, InUse, OwnerHeader
<1> QED
  BY <1>1, <1>2 DEF BlockAt

LEMMA LookupExact ==
  ASSUME NEW s, AllocOK(s), NEW ptr \in Addr, NEW owner, owner = find_live_allocation(s, ptr)
  PROVE  /\ owner = NoOwner => \A n : ~BlockAt(s, ptr, n)
         /\ owner # NoOwner =>
              /\ owner \in Owners /\ InUse(s, owner) /\ ptr = OwnerHeader(s, owner) + METASIZE
              /\ BlockAt(s, ptr, Requested(s, owner))
<1> DEFINE tiny == live_pool_slot(s, "tiny", ptr)
           small == live_pool_slot(s, "small", ptr)
<1>1. /\ tiny >= 0 => tiny \in Int
      /\ small >= 0 => small \in Int
  BY LivePoolSlot, Positive DEF SlotOwner
<1>2. LargeEntriesAt(s, ptr) # {} => Min(LargeEntriesAt(s, ptr)) \in LargeEntriesAt(s, ptr)
  <2>1. LargeEntriesAt(s, ptr) \in SUBSET Nat
    BY Positive DEF LargeEntriesAt
  <2> QED
    BY <2>1, MinIsLeast
<1>3. owner = NoOwner \/ owner \in [zone : Zones \cup {"large"}, slot : Int]
  <2> HIDE DEF tiny, small
  <2> QED
    BY <1>1, <1>2, Positive DEF find_live_allocation, LargeEntriesAt, tiny, small
<1>4. owner # NoOwner => SlotOwner(s, owner, ptr) \/ EntryOwner(s, owner, ptr)
  BY OwnerFound
<1>5. ASSUME NEW n, BlockAt(s, ptr, n) PROVE owner # NoOwner
  <2>1. PICK o \in Owners : InUse(s, o) /\ ptr = OwnerHeader(s, o) + METASIZE
    BY <1>5 DEF BlockAt
  <2>2. ptr # 0
    BY <1>5, BlockLength
  <2>3. CASE o.zone \in Zones
    <3>1. /\ o.slot \in s.bitmap[o.zone]
          /\ ptr = Header(s.arena[o.zone], o.zone, o.slot) + METASIZE
      BY <2>1, <2>3 DEF InUse, OwnerHeader
    <3>2. live_pool_slot(s, o.zone, ptr) = o.slot
      BY <2>3, <3>1, SlotLookup
    <3>3. o.slot \in Slots
      BY <2>3, <3>1 DEF AllocOK, StateType
    <3>4. tiny >= 0 \/ small >= 0
      BY <2>3, <3>2, <3>3, Positive
    <3> HIDE DEF tiny, small
    <3>5. owner.zone \in Zones
      BY <2>2, <3>4 DEF find_live_allocation, tiny, small
    <3> QED
      BY <3>5 DEF NoOwner
  <2>4. CASE o.zone = "large"
    <3>1. o.slot \in LargeEntriesAt(s, ptr)
      BY <2>1, <2>4 DEF InUse, OwnerHeader, LargeEntriesAt, LiveEntries
    <3>2. owner.zone \in Zones \cup {"large"}
      BY <2>2, <3>1 DEF find_live_allocation
    <3> QED
      BY <3>2 DEF NoOwner
  <2> QED
    BY <2>3, <2>4, OwnerCases
<1> QED
  BY <1>3, <1>4, <1>5, OwnerIsBlock

-----------------------------------------------------------------------------
(***************************************************************************)
(* How one state's blocks differ from another's.                           *)
(***************************************************************************)
SameBlocks(s, t) == \A p, n : BlockAt(t, p, n) <=> BlockAt(s, p, n)

\* A block of n bytes at q, where there was none.
Adds(s, t, q, k) ==
  /\ \A n : ~BlockAt(s, q, n)
  /\ \A p, n : BlockAt(t, p, n) <=> BlockAt(s, p, n) \/ (p = q /\ n = k)

\* The block at q goes.
Removes(s, t, q) == \A p, n : BlockAt(t, p, n) <=> BlockAt(s, p, n) /\ p # q

\* The block at q gets the length k.
Resizes(s, t, q, k) ==
  \A p, n : BlockAt(t, p, n) <=> (BlockAt(s, p, n) /\ p # q) \/ (p = q /\ n = k)

\* A place is in use as it was.
SameUse(s, t, o) ==
  /\ InUse(t, o) <=> InUse(s, o)
  /\ InUse(s, o) =>
       OwnerHeader(t, o) = OwnerHeader(s, o) /\ Requested(t, o) = Requested(s, o)

Others(s, t, o) == \A u \in Owners : u # o => SameUse(s, t, u)

LEMMA SameUses ==
  ASSUME NEW s, NEW t, \A o \in Owners : SameUse(s, t, o)
  PROVE  SameBlocks(s, t)
  BY DEF SameBlocks, SameUse, BlockAt

LEMMA AddedUse ==
  ASSUME NEW s, NEW t, AllocOK(s), AllocOK(t), NEW o \in Owners, Others(s, t, o),
         ~InUse(s, o), InUse(t, o)
  PROVE  Adds(s, t, OwnerHeader(t, o) + METASIZE, Requested(t, o))
<1> DEFINE q == OwnerHeader(t, o) + METASIZE
<1>1. ASSUME NEW n, BlockAt(s, q, n) PROVE FALSE
  <2>1. PICK u \in Owners : InUse(s, u) /\ q = OwnerHeader(s, u) + METASIZE
    BY <1>1 DEF BlockAt
  <2>2. u # o /\ InUse(t, u) /\ OwnerHeader(t, u) = OwnerHeader(s, u)
    BY <2>1 DEF Others, SameUse
  <2> QED
    BY <2>1, <2>2, UseOfPointer
<1>2. \A p, n : BlockAt(t, p, n) <=> BlockAt(s, p, n) \/ (p = q /\ n = Requested(t, o))
  BY DEF Others, SameUse, BlockAt
<1> QED
  BY <1>1, <1>2 DEF Adds

LEMMA RemovedUse ==
  ASSUME NEW s, NEW t, AllocOK(s), NEW o \in Owners, Others(s, t, o),
         InUse(s, o), ~InUse(t, o)
  PROVE  Removes(s, t, OwnerHeader(s, o) + METASIZE)
<1> DEFINE q == OwnerHeader(s, o) + METASIZE
<1>1. ASSUME NEW u \in Owners, InUse(s, u), OwnerHeader(s, u) + METASIZE = q PROVE u = o
  BY <1>1, UseOfPointer
<1> HIDE DEF q
<1>2. ASSUME NEW p, NEW n PROVE BlockAt(t, p, n) <=> BlockAt(s, p, n) /\ p # q
  <2>1. ASSUME BlockAt(t, p, n) PROVE BlockAt(s, p, n) /\ p # q
    <3>1. PICK u \in Owners : InUse(t, u) /\ p = OwnerHeader(t, u) + METASIZE /\ n = Requested(t, u)
      BY <2>1 DEF BlockAt
    <3>2. u # o /\ SameUse(s, t, u)
      BY <3>1 DEF Others
    <3> QED
      BY <1>1, <3>1, <3>2 DEF SameUse, BlockAt
  <2>2. ASSUME BlockAt(s, p, n), p # q PROVE BlockAt(t, p, n)
    <3>1. PICK u \in Owners : InUse(s, u) /\ p = OwnerHeader(s, u) + METASIZE /\ n = Requested(s, u)
      BY <2>2 DEF BlockAt
    <3>2. u # o /\ SameUse(s, t, u)
      BY <2>2, <3>1 DEF Others, q
    <3> QED
      BY <3>1, <3>2 DEF SameUse, BlockAt
  <2> QED
    BY <2>1, <2>2
<1> QED
  BY <1>2 DEF Removes, q

LEMMA ResizedUse ==
  ASSUME NEW s, NEW t, AllocOK(s), NEW o \in Owners, Others(s, t, o),
         InUse(s, o), InUse(t, o), OwnerHeader(t, o) = OwnerHeader(s, o)
  PROVE  Resizes(s, t, OwnerHeader(s, o) + METASIZE, Requested(t, o))
<1> DEFINE q == OwnerHeader(s, o) + METASIZE
           k == Requested(t, o)
<1>1. ASSUME NEW u \in Owners, InUse(s, u), OwnerHeader(s, u) + METASIZE = q PROVE u = o
  BY <1>1, UseOfPointer
<1>2. OwnerHeader(t, o) + METASIZE = q
  OBVIOUS
<1> HIDE DEF q, k
<1>3. ASSUME NEW p, NEW n
      PROVE  BlockAt(t, p, n) <=> (BlockAt(s, p, n) /\ p # q) \/ (p = q /\ n = k)
  <2>1. ASSUME BlockAt(t, p, n) PROVE (BlockAt(s, p, n) /\ p # q) \/ (p = q /\ n = k)
    <3>1. PICK u \in Owners : InUse(t, u) /\ p = OwnerHeader(t, u) + METASIZE /\ n = Requested(t, u)
      BY <2>1 DEF BlockAt
    <3>2. CASE u = o
      BY <1>2, <3>1, <3>2 DEF k
    <3>3. CASE u # o
      <4>1. SameUse(s, t, u)
        BY <3>3 DEF Others
      <4> QED
        BY <1>1, <3>1, <3>3, <4>1 DEF SameUse, BlockAt
    <3> QED
      BY <3>2, <3>3
  <2>2. ASSUME BlockAt(s, p, n), p # q PROVE BlockAt(t, p, n)
    <3>1. PICK u \in Owners : InUse(s, u) /\ p = OwnerHeader(s, u) + METASIZE /\ n = Requested(s, u)
      BY <2>2 DEF BlockAt
    <3>2. u # o /\ SameUse(s, t, u)
      BY <2>2, <3>1 DEF Others, q
    <3> QED
      BY <3>1, <3>2 DEF SameUse, BlockAt
  <2>3. BlockAt(t, q, k)
    BY <1>2 DEF BlockAt, k
  <2> QED
    BY <2>1, <2>2, <2>3
<1> QED
  BY <1>3 DEF Resizes, q, k

-----------------------------------------------------------------------------
(***************************************************************************)
(* The changes the functions are made of, as changes of the blocks.        *)
(***************************************************************************)
\* The fields that say who is in use, where and how long.
SameTables(s, t) ==
  /\ t.bitmap = s.bitmap /\ t.large = s.large
  /\ t.large_request_sizes = s.large_request_sizes /\ t.meta = s.meta
  /\ \A zone \in Zones : s.bitmap[zone] # {} => t.arena[zone] = s.arena[zone]

LEMMA SameTablesUse ==
  ASSUME NEW s, NEW t, SameTables(s, t)
  PROVE  SameBlocks(s, t)
<1>1. ASSUME NEW o \in Owners PROVE SameUse(s, t, o)
  <2>1. CASE o.zone = "large"
    BY <2>1 DEF SameUse, InUse, OwnerHeader, Requested, SameTables, LiveEntries
  <2>2. CASE o.zone \in Zones
    <3>1. InUse(s, o) => t.arena[o.zone] = s.arena[o.zone]
      BY <2>2 DEF SameTables, InUse
    <3> QED
      BY <2>2, <3>1 DEF SameUse, InUse, OwnerHeader, Requested, SameTables
  <2> QED
    BY <2>1, <2>2, OwnerCases
<1> QED
  BY <1>1, SameUses

\* Memory and flags are no part of the tables.
LEMMA MemoryBlocks ==
  ASSUME NEW s \in StateType, NEW V
  PROVE  SameBlocks(s, [s EXCEPT !.mem = V]) /\ [s EXCEPT !.mem = V].mem = V
<1>1. SameTables(s, [s EXCEPT !.mem = V]) /\ [s EXCEPT !.mem = V].mem = V
  BY DEF SameTables, StateType
<1> QED
  BY <1>1, SameTablesUse

LEMMA HeadInArena ==
  ASSUME NEW base \in Int, NEW zone \in Zones, NEW slot \in Slots
  PROVE  Header(base, zone, slot) \in Region(base, ArenaLen(zone))
<1> DEFINE head == Header(base, zone, slot)
           len == ArenaLen(zone)
<1>1. head \in Int /\ base <= head /\ head + Stride(zone) <= base + len
  BY SlotInside
<1>2. Stride(zone) \in Nat \ {0} /\ len \in Nat
  BY StrideFacts, ArenaLenNat
<1> HIDE DEF head, len
<1>3. head \in Region(base, len)
  BY <1>1, <1>2 DEF Region
<1> QED
  BY <1>3 DEF head, len

\* An arena opens: its slots are all free.
LEMMA OpenedBlocks ==
  ASSUME NEW s, AllocOK(s), NEW zone \in Zones, ~s.zone_flag[zone],
         NEW base \in FreeRuns(s, ArenaLen(zone)), NEW t, ArenaOpened(s, t, zone, base)
  PROVE  SameBlocks(s, t) /\ t.mem = s.mem
<1>1. s \in StateType /\ ArenaLen(zone) \in Nat \ {0}
  BY ArenaLenNat DEF AllocOK
<1>2. \A slot \in Slots : Header(base, zone, slot) \in Region(base, ArenaLen(zone))
  <2>1. base \in Int
    BY <1>1, FreshRun DEF Addr
  <2> QED
    BY <2>1, HeadInArena
<1>3. ASSUME NEW o \in Owners PROVE SameUse(s, t, o)
  <2>1. InUse(t, o) <=> InUse(s, o)
    BY DEF InUse, LiveEntries, ArenaOpened
  <2>2. ASSUME InUse(s, o)
        PROVE  OwnerHeader(t, o) = OwnerHeader(s, o) /\ Requested(t, o) = Requested(s, o)
    <3>1. IsPlace(s, o)
      BY <2>2, UseFacts
    <3>2. OwnerHeader(s, o) \in Addr /\ OwnerHeader(s, o) \notin Region(base, ArenaLen(zone))
      <4>1. OwnerHeader(s, o) \in Addr
        BY <3>1, PlaceFacts
      <4> QED
        BY <1>1, <3>1, <4>1, FreshApart, OwnerCases DEF OwnerHeader, IsPlace
    <3>3. t.meta[OwnerHeader(s, o)] = s.meta[OwnerHeader(s, o)]
      BY <1>2, <3>2 DEF ArenaOpened
    <3>4. o.zone \in Zones => t.arena[o.zone] = s.arena[o.zone]
      BY <1>1, <3>1, OwnerCases DEF ArenaOpened, IsPlace, StateType
    <3>5. OwnerHeader(t, o) = OwnerHeader(s, o)
      BY <3>4, OwnerCases DEF OwnerHeader, ArenaOpened
    <3> QED
      BY <3>3, <3>5 DEF Requested, ArenaOpened
  <2> QED
    BY <2>1, <2>2 DEF SameUse
<1> QED
  BY <1>3, SameUses DEF ArenaOpened

\* A slot gets a length and a bit: a new block, or a block of another length.
LEMMA UsedSlotUse ==
  ASSUME NEW s, AllocOK(s), NEW zone \in Zones, s.zone_flag[zone],
         NEW slot \in Slots, NEW n \in 1 .. (Stride(zone) - METASIZE),
         NEW t, UsedSlot(s, t, zone, slot, n), NEW o, o = [zone |-> zone, slot |-> slot]
  PROVE  /\ o \in Owners /\ Others(s, t, o) /\ InUse(t, o)
         /\ InUse(s, o) <=> slot \in s.bitmap[zone]
         /\ OwnerHeader(t, o) = OwnerHeader(s, o)
         /\ OwnerHeader(s, o) = Header(s.arena[zone], zone, slot)
         /\ Requested(t, o) = n /\ t.mem = s.mem
<1> DEFINE head == Header(s.arena[zone], zone, slot)
<1>1. PICK r : Stamped(s, r, head, n) /\ t = [r EXCEPT !.bitmap[zone] = @ \cup {slot}]
  BY DEF UsedSlot
<1>2. s \in StateType
  BY DEF AllocOK
<1>3. o \in Owners /\ o.zone = zone /\ o.slot = slot /\ zone # "large"
  BY OwnersMade
<1>4. OwnerHeader(s, o) = head /\ IsPlace(s, o)
  BY <1>3 DEF OwnerHeader, IsPlace
<1>5. head \in Addr
  BY <1>3, <1>4, PlaceFacts
<1>6. n \in 0 .. INT_MAX
  BY StrideFacts, Positive
<1> HIDE DEF head
<1>7. /\ t.arena = s.arena /\ t.large = s.large
      /\ t.large_request_sizes = s.large_request_sizes /\ t.mem = s.mem
      /\ t.bitmap = [s.bitmap EXCEPT ![zone] = @ \cup {slot}]
      /\ t.meta[head].client_size = n
      /\ \A a \in Addr : a # head => t.meta[a] = s.meta[a]
  BY <1>1, <1>6, ToIntSmall DEF Stamped, StateType
<1>8. \A z \in Zones : t.bitmap[z] = IF z = zone THEN s.bitmap[z] \cup {slot} ELSE s.bitmap[z]
  BY <1>2, <1>7 DEF StateType
<1>9. \A u \in Owners : OwnerHeader(t, u) = OwnerHeader(s, u)
  BY <1>7 DEF OwnerHeader
<1>10. ASSUME NEW u \in Owners, u # o PROVE SameUse(s, t, u)
  <2>1. InUse(t, u) <=> InUse(s, u)
    <3>1. CASE u.zone = "large"
      BY <1>7, <3>1 DEF InUse, LiveEntries
    <3>2. CASE u.zone \in Zones
      <4>1. u.zone # zone \/ u.slot # slot
        BY <1>3, <1>10, OwnerCases
      <4> QED
        BY <1>8, <3>2, <4>1 DEF InUse
    <3> QED
      BY <3>1, <3>2, OwnerCases
  <2>2. ASSUME InUse(s, u) PROVE Requested(t, u) = Requested(s, u)
    <3>1. IsPlace(s, u)
      BY <2>2, UseFacts
    <3>2. OwnerHeader(s, u) \in Addr /\ OwnerHeader(s, u) # head
      BY <1>3, <1>4, <1>10, <3>1, PlaceFacts, HeadersApart
    <3> QED
      BY <1>7, <1>9, <3>2 DEF Requested
  <2> QED
    BY <1>9, <2>1, <2>2 DEF SameUse
<1>11. InUse(t, o) /\ (InUse(s, o) <=> slot \in s.bitmap[zone])
  BY <1>3, <1>8 DEF InUse
<1>12. Requested(t, o) = n
  BY <1>3, <1>4, <1>7, <1>9 DEF Requested
<1> QED
  BY <1>3, <1>4, <1>7, <1>9, <1>10, <1>11, <1>12 DEF Others, head

\* A new LARGE block.
LEMMA RecordedUse ==
  ASSUME NEW s, AllocOK(s), NEW len \in Nat \ {0}, NEW base \in FreeRuns(s, len),
         NEW entry \in Entries, s.large[entry] = 0,
         NEW n, NEW t, Recorded(s, t, base, len, entry, n),
         NEW o, o = [zone |-> "large", slot |-> entry]
  PROVE  /\ o \in Owners /\ Others(s, t, o) /\ InUse(t, o) /\ ~InUse(s, o)
         /\ OwnerHeader(t, o) = base /\ Requested(t, o) = n /\ t.mem = s.mem
<1>1. s \in StateType /\ base \in Addr \ {0} /\ base \in Region(base, len)
  <2>1. s \in StateType
    BY DEF AllocOK
  <2>2. base \in Addr \ {0}
    BY <2>1, FreshRun
  <2> QED
    BY <2>1, <2>2 DEF Region, Addr
<1>2. o \in Owners /\ o.zone = "large" /\ o.slot = entry
  BY OwnersMade
<1>3. /\ t.arena = s.arena /\ t.bitmap = s.bitmap /\ t.mem = s.mem
      /\ t.large = [s.large EXCEPT ![entry] = base]
      /\ t.large_request_sizes = [s.large_request_sizes EXCEPT ![entry] = n]
      /\ \A a \in Addr : a # base => t.meta[a] = s.meta[a]
  BY DEF Recorded
<1>4. /\ t.large[entry] = base /\ t.large_request_sizes[entry] = n
      /\ \A e \in Entries : e # entry =>
           t.large[e] = s.large[e] /\ t.large_request_sizes[e] = s.large_request_sizes[e]
  BY <1>1, <1>3, Positive DEF StateType
<1>5. InUse(t, o) /\ ~InUse(s, o) /\ OwnerHeader(t, o) = base /\ Requested(t, o) = n
  BY <1>1, <1>2, <1>4 DEF InUse, LiveEntries, OwnerHeader, Requested
<1>6. ASSUME NEW u \in Owners, u # o PROVE SameUse(s, t, u)
  <2>1. CASE u.zone = "large"
    <3>1. u.slot # entry
      BY <1>2, <1>6, <2>1, OwnerCases
    <3> QED
      BY <1>4, <2>1, <3>1 DEF SameUse, InUse, LiveEntries, OwnerHeader, Requested
  <2>2. CASE u.zone \in Zones
    <3>1. u.zone # "large" /\ (InUse(t, u) <=> InUse(s, u)) /\ OwnerHeader(t, u) = OwnerHeader(s, u)
      BY <1>3, <2>2 DEF InUse, OwnerHeader
    <3>2. ASSUME InUse(s, u) PROVE Requested(t, u) = Requested(s, u)
      <4>1. IsPlace(s, u)
        BY <3>2, UseFacts
      <4>2. OwnerHeader(s, u) \in Addr /\ OwnerHeader(s, u) # base
        <5>1. OwnerHeader(s, u) \in Addr
          BY <4>1, PlaceFacts
        <5>2. OwnerHeader(s, u) \notin Region(base, len)
          BY <2>2, <3>1, <4>1, FreshApart DEF OwnerHeader, IsPlace
        <5> QED
          BY <1>1, <5>1, <5>2
      <4> QED
        BY <1>3, <3>1, <4>2 DEF Requested
    <3> QED
      BY <3>1, <3>2 DEF SameUse
  <2> QED
    BY <2>1, <2>2, OwnerCases
<1> QED
  BY <1>2, <1>3, <1>5, <1>6 DEF Others

\* A LARGE block goes; the bytes that change are those of its mapping.
LEMMA DroppedUse ==
  ASSUME NEW s, AllocOK(s), NEW entry \in LiveEntries(s), NEW t, Dropped(s, t, entry),
         NEW o, o = [zone |-> "large", slot |-> entry]
  PROVE  /\ o \in Owners /\ Others(s, t, o) /\ InUse(s, o) /\ ~InUse(t, o)
         /\ OwnerHeader(s, o) = s.large[entry]
         /\ \A a \in Addr : a \notin Cell(s, o) => t.mem[a] = s.mem[a]
<1>1. entry \in Entries /\ o.zone = "large" /\ o.slot = entry /\ o \in Owners
  BY OwnersMade DEF LiveEntries
<1>2. OwnerHeader(s, o) = s.large[entry] /\ Cell(s, o) = Region(s.large[entry], s.meta[s.large[entry]].size)
      /\ InUse(s, o) /\ IsPlace(s, o)
  BY <1>1 DEF OwnerHeader, Cell, CellLen, InUse, IsPlace
<1>3. /\ t.arena = s.arena /\ t.bitmap = s.bitmap
      /\ t.large = [s.large EXCEPT ![entry] = 0]
      /\ t.large_request_sizes = [s.large_request_sizes EXCEPT ![entry] = 0]
      /\ \A a \in Addr : a \notin Cell(s, o) => t.meta[a] = s.meta[a] /\ t.mem[a] = s.mem[a]
  BY <1>2 DEF Dropped
<1>4. /\ t.large[entry] = 0
      /\ \A e \in Entries : e # entry =>
           t.large[e] = s.large[e] /\ t.large_request_sizes[e] = s.large_request_sizes[e]
  BY <1>1, <1>3, Positive DEF AllocOK, StateType
<1>5. ~InUse(t, o)
  BY <1>1, <1>4 DEF InUse, LiveEntries
<1>6. ASSUME NEW u \in Owners, u # o PROVE SameUse(s, t, u)
  <2>1. CASE u.zone = "large"
    <3>1. u.slot # entry
      BY <1>1, <1>6, <2>1, OwnerCases
    <3> QED
      BY <1>4, <2>1, <3>1 DEF SameUse, InUse, LiveEntries, OwnerHeader, Requested
  <2>2. CASE u.zone \in Zones
    <3>1. u.zone # "large" /\ (InUse(t, u) <=> InUse(s, u)) /\ OwnerHeader(t, u) = OwnerHeader(s, u)
      BY <1>3, <2>2 DEF InUse, OwnerHeader
    <3>2. ASSUME InUse(s, u) PROVE Requested(t, u) = Requested(s, u)
      <4>1. IsPlace(s, u)
        BY <3>2, UseFacts
      <4>2. OwnerHeader(s, u) \in Addr /\ OwnerHeader(s, u) \in Cell(s, u)
        BY <4>1, PlaceFacts
      <4>3. OwnerHeader(s, u) \notin Cell(s, o)
        BY <1>1, <1>2, <1>6, <4>1, <4>2, CellsApart
      <4> QED
        BY <1>3, <3>1, <4>2, <4>3 DEF Requested
    <3> QED
      BY <3>1, <3>2 DEF SameUse
  <2> QED
    BY <2>1, <2>2, OwnerCases
<1> QED
  BY <1>1, <1>2, <1>3, <1>5, <1>6 DEF Others

\* A slot is given back: only its bit changes.
LEMMA ClearedUse ==
  ASSUME NEW s, AllocOK(s), NEW o \in Owners, o.zone \in Zones, InUse(s, o)
  PROVE  /\ Others(s, ClearSlot(s, o), o) /\ ~InUse(ClearSlot(s, o), o)
         /\ ClearSlot(s, o).mem = s.mem
<1> DEFINE t == ClearSlot(s, o)
<1>1. s \in StateType
  BY DEF AllocOK
<1>2. /\ t.arena = s.arena /\ t.large = s.large /\ t.meta = s.meta
      /\ t.large_request_sizes = s.large_request_sizes /\ t.mem = s.mem
      /\ t.bitmap = [s.bitmap EXCEPT ![o.zone] = @ \ {o.slot}]
  BY <1>1 DEF ClearSlot, StateType
<1> HIDE DEF t
<1>3. \A z \in Zones : t.bitmap[z] = IF z = o.zone THEN s.bitmap[z] \ {o.slot} ELSE s.bitmap[z]
  BY <1>1, <1>2 DEF StateType
<1>4. ~InUse(t, o)
  BY <1>3 DEF InUse
<1>5. ASSUME NEW u \in Owners, u # o PROVE SameUse(s, t, u)
  <2>1. CASE u.zone = "large"
    BY <1>2, <2>1 DEF SameUse, InUse, LiveEntries, OwnerHeader, Requested
  <2>2. CASE u.zone \in Zones
    <3>1. u.zone # o.zone \/ u.slot # o.slot
      BY <1>5, OwnerCases
    <3> QED
      BY <1>2, <1>3, <2>2, <3>1 DEF SameUse, InUse, OwnerHeader, Requested
  <2> QED
    BY <2>1, <2>2, OwnerCases
<1> QED
  BY <1>2, <1>4, <1>5 DEF Others, t

\* A block gets another length where it is.
LEMMA ResizedInPlaceUse ==
  ASSUME NEW s, AllocOK(s), NEW o \in Owners, InUse(s, o),
         NEW n \in Nat \ {0}, o.zone \in Zones => n <= INT_MAX
  PROVE  LET t == ResizeInPlace(s, o, n)
         IN  /\ Others(s, t, o) /\ InUse(t, o)
             /\ OwnerHeader(t, o) = OwnerHeader(s, o) /\ Requested(t, o) = n
             /\ t.mem = s.mem
<1> DEFINE head == OwnerHeader(s, o)
           r == Stamp(s, head, n)
           t == ResizeInPlace(s, o, n)
<1>1. s \in StateType /\ IsPlace(s, o)
  BY UseFacts DEF AllocOK
<1>2. head \in Addr
  BY <1>1, PlaceFacts
<1> HIDE DEF head
<1>3. Stamped(s, r, head, n)
  BY <1>1, <1>2, StampFields
<1> HIDE DEF r
<1>4. t = IF o.zone \in Zones THEN r ELSE [r EXCEPT !.large_request_sizes[o.slot] = n]
  BY DEF ResizeInPlace, r, head
<1> HIDE DEF t
<1>5. /\ t.arena = s.arena /\ t.bitmap = s.bitmap /\ t.large = s.large /\ t.mem = s.mem
      /\ t.meta[head].client_size = ToInt(n)
      /\ \A a \in Addr : a # head => t.meta[a] = s.meta[a]
  BY <1>3, <1>4 DEF Stamped, StateType
<1>6. t.large_request_sizes = IF o.zone \in Zones THEN s.large_request_sizes
                              ELSE [s.large_request_sizes EXCEPT ![o.slot] = n]
  BY <1>3, <1>4 DEF Stamped, StateType
<1>7. \A u \in Owners : /\ OwnerHeader(t, u) = OwnerHeader(s, u)
                        /\ InUse(t, u) <=> InUse(s, u)
  BY <1>5 DEF OwnerHeader, InUse, LiveEntries
<1>8. Requested(t, o) = n
  <2>1. CASE o.zone = "large"
    <3>1. o.slot \in 0 .. LARGES
      BY <1>1, <2>1, Positive DEF IsPlace, LiveEntries
    <3> QED
      BY <1>1, <1>6, <2>1, <3>1 DEF Requested, StateType
  <2>2. CASE o.zone \in Zones
    <3>1. ToInt(n) = n
      BY <2>2, ToIntSmall, Positive
    <3> QED
      BY <1>5, <1>7, <2>2, <3>1 DEF Requested, head
  <2> QED
    BY <2>1, <2>2, OwnerCases
<1>9. ASSUME NEW u \in Owners, u # o PROVE SameUse(s, t, u)
  <2>1. ASSUME InUse(s, u) PROVE Requested(t, u) = Requested(s, u)
    <3>1. IsPlace(s, u)
      BY <2>1, UseFacts
    <3>2. CASE u.zone = "large"
      <4>1. u.slot \in 0 .. LARGES
        BY <3>1, <3>2, Positive DEF IsPlace, LiveEntries
      <4>2. o.zone = "large" => u.slot # o.slot
        BY <1>9, <3>2, OwnerCases
      <4>3. t.large_request_sizes[u.slot] = s.large_request_sizes[u.slot]
        BY <1>1, <1>6, <4>1, <4>2, OwnerCases DEF StateType
      <4> QED
        BY <3>2, <4>3 DEF Requested
    <3>3. CASE u.zone \in Zones
      <4>1. OwnerHeader(s, u) \in Addr /\ OwnerHeader(s, u) # head
        BY <1>1, <1>9, <3>1, PlaceFacts, HeadersApart DEF head
      <4> QED
        BY <1>5, <1>7, <3>3, <4>1 DEF Requested
    <3> QED
      BY <3>2, <3>3, OwnerCases
  <2> QED
    BY <1>7, <2>1 DEF SameUse
<1>10. Others(s, t, o) /\ InUse(t, o) /\ OwnerHeader(t, o) = OwnerHeader(s, o)
  BY <1>7, <1>9 DEF Others
<1> QED
  BY <1>5, <1>8, <1>10 DEF t

-----------------------------------------------------------------------------
(***************************************************************************)
(* malloc_impl.                                                            *)
(***************************************************************************)
LEMMA SameBlocksTransitive ==
  ASSUME NEW s, NEW t, NEW u, SameBlocks(s, t)
  PROVE  /\ SameBlocks(t, u) => SameBlocks(s, u)
         /\ \A q, k : Adds(t, u, q, k) => Adds(s, u, q, k)
  BY DEF SameBlocks, Adds

LEMMA SameBlocksItself ==
  ASSUME NEW s
  PROVE  SameBlocks(s, s)
  BY DEF SameBlocks

LEMMA EnsureArenaBlocks ==
  ASSUME NEW s, AllocOK(s), NEW zone \in Zones, NEW o \in EnsureArena(s, zone)
  PROVE  SameBlocks(s, o.st) /\ o.st.mem = s.mem /\ ~o.exit
<1>1. CASE o = Return(s, NULL) \/ o = Return(s, s.arena[zone])
  BY <1>1, SameBlocksItself DEF Return
<1>2. CASE /\ ~s.zone_flag[zone]
           /\ o = Refused([s EXCEPT !.page_flag[zone] = TRUE, !.arena[zone] = MAP_FAILED])
  <2> DEFINE t == [s EXCEPT !.page_flag[zone] = TRUE, !.arena[zone] = MAP_FAILED]
  <2>1. s.bitmap[zone] = {} /\ s \in StateType
    BY <1>2 DEF AllocOK, PoolOK
  <2>2. SameTables(s, t) /\ t.mem = s.mem
    BY <2>1 DEF SameTables, StateType
  <2> HIDE DEF t
  <2>3. o = Refused(t)
    BY <1>2 DEF t
  <2> QED
    BY <2>2, <2>3, SameTablesUse DEF Refused, Return
<1>3. ASSUME ~s.zone_flag[zone], NEW base \in FreeRuns(s, ArenaLen(zone)),
             o = Return(OpenArena(s, zone, base), base)
      PROVE  SameBlocks(s, o.st) /\ o.st.mem = s.mem /\ ~o.exit
  <2>1. o.st = OpenArena(s, zone, base) /\ ~o.exit
    BY <1>3 DEF Return
  <2>2. ArenaOpened(s, o.st, zone, base)
    BY <1>3, <2>1, ArenaIsOpened
  <2> QED
    BY <1>3, <2>1, <2>2, OpenedBlocks
<1> QED
  BY <1>1, <1>2, <1>3, EnsureArenaCases

LEMMA TakeSlotBlocks ==
  ASSUME NEW s, AllocOK(s), NEW zone \in Zones, s.zone_flag[zone],
         NEW n \in 1 .. (Stride(zone) - METASIZE), NEW o, o = TakeSlot(s, zone, n)
  PROVE  /\ o.st.mem = s.mem /\ ~o.exit
         /\ IF o.ret = NULL THEN SameBlocks(s, o.st) /\ s.bitmap[zone] = Slots /\ o.st = s
            ELSE Adds(s, o.st, o.ret, n)
<1>1. CASE s.bitmap[zone] = Slots /\ o = Return(s, NULL)
  BY <1>1, SameBlocksItself DEF Return
<1>2. ASSUME NEW slot \in Slots \ s.bitmap[zone], UsedSlot(s, o.st, zone, slot, n),
             o = Return(o.st, Header(s.arena[zone], zone, slot) + METASIZE)
      PROVE  o.st.mem = s.mem /\ ~o.exit /\ o.ret # NULL /\ Adds(s, o.st, o.ret, n)
  <2> DEFINE u == [zone |-> zone, slot |-> slot]
             t == o.st
  <2>1. /\ u \in Owners /\ Others(s, t, u) /\ InUse(t, u) /\ ~InUse(s, u)
        /\ OwnerHeader(t, u) = Header(s.arena[zone], zone, slot)
        /\ Requested(t, u) = n /\ t.mem = s.mem
    BY <1>2, UsedSlotUse
  <2>2. AllocOK(t)
    BY <1>2, UsedSlotOK
  <2>3. Header(s.arena[zone], zone, slot) + METASIZE # 0
    BY <1>2, SlotPage
  <2> HIDE DEF u, t
  <2>4. Adds(s, t, OwnerHeader(t, u) + METASIZE, Requested(t, u))
    BY <2>1, <2>2, AddedUse
  <2>5. o.ret = OwnerHeader(t, u) + METASIZE /\ ~o.exit
    BY <1>2, <2>1 DEF Return
  <2> QED
    BY <2>1, <2>3, <2>4, <2>5 DEF t
<1> QED
  BY <1>1, <1>2, TakeSlotCases DEF Return

LEMMA MallocPoolBlocks ==
  ASSUME NEW s, AllocOK(s), NEW zone \in Zones,
         NEW n \in 1 .. (Stride(zone) - METASIZE), NEW o \in MallocPool(s, zone, n)
  PROVE  /\ o.st.mem = s.mem /\ ~o.exit
         /\ IF o.ret = NULL THEN SameBlocks(s, o.st) ELSE Adds(s, o.st, o.ret, n)
<1>1. PICK e \in EnsureArena(s, zone) : o = IF e.ret = NULL THEN e ELSE TakeSlot(e.st, zone, n)
  BY DEF MallocPool
<1>2. SameBlocks(s, e.st) /\ e.st.mem = s.mem /\ ~e.exit
  BY EnsureArenaBlocks
<1>3. CASE e.ret = NULL
  BY <1>1, <1>2, <1>3
<1>4. CASE e.ret # NULL
  <2>1. AllocOK(e.st) /\ e.st.zone_flag[zone]
    BY <1>4, EnsureArenaOK
  <2>2. o = TakeSlot(e.st, zone, n)
    BY <1>1, <1>4
  <2>3. /\ o.st.mem = e.st.mem /\ ~o.exit
        /\ IF o.ret = NULL THEN SameBlocks(e.st, o.st) ELSE Adds(e.st, o.st, o.ret, n)
    BY <2>1, <2>2, TakeSlotBlocks
  <2> QED
    BY <1>2, <2>3, SameBlocksTransitive
<1> QED
  BY <1>3, <1>4

\* Clearing large[] once, before its first use, changes no block.
LEMMA ClearTableBlocks ==
  ASSUME NEW s, AllocOK(s)
  PROVE  SameBlocks(s, ClearTable(s)) /\ ClearTable(s).mem = s.mem
<1> DEFINE L == [entry \in 0 .. LARGES |-> 0]
           t == [s EXCEPT !.large = L, !.large_flag = TRUE]
<1>1. CASE s.large_flag
  BY <1>1, SameBlocksItself DEF ClearTable
<1>2. CASE ~s.large_flag
  <2>1. s \in StateType /\ \A entry \in 0 .. LARGES : s.large[entry] = 0
    BY <1>2 DEF AllocOK, LargeOK
  <2>2. s.large = L
    BY <2>1 DEF StateType
  <2>3. ClearTable(s) = t
    BY <1>2 DEF ClearTable
  <2> HIDE DEF L
  <2>4. SameTables(s, t) /\ t.mem = s.mem
    BY <2>1, <2>2 DEF SameTables, StateType
  <2> QED
    BY <2>3, <2>4, SameTablesUse
<1> QED
  BY <1>1, <1>2

LEMMA MallocLargeBlocks ==
  ASSUME NEW s, AllocOK(s), NEW n \in Nat, SMALL - METASIZE < n, NEW o \in MallocLarge(s, n)
  PROVE  /\ o.st.mem = s.mem /\ ~o.exit
         /\ IF o.ret = NULL THEN SameBlocks(s, o.st) ELSE Adds(s, o.st, o.ret, n)
<1> DEFINE ready == ClearTable(s)
<1>1. AllocOK(ready) /\ ready.large_flag /\ SameBlocks(s, ready) /\ ready.mem = s.mem
  BY ClearTableOK, ClearTableBlocks
<1>2. CASE o = Return(s, NULL) \/ o = Return(ready, NULL) \/ o = Refused(ready)
  BY <1>1, <1>2, SameBlocksItself DEF Refused, Return
<1> HIDE DEF ready
<1>3. ASSUME NEW len \in Nat \ {0}, NEW base \in FreeRuns(ready, len), NEW entry \in Entries,
             len % INDEX_UNIT = 0, n \in 1 .. (len - METASIZE), ready.large[entry] = 0,
             Recorded(ready, o.st, base, len, entry, n), o = Return(o.st, base + METASIZE)
      PROVE  o.st.mem = s.mem /\ ~o.exit /\ o.ret # NULL /\ Adds(s, o.st, o.ret, n)
  <2> DEFINE u == [zone |-> "large", slot |-> entry]
             t == o.st
  <2>1. /\ u \in Owners /\ Others(ready, t, u) /\ InUse(t, u) /\ ~InUse(ready, u)
        /\ OwnerHeader(t, u) = base /\ Requested(t, u) = n /\ t.mem = ready.mem
    BY <1>1, <1>3, RecordedUse
  <2>2. AllocOK(t)
    BY <1>1, <1>3, RecordedOK
  <2>3. base + METASIZE # 0
    BY <1>1, FreshRun, Positive DEF AllocOK, Addr
  <2> HIDE DEF u, t
  <2>4. Adds(ready, t, base + METASIZE, n)
    BY <1>1, <2>1, <2>2, AddedUse
  <2>5. o.ret = base + METASIZE /\ ~o.exit
    BY <1>3 DEF Return
  <2>6. Adds(s, t, base + METASIZE, n)
    BY <1>1, <2>4, SameBlocksTransitive
  <2> QED
    BY <1>1, <2>1, <2>3, <2>5, <2>6 DEF t
<1> QED
  BY <1>2, <1>3, MallocLargeCases DEF ready, Return, Refused

(***************************************************************************)
(* malloc_impl either changes no block, and returns NULL, or adds exactly  *)
(* one, of the length asked for (1 if 0 was asked for), at an address at   *)
(* which there was none; it stores nothing in any block.                   *)
(***************************************************************************)
THEOREM MallocImplAddsOne ==
  ASSUME NEW s, AllocOK(s), NEW size \in Nat, NEW o \in malloc_impl(s, size)
  PROVE  /\ o.st.mem = s.mem /\ ~o.exit
         /\ IF o.ret = NULL THEN SameBlocks(s, o.st) ELSE Adds(s, o.st, o.ret, AtLeastOne(size))
<1> DEFINE n == AtLeastOne(size)
<1>1. n \in Nat /\ n >= 1
  BY DEF AtLeastOne
<1> HIDE DEF n
<1>2. CASE Class(n) = "large"
  <2>1. o \in MallocLarge(s, n)
    BY <1>2 DEF malloc_impl, n
  <2>2. SMALL - METASIZE < n
    BY <1>1, <1>2, SizesAssumption, Positive DEF Class
  <2> QED
    BY <1>1, <2>1, <2>2, MallocLargeBlocks DEF n
<1>3. CASE Class(n) # "large"
  <2>1. o \in MallocPool(s, Class(n), n)
    BY <1>3 DEF malloc_impl, n
  <2>2. Class(n) \in Zones /\ n \in 1 .. (Stride(Class(n)) - METASIZE)
    BY <1>1, <1>3, SizesAssumption, Positive DEF Class, Stride
  <2> QED
    BY <2>1, <2>2, MallocPoolBlocks DEF n
<1> QED
  BY <1>2, <1>3

-----------------------------------------------------------------------------
(***************************************************************************)
(* free_impl.                                                              *)
(***************************************************************************)
\* The bytes of the block at p are as they were.
KeepsBytes(s, t, p, n) == \A a \in Region(p, n) : t.mem[a] = s.mem[a]

(***************************************************************************)
(* free_impl of a pointer at which there is no block changes nothing at    *)
(* all.  Of a block, it removes that block and no other, and every block   *)
(* that stays keeps its bytes, munmap of a neighbour included; if munmap   *)
(* fails the process ends and the tables are as they were.                 *)
(***************************************************************************)
THEOREM FreeImplRemovesOne ==
  ASSUME NEW s, AllocOK(s), NEW ptr \in Addr, NEW o \in free_impl(s, ptr)
  PROVE  \/ o.st = s /\ ~o.exit /\ \A n : ~BlockAt(s, ptr, n)
         \/ o.st = s /\ o.exit /\ \E n : BlockAt(s, ptr, n)
         \/ /\ ~o.exit /\ \E n : BlockAt(s, ptr, n)
            /\ Removes(s, o.st, ptr)
            /\ \A p, n : BlockAt(o.st, p, n) => KeepsBytes(s, o.st, p, n)
<1> DEFINE owner == find_live_allocation(s, ptr)
<1>1. CASE owner = NoOwner
  <2>1. o = Return(s, NULL)
    BY <1>1 DEF free_impl
  <2> QED
    BY <1>1, <2>1, LookupExact DEF Return
<1>2. CASE owner # NoOwner
  <2>1. /\ owner \in Owners /\ InUse(s, owner) /\ ptr = OwnerHeader(s, owner) + METASIZE
        /\ \E n : BlockAt(s, ptr, n)
    BY <1>2, LookupExact
  <2>2. o = IF owner.zone \in Zones THEN Return(ClearSlot(s, owner), NULL)
            ELSE IF o = Exit(s) THEN o ELSE Return(ClearLarge(s, owner), NULL)
    BY <1>2 DEF free_impl
  <2> HIDE DEF owner
  <2>3. CASE owner.zone \in Zones
    <3>1. o.st = ClearSlot(s, owner) /\ ~o.exit
      BY <2>2, <2>3 DEF Return
    <3>2. Others(s, o.st, owner) /\ ~InUse(o.st, owner) /\ o.st.mem = s.mem
      BY <2>1, <2>3, <3>1, ClearedUse
    <3>3. Removes(s, o.st, ptr)
      BY <2>1, <3>2, RemovedUse
    <3> QED
      BY <2>1, <3>1, <3>2, <3>3 DEF KeepsBytes
  <2>4. CASE owner.zone = "large" /\ o = Exit(s)
    BY <2>1, <2>4 DEF Exit, Return
  <2>5. CASE owner.zone = "large" /\ o # Exit(s)
    <3>1. o.st = ClearLarge(s, owner) /\ ~o.exit
      BY <2>2, <2>5 DEF Return
    <3>2. owner.slot \in LiveEntries(s) /\ owner = [zone |-> "large", slot |-> owner.slot]
      BY <2>1, <2>5, OwnerCases DEF InUse
    <3>3. Dropped(s, o.st, owner.slot)
      BY <3>1, <3>2, DropFields DEF AllocOK, LiveEntries
    <3>4. /\ Others(s, o.st, owner) /\ ~InUse(o.st, owner)
          /\ \A a \in Addr : a \notin Cell(s, owner) => o.st.mem[a] = s.mem[a]
      BY <3>2, <3>3, DroppedUse
    <3>5. Removes(s, o.st, ptr)
      BY <2>1, <3>4, RemovedUse
    <3>6. ASSUME NEW p, NEW n, BlockAt(o.st, p, n), NEW a \in Region(p, n)
          PROVE  o.st.mem[a] = s.mem[a]
      <4>1. BlockAt(s, p, n) /\ p # ptr
        BY <3>5, <3>6 DEF Removes
      <4>2. PICK u \in Owners : InUse(s, u) /\ p = OwnerHeader(s, u) + METASIZE
        BY <4>1 DEF BlockAt
      <4>3. a \in Cell(s, u) /\ a \in Addr
        BY <4>1, <4>2, BlockFacts
      <4>4. IsPlace(s, u) /\ IsPlace(s, owner) /\ u # owner
        BY <2>1, <4>1, <4>2, UseFacts
      <4>5. a \notin Cell(s, owner)
        BY <2>1, <4>3, <4>4, CellsApart
      <4> QED
        BY <3>4, <4>3, <4>5
    <3> QED
      BY <2>1, <3>1, <3>5, <3>6 DEF KeepsBytes
  <2> QED
    BY <2>1, <2>3, <2>4, <2>5, OwnerCases
<1> QED
  BY <1>1, <1>2

-----------------------------------------------------------------------------
(***************************************************************************)
(* realloc_impl.                                                           *)
(***************************************************************************)
\* What realloc_impl takes for the capacity is the cell without its header.
LEMMA CapacityIsCell ==
  ASSUME NEW s, AllocOK(s), NEW o \in Owners, InUse(s, o)
  PROVE  /\ Capacity(s, o) = CellLen(s, o) - METASIZE /\ Capacity(s, o) \in Nat
         /\ Requested(s, o) <= Capacity(s, o)
         /\ o.zone \in Zones => Capacity(s, o) <= INT_MAX
<1> DEFINE ptr == OwnerHeader(s, o) + METASIZE
<1>1. IsPlace(s, o) /\ Requested(s, o) <= CellLen(s, o) - METASIZE
  BY UseFacts
<1>2. CellLen(s, o) \in Nat /\ METASIZE < CellLen(s, o)
  BY <1>1, PlaceFacts
<1>3. CASE o.zone = "large"
  <2>1. EntryOwner(s, o, ptr)
    BY <1>3 DEF EntryOwner, InUse, OwnerHeader
  <2>2. Capacity(s, o) = CellLen(s, o) - METASIZE
    BY <1>3, <2>1, EntryCapacity DEF CellLen, OwnerHeader
  <2> QED
    BY <1>1, <1>2, <1>3, <2>2, Positive
<1>4. CASE o.zone \in Zones
  <2>1. SlotOwner(s, o, ptr)
    BY <1>1, <1>4 DEF SlotOwner, InUse, IsPlace, OwnerHeader
  <2>2. Capacity(s, o) = Stride(o.zone) - METASIZE
    BY <2>1, SlotCapacity
  <2>3. CellLen(s, o) = Stride(o.zone)
    BY <1>4 DEF CellLen
  <2> QED
    BY <1>1, <1>2, <1>4, <2>2, <2>3, StrideFacts, Positive
<1> QED
  BY <1>3, <1>4, OwnerCases

\* The block at ptr is now the block of n bytes at q, apart from it.  Its old
\* bytes are there, in order, and the other blocks' bytes are as they were.
Moves(s, t, ptr, q, n) ==
  /\ \A k : ~BlockAt(s, q, k)
  /\ \A p, k : BlockAt(t, p, k) <=> (BlockAt(s, p, k) /\ p # ptr) \/ (p = q /\ k = n)
  /\ \A p, k : BlockAt(s, p, k) /\ p # ptr => KeepsBytes(s, t, p, k)
  /\ \A m : BlockAt(s, ptr, m) =>
       /\ m <= n /\ Region(q, n) \cap Region(ptr, m) = {}
       /\ \A i \in 0 .. (m - 1) : t.mem[q + i] = s.mem[ptr + i]

\* A block of n bytes at q, where there was none; the others keep theirs.
AddsAndKeeps(s, t, q, n) ==
  Adds(s, t, q, n) /\ \A p, k : BlockAt(s, p, k) => KeepsBytes(s, t, p, k)

\* Copying len bytes from src to dst changes those at dst.
LEMMA CopiedBytes ==
  ASSUME NEW s \in StateType, NEW dst \in Nat, NEW src \in Nat, NEW len \in Nat,
         NEW t, t = ft_memcpy(s, dst, src, len)
  PROVE  /\ SameBlocks(s, t)
         /\ \A a \in Addr : a \notin Region(dst, len) => t.mem[a] = s.mem[a]
         /\ \A i \in 0 .. (len - 1) : dst + i \in Addr => t.mem[dst + i] = s.mem[src + i]
<1> DEFINE V == [a \in Addr |-> IF a \in Region(dst, len) THEN s.mem[src + (a - dst)] ELSE s.mem[a]]
<1>1. t = [s EXCEPT !.mem = V]
  BY DEF ft_memcpy
<1>2. \A a \in Addr : a \notin Region(dst, len) => V[a] = s.mem[a]
  OBVIOUS
<1>3. ASSUME NEW i \in 0 .. (len - 1), dst + i \in Addr
      PROVE  V[dst + i] = s.mem[src + i]
  <2>1. dst + i \in Region(dst, len) /\ (dst + i) - dst = i
    BY DEF Region
  <2> QED
    BY <1>3, <2>1
<1> HIDE DEF V
<1>4. SameBlocks(s, t) /\ t.mem = V
  BY <1>1, MemoryBlocks
<1> QED
  BY <1>2, <1>3, <1>4

LEMMA MoveMovesOne ==
  ASSUME NEW s, AllocOK(s), NEW ptr \in Addr, NEW n \in Nat \ {0},
         NEW owner \in Owners, InUse(s, owner), ptr = OwnerHeader(s, owner) + METASIZE,
         Requested(s, owner) <= n,
         NEW m \in malloc_impl(s, n), m.ret # NULL, NEW o \in Move(m, ptr, owner)
  PROVE  /\ o.ret = m.ret
         /\ IF o.exit THEN AddsAndKeeps(s, o.st, o.ret, n) ELSE Moves(s, o.st, ptr, o.ret, n)
<1> DEFINE u == m.st
           q == m.ret
           len == Requested(u, owner)
           old == Requested(s, owner)
           c == ft_memcpy(u, q, ptr, len)
<1>1. AllocOK(u) /\ Extends(s, u) /\ q \in Addr
  BY MallocImplCorrect
<1>2. Adds(s, u, q, n) /\ u.mem = s.mem
  <2>1. AtLeastOne(n) = n
    BY DEF AtLeastOne
  <2> QED
    BY <2>1, MallocImplAddsOne
<1>3. BlockAt(s, ptr, old) /\ old \in Nat /\ owner \in [zone : Zones \cup {"large"}, slot : Int]
  BY UseFacts, Positive DEF BlockAt, Owners
<1>4. SlotOwner(s, owner, ptr) \/ EntryOwner(s, owner, ptr)
  <2>1. IsPlace(s, owner)
    BY UseFacts
  <2> QED
    BY <2>1, OwnerCases DEF SlotOwner, EntryOwner, InUse, IsPlace, OwnerHeader
<1>5. SlotOwner(u, owner, ptr) \/ EntryOwner(u, owner, ptr)
  BY <1>1, <1>4, OwnerKept
<1>6. len = old
  <2>1. BlockAt(u, ptr, len)
    BY <1>1, <1>3, <1>5, OwnerIsBlock
  <2>2. BlockAt(u, ptr, old)
    BY <1>2, <1>3 DEF Adds
  <2> QED
    BY <1>1, <2>1, <2>2, BlockLength
<1>7. PICK f \in free_impl(c, ptr) : o = [f EXCEPT !.ret = m.ret]
  BY DEF Move
<1>8. o.st = f.st /\ o.ret = q /\ o.exit = f.exit
  BY <1>7, FreeOutcome, ChangedOutcome DEF IsOutcome
<1> HIDE DEF u, q, old
<1>9. AllocOK(c)
  <2>1. \A i \in 0 .. (len - 1) : ptr + i \in Addr
    BY <1>1, <1>5, RequestedInside
  <2> QED
    BY <1>1, <1>3, <1>6, <2>1, MemcpyOK
<1>10. /\ SameBlocks(u, c)
       /\ \A a \in Addr : a \notin Region(q, len) => c.mem[a] = u.mem[a]
       /\ \A i \in 0 .. (len - 1) : q + i \in Addr => c.mem[q + i] = u.mem[ptr + i]
  <2>1. u \in StateType /\ q \in Nat /\ ptr \in Nat /\ len \in Nat
    BY <1>1, <1>3, <1>6 DEF AllocOK, Addr
  <2>2. c = ft_memcpy(u, q, ptr, len)
    OBVIOUS
  <2> HIDE DEF len, c
  <2> QED
    <3>1. SameBlocks(u, c)
      BY <2>1, <2>2, CopiedBytes
    <3>2. \A a \in Addr : a \notin Region(q, len) => c.mem[a] = u.mem[a]
      BY <2>1, <2>2, CopiedBytes
    <3>3. \A i \in 0 .. (len - 1) : q + i \in Addr => c.mem[q + i] = u.mem[ptr + i]
      BY <2>1, <2>2, CopiedBytes
    <3> QED
      BY <3>1, <3>2, <3>3
<1> HIDE DEF c, len
<1>11. Adds(s, c, q, n)
  BY <1>2, <1>10 DEF Adds, SameBlocks
<1>12. BlockAt(c, ptr, old) /\ ptr # q
  BY <1>3, <1>11 DEF Adds
<1>13. CASE f.exit
  <2>1. f.st = c
    BY <1>7, <1>9, <1>12, <1>13, FreeImplRemovesOne
  <2>2. ASSUME NEW p, NEW k, BlockAt(s, p, k) PROVE KeepsBytes(s, c, p, k)
    <3>1. BlockAt(u, p, k) /\ BlockAt(u, q, n) /\ p # q
      BY <1>2, <2>2 DEF Adds
    <3>2. Region(p, k) \cap Region(q, n) = {} /\ Region(p, k) \subseteq Addr
      BY <1>1, <3>1, BlocksApart, BlockLength
    <3>3. Region(q, len) \subseteq Region(q, n)
      BY <1>1, <1>3, <1>6 DEF Region, Addr, old
    <3> QED
      BY <1>2, <1>10, <3>2, <3>3 DEF KeepsBytes
  <2>3. AddsAndKeeps(s, c, q, n)
    BY <1>11, <2>2 DEF AddsAndKeeps
  <2> QED
    BY <1>8, <1>13, <2>1, <2>3 DEF q
<1>14. CASE ~f.exit
  <2>1. /\ Removes(c, f.st, ptr)
        /\ \A p, k : BlockAt(f.st, p, k) => KeepsBytes(c, f.st, p, k)
    BY <1>7, <1>9, <1>12, <1>14, FreeImplRemovesOne
  <2>2. \A p, k : BlockAt(f.st, p, k) <=> (BlockAt(s, p, k) /\ p # ptr) \/ (p = q /\ k = n)
    BY <1>11, <1>12, <2>1 DEF Removes, Adds
  <2>3. ASSUME NEW p, NEW k, BlockAt(s, p, k), p # ptr PROVE KeepsBytes(s, f.st, p, k)
    <3>1. BlockAt(u, p, k) /\ BlockAt(u, q, n) /\ p # q
      BY <1>2, <2>3 DEF Adds
    <3>2. Region(p, k) \cap Region(q, n) = {} /\ Region(p, k) \subseteq Addr
      BY <1>1, <3>1, BlocksApart, BlockLength
    <3>3. Region(q, len) \subseteq Region(q, n)
      BY <1>1, <1>3, <1>6 DEF Region, Addr, old
    <3>4. KeepsBytes(c, f.st, p, k)
      BY <2>1, <2>2, <2>3
    <3> QED
      BY <1>2, <1>10, <3>2, <3>3, <3>4 DEF KeepsBytes
  <2>4. ASSUME NEW k, BlockAt(s, ptr, k)
        PROVE  /\ k <= n /\ Region(q, n) \cap Region(ptr, k) = {}
               /\ \A i \in 0 .. (k - 1) : f.st.mem[q + i] = s.mem[ptr + i]
    <3>1. k = old /\ k = len /\ k <= n
      BY <1>3, <1>6, <2>4, BlockLength DEF old
    <3>2. BlockAt(c, q, n) /\ KeepsBytes(c, f.st, q, n)
      BY <1>11, <2>1, <2>2 DEF Adds
    <3>3. Region(q, n) \subseteq Addr
      BY <1>9, <3>2, BlockLength
    <3>4. ASSUME NEW i \in 0 .. (k - 1) PROVE f.st.mem[q + i] = s.mem[ptr + i]
      <4>1. q + i \in Region(q, n)
        BY <1>1, <1>3, <3>1 DEF Region, Addr
      <4>2. f.st.mem[q + i] = c.mem[q + i]
        BY <3>2, <4>1 DEF KeepsBytes
      <4> QED
        BY <1>2, <1>10, <3>1, <3>3, <4>1, <4>2
    <3>5. Region(q, n) \cap Region(ptr, k) = {}
      BY <1>9, <1>11, <1>12, <3>1, <3>2, BlocksApart
    <3> QED
      BY <3>1, <3>4, <3>5
  <2>5. Moves(s, f.st, ptr, q, n)
    BY <1>11, <2>2, <2>3, <2>4 DEF Moves, Adds
  <2> QED
    BY <1>8, <1>14, <2>5 DEF q
<1> QED
  BY <1>8, <1>13, <1>14 DEF q

(***************************************************************************)
(* realloc_impl of a pointer at which there is no block does nothing.  Of  *)
(* a block, it gives it the new length at its place, or at a place that    *)
(* was free, with its bytes, or it fails and changes no block; if munmap   *)
(* of the old block fails, both are there, with their bytes, when the      *)
(* process ends.                                                           *)
(***************************************************************************)
THEOREM ReallocImplResizesOne ==
  ASSUME NEW s, AllocOK(s), NEW ptr \in Addr \ {0}, NEW n \in Nat \ {0},
         NEW o \in realloc_impl(s, ptr, n)
  PROVE  \/ o = Return(s, NULL) /\ \A m : ~BlockAt(s, ptr, m)
         \/ /\ \E m : BlockAt(s, ptr, m)
            /\ \/ /\ o \in malloc_impl(s, n) /\ o.ret = NULL
                  /\ SameBlocks(s, o.st) /\ o.st.mem = s.mem /\ ~o.exit
               \/ o.ret = ptr /\ Resizes(s, o.st, ptr, n) /\ o.st.mem = s.mem /\ ~o.exit
               \/ /\ o.ret \notin {NULL, ptr}
                  /\ IF o.exit THEN AddsAndKeeps(s, o.st, o.ret, n) ELSE Moves(s, o.st, ptr, o.ret, n)
<1> DEFINE owner == find_live_allocation(s, ptr)
<1>0. ptr \in Addr /\ ptr # 0 /\ n # 0 /\ n \in Nat /\ AtLeastOne(n) = n
  BY DEF AtLeastOne
<1>1. CASE owner = NoOwner
  <2>1. o = Return(s, NULL)
    BY <1>0, <1>1 DEF realloc_impl
  <2> QED
    BY <1>1, <2>1, LookupExact
<1>2. CASE owner # NoOwner
  <2>1. /\ owner \in Owners /\ InUse(s, owner) /\ ptr = OwnerHeader(s, owner) + METASIZE
        /\ BlockAt(s, ptr, Requested(s, owner))
    BY <1>2, LookupExact
  <2>2. /\ Capacity(s, owner) \in Nat /\ Requested(s, owner) <= Capacity(s, owner)
        /\ owner.zone \in Zones => Capacity(s, owner) <= INT_MAX
        /\ Requested(s, owner) \in Nat
    BY <2>1, CapacityIsCell, UseFacts
  <2>3. CASE n <= Capacity(s, owner)
    <3>1. o = Return(ResizeInPlace(s, owner, n), ptr)
      BY <1>0, <1>2, <2>3 DEF realloc_impl
    <3>2. o.st = ResizeInPlace(s, owner, n) /\ o.ret = ptr /\ ~o.exit
      BY <3>1 DEF Return
    <3>3. owner.zone \in Zones => n <= INT_MAX
      BY <1>0, <2>2, <2>3, Positive
    <3>4. /\ Others(s, o.st, owner) /\ InUse(o.st, owner)
          /\ OwnerHeader(o.st, owner) = OwnerHeader(s, owner) /\ Requested(o.st, owner) = n
          /\ o.st.mem = s.mem
      BY <1>0, <2>1, <3>2, <3>3, ResizedInPlaceUse
    <3>5. Resizes(s, o.st, ptr, n)
      BY <2>1, <3>4, ResizedUse
    <3> QED
      BY <2>1, <3>2, <3>4, <3>5
  <2>4. CASE ~(n <= Capacity(s, owner))
    <3>1. PICK m \in malloc_impl(s, n) : IF m.ret = NULL THEN o = m ELSE o \in Move(m, ptr, owner)
      BY <1>0, <1>2, <2>4 DEF realloc_impl
    <3>2. CASE m.ret = NULL
      <4>1. SameBlocks(s, m.st) /\ m.st.mem = s.mem /\ ~m.exit
        BY <1>0, <3>2, MallocImplAddsOne
      <4> QED
        BY <2>1, <3>1, <3>2, <4>1
    <3>3. CASE m.ret # NULL
      <4>1. Requested(s, owner) <= n
        BY <1>0, <2>2, <2>4
      <4>2. /\ o.ret = m.ret
            /\ IF o.exit THEN AddsAndKeeps(s, o.st, o.ret, n) ELSE Moves(s, o.st, ptr, o.ret, n)
        BY <1>0, <2>1, <3>1, <3>3, <4>1, MoveMovesOne
      <4>3. o.ret # ptr
        BY <2>1, <4>2 DEF AddsAndKeeps, Adds, Moves
      <4> QED
        BY <2>1, <3>3, <4>2, <4>3
    <3> QED
      BY <3>2, <3>3
  <2> QED
    BY <2>3, <2>4
<1> QED
  BY <1>1, <1>2

-----------------------------------------------------------------------------
(***************************************************************************)
(* callo_imp.                                                              *)
(***************************************************************************)
\* The test by division refuses exactly the products that are not a size_t.
LEMMA OverflowTest ==
  ASSUME NEW nmemb \in Nat, NEW size \in Nat
  PROVE  /\ nmemb * size \in Nat
         /\ (nmemb # 0 /\ size > SIZE_MAX \div nmemb) <=> nmemb * size > SIZE_MAX
         /\ nmemb * size <= SIZE_MAX => (nmemb * size) % (SIZE_MAX + 1) = nmemb * size
<1> DEFINE total == nmemb * size
<1>1. total \in Nat /\ SIZE_MAX \in Nat
  BY Positive
<1>2. CASE nmemb = 0
  <2>1. total = 0
    BY <1>2
  <2> HIDE DEF total
  <2> QED
    BY <1>1, <1>2, <2>1
<1>3. CASE nmemb # 0
  <2> DEFINE q == SIZE_MAX \div nmemb
             r == SIZE_MAX % nmemb
  <2>1. q \in Int /\ r \in 0 .. (nmemb - 1) /\ SIZE_MAX = nmemb * q + r
    BY <1>1, <1>3, DivMod
  <2> HIDE DEF q, r
  <2>2. size > q => total >= nmemb * (q + 1)
    BY <2>1
  <2>3. size <= q => total <= nmemb * q
    BY <2>1
  <2>4. nmemb * (q + 1) = nmemb * q + nmemb /\ nmemb * q \in Int
    BY <2>1
  <2> HIDE DEF total
  <2> QED
    BY <1>1, <1>3, <2>1, <2>2, <2>3, <2>4 DEF q, total
<1>4. total <= SIZE_MAX => total % (SIZE_MAX + 1) = total
  <2> HIDE DEF total
  <2> QED
    BY <1>1
<1> QED
  BY <1>1, <1>2, <1>3, <1>4

LEMMA ZeroedBytes ==
  ASSUME NEW s, NEW t, NEW dst, NEW v, NEW len, s \in StateType, t = ft_memset(s, dst, v, len)
  PROVE  /\ SameBlocks(s, t)
         /\ \A a \in Addr : t.mem[a] = IF a \in Region(dst, len) THEN v ELSE s.mem[a]
<1> DEFINE V == [a \in Addr |-> IF a \in Region(dst, len) THEN v ELSE s.mem[a]]
<1>1. t = [s EXCEPT !.mem = V]
  BY DEF ft_memset
<1>2. \A a \in Addr : V[a] = IF a \in Region(dst, len) THEN v ELSE s.mem[a]
  OBVIOUS
<1> HIDE DEF V
<1>3. SameBlocks(s, t) /\ t.mem = V
  BY <1>1, MemoryBlocks
<1> QED
  BY <1>2, <1>3

(***************************************************************************)
(* callo_imp adds a block of nmemb * size bytes, all zero whatever was in  *)
(* its place before, and disturbs no other block, or it changes no block.  *)
(* A product that is not a size_t is refused before anything is done.      *)
(***************************************************************************)
THEOREM CalloImpAddsZeros ==
  ASSUME NEW s, AllocOK(s), NEW nmemb \in Nat, NEW size \in Nat, NEW o \in callo_imp(s, nmemb, size)
  PROVE  /\ ~o.exit
         /\ nmemb * size > SIZE_MAX => o = Return(s, NULL)
         /\ nmemb * size <= SIZE_MAX /\ o.ret = NULL => o \in malloc_impl(s, nmemb * size)
         /\ o.ret = NULL => SameBlocks(s, o.st) /\ o.st.mem = s.mem
         /\ o.ret # NULL =>
              /\ Adds(s, o.st, o.ret, AtLeastOne(nmemb * size))
              /\ \A a \in Region(o.ret, nmemb * size) : o.st.mem[a] = 0
              /\ \A p, k : BlockAt(s, p, k) => KeepsBytes(s, o.st, p, k)
<1> DEFINE total == nmemb * size
<1>1. total \in Nat /\ SIZE_MAX \in Nat
  BY OverflowTest, Positive
<1>2. CASE total > SIZE_MAX
  <2>1. nmemb # 0 /\ size > SIZE_MAX \div nmemb
    BY <1>2, OverflowTest
  <2>2. o = Return(s, NULL)
    BY <2>1 DEF callo_imp
  <2> HIDE DEF total
  <2> QED
    BY <1>1, <1>2, <2>2, SameBlocksItself DEF Return, total
<1>3. CASE total <= SIZE_MAX
  <2>1. /\ ~(nmemb # 0 /\ size > SIZE_MAX \div nmemb)
        /\ total % (SIZE_MAX + 1) = total
    <3>1. ~(total > SIZE_MAX)
      BY <1>1, <1>3
    <3> QED
      BY <1>3, <3>1, OverflowTest
  <2>2. PICK m \in malloc_impl(s, total) :
          o = IF m.ret = NULL THEN m ELSE [m EXCEPT !.st = ft_memset(m.st, m.ret, 0, total)]
    BY <2>1 DEF callo_imp
  <2>3. /\ m.st.mem = s.mem /\ ~m.exit /\ AllocOK(m.st) /\ m.ret \in Addr
        /\ IF m.ret = NULL THEN SameBlocks(s, m.st) ELSE Adds(s, m.st, m.ret, AtLeastOne(total))
    BY <1>1, MallocImplAddsOne, MallocImplCorrect
  <2>0. IsOutcome(m)
    BY <1>1, MallocOutcome
  <2> HIDE DEF total
  <2>4. CASE m.ret = NULL
    BY <1>1, <1>3, <2>2, <2>3, <2>4 DEF total
  <2>5. CASE m.ret # NULL
    <3>1. o.st = ft_memset(m.st, m.ret, 0, total) /\ o.ret = m.ret /\ o.exit = m.exit
      BY <2>0, <2>2, <2>5 DEF IsOutcome
    <3>2. /\ SameBlocks(m.st, o.st)
          /\ \A a \in Addr : o.st.mem[a] = IF a \in Region(o.ret, total) THEN 0 ELSE s.mem[a]
      BY <2>3, <3>1, ZeroedBytes DEF AllocOK
    <3>3. Adds(s, o.st, o.ret, AtLeastOne(total))
      BY <2>3, <2>5, <3>1, <3>2 DEF Adds, SameBlocks
    <3>4. BlockAt(m.st, o.ret, AtLeastOne(total))
      BY <2>3, <2>5, <3>1 DEF Adds
    <3>5. /\ Region(o.ret, AtLeastOne(total)) \subseteq Addr
          /\ Region(o.ret, total) \subseteq Region(o.ret, AtLeastOne(total))
      BY <1>1, <2>3, <3>1, <3>4, BlockLength DEF Region, AtLeastOne, Addr
    <3>6. ASSUME NEW p, NEW k, BlockAt(s, p, k), NEW a \in Region(p, k)
          PROVE  o.st.mem[a] = s.mem[a]
      <4>1. BlockAt(m.st, p, k) /\ p # o.ret
        BY <2>3, <2>5, <3>1, <3>6 DEF Adds
      <4>2. Region(p, k) \cap Region(o.ret, AtLeastOne(total)) = {} /\ Region(p, k) \subseteq Addr
        BY <2>3, <3>4, <4>1, BlocksApart, BlockLength
      <4> QED
        BY <3>2, <3>5, <3>6, <4>2
    <3>7. \A a \in Region(o.ret, total) : o.st.mem[a] = 0
      BY <3>2, <3>5
    <3>8. \A p, k : BlockAt(s, p, k) => KeepsBytes(s, o.st, p, k)
      BY <3>6 DEF KeepsBytes
    <3> QED
      BY <1>1, <1>3, <2>3, <2>5, <3>1, <3>3, <3>7, <3>8 DEF total
  <2> QED
    BY <2>4, <2>5
<1> QED
  BY <1>1, <1>2, <1>3

-----------------------------------------------------------------------------
(***************************************************************************)
(* Why malloc_impl returns NULL.                                           *)
(***************************************************************************)
\* Nothing of that kind is left, or the pool lost its one mmap.
Exhausted(s, class) ==
  IF class = "large" THEN LiveEntries(s) = Entries
  ELSE s.bitmap[class] = Slots \/ (s.page_flag[class] /\ ~s.zone_flag[class])

TooLong(n) == n > LONG_MAX - (PAGE - 1) - METASIZE

LEMMA LongMax == LONG_MAX \in Nat /\ LONG_MAX <= SIZE_MAX
<1>1. SIZE_MAX \in Nat
  BY Positive
<1> QED
  BY <1>1 DEF LONG_MAX

\* calculater_page_size refuses a pool its stride only once the pool's own
\* flag is set, that is once it has asked the kernel for its arena.
LEMMA StrideIsServed ==
  ASSUME NEW s, NEW zone \in Zones, calculater_page_size(s, Stride(zone)) = -1
  PROVE  s.page_flag[zone]
<1> DEFINE size == Stride(zone)
<1>1. size \in Nat /\ size >= 1 /\ size \in {TINY, SMALL} /\ TINY < SMALL
  BY StrideFacts, SizesAssumption DEF Stride
<1>2. TINY \in Nat /\ SMALL \in Nat /\ LONG_MAX \in Nat /\ PAGE \in Nat
  BY SizesAssumption, LongMax, Positive
<1>3. size <= LONG_MAX - (PAGE - 1)
  BY <1>1, <1>2, StridesAssumption
<1> DEFINE bytes == IF size \in {TINY, SMALL} THEN RoundUp(size * SLOTS) ELSE RoundUp(size)
<1>4. bytes \in Nat
  <2>1. size * SLOTS \in Nat
    BY <1>1, Positive
  <2> QED
    BY <1>1, <2>1, RoundUpBounds
<1>5. \E z \in Zones : Masked(Flag(s, z), size)
  <2> HIDE DEF bytes
  <2>1. bytes # -1
    BY <1>4
  <2> HIDE DEF size
  <2> QED
    BY <1>1, <1>2, <1>3, <2>1 DEF calculater_page_size, bytes, size
<1>6. PICK z \in Zones : Masked(Flag(s, z), size)
  BY <1>5
<1>7. s.page_flag[z]
  BY <1>1, <1>6 DEF Masked, Flag
<1>8. ~Masked(TINY, SMALL)
  BY <1>1, <1>2 DEF Masked
<1>9. z = zone
  BY <1>6, <1>7, <1>8, StridesAssumption DEF Flag, Stride
<1> QED
  BY <1>7, <1>9

(***************************************************************************)
(* A NULL of malloc_impl means that the kernel refused this call an mmap,  *)
(* that no mapping can be so long, or that its kind of memory is used up.  *)
(***************************************************************************)
THEOREM MallocNullReasons ==
  ASSUME NEW s, AllocOK(s), NEW size \in Nat, NEW o \in malloc_impl(s, size), o.ret = NULL
  PROVE  o.refused \/ TooLong(size) \/ Exhausted(o.st, Class(size))
<1> DEFINE n == AtLeastOne(size)
<1>1. /\ n \in Nat /\ n >= 1 /\ Class(n) = Class(size)
      /\ Class(n) = "large" => n = size
  BY SizesAssumption, Positive DEF AtLeastOne, Class
<1> HIDE DEF n
<1>2. CASE Class(n) = "large"
  <2>1. o \in MallocLarge(s, n)
    BY <1>2 DEF malloc_impl, n
  <2>2. SMALL - METASIZE < n /\ SMALL \in Nat /\ TINY \in Nat /\ TINY < SMALL
    BY <1>1, <1>2, SizesAssumption, Positive DEF Class
  <2> DEFINE ready == ClearTable(s)
  <2>3. \/ s.large_cnt >= LARGES /\ o = Return(s, NULL)
        \/ LargeLen(ready, n) = -1 /\ o = Return(ready, NULL)
        \/ o = Refused(ready)
        \/ o.ret # NULL
    <3>1. \A base, t : base \in Addr => Return(t, base + METASIZE).ret # NULL
      BY Positive DEF Return, Addr
    <3>2. \A len \in Nat \ {0} : \A base \in FreeRuns(ready, len) : base \in Addr
      <4>1. ready \in StateType
        BY ClearTableOK DEF AllocOK
      <4> HIDE DEF ready
      <4> QED
        BY <4>1, FreshRun
    <3> QED
      BY <1>1, <2>1, <2>2, <3>1, <3>2, MallocLargeCases
  <2>4. CASE s.large_cnt >= LARGES /\ o = Return(s, NULL)
    <3>1. LiveEntries(s) \in SUBSET Entries /\ IsFiniteSet(Entries)
          /\ Cardinality(Entries) = LARGES /\ Cardinality(LiveEntries(s)) \in Nat
      BY LiveEntriesFinite
    <3>2. Cardinality(LiveEntries(s)) >= LARGES
      BY <2>4 DEF AllocOK, LargeOK
    <3>3. Cardinality(LiveEntries(s)) <= Cardinality(Entries)
      BY <3>1, FS_Subset
    <3>4. Cardinality(LiveEntries(s)) = Cardinality(Entries)
      BY <3>1, <3>2, <3>3, Positive
    <3>5. LiveEntries(s) = Entries
      BY <3>1, <3>4, FS_Subset
    <3> QED
      BY <1>1, <1>2, <2>4, <3>5 DEF Exhausted, Return
  <2>5. CASE LargeLen(ready, n) = -1
    <3> DEFINE k == n + METASIZE
    <3>1. k \in Nat /\ k > SMALL /\ k > TINY /\ k >= 1
      BY <1>1, <2>2, Positive
    <3>2. \A zone \in Zones : ~Masked(Flag(ready, zone), k)
      BY <2>2, <3>1 DEF Masked, Flag, Stride
    <3>3. RoundUp(k) \in Nat
      BY <3>1, RoundUpBounds
    <3>4. k > SIZE_MAX \/ k > LONG_MAX - (PAGE - 1)
      <4>1. CASE n > SIZE_MAX - METASIZE
        BY <1>1, <4>1, Positive
      <4>2. CASE ~(n > SIZE_MAX - METASIZE)
        <5>1. calculater_page_size(ready, k) = -1
          BY <2>5, <4>2 DEF LargeLen
        <5> HIDE DEF k, ready
        <5>2. RoundUp(k) # -1 /\ k \notin {TINY, SMALL} /\ ~(k < 1)
          BY <2>2, <3>1, <3>3
        <5> QED
          BY <3>2, <5>1, <5>2 DEF calculater_page_size
      <4> QED
        BY <4>1, <4>2
    <3>5. TooLong(n)
      BY <1>1, <3>4, LongMax, Positive DEF TooLong
    <3> QED
      BY <1>1, <1>2, <3>5
  <2>6. CASE o = Refused(ready)
    BY <2>6 DEF Refused, Return
  <2> QED
    BY <2>3, <2>4, <2>5, <2>6
<1>3. CASE Class(n) # "large"
  <2> DEFINE zone == Class(n)
  <2>1. o \in MallocPool(s, zone, n)
    BY <1>3 DEF malloc_impl, n
  <2>2. zone \in Zones /\ zone # "large" /\ n \in 1 .. (Stride(zone) - METASIZE)
    BY <1>1, <1>3, SizesAssumption, Positive DEF Class, Stride
  <2> HIDE DEF zone
  <2>3. PICK e \in EnsureArena(s, zone) : o = IF e.ret = NULL THEN e ELSE TakeSlot(e.st, zone, n)
    BY <2>1 DEF MallocPool
  <2>4. /\ AllocOK(e.st) /\ e.ret \in Addr
        /\ e.ret # NULL => e.st.zone_flag[zone]
    BY <2>2, EnsureArenaOK
  <2>5. CASE e.ret # NULL
    <3>1. o = TakeSlot(e.st, zone, n)
      BY <2>3, <2>5
    <3>2. \/ e.st.bitmap[zone] = Slots /\ o = Return(e.st, NULL)
          \/ \E slot \in Slots \ e.st.bitmap[zone] :
               o = Return(o.st, Header(e.st.arena[zone], zone, slot) + METASIZE)
      BY <2>2, <2>4, <2>5, <3>1, TakeSlotCases
    <3>3. ASSUME NEW slot \in Slots
          PROVE  Header(e.st.arena[zone], zone, slot) + METASIZE # 0
      BY <2>2, <2>4, <2>5, SlotPage
    <3>4. e.st.bitmap[zone] = Slots /\ o.st = e.st
      BY <3>2, <3>3 DEF Return
    <3> QED
      BY <1>1, <2>2, <3>4 DEF Exhausted, zone
  <2>6. CASE e.ret = NULL
    <3>1. o = e
      BY <2>3, <2>6
    <3>2. \/ s.zone_flag[zone] /\ e = Return(s, s.arena[zone])
          \/ /\ ~s.zone_flag[zone] /\ calculater_page_size(s, Stride(zone)) = -1
             /\ e = Return(s, NULL)
          \/ e.refused
          \/ \E base \in FreeRuns(s, ArenaLen(zone)) : e.ret = base
      <4>1. ASSUME e = Refused([s EXCEPT !.page_flag[zone] = TRUE, !.arena[zone] = MAP_FAILED])
            PROVE  e.refused
        <5> DEFINE x == [s EXCEPT !.page_flag[zone] = TRUE, !.arena[zone] = MAP_FAILED]
        <5> HIDE DEF x
        <5>1. e = Refused(x)
          BY <4>1 DEF x
        <5> QED
          BY <5>1 DEF Refused, Return
      <4>2. ASSUME NEW base \in FreeRuns(s, ArenaLen(zone)),
                   e = Return(OpenArena(s, zone, base), base)
            PROVE  e.ret = base
        BY <4>2 DEF Return
      <4>3. \/ s.zone_flag[zone] /\ e = Return(s, s.arena[zone])
            \/ /\ ~s.zone_flag[zone] /\ calculater_page_size(s, Stride(zone)) = -1
               /\ e = Return(s, NULL)
            \/ e = Refused([s EXCEPT !.page_flag[zone] = TRUE, !.arena[zone] = MAP_FAILED])
            \/ \E base \in FreeRuns(s, ArenaLen(zone)) : e = Return(OpenArena(s, zone, base), base)
        BY <2>2, EnsureArenaCases
      <4> QED
        BY <4>1, <4>2, <4>3
    <3>3. s.zone_flag[zone] => s.arena[zone] # NULL
      BY <2>2 DEF AllocOK, PoolOK
    <3>4. \A base \in FreeRuns(s, ArenaLen(zone)) : base # NULL
      BY <2>2, ArenaLenNat, FreshRun DEF AllocOK
    <3>5. e.refused \/ (~s.zone_flag[zone] /\ s.page_flag[zone] /\ e.st = s)
      BY <2>2, <2>6, <3>2, <3>3, <3>4, StrideIsServed DEF Return
    <3> QED
      BY <1>1, <2>2, <3>1, <3>5 DEF Exhausted, zone
  <2> QED
    BY <2>5, <2>6
<1> QED
  BY <1>2, <1>3

-----------------------------------------------------------------------------
(***************************************************************************)
(* What show_alloc_mem prints.                                             *)
(***************************************************************************)
LineOf(s, o) == ShownLine(s, o.zone, OwnerHeader(s, o))

\* One line for each place in use.
LEMMA LinesOfPlaces ==
  ASSUME NEW s, AllocOK(s), NEW line
  PROVE  line \in ShownLines(s) <=> \E o \in Owners : InUse(s, o) /\ line = LineOf(s, o)
<1>1. ASSUME line \in ShownLines(s)
      PROVE  \E o \in Owners : InUse(s, o) /\ line = LineOf(s, o)
  <2>1. CASE \E zs \in {z \in Zones \X Slots : z[2] \in s.bitmap[z[1]]} :
               line = ShownLine(s, zs[1], Header(s.arena[zs[1]], zs[1], zs[2]))
    <3>1. PICK zone \in Zones, slot \in Slots :
            /\ slot \in s.bitmap[zone]
            /\ line = ShownLine(s, zone, Header(s.arena[zone], zone, slot))
      BY <2>1
    <3> DEFINE o == [zone |-> zone, slot |-> slot]
    <3>2. o \in Owners /\ InUse(s, o) /\ line = LineOf(s, o)
      BY <3>1, OwnersMade DEF InUse, OwnerHeader, LineOf
    <3> QED
      BY <3>2
  <2>2. CASE \E e \in {x \in Entries : s.large[x] # 0} : line = ShownLine(s, "large", s.large[e])
    <3>1. PICK e \in Entries : e \in LiveEntries(s) /\ line = ShownLine(s, "large", s.large[e])
      BY <2>2 DEF LiveEntries
    <3> DEFINE o == [zone |-> "large", slot |-> e]
    <3>2. o \in Owners /\ InUse(s, o) /\ line = LineOf(s, o)
      BY <3>1, OwnersMade DEF InUse, OwnerHeader, LineOf
    <3> QED
      BY <3>2
  <2> QED
    BY <1>1, <2>1, <2>2 DEF ShownLines, PoolLines, LargeLines
<1>2. ASSUME NEW o \in Owners, InUse(s, o), line = LineOf(s, o)
      PROVE  line \in ShownLines(s)
  <2>1. CASE o.zone = "large"
    BY <1>2, <2>1 DEF InUse, OwnerHeader, LiveEntries, ShownLines, LargeLines, LineOf
  <2>2. CASE o.zone \in Zones
    <3> DEFINE zs == <<o.zone, o.slot>>
    <3>1. o.slot \in Slots /\ o.slot \in s.bitmap[o.zone]
      BY <1>2, <2>2 DEF InUse, AllocOK, StateType
    <3>2. /\ zs \in {z \in Zones \X Slots : z[2] \in s.bitmap[z[1]]}
          /\ line = ShownLine(s, zs[1], Header(s.arena[zs[1]], zs[1], zs[2]))
      BY <1>2, <2>2, <3>1 DEF OwnerHeader, LineOf
    <3> QED
      BY <3>2 DEF ShownLines, PoolLines
  <2> QED
    BY <2>1, <2>2, OwnerCases
<1> QED
  BY <1>1, <1>2

\* A line shows where the block is and its length as an int.
LEMMA LineOfBlock ==
  ASSUME NEW s, AllocOK(s), NEW o \in Owners, InUse(s, o)
  PROVE  /\ LineOf(s, o).from = OwnerHeader(s, o)
         /\ LineOf(s, o).bytes = ToInt(Requested(s, o))
<1>1. /\ LineOf(s, o).from = OwnerHeader(s, o)
      /\ LineOf(s, o).bytes = s.meta[OwnerHeader(s, o)].client_size
  BY DEF LineOf, ShownLine
<1>2. CASE o.zone = "large"
  <2>1. /\ o.slot \in LiveEntries(s) /\ OwnerHeader(s, o) = s.large[o.slot]
        /\ Requested(s, o) = s.large_request_sizes[o.slot]
    BY <1>2 DEF InUse, OwnerHeader, Requested
  <2>2. EntryOK(s, o.slot)
    BY <2>1, Positive DEF AllocOK, LargeOK, LiveEntries
  <2> QED
    BY <1>1, <2>1, <2>2 DEF EntryOK
<1>3. CASE o.zone \in Zones
  <2>1. /\ o.zone # "large" /\ Requested(s, o) = s.meta[OwnerHeader(s, o)].client_size
        /\ CellLen(s, o) = Stride(o.zone)
    BY <1>3 DEF Requested, CellLen
  <2>2. Requested(s, o) \in Nat /\ Requested(s, o) <= Stride(o.zone) - METASIZE
    BY <2>1, UseFacts
  <2>3. Requested(s, o) \in 0 .. INT_MAX
    BY <1>3, <2>2, StrideFacts, Positive
  <2>4. ToInt(Requested(s, o)) = Requested(s, o)
    BY <2>3, ToIntSmall
  <2> QED
    BY <1>1, <2>1, <2>4
<1> QED
  BY <1>2, <1>3, OwnerCases

=============================================================================
