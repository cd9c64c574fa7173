------------------------------ MODULE AllocImpl ------------------------------
(***************************************************************************)
(* The unlocked functions of src/ft_malloc.c (the *_impl functions and the *)
(* helpers they call), as operators from a state of the allocator to the   *)
(* set of states and return values they can end in.  Two things make a     *)
(* function nondeterministic: where (and whether) the kernel maps the      *)
(* pages it is asked for, and whether munmap succeeds.                     *)
(*                                                                         *)
(* A state is one record: the fields of the global manage_free, the static *)
(* variables of the file, and the memory they describe.                    *)
(*   arena       _tiny, _small (NULL, MAP_FAILED or an address)            *)
(*   bitmap      tiny[], small[], as the set of slots whose bit is 1       *)
(*   zone_flag   malloc_impl's tiny_flag, small_flag                       *)
(*   page_flag   calculater_page_size's flag_tiny, flag_small              *)
(*   large, large_cnt, large_request_sizes, large_flag   as in the code    *)
(*   pages       the pages the kernel has mapped for the allocator         *)
(*   meta        the METADATA_t at each address                            *)
(*   mem         the client's data at each address                         *)
(* The two pools differ in the code only by the names TINY and SMALL; here *)
(* a pool is an element of Zones.                                          *)
(***************************************************************************)
EXTENDS Integers, FiniteSets, FiniteSetsExt

CONSTANTS
  SLOTS,       \* slots of a pool (100)
  LARGES,      \* usable entries of large[] (100; the array has one more)
  BITS,        \* bits of a bitmap byte that number slots (8)
  TINY, SMALL, \* strides of the pools (96, 512)
  METASIZE,    \* sizeof(METADATA_t) (16)
  INDEX_UNIT,  \* INDEX_MASK + 1 (16)
  PAGE,        \* the page size
  PAGES,       \* pages of the address space; page 0 is never mapped
  SIZE_MAX,    \* greatest size_t
  INT_MAX,     \* greatest int
  Bases,       \* the pages the kernel starts a mapping at
  Values       \* what a client can store in a byte; 0 is a zero byte

ASSUME SizesAssumption ==
  /\ {SLOTS, LARGES, BITS, METASIZE, INDEX_UNIT, PAGE, PAGES} \subseteq Nat \ {0}
  /\ TINY \in Nat /\ SMALL \in Nat /\ METASIZE < TINY /\ TINY < SMALL
  /\ SIZE_MAX \in Nat /\ INT_MAX \in Nat /\ SMALL - METASIZE <= INT_MAX

\* The zone byte (front << 4 | back) must hold every slot, and the index
\* kept in the low bits of METADATA_t.size must fit under INDEX_MASK.
ASSUME EncodingAssumption ==
  /\ BITS <= 16 /\ SLOTS <= 15 * BITS
  /\ \A slot \in 0..(SLOTS - 1) : slot \div BITS < INDEX_UNIT
  /\ TINY % INDEX_UNIT = 0 /\ SMALL % INDEX_UNIT = 0 /\ PAGE % INDEX_UNIT = 0

\* Both count modulo a power of two, and a size_t is the wider.
ASSUME WidthAssumption == (SIZE_MAX + 1) % (2 * (INT_MAX + 1)) = 0

ASSUME BasesAssumption == Bases \subseteq 1 .. (PAGES - 1)

ASSUME ValuesAssumption == 0 \in Values

Zones == {"tiny", "small"}
Slots == 0 .. (SLOTS - 1)
Entries == 0 .. (LARGES - 1)
Stride(zone) == IF zone = "tiny" THEN TINY ELSE SMALL

Addr == 0 .. (PAGES * PAGE - 1)
NULL == 0
MAP_FAILED == -1
LONG_MAX == SIZE_MAX \div 2

Meta == [size : Int, position : Int, client_size : Int]
ZeroMeta == [size |-> 0, position |-> 0, client_size |-> 0]

StateType ==
  [ arena     : [Zones -> Addr \cup {MAP_FAILED}],
    bitmap    : [Zones -> SUBSET Slots],
    zone_flag : [Zones -> BOOLEAN],
    page_flag : [Zones -> BOOLEAN],
    large     : [0 .. LARGES -> Addr],
    large_cnt : Int,
    large_request_sizes : [0 .. LARGES -> Nat],
    large_flag : BOOLEAN,
    pages     : SUBSET (1 .. (PAGES - 1)),
    meta      : [Addr -> Meta],
    mem       : [Addr -> Values] ]

\* A process that has not allocated yet: static storage is zero.
InitState ==
  [ arena     |-> [zone \in Zones |-> NULL],
    bitmap    |-> [zone \in Zones |-> {}],
    zone_flag |-> [zone \in Zones |-> FALSE],
    page_flag |-> [zone \in Zones |-> FALSE],
    large     |-> [entry \in 0 .. LARGES |-> 0],
    large_cnt |-> 0,
    large_request_sizes |-> [entry \in 0 .. LARGES |-> 0],
    large_flag |-> FALSE,
    pages     |-> {},
    meta      |-> [a \in Addr |-> ZeroMeta],
    mem       |-> [a \in Addr |-> 0] ]

(***************************************************************************)
(* What a call ends in: the state, the pointer returned, whether the       *)
(* kernel refused an mmap during the call, and whether print_error ended   *)
(* the process.                                                            *)
(***************************************************************************)
Return(s, ptr) == [st |-> s, ret |-> ptr, refused |-> FALSE, exit |-> FALSE]
Refused(s) == [Return(s, NULL) EXCEPT !.refused = TRUE]
Exit(s) == [Return(s, NULL) EXCEPT !.exit = TRUE]

-----------------------------------------------------------------------------
(***************************************************************************)
(* The kernel.                                                             *)
(***************************************************************************)
Region(base, len) == base .. (base + len - 1)
PagesOf(base, len) == {a \div PAGE : a \in Region(base, len)}

\* Where mmap can put len bytes: at the start of a run of free pages.
FreeRuns(s, len) ==
  {base \in {n * PAGE : n \in Bases} :
     /\ Region(base, len) \subseteq Addr
     /\ PagesOf(base, len) \cap s.pages = {}}

\* The pages become the allocator's; fresh anonymous pages read as zero.
MapPages(s, base, len) == [s EXCEPT !.pages = @ \cup PagesOf(base, len)]

\* The pages and their contents are gone.
UnmapPages(s, base, len) ==
  [s EXCEPT !.pages = @ \ PagesOf(base, len),
            !.meta = [a \in Addr |-> IF a \in Region(base, len) THEN ZeroMeta ELSE @[a]],
            !.mem = [a \in Addr |-> IF a \in Region(base, len) THEN 0 ELSE @[a]]]

-----------------------------------------------------------------------------
(***************************************************************************)
(* calculater_page_size: -1, or the bytes to map for a block of size.      *)
(***************************************************************************)
RoundUp(size) == ((size + (PAGE - 1)) \div PAGE) * PAGE

Bit(n, k) == (n \div 2^k) % 2

\* !(~flag & size), flag being the zone constant once it is set and else 0.
Masked(flag, size) == size <= flag /\ \A k \in 0 .. 9 : Bit(size, k) <= Bit(flag, k)
Flag(s, zone) == IF s.page_flag[zone] THEN Stride(zone) ELSE 0

calculater_page_size(s, size) ==
  IF \/ \E zone \in Zones : Masked(Flag(s, zone), size)
     \/ size < 1
     \/ size > LONG_MAX - (PAGE - 1)
  THEN -1
  ELSE IF size \in {TINY, SMALL} THEN RoundUp(size * SLOTS) ELSE RoundUp(size)

\* A pool asks for its own stride: once the other pool's flag is set it must
\* not mask that (96 has bits that 512 has not), and the stride must be a long.
ASSUME StridesAssumption == ~Masked(SMALL, TINY) /\ SMALL <= LONG_MAX - (PAGE - 1)

(***************************************************************************)
(* init_meta_data, for the slots of a pool and for a LARGE mapping.        *)
(***************************************************************************)
Header(base, zone, slot) == base + slot * Stride(zone)
SlotMeta(zone, slot) ==
  [size |-> Stride(zone) + slot \div BITS, position |-> slot % BITS, client_size |-> 0]

InitPool(s, zone) ==
  [s EXCEPT !.meta = [a \in Addr |->
     LET Heads == {slot \in Slots : a = Header(s.arena[zone], zone, slot)}
     IN  IF Heads = {} THEN @[a] ELSE SlotMeta(zone, CHOOSE slot \in Heads : TRUE)]]

\* The first zero entry, or the index one past the last.
FreeEntry(s) == Min({entry \in Entries : s.large[entry] = 0} \cup {LARGES})

InitLarge(s, base, len) ==
  LET entry == FreeEntry(s)
  IN  [s EXCEPT !.large = IF entry \in Entries THEN [@ EXCEPT ![entry] = base] ELSE @,
                !.meta[base] = [size |-> len, position |-> entry, client_size |-> 0]]

(***************************************************************************)
(* find_free_zone returns the first free slot as the byte                  *)
(* (front << 4) | back and sets its bit; 0xFF says that there is none.     *)
(***************************************************************************)
NO_ZONE == 255
Encode(slot) == ((slot \div BITS) * 16) + (slot % BITS)
Decode(zone_byte) == ((zone_byte \div 16) * BITS) + (zone_byte % 16)

\* Bug variants: the scan stops one slot late, or one slot early.
FreeSlots_Late(s, zone) == (0 .. SLOTS) \ s.bitmap[zone]
FreeSlots_Early(s, zone) == (0 .. (SLOTS - 2)) \ s.bitmap[zone]

FreeSlots(s, zone) == Slots \ s.bitmap[zone]
find_free_zone(s, zone) ==
  IF FreeSlots(s, zone) = {} THEN NO_ZONE ELSE Encode(Min(FreeSlots(s, zone)))

\* (int)size
ToInt(size) ==
  LET low == size % (2 * (INT_MAX + 1))
  IN  IF low > INT_MAX THEN low - 2 * (INT_MAX + 1) ELSE low

-----------------------------------------------------------------------------
(***************************************************************************)
(* malloc_impl.  The page flag of a pool is set before its mmap, the zone  *)
(* flag after it.                                                          *)
(***************************************************************************)
EnsureArena(s, zone) ==
  LET len == calculater_page_size(s, Stride(zone))
      Placed(base) == [s EXCEPT !.page_flag[zone] = TRUE, !.arena[zone] = base]
      Opened(base) == InitPool(MapPages(Placed(base), base, len), zone)
  IN  IF s.zone_flag[zone] THEN {Return(s, s.arena[zone])}
      ELSE IF len = -1 THEN {Return(s, NULL)}
      ELSE {Refused(Placed(MAP_FAILED))}
             \cup {Return([Opened(base) EXCEPT !.zone_flag[zone] = TRUE], base) :
                     base \in FreeRuns(s, len)}

\* find_free_zone sets the bit of the slot it returns.
MarkSlot(s, zone) == [s EXCEPT !.bitmap[zone] = @ \cup {Min(FreeSlots(s, zone))}]
Stamp(s, head, n) == [s EXCEPT !.meta[head].client_size = ToInt(n)]

TakeSlot(s, zone, n) ==
  LET zone_byte == find_free_zone(s, zone)
      head == Header(s.arena[zone], zone, Decode(zone_byte))
  IN  IF zone_byte = NO_ZONE THEN Return(s, NULL)
      ELSE Return(Stamp(MarkSlot(s, zone), head, n), head + METASIZE)

MallocPool(s, zone, n) ==
  {IF e.ret = NULL THEN e ELSE TakeSlot(e.st, zone, n) : e \in EnsureArena(s, zone)}

RecordLarge(s, base, n) ==
  [s EXCEPT !.meta[base].client_size = ToInt(n),
            !.large_request_sizes[s.meta[base].position] = n,
            !.large_cnt = @ + 1]

ClearTable(s) ==
  IF s.large_flag THEN s
  ELSE [s EXCEPT !.large = [entry \in 0 .. LARGES |-> 0], !.large_flag = TRUE]

\* The bytes to map for n, or -1.
LargeLen(s, n) ==
  IF n > SIZE_MAX - METASIZE THEN -1 ELSE calculater_page_size(s, n + METASIZE)

MallocLarge(s, n) ==
  LET ready == ClearTable(s)
      len == LargeLen(ready, n)
      Placed(base) == InitLarge(MapPages(ready, base, len), base, len)
  IN  IF s.large_cnt >= LARGES THEN {Return(s, NULL)}
      ELSE IF len = -1 THEN {Return(ready, NULL)}
      ELSE {Refused(ready)}
             \cup {Return(RecordLarge(Placed(base), base, n), base + METASIZE) :
                     base \in FreeRuns(ready, len)}

AtLeastOne(size) == IF size < 1 THEN 1 ELSE size

Class(n) ==
  IF n <= TINY - METASIZE THEN "tiny"
  ELSE IF n <= SMALL - METASIZE THEN "small" ELSE "large"

malloc_impl(s, size) ==
  LET n == AtLeastOne(size)
  IN  IF Class(n) = "large" THEN MallocLarge(s, n) ELSE MallocPool(s, Class(n), n)

-----------------------------------------------------------------------------
(***************************************************************************)
(* live_pool_slot and find_live_allocation: the owner of a pointer handed  *)
(* in by the client, by comparing addresses only.                          *)
(***************************************************************************)
NoOwner == [zone |-> "none", slot |-> -1]

IsMapped(base) == base \notin {NULL, MAP_FAILED}

\* Bug variants: interior pointers pass; slots that are not in use pass.
live_pool_slot_Interior(s, zone, ptr) ==
  LET slot == (ptr - s.arena[zone] - METASIZE) \div Stride(zone)
  IN  IF IsMapped(s.arena[zone]) /\ slot \in s.bitmap[zone] THEN slot ELSE -1
live_pool_slot_NotLive(s, zone, ptr) ==
  LET offset == ptr - s.arena[zone] - METASIZE
  IN  IF IsMapped(s.arena[zone]) /\ offset \in {slot * Stride(zone) : slot \in Slots}
      THEN offset \div Stride(zone) ELSE -1

live_pool_slot(s, zone, ptr) ==
  LET offset == ptr - s.arena[zone] - METASIZE
      slot == offset \div Stride(zone)
  IN  IF /\ IsMapped(s.arena[zone])
         /\ offset >= 0
         /\ offset % Stride(zone) = 0
         /\ slot < SLOTS
         /\ slot \in s.bitmap[zone]
      THEN slot ELSE -1

LargeEntriesAt(s, ptr) ==
  {entry \in Entries : s.large[entry] # 0 /\ ptr = s.large[entry] + METASIZE}

find_live_allocation(s, ptr) ==
  IF ptr = NULL THEN NoOwner
  ELSE IF live_pool_slot(s, "tiny", ptr) >= 0
  THEN [zone |-> "tiny", slot |-> live_pool_slot(s, "tiny", ptr)]
  ELSE IF live_pool_slot(s, "small", ptr) >= 0
  THEN [zone |-> "small", slot |-> live_pool_slot(s, "small", ptr)]
  ELSE IF LargeEntriesAt(s, ptr) # {}
  THEN [zone |-> "large", slot |-> Min(LargeEntriesAt(s, ptr))]
  ELSE NoOwner

OwnerHeader(s, owner) ==
  IF owner.zone = "large" THEN s.large[owner.slot]
  ELSE Header(s.arena[owner.zone], owner.zone, owner.slot)

-----------------------------------------------------------------------------
(***************************************************************************)
(* free_impl.  A pointer that owns nothing changes nothing.                *)
(***************************************************************************)
ClearSlot(s, owner) == [s EXCEPT !.bitmap[owner.zone] = @ \ {owner.slot}]

\* Bug variants: the request size stays; munmap gets the client's length.
DropEntry_KeepSize(s, owner) == [s EXCEPT !.large[owner.slot] = 0, !.large_cnt = @ - 1]
Unmap_ClientSize(s, owner) ==
  LET base == s.large[owner.slot] IN UnmapPages(s, base, s.meta[base].client_size)

Unmap(s, owner) ==
  LET base == s.large[owner.slot] IN UnmapPages(s, base, s.meta[base].size)
DropEntry(s, owner) ==
  [s EXCEPT !.large[owner.slot] = 0,
            !.large_request_sizes[owner.slot] = 0,
            !.large_cnt = @ - 1]

ClearLarge(s, owner) == DropEntry(Unmap(s, owner), owner)

free_impl(s, ptr) ==
  LET owner == find_live_allocation(s, ptr)
  IN  IF owner = NoOwner THEN {Return(s, NULL)}
      ELSE IF owner.zone \in Zones THEN {Return(ClearSlot(s, owner), NULL)}
      ELSE {Return(ClearLarge(s, owner), NULL), Exit(s)}

(***************************************************************************)
(* realloc_impl.                                                           *)
(***************************************************************************)
\* Bug variant: the header is not taken off.
Capacity_WithHeader(s, owner) ==
  LET size == s.meta[OwnerHeader(s, owner)].size IN size - (size % INDEX_UNIT)

Capacity(s, owner) ==
  LET size == s.meta[OwnerHeader(s, owner)].size
  IN  (size - (size % INDEX_UNIT)) - METASIZE

\* Bug variant: the header of a LARGE block is not brought up to date.
ResizeInPlace_TableOnly(s, owner, n) ==
  IF owner.zone \in Zones THEN Stamp(s, OwnerHeader(s, owner), n)
  ELSE [s EXCEPT !.large_request_sizes[owner.slot] = n]

ResizeInPlace(s, owner, n) ==
  LET t == Stamp(s, OwnerHeader(s, owner), n)
  IN  IF owner.zone \in Zones THEN t
      ELSE [t EXCEPT !.large_request_sizes[owner.slot] = n]

\* copy_size: the length the client asked for, from the exact table if LARGE.
Requested(s, owner) ==
  IF owner.zone = "large" THEN s.large_request_sizes[owner.slot]
  ELSE s.meta[OwnerHeader(s, owner)].client_size

\* ft_memcpy(dst, src, len) and ft_memset(dst, 0, len).
ft_memcpy(s, dst, src, len) ==
  [s EXCEPT !.mem = [a \in Addr |-> IF a \in Region(dst, len) THEN @[src + (a - dst)] ELSE @[a]]]
ft_memset(s, dst, v, len) ==
  [s EXCEPT !.mem = [a \in Addr |-> IF a \in Region(dst, len) THEN v ELSE @[a]]]

\* Bug variant: the old block is gone before it is copied.
Move_FreeFirst(m, ptr, owner) ==
  {[f EXCEPT !.st = ft_memcpy(@, m.ret, ptr, Requested(m.st, owner)), !.ret = m.ret] :
     f \in free_impl(m.st, ptr)}

\* Copy to the replacement, then free the old block.
Move(m, ptr, owner) ==
  {[f EXCEPT !.ret = m.ret] :
     f \in free_impl(ft_memcpy(m.st, m.ret, ptr, Requested(m.st, owner)), ptr)}

realloc_impl(s, ptr, n) ==
  LET owner == find_live_allocation(s, ptr)
  IN  IF ptr = NULL THEN malloc_impl(s, n)
      ELSE IF n = 0 THEN free_impl(s, ptr)
      ELSE IF owner = NoOwner THEN {Return(s, NULL)}
      ELSE IF n <= Capacity(s, owner) THEN {Return(ResizeInPlace(s, owner, n), ptr)}
      ELSE UNION {IF m.ret = NULL THEN {m} ELSE Move(m, ptr, owner) : m \in malloc_impl(s, n)}

(***************************************************************************)
(* callo_imp.                                                              *)
(***************************************************************************)
\* Bug variants: the product wraps; the block is not zeroed.
callo_imp_Wraps(s, nmemb, size) ==
  LET total == (nmemb * size) % (SIZE_MAX + 1)
  IN  {IF m.ret = NULL THEN m ELSE [m EXCEPT !.st = ft_memset(m.st, m.ret, 0, total)] :
         m \in malloc_impl(s, total)}
callo_imp_NoZero(s, nmemb, size) ==
  IF nmemb # 0 /\ size > SIZE_MAX \div nmemb THEN {Return(s, NULL)}
  ELSE malloc_impl(s, nmemb * size)

callo_imp(s, nmemb, size) ==
  LET total == (nmemb * size) % (SIZE_MAX + 1)
  IN  IF nmemb # 0 /\ size > SIZE_MAX \div nmemb THEN {Return(s, NULL)}
      ELSE {IF m.ret = NULL THEN m ELSE [m EXCEPT !.st = ft_memset(m.st, m.ret, 0, total)] :
              m \in malloc_impl(s, total)}

-----------------------------------------------------------------------------
(***************************************************************************)
(* show_alloc_mem prints a line for every used slot and every LARGE entry: *)
(* where the header is, where client_size bytes from there end, and how    *)
(* much there is in all, which is a size_t printed as an int.  Its         *)
(* total_size, a size_t, adds client_size, an int converted to size_t, and *)
(* goes through %d like the units: printf takes an int from the arguments. *)
(***************************************************************************)
\* Bug variant: the index in the low bits of the size is shown with it.
ShownLine_Index(s, zone, head) ==
  LET meta == s.meta[head]
  IN  [zone |-> zone, from |-> head, to |-> head + meta.client_size, bytes |-> meta.client_size,
       unit |-> ToInt(meta.size)]

ShownLine(s, zone, head) ==
  LET meta == s.meta[head]
  IN  [zone |-> zone, from |-> head, to |-> head + meta.client_size, bytes |-> meta.client_size,
       unit |-> ToInt(IF zone = "large" THEN meta.size ELSE meta.size - (meta.size % INDEX_UNIT))]

PoolLines(s) ==
  {ShownLine(s, zs[1], Header(s.arena[zs[1]], zs[1], zs[2])) :
     zs \in {z \in Zones \X Slots : z[2] \in s.bitmap[z[1]]}}
LargeLines(s) ==
  {ShownLine(s, "large", s.large[entry]) : entry \in {e \in Entries : s.large[e] # 0}}

ShownLines(s) == PoolLines(s) \cup LargeLines(s)

total_size(s) == MapThenSumSet(LAMBDA line : line.bytes, ShownLines(s)) % (SIZE_MAX + 1)
ShownTotal(s) == ToInt(total_size(s))

-----------------------------------------------------------------------------
(***************************************************************************)
(* What the functions rely on and keep true.                               *)
(***************************************************************************)
LiveEntries(s) == {entry \in Entries : s.large[entry] # 0}

ArenaLen(zone) == RoundUp(Stride(zone) * SLOTS)
ArenaPages(s, zone) ==
  IF s.zone_flag[zone] THEN PagesOf(s.arena[zone], ArenaLen(zone)) ELSE {}
EntryPages(s, entry) == PagesOf(s.large[entry], s.meta[s.large[entry]].size)

SlotOK(s, zone, slot) ==
  LET meta == s.meta[Header(s.arena[zone], zone, slot)]
  IN  /\ meta.size = Stride(zone) + slot \div BITS
      /\ meta.position = slot % BITS
      /\ slot \in s.bitmap[zone] => meta.client_size \in 1 .. (Stride(zone) - METASIZE)

PoolOK(s, zone) ==
  IF s.zone_flag[zone]
  THEN /\ s.arena[zone] \in Addr \ {NULL}
       /\ Region(s.arena[zone], ArenaLen(zone)) \subseteq Addr
       /\ \A slot \in Slots : SlotOK(s, zone, slot)
  ELSE s.bitmap[zone] = {} /\ s.arena[zone] \in {NULL, MAP_FAILED}

EntryOK(s, entry) ==
  LET meta == s.meta[s.large[entry]]
  IN  /\ meta.position = entry
      /\ Region(s.large[entry], meta.size) \subseteq Addr
      /\ meta.size % INDEX_UNIT = 0
      /\ meta.client_size = ToInt(s.large_request_sizes[entry])
      /\ s.large_request_sizes[entry] \in 1 .. (meta.size - METASIZE)

LargeOK(s) ==
  /\ \A entry \in 0 .. LARGES :
       IF entry \in LiveEntries(s) THEN EntryOK(s, entry)
       ELSE s.large[entry] = 0 /\ s.large_request_sizes[entry] = 0
  /\ s.large_cnt = Cardinality(LiveEntries(s))
  /\ s.large_flag \/ LiveEntries(s) = {}

PagesOK(s) ==
  /\ s.pages = (UNION {ArenaPages(s, zone) : zone \in Zones})
                 \cup (UNION {EntryPages(s, entry) : entry \in LiveEntries(s)})
  /\ ArenaPages(s, "tiny") \cap ArenaPages(s, "small") = {}
  /\ \A zone \in Zones, entry \in LiveEntries(s) :
       ArenaPages(s, zone) \cap EntryPages(s, entry) = {}
  /\ \A e, f \in LiveEntries(s) : e # f => EntryPages(s, e) \cap EntryPages(s, f) = {}

=============================================================================
