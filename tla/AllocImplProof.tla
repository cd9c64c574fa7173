---------------------------- MODULE AllocImplProof ----------------------------
(***************************************************************************)
(* Proofs about the functions of AllocImpl, for every number of slots and  *)
(* entries, every page size and every placement of mappings by the kernel: *)
(* each *_impl function takes a state that satisfies AllocOK to states     *)
(* that satisfy it.                                                        *)
(***************************************************************************)
EXTENDS AllocImpl, FiniteSetTheorems, WellFoundedInduction, TLAPS

AllocOK(s) ==
  /\ s \in StateType
  /\ \A zone \in Zones : PoolOK(s, zone)
  /\ LargeOK(s)
  /\ PagesOK(s)

USE DEF Zones, Slots, Entries, NULL, MAP_FAILED

-----------------------------------------------------------------------------
(***************************************************************************)
(* Arithmetic.                                                             *)
(***************************************************************************)
\* A nonempty set of naturals has a least element, and Min finds it.
LEMMA MinIsLeast ==
  ASSUME NEW S \in SUBSET Nat, S # {}
  PROVE  Min(S) \in S /\ \A y \in S : Min(S) <= y
<1> DEFINE Below(n) == S \cap (0 .. n)
           T == {Below(n) : n \in S}
<1>1. T \subseteq FiniteSubsetsOf(Nat) /\ T # {}
  <2>1. \A n \in S : IsFiniteSet(0 .. n)
    BY FS_Interval
  <2>2. \A n \in S : IsFiniteSet(Below(n))
    BY <2>1, FS_Subset
  <2> QED
    BY <2>2 DEF FiniteSubsetsOf
<1> HIDE DEF T
<1>2. PICK X \in T : \A Y \in T : ~(<<Y, X>> \in StrictSubsetOrdering(Nat))
  BY <1>1, FS_StrictSubsetOrderingWellFounded, WFMin
<1> USE DEF T
<1>3. PICK n \in S : X = Below(n)
  OBVIOUS
<1>4. ASSUME NEW y \in S, y < n PROVE FALSE
  <2>1. Below(y) \in T /\ Below(y) \subseteq X /\ n \in X /\ n \notin Below(y)
    BY <1>3, <1>4
  <2>2. <<Below(y), X>> \in StrictSubsetOrdering(Nat)
    BY <2>1, <1>1 DEF StrictSubsetOrdering, FiniteSubsetsOf
  <2> QED
    BY <2>1, <2>2, <1>2
<1>5. \A y \in S : n <= y
  BY <1>4
<1> HIDE DEF T
<1> QED
  BY <1>5 DEF Min

\* Division with remainder.
LEMMA DivMod ==
  ASSUME NEW a \in Int, NEW b \in Nat \ {0}
  PROVE  /\ a \div b \in Int /\ a % b \in 0 .. (b - 1)
         /\ a = b * (a \div b) + (a % b)
  OBVIOUS

LEMMA Divides ==
  ASSUME NEW a \in Int, NEW b \in Nat \ {0}, a % b = 0
  PROVE  a \div b \in Int /\ a = b * (a \div b)
  BY DivMod

LEMMA DivUnique ==
  ASSUME NEW b \in Nat \ {0}, NEW q \in Int, NEW r \in 0 .. (b - 1)
  PROVE  (b * q + r) \div b = q /\ (b * q + r) % b = r
<1> DEFINE a == b * q + r
           p == a \div b
<1>1. a \in Int /\ p \in Int /\ a % b \in 0 .. (b - 1) /\ a = b * p + (a % b)
  BY DivMod
<1>2. p < q => b * p + b <= b * q
  BY <1>1
<1>3. q < p => b * q + b <= b * p
  BY <1>1
<1> QED
  BY <1>1, <1>2, <1>3

\* A product is at least a shorter one and a whole factor.
LEMMA MulGap ==
  ASSUME NEW c \in Nat, NEW a \in Nat, NEW b \in Nat, a < b
  PROVE  a * c + c <= b * c /\ a * c \in Nat /\ b * c \in Nat
  OBVIOUS

LEMMA Positive ==
  /\ SLOTS \in Nat \ {0} /\ LARGES \in Nat \ {0} /\ BITS \in Nat \ {0}
  /\ METASIZE \in Nat \ {0} /\ INDEX_UNIT \in Nat \ {0}
  /\ PAGE \in Nat \ {0} /\ PAGES \in Nat \ {0} /\ SIZE_MAX \in Nat /\ INT_MAX \in Nat
  BY SizesAssumption

\* A slot is longer than its header, and what is left of it is an int.
LEMMA StrideFacts ==
  ASSUME NEW zone \in Zones
  PROVE  /\ Stride(zone) \in Nat \ {0} /\ METASIZE < Stride(zone)
         /\ Stride(zone) - METASIZE <= INT_MAX
  BY SizesAssumption, Positive DEF Stride

LEMMA RoundUpBounds ==
  ASSUME NEW size \in Nat
  PROVE  RoundUp(size) \in Nat /\ size <= RoundUp(size)
<1> DEFINE a == size + (PAGE - 1)
<1>0. a \in Nat
  BY Positive
<1>1. a \in Nat /\ a \div PAGE \in Int /\ a % PAGE \in 0 .. (PAGE - 1)
      /\ a = PAGE * (a \div PAGE) + (a % PAGE)
  <2> HIDE DEF a
  <2> QED
    BY <1>0, Positive, DivMod
<1>2. RoundUp(size) = PAGE * (a \div PAGE)
  BY <1>1, Positive DEF RoundUp
<1> HIDE DEF a
<1>3. PAGE * (a \div PAGE) \in Int
  BY <1>1, Positive
<1>4. PAGE * (a \div PAGE) >= a - (PAGE - 1)
  BY <1>1, <1>3, Positive
<1> QED
  BY <1>1, <1>2, <1>3, <1>4, Positive DEF a

\* What is mapped is whole pages, so its length leaves the index bits clear.
LEMMA RoundUpWhole ==
  ASSUME NEW size \in Nat
  PROVE  RoundUp(size) % INDEX_UNIT = 0
<1> DEFINE p == (size + (PAGE - 1)) \div PAGE
           q == PAGE \div INDEX_UNIT
<1>1. size + (PAGE - 1) \in Int /\ PAGE \in Int
  BY Positive
<1>2. p \in Int
  BY <1>1, DivMod, Positive
<1>3. q \in Int /\ PAGE = INDEX_UNIT * q
  BY <1>1, Divides, Positive, EncodingAssumption
<1>4. RoundUp(size) = p * PAGE
  BY DEF RoundUp
<1> HIDE DEF p, q
<1> DEFINE r == p * q
<1>5. r \in Int /\ p * PAGE = INDEX_UNIT * r
  BY <1>2, <1>3, Positive
<1> HIDE DEF r
<1>6. 0 \in 0 .. (INDEX_UNIT - 1)
  BY Positive
<1>7. (INDEX_UNIT * r + 0) % INDEX_UNIT = 0
  BY <1>5, <1>6, DivUnique, Positive
<1>8. INDEX_UNIT * r \in Int
  BY <1>5, Positive
<1> QED
  BY <1>4, <1>5, <1>7, <1>8

\* The pages of the address space are numbered below PAGES.
LEMMA PageOfAddr ==
  ASSUME NEW a \in Addr
  PROVE  /\ a \div PAGE \in 0 .. (PAGES - 1)
         /\ a >= PAGE => a \div PAGE \in 1 .. (PAGES - 1)
<1> DEFINE q == a \div PAGE
           r == a % PAGE
<1>1. a \in Nat /\ a < PAGES * PAGE /\ PAGES * PAGE \in Nat
  BY Positive DEF Addr
<1>2. q \in Int /\ r \in 0 .. (PAGE - 1) /\ a = PAGE * q + r
  BY <1>1, DivMod, Positive
<1> HIDE DEF q, r
<1>3. q < 0 => PAGE * q <= -PAGE
  BY <1>2, Positive
<1>4. q >= PAGES => PAGE * q >= PAGES * PAGE
  BY <1>2, Positive
<1>5. q = 0 => a < PAGE
  BY <1>2, Positive
<1>6. q \in 0 .. (PAGES - 1) /\ (a >= PAGE => q # 0)
  BY <1>1, <1>2, <1>3, <1>4, <1>5, Positive
<1> QED
  BY <1>6, Positive DEF q

\* A slot lies inside its arena.
LEMMA SlotInside ==
  ASSUME NEW base \in Int, NEW zone \in Zones, NEW slot \in Slots
  PROVE  /\ Header(base, zone, slot) \in Int
         /\ base <= Header(base, zone, slot)
         /\ Header(base, zone, slot) + Stride(zone) <= base + ArenaLen(zone)
<1> DEFINE n == Stride(zone)
<1>1. n \in Nat \ {0} /\ slot \in Nat /\ slot < SLOTS
  BY StrideFacts, Positive
<1>2. slot * n + n <= SLOTS * n /\ slot * n \in Nat /\ SLOTS * n \in Nat
  BY <1>1, MulGap, Positive
<1>3. n * SLOTS = SLOTS * n
  BY <1>1, Positive
<1>4. ArenaLen(zone) \in Nat /\ SLOTS * n <= ArenaLen(zone)
  BY <1>2, <1>3, RoundUpBounds DEF ArenaLen
<1> HIDE DEF n
<1> QED
  BY <1>1, <1>2, <1>4 DEF Header, n

LEMMA HeaderInjective ==
  ASSUME NEW base \in Int, NEW zone \in Zones, NEW i \in Slots, NEW j \in Slots,
         Header(base, zone, i) = Header(base, zone, j)
  PROVE  i = j
<1> DEFINE n == Stride(zone)
<1>1. n \in Nat \ {0} /\ i \in Nat /\ j \in Nat
  BY StrideFacts, Positive
<1> HIDE DEF n
<1>2. i < j => i * n + n <= j * n
  BY <1>1, MulGap
<1>3. j < i => j * n + n <= i * n
  BY <1>1, MulGap
<1>4. i * n \in Nat /\ j * n \in Nat
  BY <1>1
<1>5. i * n = j * n
  BY <1>4 DEF Header, n
<1> QED
  BY <1>1, <1>2, <1>3, <1>4, <1>5

\* The zone byte names the slot it was made of.
LEMMA ZoneRoundTrip ==
  ASSUME NEW slot \in Slots
  PROVE  Decode(Encode(slot)) = slot
<1> DEFINE q == slot \div BITS
           r == slot % BITS
<1>1. slot \in Int /\ q \in Int /\ r \in 0 .. (BITS - 1) /\ slot = BITS * q + r
  BY DivMod, Positive
<1>2. r \in 0 .. 15
  BY <1>1, Positive, EncodingAssumption
<1>3. Encode(slot) = 16 * q + r
  BY <1>1 DEF Encode
<1> HIDE DEF q, r
<1>4. (16 * q + r) \div 16 = q /\ (16 * q + r) % 16 = r
  BY <1>1, <1>2, DivUnique
<1> QED
  BY <1>1, <1>3, <1>4, Positive DEF Decode

\* No slot is encoded as the byte that says there is none.
LEMMA ZoneBytes ==
  ASSUME NEW slot \in Slots
  PROVE  Encode(slot) # NO_ZONE
<1> DEFINE q == slot \div BITS
           r == slot % BITS
<1>1. slot \in Int /\ q \in Int /\ r \in 0 .. (BITS - 1) /\ slot = BITS * q + r
  BY DivMod, Positive
<1>2. r <= 15 /\ slot < 15 * BITS
  BY <1>1, Positive, EncodingAssumption
<1>3. Encode(slot) = 16 * q + r
  BY <1>1 DEF Encode
<1> HIDE DEF q, r
<1>4. q >= 15 => BITS * q >= 15 * BITS
  BY <1>1, Positive
<1> QED
  BY <1>1, <1>2, <1>3, <1>4, Positive DEF NO_ZONE

\* The mask of realloc_impl takes the bitmap index off METADATA_t.size.
LEMMA MaskIndex ==
  ASSUME NEW zone \in Zones, NEW slot \in Slots
  PROVE  LET size == Stride(zone) + slot \div BITS
         IN  size \in Int /\ size - (size % INDEX_UNIT) = Stride(zone)
<1> DEFINE q == Stride(zone) \div INDEX_UNIT
           r == slot \div BITS
<1>1. Stride(zone) \in Nat /\ Stride(zone) % INDEX_UNIT = 0
  BY StrideFacts, EncodingAssumption DEF Stride
<1>2. q \in Int /\ Stride(zone) = INDEX_UNIT * q
  <2>1. Stride(zone) \in Int
    BY <1>1
  <2> QED
    BY <1>1, <2>1, Divides, Positive, Zenon
<1>3. r \in Int /\ r < INDEX_UNIT
  BY EncodingAssumption, Positive
<1>4. slot \in Nat /\ slot = BITS * r + (slot % BITS) /\ slot % BITS \in 0 .. (BITS - 1)
  BY DivMod, Positive
<1> HIDE DEF q, r
<1>5. r < 0 => BITS * r <= -BITS
  BY <1>3, Positive
<1>6. r \in 0 .. (INDEX_UNIT - 1)
  BY <1>3, <1>4, <1>5, Positive
<1>7. (INDEX_UNIT * q + r) % INDEX_UNIT = r
  BY <1>2, <1>6, DivUnique, Positive
<1>8. INDEX_UNIT * q \in Int
  BY <1>2, Positive
<1> QED
  BY <1>2, <1>3, <1>7, <1>8 DEF r

-----------------------------------------------------------------------------
(***************************************************************************)
(* Pages: what is mapped apart is apart.                                   *)
(***************************************************************************)
LEMMA PageOfRegion ==
  ASSUME NEW base, NEW len, NEW a \in Region(base, len)
  PROVE  a \div PAGE \in PagesOf(base, len)
  BY DEF PagesOf

\* What the kernel answers to mmap.
LEMMA FreshRun ==
  ASSUME NEW s \in StateType, NEW len \in Nat \ {0}, NEW base \in FreeRuns(s, len)
  PROVE  /\ base \in Addr \ {0}
         /\ Region(base, len) \subseteq Addr
         /\ PagesOf(base, len) \subseteq 1 .. (PAGES - 1)
         /\ PagesOf(base, len) \cap s.pages = {}
<1>1. PICK n \in Bases : base = n * PAGE
  BY DEF FreeRuns
<1>2. n \in Nat \ {0}
  BY BasesAssumption
<1>3. base \in Nat /\ base >= PAGE
  BY <1>1, <1>2, Positive
<1>4. Region(base, len) \subseteq Addr /\ PagesOf(base, len) \cap s.pages = {}
  BY DEF FreeRuns
<1>5. base \in Region(base, len)
  BY <1>3 DEF Region
<1>6. ASSUME NEW a \in Region(base, len) PROVE a \div PAGE \in 1 .. (PAGES - 1)
  <2>1. a \in Addr /\ a >= PAGE
    BY <1>3, <1>4, Positive DEF Region
  <2> QED
    BY <2>1, PageOfAddr
<1> QED
  BY <1>3, <1>4, <1>5, <1>6, Positive DEF PagesOf

\* PagesOK, page by page.
LEMMA PagesOKByPage ==
  ASSUME NEW s
  PROVE  PagesOK(s) <=>
           /\ \A p : p \in s.pages <=> \/ \E zone \in Zones : p \in ArenaPages(s, zone)
                                       \/ \E e \in LiveEntries(s) : p \in EntryPages(s, e)
           /\ \A p : ~(p \in ArenaPages(s, "tiny") /\ p \in ArenaPages(s, "small"))
           /\ \A zone \in Zones, e \in LiveEntries(s) : \A p :
                ~(p \in ArenaPages(s, zone) /\ p \in EntryPages(s, e))
           /\ \A e, f \in LiveEntries(s) : \A p :
                e # f => ~(p \in EntryPages(s, e) /\ p \in EntryPages(s, f))
<1>1. \A p : p \in UNION {ArenaPages(s, zone) : zone \in Zones}
                <=> \E zone \in Zones : p \in ArenaPages(s, zone)
  OBVIOUS
<1>2. \A p : p \in UNION {EntryPages(s, e) : e \in LiveEntries(s)}
                <=> \E e \in LiveEntries(s) : p \in EntryPages(s, e)
  OBVIOUS
<1> DEFINE A == UNION {ArenaPages(s, zone) : zone \in Zones}
           E == UNION {EntryPages(s, e) : e \in LiveEntries(s)}
<1> HIDE DEF A, E
<1>3. s.pages = A \cup E <=> \A p : p \in s.pages <=> p \in A \/ p \in E
  OBVIOUS
<1> QED
  BY <1>1, <1>2, <1>3 DEF PagesOK, A, E

\* A header of an open pool lies in a page of its arena.
LEMMA SlotPage ==
  ASSUME NEW s, AllocOK(s), NEW zone \in Zones, s.zone_flag[zone], NEW slot \in Slots
  PROVE  /\ Header(s.arena[zone], zone, slot) \in Addr
         /\ Header(s.arena[zone], zone, slot) \div PAGE \in ArenaPages(s, zone)
         /\ Header(s.arena[zone], zone, slot) + METASIZE \in Addr \ {0}
         /\ \A i \in 0 .. (Stride(zone) - 1) : Header(s.arena[zone], zone, slot) + i \in Addr
<1> DEFINE base == s.arena[zone]
           head == Header(base, zone, slot)
<1>1. base \in Addr \ {0} /\ Region(base, ArenaLen(zone)) \subseteq Addr
  BY DEF AllocOK, PoolOK
<1>2. base \in Int /\ base > 0
  BY <1>1 DEF Addr
<1>3. head \in Int /\ base <= head /\ head + Stride(zone) <= base + ArenaLen(zone)
  BY <1>2, SlotInside
<1>4. ArenaLen(zone) \in Nat
  BY StrideFacts, RoundUpBounds, Positive DEF ArenaLen
<1>5. Stride(zone) \in Nat \ {0} /\ METASIZE < Stride(zone) /\ METASIZE \in Nat \ {0}
  BY StrideFacts, Positive
<1> HIDE DEF head, base
<1>6. \A i \in 0 .. (Stride(zone) - 1) : head + i \in Region(base, ArenaLen(zone))
  BY <1>2, <1>3, <1>4, <1>5 DEF Region
<1>7. head \in Region(base, ArenaLen(zone)) /\ head + METASIZE \in Region(base, ArenaLen(zone))
  BY <1>3, <1>5, <1>6
<1>8. head \div PAGE \in PagesOf(base, ArenaLen(zone))
  BY <1>7, PageOfRegion
<1>9. head + METASIZE # 0
  BY <1>2, <1>3, <1>5
<1> QED
  BY <1>1, <1>6, <1>7, <1>8, <1>9 DEF ArenaPages, base, head

\* The mapping of a live entry: its header, and every byte asked for.
LEMMA EntryPage ==
  ASSUME NEW s, AllocOK(s), NEW e \in LiveEntries(s)
  PROVE  /\ s.large[e] \in Addr \ {0}
         /\ s.meta[s.large[e]].size \in Nat \ {0} /\ METASIZE < s.meta[s.large[e]].size
         /\ s.large[e] \in Region(s.large[e], s.meta[s.large[e]].size)
         /\ s.large[e] \div PAGE \in EntryPages(s, e)
         /\ \A i \in 0 .. (s.meta[s.large[e]].size - 1) : s.large[e] + i \in Addr
<1> DEFINE base == s.large[e]
           len == s.meta[base].size
<1>1. e \in 0 .. LARGES /\ base \in Addr /\ base # 0 /\ e \in Entries
  BY Positive DEF AllocOK, StateType, LiveEntries
<1>2. base \in Nat /\ len \in Int
  <2>1. base \in Nat
    BY <1>1 DEF Addr
  <2>2. s.meta[base] \in Meta
    BY <1>1 DEF AllocOK, StateType
  <2> QED
    BY <2>1, <2>2 DEF Meta
<1>3. Region(base, len) \subseteq Addr /\ s.large_request_sizes[e] \in 1 .. (len - METASIZE)
  BY <1>1 DEF AllocOK, LargeOK, EntryOK
<1> HIDE DEF base, len
<1>4. len \in Nat \ {0} /\ METASIZE < len
  BY <1>2, <1>3, Positive
<1>5. \A i \in 0 .. (len - 1) : base + i \in Region(base, len)
  BY <1>2, <1>4 DEF Region
<1>6. base \in Region(base, len)
  BY <1>2, <1>4 DEF Region
<1>7. base \div PAGE \in PagesOf(base, len)
  BY <1>6, PageOfRegion
<1> QED
  BY <1>1, <1>3, <1>4, <1>5, <1>6, <1>7 DEF EntryPages, base, len

\* No header lies in the mapping of another entry or in the other pool.
LEMMA HeadsApart ==
  ASSUME NEW s, AllocOK(s)
  PROVE  /\ \A zone \in Zones, slot \in Slots, e \in LiveEntries(s) :
              s.zone_flag[zone] =>
                Header(s.arena[zone], zone, slot)
                  \notin Region(s.large[e], s.meta[s.large[e]].size)
         /\ \A e, f \in LiveEntries(s) :
              e # f => s.large[f] \notin Region(s.large[e], s.meta[s.large[e]].size)
         /\ \A y, z \in Zones, i, j \in Slots :
              s.zone_flag[y] /\ s.zone_flag[z] /\ y # z =>
                Header(s.arena[y], y, i) # Header(s.arena[z], z, j)
<1>1. PagesOK(s)
  BY DEF AllocOK
<1>2. ASSUME NEW zone \in Zones, NEW slot \in Slots, NEW e \in LiveEntries(s),
             s.zone_flag[zone],
             Header(s.arena[zone], zone, slot)
               \in Region(s.large[e], s.meta[s.large[e]].size)
      PROVE  FALSE
  <2> DEFINE p == Header(s.arena[zone], zone, slot) \div PAGE
  <2>1. p \in ArenaPages(s, zone)
    BY <1>2, SlotPage
  <2>2. p \in EntryPages(s, e)
    BY <1>2, PageOfRegion DEF EntryPages
  <2> QED
    BY <1>1, <2>1, <2>2, PagesOKByPage
<1>3. ASSUME NEW e \in LiveEntries(s), NEW f \in LiveEntries(s), e # f,
             s.large[f] \in Region(s.large[e], s.meta[s.large[e]].size)
      PROVE  FALSE
  <2> DEFINE p == s.large[f] \div PAGE
  <2>1. p \in EntryPages(s, f)
    BY EntryPage
  <2>2. p \in EntryPages(s, e)
    BY <1>3, PageOfRegion DEF EntryPages
  <2> QED
    BY <1>1, <1>3, <2>1, <2>2, PagesOKByPage
<1>4. ASSUME NEW y \in Zones, NEW z \in Zones, NEW i \in Slots, NEW j \in Slots,
             s.zone_flag[y], s.zone_flag[z], y # z,
             Header(s.arena[y], y, i) = Header(s.arena[z], z, j)
      PROVE  FALSE
  <2> DEFINE p == Header(s.arena[y], y, i) \div PAGE
             q == Header(s.arena[z], z, j) \div PAGE
  <2>1. p \in ArenaPages(s, y) /\ q \in ArenaPages(s, z)
    BY <1>4, SlotPage
  <2>2. p = q
    BY <1>4
  <2> HIDE DEF p, q
  <2> QED
    BY <1>1, <1>4, <2>1, <2>2, PagesOKByPage
<1> QED
  BY <1>2, <1>3, <1>4

\* No header lies in pages the kernel has just mapped.
LEMMA FreshApart ==
  ASSUME NEW s, AllocOK(s), NEW len \in Nat \ {0}, NEW base \in FreeRuns(s, len)
  PROVE  /\ \A zone \in Zones, slot \in Slots :
              s.zone_flag[zone] =>
                Header(s.arena[zone], zone, slot) \notin Region(base, len)
         /\ \A e \in LiveEntries(s) : s.large[e] \notin Region(base, len)
<1>1. PagesOK(s) /\ s \in StateType
  BY DEF AllocOK
<1>2. PagesOf(base, len) \cap s.pages = {}
  BY <1>1, FreshRun
<1>3. ASSUME NEW zone \in Zones, NEW slot \in Slots, s.zone_flag[zone],
             Header(s.arena[zone], zone, slot) \in Region(base, len)
      PROVE  FALSE
  <2> DEFINE p == Header(s.arena[zone], zone, slot) \div PAGE
  <2>1. p \in ArenaPages(s, zone)
    BY <1>3, SlotPage
  <2>2. p \in PagesOf(base, len)
    BY <1>3, PageOfRegion
  <2> QED
    BY <1>1, <1>2, <2>1, <2>2, PagesOKByPage
<1>4. ASSUME NEW e \in LiveEntries(s), s.large[e] \in Region(base, len)
      PROVE  FALSE
  <2> DEFINE p == s.large[e] \div PAGE
  <2>1. p \in EntryPages(s, e)
    BY EntryPage
  <2>2. p \in PagesOf(base, len)
    BY <1>4, PageOfRegion
  <2> QED
    BY <1>1, <1>2, <2>1, <2>2, PagesOKByPage
<1> QED
  BY <1>3, <1>4

-----------------------------------------------------------------------------
(***************************************************************************)
(* The arena of a pool.                                                    *)
(***************************************************************************)
LEMMA PageSize ==
  ASSUME NEW s, NEW size \in Nat, calculater_page_size(s, size) # -1
  PROVE  /\ size # 0
         /\ size \in {TINY, SMALL} => calculater_page_size(s, size) = RoundUp(size * SLOTS)
         /\ size \notin {TINY, SMALL} => calculater_page_size(s, size) = RoundUp(size)
  BY DEF calculater_page_size

LEMMA ArenaLenNat ==
  ASSUME NEW zone \in Zones
  PROVE  ArenaLen(zone) \in Nat \ {0}
<1>1. Stride(zone) * SLOTS \in Nat /\ Stride(zone) * SLOTS > 0
  BY StrideFacts, Positive
<1> HIDE DEF Zones
<1> QED
  BY <1>1, RoundUpBounds DEF ArenaLen

\* What a call may do to the blocks that are in use: nothing.
Extends(s, t) ==
  /\ \A zone \in Zones :
       /\ s.zone_flag[zone] => t.zone_flag[zone] /\ t.arena[zone] = s.arena[zone]
       /\ s.bitmap[zone] \subseteq t.bitmap[zone]
  /\ \A e \in LiveEntries(s) : t.large[e] = s.large[e]

OpenArena(s, zone, base) ==
  [InitPool(MapPages([s EXCEPT !.page_flag[zone] = TRUE, !.arena[zone] = base],
                     base, ArenaLen(zone)), zone)
     EXCEPT !.zone_flag[zone] = TRUE]

\* OpenArena, field by field.
ArenaOpened(s, t, zone, base) ==
  /\ t \in StateType
  /\ t.arena = [s.arena EXCEPT ![zone] = base]
  /\ t.zone_flag = [s.zone_flag EXCEPT ![zone] = TRUE]
  /\ t.bitmap = s.bitmap
  /\ t.large = s.large /\ t.large_cnt = s.large_cnt
  /\ t.large_request_sizes = s.large_request_sizes
  /\ t.large_flag = s.large_flag /\ t.mem = s.mem
  /\ t.pages = s.pages \cup PagesOf(base, ArenaLen(zone))
  /\ \A slot \in Slots : t.meta[Header(base, zone, slot)] = SlotMeta(zone, slot)
  /\ \A a \in Addr : (\A slot \in Slots : a # Header(base, zone, slot))
                       => t.meta[a] = s.meta[a]

LEMMA OpenArenaFields ==
  ASSUME NEW s \in StateType, NEW zone \in Zones, NEW base \in Addr,
         Region(base, ArenaLen(zone)) \subseteq Addr,
         PagesOf(base, ArenaLen(zone)) \subseteq 1 .. (PAGES - 1)
  PROVE  ArenaOpened(s, OpenArena(s, zone, base), zone, base)
<1> DEFINE r == MapPages([s EXCEPT !.page_flag[zone] = TRUE, !.arena[zone] = base],
                         base, ArenaLen(zone))
           H(a) == {slot \in Slots : a = Header(r.arena[zone], zone, slot)}
           M(a) == IF H(a) = {} THEN r.meta[a] ELSE SlotMeta(zone, CHOOSE slot \in H(a) : TRUE)
           t == OpenArena(s, zone, base)
<1>1. /\ r.arena = [s.arena EXCEPT ![zone] = base]
      /\ r.page_flag = [s.page_flag EXCEPT ![zone] = TRUE]
      /\ r.zone_flag = s.zone_flag /\ r.bitmap = s.bitmap
      /\ r.large = s.large /\ r.large_cnt = s.large_cnt
      /\ r.large_request_sizes = s.large_request_sizes
      /\ r.large_flag = s.large_flag
      /\ r.pages = s.pages \cup PagesOf(base, ArenaLen(zone))
      /\ r.meta = s.meta /\ r.mem = s.mem
      /\ r \in StateType
  BY DEF MapPages, StateType
<1>2. r.arena[zone] = base
  BY <1>1 DEF StateType
<1>3. t = [r EXCEPT !.meta = [a \in Addr |-> M(a)], !.zone_flag[zone] = TRUE]
  BY DEF OpenArena, InitPool
<1> HIDE DEF r
<1>4. ASSUME NEW slot \in Slots PROVE SlotMeta(zone, slot) \in Meta
  BY StrideFacts, Positive DEF SlotMeta, Meta
<1>5. ASSUME NEW a \in Addr PROVE M(a) \in Meta
  <2>1. r.meta[a] \in Meta
    BY <1>1 DEF StateType
  <2>2. H(a) # {} => (CHOOSE slot \in H(a) : TRUE) \in Slots
    OBVIOUS
  <2> QED
    BY <1>4, <2>1, <2>2
<1>6. [a \in Addr |-> M(a)] \in [Addr -> Meta]
  BY <1>5
<1> DEFINE N == [a \in Addr |-> M(a)]
<1>a. t = [r EXCEPT !.meta = N, !.zone_flag[zone] = TRUE] /\ N \in [Addr -> Meta]
  BY <1>3, <1>6
<1> HIDE DEF M, N, t
<1>7. /\ t \in StateType
      /\ t.arena = r.arena /\ t.zone_flag = [r.zone_flag EXCEPT ![zone] = TRUE]
      /\ t.bitmap = r.bitmap /\ t.large = r.large /\ t.large_cnt = r.large_cnt
      /\ t.large_request_sizes = r.large_request_sizes /\ t.large_flag = r.large_flag
      /\ t.pages = r.pages /\ t.meta = N /\ t.mem = r.mem
  BY <1>1, <1>a DEF StateType
<1>8. ASSUME NEW slot \in Slots
      PROVE  t.meta[Header(base, zone, slot)] = SlotMeta(zone, slot)
  <2> DEFINE head == Header(base, zone, slot)
  <2>1. base \in Int
    BY DEF Addr
  <2>2. H(head) = {slot}
    BY <1>2, <2>1, HeaderInjective
  <2>3. M(head) = SlotMeta(zone, slot)
    BY <2>2 DEF M
  <2>4. head \in Addr
    <3>1. head \in Int /\ base <= head /\ head + Stride(zone) <= base + ArenaLen(zone)
      BY <2>1, SlotInside
    <3>2. Stride(zone) \in Nat \ {0} /\ ArenaLen(zone) \in Nat
      BY StrideFacts, ArenaLenNat
    <3> HIDE DEF head
    <3>3. head \in Region(base, ArenaLen(zone))
      BY <2>1, <3>1, <3>2 DEF Region
    <3> QED
      BY <3>3
  <2> QED
    BY <1>7, <2>3, <2>4 DEF N
<1>9. ASSUME NEW a \in Addr, \A slot \in Slots : a # Header(base, zone, slot)
      PROVE  t.meta[a] = s.meta[a]
  BY <1>1, <1>2, <1>7, <1>9 DEF M, N
<1> QED
  BY <1>1, <1>7, <1>8, <1>9 DEF ArenaOpened, t

\* A pool none of whose variables and headers changed is as it was.
LEMMA PoolFrame ==
  ASSUME NEW s, NEW t, NEW zone \in Zones, PoolOK(s, zone),
         t.zone_flag[zone] = s.zone_flag[zone], t.arena[zone] = s.arena[zone],
         t.bitmap[zone] = s.bitmap[zone],
         s.zone_flag[zone] =>
           \A slot \in Slots : t.meta[Header(s.arena[zone], zone, slot)]
                                 = s.meta[Header(s.arena[zone], zone, slot)]
  PROVE  PoolOK(t, zone) /\ ArenaPages(t, zone) = ArenaPages(s, zone)
  BY DEF PoolOK, SlotOK, ArenaPages

\* So is the LARGE table as long as the headers keep length and position.
LEMMA LargeFrame ==
  ASSUME NEW s, NEW t, LargeOK(s),
         t.large = s.large, t.large_cnt = s.large_cnt, t.large_flag = s.large_flag,
         t.large_request_sizes = s.large_request_sizes,
         \A e \in LiveEntries(s) :
           /\ t.meta[s.large[e]].size = s.meta[s.large[e]].size
           /\ t.meta[s.large[e]].position = s.meta[s.large[e]].position
           /\ t.meta[s.large[e]].client_size = s.meta[s.large[e]].client_size
  PROVE  /\ LargeOK(t) /\ LiveEntries(t) = LiveEntries(s)
         /\ \A e \in LiveEntries(s) : EntryPages(t, e) = EntryPages(s, e)
<1>1. LiveEntries(t) = LiveEntries(s)
  BY DEF LiveEntries
<1>2. \A e \in LiveEntries(s) : EntryOK(s, e) => EntryOK(t, e)
  BY DEF EntryOK
<1>3. \A e \in LiveEntries(s) : EntryPages(t, e) = EntryPages(s, e)
  BY DEF EntryPages
<1> QED
  BY <1>1, <1>2, <1>3 DEF LargeOK

\* Pages change hands only with the arenas and entries they belong to.
LEMMA PagesFrame ==
  ASSUME NEW s, NEW t, PagesOK(s), t.pages = s.pages,
         \A zone \in Zones : ArenaPages(t, zone) = ArenaPages(s, zone),
         LiveEntries(t) = LiveEntries(s),
         \A e \in LiveEntries(s) : EntryPages(t, e) = EntryPages(s, e)
  PROVE  PagesOK(t)
<1>1. /\ \A p : p \in s.pages <=> \/ \E zone \in Zones : p \in ArenaPages(s, zone)
                                  \/ \E e \in LiveEntries(s) : p \in EntryPages(s, e)
      /\ \A p : ~(p \in ArenaPages(s, "tiny") /\ p \in ArenaPages(s, "small"))
      /\ \A zone \in Zones, e \in LiveEntries(s) : \A p :
           ~(p \in ArenaPages(s, zone) /\ p \in EntryPages(s, e))
      /\ \A e, f \in LiveEntries(s) : \A p :
           e # f => ~(p \in EntryPages(s, e) /\ p \in EntryPages(s, f))
  BY PagesOKByPage
<1>2. /\ \A p : p \in t.pages <=> \/ \E zone \in Zones : p \in ArenaPages(t, zone)
                                  \/ \E e \in LiveEntries(t) : p \in EntryPages(t, e)
      /\ \A p : ~(p \in ArenaPages(t, "tiny") /\ p \in ArenaPages(t, "small"))
      /\ \A zone \in Zones, e \in LiveEntries(t) : \A p :
           ~(p \in ArenaPages(t, zone) /\ p \in EntryPages(t, e))
      /\ \A e, f \in LiveEntries(t) : \A p :
           e # f => ~(p \in EntryPages(t, e) /\ p \in EntryPages(t, f))
  BY <1>1
<1> QED
  BY <1>2, PagesOKByPage

LEMMA OpenArenaOK ==
  ASSUME NEW s, AllocOK(s), NEW zone \in Zones, ~s.zone_flag[zone],
         NEW base \in FreeRuns(s, ArenaLen(zone))
  PROVE  AllocOK(OpenArena(s, zone, base)) /\ Extends(s, OpenArena(s, zone, base))
<1> DEFINE t == OpenArena(s, zone, base)
           len == ArenaLen(zone)
<1>1. s \in StateType /\ len \in Nat \ {0}
  BY ArenaLenNat DEF AllocOK
<1>2. /\ base \in Addr \ {0} /\ Region(base, len) \subseteq Addr
      /\ PagesOf(base, len) \subseteq 1 .. (PAGES - 1)
      /\ PagesOf(base, len) \cap s.pages = {}
  BY <1>1, FreshRun
<1>3. ArenaOpened(s, t, zone, base)
  <2>1. base \in Addr
    BY <1>2
  <2> QED
    BY <1>1, <1>2, <2>1, OpenArenaFields
<1> HIDE DEF t
<1> USE DEF ArenaOpened
<1>4. \A slot \in Slots : Header(base, zone, slot) \in Region(base, len)
  <2> TAKE slot \in Slots
  <2> DEFINE head == Header(base, zone, slot)
  <2>1. base \in Int
    BY <1>2 DEF Addr
  <2>2. head \in Int /\ base <= head /\ head + Stride(zone) <= base + len
    BY <2>1, SlotInside
  <2>3. Stride(zone) \in Nat \ {0}
    BY StrideFacts
  <2> HIDE DEF head, len
  <2>4. head \in Region(base, len)
    BY <1>1, <2>1, <2>2, <2>3 DEF Region
  <2> QED
    BY <2>4 DEF head
<1>5. t.arena[zone] = base /\ t.zone_flag[zone] = TRUE /\ s.bitmap[zone] = {}
  BY <1>1, <1>3 DEF StateType, AllocOK, PoolOK
<1>6. ASSUME NEW z \in Zones, z # zone
      PROVE  /\ t.arena[z] = s.arena[z] /\ t.zone_flag[z] = s.zone_flag[z]
             /\ PoolOK(t, z) /\ ArenaPages(t, z) = ArenaPages(s, z)
  <2>1. t.arena[z] = s.arena[z] /\ t.zone_flag[z] = s.zone_flag[z] /\ t.bitmap[z] = s.bitmap[z]
    BY <1>1, <1>3, <1>6 DEF StateType
  <2>2. ASSUME s.zone_flag[z], NEW slot \in Slots
        PROVE  t.meta[Header(s.arena[z], z, slot)] = s.meta[Header(s.arena[z], z, slot)]
    <3>1. Header(s.arena[z], z, slot) \in Addr
      BY <2>2, SlotPage
    <3>2. Header(s.arena[z], z, slot) \notin Region(base, len)
      BY <1>1, <2>2, FreshApart
    <3> QED
      BY <1>3, <1>4, <3>1, <3>2
  <2> QED
    BY <2>1, <2>2, PoolFrame DEF AllocOK
<1>7. PoolOK(t, zone) /\ ArenaPages(t, zone) = PagesOf(base, len)
  <2>1. \A slot \in Slots : SlotOK(t, zone, slot)
    <3> TAKE slot \in Slots
    <3>1. t.meta[Header(t.arena[zone], zone, slot)] = SlotMeta(zone, slot)
      BY <1>3, <1>5
    <3>2. slot \notin t.bitmap[zone]
      BY <1>3, <1>5
    <3> QED
      BY <3>1, <3>2 DEF SlotOK, SlotMeta
  <2> QED
    BY <1>2, <1>5, <2>1 DEF PoolOK, ArenaPages
<1>8. \A e \in LiveEntries(s) : t.meta[s.large[e]] = s.meta[s.large[e]]
  <2> TAKE e \in LiveEntries(s)
  <2>1. s.large[e] \in Addr /\ s.large[e] \notin Region(base, len)
    BY <1>1, EntryPage, FreshApart
  <2> QED
    BY <1>3, <1>4, <2>1
<1>9. /\ LargeOK(t) /\ LiveEntries(t) = LiveEntries(s)
      /\ \A e \in LiveEntries(s) : EntryPages(t, e) = EntryPages(s, e)
  BY <1>3, <1>8, LargeFrame DEF AllocOK
<1>10. PagesOK(t)
  <2>1. /\ \A p : p \in s.pages <=> \/ \E z \in Zones : p \in ArenaPages(s, z)
                                    \/ \E e \in LiveEntries(s) : p \in EntryPages(s, e)
        /\ \A p : ~(p \in ArenaPages(s, "tiny") /\ p \in ArenaPages(s, "small"))
        /\ \A z \in Zones, e \in LiveEntries(s) : \A p :
             ~(p \in ArenaPages(s, z) /\ p \in EntryPages(s, e))
        /\ \A e, f \in LiveEntries(s) : \A p :
             e # f => ~(p \in EntryPages(s, e) /\ p \in EntryPages(s, f))
    BY PagesOKByPage DEF AllocOK
  <2>2. ArenaPages(s, zone) = {}
    BY DEF ArenaPages
  <2>3. \A p : p \in t.pages <=> \/ \E z \in Zones : p \in ArenaPages(t, z)
                                 \/ \E e \in LiveEntries(t) : p \in EntryPages(t, e)
    BY <1>3, <1>6, <1>7, <1>9, <2>1, <2>2
  <2>4. \A p : ~(p \in ArenaPages(t, "tiny") /\ p \in ArenaPages(t, "small"))
    BY <1>2, <1>6, <1>7, <2>1
  <2>5. \A z \in Zones, e \in LiveEntries(t) : \A p :
          ~(p \in ArenaPages(t, z) /\ p \in EntryPages(t, e))
    BY <1>2, <1>6, <1>7, <1>9, <2>1
  <2>6. \A e, f \in LiveEntries(t) : \A p :
          e # f => ~(p \in EntryPages(t, e) /\ p \in EntryPages(t, f))
    BY <1>9, <2>1
  <2> QED
    BY <2>3, <2>4, <2>5, <2>6, PagesOKByPage
<1>11. Extends(s, t)
  BY <1>3, <1>6 DEF Extends
<1> QED
  BY <1>3, <1>6, <1>7, <1>9, <1>10, <1>11 DEF AllocOK, t

LEMMA ArenaIsOpened ==
  ASSUME NEW s, AllocOK(s), NEW zone \in Zones, NEW base \in FreeRuns(s, ArenaLen(zone))
  PROVE  ArenaOpened(s, OpenArena(s, zone, base), zone, base) /\ base \in Addr /\ s \in StateType
<1>1. s \in StateType /\ ArenaLen(zone) \in Nat \ {0}
  BY ArenaLenNat DEF AllocOK
<1>2. /\ base \in Addr /\ Region(base, ArenaLen(zone)) \subseteq Addr
      /\ PagesOf(base, ArenaLen(zone)) \subseteq 1 .. (PAGES - 1)
  BY <1>1, FreshRun
<1> QED
  BY <1>1, <1>2, OpenArenaFields

LEMMA ExtendsItself ==
  ASSUME NEW s
  PROVE  Extends(s, s)
  BY DEF Extends

\* After a refused mmap.
LEMMA RefusedArenaOK ==
  ASSUME NEW s, AllocOK(s), NEW zone \in Zones, ~s.zone_flag[zone]
  PROVE  LET t == [s EXCEPT !.page_flag[zone] = TRUE, !.arena[zone] = MAP_FAILED]
         IN  AllocOK(t) /\ Extends(s, t)
<1> DEFINE t == [s EXCEPT !.page_flag[zone] = TRUE, !.arena[zone] = MAP_FAILED]
<1>1. s \in StateType
  BY DEF AllocOK
<1>2. /\ t \in StateType
      /\ t.arena = [s.arena EXCEPT ![zone] = MAP_FAILED]
      /\ t.zone_flag = s.zone_flag /\ t.bitmap = s.bitmap
      /\ t.large = s.large /\ t.large_cnt = s.large_cnt
      /\ t.large_request_sizes = s.large_request_sizes
      /\ t.large_flag = s.large_flag /\ t.pages = s.pages /\ t.meta = s.meta
  BY <1>1 DEF StateType
<1> HIDE DEF t
<1>3. t.arena[zone] = MAP_FAILED /\ \A z \in Zones : z # zone => t.arena[z] = s.arena[z]
  BY <1>1, <1>2 DEF StateType
<1>4. ASSUME NEW z \in Zones
      PROVE  PoolOK(t, z) /\ ArenaPages(t, z) = ArenaPages(s, z)
  <2>1. CASE z = zone
    BY <1>2, <1>3, <2>1 DEF PoolOK, AllocOK, ArenaPages
  <2>2. CASE z # zone
    <3>1. PoolOK(s, z)
      BY DEF AllocOK
    <3>2. /\ t.zone_flag[z] = s.zone_flag[z] /\ t.arena[z] = s.arena[z]
          /\ t.bitmap[z] = s.bitmap[z]
      BY <1>2, <1>3, <2>2
    <3>3. \A slot \in Slots : t.meta[Header(s.arena[z], z, slot)]
                                = s.meta[Header(s.arena[z], z, slot)]
      BY <1>2
    <3> QED
      BY <3>1, <3>2, <3>3, PoolFrame
  <2> QED
    BY <2>1, <2>2
<1>5. /\ LargeOK(t) /\ LiveEntries(t) = LiveEntries(s)
      /\ \A e \in LiveEntries(s) : EntryPages(t, e) = EntryPages(s, e)
  BY <1>2, LargeFrame DEF AllocOK
<1>6. PagesOK(t)
  BY <1>2, <1>4, <1>5, PagesFrame DEF AllocOK
<1>7. Extends(s, t)
  BY <1>2, <1>3 DEF Extends
<1> QED
  BY <1>2, <1>4, <1>5, <1>6, <1>7 DEF AllocOK, t

\* A pool is open, was given up, is refused its mapping now, or opens now.
LEMMA EnsureArenaCases ==
  ASSUME NEW s, NEW zone \in Zones, NEW o \in EnsureArena(s, zone)
  PROVE  \/ s.zone_flag[zone] /\ o = Return(s, s.arena[zone])
         \/ /\ ~s.zone_flag[zone] /\ calculater_page_size(s, Stride(zone)) = -1
            /\ o = Return(s, NULL)
         \/ /\ ~s.zone_flag[zone]
            /\ o = Refused([s EXCEPT !.page_flag[zone] = TRUE, !.arena[zone] = MAP_FAILED])
         \/ /\ ~s.zone_flag[zone]
            /\ \E base \in FreeRuns(s, ArenaLen(zone)) : o = Return(OpenArena(s, zone, base), base)
<1> DEFINE len == calculater_page_size(s, Stride(zone))
           Placed(base) == [s EXCEPT !.page_flag[zone] = TRUE, !.arena[zone] = base]
           Open(base) == InitPool(MapPages(Placed(base), base, len), zone)
<1>1. CASE s.zone_flag[zone] \/ len = -1
  BY <1>1 DEF EnsureArena
<1>2. CASE ~s.zone_flag[zone] /\ len # -1
  <2>1. len = ArenaLen(zone)
    BY <1>2, PageSize, StrideFacts DEF ArenaLen, Stride
  <2>2. o \in {Refused(Placed(MAP_FAILED))}
                \cup {Return([Open(base) EXCEPT !.zone_flag[zone] = TRUE], base) :
                        base \in FreeRuns(s, len)}
    BY <1>2 DEF EnsureArena
  <2>3. \A base : [Open(base) EXCEPT !.zone_flag[zone] = TRUE] = OpenArena(s, zone, base)
    BY <2>1 DEF OpenArena
  <2> HIDE DEF Open, len
  <2> QED
    BY <1>2, <2>1, <2>2, <2>3
<1> QED
  BY <1>1, <1>2

LEMMA EnsureArenaOK ==
  ASSUME NEW s, AllocOK(s), NEW zone \in Zones, NEW o \in EnsureArena(s, zone)
  PROVE  /\ AllocOK(o.st) /\ Extends(s, o.st)
         /\ o.ret \in Addr
         /\ o.ret # NULL => o.st.zone_flag[zone] /\ o.st.arena[zone] = o.ret
<1>0. 0 \in Addr
  BY Positive DEF Addr
<1>1. CASE o = Return(s, NULL)
  BY <1>0, <1>1, ExtendsItself DEF Return
<1>2. CASE s.zone_flag[zone] /\ o = Return(s, s.arena[zone])
  <2>1. s.arena[zone] \in Addr
    BY <1>2 DEF AllocOK, PoolOK
  <2> QED
    BY <1>2, <2>1, ExtendsItself DEF Return
<1>3. CASE /\ ~s.zone_flag[zone]
           /\ o = Refused([s EXCEPT !.page_flag[zone] = TRUE, !.arena[zone] = MAP_FAILED])
  BY <1>0, <1>3, RefusedArenaOK DEF Refused, Return
<1>4. ASSUME ~s.zone_flag[zone], NEW base \in FreeRuns(s, ArenaLen(zone)),
             o = Return(OpenArena(s, zone, base), base)
      PROVE  /\ AllocOK(o.st) /\ Extends(s, o.st)
             /\ o.ret \in Addr
             /\ o.ret # NULL => o.st.zone_flag[zone] /\ o.st.arena[zone] = o.ret
  <2>1. o.st = OpenArena(s, zone, base) /\ o.ret = base
    BY <1>4 DEF Return
  <2>2. AllocOK(o.st) /\ Extends(s, o.st)
    BY <1>4, <2>1, OpenArenaOK
  <2>3. ArenaOpened(s, o.st, zone, base) /\ base \in Addr /\ s \in StateType
    BY <1>4, <2>1, ArenaIsOpened
  <2>4. o.st.zone_flag[zone] /\ o.st.arena[zone] = base
    BY <2>3 DEF ArenaOpened, StateType
  <2> QED
    BY <2>1, <2>2, <2>3, <2>4
<1> QED
  BY <1>1, <1>2, <1>3, <1>4, EnsureArenaCases

-----------------------------------------------------------------------------
(***************************************************************************)
(* A slot is taken, or its length is brought up to date.                   *)
(***************************************************************************)
LEMMA ToIntSmall ==
  ASSUME NEW n \in 0 .. INT_MAX
  PROVE  ToInt(n) = n
<1> DEFINE m == 2 * (INT_MAX + 1)
<1>1. m \in Nat \ {0} /\ n \in 0 .. (m - 1) /\ n \in Int
  BY Positive
<1> HIDE DEF m
<1>2. (m * 0 + n) % m = n
  BY <1>1, DivUnique
<1>3. n % m = n
  BY <1>1, <1>2
<1> QED
  BY <1>1, <1>3, Positive DEF ToInt, m

LEMMA ToIntInt ==
  ASSUME NEW n \in Nat
  PROVE  ToInt(n) \in Int
<1> DEFINE m == 2 * (INT_MAX + 1)
<1>1. m \in Nat \ {0} /\ n \in Int
  BY Positive
<1> HIDE DEF m
<1>2. n % m \in 0 .. (m - 1)
  BY <1>1, DivMod
<1> QED
  BY <1>1, <1>2, Positive DEF ToInt, m

\* Stamp, field by field.
Stamped(s, t, head, n) ==
  /\ t \in StateType
  /\ t.arena = s.arena /\ t.zone_flag = s.zone_flag /\ t.bitmap = s.bitmap
  /\ t.large = s.large /\ t.large_cnt = s.large_cnt
  /\ t.large_request_sizes = s.large_request_sizes
  /\ t.large_flag = s.large_flag /\ t.pages = s.pages /\ t.mem = s.mem
  /\ t.meta[head].client_size = ToInt(n)
  /\ \A a \in Addr : /\ t.meta[a].size = s.meta[a].size
                     /\ t.meta[a].position = s.meta[a].position
                     /\ a # head => t.meta[a] = s.meta[a]

LEMMA StampFields ==
  ASSUME NEW s \in StateType, NEW head \in Addr, NEW n \in Nat
  PROVE  Stamped(s, Stamp(s, head, n), head, n)
<1> DEFINE t == Stamp(s, head, n)
           N == [s.meta EXCEPT ![head].client_size = ToInt(n)]
<1>1. s.meta \in [Addr -> Meta] /\ ToInt(n) \in Int
  BY ToIntInt DEF StateType
<1>2. /\ N \in [Addr -> Meta]
      /\ N[head].client_size = ToInt(n)
      /\ \A a \in Addr : /\ N[a].size = s.meta[a].size
                         /\ N[a].position = s.meta[a].position
                         /\ a # head => N[a] = s.meta[a]
  BY <1>1 DEF Meta
<1>3. t = [s EXCEPT !.meta = N]
  BY DEF Stamp
<1> HIDE DEF N, t
<1>4. /\ t \in StateType
      /\ t.arena = s.arena /\ t.zone_flag = s.zone_flag /\ t.bitmap = s.bitmap
      /\ t.large = s.large /\ t.large_cnt = s.large_cnt
      /\ t.large_request_sizes = s.large_request_sizes
      /\ t.large_flag = s.large_flag /\ t.pages = s.pages /\ t.meta = N
      /\ t.mem = s.mem
  BY <1>2, <1>3 DEF StateType
<1> QED
  BY <1>2, <1>4 DEF Stamped, t

\* A slot that gets a length it can hold may be in use.
UsedSlot(s, t, zone, slot, n) ==
  \E r : /\ Stamped(s, r, Header(s.arena[zone], zone, slot), n)
         /\ t = [r EXCEPT !.bitmap[zone] = @ \cup {slot}]

LEMMA UsedSlotOK ==
  ASSUME NEW s, AllocOK(s), NEW zone \in Zones, s.zone_flag[zone],
         NEW slot \in Slots, NEW n \in 1 .. (Stride(zone) - METASIZE),
         NEW t, UsedSlot(s, t, zone, slot, n)
  PROVE  AllocOK(t) /\ Extends(s, t)
<1> DEFINE head == Header(s.arena[zone], zone, slot)
<1>1. PICK r : Stamped(s, r, head, n) /\ t = [r EXCEPT !.bitmap[zone] = @ \cup {slot}]
  BY DEF UsedSlot
<1>2. head \in Addr
  BY SlotPage
<1> HIDE DEF head
<1>3. /\ t \in StateType
      /\ t.arena = s.arena /\ t.zone_flag = s.zone_flag
      /\ t.bitmap = [s.bitmap EXCEPT ![zone] = @ \cup {slot}]
      /\ t.large = s.large /\ t.large_cnt = s.large_cnt
      /\ t.large_request_sizes = s.large_request_sizes
      /\ t.large_flag = s.large_flag /\ t.pages = s.pages /\ t.meta = r.meta
  BY <1>1 DEF Stamped, StateType
<1>4. n \in 0 .. INT_MAX
  BY StrideFacts, Positive
<1>5. t.meta[head].client_size = n
  BY <1>1, <1>3, <1>4, ToIntSmall DEF Stamped
<1>6. \A a \in Addr : /\ t.meta[a].size = s.meta[a].size
                      /\ t.meta[a].position = s.meta[a].position
                      /\ a # head => t.meta[a] = s.meta[a]
  BY <1>1, <1>3 DEF Stamped
<1>7. s \in StateType /\ \A z \in Zones : PoolOK(s, z)
  BY DEF AllocOK
<1>8. ASSUME NEW z \in Zones, z # zone
      PROVE  PoolOK(t, z) /\ ArenaPages(t, z) = ArenaPages(s, z)
  <2>1. t.zone_flag[z] = s.zone_flag[z] /\ t.arena[z] = s.arena[z] /\ t.bitmap[z] = s.bitmap[z]
    BY <1>3, <1>7, <1>8 DEF StateType
  <2>2. ASSUME s.zone_flag[z], NEW i \in Slots
        PROVE  t.meta[Header(s.arena[z], z, i)] = s.meta[Header(s.arena[z], z, i)]
    <3>1. Header(s.arena[z], z, i) \in Addr
      BY <2>2, SlotPage
    <3>2. Header(s.arena[z], z, i) # head
      BY <1>8, <2>2, HeadsApart DEF head
    <3> QED
      BY <1>6, <3>1, <3>2
  <2> QED
    BY <1>7, <2>1, <2>2, PoolFrame
<1>9. PoolOK(t, zone) /\ ArenaPages(t, zone) = ArenaPages(s, zone)
  <2>1. ASSUME NEW i \in Slots PROVE SlotOK(t, zone, i)
    <3> DEFINE h == Header(s.arena[zone], zone, i)
    <3>1. h \in Addr /\ SlotOK(s, zone, i)
      BY <1>7, SlotPage DEF PoolOK
    <3>2. CASE i = slot
      BY <1>3, <1>5, <1>6, <3>1, <3>2 DEF SlotOK, head
    <3>3. CASE i # slot
      <4>1. s.arena[zone] \in Int
        BY <1>7 DEF PoolOK, Addr
      <4>2. h # head
        BY <3>3, <4>1, HeaderInjective DEF head
      <4>3. t.meta[h] = s.meta[h]
        BY <1>6, <3>1, <4>2
      <4>4. i \in t.bitmap[zone] => i \in s.bitmap[zone]
        BY <1>3, <1>7, <3>3 DEF StateType
      <4> QED
        BY <1>3, <3>1, <4>3, <4>4 DEF SlotOK
    <3> QED
      BY <3>2, <3>3
  <2> QED
    BY <1>3, <1>7, <2>1 DEF PoolOK, ArenaPages
<1>10. /\ LargeOK(t) /\ LiveEntries(t) = LiveEntries(s)
       /\ \A e \in LiveEntries(s) : EntryPages(t, e) = EntryPages(s, e)
  <2>1. ASSUME NEW e \in LiveEntries(s)
        PROVE  t.meta[s.large[e]] = s.meta[s.large[e]]
    <3>1. s.large[e] \in Addr /\ s.large[e] # head
      BY EntryPage, HeadsApart DEF head
    <3> QED
      BY <1>6, <3>1
  <2> QED
    BY <1>3, <2>1, LargeFrame DEF AllocOK
<1>11. PagesOK(t)
  BY <1>3, <1>8, <1>9, <1>10, PagesFrame DEF AllocOK
<1>12. Extends(s, t)
  BY <1>3, <1>7 DEF Extends, StateType
<1> QED
  BY <1>3, <1>8, <1>9, <1>10, <1>11, <1>12 DEF AllocOK

\* Either the pool is full, or a free slot gets a length and its bit.
LEMMA TakeSlotCases ==
  ASSUME NEW s, AllocOK(s), NEW zone \in Zones, s.zone_flag[zone],
         NEW n \in 1 .. (Stride(zone) - METASIZE)
  PROVE  LET o == TakeSlot(s, zone, n)
         IN  \/ s.bitmap[zone] = Slots /\ o = Return(s, NULL)
             \/ \E slot \in Slots \ s.bitmap[zone] :
                  /\ UsedSlot(s, o.st, zone, slot, n)
                  /\ o = Return(o.st, Header(s.arena[zone], zone, slot) + METASIZE)
<1> DEFINE o == TakeSlot(s, zone, n)
           free == FreeSlots(s, zone)
           slot == Min(free)
           head == Header(s.arena[zone], zone, slot)
           r == Stamp(s, head, n)
<1>1. CASE find_free_zone(s, zone) = NO_ZONE
  <2>1. o = Return(s, NULL)
    BY <1>1 DEF TakeSlot
  <2>2. free = {}
    <3>1. ASSUME free # {} PROVE FALSE
      <4>1. free \in SUBSET Nat /\ free \subseteq Slots
        BY Positive DEF FreeSlots
      <4> HIDE DEF free
      <4>2. slot \in Slots
        BY <3>1, <4>1, MinIsLeast
      <4> USE DEF free
      <4>3. Encode(slot) = NO_ZONE
        BY <1>1, <3>1 DEF find_free_zone
      <4> HIDE DEF slot, free
      <4> QED
        BY <4>2, <4>3, ZoneBytes
    <3> QED
      BY <3>1
  <2>3. s.bitmap[zone] \subseteq Slots
    BY DEF AllocOK, StateType
  <2> QED
    BY <2>1, <2>2, <2>3 DEF FreeSlots
<1>2. CASE find_free_zone(s, zone) # NO_ZONE
  <2>1. free # {} /\ find_free_zone(s, zone) = Encode(slot)
    BY <1>2 DEF find_free_zone
  <2>2. free \in SUBSET Nat /\ free \subseteq Slots
    BY Positive DEF FreeSlots
  <2>3. slot \in Slots \ s.bitmap[zone]
    <3>1. slot \in free
      <4> HIDE DEF free
      <4> QED
        BY <2>1, <2>2, MinIsLeast
    <3> QED
      BY <3>1 DEF FreeSlots
  <2>4. Decode(find_free_zone(s, zone)) = slot
    BY <2>1, <2>3, ZoneRoundTrip
  <2>5. o = Return(Stamp(MarkSlot(s, zone), head, n), head + METASIZE)
    BY <1>2, <2>4 DEF TakeSlot
  <2>6. head \in Addr /\ head + METASIZE \in Addr
    BY <2>3, SlotPage
  <2> HIDE DEF free, slot, head
  <2>7. s \in StateType /\ n \in Nat
    BY StrideFacts, Positive DEF AllocOK
  <2>8. Stamped(s, r, head, n)
    BY <2>6, <2>7, StampFields
  <2>9. Stamp(MarkSlot(s, zone), head, n) = [r EXCEPT !.bitmap[zone] = @ \cup {slot}]
    <3> DEFINE N == [s.meta EXCEPT ![head].client_size = ToInt(n)]
               B == [s.bitmap EXCEPT ![zone] = @ \cup {slot}]
    <3>1. MarkSlot(s, zone) = [s EXCEPT !.bitmap = B]
      BY DEF MarkSlot, free, slot
    <3>2. [s EXCEPT !.bitmap = B].meta = s.meta
      BY <2>7 DEF StateType
    <3>3. Stamp(MarkSlot(s, zone), head, n) = [[s EXCEPT !.bitmap = B] EXCEPT !.meta = N]
      BY <3>1, <3>2 DEF Stamp
    <3>4. r = [s EXCEPT !.meta = N]
      BY DEF Stamp
    <3>5. r.bitmap = s.bitmap
      BY <2>7, <3>4 DEF StateType
    <3> HIDE DEF N, r
    <3>6. [r EXCEPT !.bitmap[zone] = @ \cup {slot}] = [r EXCEPT !.bitmap = B]
      BY <3>5
    <3> HIDE DEF B
    <3>7. [[s EXCEPT !.bitmap = B] EXCEPT !.meta = N] = [[s EXCEPT !.meta = N] EXCEPT !.bitmap = B]
      BY <2>7 DEF StateType
    <3> QED
      BY <3>3, <3>4, <3>6, <3>7
  <2>10. UsedSlot(s, o.st, zone, slot, n)
    <3>1. o.st = [r EXCEPT !.bitmap[zone] = @ \cup {slot}]
      BY <2>5, <2>9 DEF Return
    <3>2. Stamped(s, r, Header(s.arena[zone], zone, slot), n)
      BY <2>8 DEF head
    <3> HIDE DEF o, r
    <3> QED
      BY <3>1, <3>2 DEF UsedSlot
  <2>11. o = Return(o.st, head + METASIZE)
    BY <2>5 DEF Return
  <2> HIDE DEF o
  <2>12. \E i \in Slots \ s.bitmap[zone] :
           /\ UsedSlot(s, o.st, zone, i, n)
           /\ o = Return(o.st, Header(s.arena[zone], zone, i) + METASIZE)
    BY <2>3, <2>10, <2>11 DEF head
  <2> QED
    BY <2>12 DEF o
<1> QED
  BY <1>1, <1>2

LEMMA TakeSlotOK ==
  ASSUME NEW s, AllocOK(s), NEW zone \in Zones, s.zone_flag[zone],
         NEW n \in 1 .. (Stride(zone) - METASIZE)
  PROVE  LET o == TakeSlot(s, zone, n)
         IN  AllocOK(o.st) /\ Extends(s, o.st) /\ o.ret \in Addr
<1> DEFINE o == TakeSlot(s, zone, n)
<1>1. CASE o = Return(s, NULL)
  <2>1. 0 \in Addr
    BY Positive DEF Addr
  <2> QED
    BY <1>1, <2>1, ExtendsItself DEF Return
<1>2. ASSUME NEW slot \in Slots, UsedSlot(s, o.st, zone, slot, n),
             o = Return(o.st, Header(s.arena[zone], zone, slot) + METASIZE)
      PROVE  AllocOK(o.st) /\ Extends(s, o.st) /\ o.ret \in Addr
  <2>1. AllocOK(o.st) /\ Extends(s, o.st)
    BY <1>2, UsedSlotOK
  <2>2. Header(s.arena[zone], zone, slot) + METASIZE \in Addr
    BY SlotPage
  <2> QED
    BY <1>2, <2>1, <2>2 DEF Return
<1> QED
  BY <1>1, <1>2, TakeSlotCases

LEMMA ExtendsTransitive ==
  ASSUME NEW s, NEW t, NEW u, Extends(s, t), Extends(t, u)
  PROVE  Extends(s, u)
<1>1. \A e \in LiveEntries(s) : e \in LiveEntries(t)
  BY DEF Extends, LiveEntries
<1> QED
  BY <1>1 DEF Extends

LEMMA MallocPoolOK ==
  ASSUME NEW s, AllocOK(s), NEW zone \in Zones,
         NEW n \in 1 .. (Stride(zone) - METASIZE), NEW o \in MallocPool(s, zone, n)
  PROVE  AllocOK(o.st) /\ Extends(s, o.st) /\ o.ret \in Addr
<1>1. PICK e \in EnsureArena(s, zone) : o = IF e.ret = NULL THEN e ELSE TakeSlot(e.st, zone, n)
  BY DEF MallocPool
<1>2. /\ AllocOK(e.st) /\ Extends(s, e.st) /\ e.ret \in Addr
      /\ e.ret # NULL => e.st.zone_flag[zone]
  BY EnsureArenaOK
<1>3. CASE e.ret = NULL
  BY <1>1, <1>2, <1>3
<1>4. CASE e.ret # NULL
  <2>1. o = TakeSlot(e.st, zone, n)
    BY <1>1, <1>4
  <2>2. AllocOK(o.st) /\ Extends(e.st, o.st) /\ o.ret \in Addr
    BY <1>2, <1>4, <2>1, TakeSlotOK
  <2> QED
    BY <1>2, <2>2, ExtendsTransitive
<1> QED
  BY <1>3, <1>4

-----------------------------------------------------------------------------
(***************************************************************************)
(* A LARGE mapping is made and recorded.                                   *)
(***************************************************************************)
LEMMA LiveEntriesFinite ==
  ASSUME NEW s
  PROVE  /\ LiveEntries(s) \subseteq Entries /\ IsFiniteSet(LiveEntries(s))
         /\ IsFiniteSet(Entries) /\ Cardinality(Entries) = LARGES
         /\ Cardinality(LiveEntries(s)) \in Nat
<1>1. 0 \in Int /\ LARGES - 1 \in Int /\ 0 <= LARGES - 1
  BY Positive
<1>2. IsFiniteSet(Entries) /\ Cardinality(Entries) = LARGES
  BY <1>1, FS_Interval, Positive
<1>3. LiveEntries(s) \subseteq Entries
  BY DEF LiveEntries
<1> HIDE DEF Entries
<1>4. IsFiniteSet(LiveEntries(s))
  BY <1>2, <1>3, FS_Subset
<1> QED
  BY <1>2, <1>3, <1>4, FS_CardinalityType

\* While large_cnt is below LARGES, the scan of large[] finds an entry.
LEMMA FreeEntryFound ==
  ASSUME NEW s, AllocOK(s), s.large_cnt < LARGES
  PROVE  FreeEntry(s) \in Entries /\ s.large[FreeEntry(s)] = 0
<1> DEFINE F == {entry \in Entries : s.large[entry] = 0}
<1>1. F \cup {LARGES} \in SUBSET Nat /\ F \cup {LARGES} # {} /\ F \subseteq Entries
  BY Positive
<1>2. LiveEntries(s) # Entries
  BY LiveEntriesFinite, Positive DEF AllocOK, LargeOK
<1>3. F # {}
  BY <1>2 DEF LiveEntries
<1>4. FreeEntry(s) = Min(F \cup {LARGES})
  BY DEF FreeEntry
<1>5. \A e \in F : s.large[e] = 0 /\ e < LARGES /\ e \in Entries
  BY Positive
<1> HIDE DEF F
<1>6. FreeEntry(s) \in F \cup {LARGES} /\ \A e \in F \cup {LARGES} : FreeEntry(s) <= e
  BY <1>1, <1>4, MinIsLeast
<1>7. FreeEntry(s) # LARGES
  BY <1>3, <1>5, <1>6, Positive
<1> QED
  BY <1>5, <1>6, <1>7

LEMMA ClearTableOK ==
  ASSUME NEW s, AllocOK(s)
  PROVE  LET t == ClearTable(s)
         IN  /\ AllocOK(t) /\ Extends(s, t) /\ t.large_flag
             /\ t.large_cnt = s.large_cnt
<1> DEFINE t == ClearTable(s)
<1>1. CASE s.large_flag
  BY <1>1, ExtendsItself DEF ClearTable
<1>2. CASE ~s.large_flag
  <2>1. s \in StateType /\ LiveEntries(s) = {}
    BY <1>2 DEF AllocOK, LargeOK
  <2>2. s.large = [entry \in 0 .. LARGES |-> 0]
    <3>1. \A entry \in 0 .. LARGES : s.large[entry] = 0
      BY <2>1 DEF AllocOK, LargeOK
    <3> QED
      BY <2>1, <3>1 DEF StateType
  <2>3. t = [s EXCEPT !.large = s.large, !.large_flag = TRUE]
    BY <1>2, <2>2 DEF ClearTable
  <2> HIDE DEF t
  <2>4. /\ t \in StateType
        /\ t.arena = s.arena /\ t.zone_flag = s.zone_flag /\ t.bitmap = s.bitmap
        /\ t.large = s.large /\ t.large_cnt = s.large_cnt
        /\ t.large_request_sizes = s.large_request_sizes
        /\ t.large_flag = TRUE /\ t.pages = s.pages /\ t.meta = s.meta
    BY <2>1, <2>3 DEF StateType
  <2>5. \A z \in Zones : PoolOK(t, z) /\ ArenaPages(t, z) = ArenaPages(s, z)
    BY <2>4 DEF AllocOK, PoolOK, SlotOK, ArenaPages
  <2>6. LiveEntries(t) = LiveEntries(s)
    BY <2>4 DEF LiveEntries
  <2>7. LargeOK(t)
    BY <2>1, <2>4, <2>6 DEF AllocOK, LargeOK
  <2>8. PagesOK(t)
    BY <2>1, <2>4, <2>5, <2>6, PagesFrame DEF AllocOK
  <2>9. Extends(s, t)
    BY <2>1, <2>4 DEF Extends
  <2> QED
    BY <2>4, <2>5, <2>7, <2>8, <2>9 DEF AllocOK, t
<1> QED
  BY <1>1, <1>2

\* A new LARGE block, field by field.
Recorded(s, t, base, len, entry, n) ==
  /\ t \in StateType
  /\ t.arena = s.arena /\ t.zone_flag = s.zone_flag /\ t.bitmap = s.bitmap
  /\ t.large = [s.large EXCEPT ![entry] = base]
  /\ t.large_request_sizes = [s.large_request_sizes EXCEPT ![entry] = n]
  /\ t.large_cnt = s.large_cnt + 1 /\ t.large_flag = s.large_flag
  /\ t.pages = s.pages \cup PagesOf(base, len) /\ t.mem = s.mem
  /\ t.meta[base].size = len /\ t.meta[base].position = entry
  /\ t.meta[base].client_size = ToInt(n)
  /\ \A a \in Addr : a # base => t.meta[a] = s.meta[a]

LEMMA RecordFields ==
  ASSUME NEW s \in StateType, NEW len \in Nat, NEW base \in Addr, NEW n \in Nat,
         PagesOf(base, len) \subseteq 1 .. (PAGES - 1), FreeEntry(s) \in Entries
  PROVE  Recorded(s, RecordLarge(InitLarge(MapPages(s, base, len), base, len), base, n),
                  base, len, FreeEntry(s), n)
<1> DEFINE m == MapPages(s, base, len)
           entry == FreeEntry(s)
           i == InitLarge(m, base, len)
           t == RecordLarge(i, base, n)
           M == [size |-> len, position |-> entry, client_size |-> 0]
<1>1. entry \in 0 .. LARGES /\ entry \in Int
  BY Positive
<1> HIDE DEF entry
<1>2. /\ m \in StateType
      /\ m.arena = s.arena /\ m.zone_flag = s.zone_flag /\ m.bitmap = s.bitmap
      /\ m.large = s.large /\ m.large_cnt = s.large_cnt
      /\ m.large_request_sizes = s.large_request_sizes
      /\ m.large_flag = s.large_flag
      /\ m.pages = s.pages \cup PagesOf(base, len) /\ m.meta = s.meta /\ m.mem = s.mem
  BY DEF MapPages, StateType
<1>3. FreeEntry(m) = entry
  BY <1>2 DEF FreeEntry, entry
<1>4. i = [m EXCEPT !.large = [m.large EXCEPT ![entry] = base],
                    !.meta = [m.meta EXCEPT ![base] = M]]
  <2> HIDE DEF m
  <2> QED
    BY <1>1, <1>2, <1>3 DEF InitLarge, StateType, entry
<1> HIDE DEF m, i
<1>5. M \in Meta
  BY <1>1 DEF Meta
<1> DEFINE N == [m.meta EXCEPT ![base] = M]
<1>6. /\ N \in [Addr -> Meta] /\ N[base] = M
      /\ \A a \in Addr : a # base => N[a] = s.meta[a]
  BY <1>2, <1>5 DEF StateType
<1> HIDE DEF N, M
<1>7. /\ i \in StateType
      /\ i.arena = s.arena /\ i.zone_flag = s.zone_flag /\ i.bitmap = s.bitmap
      /\ i.large = [s.large EXCEPT ![entry] = base] /\ i.large_cnt = s.large_cnt
      /\ i.large_request_sizes = s.large_request_sizes
      /\ i.large_flag = s.large_flag
      /\ i.pages = s.pages \cup PagesOf(base, len) /\ i.meta = N /\ i.mem = s.mem
  BY <1>1, <1>2, <1>4, <1>6 DEF StateType, N
<1> DEFINE P == [i.meta EXCEPT ![base].client_size = ToInt(n)]
           L == [i.large_request_sizes EXCEPT ![entry] = n]
<1>8. i.meta[base].position = entry /\ i.meta[base].size = len
  BY <1>6, <1>7 DEF M
<1>9. /\ P \in [Addr -> Meta] /\ P[base].size = len /\ P[base].position = entry
      /\ P[base].client_size = ToInt(n)
      /\ \A a \in Addr : a # base => P[a] = s.meta[a]
  BY <1>6, <1>7, <1>8, ToIntInt DEF Meta
<1>10. L \in [0 .. LARGES -> Nat] /\ L = [s.large_request_sizes EXCEPT ![entry] = n]
  BY <1>1, <1>7 DEF StateType
<1>11. t = [i EXCEPT !.meta = P, !.large_request_sizes = L, !.large_cnt = i.large_cnt + 1]
  <2>1. t = [i EXCEPT !.meta = P,
                      !.large_request_sizes = [i.large_request_sizes EXCEPT ![i.meta[base].position] = n],
                      !.large_cnt = i.large_cnt + 1]
    BY <1>7 DEF RecordLarge, StateType
  <2> QED
    BY <2>1, <1>8
<1> HIDE DEF t, P, L
<1>12. /\ t \in StateType
       /\ t.arena = i.arena /\ t.zone_flag = i.zone_flag /\ t.bitmap = i.bitmap
       /\ t.large = i.large /\ t.large_cnt = i.large_cnt + 1
       /\ t.large_request_sizes = L
       /\ t.large_flag = i.large_flag
       /\ t.pages = i.pages /\ t.meta = P /\ t.mem = i.mem
  <2> DEFINE C == i.large_cnt + 1
  <2>1. C \in Int /\ i \in StateType
    BY <1>7 DEF StateType
  <2>2. t = [i EXCEPT !.meta = P, !.large_request_sizes = L, !.large_cnt = C]
    BY <1>11
  <2> HIDE DEF C
  <2>3. t \in StateType
    BY <1>9, <1>10, <2>1, <2>2 DEF StateType
  <2>4. /\ t.arena = i.arena /\ t.zone_flag = i.zone_flag /\ t.bitmap = i.bitmap
        /\ t.large = i.large /\ t.large_cnt = C
        /\ t.large_request_sizes = L
        /\ t.large_flag = i.large_flag
        /\ t.pages = i.pages /\ t.meta = P /\ t.mem = i.mem
    BY <2>1, <2>2 DEF StateType
  <2> QED
    BY <2>3, <2>4 DEF C
<1>13. Recorded(s, t, base, len, entry, n)
  BY <1>7, <1>9, <1>10, <1>12 DEF Recorded
<1> QED
  BY <1>13 DEF t, i, m, entry

LEMMA RecordedOK ==
  ASSUME NEW s, AllocOK(s), s.large_flag, NEW len \in Nat \ {0},
         len % INDEX_UNIT = 0,
         NEW base \in FreeRuns(s, len), NEW entry \in Entries, s.large[entry] = 0,
         NEW n \in 1 .. (len - METASIZE), NEW t, Recorded(s, t, base, len, entry, n)
  PROVE  AllocOK(t) /\ Extends(s, t)
<1> USE DEF Recorded
<1>1. s \in StateType /\ LargeOK(s) /\ PagesOK(s) /\ \A z \in Zones : PoolOK(s, z)
  BY DEF AllocOK
<1>2. /\ base \in Addr \ {0} /\ Region(base, len) \subseteq Addr
      /\ PagesOf(base, len) \subseteq 1 .. (PAGES - 1)
      /\ PagesOf(base, len) \cap s.pages = {}
  BY <1>1, FreshRun
<1>3. base \in Region(base, len)
  BY <1>2 DEF Region, Addr
<1>4. entry \in 0 .. LARGES /\ entry # LARGES /\ entry \notin LiveEntries(s)
  BY Positive DEF LiveEntries
<1>5. ASSUME NEW z \in Zones
      PROVE  PoolOK(t, z) /\ ArenaPages(t, z) = ArenaPages(s, z)
  <2>1. t.zone_flag[z] = s.zone_flag[z] /\ t.arena[z] = s.arena[z] /\ t.bitmap[z] = s.bitmap[z]
    OBVIOUS
  <2>2. ASSUME s.zone_flag[z], NEW i \in Slots
        PROVE  t.meta[Header(s.arena[z], z, i)] = s.meta[Header(s.arena[z], z, i)]
    <3>1. Header(s.arena[z], z, i) \in Addr
      BY <2>2, SlotPage
    <3>2. Header(s.arena[z], z, i) # base
      BY <1>3, <2>2, FreshApart
    <3> QED
      BY <3>1, <3>2
  <2> QED
    BY <1>1, <2>1, <2>2, PoolFrame
<1>6. /\ t.large[entry] = base /\ t.large_request_sizes[entry] = n
      /\ \A e \in 0 .. LARGES : e # entry =>
           t.large[e] = s.large[e] /\ t.large_request_sizes[e] = s.large_request_sizes[e]
  <2>1. s.large \in [0 .. LARGES -> Addr] /\ s.large_request_sizes \in [0 .. LARGES -> Nat]
    BY <1>1 DEF StateType
  <2>2. /\ t.large = [s.large EXCEPT ![entry] = base]
        /\ t.large_request_sizes = [s.large_request_sizes EXCEPT ![entry] = n]
    OBVIOUS
  <2> HIDE DEF Recorded
  <2> QED
    BY <1>4, <2>1, <2>2
<1>7. LiveEntries(t) = LiveEntries(s) \cup {entry}
  BY <1>2, <1>4, <1>6, Positive DEF LiveEntries
<1>8. ASSUME NEW e \in LiveEntries(s)
      PROVE  /\ e \in 0 .. LARGES /\ e # entry /\ t.large[e] = s.large[e]
             /\ t.meta[s.large[e]] = s.meta[s.large[e]]
             /\ EntryPages(t, e) = EntryPages(s, e)
  <2>1. e \in 0 .. LARGES /\ e # entry
    BY <1>4, Positive DEF LiveEntries
  <2>2. s.large[e] \in Addr /\ s.large[e] # base
    BY <1>3, EntryPage, FreshApart
  <2>3. t.large[e] = s.large[e] /\ t.meta[s.large[e]] = s.meta[s.large[e]]
    BY <1>6, <2>1, <2>2
  <2> QED
    BY <2>1, <2>3 DEF EntryPages
<1>9. EntryOK(t, entry) /\ EntryPages(t, entry) = PagesOf(base, len)
  BY <1>2, <1>6 DEF EntryOK, EntryPages
<1>10. LargeOK(t)
  <2>1. ASSUME NEW e \in 0 .. LARGES
        PROVE  IF e \in LiveEntries(t) THEN EntryOK(t, e)
               ELSE t.large[e] = 0 /\ t.large_request_sizes[e] = 0
    <3>1. CASE e = entry
      BY <1>7, <1>9, <3>1
    <3>2. CASE e \in LiveEntries(s)
      <4>1. EntryOK(s, e)
        BY <1>1, <3>2 DEF LargeOK
      <4>2. /\ t.large[e] = s.large[e] /\ t.meta[s.large[e]] = s.meta[s.large[e]]
            /\ t.large_request_sizes[e] = s.large_request_sizes[e]
        BY <1>6, <1>8, <3>2
      <4> QED
        BY <1>7, <3>2, <4>1, <4>2 DEF EntryOK
    <3>3. CASE e # entry /\ e \notin LiveEntries(s)
      BY <1>1, <1>6, <1>7, <3>3 DEF LargeOK
    <3> QED
      BY <3>1, <3>2, <3>3
  <2>2. t.large_cnt = Cardinality(LiveEntries(t))
    <3>1. IsFiniteSet(LiveEntries(s))
      BY LiveEntriesFinite
    <3>2. Cardinality(LiveEntries(t)) = Cardinality(LiveEntries(s)) + 1
      <4> DEFINE L == LiveEntries(s)
      <4>1. IsFiniteSet(L) /\ entry \notin L
        BY <1>4, <3>1
      <4> HIDE DEF L, Recorded
      <4>2. Cardinality(L \cup {entry}) = Cardinality(L) + 1
        BY <4>1, FS_AddElement
      <4> QED
        BY <1>7, <4>2 DEF L
    <3> QED
      BY <1>1, <3>2 DEF LargeOK
  <2> QED
    BY <2>1, <2>2 DEF LargeOK
<1>11. PagesOK(t)
  <2>1. /\ \A p : p \in s.pages <=> \/ \E z \in Zones : p \in ArenaPages(s, z)
                                    \/ \E e \in LiveEntries(s) : p \in EntryPages(s, e)
        /\ \A p : ~(p \in ArenaPages(s, "tiny") /\ p \in ArenaPages(s, "small"))
        /\ \A z \in Zones, e \in LiveEntries(s) : \A p :
             ~(p \in ArenaPages(s, z) /\ p \in EntryPages(s, e))
        /\ \A e, f \in LiveEntries(s) : \A p :
             e # f => ~(p \in EntryPages(s, e) /\ p \in EntryPages(s, f))
    BY <1>1, PagesOKByPage
  <2>2. \A p : p \in t.pages <=> p \in s.pages \/ p \in EntryPages(t, entry)
    BY <1>9
  <2>3. \A p : p \in EntryPages(t, entry) => p \notin s.pages
    BY <1>2, <1>9
  <2>4. \A p : p \in t.pages <=> \/ \E z \in Zones : p \in ArenaPages(t, z)
                                 \/ \E e \in LiveEntries(t) : p \in EntryPages(t, e)
    BY <1>5, <1>7, <1>8, <2>1, <2>2
  <2>5. \A z \in Zones, e \in LiveEntries(t) : \A p :
          ~(p \in ArenaPages(t, z) /\ p \in EntryPages(t, e))
    BY <1>5, <1>7, <1>8, <2>1, <2>3
  <2>6. \A e, f \in LiveEntries(t) : \A p :
          e # f => ~(p \in EntryPages(t, e) /\ p \in EntryPages(t, f))
    BY <1>7, <1>8, <2>1, <2>3
  <2>7. \A p : ~(p \in ArenaPages(t, "tiny") /\ p \in ArenaPages(t, "small"))
    BY <1>5, <2>1
  <2> QED
    BY <2>4, <2>5, <2>6, <2>7, PagesOKByPage
<1>12. Extends(s, t)
  BY <1>8 DEF Extends
<1> QED
  BY <1>5, <1>10, <1>11, <1>12 DEF AllocOK

\* The table is full, the length cannot be mapped, the kernel refuses, or a
\* mapping is recorded in a free entry.
LEMMA MallocLargeCases ==
  ASSUME NEW s, AllocOK(s), NEW n \in Nat, SMALL - METASIZE < n, NEW o \in MallocLarge(s, n)
  PROVE  LET ready == ClearTable(s)
         IN  \/ s.large_cnt >= LARGES /\ o = Return(s, NULL)
             \/ LargeLen(ready, n) = -1 /\ o = Return(ready, NULL)
             \/ o = Refused(ready)
             \/ \E len \in Nat \ {0} : \E base \in FreeRuns(ready, len), entry \in Entries :
                  /\ len % INDEX_UNIT = 0 /\ n \in 1 .. (len - METASIZE)
                  /\ ready.large[entry] = 0
                  /\ Recorded(ready, o.st, base, len, entry, n)
                  /\ o = Return(o.st, base + METASIZE)
<1> DEFINE ready == ClearTable(s)
           len == LargeLen(ready, n)
           Made(base) == RecordLarge(InitLarge(MapPages(ready, base, len), base, len), base, n)
<1>1. /\ AllocOK(ready) /\ ready.large_cnt = s.large_cnt
  BY ClearTableOK
<1>2. \/ s.large_cnt >= LARGES /\ o = Return(s, NULL)
      \/ len = -1 /\ o = Return(ready, NULL)
      \/ o = Refused(ready)
      \/ ~(s.large_cnt >= LARGES) /\ len # -1
           /\ \E base \in FreeRuns(ready, len) : o = Return(Made(base), base + METASIZE)
  BY DEF MallocLarge
<1>3. ASSUME ~(s.large_cnt >= LARGES), len # -1, NEW base \in FreeRuns(ready, len),
             o = Return(Made(base), base + METASIZE)
      PROVE  \E entry \in Entries :
               /\ len \in Nat \ {0} /\ len % INDEX_UNIT = 0 /\ n \in 1 .. (len - METASIZE)
               /\ ready.large[entry] = 0
               /\ Recorded(ready, o.st, base, len, entry, n)
               /\ o = Return(o.st, base + METASIZE)
  <2> HIDE DEF ready
  <2>1. n + METASIZE \in Nat /\ n + METASIZE > SMALL /\ n + METASIZE > TINY
    BY SizesAssumption, Positive
  <2>2. len = RoundUp(n + METASIZE)
    <3>1. len = calculater_page_size(ready, n + METASIZE)
      BY <1>3 DEF LargeLen
    <3>2. n + METASIZE \notin {TINY, SMALL}
      BY <2>1, SizesAssumption
    <3> QED
      BY <1>3, <2>1, <3>1, <3>2, PageSize
  <2>3. len \in Nat /\ n + METASIZE <= len /\ len % INDEX_UNIT = 0
    BY <2>1, <2>2, RoundUpBounds, RoundUpWhole
  <2>4. o.st = Made(base) /\ o = Return(o.st, base + METASIZE)
    BY <1>3 DEF Return
  <2> HIDE DEF len
  <2>5. len \in Nat \ {0} /\ n \in 1 .. (len - METASIZE)
    BY <2>1, <2>3, SizesAssumption, Positive
  <2>6. ready \in StateType /\ ready.large_cnt < LARGES
    <3>1. ready \in StateType
      BY <1>1 DEF AllocOK
    <3>2. ready.large_cnt \in Int
      BY <3>1 DEF StateType
    <3> QED
      BY <1>1, <1>3, <3>1, <3>2, Positive
  <2>7. FreeEntry(ready) \in Entries /\ ready.large[FreeEntry(ready)] = 0
    BY <1>1, <2>6, FreeEntryFound
  <2>8. base \in Addr /\ PagesOf(base, len) \subseteq 1 .. (PAGES - 1)
    BY <1>3, <2>5, <2>6, FreshRun
  <2>9. Recorded(ready, o.st, base, len, FreeEntry(ready), n)
    BY <2>3, <2>4, <2>6, <2>7, <2>8, RecordFields
  <2> QED
    BY <2>3, <2>4, <2>5, <2>7, <2>9
<1> HIDE DEF ready, len, Made
<1>4. ASSUME ~(s.large_cnt >= LARGES) /\ len # -1
               /\ \E base \in FreeRuns(ready, len) : o = Return(Made(base), base + METASIZE)
      PROVE  \E l \in Nat \ {0} : \E base \in FreeRuns(ready, l), entry \in Entries :
                  /\ l % INDEX_UNIT = 0 /\ n \in 1 .. (l - METASIZE)
                  /\ ready.large[entry] = 0
                  /\ Recorded(ready, o.st, base, l, entry, n)
                  /\ o = Return(o.st, base + METASIZE)
  BY <1>3, <1>4
<1> QED
  BY <1>2, <1>4 DEF ready, len

LEMMA MallocLargeOK ==
  ASSUME NEW s, AllocOK(s), NEW n \in Nat, SMALL - METASIZE < n, NEW o \in MallocLarge(s, n)
  PROVE  AllocOK(o.st) /\ Extends(s, o.st) /\ o.ret \in Addr
<1> DEFINE ready == ClearTable(s)
<1>0. 0 \in Addr
  BY Positive DEF Addr
<1>1. AllocOK(ready) /\ Extends(s, ready) /\ ready.large_flag
  BY ClearTableOK
<1>2. CASE o = Return(s, NULL) \/ o = Return(ready, NULL) \/ o = Refused(ready)
  BY <1>0, <1>1, <1>2, ExtendsItself DEF Refused, Return
<1> HIDE DEF ready
<1>3. ASSUME NEW len \in Nat \ {0}, NEW base \in FreeRuns(ready, len), NEW entry \in Entries,
             len % INDEX_UNIT = 0, n \in 1 .. (len - METASIZE), ready.large[entry] = 0,
             Recorded(ready, o.st, base, len, entry, n), o = Return(o.st, base + METASIZE)
      PROVE  AllocOK(o.st) /\ Extends(s, o.st) /\ o.ret \in Addr
  <2>1. AllocOK(o.st) /\ Extends(ready, o.st)
    BY <1>1, <1>3, RecordedOK
  <2>2. Extends(s, o.st)
    BY <1>1, <2>1, ExtendsTransitive
  <2>3. base \in Addr /\ Region(base, len) \subseteq Addr
    BY <1>1, FreshRun DEF AllocOK
  <2>4. base + METASIZE \in Region(base, len)
    BY <1>3, <2>3, Positive DEF Region, Addr
  <2> QED
    BY <1>3, <2>1, <2>2, <2>3, <2>4 DEF Return
<1> QED
  BY <1>2, <1>3, MallocLargeCases DEF ready

(***************************************************************************)
(* malloc_impl keeps the tables well formed and disturbs no block in use,  *)
(* whatever the kernel answers.                                            *)
(***************************************************************************)
THEOREM MallocImplCorrect ==
  ASSUME NEW s, AllocOK(s), NEW size \in Nat, NEW o \in malloc_impl(s, size)
  PROVE  AllocOK(o.st) /\ Extends(s, o.st) /\ o.ret \in Addr
<1> DEFINE n == AtLeastOne(size)
<1>1. n \in Nat /\ n >= 1
  BY DEF AtLeastOne
<1> HIDE DEF n
<1>2. CASE Class(n) = "large"
  <2>1. o \in MallocLarge(s, n)
    BY <1>2 DEF malloc_impl, n
  <2>2. SMALL - METASIZE < n
    BY <1>1, <1>2, SizesAssumption, Positive DEF Class
  <2> QED
    BY <1>1, <2>1, <2>2, MallocLargeOK
<1>3. CASE Class(n) # "large"
  <2>1. o \in MallocPool(s, Class(n), n)
    BY <1>3 DEF malloc_impl, n
  <2>2. Class(n) \in Zones /\ n \in 1 .. (Stride(Class(n)) - METASIZE)
    BY <1>1, <1>3, SizesAssumption, Positive DEF Class, Stride
  <2> QED
    BY <2>1, <2>2, MallocPoolOK
<1> QED
  BY <1>2, <1>3

-----------------------------------------------------------------------------
(***************************************************************************)
(* What find_live_allocation finds.                                        *)
(***************************************************************************)
SlotOwner(s, owner, ptr) ==
  /\ owner.zone \in Zones /\ owner.slot \in Slots
  /\ s.zone_flag[owner.zone] /\ owner.slot \in s.bitmap[owner.zone]
  /\ ptr = Header(s.arena[owner.zone], owner.zone, owner.slot) + METASIZE

EntryOwner(s, owner, ptr) ==
  /\ owner.zone = "large" /\ owner.slot \in LiveEntries(s)
  /\ ptr = s.large[owner.slot] + METASIZE

LEMMA LivePoolSlot ==
  ASSUME NEW s, AllocOK(s), NEW zone \in Zones, NEW ptr \in Addr,
         live_pool_slot(s, zone, ptr) >= 0
  PROVE  SlotOwner(s, [zone |-> zone, slot |-> live_pool_slot(s, zone, ptr)], ptr)
<1> DEFINE base == s.arena[zone]
           offset == ptr - base - METASIZE
           slot == offset \div Stride(zone)
<1>1. /\ slot \in s.bitmap[zone] /\ offset >= 0 /\ offset % Stride(zone) = 0
      /\ live_pool_slot(s, zone, ptr) = slot
  BY DEF live_pool_slot
<1>2. s \in StateType /\ PoolOK(s, zone)
  BY DEF AllocOK
<1>3. s.zone_flag[zone] /\ base \in Addr
  BY <1>1, <1>2 DEF PoolOK
<1>4. slot \in Slots
  BY <1>1, <1>2 DEF StateType
<1>5. base \in Int /\ ptr \in Int /\ offset \in Int /\ Stride(zone) \in Nat \ {0}
  BY <1>3, StrideFacts, Positive DEF Addr
<1>6. offset = Stride(zone) * slot
  <2> HIDE DEF offset
  <2> QED
    BY <1>1, <1>5, Divides, Zenon
<1> HIDE DEF slot
<1>7. slot * Stride(zone) = Stride(zone) * slot /\ slot * Stride(zone) \in Int
  BY <1>4, <1>5, Positive
<1>8. ptr = Header(base, zone, slot) + METASIZE
  BY <1>5, <1>6, <1>7, Positive DEF Header
<1> QED
  BY <1>1, <1>3, <1>4, <1>8 DEF SlotOwner

\* A pointer with an owner is the address behind the owner's header.
LEMMA OwnerFound ==
  ASSUME NEW s, AllocOK(s), NEW ptr \in Addr,
         NEW owner, owner = find_live_allocation(s, ptr)
  PROVE  owner = NoOwner \/ SlotOwner(s, owner, ptr) \/ EntryOwner(s, owner, ptr)
<1> DEFINE E == LargeEntriesAt(s, ptr)
<1>1. CASE ptr = NULL
  BY <1>1 DEF find_live_allocation
<1>2. CASE ptr # NULL /\ live_pool_slot(s, "tiny", ptr) >= 0
  BY <1>2, LivePoolSlot DEF find_live_allocation
<1>3. CASE /\ ptr # NULL /\ ~(live_pool_slot(s, "tiny", ptr) >= 0)
           /\ live_pool_slot(s, "small", ptr) >= 0
  BY <1>3, LivePoolSlot DEF find_live_allocation
<1>4. CASE /\ ptr # NULL /\ ~(live_pool_slot(s, "tiny", ptr) >= 0)
           /\ ~(live_pool_slot(s, "small", ptr) >= 0) /\ E # {}
  <2>1. owner = [zone |-> "large", slot |-> Min(E)]
    BY <1>4 DEF find_live_allocation
  <2>2. E \in SUBSET Nat
    BY Positive DEF LargeEntriesAt
  <2>3. \A e \in E : e \in LiveEntries(s) /\ ptr = s.large[e] + METASIZE
    BY DEF LargeEntriesAt, LiveEntries
  <2> HIDE DEF E
  <2>4. Min(E) \in E
    BY <1>4, <2>2, MinIsLeast
  <2> QED
    BY <2>1, <2>3, <2>4 DEF EntryOwner
<1>5. CASE /\ ptr # NULL /\ ~(live_pool_slot(s, "tiny", ptr) >= 0)
           /\ ~(live_pool_slot(s, "small", ptr) >= 0) /\ E = {}
  BY <1>5 DEF find_live_allocation
<1> QED
  BY <1>1, <1>2, <1>3, <1>4, <1>5

\* The bytes the owner of ptr was asked for are in the address space.
LEMMA RequestedInside ==
  ASSUME NEW s, AllocOK(s), NEW ptr \in Addr, NEW owner,
         SlotOwner(s, owner, ptr) \/ EntryOwner(s, owner, ptr)
  PROVE  /\ Requested(s, owner) \in Nat
         /\ \A i \in 0 .. (Requested(s, owner) - 1) : ptr + i \in Addr
<1>1. CASE SlotOwner(s, owner, ptr)
  <2> DEFINE zone == owner.zone
             head == Header(s.arena[zone], zone, owner.slot)
             n == Requested(s, owner)
  <2>1. zone \in Zones /\ owner.slot \in Slots /\ s.zone_flag[zone] /\ ptr = head + METASIZE
    BY <1>1 DEF SlotOwner
  <2>2. SlotOK(s, zone, owner.slot)
    BY <2>1 DEF AllocOK, PoolOK
  <2>3. n \in 1 .. (Stride(zone) - METASIZE)
    BY <1>1, <2>1, <2>2 DEF SlotOK, SlotOwner, Requested, OwnerHeader
  <2>4. head \in Addr /\ \A i \in 0 .. (Stride(zone) - 1) : head + i \in Addr
    BY <2>1, SlotPage
  <2>5. Stride(zone) \in Nat
    BY <2>1, StrideFacts
  <2> HIDE DEF zone, head, n
  <2>6. \A i \in 0 .. (n - 1) : METASIZE + i \in 0 .. (Stride(zone) - 1)
    BY <2>3, <2>5, Positive
  <2>7. \A i \in 0 .. (n - 1) : head + (METASIZE + i) \in Addr
    BY <2>4, <2>6
  <2>8. \A i \in 0 .. (n - 1) : head + (METASIZE + i) = ptr + i
    BY <2>1, <2>3, <2>4, <2>5, Positive DEF Addr
  <2>9. n \in Nat
    BY <2>3, <2>5, Positive
  <2> QED
    BY <2>7, <2>8, <2>9 DEF n
<1>2. CASE EntryOwner(s, owner, ptr)
  <2> DEFINE e == owner.slot
             base == s.large[e]
             len == s.meta[base].size
             n == Requested(s, owner)
  <2>1. e \in LiveEntries(s) /\ ptr = base + METASIZE
    BY <1>2 DEF EntryOwner
  <2>2. /\ base \in Addr /\ len \in Nat
        /\ \A i \in 0 .. (len - 1) : base + i \in Addr
    BY <2>1, EntryPage
  <2>3. n \in 1 .. (len - METASIZE)
    <3>1. EntryOK(s, e)
      BY <2>1, Positive DEF AllocOK, LargeOK, LiveEntries
    <3> QED
      BY <1>2, <3>1 DEF EntryOK, EntryOwner, Requested
  <2> HIDE DEF base, len, n
  <2>4. \A i \in 0 .. (n - 1) : METASIZE + i \in 0 .. (len - 1)
    BY <2>2, <2>3, Positive
  <2>5. \A i \in 0 .. (n - 1) : base + (METASIZE + i) \in Addr
    BY <2>2, <2>4
  <2>6. \A i \in 0 .. (n - 1) : base + (METASIZE + i) = ptr + i
    BY <2>1, <2>2, <2>3, Positive DEF Addr
  <2>7. n \in Nat
    BY <2>2, <2>3, Positive
  <2> QED
    BY <2>5, <2>6, <2>7 DEF n
<1> QED
  BY <1>1, <1>2

-----------------------------------------------------------------------------
(***************************************************************************)
(* free_impl.                                                              *)
(***************************************************************************)
LEMMA ClearSlotOK ==
  ASSUME NEW s, AllocOK(s), NEW owner, NEW ptr, SlotOwner(s, owner, ptr)
  PROVE  AllocOK(ClearSlot(s, owner))
<1> DEFINE t == ClearSlot(s, owner)
           zone == owner.zone
<1>1. zone \in Zones /\ owner.slot \in Slots /\ s.zone_flag[zone]
  BY DEF SlotOwner
<1>2. s \in StateType /\ \A z \in Zones : PoolOK(s, z)
  BY DEF AllocOK
<1>3. t = [s EXCEPT !.bitmap[zone] = @ \ {owner.slot}]
  BY DEF ClearSlot
<1> HIDE DEF t, zone
<1>4. /\ t \in StateType
      /\ t.arena = s.arena /\ t.zone_flag = s.zone_flag
      /\ t.bitmap = [s.bitmap EXCEPT ![zone] = @ \ {owner.slot}]
      /\ t.large = s.large /\ t.large_cnt = s.large_cnt
      /\ t.large_request_sizes = s.large_request_sizes
      /\ t.large_flag = s.large_flag /\ t.pages = s.pages /\ t.meta = s.meta
  BY <1>1, <1>2, <1>3 DEF StateType
<1>5. \A z \in Zones : t.bitmap[z] \subseteq s.bitmap[z]
  BY <1>1, <1>2, <1>4 DEF StateType
<1>6. ASSUME NEW z \in Zones
      PROVE  PoolOK(t, z) /\ ArenaPages(t, z) = ArenaPages(s, z)
  <2>1. t.bitmap[z] \subseteq s.bitmap[z] /\ PoolOK(s, z)
    BY <1>2, <1>5
  <2>2. \A slot \in Slots : SlotOK(s, z, slot) => SlotOK(t, z, slot)
    BY <1>4, <2>1 DEF SlotOK
  <2> QED
    BY <1>4, <2>1, <2>2 DEF PoolOK, ArenaPages
<1>7. /\ LargeOK(t) /\ LiveEntries(t) = LiveEntries(s)
      /\ \A e \in LiveEntries(s) : EntryPages(t, e) = EntryPages(s, e)
  BY <1>4, LargeFrame DEF AllocOK
<1>8. PagesOK(t)
  BY <1>4, <1>6, <1>7, PagesFrame DEF AllocOK
<1> QED
  BY <1>4, <1>6, <1>7, <1>8 DEF AllocOK, t

\* The end of a LARGE block, field by field.
Dropped(s, t, entry) ==
  LET base == s.large[entry]
      len == s.meta[base].size
  IN  /\ t \in StateType
      /\ t.arena = s.arena /\ t.zone_flag = s.zone_flag /\ t.bitmap = s.bitmap
      /\ t.large = [s.large EXCEPT ![entry] = 0]
      /\ t.large_request_sizes = [s.large_request_sizes EXCEPT ![entry] = 0]
      /\ t.large_cnt = s.large_cnt - 1 /\ t.large_flag = s.large_flag
      /\ t.pages = s.pages \ PagesOf(base, len)
      /\ \A a \in Addr : a \notin Region(base, len) =>
           t.meta[a] = s.meta[a] /\ t.mem[a] = s.mem[a]

LEMMA DropFields ==
  ASSUME NEW s \in StateType, NEW owner, owner.slot \in Entries
  PROVE  Dropped(s, ClearLarge(s, owner), owner.slot)
<1> DEFINE entry == owner.slot
           base == s.large[entry]
           len == s.meta[base].size
           R == Region(base, len)
           N == [a \in Addr |-> IF a \in R THEN ZeroMeta ELSE s.meta[a]]
           V == [a \in Addr |-> IF a \in R THEN 0 ELSE s.mem[a]]
           u == Unmap(s, owner)
           t == DropEntry(u, owner)
<1>1. u = [s EXCEPT !.pages = @ \ PagesOf(base, len), !.meta = N, !.mem = V]
  BY DEF Unmap, UnmapPages
<1>2. s.meta \in [Addr -> Meta] /\ s.mem \in [Addr -> Values] /\ ZeroMeta \in Meta
  BY DEF StateType, Meta, ZeroMeta
<1>3. /\ N \in [Addr -> Meta] /\ V \in [Addr -> Values]
      /\ \A a \in Addr : a \notin R => N[a] = s.meta[a] /\ V[a] = s.mem[a]
  BY <1>2, ValuesAssumption
<1>4. entry \in 0 .. LARGES /\ 0 \in Addr
  BY Positive DEF Addr
<1> HIDE DEF N, V, u, R, base, len
<1>5. /\ u \in StateType
      /\ u.arena = s.arena /\ u.zone_flag = s.zone_flag /\ u.bitmap = s.bitmap
      /\ u.large = s.large /\ u.large_cnt = s.large_cnt
      /\ u.large_request_sizes = s.large_request_sizes
      /\ u.large_flag = s.large_flag
      /\ u.pages = s.pages \ PagesOf(base, len) /\ u.meta = N /\ u.mem = V
  BY <1>1, <1>3 DEF StateType
<1>6. /\ t \in StateType
      /\ t.arena = u.arena /\ t.zone_flag = u.zone_flag /\ t.bitmap = u.bitmap
      /\ t.large = [u.large EXCEPT ![entry] = 0] /\ t.large_cnt = u.large_cnt - 1
      /\ t.large_request_sizes = [u.large_request_sizes EXCEPT ![entry] = 0]
      /\ t.large_flag = u.large_flag
      /\ t.pages = u.pages /\ t.meta = u.meta /\ t.mem = u.mem
  <2> DEFINE A == [u.large EXCEPT ![entry] = 0]
             B == [u.large_request_sizes EXCEPT ![entry] = 0]
             C == u.large_cnt - 1
  <2>1. A \in [0 .. LARGES -> Addr] /\ B \in [0 .. LARGES -> Nat] /\ C \in Int
    BY <1>4, <1>5 DEF StateType
  <2>2. t = [u EXCEPT !.large = A, !.large_request_sizes = B, !.large_cnt = C]
    BY <1>5 DEF DropEntry, StateType
  <2> HIDE DEF A, B, C, t
  <2>3. t \in StateType
    BY <1>5, <2>1, <2>2 DEF StateType
  <2>4. /\ t.arena = u.arena /\ t.zone_flag = u.zone_flag /\ t.bitmap = u.bitmap
        /\ t.large = A /\ t.large_cnt = C /\ t.large_request_sizes = B
        /\ t.large_flag = u.large_flag /\ t.pages = u.pages /\ t.meta = u.meta
        /\ t.mem = u.mem
    BY <1>5, <2>2 DEF StateType
  <2> QED
    BY <2>3, <2>4 DEF A, B, C
<1> HIDE DEF t
<1>7. Dropped(s, t, entry)
  BY <1>3, <1>5, <1>6 DEF Dropped, base, len, R
<1> QED
  BY <1>7 DEF ClearLarge, t, u

LEMMA DroppedOK ==
  ASSUME NEW s, AllocOK(s), NEW entry \in LiveEntries(s), NEW t, Dropped(s, t, entry)
  PROVE  AllocOK(t)
<1> DEFINE base == s.large[entry]
           len == s.meta[base].size
<1>1. s \in StateType /\ LargeOK(s) /\ PagesOK(s) /\ \A z \in Zones : PoolOK(s, z)
  BY DEF AllocOK
<1>2. /\ t \in StateType
      /\ t.arena = s.arena /\ t.zone_flag = s.zone_flag /\ t.bitmap = s.bitmap
      /\ t.large = [s.large EXCEPT ![entry] = 0]
      /\ t.large_request_sizes = [s.large_request_sizes EXCEPT ![entry] = 0]
      /\ t.large_cnt = s.large_cnt - 1 /\ t.large_flag = s.large_flag
      /\ t.pages = s.pages \ EntryPages(s, entry)
      /\ \A a \in Addr : a \notin Region(base, len) => t.meta[a] = s.meta[a]
  BY DEF Dropped, EntryPages
<1>3. ASSUME NEW z \in Zones
      PROVE  PoolOK(t, z) /\ ArenaPages(t, z) = ArenaPages(s, z)
  <2>1. t.zone_flag[z] = s.zone_flag[z] /\ t.arena[z] = s.arena[z] /\ t.bitmap[z] = s.bitmap[z]
    BY <1>2
  <2>2. ASSUME s.zone_flag[z], NEW i \in Slots
        PROVE  t.meta[Header(s.arena[z], z, i)] = s.meta[Header(s.arena[z], z, i)]
    <3>1. Header(s.arena[z], z, i) \in Addr
      BY <2>2, SlotPage
    <3>2. Header(s.arena[z], z, i) \notin Region(base, len)
      BY <2>2, HeadsApart
    <3> QED
      BY <1>2, <3>1, <3>2
  <2> QED
    BY <1>1, <2>1, <2>2, PoolFrame
<1>4. /\ t.large[entry] = 0 /\ t.large_request_sizes[entry] = 0
      /\ \A e \in 0 .. LARGES : e # entry =>
           t.large[e] = s.large[e] /\ t.large_request_sizes[e] = s.large_request_sizes[e]
  <2>1. s.large \in [0 .. LARGES -> Addr] /\ s.large_request_sizes \in [0 .. LARGES -> Nat]
    BY <1>1 DEF StateType
  <2>2. entry \in 0 .. LARGES
    BY Positive DEF LiveEntries
  <2> QED
    BY <1>2, <2>1, <2>2
<1>5. LiveEntries(t) = LiveEntries(s) \ {entry}
  BY <1>4, Positive DEF LiveEntries
<1>6. ASSUME NEW e \in LiveEntries(t)
      PROVE  /\ e \in LiveEntries(s) /\ e # entry /\ e \in 0 .. LARGES
             /\ t.large[e] = s.large[e]
             /\ t.meta[s.large[e]] = s.meta[s.large[e]]
             /\ EntryPages(t, e) = EntryPages(s, e)
  <2>1. e \in LiveEntries(s) /\ e # entry /\ e \in 0 .. LARGES
    BY <1>5, Positive DEF LiveEntries
  <2>2. s.large[e] \in Addr /\ s.large[e] \notin Region(base, len)
    BY <2>1, EntryPage, HeadsApart
  <2>3. t.large[e] = s.large[e] /\ t.meta[s.large[e]] = s.meta[s.large[e]]
    BY <1>2, <1>4, <2>1, <2>2
  <2> QED
    BY <2>1, <2>3 DEF EntryPages
<1>7. LargeOK(t)
  <2>1. ASSUME NEW e \in 0 .. LARGES
        PROVE  IF e \in LiveEntries(t) THEN EntryOK(t, e)
               ELSE t.large[e] = 0 /\ t.large_request_sizes[e] = 0
    <3>1. CASE e \in LiveEntries(t)
      <4>1. EntryOK(s, e)
        BY <1>1, <1>6, <3>1 DEF LargeOK
      <4>2. /\ t.large[e] = s.large[e] /\ t.meta[s.large[e]] = s.meta[s.large[e]]
            /\ t.large_request_sizes[e] = s.large_request_sizes[e]
        BY <1>4, <1>6, <3>1
      <4> QED
        BY <3>1, <4>1, <4>2 DEF EntryOK
    <3>2. CASE e = entry
      BY <1>4, <1>5, <3>2
    <3>3. CASE e # entry /\ e \notin LiveEntries(t)
      BY <1>1, <1>4, <1>5, <3>3 DEF LargeOK
    <3> QED
      BY <3>1, <3>2, <3>3
  <2>2. t.large_cnt = Cardinality(LiveEntries(t))
    <3> DEFINE L == LiveEntries(s)
    <3>1. IsFiniteSet(L) /\ entry \in L
      BY LiveEntriesFinite
    <3> HIDE DEF L
    <3>2. Cardinality(L \ {entry}) = Cardinality(L) - 1
      BY <3>1, FS_RemoveElement
    <3> QED
      BY <1>1, <1>2, <1>5, <3>2 DEF LargeOK, L
  <2> QED
    BY <1>1, <1>2, <1>5, <2>1, <2>2 DEF LargeOK
<1>8. PagesOK(t)
  <2>1. /\ \A p : p \in s.pages <=> \/ \E z \in Zones : p \in ArenaPages(s, z)
                                    \/ \E e \in LiveEntries(s) : p \in EntryPages(s, e)
        /\ \A p : ~(p \in ArenaPages(s, "tiny") /\ p \in ArenaPages(s, "small"))
        /\ \A z \in Zones, e \in LiveEntries(s) : \A p :
             ~(p \in ArenaPages(s, z) /\ p \in EntryPages(s, e))
        /\ \A e, f \in LiveEntries(s) : \A p :
             e # f => ~(p \in EntryPages(s, e) /\ p \in EntryPages(s, f))
    BY <1>1, PagesOKByPage
  <2>2. \A p : p \in t.pages <=> p \in s.pages /\ p \notin EntryPages(s, entry)
    BY <1>2
  <2>3. \A p : p \in t.pages <=> \/ \E z \in Zones : p \in ArenaPages(t, z)
                                 \/ \E e \in LiveEntries(t) : p \in EntryPages(t, e)
    BY <1>3, <1>5, <1>6, <2>1, <2>2
  <2>4. \A z \in Zones, e \in LiveEntries(t) : \A p :
          ~(p \in ArenaPages(t, z) /\ p \in EntryPages(t, e))
    BY <1>3, <1>6, <2>1
  <2>5. \A e, f \in LiveEntries(t) : \A p :
          e # f => ~(p \in EntryPages(t, e) /\ p \in EntryPages(t, f))
    BY <1>6, <2>1
  <2>6. \A p : ~(p \in ArenaPages(t, "tiny") /\ p \in ArenaPages(t, "small"))
    BY <1>3, <2>1
  <2> QED
    BY <2>3, <2>4, <2>5, <2>6, PagesOKByPage
<1> QED
  BY <1>2, <1>3, <1>7, <1>8 DEF AllocOK

(***************************************************************************)
(* free_impl keeps the tables well formed for every pointer it is handed,  *)
(* live or not, and also when it ends in print_error.                      *)
(***************************************************************************)
THEOREM FreeImplCorrect ==
  ASSUME NEW s, AllocOK(s), NEW ptr \in Addr, NEW o \in free_impl(s, ptr)
  PROVE  AllocOK(o.st) /\ o.ret = NULL
<1> DEFINE owner == find_live_allocation(s, ptr)
<1>1. owner = NoOwner \/ SlotOwner(s, owner, ptr) \/ EntryOwner(s, owner, ptr)
  BY OwnerFound
<1>2. CASE owner = NoOwner
  BY <1>2 DEF free_impl, Return
<1>3. CASE owner # NoOwner /\ SlotOwner(s, owner, ptr)
  <2>1. o = Return(ClearSlot(s, owner), NULL)
    BY <1>3 DEF free_impl, SlotOwner
  <2> QED
    BY <1>3, <2>1, ClearSlotOK DEF Return
<1>4. CASE owner # NoOwner /\ EntryOwner(s, owner, ptr)
  <2> HIDE DEF owner
  <2>1. owner.zone = "large" /\ owner.slot \in LiveEntries(s) /\ owner.slot \in Entries
    BY <1>4 DEF EntryOwner, LiveEntries
  <2>2. o = Return(ClearLarge(s, owner), NULL) \/ o = Exit(s)
    BY <1>4, <2>1 DEF free_impl, owner
  <2>3. s \in StateType
    BY DEF AllocOK
  <2>4. AllocOK(ClearLarge(s, owner))
    BY <2>1, <2>3, DropFields, DroppedOK
  <2> QED
    BY <2>2, <2>4 DEF Return, Exit
<1> QED
  BY <1>1, <1>2, <1>3, <1>4

-----------------------------------------------------------------------------
(***************************************************************************)
(* realloc_impl.                                                           *)
(***************************************************************************)
\* The capacity of a slot ends where the next slot begins.
LEMMA SlotCapacity ==
  ASSUME NEW s, AllocOK(s), NEW owner, NEW ptr, SlotOwner(s, owner, ptr)
  PROVE  Capacity(s, owner) = Stride(owner.zone) - METASIZE
<1> DEFINE zone == owner.zone
           slot == owner.slot
<1>1. zone \in Zones /\ slot \in Slots /\ s.zone_flag[zone]
  BY DEF SlotOwner
<1>2. SlotOK(s, zone, slot)
  BY <1>1 DEF AllocOK, PoolOK
<1>3. s.meta[OwnerHeader(s, owner)].size = Stride(zone) + slot \div BITS
  BY <1>1, <1>2 DEF SlotOK, OwnerHeader
<1> HIDE DEF zone, slot
<1>4. LET size == Stride(zone) + slot \div BITS
      IN  size - (size % INDEX_UNIT) = Stride(zone)
  BY <1>1, MaskIndex
<1> QED
  BY <1>3, <1>4 DEF Capacity, zone, slot

LEMMA EntryCapacity ==
  ASSUME NEW s, AllocOK(s), NEW owner, NEW ptr, EntryOwner(s, owner, ptr)
  PROVE  /\ Capacity(s, owner) \in Int
         /\ Capacity(s, owner) = s.meta[s.large[owner.slot]].size - METASIZE
<1> DEFINE size == s.meta[s.large[owner.slot]].size
<1>1. size \in Nat
  BY EntryPage DEF EntryOwner
<1>2. s.meta[OwnerHeader(s, owner)].size = size
  BY DEF EntryOwner, OwnerHeader
<1>3. size % INDEX_UNIT = 0
  BY Positive DEF EntryOwner, AllocOK, LargeOK, EntryOK, LiveEntries
<1> HIDE DEF size
<1>4. Capacity(s, owner) = (size - (size % INDEX_UNIT)) - METASIZE
  BY <1>2 DEF Capacity
<1>5. Capacity(s, owner) \in Int /\ Capacity(s, owner) = size - METASIZE
  BY <1>1, <1>3, <1>4, Positive
<1> QED
  BY <1>5 DEF size

LEMMA ResizeSlotOK ==
  ASSUME NEW s, AllocOK(s), NEW owner, NEW ptr, SlotOwner(s, owner, ptr),
         NEW n \in Nat \ {0}, n <= Capacity(s, owner)
  PROVE  AllocOK(ResizeInPlace(s, owner, n))
<1> DEFINE zone == owner.zone
           slot == owner.slot
           head == Header(s.arena[zone], zone, slot)
           r == Stamp(s, head, n)
<1>1. zone \in Zones /\ slot \in Slots /\ s.zone_flag[zone] /\ slot \in s.bitmap[zone]
  BY DEF SlotOwner
<1>2. ResizeInPlace(s, owner, n) = r
  BY <1>1 DEF ResizeInPlace, OwnerHeader
<1>3. n \in 1 .. (Stride(zone) - METASIZE)
  BY <1>1, SlotCapacity, StrideFacts, Positive
<1>4. head \in Addr /\ s \in StateType
  BY <1>1, SlotPage DEF AllocOK
<1>5. Stamped(s, r, head, n)
  BY <1>4, StampFields
<1> HIDE DEF r
<1>6. r = [r EXCEPT !.bitmap[zone] = @ \cup {slot}]
  <2>1. r \in StateType /\ slot \in r.bitmap[zone]
    BY <1>1, <1>5 DEF Stamped
  <2> DEFINE B == [r.bitmap EXCEPT ![zone] = @ \cup {slot}]
  <2>2. B = r.bitmap
    BY <1>1, <2>1 DEF StateType
  <2> HIDE DEF B
  <2>3. r = [r EXCEPT !.bitmap = B]
    BY <2>1, <2>2 DEF StateType
  <2> QED
    BY <2>3 DEF B
<1>7. UsedSlot(s, r, zone, slot, n)
  BY <1>5, <1>6 DEF UsedSlot
<1> QED
  BY <1>1, <1>2, <1>3, <1>7, UsedSlotOK

LEMMA ResizeEntryOK ==
  ASSUME NEW s, AllocOK(s), NEW owner, NEW ptr, EntryOwner(s, owner, ptr),
         NEW n \in Nat \ {0}, n <= Capacity(s, owner)
  PROVE  AllocOK(ResizeInPlace(s, owner, n))
<1> DEFINE entry == owner.slot
           base == s.large[entry]
           r == Stamp(s, base, n)
           t == ResizeInPlace(s, owner, n)
           L == [r.large_request_sizes EXCEPT ![entry] = n]
<1>1. entry \in LiveEntries(s) /\ owner.zone = "large" /\ entry \in 0 .. LARGES
  BY Positive DEF EntryOwner, LiveEntries
<1>2. /\ base \in Addr /\ s.meta[base].size \in Nat
      /\ n \in 1 .. (s.meta[base].size - METASIZE)
  BY <1>1, EntryPage, EntryCapacity, Positive
<1>3. s \in StateType /\ LargeOK(s) /\ PagesOK(s) /\ \A z \in Zones : PoolOK(s, z)
  BY DEF AllocOK
<1>4. t = [r EXCEPT !.large_request_sizes = L]
  BY <1>1 DEF ResizeInPlace, OwnerHeader
<1>5. Stamped(s, r, base, n)
  BY <1>2, <1>3, StampFields
<1> HIDE DEF r, t
<1>6. L \in [0 .. LARGES -> Nat]
  BY <1>1, <1>5 DEF Stamped, StateType
<1> HIDE DEF L, base
<1>7. /\ t \in StateType
      /\ t.arena = s.arena /\ t.zone_flag = s.zone_flag /\ t.bitmap = s.bitmap
      /\ t.large = s.large /\ t.large_cnt = s.large_cnt
      /\ t.large_request_sizes = L
      /\ t.large_flag = s.large_flag /\ t.pages = s.pages
      /\ t.meta[base].client_size = ToInt(n)
      /\ \A a \in Addr : /\ t.meta[a].size = s.meta[a].size
                         /\ t.meta[a].position = s.meta[a].position
                         /\ a # base => t.meta[a] = s.meta[a]
  BY <1>4, <1>5, <1>6 DEF Stamped, StateType
<1>8. ASSUME NEW z \in Zones
      PROVE  PoolOK(t, z) /\ ArenaPages(t, z) = ArenaPages(s, z)
  <2>1. t.zone_flag[z] = s.zone_flag[z] /\ t.arena[z] = s.arena[z] /\ t.bitmap[z] = s.bitmap[z]
    BY <1>7
  <2>2. ASSUME s.zone_flag[z], NEW i \in Slots
        PROVE  t.meta[Header(s.arena[z], z, i)] = s.meta[Header(s.arena[z], z, i)]
    <3>1. Header(s.arena[z], z, i) \in Addr
      BY <2>2, SlotPage
    <3>2. Header(s.arena[z], z, i) # base
      BY <1>1, <2>2, HeadsApart, EntryPage DEF base
    <3> QED
      BY <1>7, <3>1, <3>2
  <2> QED
    BY <1>3, <2>1, <2>2, PoolFrame
<1>9. LiveEntries(t) = LiveEntries(s)
  BY <1>7 DEF LiveEntries
<1>10. \A e \in LiveEntries(s) : /\ s.large[e] \in Addr
                                 /\ t.meta[s.large[e]].size = s.meta[s.large[e]].size
                                 /\ t.meta[s.large[e]].position = s.meta[s.large[e]].position
                                 /\ EntryPages(t, e) = EntryPages(s, e)
  BY <1>7, EntryPage DEF EntryPages
<1>11. /\ t.large_request_sizes[entry] = n
       /\ \A e \in 0 .. LARGES : e # entry =>
            t.large_request_sizes[e] = s.large_request_sizes[e]
  <2>1. s.large_request_sizes \in [0 .. LARGES -> Nat]
        /\ r.large_request_sizes = s.large_request_sizes
    BY <1>3, <1>5 DEF StateType, Stamped
  <2> QED
    BY <1>1, <1>7, <2>1 DEF L
<1>12. LargeOK(t)
  <2>1. ASSUME NEW e \in 0 .. LARGES
        PROVE  IF e \in LiveEntries(t) THEN EntryOK(t, e)
               ELSE t.large[e] = 0 /\ t.large_request_sizes[e] = 0
    <3>1. CASE e \in LiveEntries(s)
      <4>1. EntryOK(s, e)
        BY <1>3, <3>1 DEF LargeOK
      <4>2. t.large_request_sizes[e] \in 1 .. (s.meta[s.large[e]].size - METASIZE)
        BY <1>2, <1>11, <4>1 DEF EntryOK, base
      <4>3. t.meta[s.large[e]].client_size = ToInt(t.large_request_sizes[e])
        <5>1. CASE e = entry
          BY <1>7, <1>11, <5>1 DEF base
        <5>2. CASE e # entry
          <6>1. s.large[e] # base
            BY <1>1, <3>1, <5>2, HeadsApart, EntryPage DEF base
          <6>2. t.meta[s.large[e]] = s.meta[s.large[e]]
            BY <1>7, <1>10, <3>1, <6>1
          <6>3. e \in 0 .. LARGES
            BY <3>1, Positive DEF LiveEntries
          <6> QED
            BY <1>11, <4>1, <5>2, <6>2, <6>3 DEF EntryOK
        <5> QED
          BY <5>1, <5>2
      <4> QED
        BY <1>7, <1>9, <1>10, <3>1, <4>1, <4>2, <4>3 DEF EntryOK
    <3>2. CASE e \notin LiveEntries(s)
      BY <1>1, <1>3, <1>7, <1>9, <1>11, <3>2 DEF LargeOK
    <3> QED
      BY <3>1, <3>2
  <2> QED
    BY <1>3, <1>7, <1>9, <2>1 DEF LargeOK
<1>13. PagesOK(t)
  BY <1>3, <1>7, <1>8, <1>9, <1>10, PagesFrame
<1> QED
  BY <1>7, <1>8, <1>12, <1>13 DEF AllocOK, t

\* Writing to the blocks changes no table.
LEMMA MemoryOK ==
  ASSUME NEW s, AllocOK(s), NEW V \in [Addr -> Values]
  PROVE  LET t == [s EXCEPT !.mem = V]
         IN  AllocOK(t) /\ Extends(s, t)
<1> DEFINE t == [s EXCEPT !.mem = V]
<1>1. s \in StateType
  BY DEF AllocOK
<1>2. /\ t \in StateType
      /\ t.arena = s.arena /\ t.zone_flag = s.zone_flag /\ t.bitmap = s.bitmap
      /\ t.large = s.large /\ t.large_cnt = s.large_cnt
      /\ t.large_request_sizes = s.large_request_sizes
      /\ t.large_flag = s.large_flag /\ t.pages = s.pages /\ t.meta = s.meta
  BY <1>1 DEF StateType
<1> HIDE DEF t
<1>3. \A z \in Zones : PoolOK(t, z) /\ ArenaPages(t, z) = ArenaPages(s, z)
  BY <1>2 DEF AllocOK, PoolOK, SlotOK, ArenaPages
<1>4. /\ LargeOK(t) /\ LiveEntries(t) = LiveEntries(s)
      /\ \A e \in LiveEntries(s) : EntryPages(t, e) = EntryPages(s, e)
  BY <1>2, LargeFrame DEF AllocOK
<1>5. PagesOK(t)
  BY <1>2, <1>3, <1>4, PagesFrame DEF AllocOK
<1>6. Extends(s, t)
  BY <1>2 DEF Extends
<1> QED
  BY <1>2, <1>3, <1>4, <1>5, <1>6 DEF AllocOK, t

LEMMA MemsetOK ==
  ASSUME NEW s, AllocOK(s), NEW dst, NEW len, NEW v \in Values
  PROVE  AllocOK(ft_memset(s, dst, v, len)) /\ Extends(s, ft_memset(s, dst, v, len))
<1> DEFINE V == [a \in Addr |-> IF a \in Region(dst, len) THEN v ELSE s.mem[a]]
<1>1. s.mem \in [Addr -> Values]
  BY DEF AllocOK, StateType
<1>2. V \in [Addr -> Values]
  BY <1>1
<1>3. ft_memset(s, dst, v, len) = [s EXCEPT !.mem = V]
  BY DEF ft_memset
<1> HIDE DEF V
<1> QED
  BY <1>2, <1>3, MemoryOK

LEMMA MemcpyOK ==
  ASSUME NEW s, AllocOK(s), NEW dst \in Addr, NEW src \in Addr, NEW len \in Nat,
         \A i \in 0 .. (len - 1) : src + i \in Addr
  PROVE  AllocOK(ft_memcpy(s, dst, src, len)) /\ Extends(s, ft_memcpy(s, dst, src, len))
<1> DEFINE V == [a \in Addr |-> IF a \in Region(dst, len) THEN s.mem[src + (a - dst)]
                                ELSE s.mem[a]]
<1>1. s.mem \in [Addr -> Values]
  BY DEF AllocOK, StateType
<1>2. ASSUME NEW a \in Addr, a \in Region(dst, len) PROVE src + (a - dst) \in Addr
  <2>1. a - dst \in 0 .. (len - 1)
    BY <1>2 DEF Region, Addr
  <2> QED
    BY <2>1
<1>3. V \in [Addr -> Values]
  BY <1>1, <1>2
<1>4. ft_memcpy(s, dst, src, len) = [s EXCEPT !.mem = V]
  BY DEF ft_memcpy
<1> HIDE DEF V
<1> QED
  BY <1>3, <1>4, MemoryOK

\* What owned ptr still owns it after a call that disturbs no block.
LEMMA OwnerKept ==
  ASSUME NEW s, NEW t, Extends(s, t), NEW owner, NEW ptr,
         SlotOwner(s, owner, ptr) \/ EntryOwner(s, owner, ptr)
  PROVE  SlotOwner(t, owner, ptr) \/ EntryOwner(t, owner, ptr)
<1>1. CASE SlotOwner(s, owner, ptr)
  BY <1>1 DEF SlotOwner, Extends
<1>2. CASE EntryOwner(s, owner, ptr)
  BY <1>2 DEF EntryOwner, Extends, LiveEntries
<1> QED
  BY <1>1, <1>2

-----------------------------------------------------------------------------
(***************************************************************************)
(* Every call ends in a record of its four results, two of them Boolean.   *)
(***************************************************************************)
IsOutcome(o) ==
  /\ o = [st |-> o.st, ret |-> o.ret, refused |-> o.refused, exit |-> o.exit]
  /\ o.refused \in BOOLEAN /\ o.exit \in BOOLEAN

LEMMA PlainOutcomes ==
  ASSUME NEW s, NEW ptr
  PROVE  IsOutcome(Return(s, ptr)) /\ IsOutcome(Refused(s)) /\ IsOutcome(Exit(s))
<1>1. IsOutcome(Return(s, ptr))
  BY DEF IsOutcome, Return
<1>2. \A v, w : [[st |-> s, ret |-> NULL, refused |-> v, exit |-> v] EXCEPT !.refused = w]
                 = [st |-> s, ret |-> NULL, refused |-> w, exit |-> v]
  OBVIOUS
<1>3. \A v, w : [[st |-> s, ret |-> NULL, refused |-> v, exit |-> v] EXCEPT !.exit = w]
                 = [st |-> s, ret |-> NULL, refused |-> v, exit |-> w]
  OBVIOUS
<1>4. Refused(s) = [st |-> s, ret |-> NULL, refused |-> TRUE, exit |-> FALSE]
  BY <1>2, Zenon DEF Refused, Return
<1>5. Exit(s) = [st |-> s, ret |-> NULL, refused |-> FALSE, exit |-> TRUE]
  BY <1>3, Zenon DEF Exit, Return
<1> QED
  BY <1>1, <1>4, <1>5 DEF IsOutcome

LEMMA ChangedOutcome ==
  ASSUME NEW o, IsOutcome(o), NEW s, NEW ptr
  PROVE  /\ IsOutcome([o EXCEPT !.st = s]) /\ [o EXCEPT !.st = s].st = s
         /\ [o EXCEPT !.st = s].ret = o.ret
         /\ IsOutcome([o EXCEPT !.ret = ptr]) /\ [o EXCEPT !.ret = ptr].ret = ptr
         /\ [o EXCEPT !.ret = ptr].st = o.st
<1> DEFINE a == o.st
           b == o.ret
           c == o.refused
           d == o.exit
           f == [o EXCEPT !.st = s]
           g == [o EXCEPT !.ret = ptr]
<1>1. o = [st |-> a, ret |-> b, refused |-> c, exit |-> d] /\ c \in BOOLEAN /\ d \in BOOLEAN
  BY DEF IsOutcome
<1> HIDE DEF a, b, c, d
<1>2. f = [st |-> s, ret |-> b, refused |-> c, exit |-> d]
  BY <1>1
<1>3. g = [st |-> a, ret |-> ptr, refused |-> c, exit |-> d]
  BY <1>1
<1>4. o.ret = b /\ o.st = a
  BY <1>1
<1> HIDE DEF f, g
<1>5. IsOutcome(f) /\ f.st = s /\ f.ret = o.ret
  BY <1>1, <1>2, <1>4 DEF IsOutcome
<1>6. IsOutcome(g) /\ g.ret = ptr /\ g.st = o.st
  BY <1>1, <1>3, <1>4 DEF IsOutcome
<1> QED
  BY <1>5, <1>6 DEF f, g

LEMMA MallocOutcome ==
  ASSUME NEW s, NEW size, NEW o \in malloc_impl(s, size)
  PROVE  IsOutcome(o)
<1> DEFINE n == AtLeastOne(size)
<1>1. CASE Class(n) = "large"
  <2>1. o \in MallocLarge(s, n)
    BY <1>1 DEF malloc_impl
  <2> QED
    BY <2>1, PlainOutcomes DEF MallocLarge
<1>2. CASE Class(n) # "large"
  <2>1. PICK e \in EnsureArena(s, Class(n)) : o = IF e.ret = NULL THEN e ELSE TakeSlot(e.st, Class(n), n)
    BY <1>2 DEF malloc_impl, MallocPool
  <2>2. IsOutcome(e)
    BY <2>1, PlainOutcomes DEF EnsureArena
  <2>3. IsOutcome(TakeSlot(e.st, Class(n), n))
    BY PlainOutcomes DEF TakeSlot
  <2> QED
    BY <2>1, <2>2, <2>3
<1> QED
  BY <1>1, <1>2

LEMMA FreeOutcome ==
  ASSUME NEW s, NEW ptr, NEW o \in free_impl(s, ptr)
  PROVE  IsOutcome(o)
  BY PlainOutcomes DEF free_impl

LEMMA ReallocOutcome ==
  ASSUME NEW s, NEW ptr, NEW n, NEW o \in realloc_impl(s, ptr, n)
  PROVE  IsOutcome(o)
<1> DEFINE owner == find_live_allocation(s, ptr)
           moved == UNION {IF m.ret = NULL THEN {m} ELSE Move(m, ptr, owner) : m \in malloc_impl(s, n)}
<1>1. \/ o \in malloc_impl(s, n) \/ o \in free_impl(s, ptr)
      \/ o = Return(s, NULL) \/ o = Return(ResizeInPlace(s, owner, n), ptr)
      \/ o \in moved
  BY DEF realloc_impl
<1>2. ASSUME o \in moved PROVE IsOutcome(o)
  <2>1. PICK m \in malloc_impl(s, n) : o \in IF m.ret = NULL THEN {m} ELSE Move(m, ptr, owner)
    BY <1>2
  <2>2. CASE m.ret = NULL
    BY <2>1, <2>2, MallocOutcome
  <2>3. CASE m.ret # NULL
    <3> DEFINE c == ft_memcpy(m.st, m.ret, ptr, Requested(m.st, owner))
    <3>1. PICK f \in free_impl(c, ptr) : o = [f EXCEPT !.ret = m.ret]
      BY <2>1, <2>3 DEF Move
    <3> HIDE DEF c
    <3> QED
      BY <3>1, FreeOutcome, ChangedOutcome
  <2> QED
    BY <2>2, <2>3
<1> QED
  BY <1>1, <1>2, MallocOutcome, FreeOutcome, PlainOutcomes

LEMMA CalloOutcome ==
  ASSUME NEW s, NEW nmemb, NEW size, NEW o \in callo_imp(s, nmemb, size)
  PROVE  IsOutcome(o)
<1> DEFINE total == (nmemb * size) % (SIZE_MAX + 1)
<1>1. CASE o = Return(s, NULL)
  BY <1>1, PlainOutcomes
<1>2. CASE o # Return(s, NULL)
  <2>1. PICK m \in malloc_impl(s, total) :
          o = IF m.ret = NULL THEN m ELSE [m EXCEPT !.st = ft_memset(m.st, m.ret, 0, total)]
    BY <1>2 DEF callo_imp
  <2> HIDE DEF total
  <2>2. IsOutcome(m)
    BY MallocOutcome
  <2> QED
    BY <2>1, <2>2, ChangedOutcome
<1> QED
  BY <1>1, <1>2

(***************************************************************************)
(* realloc_impl keeps the tables well formed for every pointer and every   *)
(* length, in place, moving or failing.                                    *)
(***************************************************************************)
THEOREM ReallocImplCorrect ==
  ASSUME NEW s, AllocOK(s), NEW ptr \in Addr, NEW n \in Nat, NEW o \in realloc_impl(s, ptr, n)
  PROVE  AllocOK(o.st) /\ o.ret \in Addr
<1> DEFINE owner == find_live_allocation(s, ptr)
<1>0. 0 \in Addr
  BY Positive DEF Addr
<1>1. CASE ptr = NULL
  <2>1. o \in malloc_impl(s, n)
    BY <1>1 DEF realloc_impl
  <2> QED
    BY <2>1, MallocImplCorrect
<1>2. CASE ptr # NULL /\ n = 0
  <2>1. o \in free_impl(s, ptr)
    BY <1>2 DEF realloc_impl
  <2> QED
    BY <1>0, <2>1, FreeImplCorrect
<1>3. CASE ptr # NULL /\ n # 0 /\ owner = NoOwner
  <2>1. o = Return(s, NULL)
    BY <1>3 DEF realloc_impl
  <2> QED
    BY <1>0, <2>1 DEF Return
<1>4. CASE ptr # NULL /\ n # 0 /\ owner # NoOwner
  <2>1. SlotOwner(s, owner, ptr) \/ EntryOwner(s, owner, ptr)
    BY <1>4, OwnerFound
  <2>2. CASE n <= Capacity(s, owner)
    <3>1. o = Return(ResizeInPlace(s, owner, n), ptr)
      BY <1>4, <2>2 DEF realloc_impl
    <3>2. AllocOK(ResizeInPlace(s, owner, n))
      <4> HIDE DEF owner
      <4> QED
        BY <1>4, <2>1, <2>2, ResizeSlotOK, ResizeEntryOK
    <3> QED
      BY <3>1, <3>2 DEF Return
  <2>3. CASE ~(n <= Capacity(s, owner))
    <3>1. o \in UNION {IF m.ret = NULL THEN {m} ELSE Move(m, ptr, owner) : m \in malloc_impl(s, n)}
      BY <1>4, <2>3 DEF realloc_impl
    <3> HIDE DEF owner
    <3>2. PICK m \in malloc_impl(s, n) : o \in IF m.ret = NULL THEN {m} ELSE Move(m, ptr, owner)
      BY <3>1
    <3>3. AllocOK(m.st) /\ Extends(s, m.st) /\ m.ret \in Addr
      BY MallocImplCorrect
    <3>4. CASE m.ret = NULL
      BY <3>2, <3>3, <3>4
    <3>5. CASE m.ret # NULL
      <4> DEFINE len == Requested(m.st, owner)
                 c == ft_memcpy(m.st, m.ret, ptr, len)
      <4>1. PICK f \in free_impl(c, ptr) : o = [f EXCEPT !.ret = m.ret]
        BY <3>2, <3>5 DEF Move
      <4>2. SlotOwner(m.st, owner, ptr) \/ EntryOwner(m.st, owner, ptr)
        BY <2>1, <3>3, OwnerKept
      <4>3. len \in Nat /\ \A i \in 0 .. (len - 1) : ptr + i \in Addr
        BY <3>3, <4>2, RequestedInside
      <4> HIDE DEF len
      <4>4. AllocOK(c)
        BY <3>3, <4>3, MemcpyOK
      <4> HIDE DEF c
      <4>5. AllocOK(f.st)
        BY <4>1, <4>4, FreeImplCorrect
      <4>6. IsOutcome(f)
        BY <4>1, FreeOutcome
      <4>7. o.st = f.st /\ o.ret = m.ret
        BY <4>1, <4>6, ChangedOutcome
      <4> QED
        BY <3>3, <4>5, <4>7
    <3> QED
      BY <3>4, <3>5
  <2> QED
    BY <2>2, <2>3
<1> QED
  BY <1>1, <1>2, <1>3, <1>4

(***************************************************************************)
(* callo_imp keeps the tables well formed and disturbs no block in use.    *)
(***************************************************************************)
THEOREM CalloImpCorrect ==
  ASSUME NEW s, AllocOK(s), NEW nmemb \in Nat, NEW size \in Nat,
         NEW o \in callo_imp(s, nmemb, size)
  PROVE  AllocOK(o.st) /\ Extends(s, o.st) /\ o.ret \in Addr
<1> DEFINE total == (nmemb * size) % (SIZE_MAX + 1)
<1>1. CASE nmemb # 0 /\ size > SIZE_MAX \div nmemb
  <2>1. o = Return(s, NULL)
    BY <1>1 DEF callo_imp
  <2>2. 0 \in Addr
    BY Positive DEF Addr
  <2> QED
    BY <2>1, <2>2, ExtendsItself DEF Return
<1>2. CASE ~(nmemb # 0 /\ size > SIZE_MAX \div nmemb)
  <2>1. PICK m \in malloc_impl(s, total) :
          o = IF m.ret = NULL THEN m ELSE [m EXCEPT !.st = ft_memset(m.st, m.ret, 0, total)]
    BY <1>2 DEF callo_imp
  <2>2. total \in Nat
    <3>1. nmemb * size \in Int /\ SIZE_MAX + 1 \in Nat \ {0}
      BY Positive
    <3> DEFINE a == nmemb * size
               b == SIZE_MAX + 1
    <3> HIDE DEF a, b
    <3>2. a \in Int /\ b \in Nat \ {0}
      BY <3>1 DEF a, b
    <3>3. a % b \in 0 .. (b - 1)
      BY <3>2, DivMod
    <3> QED
      BY <3>2, <3>3 DEF a, b
  <2> HIDE DEF total
  <2>3. AllocOK(m.st) /\ Extends(s, m.st) /\ m.ret \in Addr
    BY <2>2, MallocImplCorrect
  <2>4. CASE m.ret = NULL
    BY <2>1, <2>3, <2>4
  <2>5. CASE m.ret # NULL
    <3> DEFINE c == ft_memset(m.st, m.ret, 0, total)
    <3>1. AllocOK(c) /\ Extends(m.st, c)
      BY <2>3, MemsetOK, ValuesAssumption
    <3> HIDE DEF c
    <3>2. o = [m EXCEPT !.st = c]
      BY <2>1, <2>5 DEF c
    <3>3. IsOutcome(m)
      BY MallocOutcome
    <3>4. o.st = c /\ o.ret = m.ret
      BY <3>2, <3>3, ChangedOutcome
    <3> QED
      BY <2>3, <3>1, <3>4, ExtendsTransitive
  <2> QED
    BY <2>4, <2>5
<1> QED
  BY <1>1, <1>2

\* The tables of a process that has not allocated yet.
LEMMA InitStateOK == AllocOK(InitState)
<1> DEFINE s == InitState
<1>1. 0 \in Addr /\ 0 \in Values /\ ZeroMeta \in Meta
  BY Positive, ValuesAssumption DEF Addr, ZeroMeta, Meta
<1> DEFINE M == [a \in Addr |-> ZeroMeta]
           V == [a \in Addr |-> 0]
<1>m. M \in [Addr -> Meta] /\ V \in [Addr -> Values]
  BY <1>1
<1> HIDE DEF M, V
<1>2. s \in StateType
  BY <1>1, <1>m DEF InitState, StateType, M, V
<1>3. \A zone \in Zones : ~s.zone_flag[zone] /\ s.arena[zone] = NULL /\ s.bitmap[zone] = {}
  BY DEF InitState
<1>4. \A e \in 0 .. LARGES : s.large[e] = 0 /\ s.large_request_sizes[e] = 0
  BY DEF InitState
<1>5. s.large_cnt = 0 /\ s.pages = {}
  BY DEF InitState
<1> HIDE DEF s
<1>6. LiveEntries(s) = {}
  BY <1>4, Positive DEF LiveEntries
<1>7. LargeOK(s)
  BY <1>4, <1>5, <1>6, FS_EmptySet DEF LargeOK
<1>8. \A zone \in Zones : PoolOK(s, zone) /\ ArenaPages(s, zone) = {}
  BY <1>3 DEF PoolOK, ArenaPages
<1>9. PagesOK(s)
  BY <1>5, <1>6, <1>8, PagesOKByPage
<1> QED
  BY <1>2, <1>7, <1>8, <1>9 DEF AllocOK, s

=============================================================================
