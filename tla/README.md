# A verification project for ft_malloc

`src/` holds a Linux memory allocator: a C library that replaces `malloc`, `free`, `realloc` and
`calloc` (by `LD_PRELOAD`), with a debugging listing `show_alloc_mem`, on top of two small support
libraries, `libft` and a `printf` clone. This directory holds TLA+ models of it, TLC configurations
that model-check them on small instances, and theorems about them checked by TLAPS.

Paths below are relative to the repository (`src/ft_malloc.c` is the allocator).

## 1. Inventory

### 1.1 The allocator (`src/ft_malloc.c`, `src/ft_override.c`, `include/ft_malloc.h`)

| Component | State it keeps | Operations | Interacts with |
|---|---|---|---|
| override layer | none | `malloc free realloc calloc` | forwards to the public calls |
| public calls | `manage_free_mutex` | `ft_malloc ft_free ft_realloc ft_calloc2 show_alloc_mem` | each takes the mutex, runs one unlocked function, releases it; a fork copies the mutex as it is |
| page-size calculation | `flag_tiny`, `flag_small`, the cached page size | `calculater_page_size`, `return_sc_pagesize` | called by `malloc_impl`; marks a pool as asked for |
| arenas and headers | `_tiny`, `_small`, `tiny_flag`, `small_flag`, a `METADATA_t` per slot and mapping | `init_meta_data`, the mmap parts of `malloc_impl` | the kernel |
| bitmaps | `tiny[]`, `small[]` | `find_free_zone`; `free_impl` clears a bit | `malloc_impl`, `live_pool_slot` |
| LARGE table | `large[]`, `large_cnt`, `large_request_sizes[]`, `large_flag`, `METADATA_t.position` | `malloc_impl` enters, `realloc_impl` resizes, `free_impl` removes | the kernel |
| ownership check | none | `live_pool_slot`, `find_live_allocation` | every pointer a client hands in goes through it |
| unlocked functions | none of their own | `malloc_impl free_impl realloc_impl callo_imp` | call each other, never the public calls |
| listing | none | `show_alloc_mem` | reads bitmaps, headers and table under the mutex |
| error exit | none | `print_error` | `exit`, so the program's exit handlers, with the mutex held |

What is hard here:

- *Many records of one fact.* A LARGE block is recorded in `large[]`, `large_request_sizes[]`,
  `large_cnt` and the header's `position`; three functions keep them. A pool slot is a bit, a header
  and an index hidden in the low bits of the header's `size`.
- *Any pointer may come in.* A freed, interior or foreign pointer must change nothing
  (`portfolio_audit/profile_a/improvement.md`), and headers must not be trusted before ownership is known.
- *Partial failure.* The kernel may refuse any `mmap`, and `munmap` may fail; flags are set before
  the call that may fail; `realloc` must keep the original when the replacement cannot be had.
- *Numeric edges.* Capacity is stride minus header minus index bits; a LARGE length is rounded up to
  pages near `LONG_MAX`; `nmemb * size` may wrap; `client_size` is an `int`.
- *Concurrency.* All the state is global, one non-recursive mutex protects it, the failing
  path of `free_impl` leaves through `exit` while holding it, and nothing sees to the mutex at a `fork`.

What makes it correct: the tables say exactly what clients hold (`Agreement`), blocks do not share
bytes with each other or with headers (`NoOverlap`, `NoAlias`), data survives (`ContentsKept`), the
kernel's mappings are exactly the ones in use (`MappedExactly`), the records agree (`PoolTables`,
`LargeTable`), NULL has a reason (`NullExplained`), the listing shows what is there (`ListingIsLive`), calls are
atomic, start from whole tables and come back (`CallsAreAtomic`, `CallsStartWhole`, `CallsReturn`), and all of it
together: the allocator implements an abstract heap (`ImplementsHeap`).

### 1.2 Support code

| Component | State | Status |
|---|---|---|
| `libft` memory functions (`ft_memcpy`, `ft_memset`, `ft_memmove`) | none | modelled: the first two where the allocator uses them (`AllocImpl`), the last in `Libft` |
| `libft` string functions (`ft_split`, `ft_substr`, `ft_atoi`, ...) | none | modelled but for the trivial ones and `ft_atof` (`Libft`, `LibftText`), against reference definitions |
| `get_next_line` (`libft/gnl_check_bonus`) | a static text buffer per descriptor | modelled (`GetNextLine`), with failing reads and exhausted memory |
| `printf` (`ft_printf`, `ft_fprintf` and the number printers) | none | modelled (`FtPrintf`): conversions, writes, counts, where the output goes |
| `src/ft_malloc_ver.0.1.c` | — | an earlier version the Makefile does not build; not modelled |
| tests, benchmarks, `portfolio_audit` | — | not modelled; read as statements of intended behaviour |

What is hard in it: pieces of any length and a text buffer that waits between calls, where memory may end at any
of four allocations (`NothingLost`, `LossIsTold`); writes that fail inside a conversion (`ReplyCounts`); overlapping
buffers (`MoveIsCopy`); boundaries of strings and sizes, signed chars, and ints at their limits (`SeesBytes`,
`SubstrIsMiddle`, `NumbersComeBack`); a split that runs out of memory half-way (`SplitKeepsNothing`).

`PROJECT.json` lists every component with its modules and status, and every hazard at its line.

## 2. The modules

| Module | What it is |
|---|---|
| `AllocImpl` | the unlocked functions of `ft_malloc.c`, as operators from an allocator state to the set of outcomes |
| `Heap` | what an allocator promises: an abstract specification with blocks and bytes only |
| `FtMalloc` | the public calls as a state machine, with the client that makes them; refines `Heap` |
| `FtMallocThreads` | the same calls made by several threads, taken apart into their accesses, with the mutex |
| `GetNextLine` | both versions of `get_next_line`, reading texts that come in pieces of any length |
| `Libft` | memory and string functions of libft on a small memory |
| `LibftText` | its functions that look at strings: searching, comparing, cutting, splitting without memory, numbers |
| `FtPrintf` | `ft_printf` and `ft_fprintf`: the loop over the format, the conversions, the writes |
| `MCFtMalloc`, `MCFtMallocThreads`, `MCGetNextLine`, `MCFtPrintf`, `MCLibft` | values for the constants of the runs |
| `AllocImplProof` | the unlocked functions keep the tables well formed |
| `AllocBlocksProof` | what each of them does to the blocks in use: one more, one less, one resized |
| `FtMallocBlocksProof` | the type and table invariants of `FtMalloc`; what clients hold, against the tables; the refinement of `Heap`; the listing and its total |
| `FtMallocThreadsProof` | the mutex: exclusion, no thread waiting for itself, what a fork freezes |
| `FtMallocAtomicProof` | the accesses of a call, one by one, make one undivided call |
| `GetNextLineProof` | the text is neither lost nor cut wrongly |
| `FtPrintfProof` | counts, errors and bounds of the format loop; the digits it writes are those of its numbers |
| `LibftProof` | every property of `Libft` and `LibftText`: the loops over strings, memory and digits against their references |

### 2.1 AllocImpl

A state is one record: the fields of the global `manage_free`, the static variables of the file and
of `malloc_impl` and `calculater_page_size`, and the memory they describe (`pages` the kernel has
mapped, `meta` the header at each address, `mem` the client's data at each address). Bitmaps are sets
of slot numbers. An outcome has the new state `st`, the returned pointer `ret`, whether the kernel
`refused` an mmap, and whether `print_error` ended the process (`exit`). Sets of outcomes arise only
from the kernel: where it maps, whether it maps, whether `munmap` succeeds.

| Operator | Code |
|---|---|
| `calculater_page_size`, `Masked` | the early returns, including the bit test `!(~flag & size)`, and the rounding |
| `InitPool`, `InitLarge`, `SlotMeta` | `init_meta_data` |
| `find_free_zone`, `Encode`, `Decode` | the scan, and the byte `(front << 4) \| back` it returns |
| `EnsureArena`, `TakeSlot`, `MallocLarge`, `malloc_impl` | `malloc_impl`; the page flag is set before the mmap, the zone flag after it |
| `live_pool_slot`, `find_live_allocation` | the ownership check, on addresses alone |
| `free_impl`, `Capacity`, `ResizeInPlace`, `Move`, `realloc_impl`, `callo_imp` | the functions of these names |
| `PoolLines`, `LargeLines`, `ShownLines` | what `show_alloc_mem` prints: a line per block in use, from the pools and from the table |
| `total_size`, `ShownTotal` | its variable of that name, a `size_t` that adds `int`s, and what is printed of it: `%d` takes an `int` (`printf/ft_printf.c:28`), as `ToInt` does |

The pools differ in the code only by the names TINY and SMALL; here a pool is an element of `Zones`.
The sizes of the code (100 slots, 8 bits, strides 96 and 512, a 16-byte header, an index mask of 15)
are constants. `SizesAssumption` and `EncodingAssumption` say what the code needs of them: a stride is
longer than a header, what is left is an int, every slot index fits under `INDEX_MASK` and into the
zone byte, strides and pages are multiples of `INDEX_MASK + 1`. `StridesAssumption` says that the bit test of
`calculater_page_size` with the flag of the small pool set does not refuse the tiny pool its pages (96 has bits that 512
has not), and that a stride is a long. The code's own values satisfy all of them.

What is abstracted: a header is one value at its first address, not sixteen bytes, so a client store
into a header is not a change of `meta`. `NoOverlap` shows that no byte of a client's block is in a
header, so no store of a client that stays within its block can be one. The headings of
`show_alloc_mem` and the message of `print_error` are left out (how a number is spelled is `FtPrintf`'s), and so are `errno` and the test of the mutex calls'
results (a default mutex does not fail).

### 2.2 FtMalloc

Variables: `manage_free`, the allocator; `owned`, what the client holds (pointer to length asked for,
data stored); `reply`, how the last call looked; `running`. One action per public call plus the
client's store `Write`. Calls are single steps because each holds the mutex throughout; that this
is sound is what `FtMallocThreads` checks (`CallsAreAtomic`). The client passes any size of `Sizes` and
any pointer of `Pointers`, stale, interior and foreign ones included, but it stores only inside blocks
it holds: stores outside are undefined in C.

### 2.3 FtMallocThreads

Every thread has a `pc` and a `frame` (its local variables). A call enters, takes the mutex, and then
goes through the accesses of the unlocked functions one by one: look the pointer up, open the arena,
scan, stamp the header, map, enter the table, record, copy, look up again for the free, unmap or clear
the bit, drop the entry, unlock. The listing reads the pools and the table in two steps and keeps the lines it has
read in `frame.shown`. `before`
remembers the allocator at the moment the mutex was taken. calloc is malloc on the product, then the
zeroing; its overflow test is before everything else.

`Fork` replaces the process by a child: the same memory, mutex included, and only the thread that forked; the
other threads are `gone`. The parent goes on as if nothing had happened, so only the child is followed. A child
forked in the middle of another thread's call is `Orphaned`: the mutex is held by a thread it does not have.

### 2.4 Heap

`blocks` (first address to length) and `bytes`; `Grant`, `Release`, `Resize`, `Store`, `Idle`. The
refinement reads the abstract blocks off the allocator's own tables (`TableBlocks`), through the same
lookup the code uses, so a table entry the lookup misses, or a wrong length in it, is a
violation.

### 2.5 GetNextLine

libft has the function twice, and `bonus` says which one runs: `get_next_line.c` has one static buffer for
all descriptors and always reads before it looks, `get_next_line_bonus.c` has a buffer per descriptor
and looks first. `rest` is the text the kernel still has, `backup` the static buffer (NULL is the empty
text: `ft_get_head` frees an empty buffer), `lines` what was returned. `get_next_line` begins a call, and
returns at once when the bonus version has a line; every `read` is a step `ft_read_sub`, which brings any
number of bytes up to `BUFFER_SIZE`, the end, or an error, and after which `ft_read_file` reads on or the call
finishes. The calls of one descriptor interleave with those of another between calls only, because
the code is sequential. The client uses one descriptor with the plain version. Texts hold no NUL
(the buffers are C strings), and the range test of `fd`, which answers before anything is touched, is left out.

Every `malloc` may be refused (`denied` remembers it), and each is answered in its own way: the read buffer
(`NoBuffer`) as if the text had ended, the joined text (`Unjoined`) by a NULL that the plain version follows and the
bonus version mostly does not, the line (`Headless`) by taking it off the text all the same, the text to keep by
following NULL (`Crash`). A `crashed` process does nothing more.

### 2.6 FtPrintf

`ft_printf` and `ft_fprintf` are the same code twice, once for descriptor 1; here `fd` is a variable. A call
(`ft_fprintf`) makes the empty write that tests the descriptor; `ft_fcallstr` is one turn of the loop, which
reads a character or a conversion and lays out its writes (`Writes`); `write` makes one of them and adds
what it returns to `flag`; `Added` adds `flag` to `cnt2` and returns on -1. The numbers are converted as in the
code, by the growing divisor (`Decimal`) and by remainders (`HexDigits`), and compared with numerals defined by
positions (`Numeral`). A value is chosen when `va_arg` reads it, so it always has the type read. ints
have 8 bits here and pointers 16.

### 2.7 Libft

`mem` is a memory of a few bytes in which strings lie anywhere, overlapping too; `call` is the last call with
its arguments and what it returned. The functions that store (`ft_memset`, `Move`, `Copy`, `Concatenate` for
`ft_memmove`, `ft_strlcpy`, `ft_strlcat`) are actions, with copies byte by byte in the code's order. The others
are operators that keep the code's loops (`cnt1` and `cnt2` of `ft_strnstr`, the two scans of `ft_strtrim`, the
two conditions of `ft_split`, by which words are counted, `Counted`, and saved, `WordAt`) and are compared with a reference in every memory. `ft_strtrim` takes a pointer,
not a string, because its scan from the end may leave the string.

### 2.8 LibftText

The same memory, looked at by the functions that change nothing in it. A loop is a recursive function of its
counter, with the code's bounds. A byte is a `char`, signed and compared with an `unsigned char`, where the code has
it so (`AsChar`): with `CHAR_MAX = 1` the byte 2 stands for the bytes above 127, which `ft_strchr`, `ft_strrchr`,
`ft_strchr_len` and `ft_isinstr` never find, and which therefore separate no words in `ft_split_str`; `ft_memchr` finds
them. `ft_substr` has the two sums it makes of `start` and `len`, in a `size_t` of four bits. `ft_split_str` has the
allocation that fails as an argument; it is a record of the array it filled (`str`, up to the NULL), the room made for it,
the blocks it got, and what `ft_strfree` handed to `free` in which order. `ft_free_two` reads that array up to its first NULL. Numbers are texts of character codes, and
an `ft_atoi` whose digits overflow its int is not `defined`.

## 3. The runs

| Run | Question | Result |
|---|---|---|
| `pools` | two slots per pool, one LARGE entry, every size around the boundaries 1/3 and one that no header can be added to, every address of the space handed in, any placement by the kernel: `TypeOK PoolTables Agreement NoOverlap NoAlias NullExplained ListingIsLive` | holds |
| `large` | three LARGE entries next to the pools, lengths that resize in place and move, one that exceeds an int and is mapped, one that cannot be rounded to pages and one to which no header can be added, totals that exceed an int: `LargeTable MappedExactly ShownTotalIsLive` | holds |
| `data_pools` | data in neighbouring and reused slots, calloc whose product wraps to a small length: `ContentsKept` | holds |
| `heap` | LARGE blocks longer than an int, two values of data, calloc whose product wraps to 0: `Agreement ImplementsHeap` | holds |
| `threads` | two threads, three calls each, a fork at any moment: `TypeOK CallsAreAtomic TablesMatch CallsStartWhole ShowIsSnapshot NoSelfDeadlock`, and no deadlock | holds |
| `threads_live` | two threads, two calls each, a fork at any moment: `CallsReturn` | holds |
| `get_next_line` | every text of at most four characters, both versions, two descriptors, reads of up to three bytes, any read failing, any malloc refused: `NothingLost LinesOrSplit NullMeansEnd LossIsTold CallReturns`, and no deadlock | holds |
| `printf` | every format of up to three characters over conversions, literals and an unknown conversion, and some of four; boundary values; two failing or short writes: `Rendered ReplyCounts MinusOneMeansError StaysInString`, and no deadlock | holds |
| `libft` | every memory of seven bytes of three values, every buffer, string and size in it; every int of eight bits; all sums and products of a four-bit `size_t`: `TrimsBothEnds SplitsAtSeparators CallocIsWhole SeesBytes FindsString SubstrIsMiddle SplitKeepsNothing NumbersComeBack MoveIsCopy StaysInBuffer TruncationShows` | holds |
| `pool_denied` | `README.md:15`, NULL means that the kind's slots are used up | violated |
| `shown_total` | `portfolio_audit/profile_a/test_plan.md:58`, the shown total is the bytes requested, with lengths that are ints: `ShownTotalIsRequested` | violated |
| `exit_under_lock` | `src/ft_malloc.c:303`, no nested locking | violated |

*The small instance.* Strides are 2 and 4, a header is 1, a page is 4, so a tiny slot holds 1 byte, a
small one 3, and anything longer is LARGE; capacity, rounding and index bits all matter at these sizes
(with `BITS = 1` and `INDEX_UNIT = 2`, the second slot already has a nonzero index in its `size`, so
forgetting the mask or the header is visible). The `large` run doubles the strides, the header and the page: with a header of 2, the length 63 plus
a header wraps to 1, which would be rounded up to a page that is much too short; with a header of 1 it wraps to 0, which
`calculater_page_size` answers with -1 anyway. `SIZE_MAX = 63` makes `LONG_MAX = 31`: the size 28 still
fits a `long` but 28, a header and the rounding do not. These two sizes can never be mapped. `INT_MAX` is chosen
per run: 15, which the 18 of `large` exceeds by itself and its 7 and 15 only together; 3 where blocks of 4 and 8 bytes stand for
blocks above 2 GiB.

*Why these bounds are enough for the questions.* Two slots show a full pool, a neighbour and reuse;
one more slot repeats this. Three LARGE entries give a first, a middle and a last entry to be reused
in any order. Seven to ten pages let blocks be placed next to each other, before and after, and let
an address be reused by a block of another kind. The state spaces are finite without counters: only
`MaxCalls` (calls per thread) and `MaxForks` bound a run. `Bases` limits where the kernel starts mappings in the
larger runs; the `pools` run allows every page.

A fork needs one thread in the middle of a call and another that forks and then calls: two threads, one fork.
In `get_next_line`, four characters with a buffer of three show a newline at every place that matters (first,
second, last, at and across the end of a piece), several lines in one piece, empty lines, and texts that end with and without one.
`LinesOrSplit` describes the lines of both versions, which differ: the bonus one returns exactly the lines of the
text; the plain one returns a line of one character at the end of the file in two pieces, the character and
then its newline (get_next_line.c:23 tests the first character where the bonus version tests the
second), and nothing worse. In `libft`, seven bytes hold two strings of three
characters or fewer, enough for a match that begins inside a failed one, for buffers that overlap in either
direction, and for a string with a separator at either end; one byte value above `CHAR_MAX` and one below are in
every memory. Eight-bit ints have the least int, and sixteen times the range in `LLONG_MAX` is more than their digits need.

*Deadlock.* `FtMallocThreads` is checked for deadlock: the only terminal states are those where all
calls are made or the process has ended. The `FtMalloc` runs turn the check off because `print_error`
may end the process, after which nothing happens.

*Fairness.* `CallsReturn` assumes weak fairness of each thread's steps inside the allocator, which is
what a preemptive scheduler gives a thread that is never blocked, and weak fairness of taking the
mutex. The mutex is a default one, which promises no order, so nothing stronger is assumed; a thread
might be overtaken for ever by others that keep calling. With finitely many calls per thread it
cannot be, and the property then says that no path, failing ones included, leaves the mutex locked.
With a fork the mutex can be left locked for good, and `CallsReturn` says so: a call comes back unless its process is
`Orphaned`. Nothing forces a thread to fork, to call, or (in `Release`) `munmap` to succeed.
`GetNextLine` assumes weak fairness of the reads of a call that began, of those (`Served`) for which there is memory:
fairness of all of them would let a call end by the crash that exhausted memory is always able to cause. A read that
fails with text kept and no newline changes nothing, so this also assumes that the reads of a descriptor do not fail for ever: with
endlessly failing reads the loop of `ft_read_file` does not end.

### 3.1 Disagreements between the code and what is said of it

1. *A refused mmap disables a pool for good.* `calculater_page_size` sets its page flag
   (ft_malloc.c:508, 512) before `malloc_impl` tries the mmap (667, 692). When the kernel refuses, the
   zone flag stays clear, so every later request asks `calculater_page_size` again and gets -1. README.md:15
   gives exhausted slots as the reason for NULL. Run `pool_denied`; `NullExplained` shows that this is the only
   other reason.
2. *The printed total is not the requested bytes*, for two reasons. The sum, a `size_t`, is printed with `%d` (449), for
   which `ft_printf` takes an `int` (`printf/ft_printf.c:28`): blocks whose lengths are `int`s are shown as another total once
   they exceed an `int` together. Run `shown_total`, where two blocks of 8 are shown as -16. And `client_size` is an `int` in which
   `malloc_impl` stores a `size_t` (731); `show_alloc_mem` adds it up (446), although `large_request_sizes[]` has the exact length,
   so one LARGE block longer than an `int` makes the sum itself wrong (18 for `Sizes` in that run would show it).
   `large` shows that nothing else goes wrong: whatever the lengths, what is printed is what the client has, as an `int`
   (`ShownTotalIsLive`, checked and proved). `heap` shows that realloc does copy the exact length.
3. *`exit` under the mutex.* `free_impl` calls `print_error` when munmap fails, with the mutex held. An exit
   handler that frees a block then waits for its own thread. Run `exit_under_lock`. Without such a
   handler no thread ever waits for a mutex it holds (`NoSelfDeadlock`, checked and proved).

## 4. The theorems

All hold for every number of slots and entries, all strides, page sizes and widths, all sizes and
pointers clients pass, all behaviour of the kernel, any number of threads and forks, all texts and formats, under the
assumptions named in the modules (`SizesAssumption`, `EncodingAssumption`, `StridesAssumption`, `BasesAssumption`,
`ValuesAssumption`, `ClientAssumption`, `ThreadsAssumption`, `StreamAssumption`, `PrintfAssumption`,
`LibftAssumption`, `TextAssumption`, `WidthAssumption`), which TLC evaluates in every run.

### 4.1 The allocator, one call at a time

- `AllocImplProof`: `MallocImplCorrect`, `FreeImplCorrect`, `ReallocImplCorrect`, `CalloImpCorrect`. Each
  function takes well-formed tables (`AllocOK`) to well-formed tables and returns an address; malloc and
  calloc in addition change no block in use (`Extends`).
- `AllocBlocksProof`: `MallocImplAddsOne`, `FreeImplRemovesOne`, `ReallocImplResizesOne`, `CalloImpAddsZeros`: what a
  function does to the set of blocks in use (`BlockAt`), and that it touches no byte of the others;
  `MallocNullReasons`: why malloc may return NULL.
- `FtMallocBlocksProof`: `IInvHolds`, and from it `TypeCorrect`, `PoolTablesCorrect`, `LargeTableCorrect`,
  `MappedExactlyCorrect`: `Spec => []P` for the invariants the runs check; `BlocksInvHolds`, and from it `AgreementCorrect`, `NoOverlapCorrect`, `NoAliasCorrect`,
  `NullExplainedCorrect`, `ContentsKeptCorrect`; `ImplementsHeapCorrect`, every step of `FtMalloc` is a step of `Heap` or a
  stutter; `ListingCorrect`, the listing shows exactly the blocks held, while their lengths are ints (`LengthsAreInts`: with a longer
  block the header's `client_size` is another number), and `ShownTotalCorrect`, the total printed is the sum of their
  lengths as an `int`, for any lengths.

*The argument.* None of the table invariants is inductive alone. `free_impl` unmaps as many bytes as the
header of the mapping says, and the header is memory; so that pages and tables stay in step
(`MappedExactly`) the header must be what `init_meta_data` wrote (`LargeTable`), which survives because no
other mapping or arena shares its page (`MappedExactly` again), and because writing one slot's header
(`PoolTables`) touches no other header. The inductive invariant `IInv` is their conjunction with the type invariant.
The lemmas are in three layers: arithmetic (division, rounding, strides: `HeaderInjective`,
`ZoneRoundTrip`, `MaskIndex`, `RoundUpBounds`), geometry (which page an address is on, fresh runs share no page
with anything: `SlotPage`, `EntryPage`, `HeadsApart`, `FreshApart`), and one lemma per piece of code
(`OpenArenaOK`, `TakeSlotOK`, `RecordedOK`, `ClearSlotOK`, `DroppedOK`, `ResizeSlotOK`, `ResizeEntryOK`, `MemcpyOK`).

`BlocksInv` adds what clients hold. `BlockAt(s, p, n)` says that a state has a block of `n` bytes at `p`, whichever table
it is in; `Matches` says that these are the client's blocks and that each reads what was stored in it. Agreement needs
the contents for nothing, but the contents need agreement (a byte survives because the block that changes is another
one, and blocks are apart because they are the allocator's), and both need `IInv`. When `print_error` has ended the
process inside `free_impl` or `realloc_impl` the tables may still know a block that was being moved, so only `Holds`
is left. `ImplementsHeap` reads the abstract blocks off the tables; by `BlocksInv` they are the client's, and each
theorem of `AllocBlocksProof` is then a step of `Heap`. The total is a fold over a set of lines and the client's sum a
fold over a set of addresses; a sum does not depend on the order in which its set is taken, and each line is one block
(`BlocksInv`), so one sum is the other along the map from lines to addresses, but for multiples of the range of an `int`:
a `client_size` differs from its length by such a multiple, what wraps around in a `size_t` is one (`WidthAssumption`), and `%d` drops
them in the end, so that without any condition on the lengths the printed total is the client's sum as an `int`.

### 4.2 The calls of several threads

- `FtMallocThreadsProof`: `NoSelfDeadlockCorrect`: unless an exit handler frees, no thread waits for the mutex
  it holds; `MutualExclusionCorrect`: at most one thread is inside the allocator; and `OrphanFrozenCorrect`: once the
  mutex is held by a thread the process does not have, the allocator's state never changes again, so a child waits
  rather than work on torn tables.
- `FtMallocAtomicProof`: `ThreadsInvHolds`, and from it `ThreadsTypeCorrect`, `CallsAreAtomicCorrect`,
  `TablesMatchCorrect`, `CallsStartWholeCorrect`, `ShowIsSnapshotCorrect`, all under `~ExitFrees`: with an exit handler
  that frees, a call may begin inside another one's (finding 3 of 3.1).

*The argument.* `CallsAreAtomic` speaks of the last step of a call only, so its invariant must say what every
step before it has achieved. It does so by what is left: `Rest(label, before, frame, manage_free)` says that what the call
has done since it took the mutex, followed by the rest of the code from `label`, is an outcome of the undivided function from
`before`. Each access then has one lemma that takes the `Rest` of its label to that of the next, and at `unlock` nothing
is left. The states in between are not well formed (a slot is taken before it has a header, an entry before it has a
length), so nothing is said of them; `AllocOK` and what threads hold (`Good`) are said of the states at `lock` and `unlock`, and
`AllocBlocksProof` carries them from one to the other. In a child whose copy was made in the middle of a call nothing
is said of the tables.

### 4.3 The support code

- `GetNextLineProof`: `StreamInvHolds`, and from it `NothingLostCorrect`, `LinesOrSplitCorrect`, `NullMeansEndCorrect` and
  the action property `LossIsToldCorrect`, for both versions, every text and every `BUFFER_SIZE`.
- `FtPrintfProof`: `PrintInvHolds`, and from it `ReplyCountsCorrect`, `MinusOneMeansErrorCorrect`, `StaysInStringCorrect`;
  `RenderedCorrect`, with the least int and every other int and pointer of every width, and its second half by
  itself, `OnlySignsStray`.
- `LibftProof`: for every memory, alphabet and width, `MemoryCorrect`, the action properties `MovesAreCopies`, `CopiesStayInBuffer`,
  `TruncationIsShown`, and `CallocAsksForAll`, `BothEndsAreTrimmed`, `SplitIsAtSeparators`, `NothingIsKept`, `MiddlesAreCut`,
  `BytesAreSeen`, `StringsAreFound`, `NumbersAreReadBack`: all that run `libft` checks.

*The argument.* Every step of `get_next_line` is of one of three kinds: it leaves the text ahead (kept and not read) as it
is, it cuts one line off it, or it loses some (`Stays`, `Cuts`, `Loses`), and then the process dies, the caller is told with
NULL, or it is the bonus version that drops what it has of the line and reads on. The code's index arithmetic is in
one lemma (`CutLine`): wherever the newline is, the two `substr`s at `LineEnd` give the text back when joined, and the first
is a line, or the one character the plain version splits off. `NothingLost`, `LinesOrSplit` and `NullMeansEnd`
follow from the three kinds, each with the others' help: NULL means the end because nothing was lost.
For `ft_printf` the inductive invariant relates the three counters (`cnt2`, `flag`, `reply`) to the bytes written in every
state, and says that the format before `str` was read as whole conversions (`Consumed`): a `%` begins one when
an even number of `%` of its run precede it (`Begins`), which is how the two characters the loop takes at a time meet
the definition of `Unknown`.

`Rendered` needs one invariant more (`RenderInv`): what is written and pending is the meaning of the items begun. The
numerals are the hard part, since the code and the definition find digits from opposite ends. `HexDigits` takes the last
digit off, which is how a numeral grows (`NumeralStep`); `Decimal` divides by the greatest power of ten that is not too
long, and dividing by a power of ten and then by ten is dividing by both (`DivisionTwice`), so it, too, ends in the last
digit.

The functions of libft are compared with references that say where a result is, not how it is found. A scan is one
lemma each way (`ScanUpValue`, `ScanDownValue`): a loop that stops at certain places returns what it has to say of the
first of them. A copy byte by byte is another (`AscendingMoves`, `DescendingMoves`): the direction `ft_memmove` takes is the one
in which no byte is read after it was overwritten. `ft_split` counts words in one loop and cuts them in another; both agree
because each character that is no separator lies in exactly one run, and the runs are cut one after the other
(`SplitCounts`, `WordsAreKept`). For `ft_strnstr` the lemma says what its two counters know when a match fails: every earlier place was
seen to fail, so that going back to the place after it loses none (`SeeksRest`). `ft_itoa` and `ft_putnbr_fd` meet in `Digits`,
and `ft_atoi` reads them again because the last digit is the last step of both (`DigitsAreWorth`).

*In place of induction.* These loops, `FlattenSeq`, and the digits of a number are recursive functions. That such a function
exists, and what it computes, is proved from the least counterexample (`LeastNat`, itself from the well-founded order of
finite sets): `FlatExists`, `FlattenAppend`, `FollowsExists`, `HexIsNumeral`, `DecimalIsNumeral`, `ScanUpExists`, `DigitsType`.

### 4.4 What is only model-checked

Liveness under fairness (`CallsReturn`, `CallReturns`) and deadlock freedom in general, which need ENABLED. Every safety
property and every action property a passing run checks is a theorem as well, the listing's under `LengthsAreInts` and the
threads' under `~ExitFrees`.

## 5. What is not modelled, and the plan

Not modelled: the parent of a fork once the child runs (it does not notice), `vfork` and handlers a program may
register with `pthread_atfork`, signals, alignment of returned pointers, `errno`, a write of `show_alloc_mem` that
does not come back, and a stale pointer whose place was given to somebody else, which the interface cannot tell from
a valid one (`portfolio_audit/profile_a/improvement.md:62`). The model's client does hand such pointers in; the tables then
follow the free. `return_sc_pagesize` is the constant `PAGE`. `src/ft_malloc_ver.0.1.c` is not in the Makefile's `SRC`
(`portfolio_audit/baseline.md:46`), so nothing runs it. Of libft, the tests and conversions of one character are one
condition each, `ft_strmapi` and `ft_striteri` do what their argument does, `ft_atof` computes with doubles, and
the functions that write strings write them. Memory that ends is modelled in the allocator,
in `get_next_line` and in `ft_split_str`; in the rest of libft there is always memory, and the allocations that fail are left
out: `ft_split` (ft_split.c:68, 90) and `ft_substr` of an empty string (ft_substr.c:23) call `exit(1)`, and so does
`ft_strdup` (ft_strdup.c:23), which is not modelled at all; the other `ft_calloc` of `ft_substr` (26) is not tested and its NULL is
written to; `ft_strtrim` copies to its NULL before it tests it (ft_strtrim.c:46-49), and returns NULL where it wanted an empty
string (41); `ft_strndup`, `ft_strjoin` and `ft_itoa` return NULL. Where `start + len + 1` of `ft_substr` wraps around (ft_substr.c:26), `asked` is that wrapped length, but
`SubstrIsMiddle` is about the sums that do not wrap.

Next: exit handlers that run while other threads still allocate, and what of `ThreadsInv` is left with them; the
allocations that fail in `ft_strtrim`, `ft_substr` and `ft_split`.
